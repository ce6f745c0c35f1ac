---------------------------- MODULE Encoding_proofs ----------------------------
(***************************************************************************)
(* Proofs about EncoderPairing, for any encoders, however two outputs share *)
(* them, any periods of the media and any distance of the two threads.      *)
(* While nothing goes wrong, what the packets of an encoder count their     *)
(* time from is the time of what it encoded first, and every encoder of an  *)
(* output that captures has its callback and begins soon.                   *)
(***************************************************************************)
EXTENDS EncoderPairing, WellFoundedInduction, TLAPS

-----------------------------------------------------------------------------
(* Encoders that outputs share: the inductive invariant                     *)

\* What a sequence holds.
Elems(s) == {s[i] : i \in DOMAIN s}

\* The encoders that the output is not done with.
Ahead(o) == Elems(stage[o].with)

Starting == {"pair", "connect", "hook"}
Stopping == {"lock", "erase", "disconnect"}

\* The output rests, or captures and its encoders have begun.
Settled(o) ==
    stage[o].at = "idle" \/ (stage[o].at = "capturing" /\ Begun(o))

\* Of two outputs, one is settled.
OneMoves == \A o, p \in Outputs : o = p \/ Settled(o) \/ Settled(p)

\* An output that works its way through its encoders has one to go on with.
HasNext ==
    \A o \in Outputs :
        stage[o].at \in {"hook"} \cup Stopping =>
            stage[o].with # <<>> /\ Ahead(o) \subseteq Uses(o)

\* The two threads are between the encoders, past time 0, and not far apart.
ClockRuns ==
    LET v == media_time["video"]
        a == media_time["audio"]
    IN  /\ media_at["video"] = "idle" /\ media_at["audio"] \in {"idle", "buffer"}
        /\ v # 0 /\ a # 0
        /\ v <= a + MaxSkew + FramePeriod /\ a <= v + MaxSkew + BlockPeriod
        /\ media_at["audio"] = "buffer" => a <= v + MaxSkew

\* What an encoder without data and one that is not active do not have.
Lives(e) ==
    LET r == encoder[e]
    IN  /\ r.initialized = r.data /\ (r.active => r.data)
        /\ r.callbacks # {} => r.active
        /\ ~r.data => r.paired_encoder = NONE
        /\ ~r.active => ~r.first_received /\ r.start_ts = 0 /\ r.begun = 0

\* The encoders of an output that starts have their data, until it stops.
HaveData ==
    \A o \in Outputs : stage[o].at \in Starting \cup {"capturing"} =>
        \A e \in Uses(o) : encoder[e].data

\* Who has its callback on an encoder: an output that has come to it when it
\* started, until it comes to it when it stops.
CallbackOn(o, e) ==
    /\ stage[o].at \in {"hook", "capturing"} /\ e \in Uses(o) =>
           o \in encoder[e].callbacks \/ (stage[o].at = "hook" /\ e \in Ahead(o))
    /\ o \in encoder[e].callbacks =>
           /\ e \in Uses(o)
           /\ \/ stage[o].at \in {"hook", "capturing"}
              \/ stage[o].at \in Stopping /\ e \in Ahead(o)
    /\ stage[o].at = "disconnect" /\ e = Head(stage[o].with) =>
           encoder[e].callbacks = {}

\* Whom an encoder that has data has it for.
WantedBy(o, e) ==
    \/ o \in encoder[e].callbacks
    \/ stage[o].at \in Starting /\ e \in Uses(o)
    \/ stage[o].at = "disconnect" /\ e = Head(stage[o].with)

Wanted(e) == encoder[e].data => \E o \in Outputs : WantedBy(o, e)

\* The other one of a pair is to be shut down, and so will be this one.
Widowed(e, other) ==
    /\ ~encoder[other].data
    /\ \E o \in Outputs : stage[o].at \in Stopping /\ e \in Ahead(o)

\* Audio that waits for its video: an output has both, the video waits for it
\* too, and begins no earlier than the audio and not long before now.
AudioPairs(a) ==
    LET v == encoder[a].paired_encoder
        start == encoder[v].start_ts
    IN  v # NONE /\ encoder[a].start_ts = 0 =>
            /\ \E o \in Outputs : stage[o].at # "idle" /\ {v, a} \subseteq Uses(o)
            /\ encoder[v].paired_encoder = a \/ Widowed(a, v)
            /\ start # 0 => /\ encoder[a].first_received
                            /\ encoder[a].first_raw_ts <= start
                            /\ media_time["audio"] <= start + MaxSkew + BlockPeriod

\* Video that waits for its audio: the audio waits for it too.
VideoPairs(v) ==
    LET a == encoder[v].paired_encoder
    IN  a # NONE /\ encoder[v].start_ts = 0 =>
            \/ encoder[a].paired_encoder = v /\ encoder[a].start_ts = 0
            \/ Widowed(v, a)

VideoTimes(v) ==
    LET r == encoder[v]
    IN  /\ r.paired_encoder \in AudioEncoders \cup {NONE}
        /\ r.begun = r.start_ts /\ (r.first_received <=> r.start_ts # 0)
        /\ r.input[1] <= r.input[2] /\ r.start_ts <= media_time["video"]

\* What the samples of an encoder are while it waits for its video: those from
\* its first block on, or none when this block is the first.
WaitsWith(r, time) ==
    \/ /\ r.paired_encoder # NONE /\ r.first_raw_ts < time
       /\ r.input = <<r.first_raw_ts, time>>
    \/ r.first_raw_ts = time /\ r.input = <<0, 0>>

\* What holds of the samples of audio that has begun: they are those from its
\* beginning on until there is a whole block of them.
Underway(r) ==
    /\ r.start_ts # 0 /\ r.input[1] <= r.input[2]
    /\ r.begun # 0 => r.start_ts = r.begun
    /\ r.begun = 0 => r.input[1] = r.start_ts /\ r.input[1] < r.input[2]

AudioTimes(a) ==
    LET r == encoder[a]
        time == media_time["audio"]
    IN  /\ r.paired_encoder \in VideoEncoders \cup {NONE}
        /\ r.input[1] <= r.input[2] /\ r.input[2] <= time
        /\ r.start_ts # 0 => Underway(r) /\ r.first_received
        /\ r.start_ts = 0 => r.begun = 0
        /\ r.start_ts # 0 /\ r.begun = 0 => time < r.start_ts + BlockPeriod
        /\ r.first_received /\ r.start_ts = 0 =>
               /\ WaitsWith(r, time)
               /\ media_at["audio"] = "buffer" \/ r.input # <<0, 0>>
        /\ media_at["audio"] = "buffer" /\ r.active => r.first_received

\* The audio that waits for its video, in any behaviour: the samples from its
\* first block on, or none while this block is the first.
Collects(r, time, at) ==
    \/ r.input = <<0, 0>> /\ r.first_raw_ts = time /\ at = "buffer"
    \/ r.input[1] = r.first_raw_ts /\ r.input[1] < r.input[2]

\* What holds of an encoder in any behaviour, for its samples to be an interval
\* of time.
Sampled(e) ==
    LET r == encoder[e]
        time == media_time["audio"]
    IN  /\ r.active => r.data
        /\ ~r.active => ~r.first_received
        /\ r.input[1] <= r.input[2] /\ r.input[2] <= time /\ time # 0
        /\ e \in AudioEncoders =>
               /\ media_at["audio"] = "buffer" /\ r.active => r.first_received
               /\ r.first_received /\ r.start_ts = 0 =>
                      Collects(r, time, media_at["audio"])

\* How late the encoders begin of an output that captures since then.
VideoSince(v, since) ==
    LET r == encoder[v]
    IN  /\ r.start_ts <= since + MaxSkew + FramePeriod
        /\ r.begun = 0 => media_time["video"] <= since + MaxSkew + FramePeriod

AudioSince(a, since) ==
    LET r == encoder[a]
    IN  r.begun = 0 =>
            /\ ~r.first_received => media_time["audio"] <= since
            /\ r.first_received /\ r.start_ts = 0 => r.first_raw_ts <= since
            /\ r.start_ts <= since + MaxSkew + FramePeriod

BeginsSince(o) ==
    stage[o].at = "capturing" =>
        \A e \in Uses(o) :
            IF e \in VideoEncoders THEN VideoSince(e, stage[o].since)
            ELSE AudioSince(e, stage[o].since)

QuietInv ==
    /\ OneMoves /\ ClockRuns /\ HaveData
    /\ \A e \in Encs : Lives(e) /\ Wanted(e)
    /\ \A o \in Outputs, e \in Encs : CallbackOn(o, e)
    /\ \A v \in VideoEncoders : VideoTimes(v) /\ VideoPairs(v)
    /\ \A a \in AudioEncoders : AudioTimes(a) /\ AudioPairs(a)
    /\ \A o \in Outputs : BeginsSince(o)

PairingInv ==
    /\ PairingTypeOK /\ HasNext /\ \A e \in Encs : Sampled(e)
    /\ mishap = "none" => QuietInv

-----------------------------------------------------------------------------
(* Sequences of encoders, records of encoders                               *)

\* What the head and the tail of a sequence hold.
LEMMA ElemsOfTail ==
  ASSUME NEW S, NEW s \in Seq(S), s # <<>>
  PROVE  /\ Head(s) \in S /\ Tail(s) \in Seq(S) /\ Elems(s) \subseteq S
         /\ Elems(s) = {Head(s)} \cup Elems(Tail(s))
         /\ Len(s) > 1 => Tail(s) # <<>>
         /\ ~(Len(s) > 1) => Elems(s) = {Head(s)}
  <1>1. /\ Len(s) \in Nat /\ Len(s) >= 1 /\ Head(s) = s[1]
        /\ DOMAIN s = 1 .. Len(s) /\ \A i \in 1 .. Len(s) : s[i] \in S
      OBVIOUS
  <1>2. /\ Tail(s) \in Seq(S) /\ Len(Tail(s)) = Len(s) - 1
        /\ DOMAIN Tail(s) = 1 .. Len(s) - 1
        /\ \A i \in 1 .. Len(s) - 1 : Tail(s)[i] = s[i + 1]
      BY <1>1
  <1>3. Head(s) \in S /\ Elems(s) \subseteq S
      BY <1>1 DEF Elems
  <1>4. ASSUME NEW x \in Elems(s), x # Head(s) PROVE x \in Elems(Tail(s))
    <2>1. PICK i \in 1 .. Len(s) : x = s[i]
        BY <1>1 DEF Elems
    <2>2. i - 1 \in 1 .. Len(s) - 1 /\ (i - 1) + 1 = i
        BY <1>1, <1>4, <2>1
    <2>3. Tail(s)[i - 1] = x
        BY <1>2, <2>1, <2>2
    <2>4. QED
        BY <1>2, <2>2, <2>3 DEF Elems
  <1>5. ASSUME NEW x \in Elems(Tail(s)) PROVE x \in Elems(s)
    <2>1. PICK i \in 1 .. Len(s) - 1 : x = Tail(s)[i]
        BY <1>2 DEF Elems
    <2>2. i + 1 \in 1 .. Len(s) /\ x = s[i + 1]
        BY <1>1, <1>2, <2>1
    <2>3. QED
        BY <1>1, <2>2 DEF Elems
  <1>6. Head(s) \in Elems(s)
      BY <1>1 DEF Elems
  <1>7. Elems(s) = {Head(s)} \cup Elems(Tail(s))
      BY <1>4, <1>5, <1>6
  <1>8. ASSUME Len(s) > 1, Tail(s) = <<>> PROVE FALSE
    <2>1. Len(Tail(s)) = Len(<<>>)
        BY <1>8, Zenon
    <2>2. Len(<<>>) = 0
        OBVIOUS
    <2>3. QED
        BY <1>1, <1>2, <1>8, <2>1, <2>2
  <1>9. ASSUME ~(Len(s) > 1) PROVE Elems(s) = {Head(s)}
      BY <1>1, <1>9 DEF Elems
  <1>10. QED
      BY <1>2, <1>3, <1>7, <1>8, <1>9

\* What a sequence holds that two others make up.
LEMMA ElemsOfConcat ==
  ASSUME NEW S, NEW s \in Seq(S), NEW t \in Seq(S)
  PROVE  s \o t \in Seq(S) /\ Elems(s \o t) = Elems(s) \cup Elems(t)
  <1>1. /\ Len(s) \in Nat /\ Len(t) \in Nat
        /\ DOMAIN s = 1 .. Len(s) /\ DOMAIN t = 1 .. Len(t)
      OBVIOUS
  <1>2. /\ s \o t \in Seq(S) /\ DOMAIN (s \o t) = 1 .. Len(s) + Len(t)
        /\ \A i \in 1 .. Len(s) + Len(t) :
              (s \o t)[i] = IF i <= Len(s) THEN s[i] ELSE t[i - Len(s)]
      BY <1>1
  <1>3. ASSUME NEW x \in Elems(s \o t) PROVE x \in Elems(s) \cup Elems(t)
    <2>1. PICK i \in 1 .. Len(s) + Len(t) : x = (s \o t)[i]
        BY <1>2 DEF Elems
    <2>2. CASE i <= Len(s)
      <3>1. i \in DOMAIN s /\ x = s[i]
          BY <1>1, <1>2, <2>1, <2>2
      <3>2. QED
          BY <3>1 DEF Elems
    <2>3. CASE ~(i <= Len(s))
      <3>1. i - Len(s) \in DOMAIN t /\ x = t[i - Len(s)]
          BY <1>1, <1>2, <2>1, <2>3
      <3>2. QED
          BY <3>1 DEF Elems
    <2>4. QED
        BY <2>2, <2>3
  <1>4. ASSUME NEW x \in Elems(s) PROVE x \in Elems(s \o t)
    <2>1. PICK i \in 1 .. Len(s) : x = s[i]
        BY <1>1 DEF Elems
    <2>2. i \in 1 .. Len(s) + Len(t) /\ (s \o t)[i] = x
        BY <1>1, <1>2, <2>1
    <2>3. QED
        BY <1>2, <2>2 DEF Elems
  <1>5. ASSUME NEW x \in Elems(t) PROVE x \in Elems(s \o t)
    <2>1. PICK i \in 1 .. Len(t) : x = t[i]
        BY <1>1 DEF Elems
    <2>2. /\ i + Len(s) \in 1 .. Len(s) + Len(t) /\ ~(i + Len(s) <= Len(s))
          /\ (i + Len(s)) - Len(s) = i
        BY <1>1, <2>1
    <2>3. (s \o t)[i + Len(s)] = x
        BY <1>2, <2>1, <2>2
    <2>4. QED
        BY <1>2, <2>2, <2>3 DEF Elems
  <1>6. QED
      BY <1>2, <1>3, <1>4, <1>5

\* Whom an output uses; it takes the same encoders when it stops.
LEMMA UsesTyped ==
  ASSUME PairingTypeOK, NEW o \in Outputs
  PROVE  /\ sharing[o].video \in VideoEncoders
         /\ sharing[o].audio \in Seq(AudioEncoders)
         /\ EncodersOf(o) \in Seq(Encs) /\ EncodersOf(o) # <<>>
         /\ Elems(EncodersOf(o)) = Uses(o) /\ Uses(o) \subseteq Encs
         /\ sharing[o].video \in Uses(o)
         /\ Elems(sharing[o].audio) \subseteq Uses(o)
         /\ <<sharing[o].video>> \o sharing[o].audio \in Seq(Encs)
         /\ <<sharing[o].video>> \o sharing[o].audio # <<>>
         /\ Elems(<<sharing[o].video>> \o sharing[o].audio) = Uses(o)
  <1> DEFINE v == sharing[o].video
             s == sharing[o].audio
  <1>1. sharing[o] \in [video : VideoEncoders, audio : Seq(AudioEncoders)]
      BY Zenon DEF PairingTypeOK
  <1>2. v \in VideoEncoders /\ s \in Seq(AudioEncoders)
      BY <1>1
  <1> HIDE DEF v, s
  <1>3. v \in Encs /\ s \in Seq(Encs) /\ <<v>> \in Seq(Encs)
      BY <1>2 DEF Encs
  <1>4. Elems(<<v>>) = {v}
      BY DEF Elems
  <1>5. /\ s \o <<v>> \in Seq(Encs) /\ Elems(s \o <<v>>) = Elems(s) \cup {v}
        /\ <<v>> \o s \in Seq(Encs) /\ Elems(<<v>> \o s) = {v} \cup Elems(s)
    <2> DEFINE Joins(S) == \A p, q \in Seq(S) :
                   p \o q \in Seq(S) /\ Elems(p \o q) = Elems(p) \cup Elems(q)
    <2>0. Joins(Encs)
        BY ElemsOfConcat
    <2>1. s \o <<v>> \in Seq(Encs) /\ Elems(s \o <<v>>) = Elems(s) \cup Elems(<<v>>)
        BY <1>3, <2>0, Zenon
    <2>2. <<v>> \o s \in Seq(Encs) /\ Elems(<<v>> \o s) = Elems(<<v>>) \cup Elems(s)
        BY <1>3, <2>0, Zenon
    <2>3. QED
        BY <1>4, <2>1, <2>2
  <1>6. s \o <<v>> # <<>> /\ <<v>> \o s # <<>>
      BY <1>4, <1>5 DEF Elems
  <1>7. Elems(s \o <<v>>) \subseteq Encs
      BY <1>5, <1>6, ElemsOfTail, Zenon
  <1>8. EncodersOf(o) = s \o <<v>> /\ Uses(o) = Elems(s \o <<v>>)
      BY Zenon DEF EncodersOf, Uses, Elems, s, v
  <1>9. QED
      BY <1>2, <1>5, <1>6, <1>7, <1>8, Zenon DEF s, v

\* An encoder that is shut down, initialized or started: what it has then.
LEMMA ShutdownTyped ==
  ASSUME NEW r \in EncoderType
  PROVE  LET q == ShutdownEncoder(r)
         IN  /\ q \in EncoderType /\ q.data = FALSE
             /\ q.initialized = r.initialized /\ q.active = r.active
             /\ q.callbacks = r.callbacks /\ q.input = r.input
             /\ r.data => /\ q.paired_encoder = NONE /\ ~q.first_received
                          /\ q.start_ts = 0 /\ q.begun = 0
             /\ ~r.data => q = r
  <1>1. CASE r.data
    <2> DEFINE q == [initialized |-> r.initialized, data |-> FALSE,
                     active |-> r.active, callbacks |-> r.callbacks,
                     paired_encoder |-> NONE, first_received |-> FALSE,
                     first_raw_ts |-> r.first_raw_ts, start_ts |-> 0,
                     input |-> r.input, begun |-> 0]
    <2>1. ShutdownEncoder(r) = q
        BY <1>1 DEF ShutdownEncoder, EncoderType
    <2>2. q \in EncoderType
        BY DEF EncoderType
    <2>3. QED
        BY <1>1, <2>1, <2>2
  <1>2. CASE ~r.data
    <2>1. r.data = FALSE
        BY <1>2 DEF EncoderType
    <2>2. QED
        BY <1>2, <2>1 DEF ShutdownEncoder
  <1>3. QED
      BY <1>1, <1>2

\* An encoder that is initialized has data then, unless it is active.
LEMMA InitializedTyped ==
  ASSUME NEW r \in EncoderType
  PROVE  LET q == InitializedEncoder(r)
         IN  /\ q \in EncoderType
             /\ r.active \/ r.initialized => q = r
             /\ ~(r.active \/ r.initialized) =>
                    /\ q.data = TRUE /\ q.initialized = TRUE /\ q.active = FALSE
                    /\ q.callbacks = r.callbacks /\ q.input = <<0, 0>>
                    /\ r.data => ~q.first_received
                    /\ ~r.data => /\ q.paired_encoder = r.paired_encoder
                                  /\ q.first_received = r.first_received
                                  /\ q.start_ts = r.start_ts
                                  /\ q.begun = r.begun
  <1>1. CASE r.active \/ r.initialized
      BY <1>1 DEF InitializedEncoder
  <1>2. CASE ~(r.active \/ r.initialized)
    <2> DEFINE s == ShutdownEncoder(r)
               q == [s EXCEPT !.data = TRUE, !.initialized = TRUE,
                              !.input = <<0, 0>>]
    <2>1. /\ s \in EncoderType /\ s.active = r.active
          /\ s.callbacks = r.callbacks /\ (~r.data => s = r)
          /\ r.data => ~s.first_received
        BY ShutdownTyped
    <2>2. r.active = FALSE
        BY <1>2 DEF EncoderType
    <2> HIDE DEF s
    <2>3. /\ q \in EncoderType /\ q.data = TRUE /\ q.initialized = TRUE
          /\ q.active = s.active /\ q.callbacks = s.callbacks
          /\ q.paired_encoder = s.paired_encoder
          /\ q.first_received = s.first_received
          /\ q.start_ts = s.start_ts /\ q.begun = s.begun
          /\ q.input = <<0, 0>>
        BY <2>1 DEF EncoderType
    <2>4. InitializedEncoder(r) = q
        BY <1>2 DEF InitializedEncoder, s
    <2> HIDE DEF q
    <2>5. QED
        BY <1>2, <2>1, <2>2, <2>3, <2>4
  <1>3. QED
      BY <1>1, <1>2

\* An encoder that is started: it has data, or nothing is done.
LEMMA StartedTyped ==
  ASSUME NEW r \in EncoderType, NEW o \in Outputs
  PROVE  LET q == StartedEncoder(r, o)
         IN  /\ q \in EncoderType
             /\ ~r.data => q = r
             /\ r.data => /\ q.callbacks = r.callbacks \cup {o}
                          /\ q.active = (r.active \/ r.callbacks = {})
             /\ q.data = r.data /\ q.initialized = r.initialized
             /\ q.paired_encoder = r.paired_encoder
             /\ q.first_received = r.first_received
             /\ q.first_raw_ts = r.first_raw_ts
             /\ q.start_ts = r.start_ts /\ q.begun = r.begun
             /\ q.input = r.input
  <1>1. CASE r.data
    <2> DEFINE q == [initialized |-> r.initialized, data |-> r.data,
                     active |-> (r.active \/ r.callbacks = {}),
                     callbacks |-> r.callbacks \cup {o},
                     paired_encoder |-> r.paired_encoder,
                     first_received |-> r.first_received,
                     first_raw_ts |-> r.first_raw_ts, start_ts |-> r.start_ts,
                     input |-> r.input, begun |-> r.begun]
    <2>1. StartedEncoder(r, o) = q
        BY <1>1 DEF StartedEncoder, EncoderType
    <2>2. (r.active \/ r.callbacks = {}) \in BOOLEAN
        OBVIOUS
    <2>3. r.callbacks \cup {o} \in SUBSET Outputs
        BY DEF EncoderType
    <2>4. q \in EncoderType
        BY <2>2, <2>3 DEF EncoderType
    <2>5. QED
        BY <1>1, <2>1, <2>4
  <1>2. CASE ~r.data
      BY <1>2 DEF StartedEncoder
  <1>3. QED
      BY <1>1, <1>2

\* An encoder that the last output has stopped.
StoppedEncoder(r) ==
    [ShutdownEncoder(r) EXCEPT !.active = FALSE, !.initialized = FALSE]

\* An encoder that is stopped has nothing any more; one that failed still counts
\* as initialized.
LEMMA StoppedTyped ==
  ASSUME NEW r \in EncoderType
  PROVE  LET q == StoppedEncoder(r)
         IN  /\ q \in EncoderType /\ ~q.data /\ ~q.active /\ ~q.initialized
             /\ q.callbacks = r.callbacks /\ q.input = r.input
             /\ r.data => /\ q.paired_encoder = NONE /\ ~q.first_received
                          /\ q.start_ts = 0 /\ q.begun = 0
             /\ ~r.data => /\ q.paired_encoder = r.paired_encoder
                           /\ q.first_received = r.first_received
                           /\ q.start_ts = r.start_ts /\ q.begun = r.begun
             /\ [ShutdownEncoder(r) EXCEPT !.active = FALSE] \in EncoderType
  <1> DEFINE s == ShutdownEncoder(r)
             q == [s EXCEPT !.active = FALSE, !.initialized = FALSE]
  <1>1. /\ s \in EncoderType /\ s.data = FALSE
        /\ s.callbacks = r.callbacks /\ s.input = r.input
        /\ r.data => /\ s.paired_encoder = NONE /\ ~s.first_received
                     /\ s.start_ts = 0 /\ s.begun = 0
        /\ ~r.data => s = r
      BY ShutdownTyped
  <1> HIDE DEF s
  <1>2. /\ q \in EncoderType /\ q.active = FALSE /\ q.initialized = FALSE
        /\ q.data = s.data /\ q.callbacks = s.callbacks
        /\ q.paired_encoder = s.paired_encoder
        /\ q.first_received = s.first_received
        /\ q.start_ts = s.start_ts /\ q.begun = s.begun
        /\ q.input = s.input
      BY <1>1 DEF EncoderType
  <1>3. StoppedEncoder(r) = q
      BY DEF StoppedEncoder, s
  <1> HIDE DEF q
  <1>5. [s EXCEPT !.active = FALSE] \in EncoderType
      BY <1>1 DEF EncoderType
  <1>6. [ShutdownEncoder(r) EXCEPT !.active = FALSE] \in EncoderType
      BY <1>5 DEF s
  <1>7. QED
      BY <1>1, <1>2, <1>3, <1>6

\* Dividing rounds down.
LEMMA Divide ==
  ASSUME NEW x \in Nat, NEW d \in Nat, d > 0
  PROVE  /\ x \div d \in Nat /\ (x \div d) * d <= x
         /\ x < (x \div d) * d + d
  OBVIOUS

\* The numbers the times are made of.
LEMMA PairingNumbers ==
  /\ FramePeriod \in Nat /\ FramePeriod > 0
  /\ BlockPeriod \in Nat /\ BlockPeriod > 0 /\ MaxSkew \in Nat
  BY EncoderPairingAssumption

\* The encoder r is q but for what the media threads change in it.
SameEncoder(q, r) ==
    /\ q.initialized = r.initialized /\ q.data = r.data
    /\ q.active = r.active /\ q.callbacks = r.callbacks
    /\ q.paired_encoder = r.paired_encoder

\* A frame that is not encoded waits for the audio.
Waits(r, time) ==
    /\ ~r.first_received /\ r.paired_encoder # NONE
    /\ LET pair == encoder[r.paired_encoder]
       IN  ~pair.first_received \/ pair.first_raw_ts > time

\* A frame that does not wait is encoded; the first one is what the packets
\* count from.
LEMMA ReceiveTyped ==
  ASSUME NEW r \in EncoderType, NEW time \in Nat
  PROVE  LET q == ReceiveVideo(r, time)
         IN  /\ q \in EncoderType /\ SameEncoder(q, r)
             /\ q.input = r.input /\ q.first_raw_ts = r.first_raw_ts
             /\ Waits(r, time) => q = r
             /\ ~Waits(r, time) =>
                    /\ q.first_received = TRUE
                    /\ q.start_ts = IF r.start_ts = 0 THEN time ELSE r.start_ts
                    /\ q.begun = IF r.begun = 0 THEN time ELSE r.begun
  <1>1. CASE Waits(r, time)
    <2>1. ReceiveVideo(r, time) = r
        BY <1>1 DEF ReceiveVideo, Waits
    <2>2. QED
        BY <1>1, <2>1 DEF SameEncoder
  <1>2. CASE ~Waits(r, time)
    <2> DEFINE s == IF r.start_ts = 0 THEN time ELSE r.start_ts
               b == IF r.begun = 0 THEN time ELSE r.begun
               q == [r EXCEPT !.start_ts = s, !.begun = b,
                              !.first_received = TRUE]
    <2>1. ReceiveVideo(r, time) = q
        BY <1>2 DEF ReceiveVideo, Waits
    <2>2. s \in Nat /\ b \in Nat
        BY DEF EncoderType
    <2> HIDE DEF s, b
    <2>3. /\ q \in EncoderType /\ q.first_received = TRUE
          /\ q.start_ts = s /\ q.begun = b
          /\ q.initialized = r.initialized /\ q.data = r.data
          /\ q.active = r.active /\ q.callbacks = r.callbacks
          /\ q.paired_encoder = r.paired_encoder
          /\ q.input = r.input /\ q.first_raw_ts = r.first_raw_ts
        BY <2>2 DEF EncoderType
    <2>4. SameEncoder(q, r)
        BY <2>3 DEF SameEncoder
    <2> HIDE DEF q
    <2>5. QED
        BY <1>2, <2>1, <2>3, <2>4 DEF s, b
  <1>3. QED
      BY <1>1, <1>2

\* An encoder takes whole blocks of the audio that has begun.
LEMMA EncodeKept ==
  ASSUME NEW r \in EncoderType, Underway(r)
  PROVE  LET q == EncodeAudio(r)
         IN  /\ q \in EncoderType /\ Underway(q) /\ SameEncoder(q, r)
             /\ q.start_ts = r.start_ts /\ q.input[2] = r.input[2]
             /\ q.first_received = r.first_received
             /\ q.first_raw_ts = r.first_raw_ts
             /\ r.begun # 0 => q.begun = r.begun
             /\ q.begun = 0 => q.input[2] < q.start_ts + BlockPeriod
  <1> DEFINE n == r.input[2] - r.input[1]
             blocks == n \div BlockPeriod
             first == r.input[1] + blocks * BlockPeriod
             b == IF r.begun = 0 /\ blocks > 0 THEN r.input[1] ELSE r.begun
             q == [r EXCEPT !.input = <<first, r.input[2]>>, !.begun = b]
  <1>1. /\ r.input \in Nat \X Nat /\ r.start_ts \in Nat /\ r.begun \in Nat
        /\ r.input[1] \in Nat /\ r.input[2] \in Nat
      BY DEF EncoderType
  <1>2. n \in Nat /\ r.input[1] + n = r.input[2]
      BY <1>1 DEF Underway
  <1> HIDE DEF n
  <1>3. PICK whole \in Nat : /\ whole = blocks * BlockPeriod /\ whole <= n
                             /\ n < whole + BlockPeriod
    <2>1. BlockPeriod \in Nat /\ BlockPeriod > 0
        BY PairingNumbers
    <2>2. blocks \in Nat /\ blocks * BlockPeriod <= n
          /\ n < blocks * BlockPeriod + BlockPeriod
        BY <1>2, <2>1, Divide
    <2> HIDE DEF blocks
    <2>3. blocks * BlockPeriod \in Nat
        BY <2>1, <2>2
    <2>4. QED
        BY <2>2, <2>3
  <1>4. blocks \in Nat /\ (blocks = 0 => whole = 0)
    <2>1. BlockPeriod \in Nat /\ BlockPeriod > 0
        BY PairingNumbers
    <2>2. blocks \in Nat
        BY <1>2, <2>1, Divide
    <2> HIDE DEF blocks
    <2>3. QED
        BY <1>3, <2>1, <2>2
  <1>5. EncodeAudio(r) = q
      BY DEF EncodeAudio, n
  <1> HIDE DEF blocks
  <1>6. /\ first \in Nat /\ first = r.input[1] + whole
        /\ first <= r.input[2] /\ r.input[2] < first + BlockPeriod
      BY <1>1, <1>2, <1>3, PairingNumbers
  <1>7. b \in Nat
      BY <1>1
  <1> HIDE DEF first, b
  <1>8. /\ q \in EncoderType /\ q.begun = b /\ q.input = <<first, r.input[2]>>
        /\ q.initialized = r.initialized /\ q.data = r.data
        /\ q.active = r.active /\ q.callbacks = r.callbacks
        /\ q.paired_encoder = r.paired_encoder
        /\ q.first_received = r.first_received
        /\ q.first_raw_ts = r.first_raw_ts /\ q.start_ts = r.start_ts
      BY <1>1, <1>6, <1>7 DEF EncoderType
  <1> HIDE DEF q
  <1>9. q.input[1] = first /\ q.input[2] = r.input[2]
      BY <1>8
  <1>10. r.begun = 0 /\ b = 0 => first = r.input[1]
    <2>1. SUFFICES ASSUME r.begun = 0, b = 0 PROVE first = r.input[1]
        OBVIOUS
    <2>2. r.input[1] # 0
        BY <2>1 DEF Underway
    <2>3. blocks = 0
        BY <1>4, <2>1, <2>2 DEF b
    <2>4. QED
        BY <1>1, <1>4, <1>6, <2>3
  <1>11. /\ b # 0 => r.start_ts = b
         /\ b = 0 => r.begun = 0
         /\ r.begun # 0 => b = r.begun
      BY <1>1 DEF b, Underway
  <1>12. Underway(q)
      BY <1>1, <1>6, <1>8, <1>9, <1>10, <1>11 DEF Underway
  <1>13. b = 0 => r.input[2] < r.start_ts + BlockPeriod
      BY <1>1, <1>6, <1>10, <1>11 DEF Underway
  <1>14. QED
      BY <1>5, <1>8, <1>9, <1>11, <1>12, <1>13 DEF SameEncoder

\* The encoder r with samples up to `end' that its audio, begun at `start', is of.
Goes(q, r, start, end) ==
    /\ q \in EncoderType /\ SameEncoder(q, r) /\ Underway(q)
    /\ q.first_received = r.first_received
    /\ q.first_raw_ts = r.first_raw_ts
    /\ q.start_ts = start /\ q.input[2] = end
    /\ r.begun # 0 => q.begun = r.begun
    /\ q.begun = 0 => end < start + BlockPeriod

\* A block that is buffered: the audio goes on to wait, or goes on, or begins
\* where its video does or, without one, with the block.
LEMMA BufferedKept ==
  ASSUME NEW r \in EncoderType, NEW time \in Nat, time # 0,
         r.input[1] <= r.input[2], r.input[2] <= time,
         r.start_ts # 0 => Underway(r),
         r.start_ts = 0 => r.begun = 0 /\ WaitsWith(r, time),
         r.paired_encoder # NONE =>
            LET v_start_ts == encoder[r.paired_encoder].start_ts
            IN  /\ v_start_ts \in Nat
                /\ r.start_ts = 0 /\ v_start_ts # 0 =>
                       r.first_raw_ts <= v_start_ts
  PROVE  LET q == Buffered(r, time)
         IN  /\ q \in EncoderType /\ SameEncoder(q, r)
             /\ q.first_received = r.first_received
             /\ q.first_raw_ts = r.first_raw_ts
             /\ q.input[1] <= q.input[2] /\ q.input[2] = time + BlockPeriod
             /\ r.start_ts # 0 => q.start_ts = r.start_ts
             /\ r.begun # 0 => q.begun = r.begun
             /\ q.start_ts # 0 => Underway(q)
             /\ q.start_ts # 0 /\ q.begun = 0 =>
                    time < q.start_ts
             /\ q.start_ts = 0 =>
                    /\ q.begun = 0
                    /\ q.paired_encoder # NONE
                    /\ q.input = <<q.first_raw_ts, time + BlockPeriod>>
             /\ r.start_ts = 0 =>
                    IF r.paired_encoder = NONE THEN q.begun # 0
                    ELSE LET v_start_ts == encoder[r.paired_encoder].start_ts
                         IN  q.start_ts =
                                IF \/ v_start_ts = 0
                                   \/ time + BlockPeriod <= v_start_ts
                                THEN 0 ELSE v_start_ts
  <1> DEFINE end == time + BlockPeriod
             later(from, start) ==
                 [r EXCEPT !.start_ts = start,
                           !.input = <<from, end>>]
  <1>1. /\ r.input \in Nat \X Nat /\ r.start_ts \in Nat /\ r.begun \in Nat
        /\ r.input[1] \in Nat /\ r.input[2] \in Nat /\ r.first_raw_ts \in Nat
        /\ end \in Nat /\ time < end /\ BlockPeriod \in Nat
        /\ r.input = <<r.input[1], r.input[2]>>
      BY PairingNumbers DEF EncoderType
  <1> DEFINE Later(s, from, start) ==
             /\ s \in EncoderType /\ SameEncoder(s, r)
             /\ s.first_received = r.first_received
             /\ s.first_raw_ts = r.first_raw_ts
             /\ s.start_ts = start /\ s.begun = r.begun
             /\ s.input = <<from, end>>
             /\ s.input[1] = from /\ s.input[2] = end
  <1>2. ASSUME NEW from \in Nat, NEW start \in Nat
        PROVE  Later(later(from, start), from, start)
    <2> HIDE DEF end
    <2> DEFINE s == later(from, start)
    <2>1. /\ s \in EncoderType /\ s.start_ts = start /\ s.begun = r.begun
          /\ s.initialized = r.initialized /\ s.data = r.data
          /\ s.active = r.active /\ s.callbacks = r.callbacks
          /\ s.paired_encoder = r.paired_encoder
          /\ s.first_received = r.first_received
          /\ s.first_raw_ts = r.first_raw_ts /\ s.input = <<from, end>>
        BY <1>1 DEF EncoderType
    <2> HIDE DEF s
    <2>2. SameEncoder(s, r)
        BY <2>1 DEF SameEncoder
    <2>3. QED
        BY <2>1, <2>2 DEF s
  <1>3. ASSUME NEW from \in Nat, NEW start \in Nat, start # 0, from < end,
               r.begun # 0 => start = r.begun, r.begun = 0 => from = start
        PROVE  Goes(EncodeAudio(later(from, start)), r, start, end)
    <2> DEFINE s == later(from, start)
               q == EncodeAudio(s)
    <2>1. /\ s \in EncoderType /\ SameEncoder(s, r)
          /\ s.first_received = r.first_received
          /\ s.first_raw_ts = r.first_raw_ts
          /\ s.start_ts = start /\ s.begun = r.begun
          /\ s.input[1] = from /\ s.input[2] = end
      <3> HIDE DEF Later
      <3>1. Later(s, from, start)
          BY <1>2
      <3>2. QED
          BY <3>1, Zenon DEF Later
    <2> HIDE DEF s, end
    <2>2. Underway(s)
        BY <1>1, <1>3, <2>1 DEF Underway
    <2>3. /\ q \in EncoderType /\ Underway(q) /\ SameEncoder(q, s)
          /\ q.start_ts = s.start_ts /\ q.input[2] = s.input[2]
          /\ q.first_received = s.first_received
          /\ q.first_raw_ts = s.first_raw_ts
          /\ s.begun # 0 => q.begun = s.begun
          /\ q.begun = 0 => q.input[2] < q.start_ts + BlockPeriod
        BY <2>1, <2>2, EncodeKept
    <2> HIDE DEF q
    <2>4. SameEncoder(q, r)
        BY <2>1, <2>3 DEF SameEncoder
    <2>5. QED
        BY <2>1, <2>3, <2>4 DEF q, s, Goes
  <1>4. CASE r.start_ts # 0
    <2> DEFINE from == IF r.input[1] = r.input[2] THEN time ELSE r.input[1]
    <2>1. PushAudio(r.input, time, time) = <<from, end>>
        BY DEF PushAudio
    <2>2. later(from, r.start_ts) = [r EXCEPT !.input = <<from, end>>]
      <3> HIDE DEF from, end
      <3>1. r.start_ts \in Nat
          BY <1>1
      <3>2. QED
          BY <1>1 DEF EncoderType
    <2>3. Buffered(r, time) = EncodeAudio([r EXCEPT !.input = <<from, end>>])
        BY <1>4, <2>1 DEF Buffered
    <2>4. /\ from \in Nat /\ from < end
          /\ r.begun # 0 => r.start_ts = r.begun
          /\ r.begun = 0 => from = r.start_ts
        BY <1>1, <1>4 DEF Underway
    <2>5. Goes(EncodeAudio(later(from, r.start_ts)), r, r.start_ts, end)
      <3> HIDE DEF later, end, from
      <3>1. QED
          BY <1>1, <1>3, <1>4, <2>4
    <2> DEFINE q == Buffered(r, time)
    <2>6. Goes(q, r, r.start_ts, end)
        BY <2>2, <2>3, <2>5
    <2> HIDE DEF q
    <2>7. QED
        BY <1>1, <1>4, <2>6 DEF Underway, Goes, q
  <1>5. CASE r.start_ts = 0 /\ r.paired_encoder = NONE
    <2> DEFINE q == Buffered(r, time)
    <2>1. r.input = <<0, 0>> /\ r.input[1] = r.input[2] /\ r.begun = 0
        BY <1>5 DEF WaitsWith
    <2>2. PushAudio(r.input, time, time) = <<time, end>>
        BY <2>1 DEF PushAudio
    <2>3. Buffered(r, time) = EncodeAudio(later(time, time))
        BY <1>5, <2>2 DEF Buffered
    <2>4. Goes(q, r, time, end)
      <3>1. Goes(EncodeAudio(later(time, time)), r, time, end)
        <4> HIDE DEF later, end
        <4>1. QED
            BY <1>1, <1>3, <2>1
      <3>2. QED
          BY <2>3, <3>1
    <2> HIDE DEF q
    <2>5. QED
        BY <1>1, <1>5, <2>1, <2>4 DEF Underway, Goes, q
  <1>6. CASE r.start_ts = 0 /\ r.paired_encoder # NONE
    <2> DEFINE v_start_ts == encoder[r.paired_encoder].start_ts
               early == v_start_ts = 0 \/ end <= v_start_ts
               q == Buffered(r, time)
    <2>1. /\ v_start_ts \in Nat /\ (v_start_ts # 0 => r.first_raw_ts <= v_start_ts)
          /\ r.begun = 0
        BY <1>6
    <2>2. CASE early
      <3> DEFINE s == [r EXCEPT !.input = <<r.first_raw_ts, end>>]
      <3>1. PushAudio(r.input, time, time) = <<r.first_raw_ts, end>>
          BY <1>1, <1>6 DEF PushAudio, WaitsWith
      <3>2. q = s
          BY <1>6, <2>2, <3>1 DEF Buffered
      <3>3. /\ s \in EncoderType /\ s.start_ts = 0 /\ s.begun = 0
            /\ s.initialized = r.initialized /\ s.data = r.data
            /\ s.active = r.active /\ s.callbacks = r.callbacks
            /\ s.paired_encoder = r.paired_encoder
            /\ s.first_received = r.first_received
            /\ s.first_raw_ts = r.first_raw_ts
            /\ s.input = <<r.first_raw_ts, end>>
        <4> HIDE DEF end
        <4>1. QED
            BY <1>1, <1>6, <2>1 DEF EncoderType
      <3>4. SameEncoder(s, r)
          BY <3>3 DEF SameEncoder
      <3> HIDE DEF q, s
      <3>5. r.first_raw_ts <= time
          BY <1>1, <1>6 DEF WaitsWith
      <3>6. /\ s.input[1] <= s.input[2] /\ s.input[2] = end
          BY <1>1, <3>3, <3>5
      <3>7. QED
          BY <1>6, <2>1, <2>2, <3>2, <3>3, <3>4, <3>6 DEF q
    <2>3. CASE ~early
      <3> DEFINE cut == IF time <= v_start_ts THEN <<0, 0>>
                        ELSE IF r.first_raw_ts < v_start_ts
                        THEN <<r.input[1] + (v_start_ts - r.first_raw_ts),
                               r.input[2]>>
                        ELSE r.input
      <3>1. v_start_ts # 0 /\ v_start_ts < end /\ r.first_raw_ts <= v_start_ts
          BY <1>1, <2>1, <2>3
      <3>2. PushAudio(cut, Larger(time, v_start_ts), time) = <<v_start_ts, end>>
        <4>1. CASE time <= v_start_ts
          <5>1. Larger(time, v_start_ts) = v_start_ts /\ cut = <<0, 0>>
              BY <2>1, <4>1 DEF Larger
          <5> HIDE DEF cut
          <5>2. QED
              BY <5>1 DEF PushAudio
        <4>2. CASE ~(time <= v_start_ts)
          <5>1. /\ r.input = <<r.first_raw_ts, time>>
                /\ r.input[1] = r.first_raw_ts /\ r.input[2] = time
              BY <1>1, <1>6, <3>1, <2>1, <4>2 DEF WaitsWith
          <5>2. cut = <<v_start_ts, time>>
            <6>1. CASE r.first_raw_ts < v_start_ts
              <7>1. r.first_raw_ts + (v_start_ts - r.first_raw_ts) = v_start_ts
                  BY <1>1, <2>1, <6>1
              <7>2. QED
                  BY <4>2, <5>1, <6>1, <7>1
            <6>2. CASE ~(r.first_raw_ts < v_start_ts)
              <7>1. r.first_raw_ts = v_start_ts
                  BY <1>1, <2>1, <3>1, <6>2
              <7>2. QED
                  BY <4>2, <5>1, <6>2, <7>1
            <6>3. QED
                BY <6>1, <6>2
          <5> HIDE DEF cut
          <5>3. v_start_ts # time
              BY <2>1, <4>2
          <5>4. QED
              BY <5>2, <5>3 DEF PushAudio
        <4>3. QED
            BY <4>1, <4>2
      <3>3. q = EncodeAudio(later(v_start_ts, v_start_ts))
          BY <1>6, <2>3, <3>2 DEF Buffered
      <3>4. Goes(q, r, v_start_ts, end)
        <4>1. Goes(EncodeAudio(later(v_start_ts, v_start_ts)), r, v_start_ts, end)
          <5> HIDE DEF later, end, v_start_ts
          <5>1. QED
              BY <1>1, <1>3, <2>1, <3>1
        <4>2. QED
            BY <3>3, <4>1
      <3> HIDE DEF q, v_start_ts
      <3>5. QED
          BY <1>1, <1>6, <2>1, <2>3, <3>1, <3>4
             DEF Underway, Goes, q, v_start_ts
    <2>4. QED
        BY <2>2, <2>3
  <1>7. QED
      BY <1>4, <1>5, <1>6

-----------------------------------------------------------------------------
(* Encoders that outputs share: the types                                   *)

Stages == [at : {"idle", "pair", "connect", "hook", "capturing", "lock",
                 "erase", "disconnect"},
           with : Seq(Encs), since : Nat]

\* The greater of two numbers.
LEMMA NowIsLatest ==
  ASSUME PairingTypeOK
  PROVE  /\ media_time["video"] \in Nat /\ media_time["audio"] \in Nat
         /\ Now \in Nat /\ media_time["video"] <= Now
         /\ media_time["audio"] <= Now
  <1> DEFINE v == media_time["video"]
             a == media_time["audio"]
  <1>1. v \in Nat /\ a \in Nat
      BY DEF PairingTypeOK
  <1> HIDE DEF v, a
  <1>2. \E x \in {v, a} : \A y \in {v, a} : x >= y
      BY <1>1
  <1>3. Max({v, a}) \in {v, a} /\ \A y \in {v, a} : Max({v, a}) >= y
      BY <1>2 DEF Max
  <1>4. QED
      BY <1>1, <1>3 DEF Now, v, a

\* The output is done with the first of its encoders, which was the last one or
\* not.
LEMMA StageGoes ==
  ASSUME PairingTypeOK, NEW o \in Outputs, stage[o].with # <<>>,
         NEW at, NEW finally,
         at \in {"hook", "lock"}, finally \in {"capturing", "idle"},
         stage' = NextStage(o, at, finally)
  PROVE  /\ stage' \in [Outputs -> Stages]
         /\ \A p \in Outputs : p # o => stage'[p] = stage[p]
         /\ Head(stage[o].with) \in Encs
         /\ Ahead(o) = {Head(stage[o].with)} \cup Elems(stage'[o].with)
         /\ \/ /\ stage'[o].at = at /\ stage'[o].with # <<>>
               /\ stage'[o].since = stage[o].since
            \/ /\ stage'[o].at = finally /\ Elems(stage'[o].with) = {}
               /\ stage'[o].since = Now
  <1> DEFINE s == stage[o]
  <1>1. stage \in [Outputs -> Stages]
      BY Zenon DEF PairingTypeOK, Stages
  <1>2. s \in Stages /\ s.with \in Seq(Encs) /\ s.since \in Nat
      BY <1>1 DEF Stages
  <1>3. /\ Head(s.with) \in Encs /\ Tail(s.with) \in Seq(Encs)
        /\ Elems(s.with) = {Head(s.with)} \cup Elems(Tail(s.with))
        /\ Len(s.with) > 1 => Tail(s.with) # <<>>
        /\ ~(Len(s.with) > 1) => Elems(s.with) = {Head(s.with)}
      BY <1>2, ElemsOfTail
  <1>4. CASE Len(s.with) > 1
    <2> DEFINE t == [s EXCEPT !.at = at, !.with = Tail(@)]
    <2>1. stage' = [stage EXCEPT ![o] = t]
        BY <1>1, <1>4 DEF NextStage
    <2>2. /\ t \in Stages /\ t.at = at /\ t.with = Tail(s.with)
          /\ t.since = s.since
      <3> HIDE DEF s
      <3>1. QED
          BY <1>2, <1>3 DEF Stages
    <2> HIDE DEF t
    <2>3. /\ stage' \in [Outputs -> Stages] /\ stage'[o] = t
          /\ \A p \in Outputs : p # o => stage'[p] = stage[p]
        BY <1>1, <2>1, <2>2, Zenon
    <2>4. QED
        BY <1>3, <1>4, <2>2, <2>3, Zenon DEF Ahead
  <1>5. CASE ~(Len(s.with) > 1)
    <2> DEFINE t == [at |-> finally, with |-> <<>>, since |-> Now]
    <2>1. stage' = [stage EXCEPT ![o] = t]
        BY <1>5 DEF NextStage
    <2>2. t \in Stages
        BY NowIsLatest DEF Stages
    <2>3. Elems(t.with) = {} /\ t.at = finally /\ t.since = Now
        BY DEF Elems
    <2> HIDE DEF t
    <2>4. /\ stage' \in [Outputs -> Stages] /\ stage'[o] = t
          /\ \A p \in Outputs : p # o => stage'[p] = stage[p]
        BY <1>1, <2>1, <2>2, Zenon
    <2>5. QED
        BY <1>3, <1>5, <2>3, <2>4, Zenon DEF Ahead
  <1>6. QED
      BY <1>4, <1>5

\* What holds of every step of an output: its encoders are the same, and the
\* threads do not move; the other output stays where it is.
Quiet(o) ==
    /\ sharing' = sharing /\ mishap' = mishap
    /\ media_time' = media_time /\ media_at' = media_at
    /\ \A p \in Outputs : Uses(p)' = Uses(p)
    /\ \A p \in Outputs : p # o => stage'[p] = stage[p]

\* Whom an output uses depends on nothing else.
LEMMA SameUses ==
  sharing' = sharing =>
      \A p \in Outputs : Uses(p)' = Uses(p) /\ EncodersOf(p)' = EncodersOf(p)
  BY Zenon DEF Uses, EncodersOf

\* An output has an encoder to go on with after it is done with one.
LEMMA NextStays ==
  ASSUME PairingTypeOK, HasNext, NEW o \in Outputs,
         sharing' = sharing,
         \A p \in Outputs : p # o => stage'[p] = stage[p],
         stage'[o].at \in {"hook"} \cup Stopping =>
             stage'[o].with # <<>> /\ Elems(stage'[o].with) \subseteq Uses(o)
  PROVE  HasNext'
  <1>1. \A p \in Outputs : Uses(p)' = Uses(p)
      BY SameUses
  <1>2. SUFFICES ASSUME NEW p \in Outputs,
                        stage'[p].at \in {"hook"} \cup Stopping
                 PROVE  stage'[p].with # <<>> /\ Elems(stage'[p].with) \subseteq Uses(p)
      BY <1>1, Zenon DEF HasNext, Ahead, Elems, Stopping
  <1>3. CASE p = o
      BY <1>2, <1>3, Zenon
  <1>4. CASE p # o
      BY <1>2, <1>4, Zenon DEF HasNext, Ahead
  <1>5. QED
      BY <1>3, <1>4

\* The types hold on after a step of an output that changes its stage and these
\* records.
LEMMA TypesKept ==
  ASSUME PairingTypeOK, sharing' = sharing, mishap' = mishap,
         encoder' \in [Encs -> EncoderType],
         init_mutex' \in [Encs -> Outputs \cup {NONE}],
         media_time' \in [{"video", "audio"} -> Nat],
         media_at' \in [{"video", "audio"} -> {"idle", "buffer"} \cup Encs],
         stage' \in [Outputs -> Stages], starts_left' \in 0 .. MaxOutputStarts
  PROVE  PairingTypeOK'
  <1>1. /\ sharing \in [Outputs -> [video : VideoEncoders,
                                    audio : Seq(AudioEncoders)]]
        /\ mishap \in Mishaps
      BY Zenon DEF PairingTypeOK
  <1>2. /\ sharing' \in [Outputs -> [video : VideoEncoders,
                                     audio : Seq(AudioEncoders)]]
        /\ mishap' \in Mishaps
      BY <1>1, Zenon
  <1>3. QED
      BY <1>2, Zenon DEF PairingTypeOK, Stages

\* The types, one by one.
LEMMA TypeParts ==
  ASSUME PairingTypeOK
  PROVE  /\ encoder \in [Encs -> EncoderType]
         /\ init_mutex \in [Encs -> Outputs \cup {NONE}]
         /\ media_time \in [{"video", "audio"} -> Nat]
         /\ media_at \in [{"video", "audio"} -> {"idle", "buffer"} \cup Encs]
         /\ stage \in [Outputs -> Stages] /\ starts_left \in 0 .. MaxOutputStarts
         /\ \A e \in Encs : encoder[e] \in EncoderType
         /\ \A o \in Outputs : stage[o] \in Stages
  BY Zenon DEF PairingTypeOK, Stages

\* What a step changes in the record of one encoder only.
LEMMA OneEncoder ==
  ASSUME PairingTypeOK, NEW e \in Encs, NEW r \in EncoderType,
         encoder' = [encoder EXCEPT ![e] = r]
  PROVE  /\ encoder' \in [Encs -> EncoderType] /\ encoder'[e] = r
         /\ \A x \in Encs : x # e => encoder'[x] = encoder[x]
  BY TypeParts, Zenon

-----------------------------------------------------------------------------
(* Encoders that outputs share: the steps, for the types                    *)

\* An output initializes its encoders: what it changes.
LEMMA InitializeMoves ==
  ASSUME PairingTypeOK, HasNext, NEW o \in Outputs, InitializeEncoders(o)
  PROVE  /\ PairingTypeOK' /\ HasNext' /\ Quiet(o)
         /\ stage[o].at = "idle" /\ Undisturbed(o)
         /\ stage'[o].at = "pair"
         /\ \A x \in Encs : encoder'[x] = IF x \in Uses(o)
                                           THEN InitializedEncoder(encoder[x])
                                           ELSE encoder[x]
  <1>1. /\ stage[o].at = "idle" /\ Undisturbed(o) /\ starts_left > 0
        /\ starts_left' = starts_left - 1
        /\ encoder' = [e \in Encs |-> IF e \in Uses(o)
                                      THEN InitializedEncoder(encoder[e])
                                      ELSE encoder[e]]
        /\ stage' = [stage EXCEPT ![o].at = "pair"]
        /\ sharing' = sharing /\ mishap' = mishap /\ init_mutex' = init_mutex
        /\ media_time' = media_time /\ media_at' = media_at
      BY Zenon DEF InitializeEncoders, planVars, clockVars
  <1>2. encoder' \in [Encs -> EncoderType]
    <2>1. \A e \in Encs : (IF e \in Uses(o) THEN InitializedEncoder(encoder[e])
                           ELSE encoder[e]) \in EncoderType
        BY TypeParts, InitializedTyped, Zenon
    <2>2. QED
        BY <1>1, <2>1, Zenon
  <1>3. /\ stage' \in [Outputs -> Stages] /\ stage'[o].at = "pair"
        /\ \A p \in Outputs : p # o => stage'[p] = stage[p]
      BY <1>1, TypeParts DEF Stages
  <1>4. starts_left' \in 0 .. MaxOutputStarts
    <2>1. starts_left \in 0 .. MaxOutputStarts /\ MaxOutputStarts \in Nat
        BY TypeParts, EncoderPairingAssumption
    <2>2. QED
        BY <1>1, <2>1
  <1>5. PairingTypeOK'
      BY <1>1, <1>2, <1>3, <1>4, TypesKept, TypeParts
  <1>6. HasNext'
      BY <1>1, <1>3, NextStays DEF Stopping
  <1>7. Quiet(o)
      BY <1>1, <1>3, SameUses DEF Quiet
  <1>8. QED
      BY <1>1, <1>3, <1>5, <1>6, <1>7

\* An output is connected: what it changes.
LEMMA ConnectedMoves ==
  ASSUME PairingTypeOK, HasNext, NEW o \in Outputs, Connected(o)
  PROVE  /\ PairingTypeOK' /\ HasNext' /\ Quiet(o)
         /\ encoder' = encoder
         /\ stage[o].at = "connect" /\ stage'[o].at = "hook"
         /\ Elems(stage'[o].with) = Uses(o)
  <1>1. /\ stage[o].at = "connect" /\ encoder' = encoder
        /\ starts_left' = starts_left
        /\ stage' = [stage EXCEPT ![o].at = "hook", ![o].with = EncodersOf(o)]
        /\ sharing' = sharing /\ mishap' = mishap /\ init_mutex' = init_mutex
        /\ media_time' = media_time /\ media_at' = media_at
      BY Zenon DEF Connected, planVars, clockVars
  <1>2. /\ EncodersOf(o) \in Seq(Encs) /\ EncodersOf(o) # <<>>
        /\ Elems(EncodersOf(o)) = Uses(o)
      BY UsesTyped
  <1>3. /\ stage' \in [Outputs -> Stages] /\ stage'[o].at = "hook"
        /\ stage'[o].with = EncodersOf(o)
        /\ \A p \in Outputs : p # o => stage'[p] = stage[p]
      BY <1>1, <1>2, TypeParts DEF Stages
  <1>4. PairingTypeOK'
      BY <1>1, <1>3, TypesKept, TypeParts
  <1>5. HasNext'
      BY <1>1, <1>2, <1>3, NextStays
  <1>6. Quiet(o)
      BY <1>1, <1>3, SameUses DEF Quiet
  <1>7. QED
      BY <1>1, <1>2, <1>3, <1>4, <1>5, <1>6

\* An output ends its capture: what it changes.
LEMMA EndMoves ==
  ASSUME PairingTypeOK, HasNext, NEW o \in Outputs, EndCapturing(o)
  PROVE  /\ PairingTypeOK' /\ HasNext' /\ Quiet(o)
         /\ encoder' = encoder
         /\ stage[o].at = "capturing" /\ Undisturbed(o)
         /\ stage'[o].at = "lock" /\ Elems(stage'[o].with) = Uses(o)
  <1> DEFINE s == <<sharing[o].video>> \o sharing[o].audio
  <1>1. /\ stage[o].at = "capturing" /\ Undisturbed(o) /\ encoder' = encoder
        /\ starts_left' = starts_left
        /\ stage' = [stage EXCEPT ![o].at = "lock", ![o].with = s]
        /\ sharing' = sharing /\ mishap' = mishap /\ init_mutex' = init_mutex
        /\ media_time' = media_time /\ media_at' = media_at
      BY Zenon DEF EndCapturing, planVars, clockVars
  <1>2. s \in Seq(Encs) /\ s # <<>> /\ Elems(s) = Uses(o)
      BY UsesTyped
  <1> HIDE DEF s
  <1>3. /\ stage' \in [Outputs -> Stages] /\ stage'[o].at = "lock"
        /\ stage'[o].with = s
        /\ \A p \in Outputs : p # o => stage'[p] = stage[p]
      BY <1>1, <1>2, TypeParts DEF Stages
  <1>4. PairingTypeOK'
      BY <1>1, <1>3, TypesKept, TypeParts
  <1>5. HasNext'
      BY <1>1, <1>2, <1>3, NextStays
  <1>6. Quiet(o)
      BY <1>1, <1>3, SameUses DEF Quiet
  <1>7. QED
      BY <1>1, <1>2, <1>3, <1>4, <1>5, <1>6

\* A stop takes the mutex of an encoder: what it changes.
LEMMA LockMoves ==
  ASSUME PairingTypeOK, HasNext, NEW o \in Outputs, LockInit(o)
  PROVE  /\ PairingTypeOK' /\ HasNext' /\ Quiet(o)
         /\ encoder' = encoder
         /\ stage[o].at = "lock" /\ stage'[o].at = "erase"
         /\ stage'[o].with = stage[o].with
  <1> DEFINE e == Head(stage[o].with)
  <1>1. /\ stage[o].at = "lock" /\ encoder' = encoder
        /\ starts_left' = starts_left
        /\ init_mutex' = [init_mutex EXCEPT ![e] = o]
        /\ stage' = [stage EXCEPT ![o].at = "erase"]
        /\ sharing' = sharing /\ mishap' = mishap
        /\ media_time' = media_time /\ media_at' = media_at
      BY Zenon DEF LockInit, planVars, clockVars
  <1> HIDE DEF e
  <1>2. init_mutex' \in [Encs -> Outputs \cup {NONE}]
      BY <1>1, TypeParts, Zenon
  <1>3. /\ stage' \in [Outputs -> Stages] /\ stage'[o].at = "erase"
        /\ stage'[o].with = stage[o].with
        /\ \A p \in Outputs : p # o => stage'[p] = stage[p]
      BY <1>1, TypeParts DEF Stages
  <1>4. PairingTypeOK'
      BY <1>1, <1>2, <1>3, TypesKept, TypeParts
  <1>5. stage[o].with # <<>> /\ Elems(stage[o].with) \subseteq Uses(o)
      BY <1>1, Zenon DEF HasNext, Stopping, Ahead
  <1>6. HasNext'
      BY <1>1, <1>3, <1>5, NextStays
  <1>7. Quiet(o)
      BY <1>1, <1>3, SameUses DEF Quiet
  <1>8. QED
      BY <1>1, <1>3, <1>4, <1>6, <1>7

\* The least of a set of numbers is in it.
LEMMA MinIsIn ==
  ASSUME NEW S \in SUBSET Nat, S # {}
  PROVE  Min(S) \in S
  <1> DEFINE R == {ss \in Nat \X Nat : ss[1] < ss[2]}
  <1>1. PICK n \in S : \A m \in S : ~(<<m, n>> \in OpToRel(<, Nat))
      BY NatLessThanWellFounded, WFMin, Zenon
  <1>2. OpToRel(<, Nat) = R
      BY Zenon DEF OpToRel
  <1>3. \A m \in S : ~(<<m, n>> \in R)
      BY <1>1, <1>2, Zenon
  <1>4. \A m \in S : n <= m
    <2>1. ASSUME NEW m \in S, m < n PROVE FALSE
      <3>1. <<m, n>> \in R
          BY <2>1
      <3>2. QED
          BY <1>3, <3>1
    <2>2. QED
        BY <2>1
  <1>5. QED
      BY <1>4 DEF Min

\* The video of an output and a track of its, neither of which is active or
\* paired, become a pair, or nothing changes.
LEMMA PairMoves ==
  ASSUME PairingTypeOK, HasNext, NEW o \in Outputs, PairEncoders(o)
  PROVE  /\ PairingTypeOK' /\ HasNext' /\ Quiet(o)
         /\ stage[o].at = "pair" /\ stage'[o].at = "connect"
         /\ \/ encoder' = encoder
            \/ \E v \in VideoEncoders, a \in AudioEncoders :
                  /\ {v, a} \subseteq Uses(o)
                  /\ ~encoder[v].active /\ ~encoder[a].active
                  /\ encoder[v].paired_encoder = NONE
                  /\ encoder[a].paired_encoder = NONE
                  /\ encoder'[v] = [encoder[v] EXCEPT !.paired_encoder = a]
                  /\ encoder'[a] = [encoder[a] EXCEPT !.paired_encoder = v]
                  /\ \A x \in Encs \ {v, a} : encoder'[x] = encoder[x]
  <1> DEFINE v == sharing[o].video
             s == sharing[o].audio
             a == s[Min(InactiveAudio(o))]
  <1>1. /\ stage[o].at = "pair" /\ starts_left' = starts_left
        /\ stage' = [stage EXCEPT ![o].at = "connect"]
        /\ sharing' = sharing /\ mishap' = mishap /\ init_mutex' = init_mutex
        /\ media_time' = media_time /\ media_at' = media_at
        /\ IF InactiveAudio(o) = {} \/ encoder[v].active
                 \/ encoder[v].paired_encoder # NONE
           THEN encoder' = encoder
           ELSE encoder' = [encoder EXCEPT ![v].paired_encoder = a,
                                           ![a].paired_encoder = v]
      BY Zenon DEF PairEncoders, planVars, clockVars
  <1>2. /\ stage' \in [Outputs -> Stages] /\ stage'[o].at = "connect"
        /\ \A p \in Outputs : p # o => stage'[p] = stage[p]
      BY <1>1, TypeParts DEF Stages
  <1>3. HasNext'
      BY <1>1, <1>2, NextStays DEF Stopping
  <1>4. Quiet(o)
      BY <1>1, <1>2, SameUses DEF Quiet
  <1>5. CASE encoder' = encoder
    <2>1. PairingTypeOK'
        BY <1>1, <1>2, <1>5, TypesKept, TypeParts
    <2>2. QED
        BY <1>1, <1>2, <1>3, <1>4, <1>5, <2>1
  <1>6. CASE /\ InactiveAudio(o) # {} /\ ~encoder[v].active
             /\ encoder[v].paired_encoder = NONE
             /\ encoder' = [encoder EXCEPT ![v].paired_encoder = a,
                                           ![a].paired_encoder = v]
    <2>1. /\ v \in VideoEncoders /\ v \in Uses(o) /\ s \in Seq(AudioEncoders)
          /\ Elems(s) \subseteq Uses(o)
        BY UsesTyped
    <2>2. a \in Elems(s) /\ a \in AudioEncoders
          /\ ~encoder[a].active /\ encoder[a].paired_encoder = NONE
      <3>1. InactiveAudio(o) \in SUBSET Nat
        <4>1. DOMAIN s = 1 .. Len(s) /\ Len(s) \in Nat
            BY <2>1
        <4>2. InactiveAudio(o) \subseteq DOMAIN s
            BY Zenon DEF InactiveAudio
        <4>3. QED
            BY <4>1, <4>2
      <3>2. Min(InactiveAudio(o)) \in InactiveAudio(o)
          BY <1>6, <3>1, MinIsIn
      <3>3. /\ Min(InactiveAudio(o)) \in DOMAIN s
            /\ ~encoder[a].active /\ encoder[a].paired_encoder = NONE
          BY <3>2, Zenon DEF InactiveAudio
      <3>4. a \in Elems(s)
          BY <3>3, Zenon DEF Elems
      <3>5. a \in AudioEncoders
          BY <2>1, <3>3
      <3>6. QED
          BY <3>3, <3>4, <3>5
    <2> HIDE DEF a, s, v
    <2>3. v \in Encs /\ a \in Encs /\ v # a
        BY <2>1, <2>2, EncoderPairingAssumption DEF Encs
    <2> DEFINE q == [encoder[v] EXCEPT !.paired_encoder = a]
               r == [encoder[a] EXCEPT !.paired_encoder = v]
    <2>4. encoder[v] \in EncoderType /\ encoder[a] \in EncoderType
        BY <2>3, TypeParts
    <2>5. q \in EncoderType /\ r \in EncoderType
        BY <2>3, <2>4 DEF EncoderType
    <2>6. encoder' = [[encoder EXCEPT ![v] = q] EXCEPT ![a] = r]
      <3>1. [encoder EXCEPT ![v] = q][a] = encoder[a]
          BY <2>3, TypeParts, Zenon
      <3>2. QED
          BY <1>6, <3>1
    <2> HIDE DEF q, r
    <2>7. [encoder EXCEPT ![v] = q] \in [Encs -> EncoderType]
        BY <2>3, <2>5, TypeParts, Zenon
    <2>8. /\ encoder' \in [Encs -> EncoderType]
          /\ encoder'[v] = q /\ encoder'[a] = r
          /\ \A x \in Encs \ {v, a} : encoder'[x] = encoder[x]
        BY <2>3, <2>5, <2>6, <2>7, TypeParts
    <2>9. PairingTypeOK'
        BY <1>1, <1>2, <2>8, TypesKept, TypeParts
    <2>10. {v, a} \subseteq Uses(o)
        BY <2>1, <2>2
    <2>11. QED
        BY <1>1, <1>2, <1>3, <1>4, <1>6, <2>1, <2>2, <2>8, <2>9, <2>10, Zenon
           DEF q, r
  <1>7. QED
      BY <1>1, <1>5, <1>6, Zenon

\* The output is done with the encoder e, as Head(stage[o].with) is.
Passes(o, at, finally) ==
    LET e == Head(stage[o].with)
    IN  /\ e \in Encs /\ e \in Uses(o)
        /\ Ahead(o) = {e} \cup Elems(stage'[o].with)
        /\ \/ stage'[o].at = at /\ stage'[o].since = stage[o].since
           \/ /\ stage'[o].at = finally /\ Elems(stage'[o].with) = {}
              /\ stage'[o].since = Now

\* The output is done with the first of its encoders.
LEMMA NextPasses ==
  ASSUME PairingTypeOK, HasNext, NEW o \in Outputs,
         stage[o].at \in {"hook"} \cup Stopping,
         sharing' = sharing, NEW at, NEW finally,
         at \in {"hook", "lock"}, finally \in {"capturing", "idle"},
         stage' = NextStage(o, at, finally)
  PROVE  /\ stage' \in [Outputs -> Stages] /\ HasNext' /\ Passes(o, at, finally)
         /\ \A p \in Outputs : p # o => stage'[p] = stage[p]
  <1>1. stage[o].with # <<>> /\ Ahead(o) \subseteq Uses(o)
      BY Zenon DEF HasNext
  <1> DEFINE e == Head(stage[o].with)
  <1>2. /\ stage' \in [Outputs -> Stages]
        /\ \A p \in Outputs : p # o => stage'[p] = stage[p]
        /\ e \in Encs
        /\ Ahead(o) = {e} \cup Elems(stage'[o].with)
        /\ \/ /\ stage'[o].at = at /\ stage'[o].with # <<>>
              /\ stage'[o].since = stage[o].since
           \/ /\ stage'[o].at = finally /\ Elems(stage'[o].with) = {}
              /\ stage'[o].since = Now
      BY <1>1, StageGoes
  <1>3. /\ stage'[o].at \in {"hook"} \cup Stopping => stage'[o].with # <<>>
        /\ Elems(stage'[o].with) \subseteq Uses(o)
      BY <1>1, <1>2 DEF Stopping
  <1>4. HasNext'
      BY <1>2, <1>3, NextStays
  <1>5. Passes(o, at, finally)
      BY <1>1, <1>2 DEF Passes
  <1>6. QED
      BY <1>2, <1>4, <1>5

\* An output starts an encoder: what it changes.
LEMMA StartMoves ==
  ASSUME PairingTypeOK, HasNext, NEW o \in Outputs, StartEncoder(o)
  PROVE  LET e == Head(stage[o].with)
         IN  /\ PairingTypeOK' /\ HasNext' /\ Quiet(o)
             /\ stage[o].at = "hook" /\ Passes(o, "hook", "capturing")
             /\ media_at[Medium(e)] = "idle"
             /\ encoder'[e] = StartedEncoder(encoder[e], o)
             /\ \A x \in Encs : x # e => encoder'[x] = encoder[x]
  <1> DEFINE e == Head(stage[o].with)
             r == StartedEncoder(encoder[e], o)
  <1>1. /\ stage[o].at = "hook" /\ starts_left' = starts_left
        /\ media_at[Medium(e)] = "idle"
        /\ encoder' = [encoder EXCEPT ![e] = StartedEncoder(@, o)]
        /\ stage' = NextStage(o, "hook", "capturing")
        /\ sharing' = sharing /\ mishap' = mishap /\ init_mutex' = init_mutex
        /\ media_time' = media_time /\ media_at' = media_at
      BY Zenon DEF StartEncoder, planVars, clockVars
  <1>2. /\ stage' \in [Outputs -> Stages] /\ HasNext'
        /\ Passes(o, "hook", "capturing")
        /\ \A p \in Outputs : p # o => stage'[p] = stage[p]
      BY <1>1, NextPasses
  <1>3. e \in Encs
      BY <1>2 DEF Passes
  <1> HIDE DEF e
  <1>4. r \in EncoderType
      BY <1>3, TypeParts, StartedTyped
  <1>5. encoder' = [encoder EXCEPT ![e] = r]
      BY <1>1
  <1> HIDE DEF r
  <1>6. /\ encoder' \in [Encs -> EncoderType] /\ encoder'[e] = r
        /\ \A x \in Encs : x # e => encoder'[x] = encoder[x]
      BY <1>3, <1>4, <1>5, OneEncoder
  <1>7. PairingTypeOK'
      BY <1>1, <1>2, <1>6, TypesKept, TypeParts
  <1>8. Quiet(o)
      BY <1>1, <1>2, SameUses DEF Quiet
  <1>9. QED
      BY <1>1, <1>2, <1>6, <1>7, <1>8, Zenon DEF e, r

\* A stop takes the callback off an encoder: what it changes.
LEMMA EraseMoves ==
  ASSUME PairingTypeOK, HasNext, NEW o \in Outputs, EraseCallback(o)
  PROVE  LET e == Head(stage[o].with)
         IN  /\ PairingTypeOK' /\ HasNext' /\ Quiet(o)
             /\ stage[o].at = "erase" /\ e \in Encs /\ e \in Uses(o)
             /\ encoder'[e] = [encoder[e] EXCEPT !.callbacks = @ \ {o}]
             /\ \A x \in Encs : x # e => encoder'[x] = encoder[x]
             /\ encoder[e].callbacks = {o} =>
                    /\ stage'[o].at = "disconnect"
                    /\ stage'[o].with = stage[o].with
             /\ encoder[e].callbacks # {o} => Passes(o, "lock", "idle")
  <1> DEFINE e == Head(stage[o].with)
             r == [encoder[e] EXCEPT !.callbacks = @ \ {o}]
  <1>1. /\ stage[o].at = "erase" /\ starts_left' = starts_left
        /\ encoder' = [encoder EXCEPT ![e].callbacks = @ \ {o}]
        /\ init_mutex' = IF encoder[e].callbacks = {o} THEN init_mutex
                         ELSE [init_mutex EXCEPT ![e] = NONE]
        /\ stage' = IF encoder[e].callbacks = {o}
                    THEN [stage EXCEPT ![o].at = "disconnect"]
                    ELSE NextStage(o, "lock", "idle")
        /\ sharing' = sharing /\ mishap' = mishap
        /\ media_time' = media_time /\ media_at' = media_at
      BY Zenon DEF EraseCallback, planVars, clockVars
  <1>2. stage[o].with # <<>> /\ Ahead(o) \subseteq Uses(o)
      BY <1>1, Zenon DEF HasNext, Stopping
  <1>3. e \in Encs /\ e \in Uses(o)
    <2>1. stage[o].with \in Seq(Encs)
        BY TypeParts DEF Stages
    <2>2. e \in Encs /\ Elems(stage[o].with) = {e} \cup Elems(Tail(stage[o].with))
        BY <1>2, <2>1, ElemsOfTail
    <2>3. QED
        BY <1>2, <2>2, Zenon DEF Ahead
  <1>4. /\ stage' \in [Outputs -> Stages] /\ HasNext'
        /\ \A p \in Outputs : p # o => stage'[p] = stage[p]
        /\ encoder[e].callbacks = {o} =>
               stage'[o].at = "disconnect" /\ stage'[o].with = stage[o].with
        /\ encoder[e].callbacks # {o} => Passes(o, "lock", "idle")
    <2> HIDE DEF e
    <2>1. CASE encoder[e].callbacks = {o}
      <3>1. /\ stage' \in [Outputs -> Stages]
            /\ \A p \in Outputs : p # o => stage'[p] = stage[p]
            /\ stage'[o].at = "disconnect" /\ stage'[o].with = stage[o].with
          BY <1>1, <2>1, TypeParts DEF Stages
      <3>2. Elems(stage'[o].with) \subseteq Uses(o)
          BY <1>2, <3>1, Zenon DEF Ahead
      <3>3. HasNext'
          BY <1>1, <1>2, <3>1, <3>2, NextStays
      <3>4. QED
          BY <2>1, <3>1, <3>3
    <2>2. CASE encoder[e].callbacks # {o}
      <3>1. stage' = NextStage(o, "lock", "idle")
          BY <1>1, <2>2
      <3>2. stage[o].at \in {"hook"} \cup Stopping
          BY <1>1 DEF Stopping
      <3>3. /\ stage' \in [Outputs -> Stages] /\ HasNext'
            /\ Passes(o, "lock", "idle")
            /\ \A p \in Outputs : p # o => stage'[p] = stage[p]
          BY <1>1, <3>1, <3>2, NextPasses
      <3>4. QED
          BY <2>2, <3>3
    <2>3. QED
        BY <2>1, <2>2
  <1> HIDE DEF e
  <1>5. init_mutex' \in [Encs -> Outputs \cup {NONE}]
      BY <1>1, <1>3, TypeParts, Zenon
  <1>6. r \in EncoderType
      BY <1>3, TypeParts DEF EncoderType
  <1>7. encoder' = [encoder EXCEPT ![e] = r]
      BY <1>1
  <1> HIDE DEF r
  <1>8. /\ encoder' \in [Encs -> EncoderType] /\ encoder'[e] = r
        /\ \A x \in Encs : x # e => encoder'[x] = encoder[x]
      BY <1>3, <1>6, <1>7, OneEncoder
  <1>9. PairingTypeOK'
      BY <1>1, <1>4, <1>5, <1>8, TypesKept, TypeParts
  <1>10. Quiet(o)
      BY <1>1, <1>4, SameUses DEF Quiet
  <1>11. QED
      BY <1>1, <1>3, <1>4, <1>8, <1>9, <1>10, Zenon DEF e, r

\* A stop shuts an encoder down: what it changes.
LEMMA DisconnectMoves ==
  ASSUME PairingTypeOK, HasNext, NEW o \in Outputs, DisconnectEncoder(o)
  PROVE  LET e == Head(stage[o].with)
         IN  /\ PairingTypeOK' /\ HasNext' /\ Quiet(o)
             /\ stage[o].at = "disconnect" /\ Passes(o, "lock", "idle")
             /\ media_at[Medium(e)] = "idle"
             /\ encoder'[e] = StoppedEncoder(encoder[e])
             /\ \A x \in Encs : x # e => encoder'[x] = encoder[x]
  <1> DEFINE e == Head(stage[o].with)
             r == StoppedEncoder(encoder[e])
  <1>1. /\ stage[o].at = "disconnect" /\ starts_left' = starts_left
        /\ media_at[Medium(e)] = "idle"
        /\ encoder' = [encoder EXCEPT ![e] = StoppedEncoder(@)]
        /\ init_mutex' = [init_mutex EXCEPT ![e] = NONE]
        /\ stage' = NextStage(o, "lock", "idle")
        /\ sharing' = sharing /\ mishap' = mishap
        /\ media_time' = media_time /\ media_at' = media_at
      BY Zenon DEF DisconnectEncoder, StoppedEncoder, planVars, clockVars
  <1>2. stage[o].at \in {"hook"} \cup Stopping
      BY <1>1 DEF Stopping
  <1>3. /\ stage' \in [Outputs -> Stages] /\ HasNext'
        /\ Passes(o, "lock", "idle")
        /\ \A p \in Outputs : p # o => stage'[p] = stage[p]
      BY <1>1, <1>2, NextPasses
  <1>4. e \in Encs
      BY <1>3 DEF Passes
  <1> HIDE DEF e
  <1>5. r \in EncoderType
      BY <1>4, TypeParts, StoppedTyped
  <1>6. init_mutex' \in [Encs -> Outputs \cup {NONE}]
      BY <1>1, <1>4, TypeParts, Zenon
  <1>7. encoder' = [encoder EXCEPT ![e] = r]
      BY <1>1
  <1> HIDE DEF r
  <1>8. /\ encoder' \in [Encs -> EncoderType] /\ encoder'[e] = r
        /\ \A x \in Encs : x # e => encoder'[x] = encoder[x]
      BY <1>4, <1>5, <1>7, OneEncoder
  <1>9. PairingTypeOK'
      BY <1>1, <1>3, <1>6, <1>8, TypesKept, TypeParts
  <1>10. Quiet(o)
      BY <1>1, <1>3, SameUses DEF Quiet
  <1>11. QED
      BY <1>1, <1>3, <1>8, <1>9, <1>10, Zenon DEF e, r

-----------------------------------------------------------------------------
(* Encoders that outputs share: what the steps of an output leave alone     *)

\* What the media threads keep of an encoder.
SameTimes(q, r) ==
    /\ q.paired_encoder = r.paired_encoder
    /\ q.first_received = r.first_received /\ q.first_raw_ts = r.first_raw_ts
    /\ q.start_ts = r.start_ts /\ q.begun = r.begun /\ q.input = r.input

\* An encoder of which a step changes at most who calls it back keeps its times.
LEMMA TimesStay ==
  ASSUME media_time' = media_time, media_at' = media_at,
         NEW x \in Encs, SameTimes(encoder'[x], encoder[x]),
         x \in AudioEncoders =>
             (encoder'[x].active => encoder[x].active \/ media_at["audio"] # "buffer")
  PROVE  /\ VideoTimes(x) => VideoTimes(x)'
         /\ x \in AudioEncoders /\ AudioTimes(x) => AudioTimes(x)'
         /\ \A since : VideoSince(x, since) => VideoSince(x, since)'
         /\ \A since : AudioSince(x, since) => AudioSince(x, since)'
  <1>1. VideoTimes(x) => VideoTimes(x)'
      BY Zenon DEF VideoTimes, SameTimes
  <1>2. x \in AudioEncoders /\ AudioTimes(x) => AudioTimes(x)'
    <2>1. Underway(encoder[x]) => Underway(encoder'[x])
        BY Zenon DEF Underway, SameTimes
    <2>2. WaitsWith(encoder[x], media_time["audio"]) =>
              WaitsWith(encoder'[x], media_time'["audio"])
        BY Zenon DEF WaitsWith, SameTimes
    <2>3. Underway(encoder[x])' = Underway(encoder'[x])
          /\ WaitsWith(encoder[x], media_time["audio"])'
                = WaitsWith(encoder'[x], media_time'["audio"])
        BY Zenon DEF Underway, WaitsWith
    <2>4. QED
        BY <2>1, <2>2, <2>3, Zenon DEF AudioTimes, SameTimes
  <1>3. \A since : VideoSince(x, since) => VideoSince(x, since)'
      BY Zenon DEF VideoSince, SameTimes
  <1>4. \A since : AudioSince(x, since) => AudioSince(x, since)'
      BY Zenon DEF AudioSince, SameTimes
  <1>5. QED
      BY <1>1, <1>2, <1>3, <1>4

\* The pairs are kept by a step that lets no encoder that waits out of sight.
LEMMA PairsStay ==
  ASSUME NEW o \in Outputs, Quiet(o), PairingTypeOK,
         \A x \in Encs : /\ SameTimes(encoder'[x], encoder[x])
                         /\ encoder'[x].data = encoder[x].data
                         /\ Lives(x),
         \A x \in Ahead(o) :
             stage[o].at \in Stopping /\ x \in Encs /\ encoder[x].data
                 /\ encoder[x].start_ts = 0
                 => stage'[o].at \in Stopping /\ x \in Elems(stage'[o].with),
         \A x \in Uses(o) :
             stage[o].at # "idle" /\ encoder[x].data /\ encoder[x].start_ts = 0
                 => stage'[o].at # "idle",
         NEW x \in Encs
  PROVE  /\ x \in VideoEncoders /\ VideoTimes(x) /\ VideoPairs(x) => VideoPairs(x)'
         /\ x \in AudioEncoders /\ AudioTimes(x) /\ AudioPairs(x) => AudioPairs(x)'
  <1>0. PICK y : y = encoder[x].paired_encoder
      OBVIOUS
  <1>1. /\ encoder[x].paired_encoder = y /\ encoder'[x].paired_encoder = y
        /\ encoder'[x].start_ts = encoder[x].start_ts
        /\ encoder'[x].first_received = encoder[x].first_received
        /\ encoder'[x].first_raw_ts = encoder[x].first_raw_ts
        /\ media_time' = media_time
      BY <1>0, Zenon DEF SameTimes, Quiet
  <1>2. ASSUME y # NONE, encoder[x].start_ts = 0, y \in Encs
        PROVE  /\ encoder'[y].paired_encoder = encoder[y].paired_encoder
               /\ encoder'[y].start_ts = encoder[y].start_ts
               /\ Widowed(x, y) => Widowed(x, y)'
               /\ \A p \in Outputs : stage[p].at # "idle" /\ {y, x} \subseteq Uses(p)
                      => stage'[p].at # "idle" /\ {y, x} \subseteq Uses(p)'
    <2>1. encoder[x].data
        BY <1>1, <1>2, Zenon DEF Lives
    <2>2. \A p \in Outputs : stage[p].at \in Stopping /\ x \in Ahead(p)
                  => stage'[p].at \in Stopping /\ x \in Ahead(p)'
      <3> SUFFICES ASSUME NEW p \in Outputs, stage[p].at \in Stopping, x \in Ahead(p)
                   PROVE  stage'[p].at \in Stopping /\ x \in Ahead(p)'
          BY Zenon DEF Stopping
      <3>1. CASE p = o
        <4>1. Ahead(o)' = Elems(stage'[o].with)
            BY Zenon DEF Ahead, Elems
        <4>2. QED
            BY <1>2, <2>1, <3>1, <4>1, Zenon
      <3>2. CASE p # o
          BY <3>2, Zenon DEF Quiet, Ahead, Elems
      <3>3. QED
          BY <3>1, <3>2
    <2>3. encoder'[y].data = encoder[y].data
        BY <1>2, Zenon
    <2>4. Widowed(x, y) => Widowed(x, y)'
        BY <2>2, <2>3, Zenon DEF Widowed, Stopping
    <2>5. ASSUME NEW p \in Outputs, stage[p].at # "idle", {y, x} \subseteq Uses(p)
          PROVE  stage'[p].at # "idle" /\ {y, x} \subseteq Uses(p)'
      <3>1. Uses(p)' = Uses(p)
          BY Zenon DEF Quiet
      <3>2. CASE p = o
        <4>1. x \in Uses(o)
            BY <2>5, <3>2, Zenon
        <4>2. QED
            BY <1>2, <2>1, <2>5, <3>1, <3>2, <4>1, Zenon
      <3>3. CASE p # o
          BY <2>5, <3>1, <3>3, Zenon DEF Quiet
      <3>4. QED
          BY <3>2, <3>3
    <2>6. QED
        BY <1>2, <2>4, <2>5, Zenon DEF SameTimes
  <1>3. ASSUME x \in VideoEncoders, VideoTimes(x), VideoPairs(x) PROVE VideoPairs(x)'
    <2>1. y \in AudioEncoders \cup {NONE}
        BY <1>1, <1>3, Zenon DEF VideoTimes
    <2>2. CASE y = NONE \/ encoder[x].start_ts # 0
        BY <1>1, <2>2, Zenon DEF VideoPairs
    <2>3. CASE y # NONE /\ encoder[x].start_ts = 0
      <3>1. y \in Encs
          BY <2>1, <2>3, Zenon DEF Encs
      <3>2. \/ encoder[y].paired_encoder = x /\ encoder[y].start_ts = 0
            \/ Widowed(x, y)
          BY <1>1, <1>3, <2>3, Zenon DEF VideoPairs
      <3>3. \/ encoder'[y].paired_encoder = x /\ encoder'[y].start_ts = 0
            \/ Widowed(x, y)'
          BY <1>2, <2>3, <3>1, <3>2, Zenon
      <3>4. Widowed(x, y)' => Widowed(x, encoder[x].paired_encoder)'
          BY <1>1, Zenon DEF Widowed
      <3>5. QED
          BY <1>1, <3>3, <3>4, Zenon DEF VideoPairs
    <2>4. QED
        BY <2>2, <2>3
  <1>4. ASSUME x \in AudioEncoders, AudioTimes(x), AudioPairs(x) PROVE AudioPairs(x)'
    <2>1. y \in VideoEncoders \cup {NONE}
        BY <1>1, <1>4, Zenon DEF AudioTimes
    <2>2. CASE y = NONE \/ encoder[x].start_ts # 0
        BY <1>1, <2>2, Zenon DEF AudioPairs
    <2>3. CASE y # NONE /\ encoder[x].start_ts = 0
      <3>1. y \in Encs
          BY <2>1, <2>3, Zenon DEF Encs
      <3>2. /\ \E p \in Outputs : stage[p].at # "idle" /\ {y, x} \subseteq Uses(p)
            /\ encoder[y].paired_encoder = x \/ Widowed(x, y)
            /\ encoder[y].start_ts # 0 =>
                  /\ encoder[x].first_received
                  /\ encoder[x].first_raw_ts <= encoder[y].start_ts
                  /\ media_time["audio"]
                        <= encoder[y].start_ts + MaxSkew + BlockPeriod
          BY <1>1, <1>4, <2>3, Zenon DEF AudioPairs
      <3>3. /\ \E p \in Outputs : stage'[p].at # "idle" /\ {y, x} \subseteq Uses(p)'
            /\ encoder'[y].paired_encoder = x \/ Widowed(x, y)'
            /\ encoder'[y].start_ts = encoder[y].start_ts
          BY <1>2, <2>3, <3>1, <3>2, Zenon
      <3>4. Widowed(x, y)' => Widowed(x, encoder[x].paired_encoder)'
          BY <1>1, Zenon DEF Widowed
      <3>5. QED
          BY <1>1, <3>2, <3>3, <3>4, Zenon DEF AudioPairs
    <2>4. QED
        BY <2>2, <2>3
  <1>5. QED
      BY <1>3, <1>4

\* An encoder that one output does not want and the other one, settled, does: it
\* has begun.
KeptByOther(o, x) ==
    /\ Wanted(x) /\ (\A p \in Outputs : CallbackOn(p, x))
    /\ \A p \in Outputs : p # o => Settled(p)
    /\ encoder[x].data

\* It has begun, since a settled output has it.
LEMMA OtherHasBegun ==
  \A o \in Outputs, x \in Encs :
      KeptByOther(o, x) /\ ~WantedBy(o, x) => encoder[x].begun # 0
  <1> SUFFICES ASSUME NEW o \in Outputs, NEW x \in Encs,
                      KeptByOther(o, x), ~WantedBy(o, x)
               PROVE  encoder[x].begun # 0
      OBVIOUS
  <1>1. PICK p \in Outputs : WantedBy(p, x)
      BY Zenon DEF KeptByOther, Wanted
  <1>2. p # o /\ Settled(p)
      BY <1>1, Zenon DEF KeptByOther
  <1>3. stage[p].at \notin Starting /\ stage[p].at \notin Stopping
        /\ stage[p].at # "disconnect"
      BY <1>2 DEF Settled, Starting, Stopping
  <1>4. p \in encoder[x].callbacks
      BY <1>1, <1>3, Zenon DEF WantedBy
  <1>5. x \in Uses(p) /\ stage[p].at \in {"hook", "capturing"} \cup Stopping
      BY <1>4, Zenon DEF KeptByOther, CallbackOn
  <1>6. Begun(p)
      BY <1>2, <1>5 DEF Settled, Stopping
  <1>7. QED
      BY <1>5, <1>6, Zenon DEF Begun

-----------------------------------------------------------------------------
(* Encoders that outputs share: the steps of an output                      *)

\* Of the outputs, all but one that is not settled are.
LEMMA OthersSettled ==
  ASSUME OneMoves, NEW o \in Outputs, ~Settled(o)
  PROVE  \A p \in Outputs : p # o => Settled(p)
  BY Zenon DEF OneMoves

\* A settled output stays so while another one takes a step that takes nothing
\* from the encoders that have begun.
LEMMA SettledStays ==
  ASSUME PairingTypeOK, NEW o \in Outputs, Quiet(o),
         \A p \in Outputs : p # o => Settled(p),
         \A p \in Outputs, x \in Encs :
             p # o /\ stage[p].at = "capturing" /\ x \in Uses(p)
                 /\ encoder[x].begun # 0 => encoder'[x].begun # 0
  PROVE  OneMoves' /\ \A p \in Outputs : p # o => Settled(p)'
  <1>1. ASSUME NEW p \in Outputs, p # o PROVE Settled(p)'
    <2>1. stage'[p] = stage[p] /\ Uses(p)' = Uses(p) /\ Settled(p)
        BY <1>1, Zenon DEF Quiet
    <2>2. Uses(p) \subseteq Encs
        BY UsesTyped
    <2>3. CASE stage[p].at = "idle"
        BY <2>1, <2>3, Zenon DEF Settled
    <2>4. CASE stage[p].at = "capturing" /\ Begun(p)
      <3>1. \A x \in Uses(p)' : encoder'[x].begun # 0
          BY <1>1, <2>1, <2>2, <2>4, Zenon DEF Begun
      <3>2. Begun(p)'
          BY <3>1, Zenon DEF Begun
      <3>3. QED
          BY <2>1, <2>4, <3>2, Zenon DEF Settled
    <2>5. QED
        BY <2>1, <2>3, <2>4, Zenon DEF Settled
  <1>2. OneMoves'
      BY <1>1, Zenon DEF OneMoves
  <1>3. QED
      BY <1>1, <1>2

\* The encoders of an output that captures begin in time after a step that moves
\* their beginning, and what they wait for, no later than allowed.
LEMMA SinceKept ==
  ASSUME NEW p \in Outputs, stage'[p] = stage[p], Uses(p)' = Uses(p),
         BeginsSince(p),
         stage[p].at = "capturing" =>
             \A x \in Uses(p) : \A since :
                /\ VideoSince(x, since) => VideoSince(x, since)'
                /\ AudioSince(x, since) => AudioSince(x, since)'
  PROVE  BeginsSince(p)'
  <1>1. PICK since : since = stage[p].since
      OBVIOUS
  <1>2. SUFFICES ASSUME stage[p].at = "capturing", NEW x \in Uses(p)
                 PROVE  IF x \in VideoEncoders THEN VideoSince(x, since)'
                        ELSE AudioSince(x, since)'
      BY <1>1, Zenon DEF BeginsSince, VideoSince, AudioSince
  <1>3. IF x \in VideoEncoders THEN VideoSince(x, since)
        ELSE AudioSince(x, since)
      BY <1>1, <1>2, Zenon DEF BeginsSince
  <1>4. QED
      BY <1>2, <1>3, Zenon

\* The clocks and what hangs on them, where a step of an output changes at most
\* who calls the encoders back.
LEMMA MediaStays ==
  ASSUME PairingTypeOK, QuietInv, NEW o \in Outputs, Quiet(o),
         \A x \in Encs :
             /\ SameTimes(encoder'[x], encoder[x])
             /\ encoder'[x].data = encoder[x].data
             /\ x \in AudioEncoders =>
                    (encoder'[x].active =>
                        encoder[x].active \/ media_at["audio"] # "buffer"),
         \A x \in Ahead(o) :
             stage[o].at \in Stopping /\ x \in Encs /\ encoder[x].data
                 /\ encoder[x].start_ts = 0
                 => stage'[o].at \in Stopping /\ x \in Elems(stage'[o].with),
         \A x \in Uses(o) :
             stage[o].at # "idle" /\ encoder[x].data /\ encoder[x].start_ts = 0
                 => stage'[o].at # "idle",
         stage'[o].at # "capturing" \/ BeginsSince(o)'
  PROVE  /\ ClockRuns'
         /\ \A v \in VideoEncoders : VideoTimes(v)' /\ VideoPairs(v)'
         /\ \A a \in AudioEncoders : AudioTimes(a)' /\ AudioPairs(a)'
         /\ \A p \in Outputs : BeginsSince(p)'
  <1>1. ClockRuns'
      BY Zenon DEF QuietInv, ClockRuns, Quiet
  <1>2. VideoEncoders \subseteq Encs /\ AudioEncoders \subseteq Encs
      BY DEF Encs
  <1>3. media_time' = media_time /\ media_at' = media_at
      BY Zenon DEF Quiet
  <1>4. \A x \in Encs : Lives(x)
      BY Zenon DEF QuietInv
  <1>5. ASSUME NEW v \in VideoEncoders PROVE VideoTimes(v)' /\ VideoPairs(v)'
    <2>1. VideoTimes(v) /\ VideoPairs(v) /\ v \in Encs
        BY <1>2, Zenon DEF QuietInv
    <2>2. VideoTimes(v)'
        BY <1>3, <2>1, TimesStay
    <2>3. VideoPairs(v)'
        BY <1>4, <2>1, PairsStay
    <2>4. QED
        BY <2>2, <2>3
  <1>6. ASSUME NEW a \in AudioEncoders PROVE AudioTimes(a)' /\ AudioPairs(a)'
    <2>1. AudioTimes(a) /\ AudioPairs(a) /\ a \in Encs
        BY <1>2, Zenon DEF QuietInv
    <2>2. AudioTimes(a)'
        BY <1>3, <2>1, TimesStay
    <2>3. AudioPairs(a)'
        BY <1>4, <2>1, PairsStay
    <2>4. QED
        BY <2>2, <2>3
  <1>7. ASSUME NEW p \in Outputs PROVE BeginsSince(p)'
    <2>1. CASE p = o
        BY <2>1, Zenon DEF BeginsSince
    <2>2. CASE p # o
      <3>1. stage'[p] = stage[p] /\ Uses(p)' = Uses(p) /\ BeginsSince(p)
          BY <2>2, Zenon DEF Quiet, QuietInv
      <3>2. Uses(p) \subseteq Encs
          BY UsesTyped
      <3>3. \A x \in Uses(p) : \A since :
                /\ VideoSince(x, since) => VideoSince(x, since)'
                /\ AudioSince(x, since) => AudioSince(x, since)'
          BY <1>3, <3>2, TimesStay
      <3>4. QED
          BY <3>1, <3>3, SinceKept
    <2>3. QED
        BY <2>1, <2>2
  <1>8. QED
      BY <1>1, <1>5, <1>6, <1>7

\* The invariant, put together.
LEMMA QuietWhole ==
  ASSUME OneMoves', ClockRuns', HaveData',
         \A e \in Encs : Lives(e)', \A e \in Encs : Wanted(e)',
         \A o \in Outputs, e \in Encs : CallbackOn(o, e)',
         \A v \in VideoEncoders : VideoTimes(v)' /\ VideoPairs(v)',
         \A a \in AudioEncoders : AudioTimes(a)' /\ AudioPairs(a)',
         \A o \in Outputs : BeginsSince(o)'
  PROVE  QuietInv'
  BY Zenon DEF QuietInv

\* Nothing is disturbed, so the other output is settled.
LEMMA UndisturbedSettled ==
  ASSUME NEW o \in Outputs, Undisturbed(o), mishap = "none"
  PROVE  \A p \in Outputs : p # o => Settled(p)
  <1>1. mishap # "meanwhile"
      BY DEF Undisturbed
  <1>2. QED
      BY <1>1, Zenon DEF Undisturbed, Settled

\* A step that moves on an output from one stage to another and changes no
\* encoder.
LEMMA StageStep ==
  ASSUME PairingTypeOK, QuietInv, NEW o \in Outputs, Quiet(o),
         encoder' = encoder,
         \A p \in Outputs : p # o => Settled(p),
         \/ /\ stage[o].at = "connect" /\ stage'[o].at = "hook"
            /\ Elems(stage'[o].with) = Uses(o)
         \/ /\ stage[o].at = "capturing" /\ stage'[o].at = "lock"
            /\ Elems(stage'[o].with) = Uses(o)
         \/ /\ stage[o].at = "lock" /\ stage'[o].at = "erase"
            /\ stage'[o].with = stage[o].with
  PROVE  QuietInv'
  <1>1. OneMoves' /\ \A p \in Outputs : p # o => Settled(p)'
      BY SettledStays
  <1>2. \A p \in Outputs : Uses(p)' = Uses(p)
        /\ (p # o => stage'[p] = stage[p])
      BY Zenon DEF Quiet
  <1>3. Ahead(o)' = Elems(stage'[o].with)
      BY Zenon DEF Ahead, Elems
  <1>4. HaveData'
    <2>1. ASSUME NEW p \in Outputs, stage'[p].at \in Starting \cup {"capturing"}
          PROVE  stage[p].at \in Starting \cup {"capturing"}
      <3>1. CASE p = o
          BY <2>1, <3>1 DEF Starting
      <3>2. CASE p # o
          BY <1>2, <2>1, <3>2
      <3>3. QED
          BY <3>1, <3>2
    <2>2. HaveData
        BY DEF QuietInv
    <2>3. QED
        BY <1>2, <2>1, <2>2, Zenon DEF HaveData, Starting
  <1>5. \A x \in Encs : Lives(x)'
      BY Zenon DEF QuietInv, Lives
  <1>6. ASSUME NEW x \in Encs, NEW p \in Outputs
        PROVE  CallbackOn(p, x)' /\ (WantedBy(p, x) => WantedBy(p, x)')
    <2>1. CallbackOn(p, x)
        BY Zenon DEF QuietInv
    <2>2. CASE p # o
      <3>1. stage'[p] = stage[p] /\ Uses(p)' = Uses(p) /\ Ahead(p)' = Ahead(p)
          BY <1>2, <2>2, Zenon DEF Ahead
      <3>2. QED
          BY <2>1, <3>1, Zenon DEF CallbackOn, WantedBy, Starting, Stopping
    <2>3. CASE p = o
      <3>1. Uses(o)' = Uses(o)
          BY <1>2
      <3>2. CASE stage[o].at = "connect" /\ stage'[o].at = "hook"
                 /\ Elems(stage'[o].with) = Uses(o)
        <4>1. o \notin encoder[x].callbacks
            BY <2>1, <2>3, <3>2 DEF CallbackOn, Stopping
        <4>2. QED
            BY <1>3, <2>3, <3>1, <3>2, <4>1
               DEF CallbackOn, WantedBy, Starting
      <3>3. CASE stage[o].at = "capturing" /\ stage'[o].at = "lock"
                 /\ Elems(stage'[o].with) = Uses(o)
          BY <1>3, <2>1, <2>3, <3>1, <3>3
             DEF CallbackOn, WantedBy, Starting, Stopping
      <3>4. CASE stage[o].at = "lock" /\ stage'[o].at = "erase"
                 /\ stage'[o].with = stage[o].with
        <4>1. Ahead(o)' = Ahead(o)
            BY <3>4, Zenon DEF Ahead
        <4>2. QED
            BY <2>1, <2>3, <3>1, <3>4, <4>1
               DEF CallbackOn, WantedBy, Starting, Stopping
      <3>5. QED
          BY <3>2, <3>3, <3>4
    <2>4. QED
        BY <2>2, <2>3
  <1>7. \A x \in Encs : Wanted(x)'
    <2>1. \A x \in Encs : Wanted(x)
        BY Zenon DEF QuietInv
    <2>2. QED
        BY <1>6, <2>1, Zenon DEF Wanted
  <1>8. /\ ClockRuns'
        /\ \A v \in VideoEncoders : VideoTimes(v)' /\ VideoPairs(v)'
        /\ \A a \in AudioEncoders : AudioTimes(a)' /\ AudioPairs(a)'
        /\ \A p \in Outputs : BeginsSince(p)'
    <2>1. \A x \in Encs :
             /\ SameTimes(encoder'[x], encoder[x])
             /\ encoder'[x].data = encoder[x].data
             /\ encoder'[x].active => encoder[x].active
        BY Zenon DEF SameTimes
    <2>2. \A x \in Ahead(o) :
             stage[o].at \in Stopping => /\ stage'[o].at \in Stopping
                                         /\ x \in Elems(stage'[o].with)
        BY DEF Stopping, Ahead
    <2>3. stage'[o].at # "idle" /\ stage'[o].at # "capturing"
        OBVIOUS
    <2>4. QED
        BY <2>1, <2>2, <2>3, MediaStays
  <1>9. QED
      BY <1>1, <1>4, <1>5, <1>6, <1>7, <1>8, QuietWhole

\* An encoder of an output that captures from now on begins in time.
LEMMA SinceNow ==
  ASSUME PairingTypeOK, QuietInv, NEW x \in Encs
  PROVE  IF x \in VideoEncoders THEN VideoSince(x, Now) ELSE AudioSince(x, Now)
  <1>1. /\ media_time["video"] \in Nat /\ media_time["audio"] \in Nat
        /\ Now \in Nat /\ media_time["video"] <= Now
        /\ media_time["audio"] <= Now
      BY NowIsLatest
  <1>2. /\ encoder[x].start_ts \in Nat /\ encoder[x].first_raw_ts \in Nat
        /\ encoder[x].input[1] \in Nat /\ encoder[x].input[2] \in Nat
    <2>1. encoder[x] \in EncoderType
        BY TypeParts
    <2>2. QED
        BY <2>1 DEF EncoderType
  <1>3. MaxSkew + FramePeriod \in Nat
      BY PairingNumbers
  <1>4. CASE x \in VideoEncoders
    <2>1. encoder[x].start_ts <= media_time["video"]
        BY <1>4, Zenon DEF QuietInv, VideoTimes
    <2>2. VideoSince(x, Now)
        BY <1>1, <1>2, <2>1, PairingNumbers DEF VideoSince
    <2>3. QED
        BY <1>4, <2>2
  <1>5. CASE x \notin VideoEncoders
    <2>1. AudioTimes(x)
        BY <1>5, Zenon DEF QuietInv, Encs
    <2>2. /\ encoder[x].input[2] <= media_time["audio"]
          /\ encoder[x].start_ts # 0 => Underway(encoder[x])
          /\ encoder[x].first_received /\ encoder[x].start_ts = 0 =>
                 WaitsWith(encoder[x], media_time["audio"])
        BY <2>1, Zenon DEF AudioTimes
    <2>3. encoder[x].first_received /\ encoder[x].start_ts = 0 =>
              encoder[x].first_raw_ts <= Now
        BY <1>1, <1>2, <2>2 DEF WaitsWith
    <2>4. encoder[x].begun = 0 => encoder[x].start_ts <= Now
        BY <1>1, <1>2, <2>2 DEF Underway
    <2>5. encoder[x].begun = 0 =>
              encoder[x].start_ts <= Now + MaxSkew + FramePeriod
        BY <1>1, <1>2, <2>4, PairingNumbers
    <2>6. AudioSince(x, Now)
        BY <1>1, <2>3, <2>5, Zenon DEF AudioSince
    <2>7. QED
        BY <1>5, <2>6
  <1>6. QED
      BY <1>4, <1>5

\* The encoder is started for the output.
LEMMA StartQuiet ==
  ASSUME PairingTypeOK, HasNext, QuietInv, NEW o \in Outputs, StartEncoder(o)
  PROVE  QuietInv'
  <1> DEFINE e == Head(stage[o].with)
  <1>1. /\ Quiet(o) /\ stage[o].at = "hook"
        /\ media_at[Medium(e)] = "idle"
        /\ encoder'[e] = StartedEncoder(encoder[e], o)
        /\ \A x \in Encs : x # e => encoder'[x] = encoder[x]
        /\ e \in Encs /\ e \in Uses(o) /\ PairingTypeOK'
        /\ Ahead(o) = {e} \cup Elems(stage'[o].with)
        /\ \/ stage'[o].at = "hook" /\ stage'[o].since = stage[o].since
           \/ /\ stage'[o].at = "capturing" /\ Elems(stage'[o].with) = {}
              /\ stage'[o].since = Now
      BY StartMoves, Zenon DEF Passes
  <1> HIDE DEF e
  <1>2. \A p \in Outputs : p # o => Settled(p)
    <2>1. ~Settled(o)
        BY <1>1 DEF Settled
    <2>2. QED
        BY <2>1, OthersSettled DEF QuietInv
  <1>3. encoder[e].data
      BY <1>1 DEF QuietInv, HaveData, Starting
  <1>4. /\ encoder'[e].callbacks = encoder[e].callbacks \cup {o}
        /\ encoder'[e].active
        /\ encoder'[e].data = encoder[e].data
        /\ encoder'[e].initialized = encoder[e].initialized
        /\ SameTimes(encoder'[e], encoder[e])
    <2>1. encoder[e] \in EncoderType
        BY <1>1, TypeParts
    <2>2. Lives(e)
        BY <1>1, Zenon DEF QuietInv
    <2>3. /\ encoder'[e].callbacks = encoder[e].callbacks \cup {o}
          /\ encoder'[e].active = (encoder[e].active \/ encoder[e].callbacks = {})
          /\ encoder'[e].data = encoder[e].data
          /\ encoder'[e].initialized = encoder[e].initialized
          /\ SameTimes(encoder'[e], encoder[e])
      <3>1. LET q == StartedEncoder(encoder[e], o)
            IN  /\ q.callbacks = encoder[e].callbacks \cup {o}
                /\ q.active = (encoder[e].active \/ encoder[e].callbacks = {})
                /\ q.data = encoder[e].data
                /\ q.initialized = encoder[e].initialized
                /\ SameTimes(q, encoder[e])
          BY <1>3, <2>1, StartedTyped, Zenon DEF SameTimes
      <3>2. QED
          BY <1>1, <3>1, Zenon
    <2>4. encoder[e].callbacks # {} => encoder[e].active
        BY <2>2, Zenon DEF Lives
    <2>5. encoder'[e].active
        BY <2>3, <2>4, Zenon
    <2>6. QED
        BY <2>3, <2>5
  <1>5. \A x \in Encs :
            /\ SameTimes(encoder'[x], encoder[x])
            /\ encoder'[x].data = encoder[x].data
            /\ encoder[x].callbacks \subseteq encoder'[x].callbacks
            /\ \A p \in Outputs : p # o =>
                  (p \in encoder'[x].callbacks <=> p \in encoder[x].callbacks)
      BY <1>1, <1>4 DEF SameTimes
  <1>6. \A p \in Outputs : Uses(p)' = Uses(p)
        /\ (p # o => stage'[p] = stage[p])
      BY <1>1, Zenon DEF Quiet
  <1>7. OneMoves' /\ \A p \in Outputs : p # o => Settled(p)'
    <2>1. \A x \in Encs : encoder'[x].begun = encoder[x].begun
        BY <1>5, Zenon DEF SameTimes
    <2>2. QED
        BY <1>1, <1>2, <2>1, SettledStays
  <1>8. HaveData'
    <2>1. HaveData
        BY DEF QuietInv
    <2>2. \A p \in Outputs : Uses(p) \subseteq Encs
        BY UsesTyped
    <2>3. ASSUME NEW p \in Outputs, stage'[p].at \in Starting \cup {"capturing"}
          PROVE  stage[p].at \in Starting \cup {"capturing"}
      <3>1. CASE p = o
          BY <1>1, <3>1 DEF Starting
      <3>2. CASE p # o
          BY <1>6, <2>3, <3>2
      <3>3. QED
          BY <3>1, <3>2
    <2>4. QED
        BY <1>5, <1>6, <2>1, <2>2, <2>3, Zenon DEF HaveData, Starting
  <1>9. \A x \in Encs : Lives(x)'
    <2> SUFFICES ASSUME NEW x \in Encs PROVE Lives(x)'
        OBVIOUS
    <2>1. Lives(x)
        BY Zenon DEF QuietInv
    <2>2. CASE x = e
        BY <1>1, <1>3, <1>4, <2>1, <2>2, Zenon DEF Lives, SameTimes
    <2>3. CASE x # e
        BY <1>1, <2>1, <2>3, Zenon DEF Lives
    <2>4. QED
        BY <2>2, <2>3
  <1>10. ASSUME NEW x \in Encs, NEW p \in Outputs
         PROVE  CallbackOn(p, x)' /\ (WantedBy(p, x) => WantedBy(p, x)')
    <2>1. CallbackOn(p, x)
        BY Zenon DEF QuietInv
    <2>2. CASE p # o
      <3>1. stage'[p] = stage[p] /\ Uses(p)' = Uses(p) /\ Ahead(p)' = Ahead(p)
          BY <1>6, <2>2, Zenon DEF Ahead
      <3>2. p \in encoder'[x].callbacks <=> p \in encoder[x].callbacks
          BY <1>5, <2>2, Zenon
      <3>3. stage[p].at # "disconnect"
          BY <1>2, <2>2 DEF Settled
      <3>4. CallbackOn(p, x)'
        <4>1. /\ stage[p].at \in {"hook", "capturing"} /\ x \in Uses(p) =>
                     \/ p \in encoder'[x].callbacks
                     \/ stage[p].at = "hook" /\ x \in Ahead(p)
              /\ p \in encoder'[x].callbacks =>
                     /\ x \in Uses(p)
                     /\ \/ stage[p].at \in {"hook", "capturing"}
                        \/ stage[p].at \in Stopping /\ x \in Ahead(p)
            BY <2>1, <3>2, Zenon DEF CallbackOn
        <4>2. PICK at, with : stage'[p].at = at /\ stage'[p].with = with
            OBVIOUS
        <4>3. stage[p].at = at /\ at # "disconnect"
            BY <3>1, <3>3, <4>2, Zenon
        <4>4. /\ at \in {"hook", "capturing"} /\ x \in Uses(p)' =>
                     \/ p \in encoder'[x].callbacks
                     \/ at = "hook" /\ x \in Ahead(p)'
              /\ p \in encoder'[x].callbacks =>
                     /\ x \in Uses(p)'
                     /\ \/ at \in {"hook", "capturing"}
                        \/ at \in Stopping /\ x \in Ahead(p)'
            BY <3>1, <4>1, <4>3, Zenon
        <4>5. QED
            BY <4>2, <4>3, <4>4, Zenon DEF CallbackOn, Stopping
      <3>5. WantedBy(p, x) => WantedBy(p, x)'
          BY <3>1, <3>2, Zenon DEF WantedBy, Starting
      <3>6. QED
          BY <3>4, <3>5
    <2>3. CASE p = o
      <3>1. Uses(o)' = Uses(o) /\ Ahead(o)' = Elems(stage'[o].with)
          BY <1>6, Zenon DEF Ahead, Elems
      <3>2. x \in Uses(o) =>
                \/ o \in encoder'[x].callbacks
                \/ stage'[o].at = "hook" /\ x \in Ahead(o)'
        <4>1. CASE x = e
            BY <1>4, <4>1
        <4>2. CASE x # e
            BY <1>1, <2>1, <2>3, <3>1, <4>2 DEF CallbackOn
        <4>3. QED
            BY <4>1, <4>2
      <3>3. o \in encoder'[x].callbacks => x \in Uses(o)
          BY <1>1, <2>1, <2>3, Zenon DEF CallbackOn
      <3>4. /\ stage'[o].at \in {"hook", "capturing"} /\ stage'[o].at # "disconnect"
            /\ stage'[o].at = "hook" \/ stage'[o].at \notin Starting
            /\ stage[o].at # "disconnect" /\ "hook" \in Starting
          BY <1>1 DEF Starting
      <3>5. CallbackOn(o, x)'
          BY <3>1, <3>2, <3>3, <3>4, Zenon DEF CallbackOn, Stopping
      <3>6. WantedBy(o, x) => WantedBy(o, x)'
          BY <1>5, <3>1, <3>2, <3>3, <3>4, <2>1, <2>3, Zenon
             DEF WantedBy, CallbackOn, Starting
      <3>7. QED
          BY <2>3, <3>5, <3>6
    <2>4. QED
        BY <2>2, <2>3
  <1>11. \A x \in Encs : Wanted(x)'
    <2>1. \A x \in Encs : Wanted(x)
        BY Zenon DEF QuietInv
    <2>2. QED
        BY <1>5, <1>10, <2>1, Zenon DEF Wanted
  <1>12. \A x \in Encs :
            x \in AudioEncoders =>
                (encoder'[x].active =>
                    encoder[x].active \/ media_at["audio"] # "buffer")
    <2>1. CASE e \in AudioEncoders
      <3>1. Medium(e) = "audio"
          BY <2>1, EncoderPairingAssumption DEF Medium
      <3>2. media_at["audio"] # "buffer"
          BY <1>1, <3>1
      <3>3. QED
          BY <3>2
    <2>2. CASE e \notin AudioEncoders
        BY <1>1, <2>2, Zenon
    <2>3. QED
        BY <2>1, <2>2
  <1>13. BeginsSince(o)'
    <2>1. CASE stage'[o].at = "hook"
        BY <2>1, Zenon DEF BeginsSince
    <2>2. CASE stage'[o].at = "capturing"
      <3>1. PICK since : since = Now
          OBVIOUS
      <3>2. stage'[o].since = since
          BY <1>1, <2>2, <3>1
      <3>3. ASSUME NEW x \in Uses(o)
            PROVE  IF x \in VideoEncoders THEN VideoSince(x, since)'
                   ELSE AudioSince(x, since)'
        <4>1. x \in Encs
            BY UsesTyped
        <4>2. IF x \in VideoEncoders THEN VideoSince(x, since)
              ELSE AudioSince(x, since)
            BY <3>1, <4>1, SinceNow, Zenon
        <4>3. /\ SameTimes(encoder'[x], encoder[x])
              /\ media_time' = media_time /\ media_at' = media_at
            BY <1>1, <1>5, <4>1, Zenon DEF Quiet
        <4>4. x \in AudioEncoders =>
                 (encoder'[x].active =>
                     encoder[x].active \/ media_at["audio"] # "buffer")
            BY <1>12, <4>1
        <4>5. /\ VideoSince(x, since) => VideoSince(x, since)'
              /\ AudioSince(x, since) => AudioSince(x, since)'
            BY <4>1, <4>3, <4>4, TimesStay
        <4>6. QED
            BY <4>2, <4>5, Zenon
      <3>4. QED
          BY <1>6, <2>2, <3>2, <3>3, Zenon DEF BeginsSince, VideoSince, AudioSince
    <2>3. QED
        BY <1>1, <2>1, <2>2
  <1>14. /\ ClockRuns'
         /\ \A v \in VideoEncoders : VideoTimes(v)' /\ VideoPairs(v)'
         /\ \A a \in AudioEncoders : AudioTimes(a)' /\ AudioPairs(a)'
         /\ \A p \in Outputs : BeginsSince(p)'
    <2>1. stage'[o].at # "idle" /\ stage[o].at \notin Stopping
        BY <1>1 DEF Stopping
    <2>2. QED
        BY <1>1, <1>5, <1>12, <1>13, <2>1, MediaStays
  <1>15. \A p \in Outputs, x \in Encs : CallbackOn(p, x)'
      BY <1>10
  <1>16. QED
      BY <1>7, <1>8, <1>9, <1>11, <1>14, <1>15, QuietWhole

\* Nobody stops, so nobody is about to shut down one of a pair.
LEMMA NobodyStops ==
  ASSUME NEW o \in Outputs, stage[o].at \notin Stopping,
         \A p \in Outputs : p # o => Settled(p)
  PROVE  /\ \A p \in Outputs : stage[p].at \notin Stopping
         /\ \A x, y : ~Widowed(x, y)
  <1>1. \A p \in Outputs : stage[p].at \notin Stopping
    <2>1. ASSUME NEW p \in Outputs, p # o PROVE stage[p].at \notin Stopping
        BY <2>1 DEF Settled, Stopping
    <2>2. QED
        BY <2>1
  <1>2. QED
      BY <1>1, Zenon DEF Widowed

\* An encoder that a step leaves alone keeps its times.
LEMMA AloneStays ==
  ASSUME media_time' = media_time, media_at' = media_at,
         NEW x \in Encs, encoder'[x] = encoder[x]
  PROVE  /\ VideoTimes(x) => VideoTimes(x)'
         /\ x \in AudioEncoders /\ AudioTimes(x) => AudioTimes(x)'
         /\ \A since : VideoSince(x, since) => VideoSince(x, since)'
         /\ \A since : AudioSince(x, since) => AudioSince(x, since)'
         /\ Lives(x) => Lives(x)'
  <1>1. SameTimes(encoder'[x], encoder[x])
      BY Zenon DEF SameTimes
  <1>2. encoder'[x].active => encoder[x].active
      BY Zenon
  <1>3. Lives(x) => Lives(x)'
      BY Zenon DEF Lives
  <1>4. QED
      BY <1>1, <1>2, <1>3, TimesStay

\* An encoder that a step leaves alone, with the encoder it waits for and who
\* uses them, keeps its pair.
LEMMA AlonePairs ==
  ASSUME PairingTypeOK, media_time' = media_time, NEW x \in Encs,
         encoder'[x] = encoder[x],
         encoder[x].paired_encoder \in Encs /\ encoder[x].start_ts = 0 =>
             LET y == encoder[x].paired_encoder
             IN  /\ encoder'[y] = encoder[y] /\ ~Widowed(x, y)
                 /\ \A p \in Outputs :
                       stage[p].at # "idle" /\ {y, x} \subseteq Uses(p) =>
                       stage'[p].at # "idle" /\ {y, x} \subseteq Uses(p)'
  PROVE  /\ VideoTimes(x) /\ VideoPairs(x) => VideoPairs(x)'
         /\ AudioTimes(x) /\ AudioPairs(x) => AudioPairs(x)'
  <1>0. PICK y : y = encoder[x].paired_encoder
      OBVIOUS
  <1>1. encoder[x].paired_encoder = y /\ encoder'[x].paired_encoder = y
        /\ encoder'[x].start_ts = encoder[x].start_ts
      BY <1>0, Zenon
  <1>2. ASSUME y \in Encs, encoder[x].start_ts = 0
        PROVE  /\ encoder'[y] = encoder[y] /\ ~Widowed(x, y)
               /\ \A p \in Outputs :
                     stage[p].at # "idle" /\ {y, x} \subseteq Uses(p) =>
                     stage'[p].at # "idle" /\ {y, x} \subseteq Uses(p)'
      BY <1>1, <1>2, Zenon
  <1>3. ASSUME VideoTimes(x), VideoPairs(x) PROVE VideoPairs(x)'
    <2>1. y \in Encs \cup {NONE}
        BY <1>1, <1>3, Zenon DEF VideoTimes, Encs
    <2>2. CASE y = NONE \/ encoder[x].start_ts # 0
        BY <1>1, <2>2, Zenon DEF VideoPairs
    <2>3. CASE y \in Encs /\ y # NONE /\ encoder[x].start_ts = 0
      <3>1. encoder[y].paired_encoder = x /\ encoder[y].start_ts = 0
          BY <1>1, <1>2, <1>3, <2>3, Zenon DEF VideoPairs
      <3>2. encoder'[y].paired_encoder = x /\ encoder'[y].start_ts = 0
          BY <1>2, <2>3, <3>1, Zenon
      <3>3. QED
          BY <1>1, <3>2, Zenon DEF VideoPairs
    <2>4. QED
        BY <2>1, <2>2, <2>3, Zenon
  <1>4. ASSUME AudioTimes(x), AudioPairs(x) PROVE AudioPairs(x)'
    <2>1. y \in Encs \cup {NONE}
        BY <1>1, <1>4, Zenon DEF AudioTimes, Encs
    <2>2. CASE y = NONE \/ encoder[x].start_ts # 0
        BY <1>1, <2>2, Zenon DEF AudioPairs
    <2>3. CASE y \in Encs /\ y # NONE /\ encoder[x].start_ts = 0
      <3>1. /\ \E p \in Outputs : stage[p].at # "idle" /\ {y, x} \subseteq Uses(p)
            /\ encoder[y].paired_encoder = x
            /\ encoder[y].start_ts # 0 =>
                  /\ encoder[x].first_received
                  /\ encoder[x].first_raw_ts <= encoder[y].start_ts
                  /\ media_time["audio"] <=
                         encoder[y].start_ts + MaxSkew + BlockPeriod
          BY <1>1, <1>2, <1>4, <2>3, Zenon DEF AudioPairs
      <3>2. \E p \in Outputs : stage'[p].at # "idle" /\ {y, x} \subseteq Uses(p)'
          BY <1>2, <2>3, <3>1, Zenon
      <3>3. /\ encoder'[y].paired_encoder = x
            /\ encoder'[y].start_ts # 0 =>
                  /\ encoder'[x].first_received
                  /\ encoder'[x].first_raw_ts <= encoder'[y].start_ts
                  /\ media_time'["audio"] <=
                         encoder'[y].start_ts + MaxSkew + BlockPeriod
          BY <1>2, <2>3, <3>1, Zenon
      <3>4. QED
          BY <1>1, <3>2, <3>3, Zenon DEF AudioPairs
    <2>4. QED
        BY <2>1, <2>2, <2>3, Zenon
  <1>5. QED
      BY <1>3, <1>4

\* An encoder that has just been initialized, and had no data before.
Fresh(x) ==
    /\ ~encoder[x].data /\ ~encoder[x].active /\ encoder[x].begun = 0
    /\ LET q == encoder'[x]
       IN  /\ q.data /\ q.initialized /\ ~q.active
           /\ q.callbacks = {} /\ encoder[x].callbacks = {}
           /\ q.paired_encoder = NONE /\ ~q.first_received
           /\ q.start_ts = 0 /\ q.begun = 0 /\ q.input = <<0, 0>>

\* What holds of an encoder that has just been initialized.
LEMMA FreshHolds ==
  ASSUME PairingTypeOK, ClockRuns, media_time' = media_time,
         media_at' = media_at, NEW x \in Encs, Fresh(x)
  PROVE  /\ Lives(x)' /\ VideoTimes(x)' /\ VideoPairs(x)'
         /\ AudioTimes(x)' /\ AudioPairs(x)'
  <1>1. Lives(x)'
      BY Zenon DEF Fresh, Lives
  <1>2. VideoPairs(x)' /\ AudioPairs(x)'
      BY Zenon DEF Fresh, VideoPairs, AudioPairs
  <1>3. /\ media_time["video"] \in Nat /\ media_time["audio"] \in Nat
      BY NowIsLatest
  <1>4. /\ encoder'[x].input[1] = 0 /\ encoder'[x].input[2] = 0
        /\ encoder'[x].start_ts = 0 /\ encoder'[x].begun = 0
        /\ encoder'[x].first_received = FALSE \/ ~encoder'[x].first_received
        /\ encoder'[x].paired_encoder = NONE /\ ~encoder'[x].active
      BY DEF Fresh
  <1>5. 0 <= media_time'["video"] /\ 0 <= media_time'["audio"] /\ 0 <= 0
      BY <1>3
  <1>6. VideoTimes(x)'
      BY <1>4, <1>5 DEF VideoTimes, Fresh
  <1>7. AudioTimes(x)'
      BY <1>4, <1>5 DEF AudioTimes, Fresh
  <1>8. QED
      BY <1>1, <1>2, <1>6, <1>7

\* The encoders of the output are initialized that were not.
LEMMA InitializeQuiet ==
  ASSUME PairingTypeOK, HasNext, QuietInv, NEW o \in Outputs, mishap = "none",
         InitializeEncoders(o)
  PROVE  QuietInv'
  <1>1. /\ PairingTypeOK' /\ Quiet(o)
        /\ stage[o].at = "idle" /\ Undisturbed(o) /\ stage'[o].at = "pair"
        /\ \A x \in Encs : encoder'[x] = IF x \in Uses(o)
                                          THEN InitializedEncoder(encoder[x])
                                          ELSE encoder[x]
      BY InitializeMoves
  <1>2. \A p \in Outputs : p # o => Settled(p)
      BY <1>1, UndisturbedSettled
  <1>3. /\ \A p \in Outputs : stage[p].at \notin Stopping
        /\ \A x, y : ~Widowed(x, y)
    <2>1. stage[o].at \notin Stopping
        BY <1>1 DEF Stopping
    <2>2. QED
        BY <1>2, <2>1, NobodyStops
  <1>4. \A p \in Outputs : Uses(p)' = Uses(p)
        /\ (p # o => stage'[p] = stage[p])
      BY <1>1, Zenon DEF Quiet
  <1>5. \A x \in Encs : Lives(x)
      BY Zenon DEF QuietInv
  <1>6. ASSUME NEW x \in Encs
        PROVE  /\ encoder'[x] = encoder[x] \/ (x \in Uses(o) /\ Fresh(x))
               /\ x \in Uses(o) => encoder'[x].data
    <2>1. encoder[x] \in EncoderType
        BY TypeParts
    <2>2. CASE x \notin Uses(o)
        BY <1>1, <2>2
    <2>3. CASE x \in Uses(o) /\ (encoder[x].active \/ encoder[x].initialized)
      <3>1. encoder'[x] = encoder[x]
        <4>1. InitializedEncoder(encoder[x]) = encoder[x]
            BY <2>1, <2>3, InitializedTyped, Zenon
        <4>2. QED
            BY <1>1, <2>3, <4>1, Zenon
      <3>2. encoder[x].data
          BY <1>5, <2>3, Zenon DEF Lives
      <3>3. QED
          BY <3>1, <3>2
    <2>4. CASE x \in Uses(o) /\ ~(encoder[x].active \/ encoder[x].initialized)
      <3>1. /\ ~encoder[x].data /\ ~encoder[x].active
            /\ encoder[x].callbacks = {} /\ encoder[x].paired_encoder = NONE
            /\ ~encoder[x].first_received /\ encoder[x].start_ts = 0
            /\ encoder[x].begun = 0
        <4>1. Lives(x)
            BY <1>5
        <4>2. encoder[x].initialized = encoder[x].data
            BY <4>1, Zenon DEF Lives
        <4>3. ~encoder[x].data
            BY <2>4, <4>2, Zenon
        <4>4. QED
            BY <2>4, <4>1, <4>3, Zenon DEF Lives
      <3>2. LET q == InitializedEncoder(encoder[x])
            IN  /\ q.data = TRUE /\ q.initialized = TRUE /\ q.active = FALSE
                /\ q.callbacks = encoder[x].callbacks /\ q.input = <<0, 0>>
                /\ q.paired_encoder = encoder[x].paired_encoder
                /\ q.first_received = encoder[x].first_received
                /\ q.start_ts = encoder[x].start_ts
                /\ q.begun = encoder[x].begun
          BY <2>1, <2>4, <3>1, InitializedTyped, Zenon
      <3>3. encoder'[x] = InitializedEncoder(encoder[x])
          BY <1>1, <2>4, Zenon
      <3>4. Fresh(x) /\ encoder'[x].data
          BY <3>1, <3>2, <3>3, Zenon DEF Fresh
      <3>5. QED
          BY <2>4, <3>4
    <2>5. QED
        BY <2>2, <2>3, <2>4
  <1>7. \A x \in Encs : encoder[x].data => encoder'[x] = encoder[x]
      BY <1>6, Zenon DEF Fresh
  <1>8. \A x \in Encs : encoder'[x].callbacks = encoder[x].callbacks
      BY <1>6, Zenon DEF Fresh
  <1>9. OneMoves'
    <2>1. \A x \in Encs : encoder[x].begun # 0 => encoder'[x].begun # 0
        BY <1>6, Zenon DEF Fresh
    <2>2. QED
        BY <1>1, <1>2, <2>1, SettledStays
  <1>10. HaveData'
    <2>1. HaveData /\ \A p \in Outputs : Uses(p) \subseteq Encs
        BY UsesTyped DEF QuietInv
    <2>2. SUFFICES ASSUME NEW p \in Outputs,
                          stage'[p].at \in Starting \cup {"capturing"},
                          NEW x \in Uses(p)
                   PROVE  encoder'[x].data
        BY <1>4, Zenon DEF HaveData, Starting
    <2>3. CASE p = o
        BY <1>6, <2>1, <2>2, <2>3
    <2>4. CASE p # o
        BY <1>4, <1>7, <2>1, <2>2, <2>4, Zenon DEF HaveData
    <2>5. QED
        BY <2>3, <2>4
  <1>11. ASSUME NEW p \in Outputs, NEW x \in Encs
         PROVE  CallbackOn(p, x)' /\ (WantedBy(p, x) => WantedBy(p, x)')
    <2>1. CallbackOn(p, x)
        BY Zenon DEF QuietInv
    <2>2. CASE p # o
      <3>1. stage'[p] = stage[p] /\ Uses(p)' = Uses(p) /\ Ahead(p)' = Ahead(p)
          BY <1>4, <2>2, Zenon DEF Ahead
      <3>2. QED
          BY <1>8, <2>1, <3>1, Zenon DEF CallbackOn, WantedBy, Starting, Stopping
    <2>3. CASE p = o
      <3>1. o \notin encoder[x].callbacks /\ o \notin encoder'[x].callbacks
          BY <1>1, <1>8, <2>1, <2>3 DEF CallbackOn, Stopping
      <3>2. CallbackOn(o, x)'
          BY <1>1, <3>1 DEF CallbackOn
      <3>3. ~WantedBy(o, x)
          BY <1>1, <3>1 DEF WantedBy, Starting
      <3>4. QED
          BY <2>3, <3>2, <3>3
    <2>4. QED
        BY <2>2, <2>3
  <1>12. \A x \in Encs : Wanted(x)'
    <2>1. ASSUME NEW x \in Encs PROVE Wanted(x)'
      <3>1. CASE x \in Uses(o)
        <4>1. WantedBy(o, x)'
            BY <1>1, <1>4, <3>1 DEF WantedBy, Starting
        <4>2. QED
            BY <4>1, Zenon DEF Wanted
      <3>2. CASE x \notin Uses(o)
        <4>1. Wanted(x) /\ encoder'[x] = encoder[x]
            BY <1>6, <3>2, Zenon DEF QuietInv
        <4>2. QED
            BY <1>11, <4>1, Zenon DEF Wanted
      <3>3. QED
          BY <3>1, <3>2
    <2>2. QED
        BY <2>1
  <1>13. media_time' = media_time /\ media_at' = media_at /\ ClockRuns
         /\ ClockRuns'
      BY <1>1, Zenon DEF Quiet, QuietInv, ClockRuns
  <1>14. ASSUME NEW x \in Encs
         PROVE  /\ Lives(x)'
                /\ VideoTimes(x) => VideoTimes(x)'
                /\ x \in AudioEncoders /\ AudioTimes(x) => AudioTimes(x)'
                /\ VideoTimes(x) /\ VideoPairs(x) => VideoPairs(x)'
                /\ AudioTimes(x) /\ AudioPairs(x) => AudioPairs(x)'
    <2>1. CASE Fresh(x)
        BY <1>13, <2>1, FreshHolds
    <2>2. CASE encoder'[x] = encoder[x]
      <3>1. /\ Lives(x)'
            /\ VideoTimes(x) => VideoTimes(x)'
            /\ x \in AudioEncoders /\ AudioTimes(x) => AudioTimes(x)'
          BY <1>5, <1>13, <2>2, AloneStays
      <3>2. ASSUME NEW y \in Encs, ~Widowed(x, y),
                   \/ VideoTimes(x) /\ VideoPairs(x)
                   \/ AudioTimes(x) /\ AudioPairs(x),
                   y = encoder[x].paired_encoder, encoder[x].start_ts = 0
            PROVE  encoder'[y] = encoder[y]
        <4>1. x # NONE /\ y # NONE
            BY EncoderPairingAssumption DEF Encs
        <4>2. encoder[y].paired_encoder = x
            BY <3>2, <4>1, Zenon DEF VideoPairs, AudioPairs
        <4>3. encoder[y].data
            BY <1>5, <4>1, <4>2, Zenon DEF Lives
        <4>4. QED
            BY <1>7, <4>3
      <3>3. \A p \in Outputs : \A y : stage[p].at # "idle" /\ {y, x} \subseteq Uses(p) =>
                       stage'[p].at # "idle" /\ {y, x} \subseteq Uses(p)'
          BY <1>1, <1>4
      <3>4. ASSUME \/ VideoTimes(x) /\ VideoPairs(x)
                   \/ AudioTimes(x) /\ AudioPairs(x)
            PROVE  /\ VideoTimes(x) /\ VideoPairs(x) => VideoPairs(x)'
                   /\ AudioTimes(x) /\ AudioPairs(x) => AudioPairs(x)'
        <4>1. encoder[x].paired_encoder \in Encs /\ encoder[x].start_ts = 0 =>
                LET y == encoder[x].paired_encoder
                IN  /\ encoder'[y] = encoder[y] /\ ~Widowed(x, y)
                    /\ \A p \in Outputs :
                          stage[p].at # "idle" /\ {y, x} \subseteq Uses(p) =>
                          stage'[p].at # "idle" /\ {y, x} \subseteq Uses(p)'
            BY <1>3, <3>2, <3>3, <3>4, Zenon
        <4>2. QED
            BY <1>13, <2>2, <4>1, AlonePairs
      <3>5. QED
          BY <3>1, <3>4
    <2>3. QED
        BY <1>6, <2>1, <2>2
  <1>15. /\ \A v \in VideoEncoders : VideoTimes(v)' /\ VideoPairs(v)'
         /\ \A a \in AudioEncoders : AudioTimes(a)' /\ AudioPairs(a)'
    <2>1. /\ \A v \in VideoEncoders : VideoTimes(v) /\ VideoPairs(v)
          /\ \A a \in AudioEncoders : AudioTimes(a) /\ AudioPairs(a)
        BY Zenon DEF QuietInv
    <2>2. VideoEncoders \subseteq Encs /\ AudioEncoders \subseteq Encs
        BY DEF Encs
    <2>3. QED
        BY <1>14, <2>1, <2>2
  <1>16. \A p \in Outputs : BeginsSince(p)'
    <2>1. ASSUME NEW p \in Outputs PROVE BeginsSince(p)'
      <3>1. CASE p = o
          BY <1>1, <3>1 DEF BeginsSince
      <3>2. CASE p # o
        <4>1. stage'[p] = stage[p] /\ Uses(p)' = Uses(p) /\ BeginsSince(p)
            BY <1>4, <3>2, Zenon DEF QuietInv
        <4>2. ASSUME stage[p].at = "capturing", NEW x \in Uses(p), NEW since
              PROVE  /\ VideoSince(x, since) => VideoSince(x, since)'
                     /\ AudioSince(x, since) => AudioSince(x, since)'
          <5>1. x \in Encs
              BY UsesTyped
          <5>2. encoder[x].data
              BY <4>2, Zenon DEF QuietInv, HaveData
          <5>3. encoder'[x] = encoder[x]
              BY <1>7, <5>1, <5>2
          <5>4. QED
              BY <1>13, <5>1, <5>3, AloneStays
        <4>3. QED
            BY <4>1, <4>2, SinceKept
      <3>3. QED
          BY <3>1, <3>2
    <2>2. QED
        BY <2>1
  <1>17. /\ \A x \in Encs : Lives(x)'
         /\ \A p \in Outputs, x \in Encs : CallbackOn(p, x)'
      BY <1>11, <1>14
  <1>18. QED
      BY <1>9, <1>10, <1>12, <1>13, <1>15, <1>16, <1>17, QuietWhole

\* An encoder that calls back a settled output has begun.
LEMMA CallbackBegun ==
  ASSUME NEW p \in Outputs, Settled(p), NEW x, CallbackOn(p, x),
         p \in encoder[x].callbacks
  PROVE  encoder[x].begun # 0
  <1>1. x \in Uses(p) /\ stage[p].at \in {"hook", "capturing"} \cup Stopping
      BY Zenon DEF CallbackOn
  <1>2. Begun(p)
      BY <1>1 DEF Settled, Stopping
  <1>3. QED
      BY <1>1, <1>2, Zenon DEF Begun

\* An encoder with data has begun when its packets count their time.
LEMMA BegunStarted ==
  ASSUME QuietInv, NEW x \in Encs, encoder[x].begun # 0
  PROVE  encoder[x].start_ts # 0
  <1>1. CASE x \in VideoEncoders
      BY <1>1, Zenon DEF QuietInv, VideoTimes
  <1>2. CASE x \notin VideoEncoders
      BY <1>2, Zenon DEF QuietInv, AudioTimes, Encs
  <1>3. QED
      BY <1>1, <1>2

\* An encoder that has not begun calls the output back that stops, and nobody
\* else, unless it is the one that is shut down now.
LEMMA StillAhead ==
  ASSUME QuietInv, NEW o \in Outputs, stage[o].at \in Stopping,
         \A p \in Outputs : p # o => Settled(p)
  PROVE  \A x \in Encs :
             encoder[x].data /\ encoder[x].start_ts = 0 =>
             \/ stage[o].at = "disconnect" /\ x = Head(stage[o].with)
             \/ /\ o \in encoder[x].callbacks /\ x \in Ahead(o)
                /\ \A p \in Outputs : p # o => p \notin encoder[x].callbacks
  <1> SUFFICES ASSUME NEW x \in Encs, encoder[x].data, encoder[x].start_ts = 0,
                      ~(stage[o].at = "disconnect" /\ x = Head(stage[o].with))
               PROVE  /\ o \in encoder[x].callbacks /\ x \in Ahead(o)
                      /\ \A p \in Outputs : p # o => p \notin encoder[x].callbacks
      BY Zenon
  <1>1. encoder[x].begun = 0
      BY BegunStarted
  <1>2. Wanted(x) /\ \A p \in Outputs : CallbackOn(p, x)
      BY Zenon DEF QuietInv
  <1>3. KeptByOther(o, x)
      BY <1>2, Zenon DEF KeptByOther
  <1>4. WantedBy(o, x)
      BY <1>1, <1>3, OtherHasBegun, Zenon
  <1>5. stage[o].at \notin Starting /\ stage[o].at \notin {"hook", "capturing"}
      BY DEF Starting, Stopping
  <1>6. o \in encoder[x].callbacks
      BY <1>4, <1>5, Zenon DEF WantedBy
  <1>7. x \in Ahead(o)
      BY <1>2, <1>5, <1>6, Zenon DEF CallbackOn
  <1>8. ASSUME NEW p \in Outputs, p # o, p \in encoder[x].callbacks PROVE FALSE
      BY <1>1, <1>2, <1>8, CallbackBegun
  <1>9. QED
      BY <1>6, <1>7, <1>8

\* An output that has the callbacks of its encoders keeps them and their data.
LEMMA Captured ==
  ASSUME QuietInv, NEW p \in Outputs, Settled(p), NEW x \in Uses(p), x \in Encs,
         stage[p].at # "idle"
  PROVE  stage[p].at = "capturing" /\ p \in encoder[x].callbacks
         /\ encoder[x].data
  <1>1. stage[p].at = "capturing" /\ stage[p].at # "hook"
      BY DEF Settled
  <1>2. CallbackOn(p, x) /\ HaveData
      BY Zenon DEF QuietInv
  <1>3. encoder[x].data
      BY <1>1, <1>2, Zenon DEF HaveData
  <1>4. QED
      BY <1>1, <1>2, <1>3, Zenon DEF CallbackOn

\* A video encoder and an audio encoder become a pair, or none do.
LEMMA PairQuiet ==
  ASSUME PairingTypeOK, HasNext, QuietInv, NEW o \in Outputs, PairEncoders(o)
  PROVE  QuietInv'
  <1>1. /\ PairingTypeOK' /\ Quiet(o)
        /\ stage[o].at = "pair" /\ stage'[o].at = "connect"
        /\ \/ encoder' = encoder
           \/ \E v \in VideoEncoders, a \in AudioEncoders :
                 /\ {v, a} \subseteq Uses(o)
                 /\ ~encoder[v].active /\ ~encoder[a].active
                 /\ encoder[v].paired_encoder = NONE
                 /\ encoder[a].paired_encoder = NONE
                 /\ encoder'[v] = [encoder[v] EXCEPT !.paired_encoder = a]
                 /\ encoder'[a] = [encoder[a] EXCEPT !.paired_encoder = v]
                 /\ \A x \in Encs \ {v, a} : encoder'[x] = encoder[x]
      BY PairMoves
  <1>2. \A p \in Outputs : p # o => Settled(p)
    <2>1. ~Settled(o)
        BY <1>1 DEF Settled
    <2>2. QED
        BY <2>1, OthersSettled DEF QuietInv
  <1>3. /\ \A p \in Outputs : stage[p].at \notin Stopping
        /\ \A x, y : ~Widowed(x, y)
    <2>1. stage[o].at \notin Stopping
        BY <1>1 DEF Stopping
    <2>2. QED
        BY <1>2, <2>1, NobodyStops
  <1>4. /\ \A p \in Outputs : Uses(p)' = Uses(p)
        /\ \A p \in Outputs : p # o => stage'[p] = stage[p]
        /\ media_time' = media_time /\ media_at' = media_at
      BY <1>1, Zenon DEF Quiet
  <1>5. \A x \in Encs : Lives(x)
      BY Zenon DEF QuietInv
  <1>6. VideoEncoders \subseteq Encs /\ AudioEncoders \subseteq Encs
        /\ \A x \in Encs : x # NONE /\ ~(x \in VideoEncoders /\ x \in AudioEncoders)
      BY EncoderPairingAssumption DEF Encs
  <1> DEFINE New(x) ==
         /\ ~encoder[x].active /\ encoder[x].data
         /\ encoder[x].paired_encoder = NONE
         /\ IF x \in VideoEncoders
            THEN encoder'[x].paired_encoder \in AudioEncoders
            ELSE encoder'[x].paired_encoder \in VideoEncoders
         /\ LET y == encoder'[x].paired_encoder
            IN  /\ encoder'[y].paired_encoder = x
                /\ encoder'[y].start_ts = 0 /\ {x, y} \subseteq Uses(o)
  <1>7. ASSUME NEW x \in Encs
        PROVE  /\ encoder'[x].initialized = encoder[x].initialized
               /\ encoder'[x].data = encoder[x].data
               /\ encoder'[x].active = encoder[x].active
               /\ encoder'[x].callbacks = encoder[x].callbacks
               /\ encoder'[x].first_received = encoder[x].first_received
               /\ encoder'[x].first_raw_ts = encoder[x].first_raw_ts
               /\ encoder'[x].start_ts = encoder[x].start_ts
               /\ encoder'[x].input = encoder[x].input
               /\ encoder'[x].begun = encoder[x].begun
    <2>1. CASE encoder'[x] = encoder[x]
        BY <2>1
    <2>2. CASE \E y : encoder'[x] = [encoder[x] EXCEPT !.paired_encoder = y]
      <3>1. encoder[x] \in EncoderType
          BY TypeParts
      <3>2. PICK y : encoder'[x] = [encoder[x] EXCEPT !.paired_encoder = y]
          BY <2>2
      <3>3. QED
          BY <3>1, <3>2 DEF EncoderType
    <2>3. QED
        BY <1>1, <2>1, <2>2
  <1>8. ASSUME NEW x \in Encs PROVE encoder'[x] = encoder[x] \/ New(x)
    <2>1. CASE encoder' = encoder
        BY <2>1
    <2>2. CASE encoder' # encoder
      <3>1. PICK v \in VideoEncoders, a \in AudioEncoders :
                 /\ {v, a} \subseteq Uses(o)
                 /\ ~encoder[v].active /\ ~encoder[a].active
                 /\ encoder[v].paired_encoder = NONE
                 /\ encoder[a].paired_encoder = NONE
                 /\ encoder'[v] = [encoder[v] EXCEPT !.paired_encoder = a]
                 /\ encoder'[a] = [encoder[a] EXCEPT !.paired_encoder = v]
                 /\ \A y \in Encs \ {v, a} : encoder'[y] = encoder[y]
          BY <1>1, <2>2
      <3>2. encoder[v] \in EncoderType /\ encoder[a] \in EncoderType
            /\ v \in Encs /\ a \in Encs
          BY <1>6, TypeParts
      <3>3. encoder'[v].paired_encoder = a /\ encoder'[a].paired_encoder = v
          BY <3>1, <3>2 DEF EncoderType
      <3>4. encoder[v].data /\ encoder[a].data
          BY <1>1, <3>1 DEF QuietInv, HaveData, Starting
      <3>5. encoder'[v].start_ts = 0 /\ encoder'[a].start_ts = 0
        <4>1. Lives(v) /\ Lives(a)
            BY <1>5, <3>2, Zenon
        <4>2. encoder[v].start_ts = 0 /\ encoder[a].start_ts = 0
            BY <3>1, <4>1, Zenon DEF Lives
        <4>3. QED
            BY <1>7, <3>2, <4>2, Zenon
      <3>6. CASE x = v
          BY <3>1, <3>3, <3>4, <3>5, <3>6, Zenon
      <3>7. CASE x = a
        <4>1. x \notin VideoEncoders
            BY <1>6, <3>2, <3>7
        <4>2. encoder'[x].paired_encoder = v /\ v \in VideoEncoders
            BY <3>3, <3>7, Zenon
        <4>3. encoder'[v].paired_encoder = x /\ {x, v} \subseteq Uses(o)
            BY <3>1, <3>3, <3>7
        <4>4. QED
            BY <3>1, <3>4, <3>5, <3>7, <4>1, <4>2, <4>3, Zenon
      <3>8. QED
          BY <3>1, <3>6, <3>7
    <2>3. QED
        BY <2>1, <2>2
  <1>9. OneMoves'
    <2>1. \A x \in Encs : encoder'[x].begun = encoder[x].begun
        BY <1>7
    <2>2. QED
        BY <1>1, <1>2, <2>1, SettledStays
  <1>10. HaveData'
    <2>1. HaveData /\ \A p \in Outputs : Uses(p) \subseteq Encs
        BY UsesTyped DEF QuietInv
    <2>2. ASSUME NEW p \in Outputs, stage'[p].at \in Starting \cup {"capturing"}
          PROVE  stage[p].at \in Starting \cup {"capturing"}
      <3>1. CASE p = o
          BY <1>1, <3>1 DEF Starting
      <3>2. CASE p # o
          BY <1>4, <2>2, <3>2
      <3>3. QED
          BY <3>1, <3>2
    <2>3. QED
      <3>1. ASSUME NEW p \in Outputs, stage'[p].at \in Starting \cup {"capturing"},
                   NEW x \in Uses(p)
            PROVE  encoder'[x].data
        <4>1. encoder[x].data
            BY <2>1, <2>2, <3>1, Zenon DEF HaveData
        <4>2. QED
            BY <1>7, <2>1, <3>1, <4>1, Zenon
      <3>2. Starting' = Starting
          BY DEF Starting
      <3>3. QED
          BY <1>4, <3>1, <3>2, Zenon DEF HaveData
  <1>11. \A x \in Encs : Lives(x)'
    <2>1. ASSUME NEW x \in Encs PROVE Lives(x)'
      <3>1. encoder'[x] = encoder[x] \/ encoder[x].data
          BY <1>8
      <3>2. Lives(x)
          BY <1>5
      <3>3. CASE encoder'[x] = encoder[x]
          BY <3>2, <3>3, Zenon DEF Lives
      <3>4. CASE encoder[x].data
          BY <1>7, <3>2, <3>4, Zenon DEF Lives
      <3>5. QED
          BY <3>1, <3>3, <3>4, Zenon
    <2>2. QED
        BY <2>1, Zenon
  <1>12. ASSUME NEW p \in Outputs, NEW x \in Encs
         PROVE  CallbackOn(p, x)' /\ (WantedBy(p, x) => WantedBy(p, x)')
    <2>1. CallbackOn(p, x) /\ encoder'[x].callbacks = encoder[x].callbacks
        BY <1>7, Zenon DEF QuietInv
    <2>2. CASE p # o
      <3>1. stage'[p] = stage[p] /\ Uses(p)' = Uses(p) /\ Ahead(p)' = Ahead(p)
          BY <1>4, <2>2, Zenon DEF Ahead
      <3>2. QED
          BY <2>1, <3>1, Zenon DEF CallbackOn, WantedBy, Starting, Stopping
    <2>3. CASE p = o
      <3>1. o \notin encoder[x].callbacks /\ o \notin encoder'[x].callbacks
          BY <1>1, <2>1, <2>3 DEF CallbackOn, Stopping
      <3>2. CallbackOn(o, x)'
          BY <1>1, <3>1 DEF CallbackOn
      <3>3. WantedBy(o, x) => WantedBy(o, x)'
          BY <1>1, <1>4, <3>1 DEF WantedBy, Starting
      <3>4. QED
          BY <2>3, <3>2, <3>3
    <2>4. QED
        BY <2>2, <2>3
  <1>13. \A x \in Encs : Wanted(x)'
    <2>1. \A x \in Encs : Wanted(x)
        BY Zenon DEF QuietInv
    <2>2. QED
        BY <1>7, <1>12, <2>1, Zenon DEF Wanted
  <1>14. ClockRuns'
      BY <1>4, Zenon DEF QuietInv, ClockRuns
  <1>15. ASSUME NEW x \in Encs, encoder'[x] = encoder[x]
         PROVE  /\ VideoTimes(x) => VideoTimes(x)'
                /\ x \in AudioEncoders /\ AudioTimes(x) => AudioTimes(x)'
                /\ VideoTimes(x) /\ VideoPairs(x) => VideoPairs(x)'
                /\ AudioTimes(x) /\ AudioPairs(x) => AudioPairs(x)'
    <2>1. /\ VideoTimes(x) => VideoTimes(x)'
          /\ x \in AudioEncoders /\ AudioTimes(x) => AudioTimes(x)'
        BY <1>4, <1>15, AloneStays
    <2>2. ASSUME NEW y \in Encs,
                 y = encoder[x].paired_encoder, encoder[x].start_ts = 0,
                 \/ VideoTimes(x) /\ VideoPairs(x)
                 \/ AudioTimes(x) /\ AudioPairs(x)
          PROVE  encoder'[y] = encoder[y]
      <3>1. y # NONE
          BY <1>6
      <3>2. encoder[y].paired_encoder = x
          BY <1>3, <2>2, <3>1, Zenon DEF VideoPairs, AudioPairs
      <3>3. ~New(y)
          BY <1>6, <3>2
      <3>4. QED
          BY <1>8, <3>3
    <2>3. \A p \in Outputs : \A y : stage[p].at # "idle" /\ {y, x} \subseteq Uses(p) =>
                       stage'[p].at # "idle" /\ {y, x} \subseteq Uses(p)'
        BY <1>1, <1>4
    <2>4. ASSUME \/ VideoTimes(x) /\ VideoPairs(x)
                 \/ AudioTimes(x) /\ AudioPairs(x)
          PROVE  /\ VideoTimes(x) /\ VideoPairs(x) => VideoPairs(x)'
                 /\ AudioTimes(x) /\ AudioPairs(x) => AudioPairs(x)'
      <3> HIDE DEF New
      <3>1. encoder[x].paired_encoder \in Encs /\ encoder[x].start_ts = 0 =>
              LET y == encoder[x].paired_encoder
              IN  /\ encoder'[y] = encoder[y] /\ ~Widowed(x, y)
                  /\ \A p \in Outputs :
                        stage[p].at # "idle" /\ {y, x} \subseteq Uses(p) =>
                        stage'[p].at # "idle" /\ {y, x} \subseteq Uses(p)'
          BY <1>3, <2>2, <2>3, <2>4, Zenon
      <3>2. QED
          BY <1>4, <1>15, <3>1, AlonePairs
    <2>5. QED
        BY <2>1, <2>4
  <1>16. ASSUME NEW x \in Encs, New(x)
         PROVE  /\ x \in VideoEncoders => VideoPairs(x)'
                /\ x \in AudioEncoders => AudioPairs(x)'
                /\ x \in VideoEncoders /\ VideoTimes(x) => VideoTimes(x)'
                /\ x \in AudioEncoders /\ AudioTimes(x) => AudioTimes(x)'
    <2>0. PICK y : y = encoder'[x].paired_encoder
        OBVIOUS
    <2>1. /\ encoder'[x].paired_encoder = y /\ encoder'[y].paired_encoder = x
          /\ encoder'[y].start_ts = 0
          /\ encoder'[x].start_ts = 0 /\ encoder'[x].begun = 0
          /\ ~encoder'[x].first_received /\ ~encoder'[x].active
          /\ {x, y} \subseteq Uses(o) /\ ~encoder[x].first_received
          /\ encoder'[x].input = encoder[x].input
          /\ encoder[x].start_ts = 0 /\ encoder[x].begun = 0
      <3>1. Lives(x)
          BY <1>5
      <3>2. ~encoder[x].first_received /\ encoder[x].start_ts = 0
            /\ encoder[x].begun = 0
          BY <1>16, <3>1, Zenon DEF Lives
      <3>3. QED
          BY <1>7, <1>16, <2>0, <3>2, Zenon
    <2>2. x \in VideoEncoders => VideoPairs(x)'
        BY <2>1, Zenon DEF VideoPairs
    <2>3. x \in AudioEncoders => AudioPairs(x)'
      <3>1. {y, x} \subseteq Uses(o)'
          BY <1>4, <2>1
      <3>2. \E p \in Outputs : stage'[p].at # "idle" /\ {y, x} \subseteq Uses(p)'
          BY <1>1, <3>1
      <3>3. QED
          BY <2>1, <3>2, Zenon DEF AudioPairs
    <2>4. x \in VideoEncoders /\ VideoTimes(x) => VideoTimes(x)'
      <3>1. x \in VideoEncoders => encoder'[x].paired_encoder \in AudioEncoders
          BY <1>16, Zenon
      <3>2. QED
          BY <1>4, <2>1, <3>1, Zenon DEF VideoTimes
    <2>5. x \in AudioEncoders /\ AudioTimes(x) => AudioTimes(x)'
      <3>1. x \in AudioEncoders => encoder'[x].paired_encoder \in VideoEncoders
          BY <1>6, <1>16
      <3>2. QED
          BY <1>4, <2>1, <3>1, Zenon DEF AudioTimes
    <2>6. QED
        BY <2>2, <2>3, <2>4, <2>5
  <1> HIDE DEF New
  <1>17. \A v \in VideoEncoders : VideoTimes(v)' /\ VideoPairs(v)'
    <2>1. ASSUME NEW v \in VideoEncoders PROVE VideoTimes(v)' /\ VideoPairs(v)'
      <3>1. VideoTimes(v) /\ VideoPairs(v) /\ v \in Encs
          BY <1>6, Zenon DEF QuietInv
      <3>2. CASE New(v)
          BY <1>16, <3>1, <3>2
      <3>3. CASE encoder'[v] = encoder[v]
          BY <1>15, <3>1, <3>3
      <3>4. QED
          BY <1>8, <3>1, <3>2, <3>3
    <2>2. QED
        BY <2>1
  <1>18. \A a \in AudioEncoders : AudioTimes(a)' /\ AudioPairs(a)'
    <2>1. ASSUME NEW a \in AudioEncoders PROVE AudioTimes(a)' /\ AudioPairs(a)'
      <3>1. AudioTimes(a) /\ AudioPairs(a) /\ a \in Encs
          BY <1>6, Zenon DEF QuietInv
      <3>2. CASE New(a)
          BY <1>16, <3>1, <3>2
      <3>3. CASE encoder'[a] = encoder[a]
          BY <1>15, <3>1, <3>3
      <3>4. QED
          BY <1>8, <3>1, <3>2, <3>3
    <2>2. QED
        BY <2>1
  <1>19. \A p \in Outputs : BeginsSince(p)'
    <2>1. ASSUME NEW p \in Outputs PROVE BeginsSince(p)'
      <3>1. CASE p = o
          BY <1>1, <3>1 DEF BeginsSince
      <3>2. CASE p # o
        <4>1. stage'[p] = stage[p] /\ Uses(p)' = Uses(p) /\ BeginsSince(p)
            BY <1>4, <3>2, Zenon DEF QuietInv
        <4>2. ASSUME NEW x \in Uses(p), NEW since
              PROVE  /\ VideoSince(x, since) => VideoSince(x, since)'
                     /\ AudioSince(x, since) => AudioSince(x, since)'
          <5>1. x \in Encs
              BY UsesTyped
          <5>2. /\ encoder'[x].first_received = encoder[x].first_received
                /\ encoder'[x].first_raw_ts = encoder[x].first_raw_ts
                /\ encoder'[x].start_ts = encoder[x].start_ts
                /\ encoder'[x].begun = encoder[x].begun
              BY <1>7, <5>1
          <5>3. QED
              BY <1>4, <5>2, Zenon DEF VideoSince, AudioSince
        <4>3. QED
            BY <4>1, <4>2, SinceKept
      <3>3. QED
          BY <3>1, <3>2
    <2>2. QED
        BY <2>1
  <1>20. \A p \in Outputs, x \in Encs : CallbackOn(p, x)'
      BY <1>12
  <1>21. QED
      BY <1>9, <1>10, <1>11, <1>13, <1>14, <1>17, <1>18, <1>19, <1>20, QuietWhole

\* The output takes its callback off an encoder, which is shut down next when it
\* was the last one.
LEMMA EraseQuiet ==
  ASSUME PairingTypeOK, HasNext, QuietInv, NEW o \in Outputs, EraseCallback(o)
  PROVE  QuietInv'
  <1> DEFINE e == Head(stage[o].with)
  <1>1. /\ Quiet(o) /\ stage[o].at = "erase" /\ e \in Encs /\ e \in Uses(o)
        /\ encoder'[e] = [encoder[e] EXCEPT !.callbacks = @ \ {o}]
        /\ \A x \in Encs : x # e => encoder'[x] = encoder[x]
        /\ encoder[e].callbacks = {o} =>
               stage'[o].at = "disconnect" /\ stage'[o].with = stage[o].with
        /\ encoder[e].callbacks # {o} => Passes(o, "lock", "idle")
      BY EraseMoves
  <1>2. /\ \A p \in Outputs : Uses(p)' = Uses(p)
        /\ \A p \in Outputs : p # o => stage'[p] = stage[p]
        /\ media_time' = media_time /\ media_at' = media_at
      BY <1>1, Zenon DEF Quiet
  <1>3. \A p \in Outputs : p # o => Settled(p)
    <2>1. ~Settled(o)
        BY <1>1 DEF Settled
    <2>2. QED
        BY <2>1, OthersSettled DEF QuietInv
  <1>4. stage[o].at \in Stopping /\ stage[o].at # "disconnect"
        /\ stage[o].at \notin Starting \cup {"hook", "capturing"}
      BY <1>1 DEF Stopping, Starting
  <1> DEFINE next == stage'[o].with
  <1>5. \/ /\ encoder[e].callbacks = {o} /\ stage'[o].at = "disconnect"
           /\ Ahead(o) = Elems(next) /\ Head(next) = e
        \/ /\ encoder[e].callbacks # {o} /\ Ahead(o) = {e} \cup Elems(next)
           /\ \/ stage'[o].at = "lock"
              \/ stage'[o].at = "idle" /\ Elems(next) = {}
    <2>1. CASE encoder[e].callbacks = {o}
      <3>1. stage'[o].at = "disconnect" /\ next = stage[o].with
          BY <1>1, <2>1
      <3>2. Ahead(o) = Elems(next) /\ Head(next) = e
          BY <3>1, Zenon DEF Ahead
      <3>3. QED
          BY <2>1, <3>1, <3>2
    <2>2. CASE encoder[e].callbacks # {o}
        BY <1>1, <2>2, Zenon DEF Passes
    <2>3. QED
        BY <2>1, <2>2
  <1>6. Ahead(o)' = Elems(next)
      BY Zenon DEF Ahead, Elems
  <1> HIDE DEF e, next
  <1>7. /\ encoder'[e].callbacks = encoder[e].callbacks \ {o}
        /\ encoder'[e].active = encoder[e].active
        /\ encoder'[e].data = encoder[e].data
        /\ encoder'[e].initialized = encoder[e].initialized
        /\ SameTimes(encoder'[e], encoder[e])
    <2>1. encoder[e] \in EncoderType
        BY <1>1, TypeParts
    <2>2. QED
        BY <1>1, <2>1 DEF EncoderType, SameTimes
  <1>8. \A x \in Encs :
            /\ SameTimes(encoder'[x], encoder[x])
            /\ encoder'[x].data = encoder[x].data
            /\ encoder'[x].active = encoder[x].active
            /\ \A p \in Outputs : p # o =>
                  (p \in encoder'[x].callbacks <=> p \in encoder[x].callbacks)
            /\ o \in encoder'[x].callbacks <=> x # e /\ o \in encoder[x].callbacks
      BY <1>1, <1>7 DEF SameTimes
  <1>9. \A x \in Encs : encoder[x].data /\ encoder[x].start_ts = 0 =>
            /\ x \in Elems(next) /\ stage'[o].at \in Stopping
    <2>1. SUFFICES ASSUME NEW x \in Encs, encoder[x].data, encoder[x].start_ts = 0
                   PROVE  x \in Elems(next) /\ stage'[o].at \in Stopping
        BY DEF Stopping
    <2>2. /\ o \in encoder[x].callbacks /\ x \in Ahead(o)
          /\ \A p \in Outputs : p # o => p \notin encoder[x].callbacks
        BY <1>3, <1>4, <2>1, StillAhead
    <2>3. encoder[x].callbacks = {o}
      <3>1. encoder[x].callbacks \subseteq Outputs
        <4>1. encoder[x] \in EncoderType
            BY TypeParts
        <4>2. QED
            BY <4>1 DEF EncoderType
      <3>2. QED
          BY <2>2, <3>1
    <2>4. QED
        BY <1>5, <2>2, <2>3 DEF Stopping
  <1>10. OneMoves'
    <2>1. \A x \in Encs : encoder'[x].begun = encoder[x].begun
        BY <1>8, Zenon DEF SameTimes
    <2>2. QED
        BY <1>1, <1>3, <2>1, SettledStays
  <1>11. stage'[o].at \in Stopping \cup {"idle"} /\ "idle" \notin Stopping
         /\ stage'[o].at \notin Starting \cup {"capturing"}
         /\ stage'[o].at \notin {"hook", "capturing"}
      BY <1>5 DEF Stopping, Starting
  <1>12. HaveData'
    <2>1. HaveData /\ \A p \in Outputs : Uses(p) \subseteq Encs
        BY UsesTyped DEF QuietInv
    <2>2. ASSUME NEW p \in Outputs, stage'[p].at \in Starting \cup {"capturing"}
          PROVE  stage[p].at \in Starting \cup {"capturing"}
        BY <1>2, <1>11, <2>2
    <2>3. QED
        BY <1>2, <1>8, <2>1, <2>2, Zenon DEF HaveData, Starting
  <1>13. \A x \in Encs : Lives(x)'
    <2>1. ASSUME NEW x \in Encs PROVE Lives(x)'
      <3>1. Lives(x)
          BY Zenon DEF QuietInv
      <3>2. CASE x = e
        <4>1. encoder'[x].callbacks # {} => encoder[x].callbacks # {}
            BY <1>7, <3>2
        <4>2. QED
            BY <1>7, <3>1, <3>2, <4>1, Zenon DEF Lives, SameTimes
      <3>3. CASE x # e
          BY <1>1, <3>1, <3>3, Zenon DEF Lives
      <3>4. QED
          BY <3>2, <3>3
    <2>2. QED
        BY <2>1
  <1>14. ASSUME NEW p \in Outputs, NEW x \in Encs PROVE CallbackOn(p, x)'
    <2>1. CallbackOn(p, x)
        BY Zenon DEF QuietInv
    <2>2. CASE p # o
      <3>1. stage'[p] = stage[p] /\ Uses(p)' = Uses(p) /\ Ahead(p)' = Ahead(p)
          BY <1>2, <2>2, Zenon DEF Ahead
      <3>2. p \in encoder'[x].callbacks <=> p \in encoder[x].callbacks
          BY <1>8, <2>2, Zenon
      <3>3. stage[p].at \notin Stopping /\ "disconnect" \in Stopping
          BY <1>3, <2>2 DEF Settled, Stopping
      <3>4. PICK at : stage'[p].at = at /\ stage[p].at = at /\ at # "disconnect"
                      /\ at \notin Stopping
          BY <3>1, <3>3, Zenon
      <3>5. /\ at \in {"hook", "capturing"} /\ x \in Uses(p)' =>
                   \/ p \in encoder'[x].callbacks
                   \/ at = "hook" /\ x \in Ahead(p)'
            /\ p \in encoder'[x].callbacks =>
                   x \in Uses(p)' /\ at \in {"hook", "capturing"}
          BY <2>1, <3>1, <3>2, <3>4, Zenon DEF CallbackOn
      <3>6. QED
          BY <3>4, <3>5, Zenon DEF CallbackOn, Stopping
    <2>3. CASE p = o
      <3>1. o \in encoder'[x].callbacks => x # e /\ o \in encoder[x].callbacks
          BY <1>8
      <3>2. o \in encoder[x].callbacks => x \in Uses(o) /\ x \in Ahead(o)
          BY <1>4, <2>1, <2>3, Zenon DEF CallbackOn
      <3>3. o \in encoder'[x].callbacks =>
               x \in Uses(o)' /\ stage'[o].at \in Stopping /\ x \in Ahead(o)'
          BY <1>2, <1>5, <1>6, <3>1, <3>2 DEF Stopping
      <3>4. stage'[o].at = "disconnect" /\ x = Head(next) =>
               encoder'[x].callbacks = {}
          BY <1>5, <1>7
      <3>5. Head(stage[o].with)' = Head(next)
          BY DEF next
      <3>6. CallbackOn(o, x)'
          BY <1>11, <3>3, <3>4, <3>5, Zenon DEF CallbackOn, Stopping
      <3>7. QED
          BY <2>3, <3>6
    <2>4. QED
        BY <2>2, <2>3
  <1>15. \A x \in Encs : Wanted(x)'
    <2>1. ASSUME NEW x \in Encs, encoder[x].data
          PROVE  \E p \in Outputs : WantedBy(p, x)'
      <3>1. PICK p \in Outputs : WantedBy(p, x)
          BY <2>1, Zenon DEF QuietInv, Wanted
      <3>2. CASE p # o
        <4>1. stage'[p] = stage[p] /\ Uses(p)' = Uses(p)
            BY <1>2, <3>2
        <4>2. p \in encoder[x].callbacks => p \in encoder'[x].callbacks
            BY <1>8, <3>2
        <4>3. WantedBy(p, x)'
            BY <3>1, <4>1, <4>2, Zenon DEF WantedBy, Starting
        <4>4. QED
            BY <4>3
      <3>3. CASE p = o
        <4>1. o \in encoder[x].callbacks
            BY <1>4, <3>1, <3>3, Zenon DEF WantedBy
        <4>2. CASE x # e
          <5>1. o \in encoder'[x].callbacks
              BY <1>8, <4>1, <4>2
          <5>2. WantedBy(o, x)'
              BY <5>1, Zenon DEF WantedBy
          <5>3. QED
              BY <5>2
        <4>3. CASE x = e /\ encoder[e].callbacks = {o}
          <5>1. stage'[o].at = "disconnect" /\ x = Head(stage'[o].with)
              BY <1>5, <4>3 DEF next
          <5>2. WantedBy(o, x)'
              BY <5>1, Zenon DEF WantedBy
          <5>3. QED
              BY <5>2
        <4>4. CASE x = e /\ encoder[e].callbacks # {o}
          <5>1. encoder[x].callbacks \subseteq Outputs
            <6>1. encoder[x] \in EncoderType
                BY TypeParts
            <6>2. QED
                BY <6>1 DEF EncoderType
          <5>2. PICK q \in Outputs : q # o /\ q \in encoder[x].callbacks
              BY <4>1, <4>4, <5>1
          <5>3. q \in encoder'[x].callbacks
              BY <1>8, <5>2
          <5>4. WantedBy(q, x)'
              BY <5>3, Zenon DEF WantedBy
          <5>5. QED
              BY <5>4
        <4>5. QED
            BY <4>2, <4>3, <4>4
      <3>4. QED
          BY <3>2, <3>3
    <2>2. QED
        BY <1>8, <2>1, Zenon DEF Wanted
  <1>16. /\ ClockRuns'
         /\ \A v \in VideoEncoders : VideoTimes(v)' /\ VideoPairs(v)'
         /\ \A a \in AudioEncoders : AudioTimes(a)' /\ AudioPairs(a)'
         /\ \A p \in Outputs : BeginsSince(p)'
    <2>1. Uses(o) \subseteq Encs /\ Ahead(o) \subseteq Encs
      <3>1. Ahead(o) \subseteq Uses(o)
          BY <1>4, Zenon DEF HasNext
      <3>2. QED
          BY <3>1, UsesTyped
    <2>2. \A x \in Uses(o) :
             stage[o].at # "idle" /\ encoder[x].data /\ encoder[x].start_ts = 0
                 => stage'[o].at # "idle"
        BY <1>9, <2>1, <1>11
    <2>3. \A x \in Ahead(o) :
             stage[o].at \in Stopping /\ x \in Encs /\ encoder[x].data
                 /\ encoder[x].start_ts = 0
                 => stage'[o].at \in Stopping /\ x \in Elems(stage'[o].with)
        BY <1>9, Zenon DEF next
    <2>4. stage'[o].at # "capturing"
        BY <1>11
    <2>5. QED
        BY <1>1, <1>8, <2>2, <2>3, <2>4, MediaStays
  <1>17. \A p \in Outputs, x \in Encs : CallbackOn(p, x)'
      BY <1>14
  <1>18. QED
      BY <1>10, <1>12, <1>13, <1>15, <1>16, <1>17, QuietWhole

\* The encoder that nobody uses any more is shut down.
LEMMA DisconnectQuiet ==
  ASSUME PairingTypeOK, HasNext, QuietInv, NEW o \in Outputs,
         DisconnectEncoder(o)
  PROVE  QuietInv'
  <1> DEFINE e == Head(stage[o].with)
             next == stage'[o].with
  <1>1. /\ PairingTypeOK' /\ Quiet(o) /\ stage[o].at = "disconnect"
        /\ encoder'[e] = StoppedEncoder(encoder[e])
        /\ \A x \in Encs : x # e => encoder'[x] = encoder[x]
        /\ e \in Encs /\ e \in Uses(o) /\ Ahead(o) = {e} \cup Elems(next)
        /\ \/ stage'[o].at = "lock"
           \/ stage'[o].at = "idle" /\ Elems(next) = {}
      BY DisconnectMoves, Zenon DEF Passes
  <1>2. /\ \A p \in Outputs : Uses(p)' = Uses(p)
        /\ \A p \in Outputs : p # o => stage'[p] = stage[p]
        /\ media_time' = media_time /\ media_at' = media_at
      BY <1>1, Zenon DEF Quiet
  <1>3. \A p \in Outputs : p # o => Settled(p)
    <2>1. ~Settled(o)
        BY <1>1 DEF Settled
    <2>2. QED
        BY <2>1, OthersSettled DEF QuietInv
  <1>4. stage[o].at \in Stopping
        /\ stage[o].at \notin Starting \cup {"hook", "capturing"}
      BY <1>1 DEF Stopping, Starting
  <1>5. Ahead(o)' = Elems(next)
      BY Zenon DEF Ahead, Elems
  <1>6. encoder[e].callbacks = {}
      BY <1>1, Zenon DEF QuietInv, CallbackOn
  <1>7. \A x \in Encs : encoder[x].data /\ encoder[x].start_ts = 0 =>
            x = e \/ (o \in encoder[x].callbacks /\ x \in Ahead(o))
      BY <1>3, <1>4, StillAhead, Zenon
  <1> HIDE DEF e, next
  <1>8. /\ encoder'[e].callbacks = {} /\ ~encoder'[e].data
        /\ ~encoder'[e].active /\ ~encoder'[e].initialized
        /\ encoder'[e].paired_encoder = NONE
        /\ ~encoder'[e].first_received /\ encoder'[e].start_ts = 0
        /\ encoder'[e].begun = 0 /\ encoder'[e].input = encoder[e].input
    <2>1. encoder[e] \in EncoderType
        BY <1>1, TypeParts
    <2>2. Lives(e)
        BY <1>1, Zenon DEF QuietInv
    <2>3. ~encoder[e].data =>
              /\ encoder[e].paired_encoder = NONE /\ ~encoder[e].first_received
              /\ encoder[e].start_ts = 0 /\ encoder[e].begun = 0
        BY <2>2, Zenon DEF Lives
    <2>4. LET q == StoppedEncoder(encoder[e])
          IN  /\ ~q.data /\ ~q.active /\ ~q.initialized
              /\ q.callbacks = encoder[e].callbacks /\ q.input = encoder[e].input
              /\ q.paired_encoder = NONE /\ ~q.first_received
              /\ q.start_ts = 0 /\ q.begun = 0
      <3>1. LET q == StoppedEncoder(encoder[e])
            IN  /\ ~q.data /\ ~q.active /\ ~q.initialized
                /\ q.callbacks = encoder[e].callbacks
                /\ q.input = encoder[e].input
                /\ encoder[e].data =>
                       /\ q.paired_encoder = NONE /\ ~q.first_received
                       /\ q.start_ts = 0 /\ q.begun = 0
                /\ ~encoder[e].data =>
                       /\ q.paired_encoder = encoder[e].paired_encoder
                       /\ q.first_received = encoder[e].first_received
                       /\ q.start_ts = encoder[e].start_ts
                       /\ q.begun = encoder[e].begun
          BY <2>1, StoppedTyped, Zenon
      <3>2. QED
          BY <2>3, <3>1, Zenon
    <2>5. QED
        BY <1>1, <1>6, <2>4, Zenon
  <1>9. \A x \in Encs : encoder'[x].callbacks = encoder[x].callbacks
      BY <1>1, <1>6, <1>8
  <1>10. \A p \in Outputs : p # o /\ stage[p].at # "idle" =>
            stage[p].at = "capturing" /\ e \notin Uses(p)
    <2>1. ASSUME NEW p \in Outputs, p # o, stage[p].at # "idle"
          PROVE  stage[p].at = "capturing" /\ e \notin Uses(p)
      <3>1. stage[p].at = "capturing"
          BY <1>3, <2>1 DEF Settled
      <3>2. ASSUME e \in Uses(p) PROVE FALSE
        <4>1. p \in encoder[e].callbacks
            BY <1>1, <1>3, <2>1, <3>2, Captured
        <4>2. QED
            BY <1>6, <4>1
      <3>3. QED
          BY <3>1, <3>2
    <2>2. QED
        BY <2>1
  <1>11. OneMoves'
    <2>1. \A p \in Outputs, x \in Encs :
             p # o /\ stage[p].at = "capturing" /\ x \in Uses(p)
                 /\ encoder[x].begun # 0 => encoder'[x].begun # 0
        BY <1>1, <1>10
    <2>2. QED
        BY <1>1, <1>3, <2>1, SettledStays
  <1>12. stage'[o].at \in Stopping \cup {"idle"} /\ "idle" \notin Stopping
         /\ stage'[o].at \notin Starting \cup {"capturing"}
         /\ stage'[o].at \notin {"hook", "capturing", "disconnect"}
      BY <1>1 DEF Stopping, Starting
  <1>13. HaveData'
    <2>1. HaveData /\ \A p \in Outputs : Uses(p) \subseteq Encs
        BY UsesTyped DEF QuietInv
    <2>2. SUFFICES ASSUME NEW p \in Outputs,
                          stage'[p].at \in Starting \cup {"capturing"},
                          NEW x \in Uses(p)
                   PROVE  encoder'[x].data
        BY <1>2, Zenon DEF HaveData, Starting
    <2>3. p # o /\ stage[p].at \in Starting \cup {"capturing"}
        BY <1>2, <1>12, <2>2
    <2>4. stage[p].at # "idle" /\ x \in Encs /\ encoder[x].data
      <3>1. stage[p].at # "idle"
          BY <2>3 DEF Starting
      <3>2. x \in Encs /\ encoder[x].data
          BY <2>1, <2>2, <2>3, Zenon DEF HaveData
      <3>3. QED
          BY <3>1, <3>2
    <2>5. QED
        BY <1>1, <1>10, <2>2, <2>3, <2>4
  <1>14. \A x \in Encs : Lives(x)'
    <2>1. ASSUME NEW x \in Encs PROVE Lives(x)'
      <3>1. CASE x = e
        <4>1. encoder'[e] \in EncoderType
            BY <1>1, Zenon DEF PairingTypeOK
        <4>2. encoder'[e].initialized = encoder'[e].data
            BY <1>8, <4>1 DEF EncoderType
        <4>3. QED
            BY <1>8, <3>1, <4>2, Zenon DEF Lives
      <3>2. CASE x # e
          BY <1>1, <3>2, Zenon DEF QuietInv, Lives
      <3>3. QED
          BY <3>1, <3>2
    <2>2. QED
        BY <2>1
  <1>15. ASSUME NEW p \in Outputs, NEW x \in Encs PROVE CallbackOn(p, x)'
    <2>1. CallbackOn(p, x)
        BY Zenon DEF QuietInv
    <2>2. CASE p # o
      <3>1. stage'[p] = stage[p] /\ Uses(p)' = Uses(p) /\ Ahead(p)' = Ahead(p)
          BY <1>2, <2>2, Zenon DEF Ahead
      <3>2. QED
          BY <1>9, <2>1, <3>1, Zenon DEF CallbackOn, Stopping
    <2>3. CASE p = o
      <3>1. o \in encoder[x].callbacks => x \in Uses(o) /\ x \in Ahead(o)
          BY <1>4, <2>1, <2>3, Zenon DEF CallbackOn
      <3>2. o \in encoder'[x].callbacks =>
               x \in Uses(o)' /\ stage'[o].at \in Stopping /\ x \in Ahead(o)'
          BY <1>1, <1>2, <1>5, <1>6, <1>9, <3>1 DEF Stopping
      <3>3. stage'[o].at # "disconnect"
          BY <1>12
      <3>4. CallbackOn(o, x)'
          BY <1>12, <3>2, <3>3, Zenon DEF CallbackOn, Stopping
      <3>5. QED
          BY <2>3, <3>4
    <2>4. QED
        BY <2>2, <2>3
  <1>16. \A x \in Encs : Wanted(x)'
    <2>1. ASSUME NEW x \in Encs, x # e, encoder[x].data
          PROVE  \E p \in Outputs : WantedBy(p, x)'
      <3>1. PICK p \in Outputs : WantedBy(p, x)
          BY <2>1, Zenon DEF QuietInv, Wanted
      <3>2. p \in encoder[x].callbacks => p \in encoder'[x].callbacks
          BY <1>9
      <3>3. CASE p # o
        <4>1. stage'[p] = stage[p] /\ Uses(p)' = Uses(p)
            BY <1>2, <3>3
        <4>2. WantedBy(p, x)'
            BY <3>1, <3>2, <4>1, Zenon DEF WantedBy, Starting
        <4>3. QED
            BY <4>2
      <3>4. CASE p = o
        <4>1. x # Head(stage[o].with)
            BY <2>1 DEF e
        <4>2. o \in encoder[x].callbacks
            BY <1>4, <3>1, <3>4, <4>1, Zenon DEF WantedBy
        <4>3. WantedBy(o, x)'
            BY <3>2, <3>4, <4>2, Zenon DEF WantedBy
        <4>4. QED
            BY <4>3
      <3>5. QED
          BY <3>3, <3>4
    <2>2. ASSUME NEW x \in Encs PROVE Wanted(x)'
      <3>1. CASE x = e
          BY <1>8, <3>1, Zenon DEF Wanted
      <3>2. CASE x # e
          BY <1>1, <2>1, <3>2, Zenon DEF Wanted
      <3>3. QED
          BY <3>1, <3>2
    <2>3. QED
        BY <2>2
  <1>17. ClockRuns'
      BY <1>2, Zenon DEF QuietInv, ClockRuns
  <1>18. VideoEncoders \subseteq Encs /\ AudioEncoders \subseteq Encs
         /\ \A x \in Encs : x # NONE
      BY EncoderPairingAssumption DEF Encs
  <1>19. \A x \in Encs : Lives(x)
      BY Zenon DEF QuietInv
  <1>20. \A x \in Encs : x # e /\ encoder[x].data /\ encoder[x].start_ts = 0
            => x \in Elems(next) /\ stage'[o].at \in Stopping
               /\ stage'[o].at # "idle"
      BY <1>1, <1>7 DEF Stopping
  \* The pair that x waits in, if its other one is e.
  <1>21. ASSUME NEW x \in Encs, x # e, encoder[x].data, encoder[x].start_ts = 0,
                NEW y \in Encs, ~encoder'[y].data
         PROVE  Widowed(x, y)'
      BY <1>5, <1>20, <1>21, Zenon DEF Widowed, Stopping
  <1>22. ASSUME NEW x \in Encs, x # e, encoder[x].data, encoder[x].start_ts = 0,
                NEW y \in Encs, Widowed(x, y)
         PROVE  Widowed(x, y)'
    <2>1. ~encoder[y].data
        BY <1>22, Zenon DEF Widowed
    <2>2. ~encoder'[y].data
        BY <1>1, <1>8, <2>1
    <2>3. QED
        BY <1>21, <1>22, <2>2
  <1>23. \A v \in VideoEncoders : VideoTimes(v)' /\ VideoPairs(v)'
    <2> SUFFICES ASSUME NEW v \in VideoEncoders
                 PROVE  VideoTimes(v)' /\ VideoPairs(v)'
        OBVIOUS
    <2>1. VideoTimes(v) /\ VideoPairs(v) /\ v \in Encs
        BY <1>18, Zenon DEF QuietInv
    <2>2. CASE v = e
      <3>1. VideoPairs(v)'
          BY <1>8, <2>2, Zenon DEF VideoPairs
      <3>2. 0 <= media_time'["video"]
          BY <1>2, NowIsLatest
      <3>3. VideoTimes(v)'
          BY <1>8, <2>1, <2>2, <3>2, Zenon DEF VideoTimes
      <3>4. QED
          BY <3>1, <3>3
    <2>3. CASE v # e
      <3>0. encoder'[v] = encoder[v]
          BY <1>1, <2>1, <2>3
      <3>1. VideoTimes(v)'
          BY <1>2, <2>1, <3>0, AloneStays
      <3>2. PICK y : y = encoder[v].paired_encoder
          OBVIOUS
      <3>3. encoder[v].paired_encoder = y /\ encoder'[v].paired_encoder = y
            /\ encoder'[v].start_ts = encoder[v].start_ts
          BY <3>0, <3>2
      <3>4. CASE y = NONE \/ encoder[v].start_ts # 0
          BY <3>1, <3>3, <3>4, Zenon DEF VideoPairs
      <3>5. CASE y # NONE /\ encoder[v].start_ts = 0
        <4>1. y \in Encs
            BY <1>18, <2>1, <3>3, <3>5, Zenon DEF VideoTimes
        <4>2. encoder[v].data
            BY <1>19, <2>1, <3>3, <3>5, Zenon DEF Lives
        <4>3. \/ encoder[y].paired_encoder = v /\ encoder[y].start_ts = 0
              \/ Widowed(v, y)
            BY <2>1, <3>3, <3>5, Zenon DEF VideoPairs
        <4>4. \/ encoder'[y].paired_encoder = v /\ encoder'[y].start_ts = 0
              \/ Widowed(v, y)'
          <5>1. CASE Widowed(v, y)
              BY <1>22, <2>1, <2>3, <3>5, <4>1, <4>2, <5>1
          <5>2. CASE ~Widowed(v, y) /\ y = e
              BY <1>8, <1>21, <2>1, <2>3, <3>5, <4>1, <4>2, <5>2
          <5>3. CASE ~Widowed(v, y) /\ y # e
              BY <1>1, <4>1, <4>3, <5>3
          <5>4. QED
              BY <5>1, <5>2, <5>3
        <4>5. Widowed(v, y)' => Widowed(v, encoder[v].paired_encoder)'
            BY <3>3, Zenon DEF Widowed
        <4>6. QED
            BY <3>1, <3>3, <4>4, <4>5, Zenon DEF VideoPairs
      <3>6. QED
          BY <3>1, <3>4, <3>5
    <2>4. QED
        BY <2>2, <2>3
  <1>24. \A a \in AudioEncoders : AudioTimes(a)' /\ AudioPairs(a)'
    <2> SUFFICES ASSUME NEW a \in AudioEncoders
                 PROVE  AudioTimes(a)' /\ AudioPairs(a)'
        OBVIOUS
    <2>1. AudioTimes(a) /\ AudioPairs(a) /\ a \in Encs
        BY <1>18, Zenon DEF QuietInv
    <2>2. CASE a = e
      <3>1. AudioPairs(a)'
          BY <1>8, <2>2, Zenon DEF AudioPairs
      <3>2. AudioTimes(a)'
          BY <1>2, <1>8, <2>1, <2>2, Zenon DEF AudioTimes
      <3>3. QED
          BY <3>1, <3>2
    <2>3. CASE a # e
      <3>0. encoder'[a] = encoder[a]
          BY <1>1, <2>1, <2>3
      <3>1. AudioTimes(a)'
          BY <1>2, <2>1, <3>0, AloneStays
      <3>2. PICK y : y = encoder[a].paired_encoder
          OBVIOUS
      <3>3. encoder[a].paired_encoder = y /\ encoder'[a].paired_encoder = y
            /\ encoder'[a].start_ts = encoder[a].start_ts
            /\ encoder'[a].first_received = encoder[a].first_received
            /\ encoder'[a].first_raw_ts = encoder[a].first_raw_ts
          BY <3>0, <3>2
      <3>4. CASE y = NONE \/ encoder[a].start_ts # 0
          BY <3>1, <3>3, <3>4, Zenon DEF AudioPairs
      <3>5. CASE y # NONE /\ encoder[a].start_ts = 0
        <4>1. y \in Encs
            BY <1>18, <2>1, <3>3, <3>5, Zenon DEF AudioTimes
        <4>2. encoder[a].data
            BY <1>19, <2>1, <3>3, <3>5, Zenon DEF Lives
        <4>3. /\ \E p \in Outputs : stage[p].at # "idle" /\ {y, a} \subseteq Uses(p)
              /\ encoder[y].paired_encoder = a \/ Widowed(a, y)
              /\ encoder[y].start_ts # 0 =>
                    /\ encoder[a].first_received
                    /\ encoder[a].first_raw_ts <= encoder[y].start_ts
                    /\ media_time["audio"] <=
                           encoder[y].start_ts + MaxSkew + BlockPeriod
            BY <2>1, <3>3, <3>5, Zenon DEF AudioPairs
        <4>4. encoder'[y].paired_encoder = a \/ Widowed(a, y)'
          <5>1. CASE Widowed(a, y)
              BY <1>22, <2>1, <2>3, <3>5, <4>1, <4>2, <5>1
          <5>2. CASE ~Widowed(a, y) /\ y = e
              BY <1>8, <1>21, <2>1, <2>3, <3>5, <4>1, <4>2, <5>2
          <5>3. CASE ~Widowed(a, y) /\ y # e
              BY <1>1, <4>1, <4>3, <5>3
          <5>4. QED
              BY <5>1, <5>2, <5>3
        <4>5. \E p \in Outputs : stage'[p].at # "idle" /\ {y, a} \subseteq Uses(p)'
          <5>1. PICK p \in Outputs : stage[p].at # "idle" /\ {y, a} \subseteq Uses(p)
              BY <4>3
          <5>2. stage'[p].at # "idle"
            <6>1. CASE p = o
                BY <1>20, <2>1, <2>3, <3>5, <4>2, <6>1
            <6>2. CASE p # o
                BY <1>2, <5>1, <6>2
            <6>3. QED
                BY <6>1, <6>2
          <5>3. QED
              BY <1>2, <5>1, <5>2
        <4>6. encoder'[y].start_ts # 0 =>
                 /\ encoder'[a].first_received
                 /\ encoder'[a].first_raw_ts <= encoder'[y].start_ts
                 /\ media_time'["audio"] <=
                        encoder'[y].start_ts + MaxSkew + BlockPeriod
          <5>1. CASE y = e
              BY <1>8, <5>1, Zenon
          <5>2. CASE y # e
            <6>1. encoder'[y].start_ts = encoder[y].start_ts
                BY <1>1, <4>1, <5>2, Zenon
            <6>2. QED
                BY <1>2, <3>3, <4>3, <6>1, Zenon
          <5>3. QED
              BY <5>1, <5>2
        <4>7. Widowed(a, y)' => Widowed(a, encoder[a].paired_encoder)'
            BY <3>3, Zenon DEF Widowed
        <4>8. QED
            BY <3>1, <3>3, <4>4, <4>5, <4>6, <4>7, Zenon DEF AudioPairs
      <3>6. QED
          BY <3>1, <3>4, <3>5
    <2>4. QED
        BY <2>2, <2>3
  <1>25. \A p \in Outputs : BeginsSince(p)'
    <2>1. ASSUME NEW p \in Outputs PROVE BeginsSince(p)'
      <3>1. CASE p = o
          BY <1>12, <3>1 DEF BeginsSince
      <3>2. CASE p # o
        <4>1. stage'[p] = stage[p] /\ Uses(p)' = Uses(p) /\ BeginsSince(p)
            BY <1>2, <3>2, Zenon DEF QuietInv
        <4>2. ASSUME stage[p].at = "capturing", NEW x \in Uses(p), NEW since
              PROVE  /\ VideoSince(x, since) => VideoSince(x, since)'
                     /\ AudioSince(x, since) => AudioSince(x, since)'
          <5>1. x \in Encs
              BY UsesTyped
          <5>2. x # e
              BY <1>10, <3>2, <4>2
          <5>3. encoder'[x] = encoder[x]
              BY <1>1, <5>1, <5>2
          <5>4. QED
              BY <1>2, <5>1, <5>3, AloneStays
        <4>3. QED
            BY <4>1, <4>2, SinceKept
      <3>3. QED
          BY <3>1, <3>2
    <2>2. QED
        BY <2>1
  <1>26. \A p \in Outputs, x \in Encs : CallbackOn(p, x)'
      BY <1>15
  <1>27. QED
      BY <1>11, <1>13, <1>14, <1>16, <1>17, <1>23, <1>24, <1>25, <1>26,
         QuietWhole

-----------------------------------------------------------------------------
(* Encoders that outputs share: the samples in any behaviour                *)

\* An encoder takes whole blocks of what it holds.
LEMMA EncodeTyped ==
  ASSUME NEW r \in EncoderType, r.input[1] <= r.input[2]
  PROVE  LET q == EncodeAudio(r)
         IN  /\ q \in EncoderType /\ SameEncoder(q, r)
             /\ q.start_ts = r.start_ts /\ q.input[2] = r.input[2]
             /\ q.input[1] <= q.input[2]
             /\ q.first_received = r.first_received
             /\ q.first_raw_ts = r.first_raw_ts
  <1> DEFINE n == r.input[2] - r.input[1]
             blocks == n \div BlockPeriod
             first == r.input[1] + blocks * BlockPeriod
             b == IF r.begun = 0 /\ blocks > 0 THEN r.input[1] ELSE r.begun
             q == [r EXCEPT !.input = <<first, r.input[2]>>, !.begun = b]
  <1>1. /\ r.input \in Nat \X Nat /\ r.begun \in Nat
        /\ r.input[1] \in Nat /\ r.input[2] \in Nat
      BY DEF EncoderType
  <1>2. n \in Nat /\ r.input[1] + n = r.input[2]
      BY <1>1
  <1> HIDE DEF n
  <1>3. PICK whole \in Nat : whole = blocks * BlockPeriod /\ whole <= n
    <2>1. BlockPeriod \in Nat /\ BlockPeriod > 0
        BY PairingNumbers
    <2>2. blocks \in Nat /\ blocks * BlockPeriod <= n
        BY <1>2, <2>1, Divide
    <2> HIDE DEF blocks
    <2>3. blocks * BlockPeriod \in Nat
        BY <2>1, <2>2
    <2>4. QED
        BY <2>2, <2>3
  <1>4. EncodeAudio(r) = q
      BY DEF EncodeAudio, n
  <1> HIDE DEF blocks
  <1>5. first \in Nat /\ first <= r.input[2]
      BY <1>1, <1>2, <1>3
  <1>6. b \in Nat
      BY <1>1
  <1> HIDE DEF first, b
  <1>7. /\ q \in EncoderType /\ q.input = <<first, r.input[2]>>
        /\ q.initialized = r.initialized /\ q.data = r.data
        /\ q.active = r.active /\ q.callbacks = r.callbacks
        /\ q.paired_encoder = r.paired_encoder
        /\ q.first_received = r.first_received
        /\ q.first_raw_ts = r.first_raw_ts /\ q.start_ts = r.start_ts
      BY <1>1, <1>5, <1>6 DEF EncoderType
  <1> HIDE DEF q
  <1>8. q.input[1] = first /\ q.input[2] = r.input[2]
      BY <1>7
  <1>9. QED
      BY <1>4, <1>5, <1>7, <1>8 DEF SameEncoder

\* A block that is buffered leaves an interval of samples, which begins with the
\* first block while the audio waits.
LEMMA BufferedTyped ==
  ASSUME NEW r \in EncoderType, NEW time \in Nat, time # 0,
         r.input[1] <= r.input[2], r.input[2] <= time,
         r.start_ts = 0 => Collects(r, time, "buffer"),
         r.paired_encoder # NONE => encoder[r.paired_encoder].start_ts \in Nat
  PROVE  LET q == Buffered(r, time)
         IN  /\ q \in EncoderType /\ SameEncoder(q, r)
             /\ q.first_received = r.first_received
             /\ q.input[1] <= q.input[2] /\ q.input[2] <= time + BlockPeriod
             /\ q.start_ts = 0 => q.input[1] = q.first_raw_ts
                                  /\ q.input[1] < q.input[2]
  <1> DEFINE end == time + BlockPeriod
             later(from, start) ==
                 [r EXCEPT !.start_ts = start, !.input = <<from, end>>]
             Done(q) ==
                 /\ q \in EncoderType /\ SameEncoder(q, r)
                 /\ q.first_received = r.first_received
                 /\ q.input[1] <= q.input[2] /\ q.input[2] <= end
                 /\ q.start_ts = 0 => q.input[1] = q.first_raw_ts
                                      /\ q.input[1] < q.input[2]
  <1>1. /\ r.input \in Nat \X Nat /\ r.start_ts \in Nat
        /\ r.input[1] \in Nat /\ r.input[2] \in Nat /\ r.first_raw_ts \in Nat
        /\ end \in Nat /\ time < end
        /\ r.input = <<r.input[1], r.input[2]>>
      BY PairingNumbers DEF EncoderType
  <1>2. ASSUME NEW from \in Nat, NEW start \in Nat, from <= end,
               start # 0 \/ (from = r.first_raw_ts /\ from < end)
        PROVE  /\ Done(later(from, start))
               /\ start # 0 => Done(EncodeAudio(later(from, start)))
    <2> HIDE DEF end
    <2> DEFINE s == later(from, start)
               q == EncodeAudio(s)
    <2>1. /\ s \in EncoderType /\ s.start_ts = start
          /\ s.initialized = r.initialized /\ s.data = r.data
          /\ s.active = r.active /\ s.callbacks = r.callbacks
          /\ s.paired_encoder = r.paired_encoder
          /\ s.first_received = r.first_received
          /\ s.first_raw_ts = r.first_raw_ts /\ s.input = <<from, end>>
        BY <1>1 DEF EncoderType
    <2> HIDE DEF s
    <2>2. SameEncoder(s, r) /\ s.input[1] = from /\ s.input[2] = end
        BY <2>1 DEF SameEncoder
    <2>3. Done(s)
        BY <1>1, <1>2, <2>1, <2>2
    <2>4. /\ q \in EncoderType /\ SameEncoder(q, s)
          /\ q.start_ts = s.start_ts /\ q.input[2] = s.input[2]
          /\ q.input[1] <= q.input[2]
          /\ q.first_received = s.first_received
        BY <1>2, <2>1, <2>2, EncodeTyped
    <2> HIDE DEF q
    <2>5. SameEncoder(q, r)
        BY <2>2, <2>4 DEF SameEncoder
    <2>6. start # 0 => Done(q)
        BY <1>1, <2>1, <2>2, <2>4, <2>5
    <2>7. QED
        BY <2>3, <2>6 DEF s, q
  <1>3. CASE r.start_ts # 0
    <2> DEFINE from == IF r.input[1] = r.input[2] THEN time ELSE r.input[1]
    <2>1. PushAudio(r.input, time, time) = <<from, end>>
        BY DEF PushAudio
    <2>2. later(from, r.start_ts) = [r EXCEPT !.input = <<from, end>>]
      <3> HIDE DEF from, end
      <3>1. QED
          BY <1>1 DEF EncoderType
    <2>3. Buffered(r, time) = EncodeAudio([r EXCEPT !.input = <<from, end>>])
        BY <1>3, <2>1 DEF Buffered
    <2>4. from \in Nat /\ from <= end
        BY <1>1
    <2>5. Done(EncodeAudio(later(from, r.start_ts)))
      <3> HIDE DEF later, end, from, Done
      <3>1. QED
          BY <1>1, <1>2, <1>3, <2>4
    <2>6. QED
        BY <2>2, <2>3, <2>5
  <1>4. CASE r.start_ts = 0 /\ r.paired_encoder = NONE
    <2> DEFINE from == IF r.input[1] = r.input[2] THEN time ELSE r.input[1]
    <2>1. PushAudio(r.input, time, time) = <<from, end>>
        BY DEF PushAudio
    <2>2. from \in Nat /\ from <= end
        BY <1>1
    <2> HIDE DEF from
    <2>3. Buffered(r, time) = EncodeAudio(later(from, time))
      <3> HIDE DEF end
      <3>1. QED
          BY <1>4, <2>1 DEF Buffered
    <2>4. Done(EncodeAudio(later(from, time)))
      <3> HIDE DEF later, end, Done
      <3>1. QED
          BY <1>1, <1>2, <2>2
    <2>5. QED
        BY <2>3, <2>4
  <1>5. CASE r.start_ts = 0 /\ r.paired_encoder # NONE
    <2> DEFINE v_start_ts == encoder[r.paired_encoder].start_ts
               early == v_start_ts = 0 \/ end <= v_start_ts
               q == Buffered(r, time)
    <2>1. /\ v_start_ts \in Nat
          /\ Collects(r, time, "buffer")
        BY <1>5
    <2>2. CASE early
      <3>1. PushAudio(r.input, time, time) = <<r.first_raw_ts, end>>
          BY <1>1, <2>1 DEF PushAudio, Collects
      <3>2. later(r.first_raw_ts, 0) = [r EXCEPT !.input = <<r.first_raw_ts, end>>]
        <4> HIDE DEF end
        <4>1. QED
            BY <1>1, <1>5 DEF EncoderType
      <3>3. q = later(r.first_raw_ts, 0)
          BY <1>5, <2>2, <3>1, <3>2 DEF Buffered
      <3>4. r.first_raw_ts < end
          BY <1>1, <2>1 DEF Collects
      <3>5. Done(later(r.first_raw_ts, 0))
        <4> HIDE DEF later, end, Done
        <4>1. r.first_raw_ts <= end
            BY <1>1, <3>4
        <4>2. QED
            BY <1>1, <1>2, <3>4, <4>1
      <3>6. QED
          BY <3>3, <3>5
    <2>3. CASE ~early
      <3> DEFINE cut == IF time <= v_start_ts THEN <<0, 0>>
                        ELSE IF r.first_raw_ts < v_start_ts
                        THEN <<r.input[1] + (v_start_ts - r.first_raw_ts),
                               r.input[2]>>
                        ELSE r.input
                 from == IF cut[1] = cut[2] THEN Larger(time, v_start_ts)
                         ELSE cut[1]
      <3>1. v_start_ts # 0 /\ v_start_ts < end
          BY <1>1, <2>1, <2>3
      <3>2. from \in Nat /\ from <= end
        <4>1. Larger(time, v_start_ts) \in Nat /\ Larger(time, v_start_ts) <= end
            BY <1>1, <2>1, <3>1 DEF Larger
        <4>2. cut[1] \in Nat /\ cut[1] <= end
          <5>1. CASE time <= v_start_ts
              BY <1>1, <5>1
          <5>2. CASE ~(time <= v_start_ts) /\ r.first_raw_ts < v_start_ts
            <6>1. cut[1] = r.input[1] + (v_start_ts - r.first_raw_ts)
                BY <5>2
            <6>2. r.input[1] = r.first_raw_ts \/ r.input[1] = 0
                BY <2>1 DEF Collects
            <6> HIDE DEF cut, v_start_ts
            <6>3. QED
                BY <1>1, <2>1, <3>1, <5>2, <6>1, <6>2
          <5>3. CASE ~(time <= v_start_ts) /\ ~(r.first_raw_ts < v_start_ts)
            <6>1. cut = r.input
                BY <5>3
            <6>2. QED
                BY <1>1, <6>1
          <5>4. QED
              BY <5>1, <5>2, <5>3
        <4> HIDE DEF cut
        <4>3. QED
            BY <4>1, <4>2
      <3>3. PushAudio(cut, Larger(time, v_start_ts), time) = <<from, end>>
        <4> HIDE DEF cut
        <4>1. QED
            BY DEF PushAudio
      <3>4. q = EncodeAudio(later(from, v_start_ts))
        <4> HIDE DEF from
        <4>1. QED
            BY <1>5, <2>3, <3>3 DEF Buffered
      <3>5. Done(EncodeAudio(later(from, v_start_ts)))
        <4> HIDE DEF later, end, v_start_ts, from, Done
        <4>1. QED
            BY <1>1, <1>2, <2>1, <3>1, <3>2
      <3>6. Done(q)
        <4> HIDE DEF Done, later, from, q, v_start_ts, end
        <4>1. QED
            BY <3>4, <3>5
      <3>7. QED
          BY <3>6
    <2>4. QED
        BY <2>2, <2>3
  <1>6. QED
      BY <1>3, <1>4, <1>5

-----------------------------------------------------------------------------
(* Encoders that outputs share: every step keeps the types                  *)

\* What a step leaves of an encoder's samples, or that it takes none any more.
LEMMA SampledStays ==
  ASSUME media_time' = media_time,
         media_at'["audio"] = "buffer" <=> media_at["audio"] = "buffer",
         0 <= media_time["audio"],
         NEW x \in Encs, Sampled(x),
         encoder'[x].active => encoder'[x].data,
         encoder'[x].input \in {encoder[x].input, <<0, 0>>},
         \/ ~encoder'[x].first_received /\ ~encoder'[x].active
         \/ /\ encoder'[x].first_received = encoder[x].first_received
            /\ encoder'[x].first_raw_ts = encoder[x].first_raw_ts
            /\ encoder'[x].start_ts = encoder[x].start_ts
            /\ encoder'[x].input = encoder[x].input
            /\ ~encoder'[x].active => ~encoder[x].active
            /\ encoder'[x].active /\ x \in AudioEncoders
                   => media_at["audio"] # "buffer" \/ encoder[x].active
  PROVE  Sampled(x)'
  <1>1. PICK time : time = media_time["audio"]
      OBVIOUS
  <1>2. media_time["audio"] = time /\ media_time'["audio"] = time /\ 0 <= time
      BY <1>1
  <1>3. encoder[x].input[1] <= encoder[x].input[2] /\ encoder[x].input[2] <= time
        /\ time # 0 /\ (~encoder[x].active => ~encoder[x].first_received)
      BY <1>2, Zenon DEF Sampled
  <1>4. encoder'[x].input[1] <= encoder'[x].input[2]
        /\ encoder'[x].input[2] <= time
    <2>1. <<0, 0>>[1] <= <<0, 0>>[2] /\ <<0, 0>>[2] <= time
        BY <1>2
    <2>2. QED
        BY <1>3, <2>1, Zenon
  <1>5. CASE ~encoder'[x].first_received /\ ~encoder'[x].active
      BY <1>2, <1>3, <1>4, <1>5, Zenon DEF Sampled
  <1>6. CASE /\ encoder'[x].first_received = encoder[x].first_received
             /\ encoder'[x].first_raw_ts = encoder[x].first_raw_ts
             /\ encoder'[x].start_ts = encoder[x].start_ts
             /\ encoder'[x].input = encoder[x].input
             /\ ~encoder'[x].active => ~encoder[x].active
             /\ encoder'[x].active /\ x \in AudioEncoders
                    => media_at["audio"] # "buffer" \/ encoder[x].active
    <2>1. ASSUME NEW at, NEW next, at = "buffer" <=> next = "buffer",
                 Collects(encoder[x], time, at)
          PROVE  Collects(encoder'[x], time, next)
        BY <1>6, <2>1, Zenon DEF Collects
    <2>2. Collects(encoder[x], media_time["audio"], media_at["audio"])
             => Collects(encoder'[x], media_time'["audio"], media_at'["audio"])
        BY <1>2, <2>1
    <2>3. Collects(encoder[x], media_time["audio"], media_at["audio"])'
             = Collects(encoder'[x], media_time'["audio"], media_at'["audio"])
        BY Zenon DEF Collects
    <2>4. QED
        BY <1>2, <1>3, <1>4, <1>6, <2>2, <2>3, Zenon DEF Sampled
  <1>7. QED
      BY <1>5, <1>6

\* The samples after a step of an output.
LEMMA OutputSampled ==
  ASSUME PairingTypeOK, HasNext, \A x \in Encs : Sampled(x),
         NEW o \in Outputs, OutputStep(o)
  PROVE  PairingTypeOK' /\ HasNext' /\ mishap' = mishap
         /\ \A x \in Encs : Sampled(x)'
  <1> DEFINE Kept(x) ==
         /\ encoder'[x].active => encoder'[x].data
         /\ encoder'[x].input \in {encoder[x].input, <<0, 0>>}
         /\ \/ ~encoder'[x].first_received /\ ~encoder'[x].active
            \/ /\ encoder'[x].first_received = encoder[x].first_received
               /\ encoder'[x].first_raw_ts = encoder[x].first_raw_ts
               /\ encoder'[x].start_ts = encoder[x].start_ts
               /\ encoder'[x].input = encoder[x].input
               /\ ~encoder'[x].active => ~encoder[x].active
               /\ encoder'[x].active /\ x \in AudioEncoders
                      => media_at["audio"] # "buffer" \/ encoder[x].active
  <1>1. 0 <= media_time["audio"]
      BY NowIsLatest
  <1>2. \A x \in Encs : (encoder[x].active => encoder[x].data)
                        /\ (~encoder[x].active => ~encoder[x].first_received)
                        /\ encoder[x] \in EncoderType
      BY TypeParts, Zenon DEF Sampled
  <1>3. ASSUME NEW x \in Encs, encoder'[x] = encoder[x] PROVE Kept(x)
      BY <1>2, <1>3
  <1>4. CASE InitializeEncoders(o)
    <2>1. /\ PairingTypeOK' /\ HasNext' /\ Quiet(o)
          /\ \A x \in Encs : encoder'[x] = IF x \in Uses(o)
                                            THEN InitializedEncoder(encoder[x])
                                            ELSE encoder[x]
        BY <1>4, InitializeMoves
    <2>2. ASSUME NEW x \in Encs PROVE Kept(x)
      <3>1. CASE encoder'[x] = encoder[x]
          BY <1>3, <3>1
      <3>2. CASE encoder'[x] # encoder[x]
        <4>1. encoder'[x] = InitializedEncoder(encoder[x])
            BY <2>1, <3>2
        <4>2. ~(encoder[x].active \/ encoder[x].initialized)
          <5>1. encoder[x].active \/ encoder[x].initialized
                  => InitializedEncoder(encoder[x]) = encoder[x]
              BY <1>2, InitializedTyped, Zenon
          <5>2. QED
              BY <3>2, <4>1, <5>1, Zenon
        <4>3. LET q == InitializedEncoder(encoder[x])
              IN  /\ q.active = FALSE /\ q.input = <<0, 0>>
                  /\ encoder[x].data => ~q.first_received
                  /\ ~encoder[x].data =>
                        q.first_received = encoder[x].first_received
            BY <1>2, <4>2, InitializedTyped, Zenon
        <4>4. /\ encoder'[x].active = FALSE /\ encoder'[x].input = <<0, 0>>
              /\ encoder[x].data => ~encoder'[x].first_received
              /\ ~encoder[x].data =>
                    encoder'[x].first_received = encoder[x].first_received
            BY <4>1, <4>3, Zenon
        <4>5. ~encoder'[x].first_received /\ ~encoder'[x].active
            BY <1>2, <4>2, <4>4, Zenon
        <4>6. QED
            BY <4>4, <4>5
      <3>3. QED
          BY <3>1, <3>2
    <2> HIDE DEF Kept
    <2>3. QED
      <3>1. media_time' = media_time /\ media_at' = media_at /\ mishap' = mishap
          BY <2>1, Zenon DEF Quiet
      <3>2. \A x \in Encs : Sampled(x)'
          BY <1>1, <2>2, <3>1, SampledStays DEF Kept
      <3>3. QED
          BY <2>1, <3>1, <3>2
  <1>5. CASE PairEncoders(o)
    <2>1. /\ PairingTypeOK' /\ HasNext' /\ Quiet(o)
          /\ \/ encoder' = encoder
             \/ \E v \in VideoEncoders, a \in AudioEncoders :
                   /\ {v, a} \subseteq Uses(o)
                   /\ ~encoder[v].active /\ ~encoder[a].active
                   /\ encoder[v].paired_encoder = NONE
                   /\ encoder[a].paired_encoder = NONE
                   /\ encoder'[v] = [encoder[v] EXCEPT !.paired_encoder = a]
                   /\ encoder'[a] = [encoder[a] EXCEPT !.paired_encoder = v]
                   /\ \A x \in Encs \ {v, a} : encoder'[x] = encoder[x]
        BY <1>5, PairMoves
    <2>2. ASSUME NEW x \in Encs PROVE Kept(x)
      <3>1. CASE encoder'[x] = encoder[x]
          BY <1>3, <3>1
      <3>2. CASE \E y : encoder'[x] = [encoder[x] EXCEPT !.paired_encoder = y]
        <4>1. PICK y : encoder'[x] = [encoder[x] EXCEPT !.paired_encoder = y]
            BY <3>2
        <4>2. encoder[x] \in EncoderType
            BY <1>2
        <4>3. /\ encoder'[x].active = encoder[x].active
              /\ encoder'[x].data = encoder[x].data
              /\ encoder'[x].input = encoder[x].input
              /\ encoder'[x].first_received = encoder[x].first_received
              /\ encoder'[x].first_raw_ts = encoder[x].first_raw_ts
              /\ encoder'[x].start_ts = encoder[x].start_ts
            BY <4>1, <4>2 DEF EncoderType
        <4>4. QED
            BY <1>2, <4>3
      <3>3. QED
        <4>1. encoder'[x] = encoder[x]
              \/ \E y : encoder'[x] = [encoder[x] EXCEPT !.paired_encoder = y]
            BY <2>1
        <4>2. QED
            BY <3>1, <3>2, <4>1, Zenon
    <2> HIDE DEF Kept
    <2>3. QED
      <3>1. media_time' = media_time /\ media_at' = media_at /\ mishap' = mishap
          BY <2>1, Zenon DEF Quiet
      <3>2. \A x \in Encs : Sampled(x)'
          BY <1>1, <2>2, <3>1, SampledStays DEF Kept
      <3>3. QED
          BY <2>1, <3>1, <3>2
  <1>6. CASE Connected(o) \/ EndCapturing(o) \/ LockInit(o)
    <2>1. PairingTypeOK' /\ HasNext' /\ Quiet(o) /\ encoder' = encoder
        BY <1>6, ConnectedMoves, EndMoves, LockMoves
    <2>2. \A x \in Encs : Kept(x)
        BY <1>3, <2>1
    <2> HIDE DEF Kept
    <2>3. QED
      <3>1. media_time' = media_time /\ media_at' = media_at /\ mishap' = mishap
          BY <2>1, Zenon DEF Quiet
      <3>2. \A x \in Encs : Sampled(x)'
          BY <1>1, <2>2, <3>1, SampledStays DEF Kept
      <3>3. QED
          BY <2>1, <3>1, <3>2
  <1>7. CASE StartEncoder(o)
    <2> DEFINE e == Head(stage[o].with)
    <2>1. /\ PairingTypeOK' /\ HasNext' /\ Quiet(o) /\ e \in Encs
          /\ media_at[Medium(e)] = "idle"
          /\ encoder'[e] = StartedEncoder(encoder[e], o)
          /\ \A x \in Encs : x # e => encoder'[x] = encoder[x]
        BY <1>7, StartMoves, Zenon DEF Passes
    <2> HIDE DEF e
    <2>2. ASSUME NEW x \in Encs PROVE Kept(x)
      <3>1. CASE x # e
          BY <1>3, <2>1, <3>1
      <3>2. CASE x = e
        <4>1. LET q == StartedEncoder(encoder[x], o)
              IN  /\ ~encoder[x].data => q = encoder[x]
                  /\ encoder[x].data =>
                        q.active = (encoder[x].active \/ encoder[x].callbacks = {})
                  /\ q.data = encoder[x].data /\ q.input = encoder[x].input
                  /\ q.first_received = encoder[x].first_received
                  /\ q.first_raw_ts = encoder[x].first_raw_ts
                  /\ q.start_ts = encoder[x].start_ts
            BY <1>2, StartedTyped, Zenon
        <4>2. /\ ~encoder[x].data => encoder'[x].active = encoder[x].active
              /\ encoder[x].data =>
                    encoder'[x].active =
                        (encoder[x].active \/ encoder[x].callbacks = {})
              /\ encoder'[x].data = encoder[x].data
              /\ encoder'[x].input = encoder[x].input
              /\ encoder'[x].first_received = encoder[x].first_received
              /\ encoder'[x].first_raw_ts = encoder[x].first_raw_ts
              /\ encoder'[x].start_ts = encoder[x].start_ts
            BY <2>1, <3>2, <4>1, Zenon
        <4>3. x \in AudioEncoders => media_at["audio"] # "buffer"
          <5>1. x \in AudioEncoders => Medium(x) = "audio"
              BY EncoderPairingAssumption DEF Medium
          <5>2. QED
              BY <2>1, <3>2, <5>1
        <4>4. /\ encoder'[x].active => encoder'[x].data
              /\ ~encoder'[x].active => ~encoder[x].active
            BY <1>2, <4>2, Zenon
        <4>5. QED
            BY <4>2, <4>3, <4>4
      <3>3. QED
          BY <3>1, <3>2
    <2> HIDE DEF Kept
    <2>3. QED
      <3>1. media_time' = media_time /\ media_at' = media_at /\ mishap' = mishap
          BY <2>1, Zenon DEF Quiet
      <3>2. \A x \in Encs : Sampled(x)'
          BY <1>1, <2>2, <3>1, SampledStays DEF Kept
      <3>3. QED
          BY <2>1, <3>1, <3>2
  <1>8. CASE EraseCallback(o)
    <2> DEFINE e == Head(stage[o].with)
    <2>1. /\ PairingTypeOK' /\ HasNext' /\ Quiet(o) /\ e \in Encs
          /\ encoder'[e] = [encoder[e] EXCEPT !.callbacks = @ \ {o}]
          /\ \A x \in Encs : x # e => encoder'[x] = encoder[x]
        BY <1>8, EraseMoves
    <2> HIDE DEF e
    <2>2. ASSUME NEW x \in Encs PROVE Kept(x)
      <3>1. CASE x # e
          BY <1>3, <2>1, <3>1
      <3>2. CASE x = e
        <4>1. encoder[x] \in EncoderType
            BY <1>2
        <4>2. /\ encoder'[x].active = encoder[x].active
              /\ encoder'[x].data = encoder[x].data
              /\ encoder'[x].input = encoder[x].input
              /\ encoder'[x].first_received = encoder[x].first_received
              /\ encoder'[x].first_raw_ts = encoder[x].first_raw_ts
              /\ encoder'[x].start_ts = encoder[x].start_ts
            BY <2>1, <3>2, <4>1 DEF EncoderType
        <4>3. QED
            BY <1>2, <4>2
      <3>3. QED
          BY <3>1, <3>2
    <2> HIDE DEF Kept
    <2>3. QED
      <3>1. media_time' = media_time /\ media_at' = media_at /\ mishap' = mishap
          BY <2>1, Zenon DEF Quiet
      <3>2. \A x \in Encs : Sampled(x)'
          BY <1>1, <2>2, <3>1, SampledStays DEF Kept
      <3>3. QED
          BY <2>1, <3>1, <3>2
  <1>9. CASE DisconnectEncoder(o)
    <2> DEFINE e == Head(stage[o].with)
    <2>1. /\ PairingTypeOK' /\ HasNext' /\ Quiet(o) /\ e \in Encs
          /\ encoder'[e] = StoppedEncoder(encoder[e])
          /\ \A x \in Encs : x # e => encoder'[x] = encoder[x]
        BY <1>9, DisconnectMoves, Zenon DEF Passes
    <2> HIDE DEF e
    <2>2. ASSUME NEW x \in Encs PROVE Kept(x)
      <3>1. CASE x # e
          BY <1>3, <2>1, <3>1
      <3>2. CASE x = e
        <4>1. LET q == StoppedEncoder(encoder[x])
              IN  /\ ~q.active /\ q.input = encoder[x].input
                  /\ encoder[x].data => ~q.first_received
                  /\ ~encoder[x].data =>
                        q.first_received = encoder[x].first_received
            BY <1>2, StoppedTyped, Zenon
        <4>2. /\ ~encoder'[x].active /\ encoder'[x].input = encoder[x].input
              /\ ~encoder'[x].first_received
            BY <1>2, <2>1, <3>2, <4>1, Zenon
        <4>3. QED
            BY <4>2
      <3>3. QED
          BY <3>1, <3>2
    <2> HIDE DEF Kept
    <2>3. QED
      <3>1. media_time' = media_time /\ media_at' = media_at /\ mishap' = mishap
          BY <2>1, Zenon DEF Quiet
      <3>2. \A x \in Encs : Sampled(x)'
          BY <1>1, <2>2, <3>1, SampledStays DEF Kept
      <3>3. QED
          BY <2>1, <3>1, <3>2
  <1>10. QED
      BY <1>4, <1>5, <1>6, <1>7, <1>8, <1>9 DEF OutputStep

\* What every step of the threads leaves: the outputs and what they use.
Filmed ==
    /\ sharing' = sharing /\ stage' = stage /\ mishap' = mishap
    /\ starts_left' = starts_left

\* An output has an encoder to go on with still.
LEMMA FilmedStays ==
  ASSUME HasNext, Filmed
  PROVE  HasNext' /\ \A p \in Outputs : Uses(p)' = Uses(p) /\ Ahead(p)' = Ahead(p)
  <1>1. \A p \in Outputs : Uses(p)' = Uses(p) /\ Ahead(p)' = Ahead(p)
      BY SameUses, Zenon DEF Filmed, Ahead
  <1>2. HasNext'
      BY <1>1, Zenon DEF HasNext, Filmed
  <1>3. QED
      BY <1>1, <1>2

\* A frame is made: what it changes.
LEMMA VideoMoves ==
  ASSUME PairingTypeOK, HasNext, \A x \in Encs : Sampled(x), VideoFrame
  PROVE  /\ PairingTypeOK' /\ HasNext' /\ Filmed
         /\ \A x \in Encs : Sampled(x)'
         /\ media_at' = media_at /\ media_at["video"] = "idle"
         /\ media_time["video"] <= media_time["audio"] + MaxSkew
         /\ media_time'["audio"] = media_time["audio"]
         /\ media_time'["video"] = media_time["video"] + FramePeriod
         /\ \A x \in Encs :
               encoder'[x] = IF x \in VideoEncoders /\ encoder[x].active
                             THEN ReceiveVideo(encoder[x], media_time["video"])
                             ELSE encoder[x]
  <1>1. /\ encoder' = [e \in Encs |->
               IF e \in VideoEncoders /\ encoder[e].active
               THEN ReceiveVideo(encoder[e], media_time["video"])
               ELSE encoder[e]]
        /\ media_time' = [media_time EXCEPT !["video"] = @ + FramePeriod]
        /\ init_mutex' = init_mutex /\ media_at' = media_at
        /\ media_at["video"] = "idle" /\ Filmed
        /\ media_time["video"] <= media_time["audio"] + MaxSkew
      BY Zenon DEF VideoFrame, MayProceed, planVars, Filmed
  <1>2. /\ media_time \in [{"video", "audio"} -> Nat]
        /\ media_time["video"] \in Nat /\ media_time["audio"] \in Nat
      BY TypeParts
  <1>3. /\ media_time' \in [{"video", "audio"} -> Nat]
        /\ media_time'["audio"] = media_time["audio"]
        /\ media_time'["video"] = media_time["video"] + FramePeriod
      BY <1>1, <1>2, PairingNumbers
  <1>4. PICK vt \in Nat : vt = media_time["video"]
      BY <1>2
  <1>5. ASSUME NEW x \in Encs
        PROVE  LET q == ReceiveVideo(encoder[x], vt)
               IN  /\ q \in EncoderType /\ SameEncoder(q, encoder[x])
                   /\ q.input = encoder[x].input
      BY TypeParts, ReceiveTyped
  <1>6. encoder' \in [Encs -> EncoderType]
    <2>1. \A e \in Encs : (IF e \in VideoEncoders /\ encoder[e].active
                           THEN ReceiveVideo(encoder[e], vt)
                           ELSE encoder[e]) \in EncoderType
        BY <1>5, TypeParts, Zenon
    <2>2. encoder' = [e \in Encs |->
               IF e \in VideoEncoders /\ encoder[e].active
               THEN ReceiveVideo(encoder[e], vt) ELSE encoder[e]]
        BY <1>1, <1>4, Zenon
    <2>3. QED
        BY <2>1, <2>2, Zenon
  <1>7. \A x \in Encs :
            encoder'[x] = IF x \in VideoEncoders /\ encoder[x].active
                          THEN ReceiveVideo(encoder[x], media_time["video"])
                          ELSE encoder[x]
      BY <1>1, Zenon
  <1>8. PairingTypeOK'
      BY <1>1, <1>3, <1>6, TypesKept, TypeParts DEF Filmed
  <1>9. ASSUME NEW x \in Encs PROVE Sampled(x)'
    <2>1. Sampled(x)
        OBVIOUS
    <2>2. CASE x \in VideoEncoders /\ encoder[x].active
      <3>1. encoder'[x] = ReceiveVideo(encoder[x], vt)
          BY <1>4, <1>7, <2>2, Zenon
      <3>2. encoder'[x].input = encoder[x].input
            /\ encoder'[x].active = encoder[x].active
            /\ encoder'[x].data = encoder[x].data
          BY <1>5, <3>1, Zenon DEF SameEncoder
      <3>3. x \notin AudioEncoders
          BY <2>2, EncoderPairingAssumption
      <3>4. QED
          BY <1>3, <2>1, <2>2, <3>2, <3>3, Zenon DEF Sampled
    <2>3. CASE ~(x \in VideoEncoders /\ encoder[x].active)
      <3>1. encoder'[x] = encoder[x]
          BY <1>7, <2>3, Zenon
      <3>2. PICK time, at : /\ media_time["audio"] = time /\ media_at["audio"] = at
                            /\ media_time'["audio"] = time /\ media_at'["audio"] = at
          BY <1>1, <1>3, Zenon
      <3>3. PICK r : encoder[x] = r /\ encoder'[x] = r
          BY <3>1
      <3>4. QED
          BY <2>1, <3>2, <3>3, Zenon DEF Sampled, Collects
    <2>4. QED
        BY <2>2, <2>3
  <1>10. HasNext'
      BY <1>1, FilmedStays
  <1>11. QED
      BY <1>1, <1>3, <1>7, <1>8, <1>9, <1>10

\* A block arrives: what it changes.
LEMMA AudioMoves ==
  ASSUME PairingTypeOK, HasNext, \A x \in Encs : Sampled(x), AudioArrives
  PROVE  /\ PairingTypeOK' /\ HasNext' /\ Filmed
         /\ \A x \in Encs : Sampled(x)'
         /\ media_at["audio"] = "idle" /\ media_at'["audio"] = "buffer"
         /\ media_at'["video"] = media_at["video"]
         /\ media_time["audio"] <= media_time["video"] + MaxSkew
         /\ media_time' = media_time
         /\ \A x \in Encs :
              \/ /\ encoder'[x] = encoder[x]
                 /\ x \in AudioEncoders /\ encoder[x].active
                        => encoder[x].first_received
              \/ /\ x \in AudioEncoders /\ encoder[x].active
                 /\ ~encoder[x].first_received
                 /\ SameEncoder(encoder'[x], encoder[x])
                 /\ encoder'[x].first_received
                 /\ encoder'[x].first_raw_ts = media_time["audio"]
                 /\ encoder'[x].input = <<0, 0>>
                 /\ encoder'[x].start_ts = encoder[x].start_ts
                 /\ encoder'[x].begun = encoder[x].begun
  <1>1. /\ encoder' = [e \in Encs |->
               IF /\ e \in AudioEncoders /\ encoder[e].active
                  /\ ~encoder[e].first_received
               THEN [encoder[e] EXCEPT !.first_raw_ts = media_time["audio"],
                                       !.first_received = TRUE,
                                       !.input = <<0, 0>>]
               ELSE encoder[e]]
        /\ media_at' = [media_at EXCEPT !["audio"] = "buffer"]
        /\ init_mutex' = init_mutex /\ media_time' = media_time
        /\ media_at["audio"] = "idle" /\ Filmed
        /\ media_time["audio"] <= media_time["video"] + MaxSkew
      BY Zenon DEF AudioArrives, MayProceed, planVars, Filmed
  <1>2. /\ media_at \in [{"video", "audio"} -> {"idle", "buffer"} \cup Encs]
        /\ media_time["audio"] \in Nat
      BY TypeParts
  <1>3. /\ media_at' \in [{"video", "audio"} -> {"idle", "buffer"} \cup Encs]
        /\ media_at'["audio"] = "buffer" /\ media_at'["video"] = media_at["video"]
      BY <1>1, <1>2
  <1>4. PICK time \in Nat : time = media_time["audio"]
      BY <1>2
  <1> DEFINE new(r) == [r EXCEPT !.first_raw_ts = time, !.first_received = TRUE,
                                 !.input = <<0, 0>>]
  <1>5. ASSUME NEW x \in Encs
        PROVE  LET q == new(encoder[x])
               IN  /\ q \in EncoderType /\ SameEncoder(q, encoder[x])
                   /\ q.first_received = TRUE /\ q.first_raw_ts = time
                   /\ q.input = <<0, 0>> /\ q.start_ts = encoder[x].start_ts
                   /\ q.begun = encoder[x].begun
    <2>1. encoder[x] \in EncoderType
        BY TypeParts
    <2>2. QED
        BY <2>1 DEF EncoderType, SameEncoder
  <1>6. encoder' = [e \in Encs |->
               IF /\ e \in AudioEncoders /\ encoder[e].active
                  /\ ~encoder[e].first_received
               THEN new(encoder[e]) ELSE encoder[e]]
      BY <1>1, <1>4, Zenon
  <1> HIDE DEF new
  <1>7. encoder' \in [Encs -> EncoderType]
    <2>1. \A e \in Encs : (IF /\ e \in AudioEncoders /\ encoder[e].active
                              /\ ~encoder[e].first_received
                           THEN new(encoder[e]) ELSE encoder[e]) \in EncoderType
        BY <1>5, TypeParts, Zenon
    <2>2. QED
        BY <1>6, <2>1, Zenon
  <1>8. PairingTypeOK'
      BY <1>1, <1>3, <1>7, TypesKept, TypeParts DEF Filmed
  <1>9. ASSUME NEW x \in Encs
        PROVE \/ /\ encoder'[x] = encoder[x]
                 /\ x \in AudioEncoders /\ encoder[x].active
                        => encoder[x].first_received
              \/ /\ x \in AudioEncoders /\ encoder[x].active
                 /\ ~encoder[x].first_received
                 /\ SameEncoder(encoder'[x], encoder[x])
                 /\ encoder'[x].first_received = TRUE
                 /\ encoder'[x].first_raw_ts = media_time["audio"]
                 /\ encoder'[x].input = <<0, 0>>
                 /\ encoder'[x].start_ts = encoder[x].start_ts
                 /\ encoder'[x].begun = encoder[x].begun
    <2>1. CASE /\ x \in AudioEncoders /\ encoder[x].active
               /\ ~encoder[x].first_received
      <3>1. encoder'[x] = new(encoder[x])
          BY <1>6, <2>1, Zenon
      <3>2. QED
          BY <1>4, <1>5, <2>1, <3>1, Zenon
    <2>2. CASE ~(/\ x \in AudioEncoders /\ encoder[x].active
                 /\ ~encoder[x].first_received)
        BY <1>6, <2>2, Zenon
    <2>3. QED
        BY <2>1, <2>2
  <1>10. ASSUME NEW x \in Encs PROVE Sampled(x)'
    <2>1. Sampled(x)
        OBVIOUS
    <2>2. PICK r : encoder'[x] = r
        OBVIOUS
    <2>3. CASE encoder'[x] = encoder[x] /\ (x \in AudioEncoders /\ encoder[x].active
                                              => encoder[x].first_received)
      <3>1. encoder[x] = r /\ encoder'[x] = r
          BY <2>2, <2>3
      <3>2. Collects(r, time, "idle") => Collects(r, time, "buffer")
          BY DEF Collects
      <3>3. Collects(encoder[x], media_time["audio"], media_at["audio"])
                 = Collects(r, time, "idle")
            /\ Collects(encoder[x], media_time["audio"], media_at["audio"])'
                 = Collects(r, time, "buffer")
          BY <1>1, <1>3, <1>4, <3>1, Zenon DEF Collects
      <3>4. media_time["audio"] = time /\ media_time'["audio"] = time
          BY <1>1, <1>4
      <3>5. QED
          BY <1>1, <1>3, <2>1, <2>3, <3>1, <3>2, <3>3, <3>4, Zenon DEF Sampled
    <2>4. CASE ~(encoder'[x] = encoder[x] /\ (x \in AudioEncoders /\ encoder[x].active
                                              => encoder[x].first_received))
      <3>1. /\ x \in AudioEncoders /\ encoder[x].active
            /\ SameEncoder(encoder'[x], encoder[x])
            /\ encoder'[x].first_received = TRUE
            /\ encoder'[x].first_raw_ts = time
            /\ encoder'[x].input = <<0, 0>>
          BY <1>4, <1>9, <2>4, Zenon
      <3>2. encoder'[x].active /\ encoder'[x].data
          BY <2>1, <3>1, Zenon DEF Sampled, SameEncoder
      <3>3. Collects(encoder'[x], time, "buffer")
          BY <3>1, Zenon DEF Collects
      <3>4. Collects(encoder[x], media_time["audio"], media_at["audio"])'
                 = Collects(encoder'[x], time, "buffer")
          BY <1>1, <1>3, <1>4, Zenon DEF Collects
      <3>5. encoder'[x].input[1] <= encoder'[x].input[2]
            /\ encoder'[x].input[2] <= time /\ media_time'["audio"] = time
        <4>1. <<0, 0>>[1] <= <<0, 0>>[2] /\ <<0, 0>>[2] <= time
            OBVIOUS
        <4>2. media_time'["audio"] = time
            BY <1>1, <1>4, Zenon
        <4>3. QED
            BY <3>1, <4>1, <4>2, Zenon
      <3>6. time # 0
          BY <1>4, <2>1, Zenon DEF Sampled
      <3>7. QED
          BY <3>1, <3>2, <3>3, <3>4, <3>5, <3>6, Zenon DEF Sampled
    <2>5. QED
        BY <2>3, <2>4
  <1>11. HasNext'
      BY <1>1, FilmedStays
  <1>12. QED
      BY <1>1, <1>3, <1>8, <1>9, <1>10, <1>11

\* A block is buffered: what it changes.
LEMMA BufferMoves ==
  ASSUME PairingTypeOK, HasNext, \A x \in Encs : Sampled(x), BufferAudio
  PROVE  /\ PairingTypeOK' /\ HasNext' /\ Filmed
         /\ \A x \in Encs : Sampled(x)'
         /\ media_at["audio"] = "buffer" /\ media_at'["audio"] = "idle"
         /\ media_at'["video"] = media_at["video"]
         /\ media_time'["video"] = media_time["video"]
         /\ media_time'["audio"] = media_time["audio"] + BlockPeriod
         /\ \A x \in Encs :
               encoder'[x] = IF x \in AudioEncoders /\ encoder[x].active
                             THEN Buffered(encoder[x], media_time["audio"])
                             ELSE encoder[x]
  <1>1. /\ encoder' = [e \in Encs |->
               IF e \in AudioEncoders /\ encoder[e].active
               THEN Buffered(encoder[e], media_time["audio"]) ELSE encoder[e]]
        /\ media_time' = [media_time EXCEPT !["audio"] = @ + BlockPeriod]
        /\ media_at' = [media_at EXCEPT !["audio"] = "idle"]
        /\ init_mutex' = init_mutex
        /\ media_at["audio"] = "buffer" /\ Filmed
      BY Zenon DEF BufferAudio, planVars, Filmed
  <1>2. /\ media_time \in [{"video", "audio"} -> Nat]
        /\ media_at \in [{"video", "audio"} -> {"idle", "buffer"} \cup Encs]
        /\ media_time["audio"] \in Nat
      BY TypeParts
  <1>3. /\ media_time' \in [{"video", "audio"} -> Nat]
        /\ media_time'["video"] = media_time["video"]
        /\ media_time'["audio"] = media_time["audio"] + BlockPeriod
      BY <1>1, <1>2, PairingNumbers
  <1>4. /\ media_at' \in [{"video", "audio"} -> {"idle", "buffer"} \cup Encs]
        /\ media_at'["audio"] = "idle" /\ media_at'["video"] = media_at["video"]
      BY <1>1, <1>2
  <1>5. PICK time \in Nat : time = media_time["audio"]
      BY <1>2
  <1>6. ASSUME NEW x \in Encs, x \in AudioEncoders, encoder[x].active
        PROVE  LET q == Buffered(encoder[x], time)
               IN  /\ q \in EncoderType /\ SameEncoder(q, encoder[x])
                   /\ q.first_received = encoder[x].first_received
                   /\ q.input[1] <= q.input[2]
                   /\ q.input[2] <= time + BlockPeriod
                   /\ q.start_ts = 0 => q.input[1] = q.first_raw_ts
                                        /\ q.input[1] < q.input[2]
    <2>1. /\ encoder[x] \in EncoderType
          /\ encoder[x].input[1] <= encoder[x].input[2]
          /\ encoder[x].input[2] <= time /\ time # 0
          /\ encoder[x].start_ts = 0 => Collects(encoder[x], time, "buffer")
      <3>1. Sampled(x)
          OBVIOUS
      <3>2. QED
          BY <1>1, <1>5, <1>6, <3>1, TypeParts, Zenon DEF Sampled
    <2>2. encoder[x].paired_encoder # NONE =>
              encoder[encoder[x].paired_encoder].start_ts \in Nat
      <3>1. encoder[x].paired_encoder \in Encs \cup {NONE}
          BY <2>1 DEF EncoderType
      <3>2. \A y \in Encs : encoder[y].start_ts \in Nat
          BY TypeParts DEF EncoderType
      <3>3. QED
          BY <3>1, <3>2
    <2>3. QED
        BY <2>1, <2>2, BufferedTyped
  <1>7. encoder' = [e \in Encs |->
               IF e \in AudioEncoders /\ encoder[e].active
               THEN Buffered(encoder[e], time) ELSE encoder[e]]
      BY <1>1, <1>5, Zenon
  <1>8. encoder' \in [Encs -> EncoderType]
    <2>1. \A e \in Encs : (IF e \in AudioEncoders /\ encoder[e].active
                           THEN Buffered(encoder[e], time)
                           ELSE encoder[e]) \in EncoderType
        BY <1>6, TypeParts, Zenon
    <2>2. QED
        BY <1>7, <2>1, Zenon
  <1>9. PairingTypeOK'
      BY <1>1, <1>3, <1>4, <1>8, TypesKept, TypeParts DEF Filmed
  <1>10. ASSUME NEW x \in Encs PROVE Sampled(x)'
    <2>1. Sampled(x)
        OBVIOUS
    <2>2. /\ time # 0 /\ time + BlockPeriod # 0
          /\ time <= time + BlockPeriod /\ time + BlockPeriod \in Nat
          /\ media_time'["audio"] = time + BlockPeriod
      <3>1. time # 0
          BY <1>5, <2>1, Zenon DEF Sampled
      <3>2. QED
          BY <1>3, <1>5, <3>1, PairingNumbers
    <2>3. CASE x \in AudioEncoders /\ encoder[x].active
      <3>1. /\ SameEncoder(encoder'[x], encoder[x])
            /\ encoder'[x].first_received = encoder[x].first_received
            /\ encoder'[x].input[1] <= encoder'[x].input[2]
            /\ encoder'[x].input[2] <= time + BlockPeriod
            /\ encoder'[x].start_ts = 0 =>
                  /\ encoder'[x].input[1] = encoder'[x].first_raw_ts
                  /\ encoder'[x].input[1] < encoder'[x].input[2]
          BY <1>6, <1>7, <2>3, Zenon
      <3>2. encoder'[x].active /\ encoder'[x].data
          BY <2>1, <2>3, <3>1, Zenon DEF Sampled, SameEncoder
      <3>3. encoder'[x].start_ts = 0 =>
                Collects(encoder[x], media_time["audio"], media_at["audio"])'
          BY <3>1, Zenon DEF Collects
      <3>4. media_at'["audio"] # "buffer"
          BY <1>4
      <3>5. QED
          BY <2>2, <3>1, <3>2, <3>3, <3>4, Zenon DEF Sampled
    <2>4. CASE ~(x \in AudioEncoders /\ encoder[x].active)
      <3>1. encoder'[x] = encoder[x]
          BY <1>7, <2>4, Zenon
      <3>2. /\ encoder[x].active => encoder[x].data
            /\ ~encoder[x].active => ~encoder[x].first_received
            /\ encoder[x].input[1] <= encoder[x].input[2]
            /\ encoder[x].input[2] <= time
          BY <1>5, <2>1, Zenon DEF Sampled
      <3>3. encoder[x].input[2] <= time + BlockPeriod
        <4>1. encoder[x] \in EncoderType
            BY TypeParts
        <4>2. encoder[x].input[2] \in Nat
            BY <4>1 DEF EncoderType
        <4>3. QED
            BY <3>2, <4>2, PairingNumbers
      <3>4. /\ encoder'[x].active => encoder'[x].data
            /\ ~encoder'[x].active => ~encoder'[x].first_received
            /\ encoder'[x].input[1] <= encoder'[x].input[2]
            /\ encoder'[x].input[2] <= media_time'["audio"]
            /\ media_time'["audio"] # 0
            /\ x \in AudioEncoders => ~encoder'[x].first_received
                                      /\ ~encoder'[x].active
          BY <2>2, <2>4, <3>1, <3>2, <3>3, Zenon
      <3>5. QED
          BY <3>4, Zenon DEF Sampled
    <2>5. QED
        BY <2>3, <2>4
  <1>11. HasNext'
      BY <1>1, FilmedStays
  <1>12. \A x \in Encs :
            encoder'[x] = IF x \in AudioEncoders /\ encoder[x].active
                          THEN Buffered(encoder[x], media_time["audio"])
                          ELSE encoder[x]
      BY <1>1, Zenon
  <1>13. QED
      BY <1>1, <1>3, <1>4, <1>9, <1>10, <1>11, <1>12

-----------------------------------------------------------------------------
(* Encoders that outputs share: what goes wrong                             *)

\* A connection that fails leaves the samples alone.
LEMMA FailMoves ==
  ASSUME PairingTypeOK, HasNext, \A x \in Encs : Sampled(x), ConnectionFails
  PROVE  PairingTypeOK' /\ HasNext' /\ mishap' = mishap /\ mishap # "none"
         /\ \A x \in Encs : Sampled(x)'
  <1>1. /\ mishap = "failed" /\ stage' = [stage EXCEPT !["stream"] = Resting]
        /\ encoder' = encoder /\ init_mutex' = init_mutex
        /\ starts_left' = starts_left
        /\ sharing' = sharing /\ mishap' = mishap
        /\ media_time' = media_time /\ media_at' = media_at
      BY Zenon DEF ConnectionFails, planVars, clockVars
  <1>2. Resting \in Stages /\ Resting.at = "idle" /\ "stream" \in Outputs
    <2>1. <<>> \in Seq(Encs)
        OBVIOUS
    <2>2. QED
        BY <2>1 DEF Resting, Stages, Outputs
  <1>3. /\ stage' \in [Outputs -> Stages]
        /\ stage'["stream"] = Resting
        /\ \A p \in Outputs : p # "stream" => stage'[p] = stage[p]
      BY <1>1, <1>2, TypeParts, Zenon
  <1>4. PairingTypeOK'
      BY <1>1, <1>3, TypesKept, TypeParts
  <1>5. HasNext'
    <2>1. stage'["stream"].at \notin {"hook"} \cup Stopping
        BY <1>2, <1>3 DEF Stopping
    <2>2. QED
        BY <1>1, <1>2, <1>3, <2>1, NextStays
  <1>6. ASSUME NEW x \in Encs PROVE Sampled(x)'
      BY <1>1, Zenon DEF Sampled, Collects
  <1>7. QED
      BY <1>1, <1>4, <1>5, <1>6

\* What a mishap of an encoder changes: the thread is at another place, this
\* encoder is another one, and the rest stays.
LEMMA MishapMoves ==
  ASSUME PairingTypeOK, HasNext, \A x \in Encs : Sampled(x), Filmed,
         media_time' = media_time, init_mutex' = init_mutex,
         NEW e \in Encs, NEW r \in EncoderType,
         encoder' = [encoder EXCEPT ![e] = r],
         NEW at \in {"idle"} \cup Encs,
         media_at[Medium(e)] \in {"idle"} \cup Encs,
         media_at' = [media_at EXCEPT ![Medium(e)] = at],
         r.active => r.data, r.input = encoder[e].input,
         \/ ~r.first_received /\ ~r.active
         \/ /\ r.first_received = encoder[e].first_received
            /\ r.first_raw_ts = encoder[e].first_raw_ts
            /\ r.start_ts = encoder[e].start_ts
            /\ r.active = encoder[e].active
  PROVE  PairingTypeOK' /\ HasNext' /\ \A x \in Encs : Sampled(x)'
  <1>1. Medium(e) \in {"video", "audio"} /\ e \in Encs
      BY DEF Medium
  <1>2. media_at' \in [{"video", "audio"} -> {"idle", "buffer"} \cup Encs]
      BY <1>1, TypeParts, Zenon
  <1>3. /\ encoder' \in [Encs -> EncoderType] /\ encoder'[e] = r
        /\ \A x \in Encs : x # e => encoder'[x] = encoder[x]
      BY OneEncoder
  <1>4. PairingTypeOK'
      BY <1>2, <1>3, TypesKept, TypeParts DEF Filmed
  <1>5. "buffer" \notin {"idle"} \cup Encs
      BY EncoderPairingAssumption DEF Encs
  <1>6. media_at'["audio"] = "buffer" <=> media_at["audio"] = "buffer"
    <2>1. CASE Medium(e) = "audio"
      <3>1. media_at'["audio"] = at
          BY <2>1, TypeParts, Zenon
      <3>2. QED
          BY <1>5, <2>1, <3>1, Zenon
    <2>2. CASE Medium(e) # "audio"
      <3>1. media_at'["audio"] = media_at["audio"]
          BY <2>2, TypeParts, Zenon
      <3>2. QED
          BY <3>1
    <2>3. QED
        BY <2>1, <2>2
  <1>7. 0 <= media_time["audio"]
      BY NowIsLatest
  <1>8. ASSUME NEW x \in Encs PROVE Sampled(x)'
    <2>1. Sampled(x)
        OBVIOUS
    <2>2. CASE x = e
      <3>1. encoder'[x] = r
          BY <1>3, <2>2
      <3>2. /\ encoder'[x].active => encoder'[x].data
            /\ encoder'[x].input = encoder[x].input
            /\ \/ ~encoder'[x].first_received /\ ~encoder'[x].active
               \/ /\ encoder'[x].first_received = encoder[x].first_received
                  /\ encoder'[x].first_raw_ts = encoder[x].first_raw_ts
                  /\ encoder'[x].start_ts = encoder[x].start_ts
                  /\ encoder'[x].active = encoder[x].active
          BY <2>2, <3>1, Zenon
      <3>3. encoder'[x].input \in {encoder[x].input, <<0, 0>>}
            /\ \/ ~encoder'[x].first_received /\ ~encoder'[x].active
               \/ /\ encoder'[x].first_received = encoder[x].first_received
                  /\ encoder'[x].first_raw_ts = encoder[x].first_raw_ts
                  /\ encoder'[x].start_ts = encoder[x].start_ts
                  /\ encoder'[x].input = encoder[x].input
                  /\ ~encoder'[x].active => ~encoder[x].active
                  /\ encoder'[x].active /\ x \in AudioEncoders
                         => media_at["audio"] # "buffer" \/ encoder[x].active
          BY <3>2, Zenon
      <3>4. QED
          BY <1>6, <1>7, <2>1, <3>2, <3>3, SampledStays
    <2>3. CASE x # e
      <3>1. encoder'[x] = encoder[x]
          BY <1>3, <2>3
      <3>2. encoder'[x].active => encoder'[x].data
          BY <2>1, <3>1, Zenon DEF Sampled
      <3>3. QED
          BY <1>6, <1>7, <2>1, <3>1, <3>2, SampledStays
    <2>4. QED
        BY <2>2, <2>3
  <1>9. HasNext'
      BY FilmedStays
  <1>10. QED
      BY <1>4, <1>8, <1>9

\* An encoder that fails to encode keeps its samples until it is shut down.
LEMMA ErrorMoves ==
  ASSUME PairingTypeOK, HasNext, \A x \in Encs : Sampled(x),
         NEW e \in Encs, EncodeFails(e)
  PROVE  PairingTypeOK' /\ HasNext' /\ mishap' = mishap /\ mishap # "none"
         /\ \A x \in Encs : Sampled(x)'
  <1> DEFINE r == [encoder[e] EXCEPT !.callbacks = {}]
  <1>1. /\ mishap = "error" /\ media_at[Medium(e)] = "idle"
        /\ media_at' = [media_at EXCEPT ![Medium(e)] = e]
        /\ encoder' = [encoder EXCEPT ![e].callbacks = {}]
        /\ Filmed /\ init_mutex' = init_mutex /\ media_time' = media_time
      BY Zenon DEF EncodeFails, planVars, Filmed
  <1>2. encoder[e] \in EncoderType
      BY TypeParts
  <1>3. /\ r \in EncoderType /\ r.active = encoder[e].active
        /\ r.data = encoder[e].data /\ r.input = encoder[e].input
        /\ r.first_received = encoder[e].first_received
        /\ r.first_raw_ts = encoder[e].first_raw_ts
        /\ r.start_ts = encoder[e].start_ts
      BY <1>2 DEF EncoderType
  <1>4. encoder' = [encoder EXCEPT ![e] = r]
      BY <1>1
  <1> HIDE DEF r
  <1>5. r.active => r.data
      BY <1>3, Zenon DEF Sampled
  <1>6. PairingTypeOK' /\ HasNext' /\ \A x \in Encs : Sampled(x)'
    <2>1. media_at[Medium(e)] \in {"idle"} \cup Encs /\ e \in {"idle"} \cup Encs
        BY <1>1
    <2>2. QED
        BY <1>1, <1>3, <1>4, <1>5, <2>1, MishapMoves
  <1>7. QED
      BY <1>1, <1>6 DEF Filmed

\* An encoder that failed is shut down.
LEMMA StopMoves ==
  ASSUME PairingTypeOK, HasNext, \A x \in Encs : Sampled(x),
         NEW e \in Encs, FullStop(e)
  PROVE  PairingTypeOK' /\ HasNext' /\ mishap' = mishap
         /\ media_at[Medium(e)] = e
         /\ \A x \in Encs : Sampled(x)'
  <1> DEFINE s == ShutdownEncoder(encoder[e])
             r == [s EXCEPT !.active = FALSE]
  <1>1. /\ media_at[Medium(e)] = e
        /\ media_at' = [media_at EXCEPT ![Medium(e)] = "idle"]
        /\ encoder' = [encoder EXCEPT ![e] = r]
        /\ Filmed /\ init_mutex' = init_mutex /\ media_time' = media_time
      BY Zenon DEF FullStop, planVars, Filmed
  <1>2. encoder[e] \in EncoderType /\ Sampled(e)
      BY TypeParts
  <1>3. /\ s \in EncoderType /\ s.active = encoder[e].active
        /\ s.input = encoder[e].input
        /\ encoder[e].data => ~s.first_received
        /\ ~encoder[e].data => s = encoder[e]
      BY <1>2, ShutdownTyped
  <1> HIDE DEF s
  <1>4. /\ r \in EncoderType /\ r.active = FALSE
        /\ r.input = s.input /\ r.first_received = s.first_received
      BY <1>3 DEF EncoderType
  <1> HIDE DEF r
  <1>5. ~r.first_received
      BY <1>2, <1>3, <1>4, Zenon DEF Sampled
  <1>6. PairingTypeOK' /\ HasNext' /\ \A x \in Encs : Sampled(x)'
    <2>1. media_at[Medium(e)] \in {"idle"} \cup Encs /\ "idle" \in {"idle"} \cup Encs
          /\ r.input = encoder[e].input
        BY <1>1, <1>3, <1>4
    <2>2. QED
        BY <1>1, <1>4, <1>5, <2>1, MishapMoves
  <1>7. QED
      BY <1>1, <1>6 DEF Filmed

-----------------------------------------------------------------------------
(* Encoders that outputs share: the steps of the threads                    *)

\* What a thread leaves of an encoder: its record but for its times, what has
\* begun, and all of it while it is not active.
Fed(q, r) ==
    /\ SameEncoder(q, r) /\ (r.begun # 0 => q.begun # 0)
    /\ ~r.active => q = r

\* What does not hang on the times holds on after a step of a thread.
LEMMA ThreadsLeave ==
  ASSUME PairingTypeOK, HasNext, QuietInv, Filmed,
         \A x \in Encs : Fed(encoder'[x], encoder[x])
  PROVE  /\ OneMoves' /\ HaveData'
         /\ \A x \in Encs : Lives(x)' /\ Wanted(x)'
         /\ \A p \in Outputs, x \in Encs : CallbackOn(p, x)'
         /\ \A p \in Outputs : stage'[p] = stage[p] /\ Uses(p)' = Uses(p)
         /\ \A x, y \in Encs : Widowed(x, y) => Widowed(x, y)'
  <1>1. \A p \in Outputs : /\ stage'[p] = stage[p] /\ Uses(p)' = Uses(p)
                           /\ Ahead(p)' = Ahead(p)
      BY FilmedStays, Zenon DEF Filmed
  <1>2. \A p \in Outputs : Uses(p) \subseteq Encs
      BY UsesTyped
  <1>3. \A x \in Encs : /\ encoder'[x].data = encoder[x].data
                        /\ encoder'[x].callbacks = encoder[x].callbacks
                        /\ encoder[x].begun # 0 => encoder'[x].begun # 0
      BY Zenon DEF Fed, SameEncoder
  <1>4. OneMoves'
    <2>1. ASSUME NEW p \in Outputs, Settled(p) PROVE Settled(p)'
      <3>1. Begun(p) => Begun(p)'
        <4>1. Begun(p) => \A x \in Uses(p)' : encoder'[x].begun # 0
            BY <1>1, <1>2, <1>3, Zenon DEF Begun
        <4>2. QED
            BY <4>1, Zenon DEF Begun
      <3>2. QED
          BY <1>1, <2>1, <3>1, Zenon DEF Settled
    <2>2. QED
        BY <2>1, Zenon DEF QuietInv, OneMoves
  <1>5. HaveData'
    <2>1. HaveData
        BY DEF QuietInv
    <2>2. QED
        BY <1>1, <1>2, <1>3, <2>1, Zenon DEF HaveData, Starting
  <1>6. ASSUME NEW x \in Encs PROVE Lives(x)'
    <2>1. Lives(x) /\ Fed(encoder'[x], encoder[x])
        BY Zenon DEF QuietInv
    <2>2. CASE encoder[x].active
        BY <2>1, <2>2, Zenon DEF Lives, Fed, SameEncoder
    <2>3. CASE ~encoder[x].active
        BY <2>1, <2>3, Zenon DEF Lives, Fed
    <2>4. QED
        BY <2>2, <2>3
  <1>7. ASSUME NEW x \in Encs, NEW p \in Outputs
        PROVE  CallbackOn(p, x)' /\ (WantedBy(p, x) => WantedBy(p, x)')
    <2>1. CallbackOn(p, x)
        BY Zenon DEF QuietInv
    <2>2. PICK at, with : stage[p].at = at /\ stage[p].with = with
        OBVIOUS
    <2>3. stage'[p].at = at /\ stage'[p].with = with
        BY <1>1, <2>2
    <2>4. QED
        BY <1>1, <1>3, <2>1, <2>2, <2>3, Zenon
           DEF CallbackOn, WantedBy, Starting, Stopping
  <1>8. ASSUME NEW x \in Encs PROVE Wanted(x)'
    <2>1. Wanted(x)
        BY Zenon DEF QuietInv
    <2>2. QED
        BY <1>3, <1>7, <2>1, Zenon DEF Wanted
  <1>9. \A x, y \in Encs : Widowed(x, y) => Widowed(x, y)'
      BY <1>1, <1>3, Zenon DEF Widowed, Stopping
  <1>10. QED
      BY <1>1, <1>4, <1>5, <1>6, <1>7, <1>8, <1>9

\* Of an output that captures and an encoder that has not begun, no other output
\* is at work with this encoder.
LEMMA NotBegun ==
  ASSUME QuietInv, NEW o \in Outputs, stage[o].at = "capturing",
         NEW x \in Uses(o), x \in Encs, encoder[x].begun = 0
  PROVE  /\ \A p \in Outputs : stage[p].at # "idle" /\ x \in Uses(p) => p = o
         /\ \A y : ~Widowed(x, y)
         /\ encoder[x].active
  <1>1. ~Settled(o)
      BY DEF Settled, Begun
  <1>2. OneMoves /\ CallbackOn(o, x) /\ Lives(x)
      BY Zenon DEF QuietInv
  <1>3. \A p \in Outputs : p # o => Settled(p)
      BY <1>1, <1>2, OthersSettled
  <1>4. ASSUME NEW p \in Outputs, stage[p].at # "idle", x \in Uses(p), p # o
        PROVE  FALSE
      BY <1>3, <1>4, Zenon DEF Settled, Begun
  <1>5. stage[o].at \notin Stopping /\ stage[o].at # "hook"
      BY DEF Stopping
  <1>6. \A y : ~Widowed(x, y)
      BY <1>3, <1>5, NobodyStops
  <1>7. o \in encoder[x].callbacks
      BY <1>2, <1>5, Zenon DEF CallbackOn
  <1>8. encoder[x].active
      BY <1>2, <1>7, Zenon DEF Lives
  <1>9. QED
      BY <1>4, <1>6, <1>8

\* Whether an encoder of an output that captures is of one or the other kind.
LEMMA SinceParts ==
  ASSUME QuietInv, NEW o \in Outputs, stage[o].at = "capturing",
         NEW since, since = stage[o].since
  PROVE  /\ \A v \in Uses(o) : v \in VideoEncoders => VideoSince(v, since)
         /\ \A a \in Uses(o) : a \in AudioEncoders => AudioSince(a, since)
  <1>1. BeginsSince(o)
      BY Zenon DEF QuietInv
  <1>2. \A a \in AudioEncoders : a \notin VideoEncoders
      BY EncoderPairingAssumption
  <1>3. QED
      BY <1>1, <1>2, Zenon DEF BeginsSince

\* The numbers of an encoder.
LEMMA EncoderNumbers ==
  ASSUME PairingTypeOK, NEW x \in Encs
  PROVE  /\ encoder[x].start_ts \in Nat /\ encoder[x].begun \in Nat
         /\ encoder[x].first_raw_ts \in Nat
         /\ encoder[x].input[1] \in Nat /\ encoder[x].input[2] \in Nat
         /\ encoder[x].paired_encoder \in Encs \cup {NONE}
         /\ encoder[x].active \in BOOLEAN /\ encoder[x].first_received \in BOOLEAN
  <1>1. encoder[x] \in EncoderType
      BY TypeParts
  <1>2. QED
      BY <1>1 DEF EncoderType

\* The encoders of an output begin in time still, when those of each kind do.
LEMMA SinceSteps ==
  ASSUME NEW o \in Outputs, stage'[o] = stage[o], Uses(o)' = Uses(o),
         Uses(o) \subseteq Encs,
         stage[o].at = "capturing" =>
             \A since : since = stage[o].since =>
                /\ \A v \in Uses(o) : v \in VideoEncoders => VideoSince(v, since)'
                /\ \A a \in Uses(o) : a \in AudioEncoders => AudioSince(a, since)'
  PROVE  BeginsSince(o)'
  <1>1. PICK since : since = stage[o].since
      OBVIOUS
  <1>2. SUFFICES ASSUME stage[o].at = "capturing", NEW x \in Uses(o)
                 PROVE  IF x \in VideoEncoders THEN VideoSince(x, since)'
                        ELSE AudioSince(x, since)'
      BY <1>1, Zenon DEF BeginsSince, VideoSince, AudioSince
  <1>3. x \in VideoEncoders \/ x \in AudioEncoders
      BY DEF Encs
  <1>4. QED
      BY <1>1, <1>2, <1>3, Zenon

\* A frame is made; the video that waits for its audio does so no longer than it
\* may.
LEMMA VideoQuiet ==
  ASSUME PairingTypeOK, HasNext, \A x \in Encs : Sampled(x), QuietInv, VideoFrame
  PROVE  QuietInv'
  <1>1. PICK vt \in Nat : vt = media_time["video"]
      BY TypeParts
  <1>2. PICK at \in Nat : at = media_time["audio"]
      BY TypeParts
  <1>3. /\ Filmed /\ media_at' = media_at /\ vt <= at + MaxSkew
        /\ media_time["video"] = vt /\ media_time["audio"] = at
        /\ media_time'["audio"] = at /\ media_time'["video"] = vt + FramePeriod
        /\ \A x \in Encs :
              encoder'[x] = IF x \in VideoEncoders /\ encoder[x].active
                            THEN ReceiveVideo(encoder[x], vt) ELSE encoder[x]
      BY <1>1, <1>2, VideoMoves, Zenon
  <1>4. /\ media_at["video"] = "idle" /\ media_at["audio"] \in {"idle", "buffer"}
        /\ vt # 0 /\ at # 0 /\ at <= vt + MaxSkew + BlockPeriod
        /\ media_at["audio"] = "buffer" => at <= vt + MaxSkew
      BY <1>3, Zenon DEF QuietInv, ClockRuns
  <1>5. /\ VideoEncoders \subseteq Encs /\ AudioEncoders \subseteq Encs
        /\ \A a \in AudioEncoders : a \notin VideoEncoders
        /\ \A x \in Encs : x # NONE
      BY EncoderPairingAssumption DEF Encs
  <1>6. ASSUME NEW x \in Encs
        PROVE  \/ /\ encoder'[x] = encoder[x]
                  /\ x \in VideoEncoders /\ encoder[x].active
                         => Waits(encoder[x], vt)
               \/ /\ x \in VideoEncoders /\ encoder[x].active
                  /\ ~Waits(encoder[x], vt)
                  /\ SameEncoder(encoder'[x], encoder[x])
                  /\ encoder'[x].input = encoder[x].input
                  /\ encoder'[x].first_received
                  /\ encoder'[x].start_ts = IF encoder[x].start_ts = 0 THEN vt
                                            ELSE encoder[x].start_ts
                  /\ encoder'[x].begun = IF encoder[x].begun = 0 THEN vt
                                         ELSE encoder[x].begun
    <2>1. encoder[x] \in EncoderType
        BY TypeParts
    <2>2. CASE x \in VideoEncoders /\ encoder[x].active
      <3>1. encoder'[x] = ReceiveVideo(encoder[x], vt)
          BY <1>3, <2>2, Zenon
      <3>2. LET q == ReceiveVideo(encoder[x], vt)
            IN  \/ q = encoder[x] /\ Waits(encoder[x], vt)
                \/ /\ ~Waits(encoder[x], vt) /\ SameEncoder(q, encoder[x])
                   /\ q.input = encoder[x].input
                   /\ q.first_received
                   /\ q.start_ts = IF encoder[x].start_ts = 0 THEN vt
                                   ELSE encoder[x].start_ts
                   /\ q.begun = IF encoder[x].begun = 0 THEN vt
                                ELSE encoder[x].begun
          BY <2>1, ReceiveTyped, Zenon
      <3>3. QED
          BY <2>2, <3>1, <3>2, Zenon
    <2>3. CASE ~(x \in VideoEncoders /\ encoder[x].active)
      <3>1. encoder'[x] = encoder[x]
          BY <1>3, <2>3, Zenon
      <3>2. QED
          BY <2>3, <3>1, Zenon
    <2>4. QED
        BY <2>2, <2>3
  <1>7. \A x \in Encs : x \notin VideoEncoders => encoder'[x] = encoder[x]
      BY <1>6, Zenon
  <1>8. \A x \in Encs : Fed(encoder'[x], encoder[x])
      BY <1>4, <1>6, Zenon DEF Fed, SameEncoder
  <1>9. /\ OneMoves' /\ HaveData'
        /\ \A x \in Encs : Lives(x)' /\ Wanted(x)'
        /\ \A p \in Outputs, x \in Encs : CallbackOn(p, x)'
        /\ \A p \in Outputs : stage'[p] = stage[p] /\ Uses(p)' = Uses(p)
        /\ \A x, y \in Encs : Widowed(x, y) => Widowed(x, y)'
      BY <1>3, <1>8, ThreadsLeave
  <1>10. /\ vt <= vt + FramePeriod /\ vt + FramePeriod # 0
         /\ vt + FramePeriod <= at + MaxSkew + FramePeriod
         /\ at <= vt + FramePeriod + MaxSkew + BlockPeriod
         /\ media_at["audio"] = "buffer" => at <= vt + FramePeriod + MaxSkew
      BY <1>3, <1>4, PairingNumbers
  <1>11. ClockRuns'
    <2>1. PICK next : next = vt + FramePeriod
        OBVIOUS
    <2>2. /\ media_time'["video"] = next /\ media_time'["audio"] = at
          /\ next # 0 /\ at # 0
          /\ next <= at + MaxSkew + FramePeriod
          /\ at <= next + MaxSkew + BlockPeriod
          /\ media_at["audio"] = "buffer" => at <= next + MaxSkew
      <3>1. /\ next # 0 /\ next <= at + MaxSkew + FramePeriod
            /\ at <= next + MaxSkew + BlockPeriod
            /\ media_at["audio"] = "buffer" => at <= next + MaxSkew
          BY <1>10, <2>1
      <3>2. QED
          BY <1>3, <1>4, <2>1, <3>1, Zenon
    <2>3. media_at'["video"] = "idle" /\ media_at'["audio"] \in {"idle", "buffer"}
          /\ media_at'["audio"] = media_at["audio"]
        BY <1>3, <1>4
    <2>4. QED
        BY <2>2, <2>3, Zenon DEF ClockRuns
  <1>12. ASSUME NEW v \in VideoEncoders PROVE VideoTimes(v)' /\ VideoPairs(v)'
    <2>1. v \in Encs /\ VideoTimes(v) /\ VideoPairs(v)
        BY <1>5, Zenon DEF QuietInv
    <2>2. /\ encoder[v].paired_encoder \in AudioEncoders \cup {NONE}
          /\ encoder[v].begun = encoder[v].start_ts
          /\ encoder[v].first_received <=> encoder[v].start_ts # 0
          /\ encoder[v].input[1] <= encoder[v].input[2]
          /\ encoder[v].start_ts <= vt
        BY <1>3, <2>1, Zenon DEF VideoTimes
    <2>3. encoder[v].start_ts <= vt + FramePeriod
      <3>1. encoder[v].start_ts \in Nat
          BY <2>1, EncoderNumbers
      <3>2. QED
          BY <2>2, <3>1, PairingNumbers
    <2>4. CASE encoder'[v] = encoder[v]
      <3>1. VideoTimes(v)'
          BY <1>3, <2>2, <2>3, <2>4, Zenon DEF VideoTimes
      <3>2. ASSUME NEW a, a = encoder[v].paired_encoder, a # NONE,
                   encoder[v].start_ts = 0
            PROVE  \/ encoder'[a].paired_encoder = v /\ encoder'[a].start_ts = 0
                   \/ Widowed(v, a)'
        <4>1. a \in AudioEncoders
            BY <2>2, <3>2
        <4>2. a \in Encs /\ encoder'[a] = encoder[a]
            BY <1>5, <1>7, <4>1
        <4>3. \/ encoder[a].paired_encoder = v /\ encoder[a].start_ts = 0
              \/ Widowed(v, a)
            BY <2>1, <3>2, Zenon DEF VideoPairs
        <4>4. QED
            BY <1>9, <2>1, <4>2, <4>3, Zenon
      <3>3. PICK a : a = encoder[v].paired_encoder
          OBVIOUS
      <3>4. encoder'[v].paired_encoder = a /\ encoder'[v].start_ts = encoder[v].start_ts
          BY <2>4, <3>3
      <3>5. a # NONE /\ encoder'[v].start_ts = 0 =>
               \/ encoder'[a].paired_encoder = v /\ encoder'[a].start_ts = 0
               \/ Widowed(v, a)'
          BY <3>2, <3>3, <3>4, Zenon
      <3>6. Widowed(v, a)' => Widowed(v, encoder[v].paired_encoder)'
          BY <3>4, Zenon DEF Widowed
      <3>7. VideoPairs(v)'
          BY <3>4, <3>5, <3>6, Zenon DEF VideoPairs
      <3>8. QED
          BY <3>1, <3>7
    <2>5. CASE encoder'[v] # encoder[v]
      <3>1. /\ encoder'[v].paired_encoder = encoder[v].paired_encoder
            /\ encoder'[v].input = encoder[v].input
            /\ encoder'[v].first_received
            /\ encoder'[v].start_ts \in {vt, encoder[v].start_ts}
            /\ encoder'[v].start_ts # 0
            /\ encoder'[v].begun = encoder'[v].start_ts
          BY <1>4, <1>6, <2>1, <2>2, <2>5, Zenon DEF SameEncoder
      <3>2. encoder'[v].start_ts <= vt + FramePeriod
        <4>1. CASE encoder'[v].start_ts = vt
            BY <1>10, <4>1, Zenon
        <4>2. CASE encoder'[v].start_ts = encoder[v].start_ts
            BY <2>3, <4>2, Zenon
        <4>3. QED
            BY <3>1, <4>1, <4>2, Zenon
      <3>3. VideoTimes(v)'
          BY <1>3, <2>2, <3>1, <3>2, Zenon DEF VideoTimes
      <3>4. VideoPairs(v)'
          BY <3>1, Zenon DEF VideoPairs
      <3>5. QED
          BY <3>3, <3>4
    <2>6. QED
        BY <2>4, <2>5
  <1>13. ASSUME NEW a \in AudioEncoders PROVE AudioTimes(a)' /\ AudioPairs(a)'
    <2>1. a \in Encs /\ AudioTimes(a) /\ AudioPairs(a) /\ encoder'[a] = encoder[a]
        BY <1>5, <1>7, Zenon DEF QuietInv
    <2>2. PICK r : encoder[a] = r
        OBVIOUS
    <2>3. encoder[a] = r /\ encoder'[a] = r
        BY <2>1, <2>2
    <2>4. AudioTimes(a)'
      <3>1. /\ Underway(encoder[a]) = Underway(r)
            /\ Underway(encoder[a])' = Underway(r)
            /\ WaitsWith(encoder[a], media_time["audio"]) = WaitsWith(r, at)
            /\ WaitsWith(encoder[a], media_time["audio"])' = WaitsWith(r, at)
          BY <1>3, <2>3, Zenon DEF Underway, WaitsWith
      <3>2. QED
          BY <1>3, <2>1, <2>3, <3>1, Zenon DEF AudioTimes
    <2>5. PICK v : v = r.paired_encoder
        OBVIOUS
    <2>6. CASE v = NONE \/ r.start_ts # 0
      <3>1. encoder'[a].paired_encoder = NONE \/ encoder'[a].start_ts # 0
          BY <2>3, <2>5, <2>6, Zenon
      <3>2. QED
          BY <2>4, <3>1, Zenon DEF AudioPairs
    <2>7. CASE v # NONE /\ r.start_ts = 0
      <3>1. v \in VideoEncoders /\ v \in Encs
        <4>1. r.paired_encoder \in VideoEncoders \cup {NONE}
            BY <2>1, <2>3, Zenon DEF AudioTimes
        <4>2. QED
            BY <1>5, <2>5, <2>7, <4>1
      <3>2. /\ \E p \in Outputs : stage[p].at # "idle" /\ {v, a} \subseteq Uses(p)
            /\ encoder[v].paired_encoder = a \/ Widowed(a, v)
            /\ encoder[v].start_ts # 0 =>
                  /\ r.first_received /\ r.first_raw_ts <= encoder[v].start_ts
                  /\ at <= encoder[v].start_ts + MaxSkew + BlockPeriod
          BY <1>3, <2>1, <2>3, <2>5, <2>7, Zenon DEF AudioPairs
      <3>3. encoder'[v].paired_encoder = encoder[v].paired_encoder
          BY <1>8, <3>1, Zenon DEF Fed, SameEncoder
      <3>4. \E p \in Outputs : stage'[p].at # "idle" /\ {v, a} \subseteq Uses(p)'
          BY <1>9, <3>2
      <3>5. encoder'[v].paired_encoder = a \/ Widowed(a, v)'
          BY <1>9, <2>1, <3>1, <3>2, <3>3, Zenon
      <3>6. encoder'[v].start_ts # 0 =>
                /\ r.first_received /\ r.first_raw_ts <= encoder'[v].start_ts
                /\ at <= encoder'[v].start_ts + MaxSkew + BlockPeriod
        <4>1. CASE encoder'[v].start_ts = encoder[v].start_ts
            BY <3>2, <4>1, Zenon
        <4>2. CASE encoder'[v].start_ts # encoder[v].start_ts
          <5>1. /\ encoder'[v].start_ts = vt /\ encoder[v].start_ts = 0
                /\ encoder[v].active /\ ~Waits(encoder[v], vt)
              BY <1>6, <3>1, <4>2, Zenon
          <5>2. ~encoder[v].first_received /\ encoder[v].data
            <6>1. VideoTimes(v) /\ Lives(v)
                BY <3>1, Zenon DEF QuietInv
            <6>2. QED
                BY <5>1, <6>1, Zenon DEF VideoTimes, Lives
          <5>3. encoder[v].paired_encoder = a
              BY <3>2, <5>2, Zenon DEF Widowed
          <5>4. a # NONE
              BY <1>5, <2>1
          <5>5. r.first_received /\ ~(r.first_raw_ts > vt)
              BY <2>3, <5>1, <5>2, <5>3, <5>4, Zenon DEF Waits
          <5>6. r.first_raw_ts \in Nat
              BY <2>1, <2>3, EncoderNumbers
          <5>7. r.first_raw_ts <= vt
              BY <5>5, <5>6
          <5>8. QED
              BY <1>4, <5>1, <5>5, <5>7, Zenon
        <4>3. QED
            BY <4>1, <4>2
      <3>7. encoder'[a].paired_encoder = v
          BY <2>3, <2>5
      <3>8. Widowed(a, v)' => Widowed(a, encoder[a].paired_encoder)'
          BY <3>7, Zenon DEF Widowed
      <3>9. AudioPairs(a)'
          BY <1>3, <2>3, <3>4, <3>5, <3>6, <3>7, <3>8, Zenon DEF AudioPairs
      <3>10. QED
          BY <2>4, <3>9
    <2>8. QED
        BY <2>4, <2>6, <2>7
  <1>14. ASSUME NEW o \in Outputs PROVE BeginsSince(o)'
    <2>1. Uses(o) \subseteq Encs
        BY UsesTyped
    <2>2. ASSUME stage[o].at = "capturing", NEW since, since = stage[o].since
          PROVE  /\ \A v \in Uses(o) : v \in VideoEncoders => VideoSince(v, since)'
                 /\ \A a \in Uses(o) : a \in AudioEncoders => AudioSince(a, since)'
      <3>1. /\ \A v \in Uses(o) : v \in VideoEncoders => VideoSince(v, since)
            /\ \A a \in Uses(o) : a \in AudioEncoders => AudioSince(a, since)
          BY <2>2, SinceParts
      <3>2. since \in Nat
        <4>1. stage[o] \in Stages
            BY TypeParts
        <4>2. QED
            BY <2>2, <4>1 DEF Stages
      <3>3. ASSUME NEW a \in Uses(o), a \in AudioEncoders PROVE AudioSince(a, since)'
        <4>1. AudioSince(a, since) /\ encoder'[a] = encoder[a]
            BY <1>5, <1>7, <3>1, <3>3
        <4>2. QED
            BY <1>3, <4>1, Zenon DEF AudioSince
      <3>4. ASSUME NEW v \in Uses(o), v \in VideoEncoders PROVE VideoSince(v, since)'
        <4>1. /\ v \in Encs
              /\ encoder[v].start_ts <= since + MaxSkew + FramePeriod
              /\ encoder[v].begun = 0 => vt <= since + MaxSkew + FramePeriod
            BY <1>3, <1>5, <3>1, <3>4, Zenon DEF VideoSince
        <4>2. encoder[v].begun = encoder[v].start_ts
            BY <3>4, Zenon DEF QuietInv, VideoTimes
        <4>3. CASE encoder[v].begun # 0
          <5>1. encoder'[v].start_ts = encoder[v].start_ts /\ encoder'[v].begun # 0
              BY <1>6, <4>1, <4>2, <4>3, Zenon
          <5>2. QED
              BY <4>1, <5>1, Zenon DEF VideoSince
        <4>4. CASE encoder[v].begun = 0
          <5>1. /\ \A p \in Outputs : stage[p].at # "idle" /\ v \in Uses(p) => p = o
                /\ \A y : ~Widowed(v, y)
                /\ encoder[v].active
              BY <2>2, <4>1, <4>4, NotBegun
          <5>2. CASE ~Waits(encoder[v], vt)
            <6>1. encoder'[v].start_ts = vt /\ encoder'[v].begun = vt
                BY <1>6, <3>4, <4>1, <4>2, <4>4, <5>1, <5>2, Zenon
            <6>2. QED
                BY <1>4, <4>1, <4>4, <6>1, Zenon DEF VideoSince
          <5>3. CASE Waits(encoder[v], vt)
            <6>1. encoder'[v] = encoder[v]
                BY <1>6, <4>1, <5>3, Zenon
            <6>2. PICK a : a = encoder[v].paired_encoder
                OBVIOUS
            <6>3. a # NONE /\ (~encoder[a].first_received
                                \/ encoder[a].first_raw_ts > vt)
                BY <5>3, <6>2, Zenon DEF Waits
            <6>4. a \in AudioEncoders /\ a \in Encs
              <7>1. encoder[v].paired_encoder \in AudioEncoders \cup {NONE}
                  BY <3>4, Zenon DEF QuietInv, VideoTimes
              <7>2. QED
                  BY <1>5, <6>2, <6>3, <7>1
            <6>5. encoder[a].paired_encoder = v /\ encoder[a].start_ts = 0
              <7>1. VideoPairs(v)
                  BY <3>4, Zenon DEF QuietInv
              <7>2. QED
                  BY <4>2, <4>4, <5>1, <6>2, <6>3, <7>1, Zenon DEF VideoPairs
            <6>6. AudioPairs(a) /\ AudioTimes(a)
                BY <6>4, Zenon DEF QuietInv
            <6>7. v # NONE
                BY <1>5, <4>1, Zenon
            <6>8. PICK p \in Outputs : stage[p].at # "idle" /\ {v, a} \subseteq Uses(p)
                BY <6>5, <6>6, <6>7, Zenon DEF AudioPairs
            <6>9. a \in Uses(o)
                BY <5>1, <6>8
            <6>10. encoder[a].begun = 0
                BY <6>5, <6>6, Zenon DEF AudioTimes
            <6>11. /\ ~encoder[a].first_received => at <= since
                   /\ encoder[a].first_received => encoder[a].first_raw_ts <= since
              <7>1. AudioSince(a, since)
                  BY <3>1, <6>4, <6>9
              <7>2. QED
                  BY <1>3, <6>5, <6>10, <7>1, Zenon DEF AudioSince
            <6>12. encoder[a].first_raw_ts \in Nat
                BY <6>4, EncoderNumbers
            <6>13. vt <= since + MaxSkew
              <7>1. CASE ~encoder[a].first_received
                  BY <1>3, <3>2, <6>11, <7>1, PairingNumbers
              <7>2. CASE encoder[a].first_received
                  BY <3>2, <6>3, <6>11, <6>12, <7>2, PairingNumbers
              <7>3. QED
                  BY <7>1, <7>2
            <6>14. vt + FramePeriod <= since + MaxSkew + FramePeriod
                BY <3>2, <6>13, PairingNumbers
            <6>15. QED
                BY <1>3, <4>1, <6>1, <6>14, Zenon DEF VideoSince
          <5>4. QED
              BY <5>2, <5>3
        <4>5. QED
            BY <4>3, <4>4
      <3>5. QED
          BY <3>3, <3>4
    <2>3. QED
        BY <1>9, <2>1, <2>2, SinceSteps
  <1>15. QED
      BY <1>9, <1>11, <1>12, <1>13, <1>14, QuietWhole

\* A block arrives; the audio that has its first block collects it.
LEMMA AudioQuiet ==
  ASSUME PairingTypeOK, HasNext, \A x \in Encs : Sampled(x), QuietInv, AudioArrives
  PROVE  QuietInv'
  <1>1. PICK at \in Nat : at = media_time["audio"]
      BY TypeParts
  <1>2. /\ Filmed /\ media_at["audio"] = "idle" /\ media_at'["audio"] = "buffer"
        /\ media_at'["video"] = media_at["video"]
        /\ media_time' = media_time /\ media_time["audio"] = at
        /\ media_time'["audio"] = at
        /\ at <= media_time["video"] + MaxSkew
      BY <1>1, AudioMoves, Zenon
  <1> DEFINE Kept(x) ==
                 /\ encoder'[x] = encoder[x]
                 /\ x \in AudioEncoders /\ encoder[x].active
                        => encoder[x].first_received
             First(x) ==
                 /\ x \in AudioEncoders /\ encoder[x].active
                 /\ ~encoder[x].first_received
                 /\ SameEncoder(encoder'[x], encoder[x])
                 /\ encoder'[x].first_received
                 /\ encoder'[x].first_raw_ts = at
                 /\ encoder'[x].input = <<0, 0>>
                 /\ encoder'[x].start_ts = encoder[x].start_ts
                 /\ encoder'[x].begun = encoder[x].begun
  <1>3. \A x \in Encs : Kept(x) \/ First(x)
      BY <1>1, AudioMoves, Zenon
  <1>4. /\ VideoEncoders \subseteq Encs /\ AudioEncoders \subseteq Encs
        /\ \A a \in AudioEncoders : a \notin VideoEncoders
        /\ \A x \in Encs : x # NONE
      BY EncoderPairingAssumption DEF Encs
  <1>5. \A x \in Encs : /\ Fed(encoder'[x], encoder[x])
                        /\ encoder'[x].paired_encoder = encoder[x].paired_encoder
                        /\ encoder'[x].start_ts = encoder[x].start_ts
                        /\ encoder'[x].begun = encoder[x].begun
                        /\ x \in VideoEncoders => encoder'[x] = encoder[x]
      BY <1>3, <1>4, Zenon DEF Fed, SameEncoder
  <1>6. /\ OneMoves' /\ HaveData'
        /\ \A x \in Encs : Lives(x)' /\ Wanted(x)'
        /\ \A p \in Outputs, x \in Encs : CallbackOn(p, x)'
        /\ \A p \in Outputs : stage'[p] = stage[p] /\ Uses(p)' = Uses(p)
        /\ \A x, y \in Encs : Widowed(x, y) => Widowed(x, y)'
      BY <1>2, <1>5, ThreadsLeave
  <1>7. ClockRuns'
    <2>1. ClockRuns
        BY Zenon DEF QuietInv
    <2>2. "buffer" \in {"idle", "buffer"}
        OBVIOUS
    <2>3. QED
        BY <1>2, <2>1, <2>2, Zenon DEF ClockRuns
  <1>8. ASSUME NEW v \in VideoEncoders PROVE VideoTimes(v)' /\ VideoPairs(v)'
    <2>1. v \in Encs /\ VideoTimes(v) /\ VideoPairs(v) /\ encoder'[v] = encoder[v]
        BY <1>4, <1>5, Zenon DEF QuietInv
    <2>2. VideoTimes(v)'
        BY <1>2, <2>1, Zenon DEF VideoTimes
    <2>3. PICK a : a = encoder[v].paired_encoder
        OBVIOUS
    <2>4. encoder'[v].paired_encoder = a /\ encoder'[v].start_ts = encoder[v].start_ts
        BY <2>1, <2>3
    <2>5. a # NONE /\ encoder[v].start_ts = 0 =>
             \/ encoder'[a].paired_encoder = v /\ encoder'[a].start_ts = 0
             \/ Widowed(v, a)'
      <3>1. SUFFICES ASSUME a # NONE, encoder[v].start_ts = 0
                     PROVE  \/ encoder'[a].paired_encoder = v
                               /\ encoder'[a].start_ts = 0
                            \/ Widowed(v, a)'
          OBVIOUS
      <3>2. a \in Encs
        <4>1. encoder[v].paired_encoder \in AudioEncoders \cup {NONE}
            BY <2>1, Zenon DEF VideoTimes
        <4>2. QED
            BY <1>4, <2>3, <3>1, <4>1
      <3>3. \/ encoder[a].paired_encoder = v /\ encoder[a].start_ts = 0
            \/ Widowed(v, a)
          BY <2>1, <2>3, <3>1, Zenon DEF VideoPairs
      <3>4. QED
          BY <1>5, <1>6, <2>1, <3>2, <3>3, Zenon
    <2>6. Widowed(v, a)' => Widowed(v, encoder[v].paired_encoder)'
        BY <2>4, Zenon DEF Widowed
    <2>7. VideoPairs(v)'
        BY <2>4, <2>5, <2>6, Zenon DEF VideoPairs
    <2>8. QED
        BY <2>2, <2>7
  <1>9. ASSUME NEW a \in AudioEncoders PROVE AudioTimes(a)' /\ AudioPairs(a)'
    <2>1. a \in Encs /\ AudioTimes(a) /\ AudioPairs(a)
        BY <1>4, Zenon DEF QuietInv
    <2>2. AudioTimes(a)'
      <3>1. CASE Kept(a)
        <4>1. PICK r : encoder[a] = r
            OBVIOUS
        <4>2. encoder[a] = r /\ encoder'[a] = r /\ (r.active => r.first_received)
            BY <3>1, <4>1
        <4>3. /\ Underway(encoder[a]) = Underway(r)
              /\ Underway(encoder[a])' = Underway(r)
              /\ WaitsWith(encoder[a], media_time["audio"]) = WaitsWith(r, at)
              /\ WaitsWith(encoder[a], media_time["audio"])' = WaitsWith(r, at)
            BY <1>2, <4>2, Zenon DEF Underway, WaitsWith
        <4>4. QED
            BY <1>2, <2>1, <4>2, <4>3, Zenon DEF AudioTimes
      <3>2. CASE First(a)
        <4>1. /\ encoder[a].start_ts # 0 => encoder[a].first_received
              /\ encoder[a].start_ts = 0 => encoder[a].begun = 0
              /\ encoder[a].paired_encoder \in VideoEncoders \cup {NONE}
            BY <2>1, Zenon DEF AudioTimes
        <4>2. encoder'[a].start_ts = 0 /\ encoder'[a].begun = 0
              /\ encoder'[a].paired_encoder \in VideoEncoders \cup {NONE}
            BY <1>5, <2>1, <3>2, <4>1, Zenon
        <4>3. encoder'[a].input[1] <= encoder'[a].input[2]
              /\ encoder'[a].input[2] <= at
          <5>1. <<0, 0>>[1] <= <<0, 0>>[2] /\ <<0, 0>>[2] <= at
              OBVIOUS
          <5>2. QED
              BY <3>2, <5>1, Zenon
        <4>4. WaitsWith(encoder[a], media_time["audio"])'
            BY <1>2, <3>2, Zenon DEF WaitsWith
        <4>5. QED
            BY <1>2, <3>2, <4>2, <4>3, <4>4, Zenon DEF AudioTimes
      <3>3. QED
          BY <1>3, <2>1, <3>1, <3>2
    <2>3. PICK v : v = encoder[a].paired_encoder
        OBVIOUS
    <2>4. encoder'[a].paired_encoder = v /\ encoder'[a].start_ts = encoder[a].start_ts
        BY <1>5, <2>1, <2>3, Zenon
    <2>5. CASE v = NONE \/ encoder[a].start_ts # 0
      <3>1. AudioPairs(a)'
          BY <2>4, <2>5, Zenon DEF AudioPairs
      <3>2. QED
          BY <2>2, <3>1
    <2>6. CASE v # NONE /\ encoder[a].start_ts = 0
      <3>1. v \in VideoEncoders /\ v \in Encs
        <4>1. encoder[a].paired_encoder \in VideoEncoders \cup {NONE}
            BY <2>1, Zenon DEF AudioTimes
        <4>2. QED
            BY <1>4, <2>3, <2>6, <4>1
      <3>2. /\ \E p \in Outputs : stage[p].at # "idle" /\ {v, a} \subseteq Uses(p)
            /\ encoder[v].paired_encoder = a \/ Widowed(a, v)
            /\ encoder[v].start_ts # 0 =>
                  /\ encoder[a].first_received
                  /\ encoder[a].first_raw_ts <= encoder[v].start_ts
                  /\ at <= encoder[v].start_ts + MaxSkew + BlockPeriod
          BY <1>2, <2>1, <2>3, <2>6, Zenon DEF AudioPairs
      <3>3. encoder'[v] = encoder[v]
          BY <1>5, <3>1
      <3>4. \E p \in Outputs : stage'[p].at # "idle" /\ {v, a} \subseteq Uses(p)'
          BY <1>6, <3>2
      <3>5. encoder'[v].paired_encoder = a \/ Widowed(a, v)'
          BY <1>6, <2>1, <3>1, <3>2, <3>3, Zenon
      <3>6. encoder'[v].start_ts # 0 =>
                /\ encoder'[a].first_received
                /\ encoder'[a].first_raw_ts <= encoder'[v].start_ts
                /\ at <= encoder'[v].start_ts + MaxSkew + BlockPeriod
        <4>1. CASE Kept(a)
            BY <3>2, <3>3, <4>1, Zenon
        <4>2. CASE First(a)
            BY <3>2, <3>3, <4>2, Zenon
        <4>3. QED
            BY <1>3, <2>1, <4>1, <4>2
      <3>7. Widowed(a, v)' => Widowed(a, encoder[a].paired_encoder)'
          BY <2>4, Zenon DEF Widowed
      <3>8. AudioPairs(a)'
          BY <1>2, <2>4, <3>4, <3>5, <3>6, <3>7, Zenon DEF AudioPairs
      <3>9. QED
          BY <2>2, <3>8
    <2>7. QED
        BY <2>5, <2>6
  <1>10. ASSUME NEW o \in Outputs PROVE BeginsSince(o)'
    <2>1. Uses(o) \subseteq Encs
        BY UsesTyped
    <2>2. ASSUME stage[o].at = "capturing", NEW since, since = stage[o].since
          PROVE  /\ \A v \in Uses(o) : v \in VideoEncoders => VideoSince(v, since)'
                 /\ \A a \in Uses(o) : a \in AudioEncoders => AudioSince(a, since)'
      <3>1. /\ \A v \in Uses(o) : v \in VideoEncoders => VideoSince(v, since)
            /\ \A a \in Uses(o) : a \in AudioEncoders => AudioSince(a, since)
          BY <2>2, SinceParts
      <3>2. ASSUME NEW v \in Uses(o), v \in VideoEncoders PROVE VideoSince(v, since)'
        <4>1. VideoSince(v, since) /\ encoder'[v] = encoder[v]
            BY <1>4, <1>5, <3>1, <3>2
        <4>2. QED
            BY <1>2, <4>1, Zenon DEF VideoSince
      <3>3. ASSUME NEW a \in Uses(o), a \in AudioEncoders PROVE AudioSince(a, since)'
        <4>1. AudioSince(a, since) /\ a \in Encs
            BY <1>4, <3>1, <3>3
        <4>2. CASE Kept(a)
            BY <1>2, <4>1, <4>2, Zenon DEF AudioSince
        <4>3. CASE First(a)
            BY <1>2, <4>1, <4>3, Zenon DEF AudioSince
        <4>4. QED
            BY <1>3, <4>1, <4>2, <4>3
      <3>4. QED
          BY <3>2, <3>3
    <2>3. QED
        BY <1>6, <2>1, <2>2, SinceSteps
  <1>11. QED
      BY <1>6, <1>7, <1>8, <1>9, <1>10, QuietWhole

\* What a block that is buffered does to an encoder that takes it.
Took(q, r, at) ==
    /\ SameEncoder(q, r)
    /\ q.first_received = r.first_received
    /\ q.first_raw_ts = r.first_raw_ts
    /\ q.input[1] <= q.input[2] /\ q.input[2] = at + BlockPeriod
    /\ r.start_ts # 0 => q.start_ts = r.start_ts
    /\ r.begun # 0 => q.begun = r.begun
    /\ q.start_ts # 0 => Underway(q)
    /\ q.start_ts # 0 /\ q.begun = 0 => at < q.start_ts
    /\ q.start_ts = 0 =>
           /\ q.begun = 0 /\ q.paired_encoder # NONE
           /\ q.input = <<q.first_raw_ts, at + BlockPeriod>>
    /\ r.start_ts = 0 /\ r.paired_encoder = NONE => q.begun # 0

\* A block is buffered; the audio begins where its video did, or goes on to wait.
LEMMA BufferQuiet ==
  ASSUME PairingTypeOK, HasNext, \A x \in Encs : Sampled(x), QuietInv, BufferAudio
  PROVE  QuietInv'
  <1>1. PICK at \in Nat : at = media_time["audio"]
      BY TypeParts
  <1>2. /\ Filmed /\ media_at["audio"] = "buffer" /\ media_at'["audio"] = "idle"
        /\ media_at'["video"] = media_at["video"]
        /\ media_time'["video"] = media_time["video"]
        /\ media_time["audio"] = at
        /\ media_time'["audio"] = at + BlockPeriod
        /\ \A x \in Encs :
              encoder'[x] = IF x \in AudioEncoders /\ encoder[x].active
                            THEN Buffered(encoder[x], at) ELSE encoder[x]
      BY <1>1, BufferMoves, Zenon
  <1>3. PICK vt \in Nat : vt = media_time["video"]
      BY TypeParts
  <1>4. /\ media_at["video"] = "idle" /\ vt # 0 /\ at # 0
        /\ vt <= at + MaxSkew + FramePeriod /\ at <= vt + MaxSkew
      BY <1>2, <1>3, Zenon DEF QuietInv, ClockRuns
  <1>5. /\ VideoEncoders \subseteq Encs /\ AudioEncoders \subseteq Encs
        /\ \A a \in AudioEncoders : a \notin VideoEncoders
        /\ \A x \in Encs : x # NONE
      BY EncoderPairingAssumption DEF Encs
  <1> DEFINE Early(a) ==
                 LET v_start_ts == encoder[encoder[a].paired_encoder].start_ts
                 IN  v_start_ts = 0 \/ at + BlockPeriod <= v_start_ts
  <1>6. ASSUME NEW a \in AudioEncoders, encoder[a].active
        PROVE  /\ Took(encoder'[a], encoder[a], at)
               /\ encoder[a].first_received
               /\ encoder[a].start_ts = 0 /\ encoder[a].paired_encoder # NONE =>
                     encoder'[a].start_ts =
                         IF Early(a) THEN 0
                         ELSE encoder[encoder[a].paired_encoder].start_ts
    <2>1. a \in Encs /\ AudioTimes(a) /\ AudioPairs(a)
        BY <1>5, Zenon DEF QuietInv
    <2>2. encoder[a] \in EncoderType /\ encoder[a].paired_encoder \in Encs \cup {NONE}
        BY <2>1, TypeParts, EncoderNumbers
    <2>3. /\ encoder[a].input[1] <= encoder[a].input[2]
          /\ encoder[a].input[2] <= at /\ encoder[a].first_received
          /\ encoder[a].start_ts # 0 => Underway(encoder[a])
          /\ encoder[a].start_ts = 0 =>
                 encoder[a].begun = 0 /\ WaitsWith(encoder[a], at)
      <3>1. encoder[a].first_received
          BY <1>2, <1>6, <2>1, Zenon DEF AudioTimes
      <3>2. QED
          BY <1>2, <2>1, <3>1, Zenon DEF AudioTimes
    <2>4. encoder[a].paired_encoder # NONE =>
              LET v_start_ts == encoder[encoder[a].paired_encoder].start_ts
              IN  /\ v_start_ts \in Nat
                  /\ encoder[a].start_ts = 0 /\ v_start_ts # 0 =>
                         encoder[a].first_raw_ts <= v_start_ts
      <3>1. \A x \in Encs : encoder[x].start_ts \in Nat
          BY EncoderNumbers
      <3>2. encoder[a].paired_encoder # NONE => encoder[a].paired_encoder \in Encs
          BY <2>2
      <3>3. QED
          BY <2>1, <3>1, <3>2, Zenon DEF AudioPairs
    <2>5. LET q == Buffered(encoder[a], at)
              r == encoder[a]
          IN  /\ Took(q, r, at)
              /\ r.start_ts = 0 /\ r.paired_encoder # NONE =>
                     q.start_ts = IF Early(a) THEN 0
                                  ELSE encoder[r.paired_encoder].start_ts
        BY <1>4, <2>2, <2>3, <2>4, BufferedKept, ZenonT(40) DEF Took
    <2>6. encoder'[a] = Buffered(encoder[a], at)
        BY <1>2, <1>6, <2>1, Zenon
    <2> HIDE DEF Early
    <2>7. QED
        BY <2>3, <2>5, <2>6, Zenon
  <1>7. \A x \in Encs : x \notin AudioEncoders \/ ~encoder[x].active =>
                            encoder'[x] = encoder[x]
      BY <1>2, Zenon
  <1>8. \A x \in Encs : /\ Fed(encoder'[x], encoder[x])
                        /\ x \in VideoEncoders => encoder'[x] = encoder[x]
                        /\ encoder'[x].paired_encoder = encoder[x].paired_encoder
                        /\ encoder'[x].first_received = encoder[x].first_received
                        /\ encoder'[x].first_raw_ts = encoder[x].first_raw_ts
                        /\ encoder[x].start_ts # 0 =>
                              encoder'[x].start_ts = encoder[x].start_ts
      BY <1>5, <1>6, <1>7, Zenon DEF Fed, SameEncoder, Took
  <1>9. /\ OneMoves' /\ HaveData'
        /\ \A x \in Encs : Lives(x)' /\ Wanted(x)'
        /\ \A p \in Outputs, x \in Encs : CallbackOn(p, x)'
        /\ \A p \in Outputs : stage'[p] = stage[p] /\ Uses(p)' = Uses(p)
        /\ \A x, y \in Encs : Widowed(x, y) => Widowed(x, y)'
      BY <1>2, <1>8, ThreadsLeave
  <1>10. ClockRuns'
    <2>1. PICK next : next = at + BlockPeriod
        OBVIOUS
    <2>2. /\ next # 0 /\ vt <= next + MaxSkew + FramePeriod
          /\ next <= vt + MaxSkew + BlockPeriod
        BY <1>4, <2>1, PairingNumbers
    <2>3. /\ media_time'["video"] = vt /\ media_time'["audio"] = next
          /\ media_at'["video"] = "idle" /\ media_at'["audio"] = "idle"
        BY <1>2, <1>3, <1>4, <2>1
    <2>4. media_at'["audio"] \in {"idle", "buffer"} /\ "idle" # "buffer"
        BY <2>3
    <2>5. QED
        BY <1>4, <2>2, <2>3, <2>4, Zenon DEF ClockRuns
  <1>11. ASSUME NEW v \in VideoEncoders PROVE VideoTimes(v)' /\ VideoPairs(v)'
    <2>1. v \in Encs /\ VideoTimes(v) /\ VideoPairs(v) /\ encoder'[v] = encoder[v]
        BY <1>5, <1>8, Zenon DEF QuietInv
    <2>2. VideoTimes(v)'
        BY <1>2, <2>1, Zenon DEF VideoTimes
    <2>3. PICK a : a = encoder[v].paired_encoder
        OBVIOUS
    <2>4. encoder'[v].paired_encoder = a /\ encoder'[v].start_ts = encoder[v].start_ts
        BY <2>1, <2>3
    <2>5. a # NONE /\ encoder[v].start_ts = 0 =>
             \/ encoder'[a].paired_encoder = v /\ encoder'[a].start_ts = 0
             \/ Widowed(v, a)'
      <3>1. SUFFICES ASSUME a # NONE, encoder[v].start_ts = 0
                     PROVE  \/ encoder'[a].paired_encoder = v
                               /\ encoder'[a].start_ts = 0
                            \/ Widowed(v, a)'
          OBVIOUS
      <3>2. a \in Encs /\ a \in AudioEncoders
        <4>1. encoder[v].paired_encoder \in AudioEncoders \cup {NONE}
            BY <2>1, Zenon DEF VideoTimes
        <4>2. QED
            BY <1>5, <2>3, <3>1, <4>1
      <3>3. CASE encoder[a].paired_encoder = v /\ encoder[a].start_ts = 0
        <4>1. encoder'[a].paired_encoder = v
            BY <1>8, <3>2, <3>3
        <4>2. encoder'[a].start_ts = 0
          <5>1. CASE encoder[a].active
            <6>1. v # NONE
                BY <1>5, <2>1, Zenon
            <6>2. Early(a)
                BY <3>1, <3>3, Zenon
            <6> HIDE DEF Early
            <6>3. QED
                BY <1>6, <3>2, <3>3, <5>1, <6>1, <6>2, Zenon
          <5>2. CASE ~encoder[a].active
              BY <1>7, <3>2, <3>3, <5>2, Zenon
          <5>3. QED
              BY <5>1, <5>2
        <4>3. QED
            BY <4>1, <4>2
      <3>4. CASE Widowed(v, a)
          BY <1>9, <2>1, <3>2, <3>4
      <3>5. QED
          BY <2>1, <2>3, <3>1, <3>3, <3>4, Zenon DEF VideoPairs
    <2>6. Widowed(v, a)' => Widowed(v, encoder[v].paired_encoder)'
        BY <2>4, Zenon DEF Widowed
    <2>7. VideoPairs(v)'
        BY <2>4, <2>5, <2>6, Zenon DEF VideoPairs
    <2>8. QED
        BY <2>2, <2>7
  <1>12. ASSUME NEW a \in AudioEncoders PROVE AudioTimes(a)'
    <2>1. a \in Encs /\ AudioTimes(a) /\ Lives(a)
        BY <1>5, Zenon DEF QuietInv
    <2>2. encoder[a].paired_encoder \in VideoEncoders \cup {NONE}
        BY <2>1, Zenon DEF AudioTimes
    <2>3. /\ encoder'[a].paired_encoder \in VideoEncoders \cup {NONE}
          /\ encoder'[a].first_received = encoder[a].first_received
          /\ encoder'[a].first_raw_ts = encoder[a].first_raw_ts
        BY <1>8, <2>1, <2>2
    <2>4. PICK next \in Nat : next = at + BlockPeriod
        BY PairingNumbers
    <2>5. /\ media_time'["audio"] = next /\ media_at'["audio"] = "idle"
          /\ "idle" # "buffer"
        BY <1>2, <2>4
    <2>6. CASE encoder[a].active
      <3>1. /\ Took(encoder'[a], encoder[a], at) /\ encoder[a].first_received
          BY <1>6, <2>6, Zenon
      <3>2. /\ encoder'[a].input[1] <= encoder'[a].input[2]
            /\ encoder'[a].input[2] = next
            /\ encoder'[a].start_ts # 0 => Underway(encoder'[a])
            /\ encoder'[a].start_ts # 0 /\ encoder'[a].begun = 0 =>
                   at < encoder'[a].start_ts
            /\ encoder'[a].start_ts = 0 =>
                   /\ encoder'[a].begun = 0 /\ encoder'[a].paired_encoder # NONE
                   /\ encoder'[a].input = <<encoder'[a].first_raw_ts, next>>
            /\ encoder[a].start_ts # 0 => encoder'[a].start_ts = encoder[a].start_ts
          BY <2>4, <3>1, Zenon DEF Took
      <3>3. next <= next /\ next # 0 /\ at < next
          BY <1>4, <2>4, PairingNumbers
      <3>4. encoder'[a].start_ts # 0 /\ encoder'[a].begun = 0 =>
                next < encoder'[a].start_ts + BlockPeriod
        <4>1. encoder'[a].start_ts \in Nat
          <5>1. PairingTypeOK'
              BY BufferMoves
          <5>2. encoder' \in [Encs -> EncoderType]
              BY <5>1, Zenon DEF PairingTypeOK
          <5>3. encoder'[a] \in EncoderType
              BY <2>1, <5>2
          <5>4. QED
              BY <5>3 DEF EncoderType
        <4>2. QED
            BY <2>4, <3>2, <4>1, PairingNumbers
      <3>5. encoder'[a].start_ts = 0 => encoder[a].first_raw_ts < next
        <4>1. encoder'[a].start_ts = 0 => WaitsWith(encoder[a], at)
            BY <1>2, <2>1, <3>1, <3>2, Zenon DEF AudioTimes
        <4>2. encoder[a].first_raw_ts \in Nat
            BY <2>1, EncoderNumbers
        <4>3. WaitsWith(encoder[a], at) => encoder[a].first_raw_ts <= at
            BY <4>2 DEF WaitsWith
        <4>4. QED
            BY <3>3, <4>1, <4>2, <4>3, <2>4
      <3>6. /\ Underway(encoder[a])' = Underway(encoder'[a])
            /\ encoder'[a].start_ts = 0 => WaitsWith(encoder[a], media_time["audio"])'
        <4>1. Underway(encoder[a])' = Underway(encoder'[a])
            BY Zenon DEF Underway
        <4>2. encoder'[a].start_ts = 0 => WaitsWith(encoder[a], media_time["audio"])'
            BY <2>3, <2>5, <3>2, <3>5, Zenon DEF WaitsWith
        <4>3. QED
            BY <4>1, <4>2
      <3>7. encoder'[a].start_ts = 0 => encoder'[a].input # <<0, 0>>
        <4>1. <<encoder'[a].first_raw_ts, next>> # <<0, 0>>
            BY <3>3
        <4>2. QED
            BY <3>2, <4>1, Zenon
      <3>8. encoder'[a].input[2] <= next
          BY <3>2, <3>3, Zenon
      <3>9. QED
          BY <2>3, <2>5, <3>1, <3>2, <3>4, <3>6, <3>7, <3>8, Zenon DEF AudioTimes
    <2>7. CASE ~encoder[a].active
      <3>1. encoder'[a] = encoder[a]
          BY <1>7, <2>1, <2>7
      <3>2. /\ ~encoder[a].first_received /\ encoder[a].start_ts = 0
            /\ encoder[a].begun = 0
          BY <2>1, <2>7, Zenon DEF Lives
      <3>3. encoder[a].input[1] <= encoder[a].input[2] /\ encoder[a].input[2] <= at
          BY <1>2, <2>1, Zenon DEF AudioTimes
      <3>4. encoder[a].input[2] <= next
        <4>1. encoder[a].input[2] \in Nat
            BY <2>1, EncoderNumbers
        <4>2. QED
            BY <2>4, <3>3, <4>1, PairingNumbers
      <3>5. QED
          BY <2>3, <2>5, <3>1, <3>2, <3>3, <3>4, Zenon DEF AudioTimes
    <2>8. QED
        BY <2>6, <2>7
  <1>13. ASSUME NEW a \in AudioEncoders PROVE AudioPairs(a)'
    <2>1. a \in Encs /\ AudioTimes(a) /\ AudioPairs(a) /\ Lives(a)
        BY <1>5, Zenon DEF QuietInv
    <2>2. PICK v : v = encoder[a].paired_encoder
        OBVIOUS
    <2>3. /\ encoder'[a].paired_encoder = v
          /\ encoder[a].start_ts # 0 => encoder'[a].start_ts # 0
        BY <1>8, <2>1, <2>2, Zenon
    <2>4. CASE v = NONE \/ encoder'[a].start_ts # 0
        BY <2>3, <2>4, Zenon DEF AudioPairs
    <2>5. CASE v # NONE /\ encoder'[a].start_ts = 0
      <3>1. v \in VideoEncoders /\ v \in Encs /\ encoder[a].start_ts = 0
        <4>1. encoder[a].paired_encoder \in VideoEncoders \cup {NONE}
            BY <2>1, Zenon DEF AudioTimes
        <4>2. v \in VideoEncoders /\ v \in Encs
            BY <1>5, <2>2, <2>5, <4>1
        <4>3. QED
            BY <2>3, <2>5, <4>2, Zenon
      <3>2. /\ \E p \in Outputs : stage[p].at # "idle" /\ {v, a} \subseteq Uses(p)
            /\ encoder[v].paired_encoder = a \/ Widowed(a, v)
            /\ encoder[v].start_ts # 0 =>
                  /\ encoder[a].first_received
                  /\ encoder[a].first_raw_ts <= encoder[v].start_ts
                  /\ at <= encoder[v].start_ts + MaxSkew + BlockPeriod
          BY <1>2, <2>1, <2>2, <2>5, <3>1, Zenon DEF AudioPairs
      <3>3. encoder'[v] = encoder[v]
          BY <1>8, <3>1
      <3>4. \E p \in Outputs : stage'[p].at # "idle" /\ {v, a} \subseteq Uses(p)'
          BY <1>9, <3>2
      <3>5. encoder'[v].paired_encoder = a \/ Widowed(a, v)'
          BY <1>9, <2>1, <3>1, <3>2, <3>3, Zenon
      <3>6. encoder[v].start_ts # 0 =>
                at + BlockPeriod <= encoder[v].start_ts + MaxSkew + BlockPeriod
        <4>1. SUFFICES ASSUME encoder[v].start_ts # 0
                       PROVE  at + BlockPeriod
                                 <= encoder[v].start_ts + MaxSkew + BlockPeriod
            OBVIOUS
        <4>2. encoder[a].active
            BY <2>1, <3>2, <4>1, Zenon DEF Lives
        <4>3. Early(a)
          <5> HIDE DEF Early
          <5>1. ~Early(a) => encoder'[a].start_ts = encoder[v].start_ts
              BY <1>6, <2>2, <2>5, <3>1, <4>2, Zenon
          <5>2. QED
              BY <2>5, <4>1, <5>1, Zenon
        <4>4. at + BlockPeriod <= encoder[v].start_ts
            BY <2>2, <4>1, <4>3, Zenon
        <4>5. encoder[v].start_ts \in Nat
            BY <3>1, EncoderNumbers
        <4>6. QED
            BY <4>4, <4>5, PairingNumbers
      <3>7. encoder'[v].start_ts # 0 =>
                /\ encoder'[a].first_received
                /\ encoder'[a].first_raw_ts <= encoder'[v].start_ts
                /\ media_time'["audio"]
                      <= encoder'[v].start_ts + MaxSkew + BlockPeriod
          BY <1>2, <1>8, <2>1, <3>2, <3>3, <3>6, Zenon
      <3>8. Widowed(a, v)' => Widowed(a, encoder[a].paired_encoder)'
          BY <2>3, Zenon DEF Widowed
      <3>9. QED
          BY <2>3, <3>4, <3>5, <3>7, <3>8, Zenon DEF AudioPairs
    <2>6. QED
        BY <2>4, <2>5
  <1>14. ASSUME NEW o \in Outputs PROVE BeginsSince(o)'
    <2>1. Uses(o) \subseteq Encs
        BY UsesTyped
    <2>2. ASSUME stage[o].at = "capturing", NEW since, since = stage[o].since
          PROVE  /\ \A v \in Uses(o) : v \in VideoEncoders => VideoSince(v, since)'
                 /\ \A a \in Uses(o) : a \in AudioEncoders => AudioSince(a, since)'
      <3>1. /\ \A v \in Uses(o) : v \in VideoEncoders => VideoSince(v, since)
            /\ \A a \in Uses(o) : a \in AudioEncoders => AudioSince(a, since)
          BY <2>2, SinceParts
      <3>2. since \in Nat
        <4>1. stage[o] \in Stages
            BY TypeParts
        <4>2. QED
            BY <2>2, <4>1 DEF Stages
      <3>3. ASSUME NEW v \in Uses(o), v \in VideoEncoders PROVE VideoSince(v, since)'
        <4>1. VideoSince(v, since) /\ encoder'[v] = encoder[v]
            BY <1>5, <1>8, <3>1, <3>3
        <4>2. QED
            BY <1>2, <4>1, Zenon DEF VideoSince
      <3>4. ASSUME NEW a \in Uses(o), a \in AudioEncoders PROVE AudioSince(a, since)'
        <4>1. AudioSince(a, since) /\ a \in Encs /\ Lives(a) /\ AudioTimes(a)
              /\ AudioPairs(a)
            BY <1>5, <3>1, <3>4, Zenon DEF QuietInv
        <4>2. CASE encoder'[a].begun # 0
            BY <4>2, Zenon DEF AudioSince
        <4>3. CASE encoder'[a].begun = 0
          <5>1. encoder[a].begun = 0
              BY <1>8, <4>1, <4>3, Zenon DEF Fed
          <5>2. /\ \A p \in Outputs : stage[p].at # "idle" /\ a \in Uses(p) => p = o
                /\ encoder[a].active
              BY <2>2, <4>1, <5>1, NotBegun
          <5>3. /\ encoder[a].first_received /\ Took(encoder'[a], encoder[a], at)
                /\ encoder[a].start_ts = 0 /\ encoder[a].paired_encoder # NONE =>
                      encoder'[a].start_ts =
                         IF Early(a) THEN 0
                         ELSE encoder[encoder[a].paired_encoder].start_ts
              BY <1>6, <3>4, <5>2, Zenon
          <5>4. /\ encoder[a].start_ts = 0 => encoder[a].first_raw_ts <= since
                /\ encoder[a].start_ts <= since + MaxSkew + FramePeriod
              BY <4>1, <5>1, <5>3, Zenon DEF AudioSince
          <5>5. encoder'[a].start_ts <= since + MaxSkew + FramePeriod
            <6>1. CASE encoder[a].start_ts # 0
                BY <1>8, <4>1, <5>4, <6>1, Zenon
            <6>2. CASE encoder[a].start_ts = 0
              <7>1. PICK v : v = encoder[a].paired_encoder
                  OBVIOUS
              <7>2. v # NONE
                  BY <4>3, <5>3, <6>2, <7>1, Zenon DEF Took
              <7>3. v \in VideoEncoders
                <8>1. encoder[a].paired_encoder \in VideoEncoders \cup {NONE}
                    BY <4>1, Zenon DEF AudioTimes
                <8>2. QED
                    BY <7>1, <7>2, <8>1
              <7>4. PICK p \in Outputs :
                        stage[p].at # "idle" /\ {v, a} \subseteq Uses(p)
                  BY <4>1, <6>2, <7>1, <7>2, Zenon DEF AudioPairs
              <7>5. v \in Uses(o)
                  BY <5>2, <7>4
              <7>6. encoder[v].start_ts <= since + MaxSkew + FramePeriod
                <8>1. VideoSince(v, since)
                    BY <3>1, <7>3, <7>5
                <8>2. QED
                    BY <8>1, Zenon DEF VideoSince
              <7>7. 0 <= since + MaxSkew + FramePeriod
                  BY <3>2, PairingNumbers
              <7> HIDE DEF Early
              <7>8. QED
                  BY <5>3, <6>2, <7>1, <7>2, <7>6, <7>7, Zenon
            <6>3. QED
                BY <6>1, <6>2
          <5>6. encoder'[a].first_received /\ encoder'[a].start_ts = 0 =>
                    encoder'[a].first_raw_ts <= since
              BY <1>8, <4>1, <5>4, Zenon
          <5>7. encoder'[a].first_received
              BY <1>8, <4>1, <5>3, Zenon
          <5>8. QED
              BY <5>5, <5>6, <5>7, Zenon DEF AudioSince
        <4>4. QED
            BY <4>2, <4>3
      <3>5. QED
          BY <3>3, <3>4
    <2>3. QED
        BY <1>9, <2>1, <2>2, SinceSteps
  <1>15. QED
      BY <1>9, <1>10, <1>11, <1>12, <1>13, <1>14, QuietWhole

-----------------------------------------------------------------------------
(* Encoders that outputs share: the theorems                                *)

\* At first no encoder has data and both threads wait.
LEMMA PairingStarts == PairingInit => PairingInv
  <1> SUFFICES ASSUME PairingInit PROVE PairingInv
      OBVIOUS
  <1>1. /\ sharing \in Sharings /\ mishap \in Mishaps
        /\ starts_left \in 1 .. MaxOutputStarts
        /\ \A e \in Encs : encoder[e] = NewEncoder /\ init_mutex[e] = NONE
        /\ encoder = [e \in Encs |-> NewEncoder]
        /\ init_mutex = [e \in Encs |-> NONE]
        /\ media_time = [m \in {"video", "audio"} |-> BlockPeriod]
        /\ media_at = [m \in {"video", "audio"} |-> "idle"]
        /\ stage = [o \in Outputs |-> Resting]
      BY Zenon DEF PairingInit
  <1>2. /\ Resting \in Stages /\ Resting.at = "idle"
        /\ NewEncoder \in EncoderType
        /\ BlockPeriod \in Nat /\ BlockPeriod # 0 /\ 0 <= BlockPeriod
        /\ <<0, 0>>[1] <= <<0, 0>>[2] /\ <<0, 0>>[2] <= BlockPeriod
    <2>1. <<>> \in Seq(Encs)
        OBVIOUS
    <2>2. Resting \in Stages /\ Resting.at = "idle"
        BY <2>1 DEF Resting, Stages
    <2>3. NewEncoder \in EncoderType
        BY DEF NewEncoder, EncoderType
    <2>4. QED
        BY <2>2, <2>3, PairingNumbers
  <1>3. /\ NewEncoder.initialized = FALSE /\ NewEncoder.data = FALSE
        /\ NewEncoder.active = FALSE /\ NewEncoder.callbacks = {}
        /\ NewEncoder.paired_encoder = NONE /\ NewEncoder.first_received = FALSE
        /\ NewEncoder.start_ts = 0 /\ NewEncoder.input = <<0, 0>>
        /\ NewEncoder.begun = 0
      BY DEF NewEncoder
  <1>4. /\ media_time["video"] = BlockPeriod /\ media_time["audio"] = BlockPeriod
        /\ media_at["video"] = "idle" /\ media_at["audio"] = "idle"
        /\ \A o \in Outputs : stage[o] = Resting /\ stage[o].at = "idle"
      BY <1>1, <1>2
  <1>5. PairingTypeOK
    <2>1. encoder \in [Encs -> EncoderType]
        BY <1>1, <1>2, Zenon
    <2>2. init_mutex \in [Encs -> Outputs \cup {NONE}]
        BY <1>1
    <2>3. media_time \in [{"video", "audio"} -> Nat]
          /\ media_at \in [{"video", "audio"} -> {"idle", "buffer"} \cup Encs]
        BY <1>1, <1>2
    <2>4. stage \in [Outputs -> Stages]
        BY <1>1, <1>2, Zenon
    <2>5. starts_left \in 0 .. MaxOutputStarts
      <3>1. MaxOutputStarts \in Nat
          BY EncoderPairingAssumption
      <3>2. QED
          BY <1>1, <3>1
    <2>6. sharing \in [Outputs -> [video : VideoEncoders,
                                   audio : Seq(AudioEncoders)]]
        BY <1>1, EncoderPairingAssumption
    <2>7. QED
        BY <1>1, <2>1, <2>2, <2>3, <2>4, <2>5, <2>6, Zenon
           DEF PairingTypeOK, Stages
  <1>6. HasNext
      BY <1>4 DEF HasNext, Stopping
  <1>7. ASSUME NEW e \in Encs PROVE Sampled(e)
    <2>1. encoder[e] = NewEncoder
        BY <1>1
    <2>2. QED
        BY <1>2, <1>3, <1>4, <2>1, Zenon DEF Sampled
  <1>8. QuietInv
    <2>1. VideoEncoders \subseteq Encs /\ AudioEncoders \subseteq Encs
        BY DEF Encs
    <2>2. OneMoves /\ HaveData /\ \A o \in Outputs : BeginsSince(o)
        BY <1>4 DEF OneMoves, HaveData, BeginsSince, Settled, Starting
    <2>3. ClockRuns
      <3>1. /\ BlockPeriod <= BlockPeriod + MaxSkew + FramePeriod
            /\ BlockPeriod <= BlockPeriod + MaxSkew + BlockPeriod
          BY PairingNumbers
      <3>2. "idle" \in {"idle", "buffer"} /\ "idle" # "buffer"
          OBVIOUS
      <3>3. QED
          BY <1>2, <1>4, <3>1, <3>2, Zenon DEF ClockRuns
    <2>4. \A e \in Encs : Lives(e) /\ Wanted(e)
        BY <1>1, <1>3, Zenon DEF Lives, Wanted
    <2>5. ASSUME NEW o \in Outputs, NEW e \in Encs PROVE CallbackOn(o, e)
      <3>1. stage[o].at \notin {"hook", "capturing"} /\ stage[o].at # "disconnect"
          BY <1>4
      <3>2. o \notin encoder[e].callbacks
          BY <1>1, <1>3
      <3>3. QED
          BY <3>1, <3>2, Zenon DEF CallbackOn
    <2>6. ASSUME NEW v \in VideoEncoders PROVE VideoTimes(v) /\ VideoPairs(v)
      <3>1. encoder[v] = NewEncoder
          BY <1>1, <2>1
      <3>2. NONE \in AudioEncoders \cup {NONE}
          OBVIOUS
      <3>3. QED
          BY <1>2, <1>3, <1>4, <3>1, <3>2, Zenon DEF VideoTimes, VideoPairs
    <2>7. ASSUME NEW a \in AudioEncoders PROVE AudioTimes(a) /\ AudioPairs(a)
      <3>1. encoder[a] = NewEncoder
          BY <1>1, <2>1
      <3>2. NONE \in VideoEncoders \cup {NONE} /\ "idle" # "buffer"
          OBVIOUS
      <3>3. QED
          BY <1>2, <1>3, <1>4, <3>1, <3>2, Zenon DEF AudioTimes, AudioPairs
    <2>8. QED
        BY <2>2, <2>3, <2>4, <2>5, <2>6, <2>7 DEF QuietInv
  <1>9. QED
      BY <1>5, <1>6, <1>7, <1>8 DEF PairingInv

\* Nothing changes: everything holds on.
LEMMA PairingStutters ==
  ASSUME PairingInv, UNCHANGED pairingVars
  PROVE  PairingInv'
  <1>1. /\ sharing' = sharing /\ mishap' = mishap /\ encoder' = encoder
        /\ init_mutex' = init_mutex /\ media_time' = media_time
        /\ media_at' = media_at /\ stage' = stage /\ starts_left' = starts_left
      BY Zenon DEF pairingVars
  <1>2. PairingTypeOK'
      BY <1>1, Zenon DEF PairingInv, PairingTypeOK
  <1>3. /\ \A p \in Outputs : Uses(p)' = Uses(p) /\ Ahead(p)' = Ahead(p)
        /\ \A p \in Outputs : Settled(p)' <=> Settled(p)
    <2>1. \A p \in Outputs : Uses(p)' = Uses(p) /\ Ahead(p)' = Ahead(p)
        BY <1>1, SameUses, Zenon DEF Ahead
    <2>2. \A p \in Outputs : Begun(p)' <=> Begun(p)
        BY <1>1, <2>1, Zenon DEF Begun
    <2>3. QED
        BY <1>1, <2>1, <2>2, Zenon DEF Settled
  <1>4. HasNext'
      BY <1>1, <1>3, Zenon DEF PairingInv, HasNext
  <1>5. \A e \in Encs : Sampled(e)'
      BY <1>1, Zenon DEF PairingInv, Sampled, Collects
  <1>6. mishap = "none" => QuietInv'
    <2> SUFFICES ASSUME QuietInv PROVE QuietInv'
        BY DEF PairingInv
    <2>2. Filmed /\ \A x \in Encs : Fed(encoder'[x], encoder[x])
        BY <1>1, Zenon DEF Filmed, Fed, SameEncoder
    <2>3. /\ OneMoves' /\ HaveData'
          /\ \A x \in Encs : Lives(x)' /\ Wanted(x)'
          /\ \A p \in Outputs, x \in Encs : CallbackOn(p, x)'
          /\ \A x, y \in Encs : Widowed(x, y) => Widowed(x, y)'
        BY <2>2, ThreadsLeave DEF PairingInv
    <2>4. ClockRuns'
        BY <1>1, Zenon DEF QuietInv, ClockRuns
    <2>5. \A x, y : Widowed(x, y) => Widowed(x, y)'
        BY <1>1, <1>3, Zenon DEF Widowed, Stopping
    <2>6. ASSUME NEW v \in VideoEncoders PROVE VideoTimes(v)' /\ VideoPairs(v)'
      <3>1. VideoTimes(v) /\ VideoPairs(v)
          BY Zenon DEF QuietInv
      <3>2. VideoTimes(v)'
          BY <1>1, <3>1, Zenon DEF VideoTimes
      <3>3. VideoPairs(v)'
          BY <1>1, <1>3, <3>1, Zenon DEF VideoPairs, Widowed, Stopping
      <3>4. QED
          BY <3>2, <3>3
    <2>7. ASSUME NEW a \in AudioEncoders PROVE AudioTimes(a)' /\ AudioPairs(a)'
      <3>1. AudioTimes(a) /\ AudioPairs(a)
          BY Zenon DEF QuietInv
      <3>2. AudioTimes(a)'
          BY <1>1, <3>1, Zenon DEF AudioTimes, Underway, WaitsWith
      <3>3. AudioPairs(a)'
          BY <1>1, <1>3, <3>1, Zenon DEF AudioPairs, Widowed, Stopping
      <3>4. QED
          BY <3>2, <3>3
    <2>8. \A o \in Outputs : BeginsSince(o)'
      <3>1. ASSUME NEW o \in Outputs PROVE BeginsSince(o)'
        <4>1. \A x, since : /\ VideoSince(x, since) => VideoSince(x, since)'
                            /\ AudioSince(x, since) => AudioSince(x, since)'
            BY <1>1, Zenon DEF VideoSince, AudioSince
        <4>2. BeginsSince(o) /\ stage'[o] = stage[o] /\ Uses(o)' = Uses(o)
            BY <1>1, <1>3, Zenon DEF QuietInv
        <4>3. QED
            BY <4>1, <4>2, SinceKept
      <3>2. QED
          BY <3>1
    <2>9. QED
        BY <2>3, <2>4, <2>6, <2>7, <2>8, QuietWhole
  <1>7. QED
      BY <1>1, <1>2, <1>4, <1>5, <1>6 DEF PairingInv

\* A step of an output keeps what holds while nothing goes wrong.
LEMMA OutputQuiet ==
  ASSUME PairingTypeOK, HasNext, QuietInv, mishap = "none",
         NEW o \in Outputs, OutputStep(o)
  PROVE  QuietInv'
  <1>1. CASE InitializeEncoders(o)
      BY <1>1, InitializeQuiet
  <1>2. CASE PairEncoders(o)
      BY <1>2, PairQuiet
  <1>3. CASE Connected(o)
    <2>1. /\ Quiet(o) /\ encoder' = encoder
          /\ stage[o].at = "connect" /\ stage'[o].at = "hook"
          /\ Elems(stage'[o].with) = Uses(o)
        BY <1>3, ConnectedMoves
    <2>2. \A p \in Outputs : p # o => Settled(p)
      <3>1. ~Settled(o)
          BY <2>1 DEF Settled
      <3>2. QED
          BY <3>1, OthersSettled DEF QuietInv
    <2>3. QED
        BY <2>1, <2>2, StageStep
  <1>4. CASE StartEncoder(o)
      BY <1>4, StartQuiet
  <1>5. CASE EndCapturing(o)
    <2>1. /\ Quiet(o) /\ encoder' = encoder /\ Undisturbed(o)
          /\ stage[o].at = "capturing" /\ stage'[o].at = "lock"
          /\ Elems(stage'[o].with) = Uses(o)
        BY <1>5, EndMoves
    <2>2. \A p \in Outputs : p # o => Settled(p)
        BY <2>1, UndisturbedSettled
    <2>3. QED
        BY <2>1, <2>2, StageStep
  <1>6. CASE LockInit(o)
    <2>1. /\ Quiet(o) /\ encoder' = encoder
          /\ stage[o].at = "lock" /\ stage'[o].at = "erase"
          /\ stage'[o].with = stage[o].with
        BY <1>6, LockMoves
    <2>2. \A p \in Outputs : p # o => Settled(p)
      <3>1. ~Settled(o)
          BY <2>1 DEF Settled
      <3>2. QED
          BY <3>1, OthersSettled DEF QuietInv
    <2>3. QED
        BY <2>1, <2>2, StageStep
  <1>7. CASE EraseCallback(o)
      BY <1>7, EraseQuiet
  <1>8. CASE DisconnectEncoder(o)
      BY <1>8, DisconnectQuiet
  <1>9. QED
      BY <1>1, <1>2, <1>3, <1>4, <1>5, <1>6, <1>7, <1>8 DEF OutputStep

\* Every step keeps the invariant.
LEMMA PairingSteps ==
  ASSUME PairingInv, PairingNext
  PROVE  PairingInv'
  <1>1. /\ PairingTypeOK /\ HasNext /\ \A x \in Encs : Sampled(x)
        /\ mishap = "none" => QuietInv
      BY DEF PairingInv
  <1>2. CASE \E o \in Outputs : OutputStep(o)
    <2>1. PICK o \in Outputs : OutputStep(o)
        BY <1>2
    <2>2. PairingTypeOK' /\ HasNext' /\ mishap' = mishap
          /\ \A x \in Encs : Sampled(x)'
        BY <1>1, <2>1, OutputSampled
    <2>3. mishap = "none" => QuietInv'
        BY <1>1, <2>1, OutputQuiet
    <2>4. QED
        BY <2>2, <2>3 DEF PairingInv
  <1>3. CASE ConnectionFails
      BY <1>1, <1>3, FailMoves DEF PairingInv
  <1>4. CASE VideoFrame
    <2>1. PairingTypeOK' /\ HasNext' /\ mishap' = mishap
          /\ \A x \in Encs : Sampled(x)'
        BY <1>1, <1>4, VideoMoves DEF Filmed
    <2>2. mishap = "none" => QuietInv'
        BY <1>1, <1>4, VideoQuiet
    <2>3. QED
        BY <2>1, <2>2 DEF PairingInv
  <1>5. CASE AudioArrives
    <2>1. PairingTypeOK' /\ HasNext' /\ mishap' = mishap
          /\ \A x \in Encs : Sampled(x)'
        BY <1>1, <1>5, AudioMoves DEF Filmed
    <2>2. mishap = "none" => QuietInv'
        BY <1>1, <1>5, AudioQuiet
    <2>3. QED
        BY <2>1, <2>2 DEF PairingInv
  <1>6. CASE BufferAudio
    <2>1. PairingTypeOK' /\ HasNext' /\ mishap' = mishap
          /\ \A x \in Encs : Sampled(x)'
        BY <1>1, <1>6, BufferMoves DEF Filmed
    <2>2. mishap = "none" => QuietInv'
        BY <1>1, <1>6, BufferQuiet
    <2>3. QED
        BY <2>1, <2>2 DEF PairingInv
  <1>7. CASE \E e \in Encs : EncodeFails(e)
    <2>1. PICK e \in Encs : EncodeFails(e)
        BY <1>7
    <2>2. QED
        BY <1>1, <2>1, ErrorMoves DEF PairingInv
  <1>8. CASE \E e \in Encs : FullStop(e)
    <2>1. PICK e \in Encs : FullStop(e)
        BY <1>8
    <2>2. /\ PairingTypeOK' /\ HasNext' /\ mishap' = mishap
          /\ media_at[Medium(e)] = e /\ \A x \in Encs : Sampled(x)'
        BY <1>1, <2>1, StopMoves
    <2>3. mishap # "none"
      <3>1. SUFFICES ASSUME QuietInv PROVE FALSE
          BY <1>1
      <3>2. media_at[Medium(e)] \in {"idle", "buffer"}
          BY <3>1 DEF QuietInv, ClockRuns, Medium
      <3>3. e \notin {"idle", "buffer"}
          BY EncoderPairingAssumption DEF Encs
      <3>4. QED
          BY <2>2, <3>2, <3>3, Zenon
    <2>4. QED
        BY <2>2, <2>3 DEF PairingInv
  <1>9. QED
      BY <1>2, <1>3, <1>4, <1>5, <1>6, <1>7, <1>8 DEF PairingNext

\* The invariant: what each encoder has and who wants it; the pairs; the samples;
\* how late the encoders of an output that captures begin.
THEOREM PairingInvariant == PairingSpec => []PairingInv
  <1>1. PairingInit => PairingInv
      BY PairingStarts
  <1>2. PairingInv /\ [PairingNext]_pairingVars => PairingInv'
      BY PairingSteps, PairingStutters
  <1>3. QED
      BY <1>1, <1>2, PTL DEF PairingSpec

\* The state of the encoders, of the threads and of the outputs has its type,
\* whatever goes wrong.
THEOREM PairingIsTyped == PairingSpec => []PairingTypeOK
  <1>1. PairingInv => PairingTypeOK
      BY DEF PairingInv
  <1>2. QED
      BY <1>1, PairingInvariant, PTL

\* "we use system time here to ensure sync with other encoders" (obs-encoder.c,
\* line 808): what an encoder's packets count their time from is the time of what
\* it encoded first, and its samples are an interval, while nothing goes wrong.
THEOREM PacketsAreInTime == PairingSpec => []PacketsCarryTheirTime
  <1>1. PairingInv => PacketsCarryTheirTime
    <2> SUFFICES ASSUME PairingInv, mishap = "none", NEW e \in Encs
                 PROVE  /\ encoder[e].begun # 0 =>
                              encoder[e].start_ts = encoder[e].begun
                        /\ encoder[e].input[1] <= encoder[e].input[2]
        BY Zenon DEF PacketsCarryTheirTime
    <2>1. QuietInv
        BY DEF PairingInv
    <2>2. CASE e \in VideoEncoders
        BY <2>1, <2>2, Zenon DEF QuietInv, VideoTimes
    <2>3. CASE e \in AudioEncoders
        BY <2>1, <2>3, Zenon DEF QuietInv, AudioTimes, Underway
    <2>4. QED
        BY <2>2, <2>3 DEF Encs
  <1>2. QED
      BY <1>1, PairingInvariant, PTL

\* "Begins data capture from media/encoders" (obs.h:1602): every encoder of an
\* output that captures has its callback; and once both threads have made as much
\* as Patience says, it has begun, while nothing goes wrong.
THEOREM CapturedIsEncodedSoon == PairingSpec => []QuietCapturedIsEncoded
  <1>1. PairingInv => QuietCapturedIsEncoded
    <2> SUFFICES ASSUME PairingInv, mishap = "none",
                        NEW o \in Outputs, stage[o].at = "capturing",
                        NEW e \in Uses(o)
                 PROVE  /\ o \in encoder[e].callbacks
                        /\ (\A m \in {"video", "audio"} :
                               media_time[m] >= stage[o].since + Patience)
                           => encoder[e].begun # 0
        BY Zenon DEF QuietCapturedIsEncoded, CapturedIsEncoded
    <2>1. QuietInv /\ PairingTypeOK
        BY DEF PairingInv
    <2>2. e \in Encs
        BY <2>1, UsesTyped
    <2>3. o \in encoder[e].callbacks
      <3>1. CallbackOn(o, e)
          BY <2>1, <2>2, Zenon DEF QuietInv
      <3>2. stage[o].at \in {"hook", "capturing"} /\ stage[o].at # "hook"
          OBVIOUS
      <3>3. QED
          BY <3>1, <3>2, Zenon DEF CallbackOn
    <2>4. ASSUME \A m \in {"video", "audio"} :
                     media_time[m] >= stage[o].since + Patience,
                 encoder[e].begun = 0
          PROVE  FALSE
      <3>1. PICK since \in Nat : since = stage[o].since
        <4>1. stage[o] \in Stages
            BY <2>1, TypeParts
        <4>2. stage[o].since \in Nat
            BY <4>1 DEF Stages
        <4>3. QED
            BY <4>2
      <3>2. PICK vt \in Nat, at \in Nat :
                vt = media_time["video"] /\ at = media_time["audio"]
          BY <2>1, TypeParts
      <3>3. /\ vt >= since + ((MaxSkew + FramePeriod) + (MaxSkew + BlockPeriod) + 1)
            /\ at >= since + ((MaxSkew + FramePeriod) + (MaxSkew + BlockPeriod) + 1)
          BY <2>4, <3>1, <3>2 DEF Patience
      <3>4. /\ e \in VideoEncoders => VideoSince(e, since)
            /\ e \in AudioEncoders => AudioSince(e, since)
          BY <2>1, <3>1, SinceParts
      <3>5. CASE e \in VideoEncoders
        <4>1. vt <= since + MaxSkew + FramePeriod
            BY <2>4, <3>2, <3>4, <3>5, Zenon DEF VideoSince
        <4>2. QED
            BY <3>3, <4>1, PairingNumbers
      <3>6. CASE e \in AudioEncoders
        <4>1. /\ encoder[e].active /\ \A y : ~Widowed(e, y)
              /\ \A p \in Outputs : stage[p].at # "idle" /\ e \in Uses(p) => p = o
            BY <2>1, <2>2, <2>4, NotBegun
        <4>2. AudioTimes(e) /\ AudioPairs(e)
            BY <2>1, <3>6, Zenon DEF QuietInv
        <4>3. /\ ~encoder[e].first_received => at <= since
              /\ encoder[e].start_ts <= since + MaxSkew + FramePeriod
            BY <2>4, <3>2, <3>4, <3>6, Zenon DEF AudioSince
        <4>4. encoder[e].first_received
            BY <3>3, <4>3, PairingNumbers
        <4>5. encoder[e].start_ts \in Nat
            BY <2>1, <2>2, EncoderNumbers
        <4>6. CASE encoder[e].start_ts # 0
          <5>1. at < encoder[e].start_ts + BlockPeriod
              BY <2>4, <3>2, <4>2, <4>6, Zenon DEF AudioTimes
          <5>2. QED
              BY <3>3, <4>3, <4>5, <5>1, PairingNumbers
        <4>7. CASE encoder[e].start_ts = 0
          <5>1. PICK v : v = encoder[e].paired_encoder
              OBVIOUS
          <5>2. WaitsWith(encoder[e], at) /\ encoder[e].first_raw_ts <= since
                /\ v \in VideoEncoders \cup {NONE}
            <6>1. AudioSince(e, since)
                BY <3>4, <3>6
            <6>2. encoder[e].first_raw_ts <= since
                BY <2>4, <4>4, <4>7, <6>1, Zenon DEF AudioSince
            <6>3. QED
                BY <3>2, <4>2, <4>4, <4>7, <5>1, <6>2, Zenon DEF AudioTimes
          <5>3. v # NONE
            <6>1. v = NONE => encoder[e].first_raw_ts = at
                BY <5>1, <5>2, Zenon DEF WaitsWith
            <6>2. QED
                BY <3>3, <5>2, <6>1, PairingNumbers
          <5>4. v \in VideoEncoders
              BY <5>2, <5>3
          <5>5. PICK p \in Outputs : stage[p].at # "idle" /\ {v, e} \subseteq Uses(p)
              BY <4>2, <4>7, <5>1, <5>3, Zenon DEF AudioPairs
          <5>6. v \in Uses(o)
              BY <4>1, <5>5
          <5>7. /\ encoder[v].start_ts <= since + MaxSkew + FramePeriod
                /\ encoder[v].begun = 0 => vt <= since + MaxSkew + FramePeriod
            <6>1. VideoSince(v, since)
                BY <2>1, <3>1, <5>4, <5>6, SinceParts
            <6>2. QED
                BY <3>2, <6>1, Zenon DEF VideoSince
          <5>8. encoder[v].begun # 0
              BY <3>3, <5>7, PairingNumbers
          <5>9. encoder[v].start_ts # 0 /\ encoder[v].start_ts \in Nat
            <6>1. VideoTimes(v)
                BY <2>1, <5>4, Zenon DEF QuietInv
            <6>2. encoder[v].start_ts # 0
                BY <5>8, <6>1, Zenon DEF VideoTimes
            <6>3. v \in Encs
                BY <5>4 DEF Encs
            <6>4. QED
                BY <2>1, <6>2, <6>3, EncoderNumbers
          <5>10. at <= encoder[v].start_ts + MaxSkew + BlockPeriod
              BY <3>2, <4>2, <4>7, <5>1, <5>3, <5>9, Zenon DEF AudioPairs
          <5>11. QED
              BY <3>3, <5>7, <5>9, <5>10, PairingNumbers
        <4>8. QED
            BY <4>6, <4>7
      <3>7. QED
          BY <2>2, <3>5, <3>6 DEF Encs
    <2>5. QED
        BY <2>3, <2>4
  <1>2. QED
      BY <1>1, PairingInvariant, PTL

=============================================================================
