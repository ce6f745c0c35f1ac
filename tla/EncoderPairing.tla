---------------------------- MODULE EncoderPairing ----------------------------
(***************************************************************************)
(* Encoders that outputs share: libobs/obs-encoder.c and what an output    *)
(* (libobs/obs-output.c) does with its encoders, from initializing and     *)
(* pairing them before it connects to taking its callbacks off them.  The  *)
(* video thread and the audio thread feed the encoders; a video encoder    *)
(* waits for the audio it is paired with, and the audio begins where the   *)
(* video does.  The samples an audio encoder holds are an interval of time.*)
(* Not modelled: destroying an encoder, an encoder that cannot be created  *)
(* or that takes frames and gives no packet yet, and what a start has to   *)
(* wait for: it takes the two mutexes it needs at once.                    *)
(* An operator whose comment says it is faulty is used by no action.       *)
(***************************************************************************)
EXTENDS Naturals, Sequences, FiniteSetsExt

CONSTANTS
    VideoEncoders, AudioEncoders,
    Sharings,      \* who may use which encoders: the sets `sharing' may be
    FramePeriod, BlockPeriod,    \* a video frame, a block of audio
    MaxSkew,       \* assumption: how far the two threads are apart
    MaxTime,       \* bound: the time up to which media is made
    MaxOutputStarts,    \* bound: the most starts of outputs
    Mishaps        \* what may go wrong: the values `mishap' may have

Outputs == {"stream", "recording"}
NONE == "none"

(* "none": an output starts or stops only while the other one is at rest,  *)
(* or captures and its encoders have begun;                                *)
(* "meanwhile": at any time;                                               *)
(* "failed": the connection fails after the encoders were initialized;     *)
(* "error": an encoder fails to encode.                                    *)
ASSUME EncoderPairingAssumption ==
    /\ {FramePeriod, BlockPeriod, MaxSkew} \subseteq Nat \ {0}
    /\ {MaxTime, MaxOutputStarts} \subseteq Nat
    /\ VideoEncoders \cap AudioEncoders = {}
    /\ {NONE, "idle", "buffer"} \cap (VideoEncoders \cup AudioEncoders) = {}
    /\ Sharings \subseteq [Outputs -> [video : VideoEncoders,
                                      audio : Seq(AudioEncoders)]]
    /\ Mishaps \subseteq {"none", "meanwhile", "failed", "error"}

VARIABLES
    sharing,       \* the encoders of each output
    mishap,        \* what may go wrong in this behaviour
    encoder,       \* struct obs_encoder
    init_mutex,    \* of each encoder: the output whose stop holds it, or NONE
    media_time,    \* the time stamp of the next frame and the next block
    media_at,      \* where the two threads are
    stage,         \* what each output does, and with which encoders still
    starts_left    \* bound: how often an output may still start

pairingVars == <<sharing, mishap, encoder, init_mutex, media_time, media_at,
                 stage, starts_left>>
clockVars == <<media_time, media_at>>
planVars == <<sharing, mishap>>

Larger(a, b) == IF a > b THEN a ELSE b

Encs == VideoEncoders \cup AudioEncoders
Medium(e) == IF e \in VideoEncoders THEN "video" ELSE "audio"

\* audio_input_buffer holds the samples from input[1] up to input[2].
NewEncoder ==
    [initialized |-> FALSE, data |-> FALSE, active |-> FALSE, callbacks |-> {},
     paired_encoder |-> NONE, first_received |-> FALSE, first_raw_ts |-> 0,
     start_ts |-> 0, input |-> <<0, 0>>,
     begun |-> 0]    \* history: the time of what was encoded first

Resting == [at |-> "idle", with |-> <<>>, since |-> 0]

PairingInit ==
    /\ sharing \in Sharings /\ mishap \in Mishaps
    /\ encoder = [e \in Encs |-> NewEncoder]
    /\ init_mutex = [e \in Encs |-> NONE]
    /\ media_time = [m \in {"video", "audio"} |-> BlockPeriod]
    /\ media_at = [m \in {"video", "audio"} |-> "idle"]
    /\ stage = [o \in Outputs |-> Resting]
    /\ starts_left \in 1..MaxOutputStarts

EncodersOf(o) == sharing[o].audio \o <<sharing[o].video>>
Uses(o) == {EncodersOf(o)[i] : i \in DOMAIN EncodersOf(o)}
Begun(o) == \A e \in Uses(o) : encoder[e].begun # 0

\* The other output does not start, stop or wait for its first packets.
Undisturbed(o) ==
    mishap = "meanwhile" \/
    \A p \in Outputs \ {o} :
        stage[p].at = "idle" \/ (stage[p].at = "capturing" /\ Begun(p))

-----------------------------------------------------------------------------
(* Operations of obs-encoder.c                                             *)

\* obs_encoder_shutdown; the encoder that this one is paired with keeps its
\* pointer.
ShutdownEncoder(r) ==
    IF r.data THEN [r EXCEPT !.data = FALSE, !.paired_encoder = NONE,
                             !.first_received = FALSE, !.start_ts = 0,
                             !.begun = 0]
    ELSE r

\* obs_encoder_initialize_internal
InitializedEncoder(r) ==
    IF r.active \/ r.initialized THEN r
    ELSE [ShutdownEncoder(r) EXCEPT !.data = TRUE, !.initialized = TRUE,
                                    !.input = <<0, 0>>]

\* obs_encoder_start_internal: nothing is done for an encoder without data.
StartedEncoder(r, o) ==
    IF ~r.data THEN r
    ELSE [r EXCEPT !.callbacks = @ \cup {o},
                   !.active = @ \/ r.callbacks = {}]

-----------------------------------------------------------------------------
(* An output that starts                                                   *)

\* obs_output_initialize_encoders; an output that is active does not call it.
InitializeEncoders(o) ==
    /\ stage[o].at = "idle" /\ Undisturbed(o)
    /\ starts_left > 0 /\ starts_left' = starts_left - 1
    /\ \A e \in Uses(o) : init_mutex[e] = NONE
    /\ encoder' = [e \in Encs |-> IF e \in Uses(o)
                                  THEN InitializedEncoder(encoder[e])
                                  ELSE encoder[e]]
    /\ stage' = [stage EXCEPT ![o].at = "pair"]
    /\ UNCHANGED <<planVars, init_mutex, clockVars>>

\* find_inactive_audio_encoder: the tracks it may take the first one of
InactiveAudio(o) ==
    {i \in DOMAIN sharing[o].audio :
        LET a == encoder[sharing[o].audio[i]]
        IN  ~a.active /\ a.paired_encoder = NONE}

\* pair_encoders
PairEncoders(o) ==
    /\ stage[o].at = "pair" /\ stage' = [stage EXCEPT ![o].at = "connect"]
    /\ LET v == sharing[o].video
           a == sharing[o].audio[Min(InactiveAudio(o))]
       IN  IF InactiveAudio(o) = {} \/ encoder[v].active
                  \/ encoder[v].paired_encoder # NONE
           THEN UNCHANGED encoder
           ELSE /\ init_mutex[a] = NONE /\ init_mutex[v] = NONE
                /\ encoder' = [encoder EXCEPT ![v].paired_encoder = a,
                                              ![a].paired_encoder = v]
    /\ UNCHANGED <<planVars, init_mutex, clockVars, starts_left>>

\* A stream begins its capture when its connection stands, a file at once.
Connected(o) ==
    /\ stage[o].at = "connect"
    /\ stage' = [stage EXCEPT ![o].at = "hook", ![o].with = EncodersOf(o)]
    /\ UNCHANGED <<planVars, encoder, init_mutex, clockVars, starts_left>>

\* The stream ends; its encoders stay initialized and paired.
ConnectionFails ==
    /\ mishap = "failed" /\ stage["stream"].at = "connect"
    /\ stage' = [stage EXCEPT !["stream"] = Resting]
    /\ UNCHANGED <<planVars, encoder, init_mutex, clockVars, starts_left>>

Now == Max({media_time["video"], media_time["audio"]})

\* The stage after the output is done with the first of its encoders.
NextStage(o, at, finally) ==
    IF Len(stage[o].with) > 1
    THEN [stage EXCEPT ![o].at = at, ![o].with = Tail(@)]
    ELSE [stage EXCEPT ![o] = [at |-> finally, with |-> <<>>, since |-> Now]]

\* hook_data_capture with obs_encoder_start, one encoder after the other; it
\* waits for a callback that runs.
StartEncoder(o) ==
    /\ stage[o].at = "hook"
    /\ LET e == Head(stage[o].with)
       IN  /\ init_mutex[e] = NONE /\ media_at[Medium(e)] = "idle"
           /\ encoder' = [encoder EXCEPT ![e] = StartedEncoder(@, o)]
    /\ stage' = NextStage(o, "hook", "capturing")
    /\ UNCHANGED <<planVars, init_mutex, clockVars, starts_left>>

-----------------------------------------------------------------------------
(* An output that stops: end_data_capture_thread with obs_encoder_stop     *)

EndCapturing(o) ==
    /\ stage[o].at = "capturing" /\ Undisturbed(o)
    /\ stage' = [stage EXCEPT
                     ![o].at = "lock",
                     ![o].with = <<sharing[o].video>> \o sharing[o].audio]
    /\ UNCHANGED <<planVars, encoder, init_mutex, clockVars, starts_left>>

LockInit(o) ==
    /\ stage[o].at = "lock"
    /\ LET e == Head(stage[o].with)
       IN  init_mutex[e] = NONE /\ init_mutex' = [init_mutex EXCEPT ![e] = o]
    /\ stage' = [stage EXCEPT ![o].at = "erase"]
    /\ UNCHANGED <<planVars, encoder, clockVars, starts_left>>

\* obs_encoder_stop_internal under callbacks_mutex, which full_stop keeps.
EraseCallback(o) ==
    /\ stage[o].at = "erase"
    /\ LET e == Head(stage[o].with)
           last == encoder[e].callbacks = {o}
       IN  /\ media_at[Medium(e)] # e
           /\ encoder' = [encoder EXCEPT ![e].callbacks = @ \ {o}]
           /\ init_mutex' = IF last THEN init_mutex
                            ELSE [init_mutex EXCEPT ![e] = NONE]
           /\ stage' = IF last THEN [stage EXCEPT ![o].at = "disconnect"]
                       ELSE NextStage(o, "lock", "idle")
    /\ UNCHANGED <<planVars, clockVars, starts_left>>

\* Faulty: the encoder that was shut down counts as initialized.
DisconnectInitialized(o) ==
    /\ stage[o].at = "disconnect"
    /\ LET e == Head(stage[o].with)
       IN  /\ media_at[Medium(e)] = "idle"
           /\ encoder' = [encoder EXCEPT ![e] =
                              [ShutdownEncoder(@) EXCEPT !.active = FALSE]]
           /\ init_mutex' = [init_mutex EXCEPT ![e] = NONE]
    /\ stage' = NextStage(o, "lock", "idle")
    /\ UNCHANGED <<planVars, clockVars, starts_left>>

\* remove_connection, which waits for a callback that runs, and the end.
DisconnectEncoder(o) ==
    /\ stage[o].at = "disconnect"
    /\ LET e == Head(stage[o].with)
       IN  /\ media_at[Medium(e)] = "idle"
           /\ encoder' = [encoder EXCEPT ![e] =
                              [ShutdownEncoder(@) EXCEPT !.active = FALSE,
                                                         !.initialized = FALSE]]
           /\ init_mutex' = [init_mutex EXCEPT ![e] = NONE]
    /\ stage' = NextStage(o, "lock", "idle")
    /\ UNCHANGED <<planVars, clockVars, starts_left>>

-----------------------------------------------------------------------------
(* The video thread and the audio thread                                   *)

\* No thread is far behind the other.  What is made while no encoder is active
\* is left out: nobody takes it.
MayProceed(m, other) ==
    /\ media_at[m] = "idle" /\ media_time[m] < MaxTime
    /\ \E e \in Encs : encoder[e].active
    /\ media_time[m] <= media_time[other] + MaxSkew

\* receive_video of an encoder: a frame is not encoded while the audio that it
\* is paired with has not begun, or begins later.
ReceiveVideo(r, time) ==
    IF /\ ~r.first_received /\ r.paired_encoder # NONE
       /\ LET pair == encoder[r.paired_encoder]
          IN  ~pair.first_received \/ pair.first_raw_ts > time
    THEN r
    ELSE [r EXCEPT !.start_ts = IF @ = 0 THEN time ELSE @,
                   !.begun = IF @ = 0 THEN time ELSE @,
                   !.first_received = TRUE]

VideoFrame ==
    /\ MayProceed("video", "audio")
    /\ encoder' = [e \in Encs |->
           IF e \in VideoEncoders /\ encoder[e].active
           THEN ReceiveVideo(encoder[e], media_time["video"]) ELSE encoder[e]]
    /\ media_time' = [media_time EXCEPT !["video"] = @ + FramePeriod]
    /\ UNCHANGED <<planVars, init_mutex, media_at, stage, starts_left>>

\* receive_audio up to the test of the paired encoder's start.
AudioArrives ==
    /\ MayProceed("audio", "video")
    /\ media_at' = [media_at EXCEPT !["audio"] = "buffer"]
    /\ encoder' = [e \in Encs |->
           IF /\ e \in AudioEncoders /\ encoder[e].active
              /\ ~encoder[e].first_received
           THEN [encoder[e] EXCEPT !.first_raw_ts = media_time["audio"],
                                   !.first_received = TRUE,
                                   !.input = <<0, 0>>]
           ELSE encoder[e]]
    /\ UNCHANGED <<planVars, init_mutex, media_time, stage, starts_left>>

\* push_back_audio of the block's samples from a time on.
PushAudio(input, from, time) ==
    <<IF input[1] = input[2] THEN from ELSE input[1], time + BlockPeriod>>

\* The encoder takes whole blocks.
EncodeAudio(r) ==
    LET blocks == (r.input[2] - r.input[1]) \div BlockPeriod
    IN  [r EXCEPT !.input = <<@[1] + blocks * BlockPeriod, @[2]>>,
                  !.begun = IF @ = 0 /\ blocks > 0 THEN r.input[1] ELSE @]

\* Faulty: what was buffered before the video began is kept.
BufferedUncut(r, time) ==
    IF r.start_ts # 0
    THEN EncodeAudio([r EXCEPT !.input = PushAudio(@, time, time)])
    ELSE IF r.paired_encoder = NONE
    THEN EncodeAudio([r EXCEPT !.start_ts = time,
                               !.input = PushAudio(@, time, time)])
    ELSE LET v_start_ts == encoder[r.paired_encoder].start_ts
         IN  IF v_start_ts = 0 \/ time + BlockPeriod <= v_start_ts
             THEN [r EXCEPT !.input = PushAudio(@, time, time)]
             ELSE EncodeAudio([r EXCEPT !.start_ts = v_start_ts,
                                        !.input = PushAudio(@, time, time)])

\* buffer_audio: paired audio waits for the video to begin and is then cut off
\* where the video begins, what was buffered (start_from_buffer) or the block.
Buffered(r, time) ==
    IF r.start_ts # 0
    THEN EncodeAudio([r EXCEPT !.input = PushAudio(@, time, time)])
    ELSE IF r.paired_encoder = NONE
    THEN EncodeAudio([r EXCEPT !.start_ts = time,
                               !.input = PushAudio(@, time, time)])
    ELSE LET v_start_ts == encoder[r.paired_encoder].start_ts
             cut == IF time <= v_start_ts THEN <<0, 0>>
                    ELSE IF r.first_raw_ts < v_start_ts
                    THEN <<r.input[1] + (v_start_ts - r.first_raw_ts),
                           r.input[2]>>
                    ELSE r.input
         IN  IF v_start_ts = 0 \/ time + BlockPeriod <= v_start_ts
             THEN [r EXCEPT !.input = PushAudio(@, time, time)]
             ELSE EncodeAudio(
                    [r EXCEPT !.start_ts = v_start_ts,
                              !.input = PushAudio(cut, Larger(time, v_start_ts),
                                                  time)])

BufferAudio ==
    /\ media_at["audio"] = "buffer"
    /\ media_at' = [media_at EXCEPT !["audio"] = "idle"]
    /\ encoder' = [e \in Encs |->
           IF e \in AudioEncoders /\ encoder[e].active
           THEN Buffered(encoder[e], media_time["audio"]) ELSE encoder[e]]
    /\ media_time' = [media_time EXCEPT !["audio"] = @ + BlockPeriod]
    /\ UNCHANGED <<planVars, init_mutex, stage, starts_left>>

\* do_encode fails: full_stop begins.
EncodeFails(e) ==
    /\ mishap = "error" /\ encoder[e].active
    /\ media_at[Medium(e)] = "idle"
    /\ media_at' = [media_at EXCEPT ![Medium(e)] = e]
    /\ encoder' = [encoder EXCEPT ![e].callbacks = {}]
    /\ UNCHANGED <<planVars, init_mutex, media_time, stage, starts_left>>

\* full_stop, with callbacks_mutex, when it has init_mutex as well.  The encoder
\* still counts as initialized.
FullStop(e) ==
    /\ media_at[Medium(e)] = e /\ init_mutex[e] = NONE
    /\ media_at' = [media_at EXCEPT ![Medium(e)] = "idle"]
    /\ encoder' = [encoder EXCEPT ![e] =
                       [ShutdownEncoder(@) EXCEPT !.active = FALSE]]
    /\ UNCHANGED <<planVars, init_mutex, media_time, stage, starts_left>>

-----------------------------------------------------------------------------

OutputStep(o) ==
    \/ InitializeEncoders(o) \/ PairEncoders(o)
    \/ Connected(o) \/ StartEncoder(o) \/ EndCapturing(o)
    \/ LockInit(o) \/ EraseCallback(o) \/ DisconnectEncoder(o)

PairingNext ==
    \/ \E o \in Outputs : OutputStep(o)
    \/ ConnectionFails
    \/ VideoFrame \/ AudioArrives \/ BufferAudio
    \/ \E e \in Encs : EncodeFails(e) \/ FullStop(e)

PairingSpec == PairingInit /\ [][PairingNext]_pairingVars

-----------------------------------------------------------------------------
(* Properties                                                              *)

EncoderType ==
    [initialized : BOOLEAN, data : BOOLEAN, active : BOOLEAN,
     callbacks : SUBSET Outputs, paired_encoder : Encs \cup {NONE},
     first_received : BOOLEAN, first_raw_ts : Nat, start_ts : Nat,
     input : Nat \X Nat, begun : Nat]

PairingTypeOK ==
    /\ sharing \in [Outputs -> [video : VideoEncoders,
                                audio : Seq(AudioEncoders)]]
    /\ mishap \in Mishaps
    /\ encoder \in [Encs -> EncoderType]
    /\ init_mutex \in [Encs -> Outputs \cup {NONE}]
    /\ media_time \in [{"video", "audio"} -> Nat]
    /\ media_at \in [{"video", "audio"} -> {"idle", "buffer"} \cup Encs]
    /\ stage \in [Outputs -> [at : {"idle", "pair", "connect", "hook",
                                    "capturing", "lock", "erase", "disconnect"},
                              with : Seq(Encs), since : Nat]]
    /\ starts_left \in 0..MaxOutputStarts

\* "we use system time here to ensure sync with other encoders"
\* (obs-encoder.c:808): what an encoder's packets count their time from is the
\* time of what it encoded first, however the video and its audio begin, while
\* nothing goes wrong.
PacketsCarryTheirTime ==
    mishap = "none" =>
        \A e \in Encs :
            /\ encoder[e].begun # 0 => encoder[e].start_ts = encoder[e].begun
            /\ encoder[e].input[1] <= encoder[e].input[2]

\* Each thread has made this much before both encoders of a pair have begun: the
\* video may be ahead when the audio begins, and the audio when the video does.
Patience == (MaxSkew + FramePeriod) + (MaxSkew + BlockPeriod) + 1

\* "Begins data capture from media/encoders" (obs.h:1602): every encoder of an
\* output that captures has its callback, and encodes soon after.
CapturedIsEncoded ==
    \A o \in Outputs : stage[o].at = "capturing" =>
        \A e \in Uses(o) :
            /\ o \in encoder[e].callbacks
            /\ (\A m \in {"video", "audio"} :
                    media_time[m] >= stage[o].since + Patience)
               => encoder[e].begun # 0

\* The same while nothing goes wrong.
QuietCapturedIsEncoded == mishap = "none" => CapturedIsEncoded
=============================================================================
