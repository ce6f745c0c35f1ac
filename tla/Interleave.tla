------------------------------ MODULE Interleave ------------------------------
(***************************************************************************)
(* The packet interleaver of libobs/obs-output.c: the video encoder and the  *)
(* audio encoders of an output deliver packets from their own threads; the   *)
(* interleaver holds them back until every stream has begun, moves the       *)
(* streams to a common time zero and passes on one sequence of packets,      *)
(* ordered by time stamp, to the output's encoded_packet.                    *)
(*                                                                         *)
(* Each encoder counts dts in one time unit common to all streams, so that   *)
(* packet_dts_usec is the dts of a packet; before the start dts_usec is the  *)
(* system time that do_encode of obs-encoder.c puts into it instead.         *)
(***************************************************************************)
EXTENDS Integers, SequencesExt

CONSTANTS
    NumTracks,      \* num_audio_mixes
    VideoDuration,  \* the duration of a video frame
    AudioDuration,  \* the duration of an audio packet
    VideoStart,     \* system time of the first video packet
    Beginnings,     \* what `beginning' may be
    MaxVideo,       \* bound: video packets
    MaxAudio,       \* bound: audio packets per track
    MaxCaptures     \* bound: data captures begun

Video   == 0
Tracks  == 1 .. NumTracks
Sources == {Video} \cup Tracks

ASSUME InterleaveAssumption ==
    /\ NumTracks \in Nat \ {0}
    /\ VideoDuration \in Nat \ {0} /\ AudioDuration \in Nat \ {0}
    /\ VideoStart \in Nat
    /\ Beginnings \subseteq [audio : [Tracks -> Nat], reorder : Nat]
    /\ MaxVideo \in Nat /\ MaxAudio \in Nat /\ MaxCaptures \in Nat \ {0}

VARIABLES
    interleaved_packets, received_audio, received_video,
    video_offset, audio_offsets, highest_audio_ts, highest_video_ts,
    beginning,    \* audio: system time of the first packet of each track,
                  \* reorder: pts - dts of a keyframe (B-frames), in frames
    count,        \* packets each encoder has produced
    sent_first,   \* the encoder callback's sent_first_packet
    captures,     \* data captures begun
    out,          \* history: the packet last passed to encoded_packet
    first_out,    \* history: the first packet passed on of each source
    start_gap     \* history: how far each track began after the video

outputVars == <<interleaved_packets, received_audio, received_video,
                video_offset, audio_offsets, highest_audio_ts, highest_video_ts>>
historyVars == <<out, first_out, start_gap>>
interleaveVars == <<outputVars, beginning, count, sent_first, captures,
                    historyVars>>

NoPacket == [source |-> -1]

InterleaveInit ==
    /\ interleaved_packets = <<>>
    /\ received_audio = FALSE /\ received_video = FALSE
    /\ video_offset = 0 /\ audio_offsets = [t \in Tracks |-> 0]
    /\ highest_audio_ts = 0 /\ highest_video_ts = 0
    /\ beginning \in Beginnings
    /\ count = [s \in Sources |-> 0]
    /\ sent_first = FALSE /\ captures = 1
    /\ out = NoPacket /\ first_out = [s \in Sources |-> NoPacket]
    /\ start_gap = [t \in Tracks |-> 0]

-----------------------------------------------------------------------------
(* Operations on the buffer of packets                                      *)

FirstOf(buf, s) == SelectInSeq(buf, LAMBDA p : p.source = s)
LastOf(buf, s)  == SelectLastInSeq(buf, LAMBDA p : p.source = s)
Missing(buf)  == {s \in Sources : FirstOf(buf, s) = 0}

\* discard_to_idx
Discard(buf, n) == SubSeq(buf, n + 1, Len(buf))

\* insert_interleaved_packet: by dts_usec, video before audio.
Insert(buf, p) ==
    LET later(q) == \/ p.dts_usec < q.dts_usec
                    \/ p.dts_usec = q.dts_usec /\ p.source = Video
        at == SelectInSeq(buf, later)
    IN  InsertAt(buf, IF at = 0 THEN Len(buf) + 1 ELSE at, p)

\* apply_interleaved_packet_offset with the video offset v and track offsets a.
Shift(p, v, a) ==
    LET offset == IF p.source = Video THEN v ELSE a[p.source]
    IN  [p EXCEPT !.dts = @ - offset, !.pts = @ - offset,
                  !.dts_usec = p.dts - offset]

\* prune_premature_packets: how many packets to drop because the video begins
\* too long before the audio.  Only the last track's distance is looked at.
Premature(buf) ==
    LET video == FirstOf(buf, Video)
        diff  == buf[FirstOf(buf, NumTracks)].dts_usec - buf[video].dts_usec
    IN  IF diff > VideoDuration THEN Max({FirstOf(buf, s) : s \in Sources}) ELSE 0

\* get_interleaved_start_idx: the packets before the first video packet and
\* before the audio packet that is closest to it.
BeforeStart(buf) ==
    LET video    == FirstOf(buf, Video)
        dist(i)  == LET d == buf[i].dts_usec - buf[video].dts_usec
                    IN  IF d < 0 THEN -d ELSE d
        audio    == {i \in DOMAIN buf : buf[i].source # Video}
        closest  == Min({i \in audio : \A j \in audio : dist(i) =< dist(j)})
    IN  Min({video, closest}) - 1

\* prune_interleaved_packets, on a buffer in which no source is missing.
Pruned(buf) ==
    Discard(buf, IF Premature(buf) # 0 THEN Premature(buf) ELSE BeforeStart(buf))

\* initialize_interleaved_packets asks for audio past the first video packet.
AudioPastVideo(buf) ==
    \A t \in Tracks :
        buf[LastOf(buf, t)].dts_usec >= buf[FirstOf(buf, Video)].dts_usec

-----------------------------------------------------------------------------
(* Steps of interleave_packets.  buf is the buffer with the new packet in it, *)
(* audio_ts and video_ts are the highest time stamps with the new packet's.   *)

SetHighest(audio_ts, video_ts) ==
    highest_audio_ts' = audio_ts /\ highest_video_ts' = video_ts

SetReceived(audio, video) == received_audio' = audio /\ received_video' = video

\* Nothing can be sent yet; buf is what is left to wait with.
Hold(buf, audio_ts, video_ts) ==
    /\ interleaved_packets' = buf
    /\ SetHighest(audio_ts, video_ts)
    /\ UNCHANGED <<video_offset, audio_offsets, historyVars>>

\* Faulty variant: the oldest packet goes out whatever the other stream has.
SendAnyway(buf, audio_ts, video_ts) ==
    LET head == Head(buf)
    IN  /\ interleaved_packets' = Tail(buf)
        /\ out' = head
        /\ first_out' = [first_out EXCEPT ![head.source] =
                            IF @ = NoPacket THEN head ELSE @]

\* send_interleaved: at most one packet, and only if the opposing stream is
\* known to be ahead of it.
Send(buf, audio_ts, video_ts) ==
    LET head   == Head(buf)
        higher == IF head.source = Video THEN audio_ts ELSE video_ts
    IN  IF higher > head.dts_usec
        THEN /\ interleaved_packets' = Tail(buf)
             /\ out' = head
             /\ first_out' = [first_out EXCEPT ![head.source] =
                                IF @ = NoPacket THEN head ELSE @]
        ELSE interleaved_packets' = buf /\ UNCHANGED <<out, first_out>>

\* The first packet of each stream becomes its time zero.
Start(buf, audio_ts, video_ts) ==
    LET first(s) == buf[FirstOf(buf, s)]
        v   == first(Video).pts
        a   == [t \in Tracks |-> first(t).dts]
        ats == audio_ts - first(1).dts_usec
        vts == video_ts - first(Video).dts_usec
        shifted == [i \in DOMAIN buf |-> Shift(buf[i], v, a)]
    IN  /\ SetReceived(TRUE, TRUE) /\ SetHighest(ats, vts)
        /\ video_offset' = v /\ audio_offsets' = a
        /\ start_gap' = [t \in Tracks |->
                            first(t).dts_usec - first(Video).dts_usec]
        /\ Send(FoldLeft(Insert, <<>>, shifted), ats, vts)

\* initialize_interleaved_packets on the pruned buffer.
Initialize(buf, audio_ts, video_ts) ==
    LET begun == Discard(buf, BeforeStart(buf))
        wait(b) == /\ Hold(b, audio_ts, video_ts)
                   /\ SetReceived(Missing(b) \cap Tracks = {},
                                  Video \notin Missing(b))
    IN  IF Missing(buf) # {} THEN wait(buf)
        ELSE IF ~AudioPastVideo(buf)
        THEN Hold(buf, audio_ts, video_ts) /\ SetReceived(FALSE, TRUE)
        ELSE IF Missing(begun) # {} THEN wait(begun)
        ELSE Start(begun, audio_ts, video_ts)

\* Both kinds of packets were received: prune_interleaved_packets first.
TryStart(buf, audio_ts, video_ts) ==
    IF Missing(buf) # {}
    THEN /\ Hold(buf, audio_ts, video_ts)
         /\ SetReceived(Video \in Missing(buf), Video \notin Missing(buf))
    ELSE Initialize(Pruned(buf), audio_ts, video_ts)

\* interleave_packets, from the keyframe check on.
Receive(p) ==
    LET started == received_audio /\ received_video
        packet  == IF started THEN Shift(p, video_offset, audio_offsets) ELSE p
        buf     == Insert(interleaved_packets, packet)
        isVideo == p.source = Video
        higher(old) == Max({old, packet.dts_usec})
        audio_ts == IF isVideo THEN highest_audio_ts ELSE higher(highest_audio_ts)
        video_ts == IF isVideo THEN higher(highest_video_ts) ELSE highest_video_ts
        audio == received_audio \/ ~isVideo
        video == received_video \/ isVideo
    IN  \/ /\ started
           /\ Send(buf, audio_ts, video_ts)
           /\ SetHighest(audio_ts, video_ts)
           /\ UNCHANGED <<received_audio, received_video, video_offset,
                          audio_offsets, start_gap>>
        \/ /\ ~started /\ audio /\ video
           /\ TryStart(buf, audio_ts, video_ts)
        \/ /\ ~(audio /\ video)
           /\ Hold(buf, audio_ts, video_ts)
           /\ SetReceived(audio, video)

\* A video packet that is no keyframe, while no video packet was received: it
\* is dropped, and so is all audio before it.
DropVideo(p) ==
    LET later == SelectInSeq(interleaved_packets,
                             LAMBDA q : q.dts_usec >= p.dts_usec)
        kept  == IF later = 0 THEN Len(interleaved_packets) + 1 ELSE later
    IN  /\ interleaved_packets' = Discard(interleaved_packets, kept - 1)
        /\ UNCHANGED <<received_audio, received_video, video_offset,
                       audio_offsets, highest_audio_ts, highest_video_ts,
                       historyVars>>

-----------------------------------------------------------------------------
(* The encoders                                                             *)

Packet(s, keyframe) ==
    IF s = Video
    THEN LET pts == count[s] * VideoDuration
         IN  [source |-> s, keyframe |-> keyframe, pts |-> pts,
              dts |-> pts - beginning.reorder * VideoDuration,
              dts_usec |-> VideoStart + pts]
    ELSE LET dts == count[s] * AudioDuration
         IN  [source |-> s, keyframe |-> FALSE, pts |-> dts, dts |-> dts,
              dts_usec |-> beginning.audio[s] + dts]

\* The first video packet of a capture is a keyframe (send_first_video_packet
\* of obs-encoder.c); the packets the encoder holds back for it are not shown.
VideoPacket ==
    /\ count[Video] < MaxVideo
    /\ \E keyframe \in BOOLEAN :
          /\ sent_first \/ keyframe
          /\ LET p == Packet(Video, keyframe)
             IN  IF ~received_video /\ ~keyframe THEN DropVideo(p) ELSE Receive(p)
    /\ sent_first' = TRUE
    /\ count' = [count EXCEPT ![Video] = @ + 1]
    /\ UNCHANGED <<beginning, captures>>

\* The audio thread feeds the encoders of all tracks in step: among the tracks,
\* packets arrive in the order of their system time.
AudioPacket(t) ==
    LET time(u) == beginning.audio[u] + count[u] * AudioDuration
    IN  /\ count[t] < MaxAudio
        /\ \A u \in Tracks : time(t) < time(u) \/ (time(t) = time(u) /\ t =< u)
        /\ Receive(Packet(t, FALSE))
        /\ count' = [count EXCEPT ![t] = @ + 1]
        /\ UNCHANGED <<beginning, sent_first, captures>>

\* Faulty variant: both streams still count as received.
BeginCaptureReceived ==
    /\ captures < MaxCaptures
    /\ captures' = captures + 1
    /\ interleaved_packets' = <<>>
    /\ UNCHANGED <<received_audio, received_video>> /\ SetHighest(0, 0)
    /\ video_offset' = 0
    /\ audio_offsets' = [audio_offsets EXCEPT ![1] = 0]
    /\ sent_first' = FALSE
    /\ out' = NoPacket /\ first_out' = [s \in Sources |-> NoPacket]
    /\ UNCHANGED <<beginning, start_gap, count>>

\* A data capture ends and the next one begins while other outputs keep the
\* encoders running: hook_data_capture calls reset_packet_data.
BeginCapture ==
    /\ captures < MaxCaptures
    /\ captures' = captures + 1
    /\ interleaved_packets' = <<>>
    /\ SetReceived(FALSE, FALSE) /\ SetHighest(0, 0)
    /\ video_offset' = 0
    /\ audio_offsets' = [audio_offsets EXCEPT ![1] = 0]
    /\ sent_first' = FALSE
    /\ out' = NoPacket /\ first_out' = [s \in Sources |-> NoPacket]
    /\ UNCHANGED <<beginning, start_gap, count>>

InterleaveNext ==
    VideoPacket \/ (\E t \in Tracks : AudioPacket(t)) \/ BeginCapture

InterleaveSpec == InterleaveInit /\ [][InterleaveNext]_interleaveVars

-----------------------------------------------------------------------------
(* Properties                                                               *)

Packets == [source : Sources, keyframe : BOOLEAN, pts : Int, dts : Int,
            dts_usec : Int]

InterleaveTypeOK ==
    /\ interleaved_packets \in Seq(Packets)
    /\ received_audio \in BOOLEAN /\ received_video \in BOOLEAN
    /\ video_offset \in Int /\ audio_offsets \in [Tracks -> Int]
    /\ highest_audio_ts \in Int /\ highest_video_ts \in Int
    /\ beginning \in Beginnings
    /\ count \in [Sources -> Nat] /\ sent_first \in BOOLEAN
    /\ captures \in Nat
    /\ out \in Packets \cup {NoPacket}
    /\ first_out \in [Sources -> Packets \cup {NoPacket}]
    /\ start_gap \in [Tracks -> Int]

InOrder == out # NoPacket /\ out' # NoPacket => out'.dts_usec >= out.dts_usec

\* send_interleaved holds a packet back until the opposing stream is ahead of
\* it; "this ensures that the timestamps are monotonic" (obs-output.c:1019).
Monotonic == [][InOrder]_interleaveVars

\* The tracks begin less than an audio packet apart, and at most one of them
\* after the first track.
CloseTogether ==
    /\ \A t, u \in Tracks : start_gap[t] - start_gap[u] < AudioDuration
    /\ \A t, u \in Tracks :
           t = u \/ start_gap[t] =< start_gap[1] \/ start_gap[u] =< start_gap[1]

\* It does so for video whose frames are not reordered and for tracks that begin
\* close together, whatever is pruned and however late the encoders deliver.
\* Tracks further apart may leave out of order: one highest time stamp stands for
\* all of them, moved by the first track's offset, each packet by its own track's.
MonotonicInOrder ==
    [][beginning.reorder = 0 /\ CloseTogether' => InOrder]_interleaveVars

\* "audio and video need to start at timestamp 0" (obs-output.c:935): so does
\* every stream of every capture, whatever was pruned before.
StreamsStartAtZero ==
    \A s \in Sources : first_out[s] # NoPacket =>
        IF s = Video THEN first_out[s].pts = 0 ELSE first_out[s].dts = 0

\* "if first video frame is not a keyframe, discard until received"
\* (obs-output.c:1396): the video of a capture starts with a keyframe.
VideoStartsWithKeyframe ==
    first_out[Video] # NoPacket => first_out[Video].keyframe

\* "prunes the first video packet if it's too far away from audio"
\* (obs-output.c:1178): no track starts more than a video frame after the video.
VideoNotTooEarly ==
    \A t \in Tracks : start_gap[t] =< VideoDuration

\* Where the streams of a capture begin, whatever was pruned before and
\* discarded after: each at time 0, and the last track, the one the pruning looks
\* at, no more than a video frame, or less than an audio packet, after the video;
\* and no source is forgotten: once packets are sent, each has sent one or still
\* has its first one waiting.
StreamsStart ==
    /\ StreamsStartAtZero
    /\ start_gap[NumTracks] =< Max({VideoDuration, AudioDuration - 1})
    /\ out # NoPacket => \A s \in Sources :
           first_out[s] # NoPacket \/ FirstOf(interleaved_packets, s) # 0

=============================================================================
