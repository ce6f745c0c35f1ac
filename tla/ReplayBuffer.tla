------------------------------ MODULE ReplayBuffer ------------------------------
(***************************************************************************)
(* The replay buffer of plugins/obs-ffmpeg/obs-ffmpeg-mux.c: it keeps the   *)
(* last packets of a capture, drops groups of pictures when it holds too    *)
(* much, and on request hands what it has, with time stamps that begin at   *)
(* zero, to a thread that writes a file.  There is one audio track; packets *)
(* come in the order of their time stamps.  The capture, of obs-output.c,   *)
(* is only begun and ended.                                                 *)
(* An operator whose comment says it is faulty is used by no action.        *)
(***************************************************************************)
EXTENDS Integers, FiniteSets, SequencesExt

CONSTANTS
    VideoTime, AudioTime,      \* durations of a frame and an audio packet
    KeyframeSize,              \* other packets have size 1
    Settings,        \* pairs of max_size, where 0 is no limit, and max_time
    MaxGop,          \* bound: frames from a keyframe to the next
    MaxMedia,        \* bound: packets
    MaxLatency,      \* bound: how far packets are behind the clock
    MaxSaves, MaxBuffers, MaxBroken   \* bounds: requests, captures, failures

\* A keyframe and a packet fit in the buffer, which is not purged to the end.
ASSUME ReplayAssumption ==
    /\ {VideoTime, AudioTime, KeyframeSize, MaxGop} \subseteq Nat \ {0}
    /\ {MaxMedia, MaxLatency, MaxSaves, MaxBuffers, MaxBroken} \subseteq Nat
    /\ Settings \subseteq [max_size : Nat, max_time : Nat]
    /\ \A s \in Settings :
           /\ s.max_size # 0 => KeyframeSize + KeyframeSize <= s.max_size
           /\ s.max_time >= VideoTime /\ s.max_time >= AudioTime

VARIABLES
    packets, cur_size, cur_time, keyframes,    \* struct ffmpeg_muxer
    max,              \* max_size, max_time
    save_ts, stop_ts, replay_active, replay_stopping, capturing,
    muxing, mux_packets,
    capture,          \* "off", "on", "ending": what obs-output.c makes of it
    data_thread,      \* "idle", or "deactivate" inside that function
    coming,           \* the packets that come next: times, frames to a keyframe
    asked,            \* history: the request that is saved at the moment, or 0
                      \* when the capture did not begin clean
    spoilt,           \* history: something is left for the capture that comes
    clean,            \* history: nothing was left for the capture there is
    saves_left, captures_left, broken_left, media_left

bufferVars == <<packets, cur_size, cur_time, keyframes, max>>
flagVars   == <<stop_ts, replay_active, replay_stopping, capturing>>
muxVars    == <<muxing, mux_packets, asked>>
leftVars   == <<saves_left, captures_left, broken_left, media_left>>
replayVars == <<bufferVars, flagVars, muxVars, save_ts, capture, data_thread,
                coming, spoilt, clean, leftVars>>

IsKeyframe(p) == p.video /\ p.key
Size(p) == IF IsKeyframe(p) THEN KeyframeSize ELSE 1

ReplayInit ==
    /\ packets = <<>> /\ cur_size = 0 /\ cur_time = 0 /\ keyframes = 0
    /\ max = [max_size |-> 0, max_time |-> 0]
    /\ save_ts = 0 /\ stop_ts = 0
    /\ replay_active = FALSE /\ replay_stopping = FALSE /\ capturing = FALSE
    /\ muxing = FALSE /\ mux_packets = <<>> /\ asked = 0
    /\ capture = "off" /\ data_thread = "idle"
    /\ coming = [begin |-> 1, video |-> 0, audio |-> 0, gop |-> 0]
    /\ spoilt = FALSE /\ clean = TRUE
    /\ saves_left = MaxSaves /\ captures_left = MaxBuffers
    /\ broken_left = MaxBroken /\ media_left = MaxMedia

-----------------------------------------------------------------------------
(* The packets of the encoders, external to this file                       *)

\* The next packet: of the earlier track; the first frame is a keyframe.
NextPackets ==
    {[video |-> v, key |-> k,
      dts |-> IF v THEN coming.video ELSE coming.audio,
      sys |-> coming.begin + IF v THEN coming.video ELSE coming.audio] :
        v \in {w \in BOOLEAN : IF w THEN coming.video <= coming.audio
                                    ELSE coming.audio <= coming.video},
        k \in {w \in BOOLEAN : /\ coming.gop = 0 => w
                               /\ coming.gop >= MaxGop => w}}

\* The time stamp of the next packet, and the times the clock may show.
ReplayNow ==
    coming.begin + IF coming.video <= coming.audio THEN coming.video
                                                   ELSE coming.audio
ClockShows == ReplayNow .. (ReplayNow + MaxLatency)

Advance(p) ==
    /\ media_left > 0 /\ media_left' = media_left - 1
    /\ ~p.video => ~p.key
    /\ coming' = IF p.video
                 THEN [coming EXCEPT !.video = @ + VideoTime,
                                     !.gop = IF p.key THEN 1 ELSE @ + 1]
                 ELSE [coming EXCEPT !.audio = @ + AudioTime]

-----------------------------------------------------------------------------
(* Dropping what is too much                                                *)

Contents == [packets |-> packets, size |-> cur_size, time |-> cur_time,
             keyframes |-> keyframes]

\* purge_front
PurgeFront(b) ==
    LET rest == Tail(b.packets)
    IN  [packets   |-> rest,
         keyframes |-> b.keyframes - IF IsKeyframe(Head(b.packets)) THEN 1 ELSE 0,
         size      |-> IF rest = <<>> THEN 0 ELSE b.size - Size(Head(b.packets)),
         time      |-> IF rest = <<>> THEN 0 ELSE Head(rest).dts]

\* Faulty: only the packet at the front is dropped.
PurgeOne(b) == PurgeFront(b)

\* purge: with a keyframe goes what refers to it, up to the next one.  The code
\* reads past the end when there is none, which the limits exclude.
Purge(b) ==
    LET later == {n \in 2..Len(b.packets) : IsKeyframe(b.packets[n])}
        until == IF ~IsKeyframe(Head(b.packets)) THEN 2
                 ELSE IF later = {} THEN Len(b.packets) + 1
                 ELSE CHOOSE n \in later : \A m \in later : n <= m
        drop[n \in 1..until] == IF n = 1 THEN b ELSE PurgeFront(drop[n - 1])
    IN  drop[until]

\* What the loops of replay_buffer_purge test: the bytes with the new packet, or
\* the time up to it.
Exceeds(b, p, limit) ==
    IF limit = "size" THEN b.size + Size(p) > max.max_size
                      ELSE p.dts - b.time > max.max_time

\* The first buffer on the way that does not exceed the limit.
PurgeUntil(b, p, limit) ==
    LET after[n \in 0..Len(b.packets)] ==
            IF n = 0 THEN b
            ELSE LET before == after[n - 1]
                 IN  IF before.packets # <<>> /\ Exceeds(before, p, limit)
                     THEN Purge(before) ELSE before
    IN  after[Len(b.packets)]

Few(b) == b.packets = <<>> \/ b.keyframes <= 2

\* replay_buffer_purge
ReplayBufferPurge(b, p) ==
    LET small == IF max.max_size = 0 \/ Few(b) THEN b ELSE PurgeUntil(b, p, "size")
    IN  IF Few(small) THEN small ELSE PurgeUntil(small, p, "time")

-----------------------------------------------------------------------------
(* Saving                                                                   *)

\* The time stamp of the first packet of a track.
Offset(video) ==
    packets'[CHOOSE i \in DOMAIN packets' :
                 /\ packets'[i].video = video
                 /\ \A j \in 1..(i - 1) : packets'[j].video # video].dts

\* insert_packet
InsertPacket(array, p) ==
    LET q   == [p EXCEPT !.dts = @ - Offset(p.video)]
        idx == CHOOSE n \in 0..Len(array) :
                   /\ n > 0 => array[n].dts < q.dts
                   /\ \A m \in (n + 1)..Len(array) : array[m].dts >= q.dts
    IN  InsertAt(array, idx + 1, q)

\* replay_buffer_save
ReplayBufferSave ==
    /\ muxing' = TRUE /\ save_ts' = 0
    /\ asked' = IF clean THEN save_ts ELSE 0
    /\ mux_packets' = FoldLeft(InsertPacket, <<>>, packets')

-----------------------------------------------------------------------------
(* replay_buffer_data                                                       *)

StopsNow(p) == replay_stopping /\ p.sys >= stop_ts

\* Faulty: a keyframe that was dropped is counted still.
AddPacketUncounted(p) ==
    LET b == ReplayBufferPurge(Contents, p)
    IN  /\ packets' = Append(b.packets, p)
        /\ cur_size' = b.size + Size(p)
        /\ cur_time' = IF b.packets = <<>> THEN p.dts ELSE b.time
        /\ keyframes' = keyframes + IF IsKeyframe(p) THEN 1 ELSE 0

AddPacketToBuffer(p) ==
    LET b == ReplayBufferPurge(Contents, p)
    IN  /\ packets' = Append(b.packets, p)
        /\ cur_size' = b.size + Size(p)
        /\ cur_time' = IF b.packets = <<>> THEN p.dts ELSE b.time
        /\ keyframes' = b.keyframes + IF IsKeyframe(p) THEN 1 ELSE 0

\* A request waits while the file before it is written.
SaveIfDue(p) ==
    IF save_ts # 0 /\ p.sys >= save_ts /\ ~muxing THEN ReplayBufferSave
    ELSE UNCHANGED <<muxVars, save_ts>>

\* Encoders are detached when the capture has ended.
ReplayData(p) ==
    /\ capture # "off" /\ data_thread = "idle" /\ Advance(p)
    /\ \/ /\ ~replay_active
          /\ UNCHANGED <<bufferVars, muxVars, save_ts, capture, data_thread>>
       \/ /\ replay_active /\ StopsNow(p)
          /\ capture' = "ending" /\ data_thread' = "deactivate"
          /\ UNCHANGED <<bufferVars, muxVars, save_ts>>
       \/ /\ replay_active /\ ~StopsNow(p)
          /\ AddPacketToBuffer(p) /\ SaveIfDue(p)
          /\ UNCHANGED <<capture, data_thread>>
    /\ UNCHANGED <<flagVars, max, spoilt, clean, saves_left, captures_left,
                   broken_left>>

\* Faulty: the buffer keeps its packets.
DeactivateKeepingPackets ==
    /\ data_thread = "deactivate" /\ data_thread' = "idle"
    /\ replay_active' = FALSE /\ replay_stopping' = FALSE
    /\ cur_size' = 0 /\ cur_time' = 0 /\ keyframes' = 0 /\ save_ts' = 0
    /\ spoilt' = FALSE
    /\ UNCHANGED <<packets, max, stop_ts, capturing, muxVars, capture, coming,
                   clean, leftVars>>

\* deactivate_replay_buffer, after the call that ends the capture.
DeactivateReplayBuffer ==
    /\ data_thread = "deactivate" /\ data_thread' = "idle"
    /\ replay_active' = FALSE /\ replay_stopping' = FALSE
    /\ packets' = <<>> /\ cur_size' = 0 /\ cur_time' = 0 /\ keyframes' = 0
    /\ max' = [max_size |-> 0, max_time |-> 0] /\ save_ts' = 0
    /\ spoilt' = FALSE
    /\ UNCHANGED <<stop_ts, capturing, muxVars, capture, coming, clean,
                   leftVars>>

-----------------------------------------------------------------------------
(* The user, the end of the capture and the thread that writes              *)

\* replay_buffer_start, perhaps while the flags of the capture before are still
\* to be cleared.
ReplayStart ==
    /\ captures_left > 0 /\ captures_left' = captures_left - 1
    /\ capture = "off" /\ capture' = "on"
    /\ clean' = (data_thread = "idle" /\ ~spoilt)
    /\ replay_active' = TRUE /\ capturing' = TRUE /\ max' \in Settings
    /\ coming' = [begin |-> ReplayNow + MaxLatency + 1,
                  video |-> 0, audio |-> 0, gop |-> 0]
    /\ UNCHANGED <<packets, cur_size, cur_time, keyframes, muxVars, save_ts,
                   stop_ts, replay_stopping, data_thread, spoilt, saves_left,
                   broken_left, media_left>>

\* ffmpeg_mux_stop: at the time of the clock, or at once.  A stop that is forced
\* while the capture ends is left for the next one, unless the flags are still
\* to be cleared.
ReplayStop(ts) ==
    /\ capture \in {"on", "ending"} /\ spoilt' = (spoilt \/ capture = "ending")
    /\ capturing \/ ts = 0
    /\ stop_ts' = ts /\ replay_stopping' = TRUE /\ capturing' = FALSE
    /\ UNCHANGED <<bufferVars, muxVars, save_ts, replay_active, capture,
                   data_thread, coming, clean, leftVars>>

\* replay_buffer_hotkey, which has found the output active: it may have ended
\* before the request is noted.
ReplayHotkey(now) ==
    /\ saves_left > 0 /\ saves_left' = saves_left - 1
    /\ captures_left < MaxBuffers /\ spoilt' = (spoilt \/ ~replay_active)
    /\ save_ts' = now
    /\ UNCHANGED <<bufferVars, flagVars, muxVars, capture, data_thread, coming,
                   clean, captures_left, broken_left, media_left>>

\* The thread that ends captures, and tells the user.
ReplayCaptureEnds ==
    /\ capture = "ending" /\ capture' = "off"
    /\ UNCHANGED <<bufferVars, flagVars, muxVars, save_ts, data_thread, coming,
                   spoilt, clean, leftVars>>

\* replay_buffer_mux_thread, to its end; without a pipe it ends at once.
MuxThreadEnds ==
    /\ muxing /\ muxing' = FALSE /\ mux_packets' = <<>> /\ asked' = 0
    /\ UNCHANGED <<bufferVars, flagVars, save_ts, capture, data_thread, coming,
                   spoilt, clean, leftVars>>

\* signal_failure with deactivate, from write_packet in that thread: the flags
\* are cleared and the buffer is not.
MuxWriteFails ==
    /\ muxing /\ broken_left > 0 /\ broken_left' = broken_left - 1
    /\ replay_active' = FALSE /\ replay_stopping' = FALSE /\ capturing' = FALSE
    /\ capture' = IF capture = "on" THEN "ending" ELSE capture
    /\ spoilt' = (spoilt \/ capture = "on")
    /\ UNCHANGED <<bufferVars, muxVars, save_ts, stop_ts, data_thread, coming,
                   clean, saves_left, captures_left, media_left>>

-----------------------------------------------------------------------------

ReplayNext ==
    \/ \E p \in NextPackets : ReplayData(p)
    \/ DeactivateReplayBuffer
    \/ ReplayStart
    \/ \E ts \in {0} \cup ClockShows : ReplayStop(ts)
    \/ \E now \in ClockShows : ReplayHotkey(now)
    \/ ReplayCaptureEnds \/ MuxThreadEnds \/ MuxWriteFails

ReplaySpec == ReplayInit /\ [][ReplayNext]_replayVars

-----------------------------------------------------------------------------
(* Properties                                                               *)

MuxPacket == [video : BOOLEAN, key : BOOLEAN, dts : Int, sys : Nat]

ReplayTypeOK ==
    /\ packets \in Seq(MuxPacket) /\ mux_packets \in Seq(MuxPacket)
    /\ {cur_size, cur_time, keyframes, save_ts, stop_ts, asked, saves_left,
        captures_left, broken_left, media_left} \subseteq Nat
    /\ {replay_active, replay_stopping, capturing, muxing, spoilt, clean}
           \subseteq BOOLEAN
    /\ capture \in {"off", "on", "ending"}
    /\ data_thread \in {"idle", "deactivate"}
    /\ max \in [max_size : Nat, max_time : Nat]
    /\ coming \in [begin : Nat, video : Nat, audio : Nat, gop : Nat]

Keyframes(array) == {i \in DOMAIN array : IsKeyframe(array[i])}

\* The sum of the sizes.
TotalSize(array) ==
    LET sum[n \in 0 .. Len(array)] ==
            IF n = 0 THEN 0 ELSE sum[n - 1] + Size(array[n])
    IN  sum[Len(array)]

\* What the purges decide by is what the buffer holds, whatever was purged,
\* stopped, broken off and begun again: its size, its keyframes and its first
\* time stamp; and once the capture has added a packet to it, and more than two
\* keyframes are there to choose from, it holds no more than the settings allow.
ReplayAccounted ==
    /\ cur_size = TotalSize(packets)
    /\ keyframes = Cardinality(Keyframes(packets))
    /\ packets # <<>> => cur_time = Head(packets).dts
    /\ /\ packets # <<>> /\ Last(packets).sys >= coming.begin
       /\ Cardinality(Keyframes(Front(packets))) > 2
       => /\ max.max_size # 0 => cur_size <= max.max_size
          /\ Last(packets).dts - cur_time <= max.max_time

\* A capture that runs fills the buffer, with its own packets only; a save and a
\* stop were asked for since it began.  Three slips of the code leave something
\* to the next capture: a file that fails, a save and a stop that come while a
\* capture ends; and one that begins too early loses its flags.  They spoil that
\* capture and no other: the one after it is fresh again.
ReplayFresh ==
    clean /\ capture = "on" =>
        /\ replay_active
        /\ \A i \in DOMAIN packets : packets[i].sys >= coming.begin
        /\ save_ts # 0 => save_ts >= coming.begin
        /\ replay_stopping => ~capturing

\* A saved replay, of a capture that began clean, can be played: it begins with
\* a keyframe, has every packet from there to the one that was asked for, in the
\* order of the new time stamps, and sound and picture are apart by no more than
\* a packet of sound.
ReplayPlayable ==
    muxing /\ asked # 0 =>
        LET shifts(video) ==
                {mux_packets[i].sys - mux_packets[i].dts :
                     i \in {j \in DOMAIN mux_packets :
                                mux_packets[j].video = video}}
            frames == SelectSeq(mux_packets, LAMBDA p : p.video)
        IN  /\ frames # <<>> /\ Head(frames).key
            /\ \A i \in 1..(Len(frames) - 1) :
                   frames[i + 1].sys = frames[i].sys + VideoTime
            /\ \E i \in DOMAIN mux_packets : mux_packets[i].sys >= asked
            /\ \A i \in 1..(Len(mux_packets) - 1) :
                   mux_packets[i].dts <= mux_packets[i + 1].dts
            /\ Cardinality(shifts(TRUE)) = 1 /\ Cardinality(shifts(FALSE)) <= 1
            /\ \A v \in shifts(TRUE), a \in shifts(FALSE) :
                   v - a <= AudioTime /\ a - v <= AudioTime
=============================================================================
