--------------------------- MODULE AudioBuffering ---------------------------
(***************************************************************************)
(* The audio thread of libobs/obs-audio.c (audio_callback) and the buffers  *)
(* that the sources' own threads fill (libobs/obs-source.c).  Every tick    *)
(* the thread mixes AUDIO_OUTPUT_FRAMES of each source; a source whose time  *)
(* stamps are behind the tick makes it insert earlier ticks and wait, so     *)
(* that all later output is delayed, up to MAX_BUFFERING_TICKS.  Samples,     *)
(* volume and tracks are left out, and so are the sources that mix others    *)
(* (audio_render).  A step of the audio thread is what it does for all        *)
(* sources before it takes their locks again; the sources' threads come in    *)
(* between.  A unit of time stands for a nanosecond.                          *)
(* An operator whose comment says it is faulty is used by no action.        *)
(***************************************************************************)
EXTENDS Integers, SequencesExt

CONSTANTS
    AudioSources,
    FrameTime,            \* the duration of a frame
    AUDIO_OUTPUT_FRAMES,
    MAX_BUFFERING_TICKS,
    MaxBufFrames,         \* MAX_BUF_SIZE
    Remainders,           \* how far behind a whole frame time stamps may be
    MaxLate,              \* bound: frames by which time stamps may be late
    MaxTicks,             \* bound: calls of audio_callback
    MaxJumps              \* bound: time stamps that do not follow the last ones

ASSUME AudioBufferingAssumption ==
    /\ {FrameTime, AUDIO_OUTPUT_FRAMES, MAX_BUFFERING_TICKS} \subseteq Nat \ {0}
    /\ {MaxBufFrames, MaxLate, MaxTicks, MaxJumps} \subseteq Nat
    /\ Remainders \subseteq 0 .. FrameTime - 1

VARIABLES
    \* struct obs_core_audio; of a tick in the buffer only the start is kept
    buffered_timestamps, total_buffering_ticks, buffering_wait_ticks, buffered_ts,
    \* struct obs_source
    audio_ts,                  \* 0: there is no audio
    input_size,                \* the frames in audio_input_buf
    last_audio_input_buf_size, audio_pending, pending_stop,
    audio_time,                \* audio_thread's next tick
    step, ts,                  \* where audio_callback is, and its ts
    jumps,
    last_mixed,    \* history: the tick that was mixed last, or -1
    mixed    \* history: the sources whose time did not jump since Render; from
             \* Mix on, those of them that were mixed

tickVars   == <<buffered_timestamps, total_buffering_ticks,
                buffering_wait_ticks, buffered_ts>>
sourceVars == <<audio_ts, input_size, last_audio_input_buf_size, audio_pending,
                pending_stop>>
audioVars  == <<tickVars, sourceVars, audio_time, step, ts, jumps, last_mixed,
                mixed>>

Tick == FrameTime * AUDIO_OUTPUT_FRAMES
NsToFrames(time) == time \div FrameTime    \* ns_to_audio_frames

\* The time at which the audio thread began: none is earlier than the latest
\* time stamp of a source, and 0 is no time stamp.
Beginning == Tick * (MAX_BUFFERING_TICKS + MaxLate + 1)

AudioInit ==
    /\ buffered_timestamps = <<>> /\ total_buffering_ticks = 0
    /\ buffering_wait_ticks = 0 /\ buffered_ts = 0
    /\ audio_ts = [s \in AudioSources |-> 0]
    /\ input_size = [s \in AudioSources |-> 0]
    /\ last_audio_input_buf_size = [s \in AudioSources |-> 0]
    /\ audio_pending = [s \in AudioSources |-> FALSE]
    /\ pending_stop = [s \in AudioSources |-> FALSE]
    /\ audio_time = Beginning /\ step = "render"
    /\ ts = [start |-> Beginning, end |-> Beginning]
    /\ jumps = 0 /\ last_mixed = -1 /\ mixed = {}

-----------------------------------------------------------------------------
(* The sources' threads, under audio_buf_mutex                              *)

\* source_output_audio_push_back: a frame that follows the last one.
PushBack(s) ==
    /\ audio_ts[s] # 0 /\ input_size[s] < MaxBufFrames
    /\ input_size' = [input_size EXCEPT ![s] = @ + 1]
    /\ last_audio_input_buf_size' = [last_audio_input_buf_size EXCEPT ![s] = 0]
    /\ UNCHANGED <<tickVars, audio_ts, audio_pending, pending_stop, audio_time,
                   step, ts, jumps, last_mixed, mixed>>

\* source_output_audio_place: a frame with a time stamp of its own.  One that is
\* earlier than the buffer replaces it (reset_audio_data); one that is too late
\* for the buffer is refused, and then nothing changes.
Place(s) ==
    /\ jumps < MaxJumps /\ jumps' = jumps + 1
    /\ \E late \in 0 .. MaxLate, r \in Remainders :
          LET time   == audio_time - late * FrameTime - r
              reset  == audio_ts[s] = 0 \/ time < audio_ts[s]
              behind == IF reset THEN 0 ELSE NsToFrames(time - audio_ts[s])
              taken  == behind + 1 =< MaxBufFrames
              size   == IF taken THEN behind + 1
                        ELSE IF reset THEN 0 ELSE input_size[s]
          IN  /\ audio_ts' = [audio_ts EXCEPT ![s] = IF reset THEN time ELSE @]
              /\ input_size' = [input_size EXCEPT ![s] = size]
              /\ last_audio_input_buf_size' = [last_audio_input_buf_size EXCEPT
                     ![s] = IF reset \/ taken THEN 0 ELSE @]
    /\ mixed' = mixed \ {s}
    /\ UNCHANGED <<tickVars, audio_pending, pending_stop, audio_time, step, ts,
                   last_mixed>>

-----------------------------------------------------------------------------
(* audio_callback                                                           *)

\* audio_thread's next tick is queued and the oldest one taken; the sources are
\* rendered (obs_source_audio_render).
Render ==
    /\ step = "render" /\ step' = "buffer"
    /\ audio_time < Beginning + MaxTicks * Tick
    /\ buffered_timestamps' = Append(buffered_timestamps, audio_time)
    /\ audio_time' = audio_time + Tick
    /\ ts' = [start |-> Head(buffered_timestamps'),
              end   |-> Head(buffered_timestamps') + Tick]
    /\ audio_pending' = [s \in AudioSources |->
           audio_ts[s] = 0 \/ input_size[s] < AUDIO_OUTPUT_FRAMES]
    /\ mixed' = AudioSources
    /\ UNCHANGED <<total_buffering_ticks, buffering_wait_ticks, buffered_ts,
                   audio_ts, input_size, last_audio_input_buf_size,
                   pending_stop, jumps, last_mixed>>

\* find_min_ts
MinTs(pending) ==
    Min({ts.start} \cup {audio_ts[s] : s \in {u \in AudioSources :
                                                 ~pending[u] /\ audio_ts[u] # 0}})

\* audio_buffer_insuffient: the buffer was reset after it was rendered.
Insufficient(s, min_ts) ==
    /\ ~audio_pending[s] /\ audio_ts[s] # 0
    /\ LET start_point == NsToFrames(audio_ts[s] - min_ts)
       IN  /\ start_point < AUDIO_OUTPUT_FRAMES
           /\ input_size[s] < AUDIO_OUTPUT_FRAMES - start_point

\* Faulty: the ticks that are missing are rounded down.
AddBufferingRoundedDown(min_ts) ==
    LET first == IF buffering_wait_ticks = 0 THEN ts.start ELSE buffered_ts
        asked == NsToFrames(ts.start - min_ts) \div AUDIO_OUTPUT_FRAMES
        ticks == Min({asked, MAX_BUFFERING_TICKS - total_buffering_ticks})
        wait  == buffering_wait_ticks + ticks
    IN  /\ buffered_ts' = first
        /\ total_buffering_ticks' = total_buffering_ticks + ticks
        /\ buffering_wait_ticks' = wait
        /\ buffered_timestamps' =
               [k \in 1 .. ticks |-> first - (wait - k + 1) * Tick]
                   \o buffered_timestamps
        /\ ts' = [start |-> first - wait * Tick, end |-> first - (wait - 1) * Tick]

\* Faulty: at the limit the total is cut down and the ticks are not.
AddBufferingUncut(min_ts) ==
    LET first  == IF buffering_wait_ticks = 0 THEN ts.start ELSE buffered_ts
        frames == NsToFrames(ts.start - min_ts)
        ticks  == (frames + AUDIO_OUTPUT_FRAMES - 1) \div AUDIO_OUTPUT_FRAMES
        wait   == buffering_wait_ticks + ticks
    IN  /\ buffered_ts' = first
        /\ total_buffering_ticks' =
               Min({total_buffering_ticks + ticks, MAX_BUFFERING_TICKS})
        /\ buffering_wait_ticks' = wait
        /\ buffered_timestamps' =
               [k \in 1 .. ticks |-> first - (wait - k + 1) * Tick]
                   \o buffered_timestamps
        /\ ts' = [start |-> first - wait * Tick, end |-> first - (wait - 1) * Tick]

\* add_audio_buffering: ticks before the one that is due are inserted, at least
\* as many as the source is late.  When less than a frame is missing there is
\* none to insert, and new_ts.end is what the stack happens to hold.
AddBuffering(min_ts) ==
    LET first  == IF buffering_wait_ticks = 0 THEN ts.start ELSE buffered_ts
        frames == NsToFrames(ts.start - min_ts)
        asked  == (frames + AUDIO_OUTPUT_FRAMES - 1) \div AUDIO_OUTPUT_FRAMES
        ticks  == Min({asked, MAX_BUFFERING_TICKS - total_buffering_ticks})
        wait   == buffering_wait_ticks + ticks
        start  == first - wait * Tick
    IN  /\ buffered_ts' = first
        /\ total_buffering_ticks' = total_buffering_ticks + ticks
        /\ buffering_wait_ticks' = wait
        /\ buffered_timestamps' =
               [k \in 1 .. ticks |-> first - (wait - k + 1) * Tick]
                   \o buffered_timestamps
        /\ \E end \in IF ticks = 0 THEN {0, audio_time} ELSE {start + Tick} :
               ts' = [start |-> start, end |-> end]

\* calc_min_ts, and add_audio_buffering if a source "has gone backward in time".
Buffer ==
    LET min_ts  == MinTs(audio_pending)
        pending == [s \in AudioSources |-> audio_pending[s]
                                              \/ Insufficient(s, min_ts)]
        min     == MinTs(pending)
    IN  /\ step = "buffer" /\ step' = "mix"
        /\ audio_pending' = pending
        /\ \/ /\ min < ts.start /\ total_buffering_ticks < MAX_BUFFERING_TICKS
              /\ AddBuffering(min)
           \/ /\ min >= ts.start \/ total_buffering_ticks = MAX_BUFFERING_TICKS
              /\ UNCHANGED <<tickVars, ts>>
        /\ UNCHANGED <<audio_ts, input_size, last_audio_input_buf_size,
                       pending_stop, audio_time, jumps, last_mixed, mixed>>

\* mix_audio, when the tick is not one that is only waited for.
Mix ==
    /\ step = "mix" /\ step' = "discard"
    /\ last_mixed' = IF buffering_wait_ticks = 0 THEN ts.start ELSE last_mixed
    /\ mixed' = {s \in mixed : /\ buffering_wait_ticks = 0 /\ ~audio_pending[s]
                               /\ audio_ts[s] \in ts.start .. ts.end - 1}
    /\ UNCHANGED <<tickVars, sourceVars, audio_time, ts, jumps>>

\* What a source keeps, as a record of its fields.
Kept(s) == [audio_ts |-> audio_ts[s], size |-> input_size[s],
            last |-> last_audio_input_buf_size[s], stop |-> pending_stop[s]]

\* discard_if_stopped: does a buffer that holds too little hold as much as it
\* did a tick ago?
Stopped(s) == input_size[s] # 0 /\ last_audio_input_buf_size[s] = input_size[s]

AfterStopTest(s) ==
    IF input_size[s] = 0 THEN Kept(s)
    ELSE IF ~Stopped(s) THEN [Kept(s) EXCEPT !.last = input_size[s]]
    ELSE IF ~pending_stop[s] THEN [Kept(s) EXCEPT !.stop = TRUE]
    ELSE [audio_ts |-> 0, size |-> 0, last |-> 0, stop |-> FALSE]

\* ignore_audio, with what the stop test left in k.
Ignored(k) ==
    IF k.size = 0 THEN k
    ELSE [k EXCEPT !.size = 0, !.last = 0, !.audio_ts = @ + k.size * FrameTime]

\* discard_audio of a source that is behind the tick.
AfterLate(s) ==
    LET tested == audio_pending[s] /\ input_size[s] < AUDIO_OUTPUT_FRAMES
        k      == IF tested THEN AfterStopTest(s) ELSE Kept(s)
    IN  IF (tested /\ Stopped(s)) \/ total_buffering_ticks # MAX_BUFFERING_TICKS
        THEN k ELSE Ignored(k)

\* discard_audio of a source whose audio begins in the tick.  If the tick's end
\* is wrong, more than a tick may be missing: total_floats wraps around, and
\* there is never as much.
AfterTick(s) ==
    LET begins == audio_ts[s] \in {ts.start - 1, ts.start}
        start_point == IF begins THEN 0 ELSE NsToFrames(audio_ts[s] - ts.start)
        used   == AUDIO_OUTPUT_FRAMES - start_point
    IN  IF used = 0 THEN Kept(s)
        ELSE IF used < 0 \/ input_size[s] < used THEN AfterStopTest(s)
        ELSE [audio_ts |-> ts.end, size |-> input_size[s] - used,
              last |-> 0, stop |-> FALSE]

\* discard_audio
AfterDiscard(s) ==
    IF ts.end =< audio_ts[s] THEN Kept(s)
    ELSE IF audio_ts[s] < ts.start - 1 THEN AfterLate(s)
    ELSE AfterTick(s)

\* The rest of audio_callback: used audio is discarded, the tick is popped and,
\* when the thread waits, there is no output.
DiscardAudio ==
    /\ step = "discard" /\ step' = "render"
    /\ audio_ts' = [s \in AudioSources |-> AfterDiscard(s).audio_ts]
    /\ input_size' = [s \in AudioSources |-> AfterDiscard(s).size]
    /\ last_audio_input_buf_size' = [s \in AudioSources |-> AfterDiscard(s).last]
    /\ pending_stop' = [s \in AudioSources |-> AfterDiscard(s).stop]
    /\ buffered_timestamps' = Tail(buffered_timestamps)
    /\ buffering_wait_ticks' =
           IF buffering_wait_ticks = 0 THEN 0 ELSE buffering_wait_ticks - 1
    /\ UNCHANGED <<total_buffering_ticks, buffered_ts, audio_pending,
                   audio_time, ts, jumps, last_mixed, mixed>>

-----------------------------------------------------------------------------

AudioNext ==
    \/ \E s \in AudioSources : PushBack(s) \/ Place(s)
    \/ Render \/ Buffer \/ Mix \/ DiscardAudio

AudioSpec == AudioInit /\ [][AudioNext]_audioVars

-----------------------------------------------------------------------------
(* Properties                                                               *)

AudioTypeOK ==
    /\ buffered_timestamps \in Seq(Nat)
    /\ {total_buffering_ticks, buffering_wait_ticks}
           \subseteq 0 .. MAX_BUFFERING_TICKS
    /\ {buffered_ts, audio_time, ts.start, ts.end, jumps} \subseteq Nat
    /\ audio_ts \in [AudioSources -> Nat]
    /\ input_size \in [AudioSources -> 0 .. MaxBufFrames]
    /\ last_audio_input_buf_size \in [AudioSources -> 0 .. MaxBufFrames]
    /\ audio_pending \in [AudioSources -> BOOLEAN]
    /\ pending_stop \in [AudioSources -> BOOLEAN]
    /\ step \in {"render", "buffer", "mix", "discard"}
    /\ last_mixed \in Nat \cup {-1} /\ mixed \subseteq AudioSources

\* However often and by however much sources are late, the ticks in the buffer
\* cover the time up to now without a gap or a tick that comes twice, there are
\* as many as the buffering that was announced, and the first that is not only
\* waited for follows the tick that was mixed last: the output has no hole.  And
\* the audio of a source that was mixed is used up: no sample is mixed twice and
\* the source is not late for the next tick on its account, though its thread
\* adds to the buffer at any time.  Only when a source was late by less than a
\* frame is that not said: then the tick's end was not set (AddBuffering).
TicksFollow ==
    step = "render" =>
        /\ buffered_timestamps =
               [k \in 1 .. total_buffering_ticks |->
                    audio_time - (total_buffering_ticks - k + 1) * Tick]
        /\ last_mixed # -1 =>
               /\ last_mixed + Tick =
                      audio_time
                          - (total_buffering_ticks - buffering_wait_ticks) * Tick
               /\ ts.end = ts.start + Tick =>
                      \A s \in mixed : audio_ts[s] = last_mixed + Tick

\* "if a source has gone backward in time, buffer" (obs-audio.c:432): then the
\* tick that is worked on is not later than any source that has a tick of audio,
\* but for less than a frame, which counts as none, unless the limit is reached.
LateSourceBuffered ==
    [][Buffer /\ total_buffering_ticks' < MAX_BUFFERING_TICKS
          => \A s \in AudioSources :
                 ~audio_pending'[s] =>
                     ts'.start < audio_ts[s] + FrameTime]_audioVars
=============================================================================
