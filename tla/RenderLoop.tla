------------------------------ MODULE RenderLoop ------------------------------
(***************************************************************************)
(* The graphics thread of libobs/obs-video.c.  A picture is rendered, scaled,*)
(* converted (only with gpu_conversion) and staged in consecutive iterations *)
(* of the loop, each stage reading the texture the previous iteration wrote, *)
(* while the time stamps of the iterations wait in vframe_info_buffer until  *)
(* their picture can be downloaded.  Time is counted in frame intervals; a    *)
(* picture is named by the video_time at which it was rendered.              *)
(***************************************************************************)
EXTENDS Integers, Sequences

CONSTANTS
    NumTextures,  \* NUM_TEXTURES
    MaxCount,     \* bound: the largest lag of one iteration, in intervals
    MaxClock,     \* bound: the intervals rendered
    MaxFailures   \* bound: downloads that fail between two resets

ASSUME RenderLoopAssumption ==
    /\ NumTextures \in Nat \ {0, 1}
    /\ MaxCount \in Nat \ {0}
    /\ MaxClock \in Nat
    /\ MaxFailures \in Nat

VARIABLES
    gpu_conversion,
    render_textures, output_textures, convert_textures, copy_surfaces,
    cur_texture, mapped_surface,
    vframe_info_buffer,
    video_time,
    pc,         \* which part of the loop body runs next
    emitted,    \* history: the frame last passed to output_video_data
    failures    \* history: downloads that failed since the last reset

textureVars ==
    <<render_textures, output_textures, convert_textures, copy_surfaces>>
renderVars == <<gpu_conversion, textureVars, cur_texture, mapped_surface,
          vframe_info_buffer, video_time, pc, emitted, failures>>

Texture == 0 .. NumTextures - 1
Unset    == -1   \* the textures_* flag is false, the surface pointer is NULL

NoFrame   == [image |-> Unset, timestamp |-> Unset, count |-> 0]
Prev(t)   == IF t = 0 THEN NumTextures - 1 ELSE t - 1

\* Faulty variant: cur_texture is never wrapped.
NextTexNoWrap(t) == t + 1

NextTex(t) == IF t + 1 = NumTextures THEN 0 ELSE t + 1

\* What obs_free_video leaves behind and obs_init_video starts from.
Fresh(textures) == textures = [t \in Texture |-> Unset]

RenderInit ==
    /\ gpu_conversion \in BOOLEAN
    /\ Fresh(render_textures) /\ Fresh(output_textures)
    /\ Fresh(convert_textures) /\ Fresh(copy_surfaces)
    /\ cur_texture = 0 /\ mapped_surface = Unset
    /\ vframe_info_buffer = <<>>
    /\ video_time = 0 /\ pc = "output"
    /\ emitted = NoFrame /\ failures = 0

-----------------------------------------------------------------------------

\* One stage of the pipeline: the texture the last iteration produced, if it
\* produced one, goes into the current texture of the next kind.
Pass(from, to) ==
    IF from[Prev(cur_texture)] = Unset THEN to
    ELSE [to EXCEPT ![cur_texture] = from[Prev(cur_texture)]]

RenderMainTexture ==
    render_textures' = [render_textures EXCEPT ![cur_texture] = video_time]

RenderOutputTexture ==
    output_textures' = Pass(render_textures, output_textures)

RenderConvertTexture ==
    convert_textures' = IF gpu_conversion
                        THEN Pass(output_textures, convert_textures)
                        ELSE convert_textures

StageOutputTexture ==
    copy_surfaces' = Pass(IF gpu_conversion THEN convert_textures
                                            ELSE output_textures, copy_surfaces)

RenderVideo ==
    /\ RenderMainTexture /\ RenderOutputTexture
    /\ RenderConvertTexture /\ StageOutputTexture

\* download_frame found no staged picture: nothing is output.
NotReady ==
    /\ copy_surfaces[Prev(cur_texture)] = Unset
    /\ mapped_surface' = Unset
    /\ UNCHANGED <<vframe_info_buffer, emitted, failures>>

\* gs_stagesurface_map failed: the picture is lost, its time stamp stays.
MapFails ==
    /\ copy_surfaces[Prev(cur_texture)] # Unset
    /\ failures < MaxFailures
    /\ failures' = failures + 1
    /\ mapped_surface' = Unset
    /\ UNCHANGED <<vframe_info_buffer, emitted>>

\* The picture goes to output_video_data with the oldest waiting time stamp.
Emit ==
    /\ copy_surfaces[Prev(cur_texture)] # Unset
    /\ vframe_info_buffer # <<>>
    /\ mapped_surface' = Prev(cur_texture)
    /\ emitted' = [image     |-> copy_surfaces[Prev(cur_texture)],
                   timestamp |-> Head(vframe_info_buffer).timestamp,
                   count     |-> Head(vframe_info_buffer).count]
    /\ vframe_info_buffer' = Tail(vframe_info_buffer)
    /\ UNCHANGED failures

\* output_frame
OutputFrame ==
    /\ pc = "output" /\ pc' = "sleep"
    /\ RenderVideo
    /\ NotReady \/ MapFails \/ Emit
    /\ cur_texture' = NextTex(cur_texture)
    /\ UNCHANGED <<gpu_conversion, video_time>>

\* Faulty variant: a late iteration is not told to have lasted longer.
VideoSleepLosingLag ==
    /\ pc = "sleep" /\ pc' = "output"
    /\ \E count \in 1 .. MaxCount :
          /\ video_time + count =< MaxClock
          /\ vframe_info_buffer' = Append(vframe_info_buffer,
                [timestamp |-> video_time, count |-> 1])
          /\ video_time' = video_time + count
    /\ UNCHANGED <<gpu_conversion, textureVars, cur_texture, mapped_surface,
                   emitted, failures>>

\* video_sleep: the iteration took `count' intervals.
VideoSleep ==
    /\ pc = "sleep" /\ pc' = "output"
    /\ \E count \in 1 .. MaxCount :
          /\ video_time + count =< MaxClock
          /\ vframe_info_buffer' = Append(vframe_info_buffer,
                [timestamp |-> video_time, count |-> count])
          /\ video_time' = video_time + count
    /\ UNCHANGED <<gpu_conversion, textureVars, cur_texture, mapped_surface,
                   emitted, failures>>

\* Faulty variant: the waiting time stamps are kept.
ResetKeepingTimestamps ==
    /\ pc = "output" /\ video_time < MaxClock
    /\ gpu_conversion' \in BOOLEAN
    /\ Fresh(render_textures') /\ Fresh(output_textures')
    /\ Fresh(convert_textures') /\ Fresh(copy_surfaces')
    /\ cur_texture' = 0 /\ mapped_surface' = Unset
    /\ vframe_info_buffer' = vframe_info_buffer
    /\ video_time' = video_time + 1
    /\ emitted' = NoFrame /\ failures' = 0
    /\ UNCHANGED pc

\* obs_reset_video: the thread left the loop at its head and was joined, the
\* buffers are freed and the thread starts again at the current time.
ResetVideo ==
    /\ pc = "output" /\ video_time < MaxClock
    /\ gpu_conversion' \in BOOLEAN
    /\ Fresh(render_textures') /\ Fresh(output_textures')
    /\ Fresh(convert_textures') /\ Fresh(copy_surfaces')
    /\ cur_texture' = 0 /\ mapped_surface' = Unset
    /\ vframe_info_buffer' = <<>>
    /\ video_time' = video_time + 1
    /\ emitted' = NoFrame /\ failures' = 0
    /\ UNCHANGED pc

RenderNext == OutputFrame \/ VideoSleep \/ ResetVideo

RenderSpec == RenderInit /\ [][RenderNext]_renderVars

-----------------------------------------------------------------------------
(* Properties                                                               *)

Time == Nat \cup {Unset}

RenderTypeOK ==
    /\ gpu_conversion \in BOOLEAN
    /\ render_textures \in [Texture -> Time]
    /\ output_textures \in [Texture -> Time]
    /\ convert_textures \in [Texture -> Time]
    /\ copy_surfaces \in [Texture -> Time]
    /\ cur_texture \in Texture /\ mapped_surface \in Texture \cup {Unset}
    /\ vframe_info_buffer \in
          Seq([timestamp : Nat, count : 1 .. MaxCount])
    /\ video_time \in Nat /\ pc \in {"output", "sleep"}
    /\ emitted \in [image : Time, timestamp : Time, count : Nat]
    /\ failures \in Nat

\* A staged picture always finds its time stamp waiting: popping from an empty
\* vframe_info_buffer would corrupt the circular buffer.
TimestampWaiting ==
    pc = "output" /\ copy_surfaces[Prev(cur_texture)] # Unset
        => vframe_info_buffer # <<>>

\* A picture leaves with the time at which it was rendered, although the
\* textures and the time stamps travel through separate queues - as long as
\* no download failed since the last reset.
TimestampMatchesImage ==
    failures = 0 => emitted.image = emitted.timestamp

\* Each failed download leaves one time stamp behind for good: from then on
\* every picture is stamped that many iterations too early, never too late.
ImageNotBeforeTimestamp ==
    /\ emitted.timestamp =< emitted.image
    /\ emitted # NoFrame /\ pc = "sleep" =>
          LET stages == IF gpu_conversion THEN 3 ELSE 2
          IN  Len(vframe_info_buffer) = stages + failures

\* All three: however pictures and time stamps are delayed, lost or thrown away,
\* the two queues drift apart by the failed downloads and by nothing else.
TimestampsKeepPace ==
    TimestampWaiting /\ TimestampMatchesImage /\ ImageNotBeforeTimestamp

\* Frames leave without a hole in the time line: the one after this begins
\* where this one ends.  (The frame cache of VideoIO relies on it.)
FramesTile ==
    emitted # NoFrame =>
        emitted.timestamp + emitted.count =
            IF vframe_info_buffer = <<>> THEN video_time
            ELSE Head(vframe_info_buffer).timestamp

=============================================================================
