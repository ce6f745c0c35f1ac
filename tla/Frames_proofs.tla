---------------------------- MODULE Frames_proofs ----------------------------
(***************************************************************************)
(* RenderLoop, for every number of textures from two on, every lag of the   *)
(* graphics thread and every number of failed downloads: the pictures and   *)
(* their time stamps keep pace, and the frames tile the time.               *)
(* AsyncFrames: every frame of an asynchronous source is freed when, and    *)
(* only when, nobody has it any more: FramesIntact is proved for any number *)
(* of frames, any length of the queue and of the delay filter, and any time *)
(* a frame may stay unused, as long as the capture thread does not free the *)
(* cache while async_tick reads the frame it has just taken.                *)
(***************************************************************************)
EXTENDS RenderLoop, AsyncFrames, FiniteSetTheorems, WellFoundedInduction,
        SequenceTheorems, TLAPS

-----------------------------------------------------------------------------

(* The inductive invariant.  The time stamps that wait, with the one that    *)
(* video_sleep is about to add, say what every stage of the pipeline has.    *)

Waiting == Len(vframe_info_buffer)

\* The i-th of the times that wait; the one after the last is the current time.
TimeAt(i) == IF i = Waiting + 1 THEN video_time
             ELSE vframe_info_buffer[i].timestamp

\* Iterations whose time stamp waits, the one that sleeps included.
Iterations == IF pc = "sleep" THEN Waiting + 1 ELSE Waiting

\* The time of the picture that the k-th stage has made last.
Rendered(k) == IF k <= Iterations THEN TimeAt(Iterations - k + 1) ELSE Unset

\* A stage has made its picture in the last iteration, and none before it was
\* its turn.
Has(textures, k) ==
    /\ textures[Prev(cur_texture)] = Rendered(k)
    /\ Iterations < k => Fresh(textures)

Stages == IF gpu_conversion THEN 4 ELSE 3

StagesInStep ==
    /\ Has(render_textures, 1)
    /\ Has(output_textures, 2)
    /\ gpu_conversion => Has(convert_textures, 3)
    /\ Has(copy_surfaces, Stages)

\* A full pipeline has as many time stamps as it has stages, and one for each
\* download that failed.
TimesAreStages == IF Iterations < Stages THEN failures = 0 /\ emitted = NoFrame
                  ELSE Iterations = Stages + failures

TimesTile ==
    \A i \in 1 .. Waiting :
        vframe_info_buffer[i].timestamp + vframe_info_buffer[i].count
            = TimeAt(i + 1)

TimesAscend ==
    \A i, j \in 1 .. Waiting + 1 : i <= j => TimeAt(i) <= TimeAt(j)

EmittedInTime ==
    /\ emitted.timestamp <= emitted.image
    /\ failures = 0 => emitted.image = emitted.timestamp
    /\ emitted # NoFrame => emitted.timestamp + emitted.count = TimeAt(1)

RenderInv ==
    /\ RenderTypeOK /\ StagesInStep /\ TimesAreStages
    /\ TimesTile /\ TimesAscend /\ EmittedInTime

-----------------------------------------------------------------------------
(* The step of a stage, and of the texture that is current                   *)

(* The texture that is current is the last one in the next iteration.        *)
LEMMA CurIsLast ==
    ASSUME NEW t \in Texture
    PROVE  /\ Prev(t) \in Texture /\ Prev(t) # t
           /\ NextTex(t) \in Texture /\ Prev(NextTex(t)) = t
  BY RenderLoopAssumption DEF Texture, Prev, NextTex

(* The times that wait are times.                                            *)
LEMMA TimesAreNat ==
    ASSUME RenderTypeOK
    PROVE  /\ Waiting \in Nat /\ Iterations \in Nat
           /\ Iterations \in {Waiting, Waiting + 1}
           /\ \A i \in 1 .. Waiting + 1 : TimeAt(i) \in Nat
  <1> DEFINE info == [timestamp : Nat, count : 1 .. MaxCount]
  <1>1. vframe_info_buffer \in Seq(info) /\ video_time \in Nat
      BY DEF RenderTypeOK
  <1>2. Waiting \in Nat
      BY <1>1 DEF Waiting
  <1>3. ASSUME NEW i \in 1 .. Waiting
        PROVE  vframe_info_buffer[i].timestamp \in Nat
    <2>1. vframe_info_buffer[i] \in info
      <3> HIDE DEF info
      <3>1. QED
          BY <1>1 DEF Waiting
    <2>2. QED
        BY <2>1
  <1>4. QED
      BY <1>1, <1>2, <1>3 DEF TimeAt, Iterations

(* A stage that finds a picture passes it on, one that finds none leaves its *)
(* own textures as empty as they are.                                        *)
LEMMA StagePasses ==
    ASSUME cur_texture \in Texture,
           NEW from \in [Texture -> Time], NEW to \in [Texture -> Time],
           NEW k \in Nat, NEW into, Iterations \in Nat,
           Has(from, k), Has(to, k + 1),
           k <= Iterations => Rendered(k) # Unset,
           into = Pass(from, to)
    PROVE  /\ into \in [Texture -> Time]
           /\ into[cur_texture] = Rendered(k)
           /\ Iterations < k => Fresh(into)
  <1>1. Prev(cur_texture) \in Texture /\ from[Prev(cur_texture)] = Rendered(k)
      BY CurIsLast DEF Has
  <1>2. from[Prev(cur_texture)] \in Time
      BY <1>1
  <1>3. into \in [Texture -> Time]
      BY <1>2 DEF Pass
  <1>4. CASE Iterations < k
    <2>1. Rendered(k) = Unset /\ Fresh(to)
        BY <1>4 DEF Rendered, Has
    <2>2. into = to
        BY <1>1, <2>1 DEF Pass
    <2>3. QED
        BY <1>3, <1>4, <2>1, <2>2 DEF Fresh
  <1>5. CASE ~(Iterations < k)
      BY <1>1, <1>3, <1>5 DEF Pass
  <1>6. QED
      BY <1>4, <1>5

-----------------------------------------------------------------------------
(* Initialization                                                           *)

(* A video core that was just created has no pictures and no times.          *)
LEMMA InitRenderInv == RenderInit => RenderInv
  <1> SUFFICES ASSUME RenderInit PROVE RenderInv
      OBVIOUS
  <1> USE RenderLoopAssumption DEF RenderInit
  <1>1. RenderTypeOK
    <2>1. /\ render_textures \in [Texture -> Time]
          /\ output_textures \in [Texture -> Time]
          /\ convert_textures \in [Texture -> Time]
          /\ copy_surfaces \in [Texture -> Time]
        BY DEF Fresh, Time
    <2>2. emitted \in [image : Time, timestamp : Time, count : Nat]
        BY DEF NoFrame, Time
    <2>3. QED
        BY <2>1, <2>2 DEF RenderTypeOK, Texture
  <1>2. Waiting = 0 /\ Iterations = 0
      BY DEF Waiting, Iterations
  <1>3. Prev(cur_texture) \in Texture
      BY CurIsLast DEF Texture
  <1>4. StagesInStep
      BY <1>2, <1>3 DEF StagesInStep, Has, Rendered, Fresh, Stages
  <1>5. TimesAreStages
      BY <1>2 DEF TimesAreStages, Stages
  <1>6. TimesTile /\ TimesAscend
      BY <1>2 DEF TimesTile, TimesAscend, TimeAt
  <1>7. EmittedInTime
      BY DEF EmittedInTime, NoFrame, Unset
  <1>8. QED
      BY <1>1, <1>4, <1>5, <1>6, <1>7 DEF RenderInv

(* obs_reset_video leaves what obs_init_video starts from.                   *)
LEMMA ResetRenderInv == RenderInv /\ ResetVideo => RenderInv'
  <1> SUFFICES ASSUME RenderInv, ResetVideo PROVE RenderInv'
      OBVIOUS
  <1> USE RenderLoopAssumption DEF ResetVideo
  <1>1. RenderTypeOK'
    <2>1. /\ render_textures' \in [Texture -> Time]
          /\ output_textures' \in [Texture -> Time]
          /\ convert_textures' \in [Texture -> Time]
          /\ copy_surfaces' \in [Texture -> Time]
        BY DEF Fresh, Time
    <2>2. emitted' \in [image : Time, timestamp : Time, count : Nat]
        BY DEF NoFrame, Time
    <2>3. video_time' \in Nat /\ cur_texture' \in Texture
        BY DEF RenderInv, RenderTypeOK, Texture
    <2>4. QED
        BY <2>1, <2>2, <2>3 DEF RenderInv, RenderTypeOK
  <1>2. Waiting' = 0 /\ Iterations' = 0
      BY DEF Waiting, Iterations
  <1>3. Prev(cur_texture)' \in Texture
      BY <1>1, CurIsLast DEF Texture, Prev
  <1>4. StagesInStep'
      BY <1>2, <1>3 DEF StagesInStep, Has, Rendered, Fresh, Stages
  <1>5. TimesAreStages'
      BY <1>2 DEF TimesAreStages, Stages
  <1>6. TimesTile' /\ TimesAscend'
      BY <1>1, <1>2 DEF TimesTile, TimesAscend, TimeAt, RenderTypeOK
  <1>7. EmittedInTime'
      BY DEF EmittedInTime, NoFrame, Unset
  <1>8. QED
      BY <1>1, <1>4, <1>5, <1>6, <1>7 DEF RenderInv

(* video_sleep adds the time that the pipeline already counted on.           *)
LEMMA SleepRenderInv == RenderInv /\ VideoSleep => RenderInv'
  <1> SUFFICES ASSUME RenderInv, VideoSleep PROVE RenderInv'
      OBVIOUS
  <1> DEFINE info == [timestamp : Nat, count : 1 .. MaxCount]
  <1>0. PICK w \in Nat : w = Waiting
      BY TimesAreNat DEF RenderInv
  <1>1. PICK count \in 1 .. MaxCount :
           /\ vframe_info_buffer' =
                 Append(vframe_info_buffer, [timestamp |-> video_time, count |-> count])
           /\ video_time' = video_time + count
      BY DEF VideoSleep
  <1>2. RenderTypeOK
      BY DEF RenderInv
  <1> USE RenderLoopAssumption
  <1>3. [timestamp |-> video_time, count |-> count] \in info
      BY <1>2 DEF RenderTypeOK
  <1>4. vframe_info_buffer \in Seq(info)
      BY <1>2 DEF RenderTypeOK
  <1>5. /\ vframe_info_buffer' \in Seq(info)
        /\ Waiting = w /\ Waiting' = w + 1
        /\ \A i \in 1 .. w : vframe_info_buffer'[i] = vframe_info_buffer[i]
        /\ vframe_info_buffer'[w + 1] =
              [timestamp |-> video_time, count |-> count]
      BY <1>0, <1>1, <1>3, <1>4 DEF Waiting
  <1>6. RenderTypeOK'
    <2>1. video_time' \in Nat
        BY <1>1, <1>2 DEF RenderTypeOK
    <2>2. QED
        BY <1>2, <1>5, <2>1 DEF VideoSleep, RenderTypeOK, textureVars
  <1>7. Iterations' = Iterations
      BY <1>5 DEF VideoSleep, Iterations
  <1>8. ASSUME NEW i \in 1 .. w + 1 PROVE TimeAt(i)' = TimeAt(i)
    <2>1. CASE i = w + 1
      <3>1. TimeAt(i) = video_time /\ Waiting' + 1 # i
          BY <1>5, <2>1 DEF TimeAt
      <3>2. TimeAt(i)' = vframe_info_buffer'[i].timestamp
          BY <3>1 DEF TimeAt
      <3>3. QED
          BY <1>5, <2>1, <3>1, <3>2
    <2>2. CASE i # w + 1
      <3>1. i \in 1 .. w /\ i # Waiting + 1 /\ i # Waiting' + 1
          BY <1>5, <2>2
      <3>2. vframe_info_buffer'[i] = vframe_info_buffer[i]
          BY <1>5, <3>1
      <3>3. QED
          BY <3>1, <3>2 DEF TimeAt
    <2>3. QED
        BY <2>1, <2>2
  <1>9. TimeAt(w + 2)' = video_time + count
      BY <1>1, <1>5 DEF TimeAt
  <1>10. StagesInStep'
    <2>1. Iterations \in 0 .. w + 1
        BY <1>2, <1>5, TimesAreNat
    <2>2. \A k \in 1 .. 4 : Rendered(k)' = Rendered(k)
        BY <1>2, <1>5, <1>7, <1>8, <2>1, TimesAreNat DEF Rendered
    <2>3. StagesInStep
        BY DEF RenderInv
    <2>4. QED
        BY <1>7, <2>2, <2>3
           DEF VideoSleep, StagesInStep, Has, Stages, Fresh, textureVars
  <1>11. TimesAreStages'
      BY <1>7 DEF RenderInv, VideoSleep, TimesAreStages, Stages
  <1>12. TimesTile'
    <2> SUFFICES ASSUME NEW i \in 1 .. w + 1
                 PROVE  vframe_info_buffer'[i].timestamp
                          + vframe_info_buffer'[i].count = TimeAt(i + 1)'
        BY <1>5 DEF TimesTile
    <2>1. CASE i = w + 1
        BY <1>5, <1>9, <2>1
    <2>2. CASE i # w + 1
      <3>1. i \in 1 .. w /\ i + 1 \in 1 .. w + 1
          BY <1>5, <2>2
      <3>2. QED
          BY <1>5, <1>8, <3>1 DEF RenderInv, TimesTile
    <2>3. QED
        BY <2>1, <2>2
  <1>13. TimesAscend'
    <2>0. Waiting' + 1 = w + 2
        BY <1>5
    <2> SUFFICES ASSUME NEW i \in 1 .. w + 2, NEW j \in 1 .. w + 2,
                        i <= j
                 PROVE  TimeAt(i)' <= TimeAt(j)'
        BY <2>0 DEF TimesAscend
    <2>1. TimeAt(w + 1) = video_time /\ video_time \in Nat
        BY <1>2, <1>5 DEF TimeAt, RenderTypeOK
    <2>2. ASSUME NEW n \in 1 .. w PROVE TimeAt(n) \in Nat
      <3>1. \A k \in 1 .. Waiting + 1 : TimeAt(k) \in Nat
          BY <1>2, TimesAreNat
      <3>2. Waiting = w /\ w \in Nat
          BY <1>5
      <3>3. QED
          BY <3>1, <3>2
    <2>3. CASE j = w + 2
      <3>1. CASE i = w + 2
          BY <1>9, <2>1, <2>3, <3>1
      <3>2. CASE i # w + 2
        <4>1. i \in 1 .. w + 1
            BY <1>5, <3>2
        <4>2. TimeAt(i) <= video_time /\ TimeAt(i) \in Nat
            BY <1>5, <2>1, <2>2, <4>1 DEF RenderInv, TimesAscend
        <4>3. QED
            BY <1>8, <1>9, <2>1, <2>3, <4>1, <4>2
      <3>3. QED
          BY <3>1, <3>2
    <2>4. CASE j # w + 2
      <3>0. w \in Nat
          BY <1>5
      <3>1. i \in 1 .. w + 1 /\ j \in 1 .. w + 1
          BY <2>4, <3>0
      <3>2. QED
          BY <1>5, <1>8, <3>1 DEF RenderInv, TimesAscend
    <2>5. QED
        BY <2>3, <2>4
  <1>14. EmittedInTime'
      BY <1>5, <1>8 DEF RenderInv, VideoSleep, EmittedInTime
  <1>15. QED
      BY <1>6, <1>10, <1>11, <1>12, <1>13, <1>14 DEF RenderInv

(* When the times move by one, the pictures do.                              *)
LEMMA StagesFollow ==
    ASSUME RenderInv, OutputFrame,
           Iterations' \in Nat \ {0}, Rendered(1)' = video_time,
           \A k \in 1 .. 3 : k < Stages =>
              /\ Rendered(k + 1)' = Rendered(k)
              /\ Iterations' < k + 1 => Iterations < k
    PROVE  /\ StagesInStep'
           /\ render_textures' \in [Texture -> Time]
           /\ output_textures' \in [Texture -> Time]
           /\ convert_textures' \in [Texture -> Time]
           /\ copy_surfaces' \in [Texture -> Time]
  <1> USE RenderLoopAssumption
  <1>1. RenderTypeOK /\ StagesInStep
      BY DEF RenderInv
  <1>2. /\ cur_texture \in Texture /\ Prev(cur_texture)' = cur_texture
        /\ gpu_conversion' = gpu_conversion /\ Stages' = Stages
      BY <1>1, CurIsLast DEF RenderTypeOK, OutputFrame, Prev, Stages
  <1>3. /\ Iterations \in Nat
        /\ \A k \in 1 .. 3 : k <= Iterations => Rendered(k) # Unset
    <2>1. ASSUME NEW k \in 1 .. 3, k <= Iterations PROVE Rendered(k) # Unset
      <3>1. Iterations - k + 1 \in 1 .. Waiting + 1
          BY <1>1, <2>1, TimesAreNat
      <3>2. Rendered(k) \in Nat
          BY <1>1, <2>1, <3>1, TimesAreNat DEF Rendered
      <3>3. QED
          BY <3>2 DEF Unset
    <2>2. QED
        BY <1>1, <2>1, TimesAreNat
  <1>4. /\ render_textures' \in [Texture -> Time]
        /\ Has(render_textures, 1)'
    <2>1. video_time \in Time
        BY <1>1 DEF RenderTypeOK, Time
    <2>2. render_textures' = [render_textures EXCEPT ![cur_texture] = video_time]
        BY DEF OutputFrame, RenderVideo, RenderMainTexture
    <2>3. QED
        BY <1>1, <1>2, <2>1, <2>2 DEF RenderTypeOK, Has
  <1>5. /\ output_textures' \in [Texture -> Time]
        /\ Has(output_textures, 2)'
    <2>1. output_textures' = Pass(render_textures, output_textures)
        BY DEF OutputFrame, RenderVideo, RenderOutputTexture
    <2>2. /\ output_textures' \in [Texture -> Time]
          /\ output_textures'[cur_texture] = Rendered(1)
          /\ Iterations < 1 => Fresh(output_textures')
      <3>1. /\ render_textures \in [Texture -> Time] /\ Has(render_textures, 1)
            /\ output_textures \in [Texture -> Time] /\ Has(output_textures, 1 + 1)
          BY <1>1 DEF RenderTypeOK, StagesInStep
      <3>2. 1 <= Iterations => Rendered(1) # Unset
          BY <1>3
      <3>3. QED
          BY <1>2, <1>3, <2>1, <3>1, <3>2, StagePasses
    <2>3. Rendered(2)' = Rendered(1) /\ (Iterations' < 2 => Iterations < 1)
        BY DEF Stages
    <2>4. QED
        BY <1>2, <2>2, <2>3 DEF Has, Fresh
  <1>6. /\ convert_textures' \in [Texture -> Time]
        /\ gpu_conversion => Has(convert_textures, 3)'
    <2>1. CASE gpu_conversion
      <3>1. convert_textures' = Pass(output_textures, convert_textures)
          BY <2>1 DEF OutputFrame, RenderVideo, RenderConvertTexture
      <3>2. /\ convert_textures' \in [Texture -> Time]
            /\ convert_textures'[cur_texture] = Rendered(2)
            /\ Iterations < 2 => Fresh(convert_textures')
        <4>1. /\ output_textures \in [Texture -> Time] /\ Has(output_textures, 2)
              /\ convert_textures \in [Texture -> Time]
              /\ Has(convert_textures, 2 + 1)
            BY <1>1, <2>1 DEF RenderTypeOK, StagesInStep
        <4>2. 2 <= Iterations => Rendered(2) # Unset
            BY <1>3
        <4>3. QED
            BY <1>2, <1>3, <3>1, <4>1, <4>2, StagePasses
      <3>3. Rendered(3)' = Rendered(2) /\ (Iterations' < 3 => Iterations < 2)
          BY <2>1 DEF Stages
      <3>4. QED
          BY <1>2, <3>2, <3>3 DEF Has, Fresh
    <2>2. CASE ~gpu_conversion
        BY <1>1, <2>2
           DEF RenderTypeOK, OutputFrame, RenderVideo, RenderConvertTexture
    <2>3. QED
        BY <2>1, <2>2
  <1>7. /\ copy_surfaces' \in [Texture -> Time]
        /\ Has(copy_surfaces, Stages)'
    <2> DEFINE from == IF gpu_conversion THEN convert_textures ELSE output_textures
               k == IF gpu_conversion THEN 3 ELSE 2
    <2>1. copy_surfaces' = Pass(from, copy_surfaces)
        BY DEF OutputFrame, RenderVideo, StageOutputTexture
    <2>2. /\ from \in [Texture -> Time] /\ k \in 1 .. 3 /\ Stages = k + 1
          /\ Has(from, k) /\ Has(copy_surfaces, k + 1)
        BY <1>1 DEF RenderTypeOK, StagesInStep, Stages
    <2>3. copy_surfaces \in [Texture -> Time]
        BY <1>1 DEF RenderTypeOK
    <2> HIDE DEF from, k
    <2>4. /\ copy_surfaces' \in [Texture -> Time]
          /\ copy_surfaces'[cur_texture] = Rendered(k)
          /\ Iterations < k => Fresh(copy_surfaces')
        BY <1>2, <1>3, <2>1, <2>2, <2>3, StagePasses
    <2>5. Rendered(Stages)' = Rendered(k) /\ (Iterations' < Stages => Iterations < k)
        BY <1>2, <2>2 DEF Rendered
    <2>6. QED
        BY <1>2, <2>4, <2>5 DEF Has, Fresh
  <1>8. QED
      BY <1>2, <1>4, <1>5, <1>6, <1>7 DEF StagesInStep

(* output_frame renders a picture, moves those of the stages by one and      *)
(* takes the time of the one that leaves the pipeline.                       *)
LEMMA OutputRenderInv == RenderInv /\ OutputFrame => RenderInv'
  <1> SUFFICES ASSUME RenderInv, OutputFrame PROVE RenderInv'
      OBVIOUS
  <1> DEFINE info == [timestamp : Nat, count : 1 .. MaxCount]
  <1>0. PICK w \in Nat : w = Waiting
      BY TimesAreNat DEF RenderInv
  <1> USE RenderLoopAssumption
  <1>1. RenderTypeOK /\ StagesInStep /\ TimesAreStages /\ TimesTile
        /\ TimesAscend /\ EmittedInTime
      BY DEF RenderInv
  <1>2. /\ vframe_info_buffer \in Seq(info) /\ video_time \in Nat
        /\ Waiting = w /\ Iterations = w
      BY <1>0, <1>1 DEF RenderTypeOK, OutputFrame, Iterations
  <1>3. \A i \in 1 .. w + 1 : TimeAt(i) \in Nat
      BY <1>1, <1>2, TimesAreNat
  <1>4. /\ cur_texture' \in Texture /\ Prev(cur_texture)' = cur_texture
        /\ Prev(cur_texture) \in Texture /\ cur_texture \in Texture
      BY <1>1, CurIsLast DEF RenderTypeOK, OutputFrame, Prev
  <1>5. Stages \in {3, 4} /\ Stages' = Stages /\ failures \in Nat
      BY <1>1 DEF Stages, OutputFrame, RenderTypeOK
  <1> DEFINE Types == /\ render_textures \in [Texture -> Time]
                      /\ output_textures \in [Texture -> Time]
                      /\ convert_textures \in [Texture -> Time]
                      /\ copy_surfaces \in [Texture -> Time]
  <1>6. copy_surfaces[Prev(cur_texture)] # Unset <=> w >= Stages
    <2>1. copy_surfaces[Prev(cur_texture)] = Rendered(Stages)
        BY <1>1 DEF StagesInStep, Has
    <2>2. CASE w >= Stages
      <3>1. w - Stages + 1 \in 1 .. w + 1
          BY <1>2, <1>5, <2>2
      <3>2. Rendered(Stages) \in Nat
          BY <1>2, <1>3, <1>5, <2>2, <3>1 DEF Rendered
      <3>3. QED
          BY <2>1, <2>2, <3>2 DEF Unset
    <2>3. CASE ~(w >= Stages)
        BY <1>2, <1>5, <2>1, <2>3 DEF Rendered
    <2>4. QED
        BY <2>2, <2>3
  <1>7. CASE Emit
    <2>1. /\ w >= Stages /\ w = Stages + failures
          /\ vframe_info_buffer # <<>>
        BY <1>1, <1>2, <1>5, <1>6, <1>7 DEF Emit, TimesAreStages
    <2>2. /\ vframe_info_buffer' \in Seq(info) /\ Waiting' = w - 1
          /\ \A i \in 1 .. w - 1 :
                vframe_info_buffer'[i] = vframe_info_buffer[i + 1]
          /\ Head(vframe_info_buffer) = vframe_info_buffer[1]
        BY <1>2, <1>7, <2>1 DEF Emit, Waiting
    <2>3. \A i \in 1 .. w : TimeAt(i)' = TimeAt(i + 1)
      <3> SUFFICES ASSUME NEW i \in 1 .. w PROVE TimeAt(i)' = TimeAt(i + 1)
          OBVIOUS
      <3>1. video_time' = video_time
          BY DEF OutputFrame
      <3>2. CASE i = w
          BY <1>2, <2>2, <3>1, <3>2 DEF TimeAt
      <3>3. CASE i # w
          BY <1>2, <2>2, <3>1, <3>3, SMTT(30) DEF TimeAt
      <3>4. QED
          BY <3>2, <3>3
    <2>4. Iterations' = Iterations
        BY <1>2, <2>2 DEF OutputFrame, Iterations
    <2>5. StagesInStep' /\ Types'
      <3>1. Iterations' \in Nat \ {0}
          BY <1>2, <1>5, <2>1, <2>4
      <3>2. Rendered(1)' = video_time
        <4>1. TimeAt(w)' = video_time
            BY <1>2, <1>5, <2>1, <2>3 DEF TimeAt
        <4>2. QED
            BY <1>2, <1>5, <2>1, <2>4, <4>1 DEF Rendered
      <3>3. ASSUME NEW k \in 1 .. 3, k < Stages
            PROVE  /\ Rendered(k + 1)' = Rendered(k)
                   /\ Iterations' < k + 1 => Iterations < k
        <4>1. TimeAt(w - k)' = TimeAt(w - k + 1)
            BY <1>5, <2>1, <2>3, <3>3
        <4>2. k + 1 <= w /\ w - (k + 1) + 1 = w - k
            BY <1>5, <2>1, <3>3
        <4>3. Rendered(k + 1)' = TimeAt(w - k)'
            BY <1>2, <2>4, <4>2 DEF Rendered
        <4>4. QED
            BY <1>2, <2>4, <4>1, <4>2, <4>3 DEF Rendered
      <3>4. QED
          BY <3>1, <3>2, <3>3, StagesFollow
    <2>6. RenderTypeOK'
      <3>1. copy_surfaces[Prev(cur_texture)] \in Time
          BY <1>1, <1>4 DEF RenderTypeOK
      <3>2. vframe_info_buffer[1] \in info
        <4> HIDE DEF info
        <4>1. QED
            BY <1>2, <1>5, <2>1 DEF Waiting
      <3>3. emitted' \in [image : Time, timestamp : Time, count : Nat]
        <4>1. /\ Head(vframe_info_buffer).timestamp \in Time
              /\ Head(vframe_info_buffer).count \in Nat
            BY <2>2, <3>2 DEF Time
        <4>2. QED
            BY <1>7, <3>1, <4>1 DEF Emit
      <3>4. mapped_surface' \in Texture
          BY <1>4, <1>7 DEF Emit
      <3>5. QED
          BY <1>1, <1>4, <1>7, <2>2, <2>5, <3>3, <3>4
             DEF RenderTypeOK, OutputFrame, Emit
    <2>7. TimesAreStages'
        BY <1>2, <1>5, <1>7, <2>1, <2>4 DEF TimesAreStages, Emit
    <2>8. TimesTile'
      <3> SUFFICES ASSUME NEW i \in 1 .. w - 1
                   PROVE  vframe_info_buffer'[i].timestamp
                            + vframe_info_buffer'[i].count = TimeAt(i + 1)'
          BY <2>2 DEF TimesTile
      <3>1. i + 1 \in 1 .. w
          OBVIOUS
      <3>2. QED
          BY <1>1, <1>2, <2>2, <2>3, <3>1 DEF TimesTile
    <2>9. TimesAscend'
      <3>1. Waiting' + 1 = w
          BY <2>2
      <3> SUFFICES ASSUME NEW i \in 1 .. w, NEW j \in 1 .. w, i <= j
                   PROVE  TimeAt(i)' <= TimeAt(j)'
          BY <3>1 DEF TimesAscend
      <3>2. TimeAt(i + 1) <= TimeAt(j + 1)
          BY <1>1, <1>2 DEF TimesAscend
      <3>3. QED
          BY <2>3, <3>2
    <2>10. EmittedInTime'
      <3>1. emitted'.timestamp = TimeAt(1) /\ 1 \in 1 .. w
          BY <1>2, <1>5, <1>7, <2>1, <2>2 DEF Emit, TimeAt
      <3>2. emitted'.image = TimeAt(failures + 1) /\ failures + 1 \in 1 .. w + 1
        <4>1. copy_surfaces[Prev(cur_texture)] = Rendered(Stages)
            BY <1>1 DEF StagesInStep, Has
        <4>2. w - Stages + 1 = failures + 1
            BY <1>5, <2>1
        <4>3. QED
            BY <1>2, <1>5, <1>7, <2>1, <4>1, <4>2 DEF Emit, Rendered
      <3>3. emitted'.timestamp + emitted'.count = TimeAt(2)
        <4>1. TimeAt(1) = vframe_info_buffer[1].timestamp
            BY <1>2, <1>5, <2>1 DEF TimeAt
        <4>2. emitted'.count = vframe_info_buffer[1].count
            BY <1>7, <2>2 DEF Emit
        <4>3. QED
            BY <1>1, <1>2, <3>1, <4>1, <4>2 DEF TimesTile
      <3>4. TimeAt(1)' = TimeAt(2)
          BY <2>3, <3>1
      <3>5. emitted'.timestamp <= emitted'.image
          BY <1>1, <1>2, <1>5, <3>1, <3>2 DEF TimesAscend
      <3>6. failures' = 0 => emitted'.image = emitted'.timestamp
          BY <1>7, <3>1, <3>2 DEF Emit
      <3>7. QED
          BY <3>3, <3>4, <3>5, <3>6 DEF EmittedInTime
    <2>11. QED
        BY <2>5, <2>6, <2>7, <2>8, <2>9, <2>10 DEF RenderInv
  <1>8. CASE NotReady \/ MapFails
    <2>1. /\ UNCHANGED <<vframe_info_buffer, emitted, video_time, gpu_conversion>>
          /\ Waiting' = w
        BY <1>2, <1>8 DEF OutputFrame, NotReady, MapFails, Waiting
    <2>2. Iterations' = w + 1
        BY <2>1 DEF OutputFrame, Iterations
    <2>3. \A i \in 1 .. w + 1 : TimeAt(i)' = TimeAt(i)
        BY <1>2, <2>1 DEF TimeAt
    <2>4. StagesInStep' /\ Types'
      <3>1. Rendered(1)' = video_time
        <4>1. TimeAt(w + 1)' = video_time
            BY <1>2, <2>1 DEF TimeAt
        <4>2. QED
            BY <2>2, <4>1 DEF Rendered
      <3>2. ASSUME NEW k \in 1 .. 3, k < Stages
            PROVE  /\ Rendered(k + 1)' = Rendered(k)
                   /\ Iterations' < k + 1 => Iterations < k
        <4>1. CASE k <= w
          <5>1. w + 1 - (k + 1) + 1 = w - k + 1 /\ w - k + 1 \in 1 .. w + 1
              BY <4>1
          <5>2. Rendered(k + 1)' = TimeAt(w - k + 1)'
              BY <2>2, <4>1, <5>1 DEF Rendered
          <5>3. QED
              BY <1>2, <2>2, <2>3, <4>1, <5>1, <5>2 DEF Rendered
        <4>2. CASE ~(k <= w)
            BY <1>2, <2>2, <4>2 DEF Rendered
        <4>3. QED
            BY <4>1, <4>2
      <3>3. QED
          BY <2>2, <3>1, <3>2, StagesFollow
    <2>5. RenderTypeOK'
        BY <1>1, <1>4, <1>8, <2>1, <2>4
           DEF RenderTypeOK, OutputFrame, NotReady, MapFails
    <2>6. TimesAreStages'
      <3>1. CASE NotReady
          BY <1>1, <1>2, <1>5, <1>6, <2>1, <2>2, <3>1 DEF TimesAreStages,
             NotReady
      <3>2. CASE MapFails
          BY <1>1, <1>2, <1>5, <1>6, <2>1, <2>2, <3>2 DEF TimesAreStages,
             MapFails
      <3>3. QED
          BY <1>8, <3>1, <3>2
    <2>7. TimesTile'
      <3> SUFFICES ASSUME NEW i \in 1 .. w
                   PROVE  vframe_info_buffer'[i].timestamp
                            + vframe_info_buffer'[i].count = TimeAt(i + 1)'
          BY <2>1 DEF TimesTile
      <3>1. i + 1 \in 1 .. w + 1
          OBVIOUS
      <3>2. TimeAt(i + 1)' = TimeAt(i + 1)
          BY <2>3, <3>1
      <3>3. vframe_info_buffer[i].timestamp + vframe_info_buffer[i].count
                = TimeAt(i + 1)
          BY <1>1, <1>2 DEF TimesTile
      <3>4. QED
          BY <2>1, <3>2, <3>3
    <2>8. TimesAscend'
        BY <1>1, <1>2, <2>1, <2>3 DEF TimesAscend
    <2>9. EmittedInTime'
      <3>1. TimeAt(1)' = TimeAt(1)
          BY <2>3
      <3>2. failures' = 0 => failures = 0
          BY <1>5, <1>8 DEF NotReady, MapFails
      <3>3. QED
          BY <1>1, <2>1, <3>1, <3>2 DEF EmittedInTime
    <2>10. QED
        BY <2>4, <2>5, <2>6, <2>7, <2>8, <2>9 DEF RenderInv
  <1>9. QED
      BY <1>7, <1>8 DEF OutputFrame

-----------------------------------------------------------------------------
(* The theorems                                                             *)

(* The inductive invariant implies both properties.                          *)
LEMMA RenderInvSuffices == RenderInv => TimestampsKeepPace /\ FramesTile
  <1> SUFFICES ASSUME RenderInv PROVE TimestampsKeepPace /\ FramesTile
      OBVIOUS
  <1> USE RenderLoopAssumption
  <1>1. RenderTypeOK /\ StagesInStep /\ TimesAreStages /\ EmittedInTime
      BY DEF RenderInv
  <1>2. Waiting \in Nat /\ (Waiting = 0 <=> vframe_info_buffer = <<>>)
      BY <1>1 DEF Waiting, RenderTypeOK
  <1>3. TimestampWaiting
    <2> SUFFICES ASSUME pc = "output", vframe_info_buffer = <<>>
                 PROVE  copy_surfaces[Prev(cur_texture)] = Unset
        BY DEF TimestampWaiting
    <2>1. Iterations = 0
        BY <1>2 DEF Iterations
    <2>2. QED
        BY <1>1, <2>1 DEF StagesInStep, Has, Rendered, Stages
  <1>4. TimestampMatchesImage
      BY <1>1 DEF EmittedInTime, TimestampMatchesImage
  <1>5. ImageNotBeforeTimestamp
    <2>1. emitted # NoFrame /\ pc = "sleep" => Waiting + 1 = Stages + failures
        BY <1>1, <1>2 DEF TimesAreStages, Iterations
    <2>2. QED
        BY <1>1, <1>2, <2>1
           DEF EmittedInTime, ImageNotBeforeTimestamp, Stages, Waiting, RenderTypeOK
  <1>6. FramesTile
    <2>1. vframe_info_buffer # <<>> =>
              TimeAt(1) = Head(vframe_info_buffer).timestamp
        BY <1>1, <1>2 DEF TimeAt, Waiting, RenderTypeOK
    <2>2. vframe_info_buffer = <<>> => TimeAt(1) = video_time
        BY <1>2 DEF TimeAt
    <2>3. QED
        BY <1>1, <2>1, <2>2 DEF EmittedInTime, FramesTile
  <1>7. QED
      BY <1>3, <1>4, <1>5, <1>6 DEF TimestampsKeepPace

(* In every state each stage has the picture of the time stamp that waits at *)
(* its distance from the end of the queue.                                   *)
THEOREM RenderInvHolds == RenderSpec => []RenderInv
  <1>1. RenderInit => RenderInv
      BY InitRenderInv
  <1>2. RenderInv /\ [RenderNext]_renderVars => RenderInv'
    <2> SUFFICES ASSUME RenderInv, [RenderNext]_renderVars PROVE RenderInv'
        OBVIOUS
    <2>1. CASE RenderNext
        BY <2>1, OutputRenderInv, SleepRenderInv, ResetRenderInv DEF RenderNext
    <2>2. CASE UNCHANGED renderVars
        BY <2>2, ZenonT(30) DEF RenderInv, renderVars, textureVars,
           RenderTypeOK,
           StagesInStep, TimesAreStages, TimesTile, TimesAscend, EmittedInTime,
           Has, Rendered, Iterations, TimeAt, Waiting, Stages, Fresh
    <2>3. QED
        BY <2>1, <2>2
  <1>3. QED
      BY <1>1, <1>2, PTL DEF RenderSpec

(* A picture that output_frame downloads finds its time stamp in             *)
(* vframe_info_buffer; the two queues drift apart by the downloads that      *)
(* failed and by nothing else, whatever obs_reset_video throws away.         *)
THEOREM PicturesKeepTheirTime == RenderSpec => []TimestampsKeepPace
  <1>1. RenderInv => TimestampsKeepPace
      BY RenderInvSuffices
  <1>2. QED
      BY <1>1, RenderInvHolds, PTL

(* The frames given to output_video_data tile the time line.                 *)
THEOREM FramesLeaveNoHole == RenderSpec => []FramesTile
  <1>1. RenderInv => FramesTile
      BY RenderInvSuffices
  <1>2. QED
      BY <1>1, RenderInvHolds, PTL


-----------------------------------------------------------------------------
(* The inductive invariant                                                  *)

Queued == Elements(async_frames)
Kept == Elements(delayed)
Filtered ==
    IF showing.at \in {"filter", "release"} THEN {showing.frame} ELSE {}
Copied == IF copying.at = "copy" THEN {copying.frame} ELSE {}
Pointed == {cur_async_frame, prev_async_frame, copying.frame} \ {NULL}
Held == Queued \cup Kept \cup Filtered \cup Pointed
Used(f) == async_cache[f].used

\* No frame is twice in a queue.
Inj(s) == \A i, j \in DOMAIN s : s[i] = s[j] => i = j

Typed ==
    /\ refs \in [Frames -> Nat]
    /\ Cached \subseteq Frames
    /\ \A f \in Cached : async_cache[f] \in [used : BOOLEAN, unused_count : Nat]
    /\ async_frames \in Seq(Frames) /\ Inj(async_frames)
    /\ delayed \in Seq(Frames) /\ Inj(delayed)
    /\ cur_async_frame \in FrameOrNull /\ prev_async_frame \in FrameOrNull

\* What the two threads have in their hands, by what they do.
PointsHold ==
    /\ copying \in [at : {"idle", "copy", "queue"}, frame : FrameOrNull]
    /\ showing \in [at : {"idle", "resize", "ticked", "filter", "release"},
                    frame : FrameOrNull]
    /\ copying.at = "idle" <=> copying.frame = NULL
    /\ showing.at \in {"idle", "ticked"} => showing.frame = NULL
    /\ showing.at \in {"filter", "release"} => showing.frame # NULL
    /\ showing.at = "resize" => showing.frame \in {NULL, cur_async_frame}

\* A frame has one holder: the queue, the delay filter, the filters, or one of
\* the three pointers.
HeldOnce ==
    /\ Queued \cap Kept = {} /\ (Queued \cup Kept) \cap Filtered = {}
    /\ Pointed \cap (Queued \cup Kept \cup Filtered) = {}
    /\ cur_async_frame # NULL =>
           cur_async_frame # prev_async_frame
           /\ cur_async_frame # copying.frame
    /\ prev_async_frame # NULL => prev_async_frame # copying.frame

\* What is not in the hands of a filter is in the cache, and the cache marks
\* as used exactly what somebody holds.
CacheFollows ==
    /\ Queued \cup Pointed \subseteq Cached
    /\ \A f \in Cached : Used(f) <=> f \in Held

\* The cache, the delay filter, the thread that copies and the thread that
\* filters have a reference each.
Count(f) == Times(f \in Cached) + Times(f \in Kept) + Times(f \in Copied)
            + Times(f \in Filtered)
RefsCounted == \A f \in Frames : refs[f] = Count(f)

AsyncInv == Typed /\ PointsHold /\ HeldOnce /\ CacheFollows /\ RefsCounted

-----------------------------------------------------------------------------
(* Sets and sequences                                                       *)

\* Every holder holds frames, and NULL is none.
LEMMA SeqsTyped ==
  ASSUME AsyncInv
  PROVE  /\ Queued \subseteq Frames /\ Kept \subseteq Frames
         /\ Filtered \subseteq Frames /\ Pointed \subseteq Frames
         /\ NULL \notin Frames
  <1>1. NULL \notin Frames
      BY AsyncFramesAssumption DEF NULL, Frames
  <1>2. Queued \subseteq Frames /\ Kept \subseteq Frames
      BY DEF AsyncInv, Typed, Queued, Kept, Elements
  <1>3. Filtered \subseteq Frames /\ Pointed \subseteq Frames
      BY <1>1
      DEF AsyncInv, Typed, PointsHold, Filtered, Pointed, FrameOrNull
  <1>4. QED
      BY <1>1, <1>2, <1>3

\* The lowest of a set of numbers, which is how the model picks a frame.
LEMMA LeastOfNat ==
  ASSUME NEW T \in SUBSET Nat, T # {}
  PROVE  Min(T) \in T
  <1>1. PICK n \in T : \A m \in T : ~(<<m, n>> \in OpToRel(<, Nat))
      BY NatLessThanWellFounded, WFMin
  <1> DEFINE R == {ss \in Nat \X Nat : ss[1] < ss[2]}
  <1>2. OpToRel(<, Nat) = R
      BY Zenon DEF OpToRel
  <1>3. \A m \in T : ~(<<m, n>> \in R)
      BY <1>1, <1>2, Zenon
  <1>4. \A m \in T : ~(m < n)
    <2>1. TAKE m \in T
    <2>2. m \in Nat /\ n \in Nat /\ ~(<<m, n>> \in R)
        BY <1>3
    <2>3. QED
        BY <2>2, SMT
  <1>5. n \in T /\ \A m \in T : n <= m
      BY <1>4
  <1>6. QED
      BY <1>5 DEF Min

\* A frame is queued or kept: it is one more, behind the others.
LEMMA ElementsOfAppend ==
  ASSUME NEW S, NEW s \in Seq(S), NEW e \in S
  PROVE  /\ Append(s, e) \in Seq(S)
         /\ Elements(Append(s, e)) = Elements(s) \cup {e}
         /\ Inj(s) /\ e \notin Elements(s) => Inj(Append(s, e))
  BY DEF Elements, Inj

\* The first of a queue is taken: what is left does not have it.
LEMMA ElementsOfTail ==
  ASSUME NEW S, NEW s \in Seq(S), s # <<>>, Inj(s)
  PROVE  /\ Head(s) \in Elements(s)
         /\ Tail(s) \in Seq(S) /\ Inj(Tail(s))
         /\ Elements(Tail(s)) = Elements(s) \ {Head(s)}
  <1>1. Tail(s) \in Seq(S) /\ Head(s) = s[1] /\ 1 \in DOMAIN s
      OBVIOUS
  <1>2. /\ Len(Tail(s)) = Len(s) - 1
        /\ \A i \in 1 .. Len(Tail(s)) : Tail(s)[i] = s[i + 1]
      BY HeadTailProperties
  <1>3. DOMAIN Tail(s) = 1 .. Len(s) - 1 /\ DOMAIN s = 1 .. Len(s)
      BY <1>1, <1>2
  <1>4. Inj(Tail(s))
      BY <1>2, <1>3 DEF Inj
  <1>5. Elements(Tail(s)) \subseteq Elements(s) \ {Head(s)}
      BY <1>1, <1>2, <1>3 DEF Inj, Elements
  <1>6. ASSUME NEW x \in Elements(s) \ {Head(s)} PROVE x \in Elements(Tail(s))
    <2>1. PICK i \in 1 .. Len(s) : s[i] = x /\ i # 1
        BY <1>1, <1>3, <1>6 DEF Elements
    <2>2. i - 1 \in DOMAIN Tail(s) /\ Tail(s)[i - 1] = x
        BY <2>1, <1>2, <1>3
    <2>3. QED
        BY <2>2 DEF Elements
  <1>7. QED
      BY <1>1, <1>4, <1>5, <1>6 DEF Elements

Slice(s, first, last) == {s[i] : i \in first .. last}

\* What is taken from a queue, what is skipped and what stays are different.
Apart(s, n, k, all, rest, skipped) ==
    /\ rest \subseteq all /\ skipped \subseteq all
    /\ rest \cap skipped = {}
    /\ n > 0 => s[n] \in all \ (rest \cup skipped)
    /\ k = 2 => s[n - 1] \in all \ (rest \cup skipped) /\ s[n - 1] # s[n]
    /\ \A x \in all : \/ x \in rest \cup skipped
                      \/ n > 0 /\ x = s[n]
                      \/ k = 2 /\ x = s[n - 1]

\* The places of a queue in front of, at and behind those that are taken.
LEMMA SplitPlaces ==
  ASSUME NEW s, NEW L \in Nat, NEW n \in 0 .. L, NEW k \in {1, 2},
         k = 2 => n > 1,
         \A i, j \in 1 .. L : s[i] = s[j] => i = j
  PROVE  Apart(s, n, k, Slice(s, 1, L), Slice(s, n + 1, L), Slice(s, 1, n - k))
  <1> DEFINE all == Slice(s, 1, L)
             rest == Slice(s, n + 1, L)
             skipped == Slice(s, 1, n - k)
  <1> USE DEF Slice
  <1>1. rest \subseteq all
      OBVIOUS
  <1>2. skipped \subseteq all
      OBVIOUS
  <1>3. rest \cap skipped = {}
    <2>1. SUFFICES ASSUME NEW i \in n + 1 .. L, NEW j \in 1 .. n - k
                   PROVE  s[i] # s[j]
        OBVIOUS
    <2>2. i \in 1 .. L /\ j \in 1 .. L /\ i # j
        OBVIOUS
    <2>3. QED
        BY <2>2
  <1>4. n > 0 => s[n] \in all \ (rest \cup skipped)
      OBVIOUS
  <1>5. k = 2 => s[n - 1] \in all \ (rest \cup skipped) /\ s[n - 1] # s[n]
      OBVIOUS
  <1>6. ASSUME NEW i \in 1 .. L
        PROVE  \/ s[i] \in rest \cup skipped
               \/ n > 0 /\ s[i] = s[n]
               \/ k = 2 /\ s[i] = s[n - 1]
    <2>1. \/ i \in n + 1 .. L
          \/ i \in 1 .. n - k
          \/ n > 0 /\ i = n
          \/ k = 2 /\ i = n - 1
        BY <1>6
    <2>2. QED
        BY <2>1
  <1>7. QED
      BY <1>1, <1>2, <1>3, <1>4, <1>5, <1>6 DEF Apart

\* The frame at n and, if k is 2, the one before it are taken out of a queue,
\* what is in front of them is skipped, the rest stays.
LEMMA SplitQueue ==
  ASSUME NEW S, NEW s \in Seq(S), Inj(s), NEW n \in 0 .. Len(s),
         NEW k \in {1, 2}, k = 2 => n > 1,
         NEW rest, rest = SubSeq(s, n + 1, Len(s)),
         NEW skipped, skipped = Elements(SubSeq(s, 1, n - k))
  PROVE  /\ rest \in Seq(S) /\ Inj(rest)
         /\ Apart(s, n, k, Elements(s), Elements(rest), skipped)
  <1>1. /\ rest \in Seq(S) /\ Len(rest) = Len(s) - n
        /\ \A i \in 1 .. Len(s) - n : rest[i] = s[i + n]
    <2>1. \A i \in n + 1 .. Len(s) : s[i] \in S
        OBVIOUS
    <2>2. QED
        BY <2>1, SubSeqProperties
  <1>2. DOMAIN rest = 1 .. Len(s) - n
      BY <1>1
  <1>3. /\ \A i \in n + 1 .. Len(s) : s[i] \in Elements(rest)
        /\ \A x \in Elements(rest) : \E i \in n + 1 .. Len(s) : x = s[i]
    <2>1. ASSUME NEW i \in n + 1 .. Len(s) PROVE s[i] \in Elements(rest)
      <3>1. i - n \in DOMAIN rest /\ rest[i - n] = s[i]
        <4>1. PICK j \in Int : j = i - n
            OBVIOUS
        <4>2. j \in 1 .. Len(s) - n /\ j + n = i
            BY <4>1
        <4>3. j \in DOMAIN rest /\ rest[j] = s[i]
            BY <1>1, <1>2, <4>2
        <4>4. QED
            BY <4>1, <4>3
      <3>2. QED
          BY <3>1 DEF Elements
    <2>2. ASSUME NEW x \in Elements(rest)
          PROVE  \E i \in n + 1 .. Len(s) : x = s[i]
      <3>1. PICK j \in 1 .. Len(s) - n : x = rest[j]
          BY <1>2 DEF Elements
      <3>2. j + n \in n + 1 .. Len(s) /\ x = s[j + n]
          BY <1>1, <3>1
      <3>3. QED
          BY <3>2
    <2>3. QED
        BY <2>1, <2>2
  <1>4. skipped = {s[i] : i \in 1 .. n - k}
    <2> DEFINE q == SubSeq(s, 1, n - k)
    <2>1. CASE n - k < 1
        BY <2>1, SubSeqEmpty DEF Elements
    <2>2. CASE n - k >= 1
      <3>1. \A i \in 1 .. n - k : s[i] \in S
          OBVIOUS
      <3>2. /\ q \in Seq(S) /\ Len(q) = n - k
            /\ \A i \in 1 .. n - k : q[i] = s[i]
          BY <2>2, <3>1, SubSeqProperties
      <3>3. DOMAIN q = 1 .. n - k
          BY <3>2
      <3>4. QED
          BY <3>2, <3>3 DEF Elements
    <2>3. QED
        BY <2>1, <2>2
  <1>5. Elements(s) = {s[i] : i \in 1 .. Len(s)}
      BY DEF Elements
  <1>6. \A i, j \in 1 .. Len(s) : s[i] = s[j] => i = j
      BY DEF Inj
  <1>7. Inj(rest)
      BY <1>1, <1>2, <1>6 DEF Inj
  <1>8. Elements(rest) = {s[i] : i \in n + 1 .. Len(s)}
      BY <1>3
  <1>9. Len(s) \in Nat
      OBVIOUS
  <1>10. Apart(s, n, k, Slice(s, 1, Len(s)), Slice(s, n + 1, Len(s)),
               Slice(s, 1, n - k))
      BY <1>6, <1>9, SplitPlaces
  <1>11. /\ Slice(s, 1, Len(s)) = Elements(s)
         /\ Slice(s, n + 1, Len(s)) = Elements(rest)
         /\ Slice(s, 1, n - k) = skipped
      BY <1>4, <1>5, <1>8 DEF Slice
  <1>12. QED
      BY <1>1, <1>7, <1>10, <1>11, Zenon

-----------------------------------------------------------------------------
(* The capture thread                                                       *)

\* The reference for the copy is given back: the cache still has its own.
LEMMA CopyDoneKept ==
  ASSUME AsyncInv, CopyDone
  PROVE  AsyncInv'
  <1> DEFINE f == copying.frame
  <1>1. /\ f \in Frames /\ f \in Cached /\ copying.at = "copy" /\ f # NULL
        /\ f \notin Kept /\ f \notin Filtered /\ f \in Copied
      BY SeqsTyped
      DEF AsyncInv, CopyDone, PointsHold, CacheFollows, HeldOnce, Pointed,
          Copied, FrameOrNull
  <1>2. refs[f] = 2
      BY <1>1 DEF AsyncInv, RefsCounted, Count, Times
  <1>3. /\ refs' = [refs EXCEPT ![f] = 1]
        /\ copying' = [at |-> "queue", frame |-> f]
        /\ UNCHANGED <<async_cache, async_frames, cur_async_frame,
                       prev_async_frame, showing, delayed>>
      BY <1>1, <1>2 DEF CopyDone, AsyncInv, Typed, PointsHold, shownVars
  <1>4. /\ Queued' = Queued /\ Kept' = Kept /\ Filtered' = Filtered
        /\ Cached' = Cached /\ Pointed' = Pointed /\ Held' = Held
        /\ Copied' = {} /\ Copied = {f}
        /\ \A g \in Cached : Used(g)' <=> Used(g)
      BY <1>1, <1>3
      DEF Queued, Kept, Filtered, Pointed, Held, Cached, Used, Copied
  <1>5. Typed'
      BY <1>3, <1>4 DEF AsyncInv, Typed, Cached
  <1>6. PointsHold'
      BY <1>1, <1>3 DEF AsyncInv, PointsHold, FrameOrNull
  <1>7. HeldOnce'
      BY <1>3, <1>4 DEF AsyncInv, HeldOnce
  <1>8. CacheFollows'
      BY <1>4 DEF AsyncInv, CacheFollows
  <1>9. RefsCounted'
      BY <1>1, <1>2, <1>3, <1>4 DEF AsyncInv, RefsCounted, Count, Times, Typed
  <1>10. QED
      BY <1>5, <1>6, <1>7, <1>8, <1>9 DEF AsyncInv

\* The frame goes from the hand of the capture thread to the queue.
LEMMA QueueFrameKept ==
  ASSUME AsyncInv, QueueFrame
  PROVE  AsyncInv'
  <1> DEFINE f == copying.frame
  <1>1. /\ f \in Frames /\ f \in Cached /\ copying.at = "queue" /\ f # NULL
        /\ f \in Pointed /\ f \notin Queued /\ f \notin Kept
        /\ f \notin Filtered /\ f # cur_async_frame /\ f # prev_async_frame
      BY SeqsTyped
      DEF AsyncInv, QueueFrame, PointsHold, CacheFollows, HeldOnce, Pointed,
          FrameOrNull
  <1>2. /\ async_frames' \in Seq(Frames) /\ Inj(async_frames')
        /\ Queued' = Queued \cup {f}
      BY <1>1, ElementsOfAppend DEF QueueFrame, AsyncInv, Typed, Queued
  <1>3. /\ Kept' = Kept /\ Filtered' = Filtered /\ Cached' = Cached
        /\ Pointed' = Pointed \ {f} /\ Copied' = {} /\ Copied = {}
        /\ \A g \in Cached : Used(g)' <=> Used(g)
      BY <1>1
      DEF QueueFrame, shownVars, Kept, Filtered, Cached, Pointed, Copied,
          Idle, Used
  <1>4. Held' = Held
      BY <1>1, <1>2, <1>3 DEF Held
  <1>5. Typed'
      BY <1>2, <1>3 DEF AsyncInv, Typed, QueueFrame, shownVars, Cached
  <1>6. PointsHold'
      BY <1>1 DEF AsyncInv, PointsHold, QueueFrame, shownVars, Idle, FrameOrNull
  <1>7. HeldOnce'
      BY <1>1, <1>2, <1>3 DEF AsyncInv, HeldOnce, QueueFrame, shownVars, Idle
  <1>8. CacheFollows'
      BY <1>1, <1>2, <1>3, <1>4 DEF AsyncInv, CacheFollows
  <1>9. RefsCounted'
      BY <1>3 DEF AsyncInv, RefsCounted, Count, QueueFrame
  <1>10. QED
      BY <1>5, <1>6, <1>7, <1>8, <1>9 DEF AsyncInv

\* When the queue is full the references of the cache are given back at once:
\* only the frames in the hands of a filter are left.
LEMMA CacheOverflowsKept ==
  ASSUME AsyncRaces = {}, AsyncInv, CacheOverflows
  PROVE  AsyncInv'
  <1>1. /\ copying.at = "idle" /\ showing.at # "resize" /\ copying.frame = NULL
      BY DEF CacheOverflows, MayCapture, AsyncInv, PointsHold
  <1>2. /\ Queued' = {} /\ Kept' = Kept /\ Filtered' = Filtered
        /\ Cached' = {} /\ Pointed' = {} /\ Copied' = {} /\ Copied = {}
      BY <1>1
      DEF CacheOverflows, NoCache, Queued, Kept, Filtered, Cached, Pointed,
          Copied, Elements, Idle
  <1>3. \A f \in Frames : refs'[f] = refs[f] - Times(f \in Cached)
      BY DEF CacheOverflows, Decref, AsyncInv, Typed, Times
  <1>4. RefsCounted'
      BY <1>2, <1>3 DEF AsyncInv, RefsCounted, Count, Times, Typed
  <1>5. Typed'
    <2>1. refs' = [f \in Frames |-> refs'[f]]
        BY DEF CacheOverflows, Decref
    <2>2. \A f \in Frames : refs'[f] \in Nat
        BY <1>4 DEF RefsCounted, Count, Times
    <2>3. refs' \in [Frames -> Nat]
        BY <2>1, <2>2
    <2>4. Inj(<<>>) /\ <<>> \in Seq(Frames)
        BY DEF Inj
    <2>5. QED
        BY <1>2, <2>3, <2>4 DEF Typed, AsyncInv, CacheOverflows, FrameOrNull
  <1>6. PointsHold'
      BY <1>1 DEF CacheOverflows, AsyncInv, PointsHold
  <1>7. HeldOnce'
      BY <1>2 DEF CacheOverflows, AsyncInv, HeldOnce
  <1>8. CacheFollows'
      BY <1>2 DEF CacheFollows
  <1>9. QED
      BY <1>4, <1>5, <1>6, <1>7, <1>8 DEF AsyncInv

\* clean_cache: what is used stays, and what stays is marked as before.
LEMMA CleanCacheKeeps ==
  ASSUME NEW cache,
         \A f \in DOMAIN cache :
            cache[f] \in [used : BOOLEAN, unused_count : Nat]
  PROVE  /\ DOMAIN CleanCache(cache) \subseteq DOMAIN cache
         /\ \A f \in DOMAIN cache :
               cache[f].used => f \in DOMAIN CleanCache(cache)
         /\ \A f \in DOMAIN CleanCache(cache) :
               /\ CleanCache(cache)[f] \in [used : BOOLEAN, unused_count : Nat]
               /\ CleanCache(cache)[f].used = cache[f].used
  <1> DEFINE older == [f \in DOMAIN cache |->
                          [cache[f] EXCEPT !.unused_count =
                              IF cache[f].used THEN @ ELSE @ + 1]]
             D == {f \in DOMAIN cache :
                      older[f].used
                      \/ older[f].unused_count < MAX_UNUSED_FRAME_DURATION}
  <1>1. CleanCache(cache) = [f \in D |-> older[f]]
      BY DEF CleanCache, Restrict
  <1>2. \A f \in DOMAIN cache :
           /\ older[f] \in [used : BOOLEAN, unused_count : Nat]
           /\ older[f].used = cache[f].used
      OBVIOUS
  <1> HIDE DEF older
  <1>3. DOMAIN CleanCache(cache) = D
      BY <1>1
  <1>4. \A f \in D : CleanCache(cache)[f] = older[f]
      BY <1>1
  <1>5. QED
      BY <1>2, <1>3, <1>4

\* A frame of the cache, or a new one, goes to the hand of the capture thread.
LEMMA FrameTaken ==
  ASSUME AsyncInv, copying.frame = NULL, Copied = {}, showing.at # "resize",
         NEW f \in Frames, f \notin Held,
         copying' = [at |-> "copy", frame |-> f],
         UNCHANGED <<async_frames, cur_async_frame, prev_async_frame, showing,
                     delayed>>,
         Cached' \subseteq Cached \cup {f}, f \in Cached',
         \A g \in Cached : g \in Held => g \in Cached',
         \A g \in Cached' :
            /\ async_cache'[g] \in [used : BOOLEAN, unused_count : Nat]
            /\ Used(g)' <=> g \in Held \cup {f},
         refs' \in [Frames -> Nat], refs'[f] = 2,
         \A g \in Frames \ {f} :
            refs'[g] = IF g \in Cached \ Cached' THEN 0 ELSE refs[g]
  PROVE  AsyncInv'
  <1>1. f # NULL
      BY SeqsTyped
  <1>2. /\ Queued' = Queued /\ Kept' = Kept /\ Filtered' = Filtered
        /\ Pointed' = Pointed \cup {f} /\ Copied' = {f}
      BY <1>1 DEF Queued, Kept, Filtered, Pointed, Copied
  <1>3. /\ f \notin Queued /\ f \notin Kept /\ f \notin Filtered
        /\ f # cur_async_frame /\ f # prev_async_frame
      BY <1>1 DEF Held, Pointed
  <1>4. Held' = Held \cup {f}
      BY <1>2 DEF Held
  <1>5. Typed'
      BY DEF AsyncInv, Typed
  <1>6. PointsHold'
      BY <1>1 DEF AsyncInv, PointsHold, FrameOrNull
  <1>7. HeldOnce'
      BY <1>2, <1>3 DEF AsyncInv, HeldOnce
  <1>8. CacheFollows'
      BY <1>2, <1>4 DEF AsyncInv, CacheFollows, Held
  <1>9. RefsCounted'
    <2>1. refs'[f] = Count(f)'
        BY <1>2, <1>3 DEF Count, Times
    <2>2. ASSUME NEW g \in Frames \ {f} PROVE refs'[g] = Count(g)'
      <3>1. refs[g] = Count(g)
          BY DEF AsyncInv, RefsCounted
      <3>2. CASE g \in Cached \ Cached'
        <4>1. g \notin Held
            BY <3>2
        <4>2. refs'[g] = 0 /\ g \notin Kept /\ g \notin Filtered
            BY <3>2, <4>1 DEF Held
        <4>3. QED
            BY <1>2, <3>2, <4>2 DEF Count, Times
      <3>3. CASE g \notin Cached \ Cached'
        <4>1. g \in Cached' <=> g \in Cached
            BY <3>3
        <4>2. QED
            BY <1>2, <3>1, <3>3, <4>1 DEF Count, Times
      <3>4. QED
          BY <3>2, <3>3
    <2>3. QED
        BY <2>1, <2>2 DEF RefsCounted
  <1>10. QED
      BY <1>5, <1>6, <1>7, <1>8, <1>9 DEF AsyncInv

\* cache_video: a new cache, a frame of the cache that nobody uses, or a frame
\* more; and the clean-up of the cache, which frees what nobody has.
LEMMA CacheVideoKept ==
  ASSUME AsyncRaces = {}, AsyncInv, CacheVideo
  PROVE  AsyncInv'
  <1> DEFINE taken == [used |-> TRUE, unused_count |-> 0]
             Slot == [used : BOOLEAN, unused_count : Nat]
  <1>1. /\ copying.at = "idle" /\ showing.at # "resize" /\ copying.frame = NULL
        /\ Copied = {} /\ UNCHANGED <<showing, delayed>>
      BY DEF CacheVideo, MayCapture, AsyncInv, PointsHold, Copied
  <1>2. /\ refs \in [Frames -> Nat] /\ Cached \subseteq Frames
        /\ \A g \in Cached : async_cache[g] \in Slot
        /\ NULL \notin Frames /\ Frames \subseteq Nat
      BY SeqsTyped DEF AsyncInv, Typed, Frames
  <1>3. taken \in Slot /\ taken.used
      OBVIOUS
  <1>4. \A g \in Frames : g \notin InUse => g \notin Cached /\ g \notin Held
      BY <1>2
      DEF InUse, Held, Queued, Kept, Filtered, Pointed, AsyncInv, PointsHold
  <1>5. Unallocated # {} =>
           /\ Min(Unallocated) \in Frames
           /\ Min(Unallocated) \notin Cached /\ Min(Unallocated) \notin Held
      BY <1>2, <1>4, LeastOfNat DEF Unallocated
  <1>6. CASE \* a new format
        LET frame == Min(Unallocated)
            cache == CleanCache(NoCache)
            left == [g \in Frames |-> IF g \in DOMAIN NoCache \ DOMAIN cache
                                      THEN 0 ELSE Decref[g]]
        IN  /\ Unallocated # {}
            /\ async_cache' = [g \in DOMAIN cache \cup {frame} |->
                                  IF g = frame THEN taken ELSE cache[g]]
            /\ refs' = [left EXCEPT ![frame] = 2]
            /\ copying' = [at |-> "copy", frame |-> frame]
            /\ async_frames' = <<>>
            /\ cur_async_frame' = NULL /\ prev_async_frame' = NULL
    <2>1. PICK f \in Frames : /\ f = Min(Unallocated) /\ f # NULL
                             /\ f \notin Cached /\ f \notin Held
        BY <1>2, <1>5, <1>6
    <2>2. DOMAIN NoCache = {} /\ DOMAIN CleanCache(NoCache) = {}
      <3>1. DOMAIN NoCache = {}
          BY DEF NoCache
      <3>2. QED
          BY <3>1, CleanCacheKeeps
    <2>3. async_cache' = [g \in {f} |-> taken]
        BY <1>6, <2>1, <2>2
    <2>4. refs' = [[g \in Frames |-> Decref[g]] EXCEPT ![f] = 2]
        BY <1>6, <2>1, <2>2
    <2>5. /\ copying' = [at |-> "copy", frame |-> f] /\ async_frames' = <<>>
          /\ cur_async_frame' = NULL /\ prev_async_frame' = NULL
        BY <1>6, <2>1
    <2>6. /\ Queued' = {} /\ Kept' = Kept /\ Filtered' = Filtered
          /\ Cached' = {f} /\ Pointed' = {f} /\ Copied' = {f}
          /\ async_cache'[f] = taken
      <3>1. Queued' = {}
          BY <2>5 DEF Queued, Elements
      <3>2. Kept' = Kept /\ Filtered' = Filtered
          BY <1>1 DEF Kept, Filtered
      <3>3. Cached' = {f} /\ async_cache'[f] = taken
          BY <2>3 DEF Cached
      <3>4. Pointed' = {f} /\ Copied' = {f}
          BY <2>1, <2>5 DEF Pointed, Copied
      <3>5. QED
          BY <3>1, <3>2, <3>3, <3>4
    <2>7. f \notin Kept /\ f \notin Filtered
        BY <2>1 DEF Held
    <2>8. /\ refs'[f] = 2
          /\ \A g \in Frames \ {f} : refs'[g] = refs[g] - Times(g \in Cached)
        BY <1>2, <2>1, <2>4 DEF Decref, Times
    <2>9. RefsCounted'
      <3>1. refs'[f] = Count(f)'
          BY <2>6, <2>7, <2>8 DEF Count, Times
      <3>2. ASSUME NEW g \in Frames \ {f} PROVE refs'[g] = Count(g)'
        <4>1. refs[g] = Count(g) /\ g \notin Copied
            BY <1>1 DEF AsyncInv, RefsCounted
        <4>2. QED
            BY <2>6, <2>8, <4>1 DEF Count, Times
      <3>3. QED
          BY <3>1, <3>2 DEF RefsCounted
    <2>10. Typed'
      <3>1. refs' = [g \in Frames |-> refs'[g]]
          BY <2>4
      <3>2. \A g \in Frames : refs'[g] \in Nat
          BY <2>9 DEF RefsCounted, Count, Times
      <3>3. refs' \in [Frames -> Nat]
          BY <3>1, <3>2
      <3>4. Inj(<<>>) /\ <<>> \in Seq(Frames)
          BY DEF Inj
      <3>5. async_cache'[f] \in Slot
          BY <2>3
      <3>6. QED
          BY <1>1, <2>1, <2>5, <2>6, <3>3, <3>4, <3>5
          DEF Typed, AsyncInv, FrameOrNull
    <2>11. PointsHold'
        BY <1>1, <2>1, <2>5 DEF AsyncInv, PointsHold, FrameOrNull
    <2>12. HeldOnce'
        BY <2>1, <2>5, <2>6, <2>7 DEF AsyncInv, HeldOnce
    <2>13. CacheFollows'
        BY <1>3, <2>6 DEF CacheFollows, Held, Used
    <2>14. QED
        BY <2>9, <2>10, <2>11, <2>12, <2>13 DEF AsyncInv
  <1>7. CASE \* a frame of the cache
        LET frame == Min(Unused(async_cache))
            cache == CleanCache([async_cache EXCEPT ![frame] = taken])
            left == [g \in Frames |-> IF g \in Cached \ DOMAIN cache
                                      THEN 0 ELSE refs[g]]
        IN  /\ Unused(async_cache) # {}
            /\ async_cache' = [g \in DOMAIN cache \cup {frame} |->
                                  IF g = frame THEN taken ELSE cache[g]]
            /\ refs' = [left EXCEPT ![frame] = @ + 1]
            /\ copying' = [at |-> "copy", frame |-> frame]
            /\ UNCHANGED <<async_frames, shownVars>>
    <2> DEFINE f == Min(Unused(async_cache))
               given == [async_cache EXCEPT ![f] = taken]
               cache == CleanCache(given)
    <2>1. f \in Unused(async_cache)
      <3>1. Unused(async_cache) \subseteq Nat
          BY <1>2 DEF Unused, Cached
      <3>2. QED
          BY <1>7, <3>1, LeastOfNat
    <2>2. f \in Cached /\ ~Used(f)
        BY <2>1 DEF Unused, Cached, Used
    <2>3. /\ async_cache' = [g \in DOMAIN cache \cup {f} |->
                                IF g = f THEN taken ELSE cache[g]]
          /\ refs' = [[g \in Frames |-> IF g \in Cached \ DOMAIN cache
                                        THEN 0 ELSE refs[g]]
                      EXCEPT ![f] = @ + 1]
          /\ copying' = [at |-> "copy", frame |-> f]
          /\ UNCHANGED <<async_frames, cur_async_frame, prev_async_frame>>
        BY <1>7 DEF shownVars
    <2> HIDE DEF f
    <2>4. f \notin Held /\ f \in Frames
        BY <1>2, <2>2 DEF AsyncInv, CacheFollows
    <2>5. refs[f] = 1
        BY <1>1, <2>2, <2>4 DEF AsyncInv, RefsCounted, Count, Times, Held
    <2>6. /\ DOMAIN given = Cached
          /\ \A g \in Cached : /\ given[g] \in Slot
                               /\ given[g].used <=> Used(g) \/ g = f
        BY <1>2, <1>3 DEF Cached, Used
    <2> HIDE DEF given
    <2>7. /\ DOMAIN cache \subseteq Cached
          /\ \A g \in Cached : given[g].used => g \in DOMAIN cache
          /\ \A g \in DOMAIN cache :
                cache[g] \in Slot /\ cache[g].used = given[g].used
        BY <2>6, CleanCacheKeeps
    <2> HIDE DEF cache
    <2>8. f \in DOMAIN cache
        BY <2>2, <2>6, <2>7
    <2>9. Cached' = DOMAIN cache
        BY <2>3, <2>8 DEF Cached
    <2>10. \A g \in Cached' :
              async_cache'[g] = IF g = f THEN taken ELSE cache[g]
        BY <2>3, <2>9
    <2>11. \A g \in Cached' : /\ async_cache'[g] \in Slot
                              /\ Used(g)' <=> g \in Held \cup {f}
        BY <1>3, <2>6, <2>7, <2>9, <2>10, ZenonT(30)
           DEF Used, AsyncInv, CacheFollows
    <2>12. \A g \in Cached : g \in Held => g \in Cached'
        BY <2>6, <2>7, <2>9 DEF AsyncInv, CacheFollows
    <2>13. /\ refs' \in [Frames -> Nat] /\ refs'[f] = 2
           /\ \A g \in Frames \ {f} :
                 refs'[g] = IF g \in Cached \ Cached' THEN 0 ELSE refs[g]
      <3> DEFINE left == [g \in Frames |-> IF g \in Cached \ DOMAIN cache
                                            THEN 0 ELSE refs[g]]
      <3>1. left \in [Frames -> Nat]
          BY <1>2
      <3>2. /\ left[f] = 1
            /\ \A g \in Frames : left[g] = IF g \in Cached \ Cached'
                                          THEN 0 ELSE refs[g]
          BY <2>4, <2>5, <2>8, <2>9
      <3>3. refs' = [left EXCEPT ![f] = @ + 1]
          BY <2>3
      <3> HIDE DEF left
      <3>4. QED
          BY <2>4, <3>1, <3>2, <3>3
    <2>14. Cached' \subseteq Cached \cup {f} /\ f \in Cached'
        BY <2>7, <2>8, <2>9
    <2>15. QED
        BY <1>1, <2>3, <2>4, <2>11, <2>12, <2>13, <2>14, FrameTaken
  <1>8. CASE \* one more
        LET frame == Min(Unallocated)
            cache == CleanCache(async_cache)
            left == [g \in Frames |-> IF g \in Cached \ DOMAIN cache
                                      THEN 0 ELSE refs[g]]
        IN  /\ Unused(async_cache) = {} /\ Unallocated # {}
            /\ async_cache' = [g \in DOMAIN cache \cup {frame} |->
                                  IF g = frame THEN taken ELSE cache[g]]
            /\ refs' = [left EXCEPT ![frame] = 2]
            /\ copying' = [at |-> "copy", frame |-> frame]
            /\ UNCHANGED <<async_frames, shownVars>>
    <2> DEFINE f == Min(Unallocated)
               cache == CleanCache(async_cache)
    <2>1. f \in Frames /\ f \notin Cached /\ f \notin Held
        BY <1>5, <1>8
    <2>2. /\ async_cache' = [g \in DOMAIN cache \cup {f} |->
                                IF g = f THEN taken ELSE cache[g]]
          /\ refs' = [[g \in Frames |-> IF g \in Cached \ DOMAIN cache
                                        THEN 0 ELSE refs[g]]
                      EXCEPT ![f] = 2]
          /\ copying' = [at |-> "copy", frame |-> f]
          /\ UNCHANGED <<async_frames, cur_async_frame, prev_async_frame>>
        BY <1>8 DEF shownVars
    <2> HIDE DEF f
    <2>3. \A g \in Cached : Used(g)
        BY <1>8 DEF Unused, Used, Cached
    <2>4. /\ DOMAIN cache = Cached
          /\ \A g \in Cached :
                cache[g] \in Slot /\ cache[g].used = async_cache[g].used
      <3>1. \A g \in DOMAIN async_cache :
               async_cache[g] \in Slot /\ async_cache[g].used
          BY <1>2, <2>3 DEF Cached, Used
      <3>2. QED
          BY <3>1, CleanCacheKeeps DEF Cached
    <2> HIDE DEF cache
    <2>5. Cached' = Cached \cup {f}
        BY <2>2, <2>4 DEF Cached
    <2>6. \A g \in Cached' : async_cache'[g] = IF g = f THEN taken ELSE cache[g]
        BY <2>2, <2>4, <2>5
    <2>7. \A g \in Cached' : /\ async_cache'[g] \in Slot
                             /\ Used(g)' <=> g \in Held \cup {f}
        BY <1>3, <2>3, <2>4, <2>5, <2>6 DEF Used, AsyncInv, CacheFollows
    <2>8. /\ refs' \in [Frames -> Nat] /\ refs'[f] = 2
          /\ \A g \in Frames \ {f} :
                refs'[g] = IF g \in Cached \ Cached' THEN 0 ELSE refs[g]
        BY <1>2, <2>1, <2>2, <2>4, <2>5
    <2>9. QED
        BY <1>1, <2>1, <2>2, <2>5, <2>7, <2>8, FrameTaken
  <1>9. QED
    <2>1. Unused(NoCache) = {}
        BY DEF Unused, NoCache
    <2>2. QED
        BY <1>6, <1>7, <1>8, <2>1, ZenonT(60) DEF CacheVideo, Cached

-----------------------------------------------------------------------------
(* The graphics thread                                                      *)

\* What Removed does to a cache.
LEMMA RemovedMarks ==
  ASSUME AsyncInv, NEW frames, async_cache' = Removed(async_cache, frames)
  PROVE  /\ Cached' = Cached
         /\ \A f \in Cached :
               /\ async_cache'[f] \in [used : BOOLEAN, unused_count : Nat]
               /\ Used(f)' <=> Used(f) /\ f \notin frames
  BY DEF Removed, Cached, Used, AsyncInv, Typed

\* async_tick: what is due leaves the queue for the pointers, what was there
\* and what is skipped are marked as free, and nothing else is.
LEMMA AsyncTickKept ==
  ASSUME AsyncInv, AsyncTick
  PROVE  AsyncInv'
  <1>1. /\ showing.at = "idle" /\ showing.frame = NULL
        /\ showing' = [at |-> "resize", frame |-> NULL]
        /\ UNCHANGED <<refs, copying, delayed>>
      BY DEF AsyncTick, AsyncInv, PointsHold
  <1>2. PICK deinterlacing \in BOOLEAN, due \in 0 .. Len(async_frames),
             pair \in BOOLEAN :
          LET last == (IF deinterlacing THEN {prev_async_frame} ELSE {})
                          \cup {cur_async_frame}
              shown   == IF pair THEN 2 ELSE 1
              skipped == Elements(SubSeq(async_frames, 1, due - shown))
          IN  /\ pair => deinterlacing /\ due > 1
              /\ async_cache' = Removed(async_cache, last \cup skipped)
              /\ async_frames' = SubSeq(async_frames, due + 1,
                                        Len(async_frames))
              /\ cur_async_frame' = IF due = 0 THEN NULL ELSE async_frames[due]
              /\ prev_async_frame' = IF pair THEN async_frames[due - 1]
                                     ELSE IF deinterlacing THEN NULL
                                     ELSE prev_async_frame
    <2>1. \A deinterlacing, due :
             \A pair \in (IF deinterlacing /\ due > 1 THEN BOOLEAN
                          ELSE {FALSE}) :
                pair \in BOOLEAN /\ (pair => deinterlacing /\ due > 1)
        OBVIOUS
    <2>2. QED
        BY <2>1, Zenon DEF AsyncTick
  <1> DEFINE k == IF pair THEN 2 ELSE 1
             skipped == Elements(SubSeq(async_frames, 1, due - k))
             last == (IF deinterlacing THEN {prev_async_frame} ELSE {})
                         \cup {cur_async_frame}
  <1>3. /\ k \in {1, 2} /\ (k = 2 => due > 1 /\ deinterlacing)
        /\ (k = 2 <=> pair)
      BY <1>2
  <1>4. /\ async_frames \in Seq(Frames) /\ Inj(async_frames)
        /\ async_frames' = SubSeq(async_frames, due + 1, Len(async_frames))
      BY <1>2 DEF AsyncInv, Typed
  <1>5. /\ async_frames' \in Seq(Frames) /\ Inj(async_frames')
        /\ Apart(async_frames, due, k, Queued, Queued', skipped)
      BY <1>3, <1>4, SplitQueue DEF Queued
  <1> HIDE DEF skipped, k
  <1>6. /\ Queued' \subseteq Queued /\ skipped \subseteq Queued
        /\ Queued' \cap skipped = {}
        /\ due > 0 => /\ async_frames[due] \in Queued
                      /\ async_frames[due] \notin Queued' \cup skipped
        /\ pair => /\ async_frames[due - 1] \in Queued
                   /\ async_frames[due - 1] \notin Queued' \cup skipped
                   /\ async_frames[due - 1] # async_frames[due]
        /\ \A x \in Queued : \/ x \in Queued' \cup skipped
                             \/ due > 0 /\ x = async_frames[due]
                             \/ pair /\ x = async_frames[due - 1]
      BY <1>3, <1>5 DEF Apart
  <1>7. /\ async_cache' = Removed(async_cache, last \cup skipped)
        /\ cur_async_frame' = IF due = 0 THEN NULL ELSE async_frames[due]
        /\ prev_async_frame' = IF pair THEN async_frames[due - 1]
                               ELSE IF deinterlacing THEN NULL
                               ELSE prev_async_frame
      BY <1>2 DEF skipped, k
  <1>8. /\ Cached' = Cached
        /\ \A f \in Cached :
              /\ async_cache'[f] \in [used : BOOLEAN, unused_count : Nat]
              /\ Used(f)' <=> Used(f) /\ f \notin last \cup skipped
      BY <1>7, RemovedMarks
  <1>9. /\ Kept' = Kept /\ Filtered' = {} /\ Filtered = {} /\ Copied' = Copied
      BY <1>1 DEF Kept, Filtered, Copied
  <1>10. Queued \subseteq Frames /\ NULL \notin Frames
      BY SeqsTyped
  <1>11. due \in Nat /\ (pair => due > 1) /\ (pair => deinterlacing)
      BY <1>3
  <1>12. cur_async_frame' \in FrameOrNull /\ prev_async_frame' \in FrameOrNull
      BY <1>6, <1>7, <1>10, <1>11 DEF FrameOrNull, AsyncInv, Typed
  <1>13. Typed'
      BY <1>1, <1>5, <1>8, <1>12 DEF Typed, AsyncInv
  <1>14. PointsHold'
      BY <1>1 DEF PointsHold, AsyncInv, FrameOrNull
  <1>15. HeldOnce'
    <2>1. cur_async_frame' \in (Queued \ Queued') \cup {NULL}
        BY <1>6, <1>7, <1>11
    <2>2. \/ prev_async_frame' \in (Queued \ Queued') \cup {NULL}
          \/ prev_async_frame' = prev_async_frame
        BY <1>6, <1>7, <1>11
    <2>3. \A f \in {cur_async_frame, prev_async_frame, copying.frame} :
             f # NULL => f \notin Queued \cup Kept
        BY DEF AsyncInv, HeldOnce, Pointed
    <2>4. cur_async_frame' # NULL => /\ cur_async_frame' # prev_async_frame'
                                     /\ cur_async_frame' # copying'.frame
        BY <1>1, <1>6, <1>7, <1>10, <1>11, <2>1, <2>3
    <2>5. prev_async_frame' # NULL => prev_async_frame' # copying'.frame
        BY <1>1, <2>2, <2>3 DEF AsyncInv, HeldOnce
    <2>6. Queued \cap Kept = {}
        BY DEF AsyncInv, HeldOnce
    <2>7. Pointed' \cap (Queued' \cup Kept') = {}
        BY <1>1, <1>6, <1>9, <2>1, <2>2, <2>3, <2>6 DEF Pointed
    <2>8. QED
        BY <1>6, <1>9, <2>4, <2>5, <2>6, <2>7 DEF HeldOnce
  <1>16. CacheFollows'
    <2>1. Queued' \cup Pointed' \subseteq Cached
        BY <1>1, <1>6, <1>7, <1>11 DEF AsyncInv, CacheFollows, Pointed
    <2>2. ASSUME NEW f \in Cached
          PROVE  f \in Held' <=> f \in Held /\ f \notin last \cup skipped
      <3>1. f \in Frames /\ f # NULL
          BY <1>10 DEF AsyncInv, Typed
      <3>2. f \in Queued' => f \in Queued /\ f \notin last \cup skipped
          BY <1>6, <3>1 DEF AsyncInv, HeldOnce, Pointed
      <3>3. f \in Kept => f \notin last \cup skipped
          BY <1>6, <3>1 DEF AsyncInv, HeldOnce, Pointed
      <3>4. f = copying.frame => f \notin last \cup skipped
          BY <1>6, <3>1 DEF AsyncInv, HeldOnce, Pointed
      <3>5. f = cur_async_frame' => f \in Queued /\ f \notin last \cup skipped
          BY <1>6, <1>7, <1>11, <3>1 DEF AsyncInv, HeldOnce, Pointed
      <3>6. f = prev_async_frame' =>
               /\ f \in Queued \cup {prev_async_frame}
               /\ f \notin last \cup skipped
          BY <1>6, <1>7, <1>11, <3>1 DEF AsyncInv, HeldOnce, Pointed
      <3>7. f \in Queued /\ f \notin skipped =>
               f \in Queued' \cup {cur_async_frame', prev_async_frame'}
          BY <1>6, <1>7, <1>11
      <3>8. f = prev_async_frame /\ f \notin last => f = prev_async_frame'
          BY <1>7, <1>11
      <3>9. QED
          BY <1>1, <1>9, <3>1, <3>2, <3>3, <3>4, <3>5, <3>6, <3>7, <3>8
          DEF Held, Pointed
    <2>3. QED
        BY <1>8, <2>1, <2>2 DEF AsyncInv, CacheFollows
  <1>17. RefsCounted'
      BY <1>1, <1>8, <1>9 DEF AsyncInv, RefsCounted, Count
  <1>18. QED
      BY <1>13, <1>14, <1>15, <1>16, <1>17 DEF AsyncInv

\* set_async_texture_size changes nothing of this.
LEMMA SizeKept ==
  ASSUME AsyncInv, ReadForSize \/ SizeRead
  PROVE  AsyncInv'
  <1>1. /\ UNCHANGED <<refs, async_cache, async_frames, cur_async_frame,
                       prev_async_frame, copying, delayed>>
        /\ showing.at = "resize" /\ showing'.at \in {"resize", "ticked"}
      BY DEF ReadForSize, SizeRead, shownVars, Idle, AsyncInv, PointsHold
  <1>2. /\ Queued' = Queued /\ Kept' = Kept /\ Filtered' = {} /\ Filtered = {}
        /\ Cached' = Cached /\ Pointed' = Pointed /\ Copied' = Copied
        /\ \A g \in Cached : Used(g)' <=> Used(g)
      BY <1>1 DEF Queued, Kept, Filtered, Cached, Pointed, Copied, Used
  <1>3. Typed'
      BY <1>1, <1>2 DEF AsyncInv, Typed
  <1>4. PointsHold'
      BY <1>1
      DEF AsyncInv, PointsHold, ReadForSize, SizeRead, shownVars, Idle,
          FrameOrNull, Typed
  <1>5. HeldOnce'
      BY <1>1, <1>2 DEF AsyncInv, HeldOnce
  <1>6. CacheFollows'
      BY <1>2 DEF AsyncInv, CacheFollows, Held
  <1>7. RefsCounted'
      BY <1>1, <1>2 DEF AsyncInv, RefsCounted, Count
  <1>8. QED
      BY <1>3, <1>4, <1>5, <1>6, <1>7 DEF AsyncInv

\* The frame of a pointer goes to the filters, with a reference of its own.
LEMMA GetFrameKept ==
  ASSUME AsyncInv, GetFrame
  PROVE  AsyncInv'
  <1>1. CASE showing' = Idle /\ UNCHANGED <<refs, shownVars>>
    <2>1. /\ Queued' = Queued /\ Kept' = Kept /\ Filtered' = {}
          /\ Filtered = {} /\ Cached' = Cached
          /\ Pointed' = Pointed /\ Copied' = Copied
          /\ \A g \in Cached : Used(g)' <=> Used(g)
        BY <1>1
        DEF GetFrame, shownVars, Queued, Kept, Filtered, Cached, Pointed,
            Copied, Used, Idle
    <2>2. Typed' /\ PointsHold'
        BY <1>1, <2>1
        DEF AsyncInv, Typed, GetFrame, shownVars, PointsHold, Idle, FrameOrNull
    <2>3. HeldOnce' /\ CacheFollows'
        BY <1>1, <2>1
        DEF AsyncInv, HeldOnce, CacheFollows, Held, GetFrame, shownVars
    <2>4. RefsCounted'
        BY <1>1, <2>1 DEF AsyncInv, RefsCounted, Count
    <2>5. QED
        BY <2>2, <2>3, <2>4 DEF AsyncInv
  <1>2. ASSUME NEW f, f # NULL, f \in {cur_async_frame, prev_async_frame},
               showing' = [at |-> "filter", frame |-> f],
               refs' = [refs EXCEPT ![f] = @ + 1],
               \/ /\ f = cur_async_frame /\ cur_async_frame' = NULL
                  /\ UNCHANGED prev_async_frame
               \/ /\ f = prev_async_frame /\ prev_async_frame' = NULL
                  /\ UNCHANGED cur_async_frame
        PROVE  AsyncInv'
    <2>1. /\ f \in Frames /\ f \in Cached /\ f \in Pointed /\ f \notin Queued
          /\ f \notin Kept /\ f \notin Filtered /\ f # copying.frame
          /\ showing.at = "ticked"
        BY <1>2, SeqsTyped
        DEF AsyncInv, GetFrame, CacheFollows, HeldOnce, Pointed
    <2>2. /\ Queued' = Queued /\ Kept' = Kept /\ Filtered' = {f}
          /\ Filtered = {} /\ Cached' = Cached /\ Pointed' = Pointed \ {f}
          /\ Copied' = Copied /\ f \notin Copied
          /\ \A g \in Cached : Used(g)' <=> Used(g)
        BY <1>2, <2>1
        DEF GetFrame, Queued, Kept, Filtered, Cached, Pointed, Copied, Used,
            AsyncInv, HeldOnce
    <2>3. Held' = Held
        BY <2>1, <2>2 DEF Held
    <2>4. Typed'
        BY <1>2, <2>1, <2>2 DEF AsyncInv, Typed, GetFrame, FrameOrNull
    <2>5. PointsHold'
        BY <1>2, <2>1 DEF AsyncInv, PointsHold, GetFrame, FrameOrNull
    <2>6. HeldOnce'
        BY <1>2, <2>1, <2>2 DEF AsyncInv, HeldOnce, GetFrame
    <2>7. CacheFollows'
        BY <2>2, <2>3 DEF AsyncInv, CacheFollows
    <2>8. RefsCounted'
        BY <1>2, <2>1, <2>2 DEF AsyncInv, RefsCounted, Count, Times, Typed
    <2>9. QED
        BY <2>4, <2>5, <2>6, <2>7, <2>8 DEF AsyncInv
  <1>3. QED
      BY <1>1, <1>2 DEF GetFrame

\* The delay filter takes the frame, and may give the oldest it has for it.
LEMMA FilterFrameKept ==
  ASSUME AsyncInv, FilterFrame
  PROVE  AsyncInv'
  <1> DEFINE f == showing.frame
  <1>1. /\ f \in Frames /\ f # NULL /\ Filtered = {f} /\ showing.at = "filter"
        /\ f \notin Queued /\ f \notin Kept /\ f \notin Pointed
        /\ UNCHANGED <<refs, async_cache, async_frames, cur_async_frame,
                       prev_async_frame, copying>>
      BY SeqsTyped
      DEF AsyncInv, FilterFrame, PointsHold, HeldOnce, Filtered, FrameOrNull,
          shownVars
  <1>2. /\ Queued' = Queued /\ Cached' = Cached /\ Pointed' = Pointed
        /\ Copied' = Copied /\ \A g \in Cached : Used(g)' <=> Used(g)
      BY <1>1 DEF Queued, Cached, Pointed, Copied, Used
  <1>3. delayed \in Seq(Frames) /\ Inj(delayed) /\ Kept \subseteq Frames
      BY SeqsTyped DEF AsyncInv, Typed
  <1>4. /\ delayed' \in Seq(Frames) /\ Inj(delayed')
        /\ showing' \in [at : {"ticked", "release"}, frame : FrameOrNull]
        /\ showing'.at = "ticked" <=> showing'.frame = NULL
        /\ Filtered' \subseteq Kept \cup Filtered
        /\ Kept' = (Kept \cup Filtered) \ Filtered'
    <2>1. CASE /\ delayed' = delayed
               /\ showing' = [showing EXCEPT !.at = "release"]
      <3>1. /\ showing' = [at |-> "release", frame |-> f]
            /\ Filtered' = {f} /\ Kept' = Kept
          BY <1>1, <2>1 DEF Filtered, Kept, AsyncInv, PointsHold
      <3>2. QED
          BY <1>1, <1>3, <2>1, <3>1 DEF FrameOrNull
    <2>2. CASE /\ delayed # <<>>
               /\ showing' = [at |-> "release", frame |-> Head(delayed)]
               /\ delayed' = Append(Tail(delayed), f)
      <3> DEFINE h == Head(delayed)
                 t == Tail(delayed)
      <3>1. /\ h \in Kept /\ t \in Seq(Frames)
            /\ Inj(t) /\ Elements(t) = Kept \ {h}
          BY <1>3, <2>2, ElementsOfTail DEF Kept
      <3>2. f \notin Elements(t) /\ delayed' = Append(t, f)
          BY <1>1, <2>2, <3>1
      <3> HIDE DEF t
      <3>3. /\ delayed' \in Seq(Frames) /\ Inj(delayed')
            /\ Kept' = (Kept \ {h}) \cup {f}
        <4>1. /\ Append(t, f) \in Seq(Frames) /\ Inj(Append(t, f))
              /\ Elements(Append(t, f)) = Elements(t) \cup {f}
            BY <1>1, <3>1, <3>2, ElementsOfAppend
        <4>2. Kept' = Elements(delayed')
            BY DEF Kept, Elements
        <4>3. QED
            BY <3>1, <3>2, <4>1, <4>2, Zenon
      <3>4. Filtered' = {h}
          BY <2>2 DEF Filtered
      <3>5. h \in Frames /\ h # f /\ h # NULL
          BY <1>1, <1>3, <3>1, SeqsTyped
      <3> HIDE DEF h
      <3>6. showing' = [at |-> "release", frame |-> h]
          BY <2>2 DEF h
      <3>7. QED
          BY <1>1, <3>1, <3>3, <3>4, <3>5, <3>6 DEF FrameOrNull
    <2>3. CASE /\ showing' = [Idle EXCEPT !.at = "ticked"]
               /\ delayed' = Append(delayed, f)
      <3>1. /\ delayed' \in Seq(Frames) /\ Inj(delayed')
            /\ Kept' = Kept \cup {f}
          BY <1>1, <1>3, <2>3, ElementsOfAppend DEF Kept
      <3>2. Filtered' = {} /\ showing' = [at |-> "ticked", frame |-> NULL]
          BY <2>3 DEF Filtered, Idle
      <3>3. QED
          BY <1>1, <3>1, <3>2 DEF FrameOrNull
    <2>4. QED
        BY <2>1, <2>2, <2>3 DEF FilterFrame
  <1>5. Held' = Held
      BY <1>2, <1>4 DEF Held
  <1>6. Typed'
      BY <1>1, <1>2, <1>4 DEF AsyncInv, Typed
  <1>7. PointsHold'
      BY <1>1, <1>4 DEF AsyncInv, PointsHold
  <1>8. HeldOnce'
      BY <1>1, <1>2, <1>4 DEF AsyncInv, HeldOnce
  <1>9. CacheFollows'
      BY <1>2, <1>5 DEF AsyncInv, CacheFollows
  <1>10. RefsCounted'
    <2>1. ASSUME NEW g \in Frames PROVE Count(g)' = Count(g)
        BY <1>1, <1>2, <1>4 DEF Count, Times
    <2>2. QED
        BY <1>1, <2>1 DEF AsyncInv, RefsCounted
  <1>11. QED
      BY <1>6, <1>7, <1>8, <1>9, <1>10 DEF AsyncInv

\* A reference is given back: what the filters, or the delay filter, had, the
\* cache may use again, and what it does not have is freed.
LEMMA ReleaseKept ==
  ASSUME AsyncInv, NEW f \in Frames, Release(f),
         UNCHANGED <<async_frames, cur_async_frame, prev_async_frame, copying>>,
         delayed' \in Seq(Frames), Inj(delayed'), PointsHold',
         Filtered' \subseteq Filtered, Kept' \subseteq Kept,
         f \in Filtered \cup Kept, f \notin Filtered' \cup Kept',
         \A g \in Filtered \cup Kept : g # f => g \in Filtered' \cup Kept'
  PROVE  AsyncInv'
  <1>1. f \notin Queued /\ f \notin Pointed /\ f \notin Copied
      BY SeqsTyped DEF AsyncInv, HeldOnce, Copied, Pointed, PointsHold
  <1>2. /\ Queued' = Queued /\ Pointed' = Pointed /\ Copied' = Copied
      BY DEF Queued, Pointed, Copied
  <1>3. /\ Cached' = Cached
        /\ \A g \in Cached :
              /\ async_cache'[g] \in [used : BOOLEAN, unused_count : Nat]
              /\ Used(g)' <=> Used(g) /\ g \notin {f}
      BY RemovedMarks DEF Release
  <1>4. Held' = Held \ {f}
      BY <1>1, <1>2 DEF Held
  <1>5. /\ refs' = [refs EXCEPT ![f] = @ - 1]
        /\ refs[f] = Count(f) /\ Count(f) \in Nat
      BY DEF Release, AsyncInv, RefsCounted, Count, Times
  <1>6. Kept \cap Filtered = {}
      BY DEF AsyncInv, HeldOnce
  <1>7. \A g \in Frames : Count(g)' = Count(g) - Times(g = f)
      BY <1>1, <1>2, <1>3, <1>6 DEF Count, Times
  <1>8. \A g \in Frames : Count(g)' \in Nat
      BY DEF Count, Times
  <1>9. RefsCounted'
      BY <1>5, <1>7 DEF RefsCounted, AsyncInv, Typed, Times
  <1>10. Typed'
    <2>1. refs' \in [Frames -> Nat]
        BY <1>5, <1>7, <1>8 DEF AsyncInv, Typed, Times
    <2>2. QED
        BY <1>3, <2>1 DEF AsyncInv, Typed
  <1>11. HeldOnce'
      BY <1>2 DEF AsyncInv, HeldOnce
  <1>12. CacheFollows'
      BY <1>2, <1>3, <1>4 DEF AsyncInv, CacheFollows
  <1>13. QED
      BY <1>9, <1>10, <1>11, <1>12 DEF AsyncInv

\* obs_source_release_frame, after the filters.
LEMMA ReleaseFrameKept ==
  ASSUME AsyncInv, ReleaseFrame
  PROVE  AsyncInv'
  <1> DEFINE f == showing.frame
  <1>1. /\ f \in Frames /\ Filtered = {f} /\ f \notin Kept /\ Release(f)
        /\ UNCHANGED <<async_frames, cur_async_frame, prev_async_frame,
                       copying, delayed>>
        /\ showing' = [at |-> "ticked", frame |-> NULL]
      BY SeqsTyped
      DEF AsyncInv, ReleaseFrame, HeldOnce, Filtered, shownVars, Idle
  <1>2. Filtered' = {} /\ Kept' = Kept
      BY <1>1 DEF Filtered, Kept
  <1>3. PointsHold'
      BY <1>1 DEF AsyncInv, PointsHold, FrameOrNull
  <1>4. delayed' \in Seq(Frames) /\ Inj(delayed')
      BY <1>1 DEF AsyncInv, Typed
  <1>5. QED
      BY <1>1, <1>2, <1>3, <1>4, ReleaseKept

\* free_video_data: the delay filter gives back what it keeps.
LEMMA FreeDelayedKept ==
  ASSUME AsyncInv, FreeDelayed
  PROVE  AsyncInv'
  <1> DEFINE f == Head(delayed)
  <1>1. /\ delayed \in Seq(Frames) /\ Inj(delayed) /\ delayed # <<>>
        /\ Release(f) /\ delayed' = Tail(delayed)
        /\ UNCHANGED <<async_frames, cur_async_frame, prev_async_frame,
                       copying, showing>>
      BY DEF AsyncInv, Typed, FreeDelayed, shownVars
  <1>2. /\ f \in Kept /\ delayed' \in Seq(Frames) /\ Inj(delayed')
        /\ Kept' = Kept \ {f}
      BY <1>1, ElementsOfTail DEF Kept
  <1>3. f \in Frames /\ f \notin Filtered /\ Filtered' = Filtered
      BY <1>1, <1>2, SeqsTyped DEF AsyncInv, HeldOnce, Filtered
  <1>4. PointsHold'
      BY <1>1 DEF AsyncInv, PointsHold
  <1>5. QED
      BY <1>1, <1>2, <1>3, <1>4, ReleaseKept

\* enable_deinterlacing: the frame of the last tick may be used again.
LEMMA EnableDeinterlacingKept ==
  ASSUME AsyncInv, EnableDeinterlacing
  PROVE  AsyncInv'
  <1> DEFINE f == prev_async_frame
  <1>1. /\ f # NULL /\ async_cache' = Removed(async_cache, {f})
        /\ prev_async_frame' = NULL /\ showing.at \in {"idle", "ticked"}
        /\ UNCHANGED <<refs, async_frames, cur_async_frame, copying, showing,
                       delayed>>
      BY DEF EnableDeinterlacing
  <1>2. /\ f \in Pointed /\ f \notin Queued \cup Kept \cup Filtered
        /\ f # cur_async_frame /\ f # copying.frame
      BY <1>1 DEF AsyncInv, HeldOnce, Pointed
  <1>3. /\ Cached' = Cached
        /\ \A g \in Cached :
              /\ async_cache'[g] \in [used : BOOLEAN, unused_count : Nat]
              /\ Used(g)' <=> Used(g) /\ g \notin {f}
      BY <1>1, RemovedMarks
  <1>4. /\ Queued' = Queued /\ Kept' = Kept /\ Filtered' = Filtered
        /\ Copied' = Copied /\ Pointed' = Pointed \ {f}
      BY <1>1, <1>2 DEF Queued, Kept, Filtered, Copied, Pointed
  <1>5. Held' = Held \ {f}
      BY <1>2, <1>4 DEF Held
  <1>6. Typed'
      BY <1>1, <1>3 DEF AsyncInv, Typed, FrameOrNull
  <1>7. PointsHold'
      BY <1>1 DEF AsyncInv, PointsHold
  <1>8. HeldOnce'
      BY <1>1, <1>4 DEF AsyncInv, HeldOnce
  <1>9. CacheFollows'
      BY <1>3, <1>4, <1>5 DEF AsyncInv, CacheFollows
  <1>10. RefsCounted'
      BY <1>1, <1>3, <1>4 DEF AsyncInv, RefsCounted, Count
  <1>11. QED
      BY <1>6, <1>7, <1>8, <1>9, <1>10 DEF AsyncInv

-----------------------------------------------------------------------------
(* The theorems                                                             *)

\* Every step keeps the invariant.
LEMMA NextKept ==
  ASSUME AsyncRaces = {}, AsyncInv, [AsyncNext]_asyncVars
  PROVE  AsyncInv'
  <1>1. CASE CacheOverflows
      BY <1>1, CacheOverflowsKept
  <1>2. CASE CacheVideo
      BY <1>2, CacheVideoKept
  <1>3. CASE CopyDone
      BY <1>3, CopyDoneKept
  <1>4. CASE QueueFrame
      BY <1>4, QueueFrameKept
  <1>5. CASE AsyncTick
      BY <1>5, AsyncTickKept
  <1>6. CASE ReadForSize \/ SizeRead
      BY <1>6, SizeKept
  <1>7. CASE GetFrame
      BY <1>7, GetFrameKept
  <1>8. CASE FilterFrame
      BY <1>8, FilterFrameKept
  <1>9. CASE ReleaseFrame
      BY <1>9, ReleaseFrameKept
  <1>10. CASE FreeDelayed
      BY <1>10, FreeDelayedKept
  <1>11. CASE EnableDeinterlacing
      BY <1>11, EnableDeinterlacingKept
  <1>12. CASE UNCHANGED asyncVars
    <2>1. UNCHANGED <<refs, async_cache, async_frames, cur_async_frame,
                      prev_async_frame, copying, showing, delayed>>
        BY <1>12 DEF asyncVars, shownVars
    <2>2. /\ Queued' = Queued /\ Kept' = Kept /\ Filtered' = Filtered
          /\ Cached' = Cached /\ Pointed' = Pointed /\ Copied' = Copied
          /\ Held' = Held /\ \A g \in Cached : Used(g)' <=> Used(g)
        BY <2>1
        DEF Queued, Kept, Filtered, Cached, Pointed, Copied, Held, Used
    <2>3. Typed' /\ PointsHold'
        BY <2>1, <2>2 DEF AsyncInv, Typed, PointsHold
    <2>4. HeldOnce' /\ CacheFollows' /\ RefsCounted'
        BY <2>1, <2>2
        DEF AsyncInv, HeldOnce, CacheFollows, RefsCounted, Count
    <2>5. QED
        BY <2>3, <2>4 DEF AsyncInv
  <1>13. QED
      BY <1>1, <1>2, <1>3, <1>4, <1>5, <1>6, <1>7, <1>8, <1>9, <1>10, <1>11,
         <1>12
      DEF AsyncNext

\* A source starts without frames.
LEMMA InitAsyncInv ==
  ASSUME AsyncInit
  PROVE  AsyncInv
  <1>1. /\ Queued = {} /\ Kept = {} /\ Filtered = {} /\ Copied = {}
        /\ Pointed = {} /\ Cached = {}
      BY
      DEF AsyncInit, Queued, Kept, Filtered, Copied, Pointed, Cached, NoCache,
          Idle, Elements
  <1>2. Inj(<<>>) /\ <<>> \in Seq(Frames)
      BY DEF Inj
  <1>3. Typed
      BY <1>1, <1>2 DEF AsyncInit, Typed, FrameOrNull
  <1>4. PointsHold
      BY DEF AsyncInit, PointsHold, Idle, FrameOrNull
  <1>5. HeldOnce /\ CacheFollows
      BY <1>1 DEF AsyncInit, HeldOnce, CacheFollows
  <1>6. RefsCounted
      BY <1>1 DEF AsyncInit, RefsCounted, Count, Times
  <1>7. QED
      BY <1>3, <1>4, <1>5, <1>6 DEF AsyncInv

\* A frame is at most once in the delay filter, which is what Cardinality
\* counts there.
LEMMA KeptOnce ==
  ASSUME AsyncInv, NEW f
  PROVE  Cardinality({i \in DOMAIN delayed : delayed[i] = f})
             = Times(f \in Kept)
  <1> DEFINE places == {i \in DOMAIN delayed : delayed[i] = f}
  <1>1. CASE f \in Kept
    <2>1. PICK i \in DOMAIN delayed : delayed[i] = f
        BY <1>1 DEF Kept, Elements
    <2>2. places = {i}
        BY <2>1 DEF AsyncInv, Typed, Inj
    <2>3. QED
        BY <1>1, <2>2, FS_Singleton DEF Times
  <1>2. CASE f \notin Kept
    <2>1. places = {}
        BY <1>2 DEF Kept, Elements
    <2>2. QED
        BY <1>2, <2>1, FS_EmptySet DEF Times
  <1>3. QED
      BY <1>1, <1>2

\* The frames and the two threads are always as AsyncInv says: who holds a
\* frame, what the cache marks, and what the references count.
THEOREM AsyncInvHolds ==
  ASSUME AsyncRaces = {}
  PROVE  AsyncSpec => []AsyncInv
  <1>1. AsyncInit => AsyncInv
      BY InitAsyncInv
  <1>2. AsyncInv /\ [AsyncNext]_asyncVars => AsyncInv'
      BY NextKept
  <1>3. QED
      BY <1>1, <1>2, PTL DEF AsyncSpec

\* The invariant gives the property: nothing in use is freed, the frame that is
\* written is read by nobody, every reference has its holder, and a frame that
\* is marked as used has one.
LEMMA InvGivesIntact ==
  ASSUME AsyncInv
  PROVE  FramesIntact
  <1>1. NULL \notin Frames
      BY SeqsTyped
  <1>2. ASSUME NEW f \in InUse
        PROVE  f \in Frames /\ f \in Cached \cup Kept \cup Filtered
    <2>1. f # NULL
        BY <1>2 DEF InUse
    <2>2. f = showing.frame => f \in Filtered \cup {cur_async_frame}
        BY <2>1 DEF AsyncInv, PointsHold, Filtered
    <2>3. f \in Cached \cup Queued \cup Kept \cup Pointed \cup Filtered
        BY <1>2, <2>1, <2>2 DEF InUse, Queued, Kept, Pointed
    <2>4. QED
        BY <2>3, SeqsTyped DEF AsyncInv, CacheFollows, Typed
  <1>3. \A f \in InUse : refs[f] > 0
      BY <1>2 DEF AsyncInv, RefsCounted, Count, Times
  <1>4. copying.at = "copy" => copying.frame \notin Read
    <2>1. SUFFICES ASSUME copying.at = "copy" PROVE copying.frame \notin Read
        OBVIOUS
    <2>2. copying.frame \in Pointed /\ copying.frame # NULL
        BY <2>1 DEF AsyncInv, PointsHold, Pointed
    <2>3. /\ copying.frame \notin Queued /\ copying.frame \notin Kept
          /\ copying.frame \notin Filtered
          /\ copying.frame \notin {cur_async_frame, prev_async_frame}
        BY <2>2 DEF AsyncInv, HeldOnce
    <2>4. showing.frame \in Filtered \cup {NULL, cur_async_frame}
        BY DEF AsyncInv, PointsHold, Filtered
    <2>5. QED
        BY <2>2, <2>3, <2>4 DEF Read, Queued, Kept
  <1>5. ASSUME NEW f \in Frames
        PROVE  refs[f] = Times(f \in Cached)
                       + Cardinality({i \in DOMAIN delayed : delayed[i] = f})
                       + Times(copying = [at |-> "copy", frame |-> f])
                       + Times(showing.at \in {"filter", "release"}
                                   /\ showing.frame = f)
    <2>1. Times(copying = [at |-> "copy", frame |-> f]) = Times(f \in Copied)
        BY DEF Times, Copied, AsyncInv, PointsHold
    <2>2. Times(showing.at \in {"filter", "release"} /\ showing.frame = f)
              = Times(f \in Filtered)
        BY DEF Times, Filtered
    <2>3. refs[f] = Count(f)
        BY DEF AsyncInv, RefsCounted
    <2>4. QED
        BY <2>1, <2>2, <2>3, KeptOnce DEF Count
  <1>6. ASSUME NEW f \in Cached, async_cache[f].used
        PROVE  f \in Read \cup {copying.frame}
    <2>1. f \in Held
        BY <1>6 DEF AsyncInv, CacheFollows, Used
    <2>2. f # NULL
        BY <1>1 DEF AsyncInv, Typed
    <2>3. QED
        BY <2>1, <2>2
        DEF Held, Read, Queued, Kept, Filtered, Pointed
  <1>7. QED
      BY <1>3, <1>4, <1>5, <1>6 DEF FramesIntact

\* The variables keep their types.
THEOREM AsyncTyped ==
  ASSUME AsyncRaces = {}
  PROVE  AsyncSpec => []AsyncTypeOK
  <1>1. AsyncInv => AsyncTypeOK
      BY DEF AsyncInv, Typed, PointsHold, AsyncTypeOK
  <1>2. QED
      BY <1>1, AsyncInvHolds, PTL

\* No frame that is queued, shown, filtered or copied into is freed or handed
\* out to be overwritten; every reference has a holder, so nothing leaks; and
\* every frame the cache marks as used is one that somebody will release.
THEOREM FramesStayIntact ==
  ASSUME AsyncRaces = {}
  PROVE  AsyncSpec => []FramesIntact
  <1>1. QED
      BY InvGivesIntact, AsyncInvHolds, PTL
=============================================================================
