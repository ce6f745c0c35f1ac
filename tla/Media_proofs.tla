----------------------------- MODULE Media_proofs -----------------------------
(***************************************************************************)
(* Proofs about the parts that samples, signals and packets pass through.   *)
(* AudioBuffering: for any sources, frames, ticks and limits, the output    *)
(* has no hole and late sources are waited for, but for less than a frame.  *)
(* ReplayBuffer: for any durations, sizes, limits and groups of pictures,   *)
(* the numbers that the purges decide by tell of the packets there are,     *)
(* the limits are kept, and a capture that nothing was left for has its own *)
(* packets only.                                                            *)
(* Signals: for any threads and callbacks, a delivery reaches what stays    *)
(* connected, and nothing twice, as long as callbacks do not signal again,  *)
(* connect what is marked, or change the global callbacks they run in.      *)
(***************************************************************************)
EXTENDS AudioBuffering, ReplayBuffer, Signals, FiniteSetTheorems,
        WellFoundedInduction, SequenceTheorems, TLAPS

-----------------------------------------------------------------------------
(* Late audio: the inductive invariant                                      *)

\* The ticks in the buffer, the one that audio_callback works on included.
Ticks == IF step = "render" THEN total_buffering_ticks
         ELSE total_buffering_ticks + 1

\* The time stamps from which the ticks in the buffer begin.
First == audio_time - Ticks * Tick

AudioTyped ==
    /\ buffered_timestamps \in Seq(Nat) /\ Len(buffered_timestamps) = Ticks
    /\ total_buffering_ticks \in 0 .. MAX_BUFFERING_TICKS
    /\ buffering_wait_ticks \in 0 .. total_buffering_ticks
    /\ audio_time \in Nat /\ audio_time >= Beginning
    /\ step # "render" => audio_time >= Beginning + Tick
    /\ audio_ts \in [AudioSources -> Nat]
    /\ input_size \in [AudioSources -> 0 .. MaxBufFrames]
    /\ last_audio_input_buf_size \in [AudioSources -> 0 .. MaxBufFrames]
    /\ audio_pending \in [AudioSources -> BOOLEAN]
    /\ pending_stop \in [AudioSources -> BOOLEAN]
    /\ step \in {"render", "buffer", "mix", "discard"}
    /\ buffered_ts \in Nat /\ jumps \in Nat /\ ts \in [start : Nat, end : Nat]
    /\ last_mixed \in Nat \cup {-1} /\ mixed \subseteq AudioSources

\* The ticks follow each other up to the one that audio_thread will queue.
TicksInRow ==
    \A k \in 1 .. Ticks :
        buffered_timestamps[k] = audio_time - (Ticks - k + 1) * Tick

\* The tick that is worked on is the first of them.
TickIsFirst == step # "render" => ts.start = First

\* The ticks that are only waited for end where the output goes on.
WaitEnds ==
    /\ buffering_wait_ticks # 0 =>
           buffered_ts = First + buffering_wait_ticks * Tick
    /\ last_mixed # -1 =>
           IF step = "discard" /\ buffering_wait_ticks = 0
           THEN last_mixed = First
           ELSE last_mixed + Tick = First + buffering_wait_ticks * Tick

\* A source that is not pending had a whole tick of audio when it was rendered,
\* and has it until it is mixed, unless its time jumped.  What is mixed is used
\* up when the tick's end was set.
MixedHaveAudio ==
    /\ step \in {"buffer", "mix"} => \A s \in AudioSources :
           ~audio_pending[s] =>
               /\ audio_ts[s] # 0
               /\ s \in mixed => input_size[s] >= AUDIO_OUTPUT_FRAMES
    /\ step = "discard" => \A s \in mixed :
           /\ buffering_wait_ticks = 0 /\ last_mixed = ts.start
           /\ audio_ts[s] \in ts.start .. ts.end - 1
           /\ ~audio_pending[s] /\ input_size[s] >= AUDIO_OUTPUT_FRAMES
    /\ step = "render" /\ ts.end = ts.start + Tick => \A s \in mixed :
           last_mixed # -1 /\ audio_ts[s] = last_mixed + Tick

AudioInv ==
    AudioTyped /\ TicksInRow /\ TickIsFirst /\ WaitEnds /\ MixedHaveAudio

-----------------------------------------------------------------------------
(* Arithmetic                                                               *)

\* The numbers that the model is built from.
LEMMA AudioNumbers ==
  /\ FrameTime \in Nat /\ FrameTime > 0
  /\ AUDIO_OUTPUT_FRAMES \in Nat /\ AUDIO_OUTPUT_FRAMES > 0
  /\ MAX_BUFFERING_TICKS \in Nat /\ MAX_BUFFERING_TICKS > 0
  /\ MaxBufFrames \in Nat /\ MaxLate \in Nat /\ MaxJumps \in Nat
  /\ Tick \in Nat /\ Tick > 0 /\ Tick >= FrameTime
  <1>1. /\ FrameTime \in Nat /\ FrameTime > 0
        /\ AUDIO_OUTPUT_FRAMES \in Nat /\ AUDIO_OUTPUT_FRAMES > 0
      BY AudioBufferingAssumption
  <1>2. /\ MAX_BUFFERING_TICKS \in Nat /\ MAX_BUFFERING_TICKS > 0
        /\ MaxBufFrames \in Nat /\ MaxLate \in Nat /\ MaxJumps \in Nat
      BY AudioBufferingAssumption
  <1>3. \A a, b \in Nat : a > 0 /\ b > 0 => a * b \in Nat /\ a * b >= a
      OBVIOUS
  <1>4. QED
      BY <1>1, <1>2, <1>3 DEF Tick

\* The product of sums.
LEMMA Distribute ==
  \A a, b, c \in Int : /\ a * c \in Int
                       /\ (a + b) * c = a * c + b * c
                       /\ (a - b) * c = a * c - b * c
  OBVIOUS

\* Products keep the order.
LEMMA Monotone ==
  \A a, b, c \in Nat : a <= b => a * c <= b * c
  OBVIOUS

\* Dividing rounds down.
LEMMA Divide ==
  ASSUME NEW x \in Nat, NEW d \in Nat, d > 0
  PROVE  /\ x \div d \in Nat /\ (x \div d) * d <= x
         /\ x < (x \div d) * d + d
  OBVIOUS

\* Any number of ticks is a time.
LEMMA TicksAreTime ==
  ASSUME NEW n \in Nat
  PROVE  n * Tick \in Nat
  <1>1. Tick \in Nat
      BY AudioNumbers
  <1>2. QED
      BY <1>1

\* The audio thread begins late enough for all time stamps and all buffering.
LEMMA BeginningIsLate ==
  /\ Beginning \in Nat
  /\ \A late \in 0 .. MaxLate :
         /\ late * FrameTime \in Nat
         /\ Beginning >= late * FrameTime + FrameTime
  /\ \A n \in 0 .. MAX_BUFFERING_TICKS : Beginning >= n * Tick + Tick
  <1> DEFINE B == MAX_BUFFERING_TICKS + MaxLate + 1
  <1>1. B \in Nat /\ Beginning = B * Tick /\ Tick \in Nat /\ Tick > 0
        /\ MAX_BUFFERING_TICKS \in Nat /\ MaxLate \in Nat
        /\ FrameTime \in Nat /\ Tick >= FrameTime
    <2>1. /\ MAX_BUFFERING_TICKS \in Nat /\ MaxLate \in Nat
          /\ Tick \in Nat /\ Tick > 0 /\ FrameTime \in Nat /\ Tick >= FrameTime
        BY AudioNumbers
    <2>2. \A a, b \in Nat : a * b = b * a
        OBVIOUS
    <2>3. B \in Nat
        BY <2>1
    <2> HIDE DEF B
    <2>4. Beginning = Tick * B
        BY DEF Beginning, B
    <2>5. QED
        BY <2>1, <2>2, <2>3, <2>4
  <1>2. Beginning \in Nat
      BY <1>1, TicksAreTime
  <1>3. ASSUME NEW late \in 0 .. MaxLate
        PROVE  /\ late * FrameTime \in Nat
               /\ Beginning >= late * FrameTime + FrameTime
    <2>1. late \in Nat /\ late + 1 \in Nat /\ late + 1 <= B
        BY <1>1
    <2>2. /\ (late + 1) * Tick <= B * Tick
          /\ (late + 1) * Tick = late * Tick + Tick
          /\ late * Tick \in Nat /\ late * FrameTime \in Nat
      <3> HIDE DEF B
      <3>1. QED
          BY <1>1, <2>1, Monotone, Distribute, TicksAreTime
    <2>3. late * FrameTime <= late * Tick
      <3>1. \A a, b, c \in Nat : a <= b => c * a <= c * b
          OBVIOUS
      <3>2. QED
          BY <1>1, <2>1, <3>1
    <2>4. QED
        BY <1>1, <2>2, <2>3
  <1>4. ASSUME NEW n \in 0 .. MAX_BUFFERING_TICKS
        PROVE  Beginning >= n * Tick + Tick
    <2>1. n \in Nat /\ n + 1 \in Nat /\ n + 1 <= B
        BY <1>1
    <2>2. /\ (n + 1) * Tick <= B * Tick
          /\ (n + 1) * Tick = n * Tick + Tick
      <3> HIDE DEF B
      <3>1. QED
          BY <1>1, <2>1, Monotone, Distribute
    <2>3. QED
        BY <1>1, <2>2
  <1>5. QED
      BY <1>2, <1>3, <1>4

\* None of the ticks that may be in the buffer is the first one of all time.
LEMMA RowIsTime ==
  ASSUME AudioTyped, step # "render", NEW n \in 0 .. MAX_BUFFERING_TICKS + 1
  PROVE  /\ n * Tick \in Nat /\ audio_time - n * Tick \in Nat
         /\ audio_time - n * Tick >= Tick
  <1> DEFINE m == MAX_BUFFERING_TICKS
  <1>1. /\ Tick \in Nat /\ audio_time \in Nat /\ audio_time >= Beginning + Tick
        /\ m \in Nat /\ Beginning \in Nat
      BY AudioNumbers, BeginningIsLate DEF AudioTyped
  <1>2. n \in Nat /\ n <= m + 1 /\ m + 1 \in Nat
      BY <1>1
  <1>3. /\ m \in 0 .. MAX_BUFFERING_TICKS
        /\ (m + 1) * Tick = m * Tick + 1 * Tick /\ 1 * Tick = Tick
        /\ m * Tick \in Nat /\ n * Tick \in Nat
      BY <1>1, <1>2, Distribute, TicksAreTime
  <1>4. n * Tick <= (m + 1) * Tick /\ Beginning >= m * Tick + Tick
      BY <1>1, <1>2, <1>3, BeginningIsLate, Monotone
  <1>5. audio_time - n * Tick \in Nat /\ audio_time - n * Tick >= Tick
      BY <1>1, <1>3, <1>4
  <1>6. QED
      BY <1>3, <1>5

\* Nor is the one that is worked on.
LEMMA FirstIsTime ==
  ASSUME AudioTyped, step # "render"
  PROVE  First \in Nat /\ First >= Tick
  <1>1. Ticks \in 0 .. MAX_BUFFERING_TICKS + 1
      BY AudioNumbers DEF AudioTyped, Ticks
  <1>2. QED
      BY <1>1, RowIsTime DEF First

\* The least of a set of numbers is in it.
LEMMA MinIsLeast ==
  ASSUME NEW S \in SUBSET Nat, S # {}
  PROVE  Min(S) \in S /\ \A x \in S : Min(S) <= x
  <1> DEFINE R == {ss \in Nat \X Nat : ss[1] < ss[2]}
  <1>1. PICK n \in S : \A m \in S : ~(<<m, n>> \in OpToRel(<, Nat))
      BY NatLessThanWellFounded, WFMin
  <1>2. OpToRel(<, Nat) = R
      BY Zenon DEF OpToRel
  <1>3. \A m \in S : ~(<<m, n>> \in R)
      BY <1>1, <1>2, Zenon
  <1>4. \A m \in S : n <= m
    <2>1. ASSUME NEW m \in S, m < n PROVE FALSE
      <3>1. <<m, n>> \in R
          BY <2>1
      <3>2. QED
          BY <1>3, <3>1
    <2>2. QED
        BY <2>1
  <1>5. QED
      BY <1>4 DEF Min

-----------------------------------------------------------------------------
(* Late audio: the steps                                                    *)

\* No tick waits before the first one.
LEMMA InitAudioInv ==
  AudioInit => AudioInv
  <1> SUFFICES ASSUME AudioInit PROVE AudioInv
      OBVIOUS
  <1> USE DEF AudioInit
  <1>1. /\ MAX_BUFFERING_TICKS \in Nat /\ MaxBufFrames \in Nat
        /\ Tick \in Nat /\ 0 * Tick = 0
      BY AudioNumbers
  <1>2. Beginning \in Nat
      BY BeginningIsLate
  <1>3. Ticks = 0 /\ First = Beginning
      BY <1>1, <1>2 DEF Ticks, First
  <1>4. AudioTyped
    <2>1. /\ buffered_timestamps \in Seq(Nat)
          /\ Len(buffered_timestamps) = Ticks
          /\ ts \in [start : Nat, end : Nat]
        BY <1>2, <1>3
    <2>2. /\ input_size \in [AudioSources -> 0 .. MaxBufFrames]
          /\ last_audio_input_buf_size \in [AudioSources -> 0 .. MaxBufFrames]
        BY <1>1
    <2>3. QED
        BY <1>1, <1>2, <2>1, <2>2 DEF AudioTyped
  <1>5. TicksInRow
      BY <1>3 DEF TicksInRow
  <1>6. TickIsFirst /\ WaitEnds /\ MixedHaveAudio
      BY DEF TickIsFirst, WaitEnds, MixedHaveAudio
  <1>7. QED
      BY <1>4, <1>5, <1>6 DEF AudioInv

\* What leaves the ticks alone leaves what is said of them alone.
LEMMA TicksKept ==
  ASSUME AudioInv, UNCHANGED <<tickVars, audio_time, step, ts, last_mixed>>
  PROVE  /\ TicksInRow' /\ TickIsFirst' /\ WaitEnds' /\ Ticks' = Ticks
  BY DEF AudioInv, TicksInRow, TickIsFirst, WaitEnds, First, Ticks, tickVars

\* A frame that follows the last one adds to what the source has.
LEMMA PushBackKeeps ==
  ASSUME AudioInv, NEW s \in AudioSources, PushBack(s)
  PROVE  AudioInv'
  <1> USE DEF PushBack
  <1>1. TicksInRow' /\ TickIsFirst' /\ WaitEnds' /\ Ticks' = Ticks
      BY TicksKept
  <1>2. /\ input_size' \in [AudioSources -> 0 .. MaxBufFrames]
        /\ \A u \in AudioSources : input_size'[u] >= input_size[u]
        /\ last_audio_input_buf_size' \in [AudioSources -> 0 .. MaxBufFrames]
      BY AudioNumbers DEF AudioInv, AudioTyped
  <1>3. AudioTyped'
      BY <1>1, <1>2 DEF AudioInv, AudioTyped, tickVars
  <1>4. MixedHaveAudio'
    <2>1. /\ AUDIO_OUTPUT_FRAMES \in Nat
          /\ input_size \in [AudioSources -> 0 .. MaxBufFrames]
          /\ MaxBufFrames \in Nat /\ mixed \subseteq AudioSources
        BY AudioNumbers DEF AudioInv, AudioTyped
    <2>2. \A u \in AudioSources :
              input_size[u] >= AUDIO_OUTPUT_FRAMES
                  => input_size'[u] >= AUDIO_OUTPUT_FRAMES
        BY <1>2, <2>1
    <2>3. QED
        BY <2>1, <2>2 DEF AudioInv, MixedHaveAudio, tickVars
  <1>5. QED
      BY <1>1, <1>3, <1>4 DEF AudioInv

\* A source whose time jumps is not counted on.
LEMMA PlaceKeeps ==
  ASSUME AudioInv, NEW s \in AudioSources, Place(s)
  PROVE  AudioInv'
  <1> USE DEF Place
  <1>1. TicksInRow' /\ TickIsFirst' /\ WaitEnds' /\ Ticks' = Ticks
      BY TicksKept
  <1>2. PICK late \in 0 .. MaxLate, r \in Remainders :
          LET time   == audio_time - late * FrameTime - r
              reset  == audio_ts[s] = 0 \/ time < audio_ts[s]
              behind == IF reset THEN 0 ELSE NsToFrames(time - audio_ts[s])
              taken  == behind + 1 =< MaxBufFrames
              size   == IF taken THEN behind + 1
                        ELSE IF reset THEN 0 ELSE input_size[s]
          IN  /\ audio_ts' = [audio_ts EXCEPT ![s] = IF reset THEN time ELSE @]
              /\ input_size' = [input_size EXCEPT ![s] = size]
              /\ last_audio_input_buf_size' = [last_audio_input_buf_size EXCEPT
                     ![s] = IF reset \/ taken THEN 0 ELSE @]
      BY Zenon
  <1> DEFINE time == audio_time - late * FrameTime - r
  <1>3. late \in Nat /\ r \in Nat /\ r < FrameTime
      BY AudioNumbers, AudioBufferingAssumption
  <1>4. /\ audio_time \in Nat /\ audio_time >= Beginning /\ Beginning \in Nat
        /\ audio_ts \in [AudioSources -> Nat]
        /\ FrameTime \in Nat /\ FrameTime > 0 /\ MaxBufFrames \in Nat
        /\ input_size \in [AudioSources -> 0 .. MaxBufFrames]
        /\ jumps \in Nat /\ mixed \subseteq AudioSources
        /\ last_audio_input_buf_size \in [AudioSources -> 0 .. MaxBufFrames]
      BY AudioNumbers, BeginningIsLate DEF AudioInv, AudioTyped
  <1>5. /\ late * FrameTime \in Nat
        /\ Beginning >= late * FrameTime + FrameTime
      BY BeginningIsLate
  <1>6. time \in Nat /\ time > 0
      BY <1>3, <1>4, <1>5
  <1> HIDE DEF time
  <1> DEFINE reset == audio_ts[s] = 0 \/ time < audio_ts[s]
             behind == IF reset THEN 0 ELSE NsToFrames(time - audio_ts[s])
             taken == behind + 1 =< MaxBufFrames
             size == IF taken THEN behind + 1
                     ELSE IF reset THEN 0 ELSE input_size[s]
             last == IF reset \/ taken THEN 0 ELSE last_audio_input_buf_size[s]
  <1>7. /\ audio_ts' = [audio_ts EXCEPT ![s] = IF reset THEN time ELSE @]
        /\ input_size' = [input_size EXCEPT ![s] = size]
        /\ last_audio_input_buf_size'
               = [last_audio_input_buf_size EXCEPT ![s] = last]
      BY <1>2 DEF time
  <1>8. behind \in Nat
    <2>1. CASE reset
        BY <2>1
    <2>2. CASE ~reset
      <3>1. time - audio_ts[s] \in Nat
          BY <1>4, <1>6, <2>2
      <3>2. NsToFrames(time - audio_ts[s]) \in Nat
          BY <1>4, <3>1, Divide DEF NsToFrames
      <3>3. QED
          BY <2>2, <3>2
    <2>3. QED
        BY <2>1, <2>2
  <1>9. size \in 0 .. MaxBufFrames /\ last \in 0 .. MaxBufFrames
      BY <1>4, <1>8
  <1>10. /\ audio_ts' \in [AudioSources -> Nat]
         /\ \A u \in AudioSources : u # s => audio_ts'[u] = audio_ts[u]
         /\ audio_ts'[s] = IF reset THEN time ELSE audio_ts[s]
      BY <1>4, <1>6, <1>7
  <1>11. audio_ts'[s] # 0
      BY <1>4, <1>6, <1>10
  <1>12. /\ input_size' \in [AudioSources -> 0 .. MaxBufFrames]
         /\ \A u \in AudioSources : u # s => input_size'[u] = input_size[u]
         /\ last_audio_input_buf_size' \in [AudioSources -> 0 .. MaxBufFrames]
    <2> HIDE DEF size, last
    <2>1. /\ input_size' = [input_size EXCEPT ![s] = size]
          /\ size \in 0 .. MaxBufFrames
          /\ input_size \in [AudioSources -> 0 .. MaxBufFrames]
        BY <1>4, <1>7, <1>9
    <2>2. /\ input_size' \in [AudioSources -> 0 .. MaxBufFrames]
          /\ \A u \in AudioSources : u # s => input_size'[u] = input_size[u]
        BY <2>1, Zenon
    <2>3. /\ last_audio_input_buf_size'
                 = [last_audio_input_buf_size EXCEPT ![s] = last]
          /\ last \in 0 .. MaxBufFrames
          /\ last_audio_input_buf_size \in [AudioSources -> 0 .. MaxBufFrames]
        BY <1>4, <1>7, <1>9
    <2>4. last_audio_input_buf_size' \in [AudioSources -> 0 .. MaxBufFrames]
        BY <2>3, Zenon
    <2>5. QED
        BY <2>2, <2>4
  <1>13. AudioTyped'
    <2>1. UNCHANGED <<tickVars, audio_pending, pending_stop, audio_time, step,
                      ts, last_mixed>>
        OBVIOUS
    <2>2. jumps' \in Nat /\ mixed' \subseteq AudioSources
        BY <1>4
    <2> HIDE DEF Place
    <2>3. QED
        BY <1>1, <1>10, <1>12, <2>1, <2>2 DEF AudioInv, AudioTyped, tickVars
  <1>14. MixedHaveAudio'
      BY <1>4, <1>10, <1>11, <1>12 DEF AudioInv, MixedHaveAudio, tickVars
  <1>15. QED
      BY <1>1, <1>13, <1>14 DEF AudioInv

\* The tick that audio_thread queues follows the last one of the buffer, and the
\* first of them is worked on.
LEMMA RenderKeeps ==
  ASSUME AudioInv, Render
  PROVE  AudioInv'
  <1> USE DEF Render
  <1>1. /\ Tick \in Nat /\ Tick > 0 /\ audio_time \in Nat
        /\ total_buffering_ticks \in Nat /\ Beginning \in Nat
        /\ audio_time >= Beginning
        /\ buffered_timestamps \in Seq(Nat)
        /\ Len(buffered_timestamps) = total_buffering_ticks
        /\ MAX_BUFFERING_TICKS \in Nat
      BY AudioNumbers, BeginningIsLate DEF AudioInv, AudioTyped, Ticks
  <1> DEFINE n == total_buffering_ticks
  <1>2. /\ Ticks = n /\ Ticks' = n + 1 /\ total_buffering_ticks' = n
        /\ audio_time' = audio_time + Tick /\ audio_time' \in Nat
      BY <1>1 DEF Ticks
  <1>3. /\ (n + 1) * Tick = n * Tick + Tick /\ n * Tick \in Nat
        /\ 1 * Tick = Tick
      BY <1>1, Distribute, TicksAreTime
  <1>4. First' = First
      BY <1>1, <1>2, <1>3 DEF First
  <1>5. /\ buffered_timestamps' \in Seq(Nat)
        /\ Len(buffered_timestamps') = n + 1
        /\ \A k \in 1 .. n : buffered_timestamps'[k] = buffered_timestamps[k]
        /\ buffered_timestamps'[n + 1] = audio_time
        /\ Head(buffered_timestamps') = buffered_timestamps'[1]
      BY <1>1
  <1>6. TicksInRow'
    <2>1. ASSUME NEW k \in 1 .. n + 1
          PROVE  buffered_timestamps'[k]
                     = audio_time + Tick - (n + 1 - k + 1) * Tick
      <3>1. CASE k = n + 1
        <4>1. (n + 1 - k + 1) * Tick = Tick
            BY <1>1, <1>3, <3>1
        <4>2. QED
            BY <1>1, <1>5, <3>1, <4>1
      <3>2. CASE k \in 1 .. n
        <4>1. buffered_timestamps[k] = audio_time - (n - k + 1) * Tick
            BY <1>2, <3>2 DEF AudioInv, TicksInRow
        <4>2. /\ (n - k + 1) + 1 = n + 1 - k + 1 /\ n - k + 1 \in Int
              /\ ((n - k + 1) + 1) * Tick = (n - k + 1) * Tick + 1 * Tick
              /\ (n - k + 1) * Tick \in Int
            BY <1>1, <3>2, Distribute
        <4>3. QED
            BY <1>1, <1>3, <1>5, <3>2, <4>1, <4>2
      <3>3. QED
          BY <1>1, <3>1, <3>2
    <2>2. SUFFICES ASSUME NEW k \in 1 .. Ticks'
                   PROVE  buffered_timestamps'[k]
                              = audio_time' - (Ticks' - k + 1) * Tick
        BY DEF TicksInRow
    <2>3. k \in 1 .. n + 1 /\ Ticks' - k + 1 = n + 1 - k + 1
        BY <1>1, <1>2
    <2>4. buffered_timestamps'[k]
              = audio_time + Tick - (n + 1 - k + 1) * Tick
        BY <2>1, <2>3
    <2>5. QED
        BY <1>1, <1>2, <2>3, <2>4
  <1>7. /\ ts' = [start |-> buffered_timestamps'[1],
                  end |-> buffered_timestamps'[1] + Tick]
        /\ buffered_timestamps'[1] \in Nat
      BY <1>1, <1>5
  <1>8. TickIsFirst'
    <2>1. 1 \in 1 .. n + 1 /\ n + 1 - 1 + 1 = n + 1
        BY <1>1
    <2>2. buffered_timestamps'[1] = audio_time' - (n + 1 - 1 + 1) * Tick
        BY <1>2, <1>6, <2>1 DEF TicksInRow
    <2>3. QED
        BY <1>2, <1>7, <2>1, <2>2 DEF TickIsFirst, First
  <1>9. WaitEnds'
      BY <1>4 DEF AudioInv, WaitEnds
  <1>10. audio_pending' \in [AudioSources -> BOOLEAN]
         /\ \A s \in AudioSources : ~audio_pending'[s] =>
                /\ audio_ts[s] # 0
                /\ ~(input_size[s] < AUDIO_OUTPUT_FRAMES)
      OBVIOUS
  <1>11. AudioTyped'
    <2>1. ts' \in [start : Nat, end : Nat]
        BY <1>1, <1>7
    <2>2. audio_time' >= Beginning /\ audio_time' >= Beginning + Tick
        BY <1>1, <1>2
    <2>3. QED
        BY <1>2, <1>5, <1>10, <2>1, <2>2 DEF AudioInv, AudioTyped
  <1>12. MixedHaveAudio'
    <2>1. /\ AUDIO_OUTPUT_FRAMES \in Nat /\ MaxBufFrames \in Nat
          /\ input_size \in [AudioSources -> 0 .. MaxBufFrames]
        BY AudioNumbers DEF AudioInv, AudioTyped
    <2>2. QED
        BY <1>10, <2>1 DEF MixedHaveAudio
  <1>13. QED
      BY <1>6, <1>8, <1>9, <1>11, <1>12 DEF AudioInv

\* The least of the times of a tick and its sources is the time of one of them.
LEMMA MinTsIsLeast ==
  ASSUME AudioInv, step # "render", NEW pending
  PROVE  /\ MinTs(pending) \in Nat
         /\ MinTs(pending) <= ts.start
         /\ \A s \in AudioSources :
                ~pending[s] /\ audio_ts[s] # 0 => MinTs(pending) <= audio_ts[s]
  <1> DEFINE U == {u \in AudioSources : ~pending[u] /\ audio_ts[u] # 0}
             S == {ts.start} \cup {audio_ts[s] : s \in U}
  <1>1. MinTs(pending) = Min(S)
      BY DEF MinTs
  <1>2. /\ audio_ts \in [AudioSources -> Nat] /\ ts.start \in Nat
      BY DEF AudioInv, AudioTyped
  <1>3. S \in SUBSET Nat /\ S # {}
      BY <1>2
  <1>4. Min(S) \in S /\ \A x \in S : Min(S) <= x
      BY <1>3, MinIsLeast
  <1>5. \A s \in AudioSources :
            ~pending[s] /\ audio_ts[s] # 0 => audio_ts[s] \in S
      OBVIOUS
  <1>6. ts.start \in S
      OBVIOUS
  <1> HIDE DEF S
  <1>7. QED
      BY <1>1, <1>3, <1>4, <1>5, <1>6

\* A sequence is typed by its elements.
LEMMA SequenceOf ==
  ASSUME NEW S, NEW T, NEW s \in Seq(S), \A k \in 1 .. Len(s) : s[k] \in T
  PROVE  s \in Seq(T)
  OBVIOUS

\* The elements of two sequences that are joined.
LEMMA Joined ==
  ASSUME NEW S, NEW a \in Seq(S), NEW b \in Seq(S)
  PROVE  /\ a \o b \in Seq(S) /\ Len(a \o b) = Len(a) + Len(b)
         /\ \A k \in 1 .. Len(a) : (a \o b)[k] = a[k]
         /\ \A k \in DOMAIN b : (a \o b)[k + Len(a)] = b[k]
  <1>1. Len(a) \in Nat /\ Len(b) \in Nat /\ DOMAIN b = 1 .. Len(b)
      OBVIOUS
  <1>2. a \o b \in Seq(S) /\ Len(a \o b) = Len(a) + Len(b)
      OBVIOUS
  <1>3. \A k \in 1 .. Len(a) + Len(b) :
            (a \o b)[k] = IF k <= Len(a) THEN a[k] ELSE b[k - Len(a)]
      BY ConcatProperties
  <1>4. ASSUME NEW k \in DOMAIN b PROVE (a \o b)[k + Len(a)] = b[k]
    <2>1. /\ k + Len(a) \in 1 .. Len(a) + Len(b) /\ ~(k + Len(a) <= Len(a))
          /\ k + Len(a) - Len(a) = k
        BY <1>1
    <2>2. QED
        BY <1>3, <2>1
  <1>5. QED
      BY <1>1, <1>2, <1>3, <1>4

\* With the ticks that are inserted, if any, the tick that is due is earlier by
\* as many, and not a frame later than the source that is late, unless the
\* buffering has reached its limit.
LEMMA BufferingAdds ==
  ASSUME AudioInv, step = "buffer", NEW min \in Nat, min < ts.start,
         total_buffering_ticks < MAX_BUFFERING_TICKS, AddBuffering(min)
  PROVE  \E ticks \in Nat :
           /\ total_buffering_ticks' = total_buffering_ticks + ticks
           /\ total_buffering_ticks' <= MAX_BUFFERING_TICKS
           /\ buffering_wait_ticks' = buffering_wait_ticks + ticks
           /\ buffered_ts' = First + buffering_wait_ticks * Tick
           /\ ts'.start = First - ticks * Tick
           /\ ts' \in [start : Int, end : {0, audio_time, ts'.start + Tick}]
           /\ Len(buffered_timestamps')
                  = Len(buffered_timestamps) + ticks
           /\ buffered_timestamps' \in Seq(Int)
           /\ \A k \in 1 .. ticks :
                  buffered_timestamps'[k] = First - (ticks - k + 1) * Tick
           /\ \A k \in DOMAIN buffered_timestamps :
                  buffered_timestamps'[k + ticks] = buffered_timestamps[k]
           /\ total_buffering_ticks' < MAX_BUFFERING_TICKS
                  => ts'.start < min + FrameTime
  <1> DEFINE A == AUDIO_OUTPUT_FRAMES
             frames == NsToFrames(ts.start - min)
             needed == (frames + A - 1) \div A
             first == IF buffering_wait_ticks = 0 THEN ts.start ELSE buffered_ts
             left == MAX_BUFFERING_TICKS - total_buffering_ticks
  <1>1. /\ FrameTime \in Nat /\ A \in Nat /\ A > 0 /\ Tick \in Nat /\ Tick > 0
        /\ MAX_BUFFERING_TICKS \in Nat /\ Tick = FrameTime * A /\ FrameTime > 0
      BY AudioNumbers DEF Tick
  <1>2. /\ total_buffering_ticks \in Nat /\ buffering_wait_ticks \in Nat
        /\ left \in Nat /\ left > 0 /\ audio_time \in Nat
        /\ buffered_timestamps \in Seq(Nat)
      BY <1>1 DEF AudioInv, AudioTyped
  <1>3. ts.start = First /\ First \in Nat
      BY FirstIsTime DEF AudioInv, TickIsFirst
  <1>4. /\ frames \in Nat
        /\ ts.start - min < frames * FrameTime + FrameTime
    <2>1. ts.start - min \in Nat
        BY <1>3
    <2> DEFINE offset == ts.start - min
    <2>2. /\ offset \in Nat /\ FrameTime \in Nat /\ FrameTime > 0
          /\ frames = offset \div FrameTime
        BY <1>1, <2>1 DEF NsToFrames
    <2> HIDE DEF offset, frames
    <2>3. frames \in Nat /\ offset < frames * FrameTime + FrameTime
        BY <2>2, Divide
    <2>4. QED
        BY <2>3 DEF offset
  <1>5. /\ needed \in Nat /\ frames <= needed * A
    <2> HIDE DEF frames
    <2>1. frames + A - 1 \in Nat
        BY <1>1, <1>4
    <2>2. /\ needed \in Nat /\ frames + A - 1 < needed * A + A
          /\ needed * A \in Nat
        BY <1>1, <2>1, Divide
    <2>3. QED
        BY <1>1, <1>4, <2>2
  <1>6. ts.start - min < needed * Tick + FrameTime
    <2> HIDE DEF needed, frames
    <2>1. frames * FrameTime <= (needed * A) * FrameTime
      <3>1. needed * A \in Nat
          BY <1>1, <1>5
      <3>2. QED
          BY <1>1, <1>4, <1>5, <3>1, Monotone
    <2>2. (needed * A) * FrameTime = needed * Tick
        BY <1>1, <1>5
    <2>3. frames * FrameTime \in Nat /\ needed * Tick \in Nat
        BY <1>1, <1>4, <1>5
    <2>4. QED
        BY <1>1, <1>3, <1>4, <2>1, <2>2, <2>3
  <1>7. first = First + buffering_wait_ticks * Tick
    <2>1. CASE buffering_wait_ticks = 0
      <3>1. 0 * Tick = 0
          BY <1>1
      <3>2. QED
          BY <1>3, <2>1, <3>1
    <2>2. CASE buffering_wait_ticks # 0
        BY <2>2 DEF AudioInv, WaitEnds
    <2>3. QED
        BY <2>1, <2>2
  <1> DEFINE ticks == Min({needed, left})
  <1>8. /\ ticks \in {needed, left} /\ ticks <= needed /\ ticks <= left
    <2> HIDE DEF needed, left
    <2>1. {needed, left} \in SUBSET Nat /\ {needed, left} # {}
        BY <1>2, <1>5
    <2> DEFINE S == {needed, left}
    <2>2. needed \in S /\ left \in S
        OBVIOUS
    <2>3. Min(S) \in S /\ \A x \in S : Min(S) <= x
      <3>1. S \in SUBSET Nat /\ S # {}
          BY <2>1
      <3> HIDE DEF S
      <3>2. QED
          BY <3>1, MinIsLeast
    <2>4. QED
        BY <2>2, <2>3
  <1>9. ticks \in Nat
    <2> HIDE DEF needed, left, ticks
    <2>1. QED
        BY <1>2, <1>5, <1>8
  <1> DEFINE wait == buffering_wait_ticks + ticks
             start == first - wait * Tick
             added == [k \in 1 .. ticks |-> first - (wait - k + 1) * Tick]
  <1>10. /\ buffered_ts' = first
         /\ total_buffering_ticks' = total_buffering_ticks + ticks
         /\ buffering_wait_ticks' = wait
         /\ buffered_timestamps' = added \o buffered_timestamps
      BY DEF AddBuffering
  <1>11. PICK end \in {0, audio_time, start + Tick} :
            ts' = [start |-> start, end |-> end]
    <2>1. \E end \in IF ticks = 0 THEN {0, audio_time} ELSE {start + Tick} :
              ts' = [start |-> start, end |-> end]
        BY DEF AddBuffering
    <2> HIDE DEF start, ticks
    <2>2. QED
        BY <2>1
  <1> HIDE DEF ticks, first
  <1>12. /\ wait * Tick = buffering_wait_ticks * Tick + ticks * Tick
         /\ buffering_wait_ticks * Tick \in Nat /\ ticks * Tick \in Nat
      BY <1>1, <1>2, <1>9, Distribute, TicksAreTime
  <1>13. start = First - ticks * Tick
      BY <1>3, <1>7, <1>12
  <1>14. ASSUME NEW k \in 1 .. ticks
         PROVE  added[k] = First - (ticks - k + 1) * Tick
    <2>1. /\ wait - k + 1 = buffering_wait_ticks + (ticks - k + 1)
          /\ ticks - k + 1 \in Int /\ buffering_wait_ticks \in Int
        BY <1>2, <1>9
    <2>2. /\ (wait - k + 1) * Tick
                 = buffering_wait_ticks * Tick + (ticks - k + 1) * Tick
          /\ (ticks - k + 1) * Tick \in Int
        BY <1>1, <2>1, Distribute
    <2>3. added[k] = first - (wait - k + 1) * Tick
        OBVIOUS
    <2>4. QED
        BY <1>3, <1>7, <1>12, <2>2, <2>3
  <1>15. added \in Seq(Int) /\ Len(added) = ticks
    <2>1. ASSUME NEW k \in 1 .. ticks PROVE added[k] \in Int
      <3>1. (ticks - k + 1) * Tick \in Int
        <4>1. ticks - k + 1 \in Int
            BY <1>9
        <4>2. QED
            BY <1>1, <4>1, Distribute
      <3>2. QED
          BY <1>3, <1>14, <3>1
    <2>2. QED
        BY <1>9, <2>1
  <1> HIDE DEF added
  <1>16. /\ buffered_timestamps' \in Seq(Int)
         /\ Len(buffered_timestamps') = ticks + Len(buffered_timestamps)
         /\ \A k \in 1 .. ticks : buffered_timestamps'[k] = added[k]
         /\ \A k \in DOMAIN buffered_timestamps :
                buffered_timestamps'[k + ticks] = buffered_timestamps[k]
    <2>1. added \in Seq(Int) /\ buffered_timestamps \in Seq(Int)
        BY <1>2, <1>15
    <2>2. ASSUME NEW a \in Seq(Int), NEW b \in Seq(Int)
          PROVE  /\ a \o b \in Seq(Int) /\ Len(a \o b) = Len(a) + Len(b)
                 /\ \A k \in 1 .. Len(a) : (a \o b)[k] = a[k]
                 /\ \A k \in DOMAIN b : (a \o b)[k + Len(a)] = b[k]
        BY Joined
    <2>3. QED
        BY <1>10, <1>15, <2>1, <2>2
  <1>17. total_buffering_ticks' <= MAX_BUFFERING_TICKS
      BY <1>1, <1>2, <1>8, <1>9, <1>10
  <1>18. ts'.start = First - ticks * Tick
      BY <1>11, <1>13
  <1>19. ASSUME total_buffering_ticks' < MAX_BUFFERING_TICKS
         PROVE  ts'.start < min + FrameTime
    <2>1. ticks = needed
      <3> HIDE DEF needed
      <3>1. QED
          BY <1>1, <1>2, <1>5, <1>8, <1>9, <1>10, <1>19
    <2>2. ts'.start = First - needed * Tick
        BY <1>18, <2>1
    <2> HIDE DEF needed
    <2>3. needed * Tick \in Nat
        BY <1>1, <1>5
    <2>4. QED
        BY <1>1, <1>3, <1>6, <2>2, <2>3
  <1>20. Len(buffered_timestamps') = Len(buffered_timestamps) + ticks
      BY <1>2, <1>9, <1>16
  <1>21. ts' \in [start : Int, end : {0, audio_time, ts'.start + Tick}]
    <2>1. start \in Int
        BY <1>3, <1>12, <1>13
    <2> HIDE DEF start
    <2>2. QED
        BY <1>11, <2>1
  <1>22. QED
      BY <1>7, <1>9, <1>10, <1>14, <1>16, <1>17, <1>18, <1>19, <1>20, <1>21

\* The tick that is due changes with the ticks that are inserted; the time from
\* which the output goes on does not.
LEMMA BufferKeeps ==
  ASSUME AudioInv, Buffer
  PROVE  /\ AudioInv'
         /\ total_buffering_ticks' < MAX_BUFFERING_TICKS =>
                \A s \in AudioSources :
                    ~audio_pending'[s] => ts'.start < audio_ts[s] + FrameTime
  <1> DEFINE min_ts == MinTs(audio_pending)
             pending == [s \in AudioSources |->
                            audio_pending[s] \/ Insufficient(s, min_ts)]
             min == MinTs(pending)
  <1>1. /\ step = "buffer" /\ step' = "mix" /\ audio_pending' = pending
        /\ UNCHANGED <<audio_ts, input_size, last_audio_input_buf_size,
                       pending_stop, audio_time, jumps, last_mixed, mixed>>
      BY DEF Buffer
  <1>2. \/ /\ min < ts.start /\ total_buffering_ticks < MAX_BUFFERING_TICKS
           /\ AddBuffering(min)
        \/ /\ min >= ts.start \/ total_buffering_ticks = MAX_BUFFERING_TICKS
           /\ UNCHANGED <<tickVars, ts>>
      BY DEF Buffer
  <1>3. /\ min \in Nat
        /\ \A s \in AudioSources :
               ~pending[s] /\ audio_ts[s] # 0 => min <= audio_ts[s]
    <2> HIDE DEF pending
    <2>1. QED
        BY <1>1, MinTsIsLeast
  <1>4. /\ pending \in [AudioSources -> BOOLEAN]
        /\ \A s \in AudioSources : ~pending[s] => ~audio_pending[s]
    <2>1. audio_pending \in [AudioSources -> BOOLEAN]
        BY DEF AudioInv, AudioTyped
    <2>2. \A s \in AudioSources : Insufficient(s, min_ts) \in BOOLEAN
        BY DEF Insufficient
    <2> HIDE DEF min_ts
    <2>3. QED
        BY <2>1, <2>2
  <1>5. \A s \in AudioSources : ~pending[s] =>
            /\ audio_ts[s] # 0 /\ min <= audio_ts[s]
            /\ s \in mixed => input_size[s] >= AUDIO_OUTPUT_FRAMES
      BY <1>1, <1>3, <1>4 DEF AudioInv, MixedHaveAudio
  <1> HIDE DEF pending, min
  <1>6. MixedHaveAudio'
      BY <1>1, <1>5 DEF MixedHaveAudio
  <1>7. /\ Tick \in Nat /\ MAX_BUFFERING_TICKS \in Nat /\ ts.start \in Nat
        /\ total_buffering_ticks \in Nat /\ buffering_wait_ticks \in Nat
        /\ audio_time \in Nat /\ Ticks = total_buffering_ticks + 1
        /\ Ticks \in Nat /\ ts.start = First /\ First \in Nat
        /\ audio_ts \in [AudioSources -> Nat]
        /\ FrameTime \in Nat /\ FrameTime > 0
        /\ buffering_wait_ticks <= total_buffering_ticks
      BY <1>1, AudioNumbers, FirstIsTime
         DEF AudioInv, AudioTyped, Ticks, TickIsFirst
  <1>8. ASSUME UNCHANGED <<tickVars, ts>> PROVE AudioInv'
    <2>1. Ticks' = Ticks /\ First' = First
        BY <1>1, <1>8 DEF Ticks, First, tickVars
    <2>2. AudioTyped'
        BY <1>1, <1>4, <1>8, <2>1 DEF AudioInv, AudioTyped, tickVars
    <2>3. TicksInRow'
        BY <1>1, <1>8, <2>1 DEF AudioInv, TicksInRow, tickVars
    <2>4. TickIsFirst' /\ WaitEnds'
        BY <1>1, <1>8, <2>1 DEF AudioInv, TickIsFirst, WaitEnds, tickVars
    <2>5. QED
        BY <1>6, <2>2, <2>3, <2>4 DEF AudioInv
  <1>9. CASE /\ min < ts.start /\ total_buffering_ticks < MAX_BUFFERING_TICKS
             /\ AddBuffering(min)
    <2>1. PICK ticks \in Nat :
             /\ total_buffering_ticks' = total_buffering_ticks + ticks
             /\ total_buffering_ticks' <= MAX_BUFFERING_TICKS
             /\ buffering_wait_ticks' = buffering_wait_ticks + ticks
             /\ buffered_ts' = First + buffering_wait_ticks * Tick
             /\ ts'.start = First - ticks * Tick
             /\ ts' \in [start : Int, end : {0, audio_time, ts'.start + Tick}]
             /\ Len(buffered_timestamps')
                    = Len(buffered_timestamps) + ticks
             /\ buffered_timestamps' \in Seq(Int)
             /\ \A k \in 1 .. ticks :
                    buffered_timestamps'[k] = First - (ticks - k + 1) * Tick
             /\ \A k \in DOMAIN buffered_timestamps :
                    buffered_timestamps'[k + ticks] = buffered_timestamps[k]
             /\ total_buffering_ticks' < MAX_BUFFERING_TICKS
                    => ts'.start < min + FrameTime
        BY <1>1, <1>3, <1>9, BufferingAdds
    <2>2. /\ Ticks' = Ticks + ticks /\ Ticks' \in 0 .. MAX_BUFFERING_TICKS + 1
          /\ total_buffering_ticks' \in 0 .. MAX_BUFFERING_TICKS
          /\ buffering_wait_ticks' \in 0 .. total_buffering_ticks'
      <3>1. Ticks' = total_buffering_ticks' + 1
          BY <1>1 DEF Ticks
      <3>2. QED
          BY <1>7, <2>1, <3>1
    <2>3. /\ ticks * Tick \in Nat /\ Ticks * Tick \in Nat
          /\ (Ticks + ticks) * Tick = Ticks * Tick + ticks * Tick
          /\ buffering_wait_ticks * Tick \in Nat
          /\ (buffering_wait_ticks + ticks) * Tick
                 = buffering_wait_ticks * Tick + ticks * Tick
        BY <1>7, <2>1, Distribute, TicksAreTime
    <2>4. First = audio_time - Ticks * Tick
        BY DEF First
    <2>5. First' = First - ticks * Tick
      <3>1. First' = audio_time - (Ticks + ticks) * Tick
          BY <1>1, <2>2 DEF First
      <3>2. QED
          BY <1>7, <2>3, <2>4, <3>1
    <2>6. /\ First' \in Nat /\ First' + Tick \in Nat
          /\ \A n \in 0 .. MAX_BUFFERING_TICKS + 1 :
                 audio_time - n * Tick \in Nat
      <3>1. \A n \in 0 .. MAX_BUFFERING_TICKS + 1 :
                audio_time - n * Tick \in Nat
          BY <1>1, RowIsTime DEF AudioInv
      <3>2. First' = audio_time - Ticks' * Tick
          BY <1>1 DEF First
      <3>3. QED
          BY <1>7, <2>2, <3>1, <3>2
    <2>7. ASSUME NEW k \in 1 .. Ticks'
          PROVE  buffered_timestamps'[k] = audio_time - (Ticks' - k + 1) * Tick
      <3>1. k \in 1 .. Ticks + ticks /\ Ticks' - k + 1 = Ticks + ticks - k + 1
          BY <1>7, <2>1, <2>2
      <3>2. CASE k <= ticks
        <4>1. /\ k \in 1 .. ticks /\ ticks - k + 1 \in Int
              /\ Ticks + (ticks - k + 1) = Ticks + ticks - k + 1
            BY <1>7, <2>1, <3>1, <3>2
        <4>2. /\ (Ticks + (ticks - k + 1)) * Tick
                     = Ticks * Tick + (ticks - k + 1) * Tick
              /\ (ticks - k + 1) * Tick \in Int
            BY <1>7, <4>1, Distribute
        <4>3. buffered_timestamps'[k] = First - (ticks - k + 1) * Tick
            BY <2>1, <4>1
        <4>4. buffered_timestamps'[k]
                  = audio_time - (Ticks + ticks - k + 1) * Tick
            BY <1>7, <2>3, <2>4, <4>1, <4>2, <4>3
        <4>5. QED
            BY <3>1, <4>4
      <3>3. CASE ~(k <= ticks)
        <4>1. /\ k - ticks \in 1 .. Ticks /\ k - ticks + ticks = k
              /\ Ticks - (k - ticks) + 1 = Ticks + ticks - k + 1
            BY <1>7, <2>1, <3>1, <3>3
        <4>2. DOMAIN buffered_timestamps = 1 .. Ticks
            BY DEF AudioInv, AudioTyped
        <4>3. buffered_timestamps'[k - ticks + ticks]
                  = buffered_timestamps[k - ticks]
            BY <2>1, <4>1, <4>2
        <4>4. buffered_timestamps[k - ticks]
                  = audio_time - (Ticks - (k - ticks) + 1) * Tick
            BY <4>1 DEF AudioInv, TicksInRow
        <4>5. QED
            BY <3>1, <4>1, <4>3, <4>4
      <3>4. QED
          BY <3>2, <3>3
    <2>8. TicksInRow'
        BY <1>1, <2>7 DEF TicksInRow
    <2>9. /\ buffered_timestamps' \in Seq(Nat)
          /\ Len(buffered_timestamps') = Ticks'
      <3>1. Len(buffered_timestamps') = Ticks'
          BY <2>1, <2>2 DEF AudioInv, AudioTyped
      <3>2. ASSUME NEW k \in 1 .. Ticks' PROVE buffered_timestamps'[k] \in Nat
        <4>1. Ticks' - k + 1 \in 0 .. MAX_BUFFERING_TICKS + 1
            BY <1>7, <2>2
        <4>2. QED
            BY <2>6, <2>7, <4>1
      <3>3. buffered_timestamps' \in Seq(Int)
          BY <2>1
      <3>4. QED
          BY <3>1, <3>2, <3>3, SequenceOf
    <2>10. ts'.start = First'
        BY <2>1, <2>5
    <2>11. TickIsFirst'
        BY <2>10 DEF TickIsFirst
    <2>12. buffered_ts' = First' + buffering_wait_ticks' * Tick
      <3>1. First' + (buffering_wait_ticks + ticks) * Tick
                = First + buffering_wait_ticks * Tick
          BY <1>7, <2>3, <2>5
      <3>2. QED
          BY <2>1, <3>1
    <2>13. WaitEnds'
      <3>1. last_mixed # -1
                => last_mixed + Tick = First + buffering_wait_ticks * Tick
          BY <1>1 DEF AudioInv, WaitEnds
      <3>2. First + buffering_wait_ticks * Tick
                = First' + buffering_wait_ticks' * Tick
          BY <2>1, <2>12
      <3>3. QED
          BY <1>1, <2>12, <3>1, <3>2 DEF WaitEnds
    <2>14. AudioTyped'
      <3>1. ts' \in [start : Nat, end : Nat]
          BY <1>7, <2>1, <2>6, <2>10
      <3>2. buffered_ts' \in Nat
        <4>1. buffered_ts' = First + buffering_wait_ticks * Tick
            BY <2>1
        <4>2. QED
            BY <1>7, <2>3, <4>1
      <3>3. QED
          BY <1>1, <1>4, <2>2, <2>9, <3>1, <3>2 DEF AudioInv, AudioTyped
    <2>15. ASSUME total_buffering_ticks' < MAX_BUFFERING_TICKS,
                  NEW s \in AudioSources, ~audio_pending'[s]
           PROVE  ts'.start < audio_ts[s] + FrameTime
      <3>1. ts'.start < min + FrameTime /\ min <= audio_ts[s]
          BY <1>1, <1>5, <2>1, <2>15
      <3>2. ts'.start \in Nat /\ audio_ts[s] \in Nat
          BY <1>7, <2>6, <2>10
      <3>3. QED
          BY <1>3, <1>7, <3>1, <3>2
    <2>16. QED
        BY <1>6, <2>8, <2>11, <2>13, <2>14, <2>15 DEF AudioInv
  <1>10. ASSUME total_buffering_ticks' < MAX_BUFFERING_TICKS,
                UNCHANGED <<tickVars, ts>>,
                min >= ts.start \/ total_buffering_ticks = MAX_BUFFERING_TICKS,
                NEW s \in AudioSources, ~audio_pending'[s]
         PROVE  ts'.start < audio_ts[s] + FrameTime
    <2>1. min >= ts.start
        BY <1>7, <1>10 DEF tickVars
    <2>2. min <= audio_ts[s] /\ audio_ts[s] \in Nat
        BY <1>1, <1>5, <1>7, <1>10
    <2>3. QED
        BY <1>3, <1>7, <1>10, <2>1, <2>2
  <1>11. QED
      BY <1>2, <1>8, <1>9, <1>10

\* What is mixed begins the tick that the output goes on with.
LEMMA MixKeeps ==
  ASSUME AudioInv, Mix
  PROVE  AudioInv'
  <1> USE DEF Mix
  <1>1. /\ Ticks' = Ticks /\ First' = First
        /\ UNCHANGED <<tickVars, sourceVars, audio_time, ts, jumps>>
      BY DEF Ticks, First, tickVars, sourceVars
  <1>2. TicksInRow' /\ TickIsFirst'
      BY <1>1 DEF AudioInv, TicksInRow, TickIsFirst, tickVars
  <1>3. WaitEnds'
      BY <1>1 DEF AudioInv, WaitEnds, TickIsFirst, tickVars
  <1>4. mixed' \subseteq AudioSources /\ last_mixed' \in Nat \cup {-1}
      BY DEF AudioInv, AudioTyped
  <1>5. AudioTyped'
      BY <1>1, <1>4 DEF AudioInv, AudioTyped, tickVars, sourceVars
  <1>6. MixedHaveAudio'
    <2>1. ASSUME NEW s \in mixed'
          PROVE  /\ buffering_wait_ticks = 0 /\ ~audio_pending[s]
                 /\ audio_ts[s] \in ts.start .. ts.end - 1 /\ s \in mixed
                 /\ s \in AudioSources /\ last_mixed' = ts.start
        BY DEF AudioInv, AudioTyped
    <2>2. \A s \in mixed' : input_size[s] >= AUDIO_OUTPUT_FRAMES
        BY <2>1 DEF AudioInv, MixedHaveAudio
    <2>3. QED
        BY <1>1, <2>1, <2>2 DEF MixedHaveAudio, tickVars, sourceVars
  <1>7. QED
      BY <1>2, <1>3, <1>5, <1>6 DEF AudioInv

\* What discarding leaves of a source.
KeptTyped(k) ==
    /\ k.audio_ts \in Nat /\ k.size \in 0 .. MaxBufFrames
    /\ k.last \in 0 .. MaxBufFrames /\ k.stop \in BOOLEAN

\* Audio that begins in the tick that is worked on begins before its last frame
\* ends, when the tick's end was set.
LEMMA BeginsInTick ==
  ASSUME AudioInv, step = "discard", ts.end = ts.start + Tick,
         NEW s \in AudioSources,
         ts.start - 1 <= audio_ts[s], audio_ts[s] < ts.end,
         audio_ts[s] \notin {ts.start - 1, ts.start}
  PROVE  NsToFrames(audio_ts[s] - ts.start) \in 0 .. AUDIO_OUTPUT_FRAMES - 1
  <1> DEFINE late == audio_ts[s] - ts.start
             q == NsToFrames(late)
  <1>1. /\ AUDIO_OUTPUT_FRAMES \in Nat /\ FrameTime \in Nat /\ FrameTime > 0
        /\ Tick \in Nat /\ Tick = AUDIO_OUTPUT_FRAMES * FrameTime
      BY AudioNumbers DEF Tick
  <1>2. /\ ts.start \in Nat /\ audio_ts[s] \in Nat /\ ts.end = ts.start + Tick
      BY DEF AudioInv, AudioTyped
  <1>3. late \in Nat /\ late < Tick
    <2>1. Tick \in Nat
        BY <1>1
    <2>2. audio_ts[s] > ts.start
        BY <1>2
    <2>3. QED
        BY <1>2, <2>1, <2>2
  <1> HIDE DEF late
  <1>4. q \in Nat /\ q * FrameTime <= late /\ q * FrameTime \in Nat
    <2>1. /\ late \div FrameTime \in Nat
          /\ (late \div FrameTime) * FrameTime <= late
        BY <1>1, <1>3, Divide
    <2>2. q = late \div FrameTime
        BY DEF NsToFrames
    <2> HIDE DEF q
    <2>3. q \in Nat /\ q * FrameTime <= late
        BY <2>1, <2>2
    <2>4. QED
        BY <1>1, <2>3
  <1> HIDE DEF q
  <1>5. q < AUDIO_OUTPUT_FRAMES
    <2>1. SUFFICES ASSUME AUDIO_OUTPUT_FRAMES <= q PROVE FALSE
        BY <1>1, <1>4
    <2>2. AUDIO_OUTPUT_FRAMES * FrameTime <= q * FrameTime
        BY <1>1, <1>4, <2>1, Monotone
    <2>3. QED
        BY <1>1, <1>3, <1>4, <2>2
  <1>6. q \in 0 .. AUDIO_OUTPUT_FRAMES - 1
      BY <1>1, <1>4, <1>5
  <1>7. QED
      BY <1>6 DEF q, late

\* Whatever is discarded, a source keeps a time and no more than it had.
LEMMA DiscardTyped ==
  ASSUME AudioInv, step = "discard", NEW s \in AudioSources
  PROVE  KeptTyped(AfterDiscard(s))
  <1>1. /\ audio_ts[s] \in Nat
        /\ input_size[s] \in 0 .. MaxBufFrames
        /\ last_audio_input_buf_size[s] \in 0 .. MaxBufFrames
        /\ pending_stop[s] \in BOOLEAN /\ MaxBufFrames \in Nat
        /\ AUDIO_OUTPUT_FRAMES \in Nat /\ FrameTime \in Nat /\ FrameTime > 0
      BY AudioNumbers DEF AudioInv, AudioTyped
  <1>2. KeptTyped(Kept(s))
      BY <1>1 DEF Kept, KeptTyped
  <1>3. KeptTyped(AfterStopTest(s))
    <2> DEFINE sized == [Kept(s) EXCEPT !.last = input_size[s]]
               tested == [Kept(s) EXCEPT !.stop = TRUE]
               stopped == [audio_ts |-> 0, size |-> 0, last |-> 0,
                           stop |-> FALSE]
    <2>1. KeptTyped(sized)
        BY <1>1 DEF Kept, KeptTyped
    <2>2. KeptTyped(tested)
        BY <1>1 DEF Kept, KeptTyped
    <2>3. KeptTyped(stopped)
        BY <1>1 DEF KeptTyped
    <2>4. AfterStopTest(s) \in {Kept(s), sized, tested, stopped}
        BY Zenon DEF AfterStopTest
    <2> HIDE DEF sized, tested, stopped
    <2>5. QED
        BY <1>2, <2>1, <2>2, <2>3, <2>4
  <1>4. ASSUME NEW k, KeptTyped(k),
               k = [audio_ts |-> k.audio_ts, size |-> k.size,
                    last |-> k.last, stop |-> k.stop]
        PROVE  KeptTyped(Ignored(k))
    <2>1. CASE k.size = 0
        BY <1>4, <2>1 DEF Ignored
    <2>2. CASE k.size # 0
      <3>1. k.size \in Nat /\ k.audio_ts \in Nat
          BY <1>1, <1>4 DEF KeptTyped
      <3>2. k.size * FrameTime \in Nat
          BY <1>1, <3>1
      <3>3. k.audio_ts + k.size * FrameTime \in Nat
          BY <3>1, <3>2
      <3>4. Ignored(k) = [audio_ts |-> k.audio_ts + k.size * FrameTime,
                          size |-> 0, last |-> 0, stop |-> k.stop]
          BY <1>4, <2>2 DEF Ignored
      <3>5. QED
          BY <1>1, <1>4, <3>3, <3>4 DEF KeptTyped
    <2>3. QED
        BY <2>1, <2>2
  <1>5. KeptTyped(AfterLate(s))
    <2> DEFINE tested == audio_pending[s] /\ input_size[s] < AUDIO_OUTPUT_FRAMES
               k == IF tested THEN AfterStopTest(s) ELSE Kept(s)
    <2>1. KeptTyped(k)
        BY <1>2, <1>3
    <2>2. k = [audio_ts |-> k.audio_ts, size |-> k.size,
               last |-> k.last, stop |-> k.stop]
        BY DEF AfterStopTest, Kept
    <2>3. AfterLate(s) \in {k, Ignored(k)}
        BY DEF AfterLate
    <2> HIDE DEF k
    <2>4. KeptTyped(Ignored(k))
        BY <1>4, <2>1, <2>2
    <2>5. QED
        BY <2>1, <2>3, <2>4
  <1>6. ASSUME ts.start - 1 <= audio_ts[s]
        PROVE  KeptTyped(AfterTick(s))
    <2> DEFINE begins == audio_ts[s] \in {ts.start - 1, ts.start}
               start_point == IF begins THEN 0
                              ELSE NsToFrames(audio_ts[s] - ts.start)
               used == AUDIO_OUTPUT_FRAMES - start_point
               rest == [audio_ts |-> ts.end, size |-> input_size[s] - used,
                        last |-> 0, stop |-> FALSE]
    <2>1. AfterTick(s) = IF used = 0 THEN Kept(s)
                         ELSE IF used < 0 \/ input_size[s] < used
                              THEN AfterStopTest(s)
                         ELSE rest
        BY DEF AfterTick
    <2>2. ts.end \in Nat /\ ts.start \in Nat
        BY DEF AudioInv, AudioTyped
    <2>3. start_point \in Nat
      <3>1. CASE begins
          BY <3>1
      <3>2. CASE ~begins
        <4>1. audio_ts[s] - ts.start \in Nat
            BY <1>1, <1>6, <2>2, <3>2
        <4>2. NsToFrames(audio_ts[s] - ts.start) \in Nat
            BY <1>1, <4>1, Divide DEF NsToFrames
        <4>3. QED
            BY <3>2, <4>2
      <3>3. QED
          BY <3>1, <3>2
    <2>4. used \in Int
      <3> HIDE DEF start_point
      <3>1. QED
          BY <1>1, <2>3
    <2> HIDE DEF used
    <2>5. ASSUME ~(used < 0), ~(input_size[s] < used) PROVE KeptTyped(rest)
      <3>1. input_size[s] - used \in 0 .. MaxBufFrames
          BY <1>1, <2>4, <2>5
      <3>2. QED
          BY <1>1, <2>2, <3>1 DEF KeptTyped
    <2> HIDE DEF rest
    <2>6. QED
        BY <1>2, <1>3, <2>1, <2>5
  <1>7. ts.start \in Nat /\ ts.end \in Nat
      BY DEF AudioInv, AudioTyped
  <1>8. QED
      BY <1>1, <1>2, <1>5, <1>6, <1>7 DEF AfterDiscard

\* The audio of a source that was mixed is used up to the end of the tick.
LEMMA MixedIsUsed ==
  ASSUME AudioInv, step = "discard", ts.end = ts.start + Tick, NEW s \in mixed
  PROVE  s \in AudioSources /\ AfterDiscard(s).audio_ts = ts.end
  <1> DEFINE begins == audio_ts[s] \in {ts.start - 1, ts.start}
             start_point == IF begins THEN 0
                            ELSE NsToFrames(audio_ts[s] - ts.start)
             used == AUDIO_OUTPUT_FRAMES - start_point
             rest == [audio_ts |-> ts.end, size |-> input_size[s] - used,
                      last |-> 0, stop |-> FALSE]
  <1>1. /\ s \in AudioSources /\ audio_ts[s] \in ts.start .. ts.end - 1
        /\ input_size[s] >= AUDIO_OUTPUT_FRAMES
      BY DEF AudioInv, AudioTyped, MixedHaveAudio
  <1>2. /\ ts.start \in Nat /\ ts.end \in Nat /\ audio_ts[s] \in Nat
        /\ input_size[s] \in Nat
        /\ AUDIO_OUTPUT_FRAMES \in Nat /\ AUDIO_OUTPUT_FRAMES > 0
      BY <1>1, AudioNumbers DEF AudioInv, AudioTyped
  <1>3. start_point \in 0 .. AUDIO_OUTPUT_FRAMES - 1
    <2>1. ts.start - 1 <= audio_ts[s] /\ audio_ts[s] < ts.end
        BY <1>1, <1>2
    <2>2. QED
        BY <1>1, <1>2, <2>1, BeginsInTick
  <1>4. used \in 1 .. AUDIO_OUTPUT_FRAMES
    <2> HIDE DEF start_point
    <2>1. QED
        BY <1>2, <1>3
  <1>5. AfterTick(s) = IF used = 0 THEN Kept(s)
                       ELSE IF used < 0 \/ input_size[s] < used
                            THEN AfterStopTest(s)
                       ELSE rest
      BY DEF AfterTick
  <1>6. AfterDiscard(s) = AfterTick(s)
      BY <1>1, <1>2 DEF AfterDiscard
  <1> HIDE DEF used
  <1>7. used # 0 /\ ~(used < 0) /\ ~(input_size[s] < used)
      BY <1>1, <1>2, <1>4
  <1>8. QED
      BY <1>1, <1>5, <1>6, <1>7

\* The tick that was worked on is gone, and the next one is due or waited for.
LEMMA DiscardKeeps ==
  ASSUME AudioInv, DiscardAudio
  PROVE  AudioInv'
  <1> USE DEF DiscardAudio
  <1> DEFINE n == total_buffering_ticks
             w == buffering_wait_ticks
  <1>1. /\ Tick \in Nat /\ Tick > 0 /\ audio_time \in Nat /\ n \in Nat
        /\ w \in 0 .. n /\ MAX_BUFFERING_TICKS \in Nat
        /\ Ticks = n + 1 /\ Ticks' = n
        /\ buffered_timestamps \in Seq(Nat)
        /\ Len(buffered_timestamps) = n + 1
        /\ n \in 0 .. MAX_BUFFERING_TICKS
        /\ audio_time >= Beginning + Tick /\ Beginning \in Nat
      BY AudioNumbers, BeginningIsLate DEF AudioInv, AudioTyped, Ticks
  <1>2. /\ (n + 1) * Tick = n * Tick + Tick /\ n * Tick \in Nat
      BY <1>1, Distribute, TicksAreTime
  <1>3. /\ First = audio_time - n * Tick - Tick
        /\ First' = audio_time - n * Tick /\ First' = First + Tick
      BY <1>1, <1>2 DEF First
  <1>4. /\ buffered_timestamps' \in Seq(Nat) /\ Len(buffered_timestamps') = n
        /\ \A k \in 1 .. n :
               buffered_timestamps'[k] = buffered_timestamps[k + 1]
    <2>1. buffered_timestamps # <<>>
        BY <1>1
    <2>2. QED
        BY <1>1, <2>1
  <1>5. TicksInRow'
    <2>1. SUFFICES ASSUME NEW k \in 1 .. Ticks'
                   PROVE  buffered_timestamps'[k]
                              = audio_time' - (Ticks' - k + 1) * Tick
        BY DEF TicksInRow
    <2>2. /\ k \in 1 .. n /\ k + 1 \in 1 .. Ticks
          /\ Ticks - (k + 1) + 1 = Ticks' - k + 1
        BY <1>1
    <2>3. buffered_timestamps[k + 1]
              = audio_time - (Ticks - (k + 1) + 1) * Tick
        BY <2>2 DEF AudioInv, TicksInRow
    <2>4. QED
        BY <1>4, <2>2, <2>3
  <1>6. TickIsFirst'
      BY DEF TickIsFirst
  <1>7. \A s \in AudioSources : KeptTyped(AfterDiscard(s))
      BY DiscardTyped
  <1>8. /\ w' \in 0 .. n /\ w' = IF w = 0 THEN 0 ELSE w - 1
      BY <1>1
  <1>9. WaitEnds'
    <2>1. w * Tick \in Nat /\ w' * Tick \in Nat /\ 0 * Tick = 0
        BY <1>1, <1>8, TicksAreTime
    <2>2. ASSUME w # 0 PROVE First + w * Tick = First' + w' * Tick
      <3>1. w = w' + 1 /\ w' \in Nat
          BY <1>1, <1>8, <2>2
      <3>2. (w' + 1) * Tick = w' * Tick + 1 * Tick /\ 1 * Tick = Tick
          BY <1>1, <3>1, Distribute
      <3> HIDE DEF w
      <3>3. w * Tick = w' * Tick + Tick
          BY <3>1, <3>2
      <3> DEFINE p == w * Tick
                 q == w' * Tick
      <3>4. p \in Nat /\ q \in Nat /\ p = q + Tick
          BY <2>1, <3>3
      <3>5. First' = First + Tick /\ First \in Int
          BY <1>1, <1>2, <1>3
      <3> HIDE DEF p, q
      <3>6. First + p = First' + q
          BY <1>1, <3>4, <3>5
      <3>7. QED
          BY <3>6 DEF p, q
    <2>3. ASSUME w' # 0 PROVE buffered_ts' = First' + w' * Tick
      <3>1. w # 0
          BY <1>8, <2>3
      <3>2. QED
          BY <2>2, <3>1 DEF AudioInv, WaitEnds
    <2>4. ASSUME last_mixed' # -1
          PROVE  last_mixed' + Tick = First' + w' * Tick
      <3>1. CASE w = 0
        <4>1. last_mixed = First
            BY <2>4, <3>1 DEF AudioInv, WaitEnds
        <4>2. w' * Tick = 0
            BY <1>8, <2>1, <3>1
        <4>3. QED
            BY <1>1, <1>2, <1>3, <4>1, <4>2
      <3>2. CASE w # 0
        <4>1. last_mixed + Tick = First + w * Tick
            BY <2>4, <3>2 DEF AudioInv, WaitEnds
        <4>2. QED
            BY <2>2, <3>2, <4>1
      <3>3. QED
          BY <3>1, <3>2
    <2>5. QED
        BY <2>3, <2>4 DEF WaitEnds
  <1>10. AudioTyped'
    <2>1. /\ audio_ts' \in [AudioSources -> Nat]
          /\ input_size' \in [AudioSources -> 0 .. MaxBufFrames]
          /\ last_audio_input_buf_size' \in [AudioSources -> 0 .. MaxBufFrames]
          /\ pending_stop' \in [AudioSources -> BOOLEAN]
        BY <1>7 DEF KeptTyped
    <2>2. /\ audio_time' \in Nat /\ audio_time' >= Beginning
          /\ step' = "render"
        BY <1>1
    <2>3. QED
        BY <1>1, <1>4, <1>8, <2>1, <2>2 DEF AudioInv, AudioTyped
  <1>11. MixedHaveAudio'
    <2>1. ASSUME ts.end = ts.start + Tick, NEW s \in mixed
          PROVE  last_mixed # -1 /\ audio_ts'[s] = last_mixed + Tick
      <3>1. last_mixed = ts.start /\ ts.start \in Nat
          BY DEF AudioInv, AudioTyped, MixedHaveAudio
      <3>2. s \in AudioSources /\ AfterDiscard(s).audio_ts = ts.end
          BY <2>1, MixedIsUsed
      <3>3. QED
          BY <2>1, <3>1, <3>2
    <2>2. QED
        BY <2>1 DEF MixedHaveAudio
  <1>12. QED
      BY <1>5, <1>6, <1>9, <1>10, <1>11 DEF AudioInv

\* Every step keeps the invariant.
LEMMA NextAudioInv ==
  AudioInv /\ [AudioNext]_audioVars => AudioInv'
  <1> SUFFICES ASSUME AudioInv, [AudioNext]_audioVars PROVE AudioInv'
      OBVIOUS
  <1>1. ASSUME NEW s \in AudioSources, PushBack(s) PROVE AudioInv'
      BY <1>1, PushBackKeeps
  <1>2. ASSUME NEW s \in AudioSources, Place(s) PROVE AudioInv'
      BY <1>2, PlaceKeeps
  <1>3. CASE Render
      BY <1>3, RenderKeeps
  <1>4. CASE Buffer
      BY <1>4, BufferKeeps
  <1>5. CASE Mix
      BY <1>5, MixKeeps
  <1>6. CASE DiscardAudio
      BY <1>6, DiscardKeeps
  <1>7. CASE UNCHANGED audioVars
    <2>1. /\ TicksInRow' /\ TickIsFirst' /\ WaitEnds' /\ Ticks' = Ticks
        BY <1>7, TicksKept DEF audioVars
    <2>2. AudioTyped'
        BY <1>7, <2>1 DEF AudioInv, AudioTyped, audioVars, tickVars, sourceVars
    <2>3. MixedHaveAudio'
        BY <1>7 DEF AudioInv, MixedHaveAudio, audioVars, tickVars, sourceVars
    <2>4. QED
        BY <2>1, <2>2, <2>3 DEF AudioInv
  <1>8. QED
      BY <1>1, <1>2, <1>3, <1>4, <1>5, <1>6, <1>7 DEF AudioNext

-----------------------------------------------------------------------------
(* Late audio: the theorems                                                 *)

\* The inductive invariant holds for any sources and limits, however late time
\* stamps are.
THEOREM AudioInvHolds ==
  AudioSpec => []AudioInv
  <1>1. AudioInit => AudioInv
      BY InitAudioInv
  <1>2. AudioInv /\ [AudioNext]_audioVars => AudioInv'
      BY NextAudioInv
  <1>3. QED
      BY <1>1, <1>2, PTL DEF AudioSpec

\* The types of obs_core_audio and of the sources' buffers: no counter goes
\* below zero or above its limit.
THEOREM AudioTypes ==
  AudioSpec => []AudioTypeOK
  <1>1. AudioInv => AudioTypeOK
    <2> SUFFICES ASSUME AudioInv PROVE AudioTypeOK
        OBVIOUS
    <2>1. /\ total_buffering_ticks \in 0 .. MAX_BUFFERING_TICKS
          /\ buffering_wait_ticks \in 0 .. MAX_BUFFERING_TICKS
        BY AudioNumbers DEF AudioInv, AudioTyped
    <2>2. /\ ts.start \in Nat /\ ts.end \in Nat
          /\ audio_pending \in [AudioSources -> BOOLEAN]
          /\ pending_stop \in [AudioSources -> BOOLEAN]
        BY DEF AudioInv, AudioTyped
    <2>3. QED
        BY <2>1, <2>2 DEF AudioInv, AudioTyped, AudioTypeOK
  <1>2. QED
      BY <1>1, AudioInvHolds, PTL

\* audio_callback's ticks: they cover the time without a gap, the output goes on
\* where it stopped, and no sample of a source is mixed twice, unless a source
\* was late by less than a frame.
THEOREM TicksAlwaysFollow ==
  AudioSpec => []TicksFollow
  <1>1. AudioInv => TicksFollow
    <2> SUFFICES ASSUME AudioInv, step = "render" PROVE TicksFollow
        BY DEF TicksFollow
    <2> DEFINE n == total_buffering_ticks
               w == buffering_wait_ticks
               row == [k \in 1 .. n |-> audio_time - (n - k + 1) * Tick]
    <2>1. /\ Ticks = n /\ n \in Nat /\ w \in Nat /\ Tick \in Nat
          /\ buffered_timestamps \in Seq(Nat)
          /\ Len(buffered_timestamps) = n /\ audio_time \in Nat
        BY AudioNumbers DEF AudioInv, AudioTyped, Ticks
    <2>2. buffered_timestamps = row
      <3>1. \A k \in 1 .. n : buffered_timestamps[k] = row[k]
          BY <2>1 DEF AudioInv, TicksInRow
      <3>2. /\ DOMAIN buffered_timestamps = 1 .. n
            /\ buffered_timestamps
                   = [k \in 1 .. n |-> buffered_timestamps[k]]
          BY <2>1
      <3> HIDE DEF n
      <3>3. QED
          BY <3>1, <3>2
    <2>3. ASSUME last_mixed # -1
          PROVE  last_mixed + Tick = audio_time - (n - w) * Tick
      <3>1. last_mixed + Tick = First + w * Tick
          BY <2>3 DEF AudioInv, WaitEnds
      <3>2. (n - w) * Tick = n * Tick - w * Tick
          BY <2>1, Distribute
      <3>3. n * Tick \in Nat /\ w * Tick \in Nat
          BY <2>1, TicksAreTime
      <3>4. First = audio_time - n * Tick
          BY <2>1 DEF First
      <3>5. QED
          BY <2>1, <3>1, <3>2, <3>3, <3>4
    <2>4. ts.end = ts.start + Tick =>
              \A s \in mixed : audio_ts[s] = last_mixed + Tick
        BY DEF AudioInv, MixedHaveAudio
    <2>5. QED
        BY <2>2, <2>3, <2>4 DEF TicksFollow
  <1>2. QED
      BY <1>1, AudioInvHolds, PTL

\* add_audio_buffering: below the limit, the tick that is worked on is less than
\* a frame later than any source that has a tick of audio.
THEOREM LateSourcesAreBuffered ==
  AudioSpec => LateSourceBuffered
  <1>1. AudioInv /\ [AudioNext]_audioVars =>
            [Buffer /\ total_buffering_ticks' < MAX_BUFFERING_TICKS
                 => \A s \in AudioSources : ~audio_pending'[s] =>
                        ts'.start < audio_ts[s] + FrameTime]_audioVars
      BY BufferKeeps
  <1>2. QED
      BY <1>1, AudioInvHolds, PTL DEF AudioSpec, LateSourceBuffered

-----------------------------------------------------------------------------
(* Recursion and induction on numbers                                       *)

\* Induction up to a number, on the numbers of a set.
LEMMA Induct ==
  ASSUME NEW a \in Nat, NEW n \in Nat, NEW X, a \in X,
         \A k \in a + 1 .. n : k - 1 \in X => k \in X
  PROVE  \A k \in a .. n : k \in X
  <1> DEFINE S == {k \in a .. n : k \notin X}
             R == {ss \in Nat \X Nat : ss[1] < ss[2]}
  <1>1. SUFFICES ASSUME S # {} PROVE FALSE
      OBVIOUS
  <1>2. S \subseteq Nat
      OBVIOUS
  <1>3. PICK k \in S : \A m \in S : ~(<<m, k>> \in OpToRel(<, Nat))
    <2> HIDE DEF S
    <2>1. QED
      BY <1>1, <1>2, NatLessThanWellFounded, WFMin
  <1>4. OpToRel(<, Nat) = R
      BY Zenon DEF OpToRel
  <1>5. \A m \in S : ~(m < k)
    <2>1. ASSUME NEW m \in S, m < k PROVE FALSE
      <3>1. <<m, k>> \in R
          BY <1>2, <1>3, <2>1
      <3>2. QED
          BY <1>3, <1>4, <3>1
    <2>2. QED
        BY <2>1
  <1>6. k # a /\ k \in a + 1 .. n
    <2>1. k \in a .. n /\ k \notin X
        BY <1>3, Zenon
    <2>2. QED
        BY <2>1
  <1>7. k - 1 \in a .. n /\ k - 1 < k
      BY <1>6
  <1>8. k - 1 \in X
      BY <1>5, <1>7
  <1>9. QED
      BY <1>3, <1>6, <1>8

\* F[k] leads from the set T[k - 1] to the set T[k].
Leads(F, T, a, n) ==
    \A k \in a + 1 .. n : \A x \in T[k - 1] : F[k][x] \in T[k]

\* What F makes of b, step by step.
IsRun(f, F, T, a, n, b) ==
    /\ f = [k \in a .. n |-> f[k]] /\ f[a] = b
    /\ \A k \in a + 1 .. n : f[k] = F[k][f[k - 1]]
    /\ \A k \in a .. n : f[k] \in T[k]

\* A function that is defined by recursion exists.
LEMMA Recursion ==
  ASSUME NEW a \in Nat, NEW n \in Nat, a <= n, NEW T, NEW b, b \in T[a],
         NEW F, Leads(F, T, a, n)
  PROVE  \E f : IsRun(f, F, T, a, n, b)
  <1> USE DEF Leads
  <1> DEFINE Solves(f, m) == IsRun(f, F, T, a, m, b)
             X == {m \in a .. n : \E f : Solves(f, m)}
  <1>1. a \in X
    <2> DEFINE f == [k \in a .. a |-> b]
    <2>1. Solves(f, a)
        BY DEF IsRun
    <2> HIDE DEF f, Solves
    <2>2. QED
        BY <2>1
  <1>2. ASSUME NEW m \in a + 1 .. n, m - 1 \in X PROVE m \in X
    <2>1. PICK f : IsRun(f, F, T, a, m - 1, b)
        BY <1>2
    <2> DEFINE g == [k \in a .. m |-> IF k = m THEN F[m][f[m - 1]] ELSE f[k]]
    <2>2. /\ g = [k \in a .. m |-> g[k]]
          /\ \A k \in a .. m - 1 : g[k] = f[k]
          /\ g[m] = F[m][f[m - 1]]
        OBVIOUS
    <2> HIDE DEF g
    <2>3. a \in a .. m - 1 /\ m - 1 \in a .. m - 1
        OBVIOUS
    <2>4. ASSUME NEW k \in a + 1 .. m PROVE g[k] = F[k][g[k - 1]]
      <3>1. CASE k = m
          BY <2>2, <2>3, <3>1
      <3>2. CASE k # m
        <4>1. k \in a + 1 .. m - 1 /\ k \in a .. m - 1 /\ k - 1 \in a .. m - 1
            BY <3>2
        <4>2. QED
            BY <2>1, <2>2, <4>1 DEF IsRun
      <3>3. QED
          BY <3>1, <3>2
    <2>5. \A k \in a .. m : g[k] \in T[k]
      <3>1. \A k \in a .. m - 1 : g[k] \in T[k]
          BY <2>1, <2>2 DEF IsRun
      <3>2. g[m] \in T[m]
          BY <2>1, <2>2, <2>3 DEF IsRun
      <3>3. QED
          BY <3>1, <3>2
    <2>6. g[a] = b
        BY <2>1, <2>2, <2>3 DEF IsRun
    <2>7. Solves(g, m)
        BY <2>2, <2>4, <2>5, <2>6 DEF IsRun
    <2> HIDE DEF Solves
    <2>8. QED
        BY <1>2, <2>7
  <1> HIDE DEF X
  <1>3. \A m \in a .. n : m \in X
      BY <1>1, <1>2, Induct
  <1>4. n \in X
      BY <1>3
  <1>5. QED
      BY <1>4 DEF X

-----------------------------------------------------------------------------
(* The replay buffer: what the packets of a buffer add up to                *)

\* The assumptions on the constants, one by one.
LEMMA ReplayNumbers ==
  /\ VideoTime \in Nat /\ AudioTime \in Nat /\ KeyframeSize \in Nat
  /\ MaxLatency \in Nat /\ MaxBroken \in Nat /\ MaxSaves \in Nat
  /\ Settings \subseteq [max_size : Nat, max_time : Nat]
  <1>1. VideoTime \in Nat /\ AudioTime \in Nat /\ KeyframeSize \in Nat
      BY ReplayAssumption
  <1>2. MaxLatency \in Nat /\ MaxBroken \in Nat /\ MaxSaves \in Nat
      BY ReplayAssumption
  <1>3. QED
      BY <1>1, <1>2, ReplayAssumption

\* Every packet has a size.
LEMMA SizeTyped ==
  \A p : Size(p) \in Nat
  BY ReplayNumbers DEF Size

\* The sums of the sizes of the first packets.
Sums(f, array) ==
    /\ f = [n \in 0 .. Len(array) |-> f[n]] /\ f[0] = 0
    /\ \A n \in 0 .. Len(array) : f[n] \in Nat
    /\ \A n \in 1 .. Len(array) : f[n] = f[n - 1] + Size(array[n])

\* The total size is the last of the sums.
LEMMA TotalIsSum ==
  ASSUME NEW S, NEW s \in Seq(S)
  PROVE  \E f : Sums(f, s) /\ TotalSize(s) = f[Len(s)]
  <1> DEFINE n == Len(s)
             F == [k \in 0..n |-> [x \in Nat |-> x + Size(s[k])]]
             T == [k \in 0..n |-> Nat]
             Adds(g) == g = [k \in 0..n |-> IF k = 0 THEN 0
                                            ELSE g[k - 1] + Size(s[k])]
             sum == CHOOSE g : Adds(g)
  <1>1. n \in Nat
      OBVIOUS
  <1>2. TotalSize(s) = sum[n]
      BY Zenon DEF TotalSize
  <1> HIDE DEF n
  <1>3. \A k \in 0..n : /\ T[k] = Nat
                        /\ \A x \in Nat : F[k][x] = x + Size(s[k])
      OBVIOUS
  <1> HIDE DEF F, T
  <1>4. PICK f : IsRun(f, F, T, 0, n, 0)
    <2>1. ASSUME NEW k \in 0 + 1 .. n, NEW x \in T[k - 1]
          PROVE  F[k][x] \in T[k]
      <3>1. k \in 0..n /\ k - 1 \in 0..n
          BY <1>1
      <3>2. x \in Nat /\ Size(s[k]) \in Nat
          BY <1>3, <3>1, SizeTyped
      <3>3. F[k][x] = x + Size(s[k]) /\ T[k] = Nat
          BY <1>3, <3>1, <3>2
      <3>4. QED
          BY <3>2, <3>3
    <2>2. Leads(F, T, 0, n)
        BY <2>1 DEF Leads
    <2>3. 0 \in T[0] /\ 0 <= n
        BY <1>1, <1>3
    <2>4. QED
        BY <1>1, <2>2, <2>3, Recursion
  <1>5. Adds(f)
    <2>1. f = [k \in 0..n |-> f[k]] /\ f[0] = 0
        BY <1>4 DEF IsRun
    <2>2. ASSUME NEW k \in 0..n, k # 0 PROVE f[k] = f[k - 1] + Size(s[k])
      <3>1. k \in 0 + 1 .. n /\ k - 1 \in 0..n
          BY <1>1, <2>2
      <3>2. f[k] = F[k][f[k - 1]] /\ f[k - 1] \in T[k - 1]
          BY <1>4, <3>1 DEF IsRun
      <3>3. QED
          BY <1>3, <3>1, <3>2
    <2>3. \A k \in 0..n :
              f[k] = IF k = 0 THEN 0 ELSE f[k - 1] + Size(s[k])
        BY <2>1, <2>2
    <2>4. QED
        BY <2>1, <2>3
  <1>6. Adds(sum)
      BY <1>5
  <1> HIDE DEF sum
  <1>7. /\ sum[0] = 0 /\ sum = [k \in 0..n |-> sum[k]]
        /\ \A k \in 1..n : sum[k] = sum[k - 1] + Size(s[k])
    <2>1. \A k \in 0..n :
              sum[k] = IF k = 0 THEN 0 ELSE sum[k - 1] + Size(s[k])
        BY <1>6
    <2>2. sum = [k \in 0..n |-> sum[k]]
        BY <1>6
    <2> HIDE DEF Adds
    <2>3. QED
        BY <1>1, <2>1, <2>2
  <1> DEFINE X == {k \in 0..n : sum[k] \in Nat}
  <1>8. 0 \in X
      BY <1>1, <1>7
  <1>9. ASSUME NEW k \in 0 + 1 .. n, k - 1 \in X PROVE k \in X
    <2>1. k \in 1..n /\ k \in 0..n /\ Size(s[k]) \in Nat
        BY <1>1, SizeTyped
    <2>2. sum[k] = sum[k - 1] + Size(s[k]) /\ sum[k - 1] \in Nat
        BY <1>7, <1>9, <2>1
    <2>3. QED
        BY <2>1, <2>2
  <1> HIDE DEF X
  <1>10. \A k \in 0..n : k \in X
      BY <1>1, <1>8, <1>9, Induct
  <1>11. Sums(sum, s)
      BY <1>7, <1>10 DEF Sums, X, n
  <1>12. QED
      BY <1>2, <1>11 DEF n

\* No packets have no size.
LEMMA TotalEmpty ==
  TotalSize(<<>>) = 0
  <1>1. <<>> \in Seq({}) /\ Len(<<>>) = 0
      OBVIOUS
  <1>2. PICK f : Sums(f, <<>>) /\ TotalSize(<<>>) = f[Len(<<>>)]
      BY <1>1, TotalIsSum
  <1>3. QED
      BY <1>1, <1>2 DEF Sums

\* A packet that is appended is added.
LEMMA TotalAppend ==
  ASSUME NEW S, NEW s \in Seq(S), NEW p \in S
  PROVE  TotalSize(Append(s, p)) = TotalSize(s) + Size(p)
  <1> DEFINE n == Len(s)
             t == Append(s, p)
  <1>1. /\ n \in Nat /\ t \in Seq(S) /\ Len(t) = n + 1
        /\ t[n + 1] = p /\ \A k \in 1..n : t[k] = s[k]
      OBVIOUS
  <1> HIDE DEF t
  <1>2. PICK f : Sums(f, s) /\ TotalSize(s) = f[n]
      BY TotalIsSum
  <1>3. PICK g : Sums(g, t) /\ TotalSize(t) = g[n + 1]
      BY <1>1, TotalIsSum
  <1> DEFINE X == {k \in 0..n : f[k] = g[k]}
  <1>4. 0 \in X
      BY <1>1, <1>2, <1>3 DEF Sums
  <1>5. ASSUME NEW k \in 0 + 1 .. n, k - 1 \in X PROVE k \in X
    <2>1. k \in 1..n /\ k \in 1..n + 1 /\ k \in 0..n
        BY <1>1
    <2>2. f[k] = f[k - 1] + Size(s[k]) /\ g[k] = g[k - 1] + Size(t[k])
        BY <1>1, <1>2, <1>3, <2>1 DEF Sums
    <2>3. QED
        BY <1>1, <1>5, <2>1, <2>2
  <1> HIDE DEF X
  <1>6. \A k \in 0..n : k \in X
      BY <1>1, <1>4, <1>5, Induct
  <1>7. f[n] = g[n]
      BY <1>1, <1>6 DEF X
  <1>8. g[n + 1] = g[n] + Size(p)
    <2>1. n + 1 \in 1..n + 1 /\ n + 1 - 1 = n
        BY <1>1
    <2>2. g[n + 1] = g[n + 1 - 1] + Size(t[n + 1])
      <3>1. \A k \in 1..n + 1 : g[k] = g[k - 1] + Size(t[k])
          BY <1>1, <1>3 DEF Sums
      <3>2. QED
          BY <2>1, <3>1
    <2>3. QED
        BY <1>1, <2>1, <2>2
  <1>9. QED
      BY <1>2, <1>3, <1>7, <1>8 DEF t

\* A packet that is taken from the front is subtracted.
LEMMA TotalTail ==
  ASSUME NEW S, NEW s \in Seq(S), s # <<>>
  PROVE  /\ TotalSize(Tail(s)) = TotalSize(s) - Size(Head(s))
         /\ TotalSize(Tail(s)) \in Nat /\ TotalSize(s) \in Nat
  <1> DEFINE n == Len(s) - 1
             t == Tail(s)
  <1>1. /\ n \in Nat /\ t \in Seq(S) /\ Len(t) = n /\ Len(s) = n + 1
        /\ Head(s) = s[1] /\ \A k \in 1..n : t[k] = s[k + 1]
      OBVIOUS
  <1> HIDE DEF t, n
  <1>2. PICK f : Sums(f, s) /\ TotalSize(s) = f[n + 1]
      BY <1>1, TotalIsSum
  <1>3. PICK g : Sums(g, t) /\ TotalSize(t) = g[n]
      BY <1>1, TotalIsSum
  <1> DEFINE X == {k \in 0..n : f[k + 1] = g[k] + Size(s[1])}
  <1>4. 0 \in X
    <2>1. 1 \in 1..n + 1 /\ 1 - 1 = 0 /\ 0 + 1 = 1 /\ 0 \in 0..n
        BY <1>1
    <2>2. f[1] = f[1 - 1] + Size(s[1]) /\ f[0] = 0 /\ g[0] = 0
        BY <1>1, <1>2, <1>3, <2>1 DEF Sums
    <2>3. QED
        BY <2>1, <2>2
  <1>5. ASSUME NEW k \in 0 + 1 .. n, k - 1 \in X PROVE k \in X
    <2>1. /\ k \in 1..n /\ k + 1 \in 1..n + 1 /\ k \in 0..n
          /\ k - 1 \in 0..n /\ k + 1 - 1 = k /\ k - 1 + 1 = k
        BY <1>1
    <2>2. f[k + 1] = f[k + 1 - 1] + Size(s[k + 1])
      <3>1. \A i \in 1..n + 1 : f[i] = f[i - 1] + Size(s[i])
          BY <1>1, <1>2 DEF Sums
      <3>2. QED
          BY <2>1, <3>1
    <2>3. g[k] = g[k - 1] + Size(t[k]) /\ t[k] = s[k + 1] /\ g[k - 1] \in Nat
        BY <1>1, <1>3, <2>1 DEF Sums
    <2>4. f[k - 1 + 1] = g[k - 1] + Size(s[1])
        BY <1>5
    <2>5. Size(s[1]) \in Nat /\ Size(s[k + 1]) \in Nat
        BY SizeTyped
    <2>6. f[k + 1] = g[k] + Size(s[1])
        BY <2>1, <2>2, <2>3, <2>4, <2>5
    <2>7. QED
        BY <2>1, <2>6
  <1> HIDE DEF X
  <1>6. \A k \in 0..n : k \in X
      BY <1>1, <1>4, <1>5, Induct
  <1>7. f[n + 1] = g[n] + Size(s[1])
      BY <1>1, <1>6 DEF X
  <1>8. f[n + 1] \in Nat /\ g[n] \in Nat /\ Size(s[1]) \in Nat
      BY <1>1, <1>2, <1>3, SizeTyped DEF Sums
  <1>9. QED
      BY <1>1, <1>2, <1>3, <1>7, <1>8 DEF t

\* The keyframes of a sequence can be counted.
LEMMA KeyframesFinite ==
  ASSUME NEW S, NEW s \in Seq(S)
  PROVE  /\ IsFiniteSet(Keyframes(s)) /\ Cardinality(Keyframes(s)) \in Nat
         /\ Keyframes(s) \subseteq 1 .. Len(s)
  <1>1. Keyframes(s) \subseteq 1 .. Len(s)
      BY DEF Keyframes
  <1>2. IsFiniteSet(1 .. Len(s))
      BY FS_Interval
  <1>3. QED
      BY <1>1, <1>2, FS_Subset, FS_CardinalityType

Once01(b) == IF b THEN 1 ELSE 0

\* A keyframe that is appended is one more.
LEMMA KeyframesAppend ==
  ASSUME NEW S, NEW s \in Seq(S), NEW p \in S
  PROVE  Cardinality(Keyframes(Append(s, p)))
             = Cardinality(Keyframes(s)) + Once01(IsKeyframe(p))
  <1> DEFINE n == Len(s)
             t == Append(s, p)
  <1>1. /\ n \in Nat /\ DOMAIN t = 1..n + 1 /\ DOMAIN s = 1..n
        /\ t[n + 1] = p /\ \A k \in 1..n : t[k] = s[k]
      OBVIOUS
  <1> HIDE DEF t
  <1>2. /\ IsFiniteSet(Keyframes(s)) /\ Cardinality(Keyframes(s)) \in Nat
        /\ Keyframes(s) \subseteq 1..n
      BY KeyframesFinite
  <1>3. CASE IsKeyframe(p)
    <2>1. Keyframes(t) = Keyframes(s) \cup {n + 1}
        BY <1>1, <1>3 DEF Keyframes
    <2>2. n + 1 \notin Keyframes(s)
        BY <1>1, <1>2
    <2>3. QED
        BY <1>2, <1>3, <2>1, <2>2, FS_AddElement DEF t, Once01
  <1>4. CASE ~IsKeyframe(p)
    <2>1. Keyframes(t) = Keyframes(s)
        BY <1>1, <1>4 DEF Keyframes
    <2>2. QED
        BY <1>2, <1>4, <2>1 DEF t, Once01
  <1>5. QED
      BY <1>3, <1>4

\* A keyframe that is taken from the front is one less.
LEMMA KeyframesTail ==
  ASSUME NEW S, NEW s \in Seq(S), s # <<>>
  PROVE  Cardinality(Keyframes(Tail(s)))
             = Cardinality(Keyframes(s)) - Once01(IsKeyframe(Head(s)))
  <1> DEFINE n == Len(s) - 1
             t == Tail(s)
             later == Keyframes(s) \ {1}
             next == [i \in Keyframes(t) |-> i + 1]
  <1>1. /\ n \in Nat /\ t \in Seq(S) /\ DOMAIN t = 1..n /\ DOMAIN s = 1..n + 1
        /\ Head(s) = s[1] /\ \A k \in 1..n : t[k] = s[k + 1]
      OBVIOUS
  <1> HIDE DEF t, n
  <1>2. /\ IsFiniteSet(Keyframes(s)) /\ Cardinality(Keyframes(s)) \in Nat
        /\ IsFiniteSet(Keyframes(t))
      BY <1>1, KeyframesFinite
  <1>3. next \in Bijection(Keyframes(t), later)
    <2>1. ASSUME NEW i \in Keyframes(t) PROVE i + 1 \in later /\ i \in Nat
      <3>1. i \in 1..n /\ IsKeyframe(t[i])
          BY <1>1 DEF Keyframes
      <3>2. i + 1 \in 1..n + 1 /\ i + 1 # 1 /\ i \in Nat
          BY <1>1, <3>1
      <3>3. QED
          BY <1>1, <3>1, <3>2 DEF Keyframes
    <2>2. ASSUME NEW j \in later PROVE \E i \in Keyframes(t) : next[i] = j
      <3>1. j \in 1..n + 1 /\ j # 1 /\ IsKeyframe(s[j])
          BY <1>1 DEF Keyframes
      <3>2. j - 1 \in 1..n /\ j - 1 + 1 = j
          BY <1>1, <3>1
      <3>3. j - 1 \in Keyframes(t)
          BY <1>1, <3>1, <3>2 DEF Keyframes
      <3>4. QED
          BY <3>2, <3>3
    <2>3. next \in [Keyframes(t) -> later]
        BY <2>1
    <2>4. \A i, j \in Keyframes(t) : next[i] = next[j] => i = j
        BY <2>1
    <2> HIDE DEF next, later
    <2>5. QED
        BY <2>2, <2>3, <2>4 DEF Bijection, Injection, Surjection,
               IsInjective
  <1>4. Cardinality(Keyframes(t)) = Cardinality(later)
      BY <1>2, <1>3, FS_Bijection DEF ExistsBijection
  <1>5. CASE IsKeyframe(Head(s))
    <2>1. 1 \in Keyframes(s)
        BY <1>1, <1>5 DEF Keyframes
    <2>2. Cardinality(later) = Cardinality(Keyframes(s)) - 1
        BY <1>2, <2>1, FS_RemoveElement
    <2>3. Once01(IsKeyframe(Head(s))) = 1
        BY <1>5, Zenon DEF Once01
    <2> HIDE DEF later
    <2>4. QED
        BY <1>4, <2>2, <2>3 DEF t
  <1>6. CASE ~IsKeyframe(Head(s))
    <2>1. later = Keyframes(s)
        BY <1>1, <1>6 DEF Keyframes
    <2>2. Once01(IsKeyframe(Head(s))) = 0
        BY <1>6, Zenon DEF Once01
    <2> HIDE DEF later
    <2>3. QED
        BY <1>2, <1>4, <2>1, <2>2 DEF t
  <1>7. QED
      BY <1>5, <1>6

-----------------------------------------------------------------------------
(* The replay buffer: purging                                               *)

\* What the buffer may be while it is purged: packets of a set, and the numbers
\* that tell of them.
Accounted(b) ==
    /\ b.size = TotalSize(b.packets)
    /\ b.keyframes = Cardinality(Keyframes(b.packets))
    /\ b.packets # <<>> => b.time = Head(b.packets).dts
Buffers(S) ==
    {b \in [packets : Seq(S), keyframes : Int, size : Int, time : Int] :
         Accounted(b)}

\* purge_front takes the first packet and leaves the others, and counts so.
LEMMA PurgeFrontTyped ==
  ASSUME NEW S, S \subseteq MuxPacket, NEW b \in Buffers(S),
         b.packets # <<>>
  PROVE  /\ PurgeFront(b) \in Buffers(S)
         /\ Len(PurgeFront(b).packets) = Len(b.packets) - 1
         /\ PurgeFront(b).size <= b.size
  <1>1. /\ b.packets \in Seq(S) /\ b.keyframes \in Int /\ b.size \in Int
        /\ b.size = TotalSize(b.packets)
        /\ b.keyframes = Cardinality(Keyframes(b.packets))
      BY DEF Buffers, Accounted
  <1> DEFINE rest == Tail(b.packets)
             key == IF IsKeyframe(Head(b.packets)) THEN 1 ELSE 0
             size == Size(Head(b.packets))
             time == IF rest = <<>> THEN 0 ELSE Head(rest).dts
  <1>2. rest \in Seq(S) /\ Len(rest) = Len(b.packets) - 1
      BY <1>1
  <1>3. time \in Int
    <2>1. rest # <<>> => Head(rest) \in S
        BY <1>2
    <2>2. \A p \in S : p.dts \in Int
        BY DEF MuxPacket
    <2> HIDE DEF rest
    <2>3. QED
        BY <2>1, <2>2
  <1>4. key \in Int /\ size \in Nat
      BY SizeTyped
  <1>5. PurgeFront(b) =
          [packets |-> rest, keyframes |-> b.keyframes - key,
           size |-> IF rest = <<>> THEN 0 ELSE b.size - size, time |-> time]
      BY DEF PurgeFront
  <1>6. TotalSize(rest) = b.size - size
      BY <1>1, TotalTail
  <1>7. Cardinality(Keyframes(rest)) = b.keyframes - key
      BY <1>1, KeyframesTail DEF Once01
  <1> HIDE DEF rest, key, size
  <1>8. rest = <<>> => TotalSize(rest) = 0
      BY TotalEmpty
  <1>9. (IF rest = <<>> THEN 0 ELSE b.size - size) = TotalSize(rest)
      BY <1>6, <1>8
  <1>10. PurgeFront(b) =
           [packets |-> rest, keyframes |-> Cardinality(Keyframes(rest)),
            size |-> TotalSize(rest), time |-> time]
      BY <1>5, <1>7, <1>9
  <1>11. TotalSize(rest) \in Int /\ Cardinality(Keyframes(rest)) \in Int
      BY <1>1, <1>4, <1>6, <1>7
  <1>12. PurgeFront(b) \in Buffers(S)
    <2>1. rest # <<>> => time = Head(rest).dts
        OBVIOUS
    <2> HIDE DEF time
    <2>2. QED
        BY <1>2, <1>3, <1>10, <1>11, <2>1 DEF Buffers, Accounted
  <1>13. PurgeFront(b).packets = rest /\ PurgeFront(b).size = b.size - size
      BY <1>6, <1>10
  <1>14. QED
      BY <1>1, <1>2, <1>4, <1>12, <1>13

\* purge takes packets from the front, at least one and never more than there
\* are, and leaves the others.
LEMMA PurgeTyped ==
  ASSUME NEW S, S \subseteq MuxPacket, NEW b \in Buffers(S),
         b.packets # <<>>
  PROVE  /\ Purge(b) \in Buffers(S) /\ Purge(b).size <= b.size
         /\ Len(Purge(b).packets) < Len(b.packets)
  <1> DEFINE L == Len(b.packets)
             later == {n \in 2..L : IsKeyframe(b.packets[n])}
             until == IF ~IsKeyframe(Head(b.packets)) THEN 2
                      ELSE IF later = {} THEN L + 1
                      ELSE CHOOSE n \in later : \A m \in later : n <= m
             All == Buffers(S)
             F == [k \in 1..until |-> [x \in All |-> PurgeFront(x)]]
             T == [k \in 1..until |-> {x \in All : /\ Len(x.packets) = L - k + 1
                                                 /\ x.size <= b.size}]
  <1>1. b.packets \in Seq(S) /\ L \in Nat /\ L > 0 /\ b.size \in Int
      BY DEF Buffers
  <1>2. until \in Nat /\ until >= 2 /\ until <= L + 1
    <2>1. CASE IsKeyframe(Head(b.packets)) /\ later # {}
      <3>1. later \in SUBSET Nat /\ later # {}
          BY <1>1, <2>1
      <3> HIDE DEF later
      <3>2. Min(later) \in later /\ \A x \in later : Min(later) <= x
          BY <3>1, MinIsLeast
      <3>3. until \in later
          BY <2>1, <3>2
      <3> HIDE DEF until
      <3>4. QED
          BY <1>1, <3>3 DEF later
    <2>2. CASE ~(IsKeyframe(Head(b.packets)) /\ later # {})
        BY <1>1, <2>2
    <2>3. QED
        BY <2>1, <2>2
  <1> HIDE DEF until
  <1>3. 1 \in Nat /\ 1 <= until /\ b \in T[1]
      BY <1>1, <1>2
  <1>4. ASSUME NEW k \in 1 + 1 .. until, NEW x \in T[k - 1]
        PROVE  F[k][x] \in T[k] /\ F[k][x] = PurgeFront(x)
    <2>1. k \in 1..until /\ k - 1 \in 1..until /\ k >= 2
        BY <1>2
    <2>2. /\ x \in All /\ Len(x.packets) = L - (k - 1) + 1
          /\ x.size <= b.size /\ x.size \in Int
        BY <2>1 DEF Buffers
    <2>3. x.packets # <<>>
      <3>1. L - (k - 1) + 1 > 0
          BY <1>1, <1>2, <2>1
      <3>2. QED
          BY <2>2, <3>1
    <2>4. /\ PurgeFront(x) \in All /\ Len(PurgeFront(x).packets) = L - k + 1
          /\ PurgeFront(x).size <= b.size
      <3>1. /\ PurgeFront(x) \in All
            /\ Len(PurgeFront(x).packets) = Len(x.packets) - 1
            /\ PurgeFront(x).size <= x.size
          BY <2>2, <2>3, PurgeFrontTyped
      <3>2. PurgeFront(x).size \in Int
          BY <3>1 DEF Buffers
      <3> HIDE DEF All
      <3>3. QED
          BY <1>1, <2>1, <2>2, <3>1, <3>2
    <2>5. F[k][x] = PurgeFront(x)
        BY <2>1, <2>2
    <2> HIDE DEF F, All
    <2>6. QED
        BY <2>1, <2>4, <2>5
  <1> HIDE DEF T, F
  <1>5. PICK f : IsRun(f, F, T, 1, until, b)
    <2>1. Leads(F, T, 1, until)
        BY <1>4 DEF Leads
    <2>2. QED
        BY <1>2, <1>3, <2>1, Recursion
  <1> DEFINE Drops(g) ==
               g = [n \in 1..until |->
                       IF n = 1 THEN b ELSE PurgeFront(g[n - 1])]
             drop == CHOOSE g : Drops(g)
  <1>6. Drops(f)
    <2>1. f = [k \in 1..until |-> f[k]] /\ f[1] = b
        BY <1>5 DEF IsRun
    <2>2. ASSUME NEW k \in 1..until, k # 1
          PROVE  f[k] = PurgeFront(f[k - 1])
      <3>1. k \in 1 + 1 .. until /\ k - 1 \in 1..until
          BY <1>2, <2>2
      <3>2. f[k] = F[k][f[k - 1]] /\ f[k - 1] \in T[k - 1]
          BY <1>5, <3>1 DEF IsRun
      <3>3. QED
          BY <1>4, <3>1, <3>2
    <2>3. \A k \in 1..until : f[k] = IF k = 1 THEN b ELSE PurgeFront(f[k - 1])
        BY <2>1, <2>2
    <2>4. QED
        BY <2>1, <2>3
  <1>7. Drops(drop)
      BY <1>6
  <1>8. Purge(b) = drop[until]
      BY Zenon DEF Purge, until, later, L, drop, Drops
  <1> HIDE DEF drop
  <1> DEFINE X == {k \in 1..until : drop[k] \in T[k]}
  <1>9. 1 \in X
      BY <1>2, <1>3, <1>7
  <1>10. ASSUME NEW k \in 1 + 1 .. until, k - 1 \in X PROVE k \in X
    <2>1. k \in 1..until /\ k # 1
        BY <1>2
    <2>2. drop[k] = PurgeFront(drop[k - 1])
        BY <1>7, <2>1
    <2>3. drop[k - 1] \in T[k - 1]
        BY <1>10
    <2>4. QED
        BY <1>4, <2>1, <2>2, <2>3
  <1> HIDE DEF X
  <1>11. until \in X
    <2>1. \A k \in 1..until : k \in X
        BY <1>2, <1>9, <1>10, Induct
    <2>2. QED
        BY <1>2, <2>1
  <1>12. drop[until] \in T[until]
      BY <1>11 DEF X
  <1>13. /\ drop[until] \in Buffers(S) /\ drop[until].size <= b.size
         /\ Len(drop[until].packets) = L - until + 1
    <2>1. until \in 1..until
        BY <1>2
    <2>2. T[until] = {x \in All : /\ Len(x.packets) = L - until + 1
                                 /\ x.size <= b.size}
        BY <2>1 DEF T
    <2> HIDE DEF L
    <2>3. QED
        BY <1>12, <2>2
  <1>14. L - until + 1 < L
      BY <1>1, <1>2
  <1>15. QED
      BY <1>8, <1>13, <1>14

\* The loops of replay_buffer_purge end with a buffer that is empty or does not
\* exceed the limit, and that has become no larger.
LEMMA PurgeUntilTyped ==
  ASSUME NEW S, S \subseteq MuxPacket, NEW b \in Buffers(S), NEW p, NEW limit
  PROVE  LET c == PurgeUntil(b, p, limit)
         IN  /\ c \in Buffers(S) /\ c.size <= b.size
             /\ c.packets = <<>> \/ ~Exceeds(c, p, limit)
  <1> DEFINE n == Len(b.packets)
             All == {x \in Buffers(S) : x.size <= b.size}
             Done(x) == x.packets = <<>> \/ ~Exceeds(x, p, limit)
             Step(x) == IF x.packets # <<>> /\ Exceeds(x, p, limit)
                        THEN Purge(x) ELSE x
             F == [k \in 0..n |-> [x \in All |-> Step(x)]]
             T == [k \in 0..n |->
                      {x \in All : Len(x.packets) <= n - k \/ Done(x)}]
             Steps(g) == g = [k \in 0..n |->
                                 IF k = 0 THEN b ELSE Step(g[k - 1])]
             after == CHOOSE g : Steps(g)
  <1>1. n \in Nat /\ b.size \in Int
      BY DEF Buffers
  <1>2. \A x \in All : x.size \in Int /\ Len(x.packets) \in Nat
      BY DEF Buffers
  <1>3. ASSUME NEW x \in All
        PROVE  /\ Step(x) \in All
               /\ Done(x) => Step(x) = x
               /\ ~Done(x) => Len(Step(x).packets) < Len(x.packets)
    <2>1. CASE Done(x)
      <3>1. Step(x) = x
          BY <2>1
      <3> HIDE DEF Step, Done, All
      <3>2. QED
          BY <2>1, <3>1
    <2>2. CASE ~Done(x)
      <3>1. Step(x) = Purge(x) /\ x.packets # <<>>
          BY <2>2
      <3>2. /\ Purge(x) \in Buffers(S) /\ Purge(x).size <= x.size
            /\ Len(Purge(x).packets) < Len(x.packets)
          BY <3>1, PurgeTyped
      <3>3. Purge(x).size \in Int /\ x.size \in Int /\ x.size <= b.size
          BY <1>2, <3>2 DEF Buffers
      <3>4. Purge(x) \in All
          BY <1>1, <3>2, <3>3
      <3> HIDE DEF Step, Done, All
      <3>5. QED
          BY <2>2, <3>1, <3>2, <3>4
    <2>3. QED
        BY <2>1, <2>2
  <1>4. PurgeUntil(b, p, limit) = after[n]
      BY Zenon DEF PurgeUntil, n, after, Steps, Step
  <1>5. b \in All
      BY <1>1
  <1> HIDE DEF n, All, Step, Done
  <1>6. \A k \in 0..n : \A x \in All : F[k][x] = Step(x)
      OBVIOUS
  <1>7. \A k \in 0..n :
            T[k] = {x \in All : Len(x.packets) <= n - k \/ Done(x)}
      OBVIOUS
  <1> HIDE DEF F, T
  <1>8. b \in T[0]
      BY <1>1, <1>2, <1>5, <1>7 DEF n
  <1>9. ASSUME NEW k \in 0 + 1 .. n, NEW x \in T[k - 1]
        PROVE  x \in All /\ Step(x) \in T[k] /\ F[k][x] \in T[k]
    <2>1. k \in 0..n /\ k - 1 \in 0..n
        BY <1>1
    <2>2. x \in All /\ (Len(x.packets) <= n - (k - 1) \/ Done(x))
        BY <1>7, <2>1
    <2>3. Len(Step(x).packets) <= n - k \/ Done(Step(x))
      <3>1. CASE Done(x)
          BY <1>3, <2>2, <3>1
      <3>2. CASE ~Done(x)
        <4>1. Len(Step(x).packets) < Len(x.packets) /\ Step(x) \in All
            BY <1>3, <2>2, <3>2
        <4>2. Len(x.packets) \in Nat /\ Len(Step(x).packets) \in Nat
            BY <1>2, <2>2, <4>1
        <4>3. Len(x.packets) <= n - (k - 1)
            BY <2>2, <3>2
        <4>4. QED
            BY <1>1, <2>1, <4>1, <4>2, <4>3
      <3>3. QED
          BY <3>1, <3>2
    <2>4. Step(x) \in All
        BY <1>3, <2>2
    <2>5. Step(x) \in T[k]
        BY <1>7, <2>1, <2>3, <2>4
    <2>6. F[k][x] = Step(x)
        BY <1>6, <2>1, <2>2
    <2>7. QED
        BY <2>2, <2>5, <2>6
  <1>10. PICK f : IsRun(f, F, T, 0, n, b)
    <2>1. Leads(F, T, 0, n)
        BY <1>9 DEF Leads
    <2>2. QED
        BY <1>1, <1>8, <2>1, Recursion
  <1>11. Steps(f)
    <2>1. f = [k \in 0..n |-> f[k]] /\ f[0] = b
        BY <1>10 DEF IsRun
    <2>2. ASSUME NEW k \in 0..n, k # 0 PROVE f[k] = Step(f[k - 1])
      <3>1. k \in 0 + 1 .. n /\ k - 1 \in 0..n
          BY <1>1, <2>2
      <3>2. f[k] = F[k][f[k - 1]] /\ f[k - 1] \in T[k - 1]
          BY <1>10, <3>1 DEF IsRun
      <3>3. f[k - 1] \in All
          BY <1>9, <3>1, <3>2
      <3>4. QED
          BY <1>6, <3>1, <3>2, <3>3
    <2>3. \A k \in 0..n : f[k] = IF k = 0 THEN b ELSE Step(f[k - 1])
        BY <2>1, <2>2
    <2>4. QED
        BY <2>1, <2>3
  <1>12. Steps(after)
      BY <1>11
  <1> HIDE DEF after
  <1> DEFINE X == {k \in 0..n : after[k] \in T[k]}
  <1>13. 0 \in X
      BY <1>1, <1>8, <1>12
  <1>14. ASSUME NEW k \in 0 + 1 .. n, k - 1 \in X PROVE k \in X
    <2>1. k \in 0..n /\ k # 0
        BY <1>1
    <2>2. after[k] = Step(after[k - 1])
        BY <1>12, <2>1
    <2>3. after[k - 1] \in T[k - 1]
        BY <1>14
    <2>4. QED
        BY <1>9, <2>1, <2>2, <2>3
  <1> HIDE DEF X
  <1>15. n \in X
    <2>1. \A k \in 0..n : k \in X
        BY <1>1, <1>13, <1>14, Induct
    <2>2. QED
        BY <1>1, <2>1
  <1>16. after[n] \in T[n] /\ n \in 0..n
      BY <1>1, <1>15 DEF X
  <1>17. after[n] \in All /\ (Len(after[n].packets) <= 0 \/ Done(after[n]))
    <2>1. n - n = 0
        BY <1>1
    <2>2. QED
        BY <1>7, <1>16, <2>1
  <1>18. after[n].packets = <<>> \/ ~Exceeds(after[n], p, limit)
    <2>1. after[n].packets \in Seq(S)
        BY <1>17 DEF All, Buffers
    <2>2. Len(after[n].packets) <= 0 => after[n].packets = <<>>
        BY <2>1
    <2>3. QED
        BY <1>17, <2>2 DEF Done
  <1>19. QED
      BY <1>4, <1>17, <1>18 DEF All

\* What is asked of a buffer that is to take a packet: with many keyframes it
\* exceeds no limit.
FitsFor(b, p) ==
    ~Few(b) => /\ max.max_size # 0 => ~Exceeds(b, p, "size")
               /\ ~Exceeds(b, p, "time")

\* replay_buffer_purge loses packets until the buffer keeps the limits or has no
\* keyframes to choose from.
LEMMA ReplayPurgeTyped ==
  ASSUME NEW S, S \subseteq MuxPacket, NEW b \in Buffers(S),
         NEW p \in MuxPacket, max \in [max_size : Nat, max_time : Nat]
  PROVE  /\ ReplayBufferPurge(b, p) \in Buffers(S)
         /\ FitsFor(ReplayBufferPurge(b, p), p)
  <1> DEFINE small == IF max.max_size = 0 \/ Few(b) THEN b
                      ELSE PurgeUntil(b, p, "size")
             last == PurgeUntil(small, p, "time")
  <1>1. /\ small \in Buffers(S)
        /\ max.max_size # 0 => Few(small) \/ ~Exceeds(small, p, "size")
    <2>1. CASE max.max_size = 0 \/ Few(b)
      <3>1. small = b
          BY <2>1
      <3> HIDE DEF small
      <3>2. QED
          BY <2>1, <3>1
    <2>2. CASE ~(max.max_size = 0 \/ Few(b))
      <3>1. small = PurgeUntil(b, p, "size")
          BY <2>2
      <3> HIDE DEF small
      <3>2. QED
          BY <3>1, PurgeUntilTyped DEF Few
    <2>3. QED
        BY <2>1, <2>2
  <1>2. ReplayBufferPurge(b, p) = IF Few(small) THEN small ELSE last
      BY DEF ReplayBufferPurge
  <1> HIDE DEF small
  <1>3. CASE Few(small)
    <2>1. ReplayBufferPurge(b, p) = small
        BY <1>2, <1>3
    <2>2. QED
        BY <1>1, <1>3, <2>1 DEF FitsFor
  <1>4. CASE ~Few(small)
    <2>1. /\ last \in Buffers(S) /\ last.size <= small.size
          /\ last.packets = <<>> \/ ~Exceeds(last, p, "time")
        BY <1>1, PurgeUntilTyped
    <2> HIDE DEF last
    <2>2. max.max_size # 0 => ~Exceeds(last, p, "size")
      <3>1. /\ last.size \in Int /\ small.size \in Int /\ Size(p) \in Nat
            /\ max.max_size \in Nat
          BY <1>1, <2>1, SizeTyped DEF Buffers
      <3>2. QED
          BY <1>1, <1>4, <2>1, <3>1 DEF Exceeds
    <2>3. ReplayBufferPurge(b, p) = last
        BY <1>2, <1>4
    <2>4. QED
        BY <2>1, <2>2, <2>3 DEF FitsFor, Few
  <1>5. QED
      BY <1>3, <1>4

-----------------------------------------------------------------------------
(* The replay buffer: what a capture finds and leaves                       *)

\* What was added to the buffer came before what comes.
Past == {p \in MuxPacket : p.sys <= ReplayNow}

ReplayTyped ==
    /\ packets \in Seq(Past)
    /\ max \in [max_size : Nat, max_time : Nat]
    /\ coming \in [begin : Nat, video : Nat, audio : Nat, gop : Nat]
    /\ save_ts \in Nat /\ stop_ts \in Nat
    /\ replay_active \in BOOLEAN
    /\ replay_stopping \in BOOLEAN
    /\ capturing \in BOOLEAN
    /\ spoilt \in BOOLEAN /\ clean \in BOOLEAN
    /\ capture \in {"off", "on", "ending"}
    /\ data_thread \in {"idle", "deactivate"}

\* While a capture runs that nothing was left for, all that the buffer has and
\* all that it was asked for came after it began.
CaptureIsOwn ==
    clean /\ capture = "on" =>
        /\ data_thread = "idle" /\ replay_active
        /\ packets \in Seq({p \in MuxPacket : p.sys >= coming.begin})
        /\ save_ts # 0 => save_ts >= coming.begin
        /\ replay_stopping => ~capturing

\* When a capture has ended nothing is left for the next one, unless it was
\* spoilt.
NothingLeft ==
    capture # "on" /\ data_thread = "idle" /\ ~spoilt =>
        /\ packets = <<>> /\ save_ts = 0
        /\ ~replay_active /\ ~replay_stopping

CaptureInv == ReplayTyped /\ CaptureIsOwn /\ NothingLeft

\* The numbers tell of the packets.
Counted == Contents \in Buffers(MuxPacket)

\* The last packet, if the capture has added one, was added to a buffer that
\* fitted.
WithinLimits ==
    /\ packets # <<>> /\ Last(packets).sys >= coming.begin
    /\ Cardinality(Keyframes(Front(packets))) > 2
    => /\ max.max_size # 0 => cur_size <= max.max_size
       /\ Last(packets).dts - cur_time <= max.max_time

BufferInv == Counted /\ WithinLimits
ReplayInv == CaptureInv /\ BufferInv

\* The buffer as it begins and as deactivate_replay_buffer leaves it.
NoPackets == packets = <<>> /\ cur_size = 0 /\ cur_time = 0 /\ keyframes = 0

\* An empty buffer is accounted for.
LEMMA EmptyIsCounted ==
  NoPackets => BufferInv
  <1> SUFFICES ASSUME NoPackets PROVE BufferInv
      OBVIOUS
  <1> USE DEF NoPackets
  <1>1. TotalSize(packets) = 0
      BY TotalEmpty
  <1>2. Keyframes(packets) = {}
      BY DEF Keyframes
  <1>3. Cardinality(Keyframes(packets)) = 0
      BY <1>2, FS_EmptySet
  <1>4. packets \in Seq(MuxPacket)
      OBVIOUS
  <1>5. QED
      BY <1>1, <1>3, <1>4
         DEF BufferInv, Counted, WithinLimits, Contents, Buffers, Accounted

\* Before the first capture the buffer is empty.
LEMMA ReplayInitFresh ==
  ReplayInit => ReplayInv
  <1> SUFFICES ASSUME ReplayInit PROVE ReplayInv
      OBVIOUS
  <1>1. ReplayTyped
    <2>1. /\ coming = [begin |-> 1, video |-> 0, audio |-> 0, gop |-> 0]
          /\ packets = <<>>
        BY DEF ReplayInit
    <2>2. /\ coming \in [begin : Nat, video : Nat, audio : Nat, gop : Nat]
          /\ packets \in Seq(Past)
        BY <2>1
    <2>3. /\ replay_active \in BOOLEAN /\ replay_stopping \in BOOLEAN
          /\ capturing \in BOOLEAN /\ spoilt \in BOOLEAN /\ clean \in BOOLEAN
        BY DEF ReplayInit
    <2>4. /\ max \in [max_size : Nat, max_time : Nat]
          /\ save_ts \in Nat /\ stop_ts \in Nat
          /\ capture \in {"off", "on", "ending"}
          /\ data_thread \in {"idle", "deactivate"}
        BY DEF ReplayInit
    <2>5. QED
        BY <2>2, <2>3, <2>4 DEF ReplayTyped
  <1>2. CaptureIsOwn /\ NothingLeft
      BY DEF ReplayInit, CaptureIsOwn, NothingLeft
  <1>3. BufferInv
      BY EmptyIsCounted DEF ReplayInit, NoPackets
  <1>4. QED
      BY <1>1, <1>2, <1>3 DEF ReplayInv, CaptureInv

\* The packets that come are typed, and none is earlier than the capture.
LEMMA NextPacketsTyped ==
  ASSUME ReplayTyped, NEW p \in NextPackets
  PROVE  p \in MuxPacket /\ p.sys >= coming.begin /\ p.sys = ReplayNow
  <1>1. PICK v \in BOOLEAN, k \in BOOLEAN :
          /\ IF v THEN coming.video <= coming.audio
                  ELSE coming.audio <= coming.video
          /\ p = [video |-> v, key |-> k,
                  dts |-> IF v THEN coming.video ELSE coming.audio,
                  sys |-> coming.begin
                              + IF v THEN coming.video ELSE coming.audio]
      BY DEF NextPackets
  <1>2. coming.begin \in Nat /\ coming.video \in Nat /\ coming.audio \in Nat
      BY DEF ReplayTyped
  <1>3. PICK t \in Nat : /\ t = IF v THEN coming.video ELSE coming.audio
                        /\ t = IF coming.video <= coming.audio
                               THEN coming.video ELSE coming.audio
      BY <1>1, <1>2
  <1>4. p = [video |-> v, key |-> k, dts |-> t, sys |-> coming.begin + t]
      BY <1>1, <1>3
  <1>5. p \in MuxPacket
    <2>1. t \in Int /\ coming.begin + t \in Nat
        BY <1>2, <1>3
    <2>2. QED
        BY <1>4, <2>1 DEF MuxPacket
  <1>6. p.sys = coming.begin + t /\ coming.begin + t >= coming.begin
      BY <1>2, <1>3, <1>4
  <1>7. ReplayNow = coming.begin + t
      BY <1>2, <1>3 DEF ReplayNow
  <1>8. QED
      BY <1>5, <1>6, <1>7

\* The clock is not behind the capture.
LEMMA ClockTyped ==
  ASSUME ReplayTyped
  PROVE  /\ ReplayNow \in Nat /\ ReplayNow >= coming.begin
         /\ ClockShows \subseteq Nat
         /\ \A now \in ClockShows : now >= coming.begin
  <1>1. coming.begin \in Nat /\ coming.video \in Nat /\ coming.audio \in Nat
        /\ MaxLatency \in Nat
      BY ReplayNumbers DEF ReplayTyped
  <1>2. ReplayNow \in Nat /\ ReplayNow >= coming.begin
      BY <1>1 DEF ReplayNow
  <1>3. QED
      BY <1>1, <1>2 DEF ClockShows

\* A packet makes the next one later, and leaves the begin alone.
LEMMA AdvanceTyped ==
  ASSUME ReplayTyped, NEW p \in MuxPacket, Advance(p)
  PROVE  /\ coming' \in [begin : Nat, video : Nat, audio : Nat, gop : Nat]
         /\ coming'.begin = coming.begin /\ ReplayNow' >= ReplayNow
  <1>1. /\ coming \in [begin : Nat, video : Nat, audio : Nat, gop : Nat]
        /\ VideoTime \in Nat /\ AudioTime \in Nat
      BY ReplayNumbers DEF ReplayTyped
  <1>2. PICK video \in Nat, audio \in Nat, gop \in Nat :
          /\ coming' = [coming EXCEPT !.video = video, !.audio = audio,
                                      !.gop = gop]
          /\ video >= coming.video /\ audio >= coming.audio
    <2>1. coming.video \in Nat /\ coming.audio \in Nat /\ coming.gop \in Nat
        BY <1>1
    <2>2. CASE p.video
      <3>1. coming' = [coming EXCEPT !.video = @ + VideoTime,
                                     !.gop = IF p.key THEN 1 ELSE @ + 1]
          BY <2>2 DEF Advance
      <3>2. PICK video \in Nat, gop \in Nat :
              /\ video = coming.video + VideoTime
              /\ gop = IF p.key THEN 1 ELSE coming.gop + 1
          BY <1>1, <2>1
      <3>3. coming' = [coming EXCEPT !.video = video,
                                     !.audio = coming.audio, !.gop = gop]
          BY <1>1, <3>1, <3>2
      <3>4. video >= coming.video /\ coming.audio >= coming.audio
          BY <1>1, <2>1, <3>2
      <3>5. QED
          BY <2>1, <3>3, <3>4
    <2>3. CASE ~p.video
      <3>1. coming' = [coming EXCEPT !.audio = @ + AudioTime]
          BY <2>3 DEF Advance
      <3>2. PICK audio \in Nat : audio = coming.audio + AudioTime
          BY <1>1, <2>1
      <3>3. coming' = [coming EXCEPT !.video = coming.video, !.audio = audio,
                                     !.gop = coming.gop]
          BY <1>1, <3>1, <3>2
      <3>4. coming.video >= coming.video /\ audio >= coming.audio
          BY <1>1, <2>1, <3>2
      <3>5. QED
          BY <2>1, <3>3, <3>4
    <2>4. QED
        BY <2>2, <2>3
  <1>3. /\ coming' \in [begin : Nat, video : Nat, audio : Nat, gop : Nat]
        /\ coming'.begin = coming.begin
        /\ coming'.video >= coming.video /\ coming'.audio >= coming.audio
      BY <1>1, <1>2
  <1>4. QED
      BY <1>1, <1>3 DEF ReplayNow

\* A packet is appended to what the purge leaves.
LEMMA AddPacketTyped ==
  ASSUME ReplayTyped, Counted, NEW S, S \subseteq MuxPacket,
         packets \in Seq(S), NEW p \in S, AddPacketToBuffer(p), max' = max
  PROVE  /\ packets' \in Seq(S) /\ packets' \in Seq(MuxPacket)
         /\ BufferInv'
  <1> DEFINE b == ReplayBufferPurge(Contents, p)
  <1>1. Contents \in Buffers(S)
      BY DEF Counted, Contents, Buffers, Accounted
  <1>2. b \in Buffers(S) /\ FitsFor(b, p)
      BY <1>1, ReplayPurgeTyped DEF ReplayTyped
  <1>3. /\ packets' = Append(b.packets, p)
        /\ cur_size' = b.size + Size(p)
        /\ cur_time' = IF b.packets = <<>> THEN p.dts ELSE b.time
        /\ keyframes' = b.keyframes + Once01(IsKeyframe(p))
      BY DEF AddPacketToBuffer, Once01
  <1>4. Size(p) \in Nat /\ Once01(IsKeyframe(p)) \in Nat /\ p.dts \in Int
      BY SizeTyped DEF Once01, MuxPacket
  <1> HIDE DEF b
  <1>5. /\ b.packets \in Seq(S) /\ b.size \in Int /\ b.time \in Int
        /\ b.keyframes \in Int /\ b.size = TotalSize(b.packets)
        /\ b.keyframes = Cardinality(Keyframes(b.packets))
        /\ b.packets # <<>> => b.time = Head(b.packets).dts
      BY <1>2 DEF Buffers, Accounted
  <1>6. packets' \in Seq(S)
      BY <1>3, <1>5
  <1>7. packets' \in Seq(MuxPacket)
      BY <1>6
  <1>8. Counted'
    <2>1. cur_size' = TotalSize(packets')
        BY <1>3, <1>5, TotalAppend
    <2>2. keyframes' = Cardinality(Keyframes(packets'))
        BY <1>3, <1>5, KeyframesAppend
    <2>3. cur_time' = Head(packets').dts
      <3>1. Head(packets') = IF b.packets = <<>> THEN p ELSE Head(b.packets)
          BY <1>3, <1>5
      <3>2. QED
          BY <1>3, <1>5, <3>1
    <2>4. cur_size' \in Int /\ keyframes' \in Int /\ cur_time' \in Int
        BY <1>3, <1>4, <1>5
    <2>5. QED
        BY <1>7, <2>1, <2>2, <2>3, <2>4
           DEF Counted, Contents, Buffers, Accounted
  <1>9. WithinLimits'
    <2>1. Front(packets') = b.packets /\ Last(packets') = p
        BY <1>3, <1>5 DEF Front, Last
    <2>2. SUFFICES ASSUME Cardinality(Keyframes(b.packets)) > 2
                   PROVE  /\ max.max_size # 0 => cur_size' <= max.max_size
                          /\ p.dts - cur_time' <= max.max_time
        BY <2>1 DEF WithinLimits
    <2>3. b.packets # <<>>
      <3>1. Keyframes(<<>>) = {} /\ Cardinality({}) = 0
          BY FS_EmptySet DEF Keyframes
      <3>2. b.packets = <<>> => Cardinality(Keyframes(b.packets)) = 0
          BY <3>1, Zenon
      <3>3. QED
          BY <2>2, <3>2
    <2>4. ~Few(b)
        BY <1>5, <2>2, <2>3 DEF Few
    <2>5. /\ max.max_size # 0 => ~(b.size + Size(p) > max.max_size)
          /\ ~(p.dts - b.time > max.max_time)
        BY <1>2, <2>4 DEF FitsFor, Exceeds
    <2>6. max.max_size \in Nat /\ max.max_time \in Nat
        BY DEF ReplayTyped
    <2>7. cur_size' = b.size + Size(p) /\ cur_time' = b.time
        BY <1>3, <2>3
    <2>8. max.max_size # 0 => cur_size' <= max.max_size
        BY <1>4, <1>5, <2>5, <2>6, <2>7
    <2>9. p.dts - cur_time' <= max.max_time
        BY <1>4, <1>5, <2>5, <2>6, <2>7
    <2>10. QED
        BY <2>8, <2>9
  <1>10. QED
      BY <1>6, <1>7, <1>8, <1>9 DEF BufferInv

\* A step that leaves the buffer alone.
LEMMA SameBuffer ==
  ASSUME BufferInv, UNCHANGED bufferVars, coming'.begin = coming.begin
  PROVE  BufferInv'
  BY DEF BufferInv, Counted, WithinLimits, Contents, bufferVars

\* What came before what comes goes on to.
LEMMA PastStays ==
  ASSUME NEW array \in Seq(Past), ReplayTyped, ReplayNow' >= ReplayNow,
         coming' \in [begin : Nat, video : Nat, audio : Nat, gop : Nat]
  PROVE  array \in Seq(Past')
  <1>1. ReplayNow \in Nat /\ ReplayNow' \in Nat
    <2>1. \A c \in [begin : Nat, video : Nat, audio : Nat, gop : Nat] :
              c.begin + (IF c.video <= c.audio THEN c.video
                                               ELSE c.audio) \in Nat
        OBVIOUS
    <2>2. QED
        BY <2>1 DEF ReplayTyped, ReplayNow
  <1>2. \A k \in 1 .. Len(array) : array[k] \in Past'
      BY <1>1 DEF Past, MuxPacket
  <1> HIDE DEF Past
  <1>3. QED
      BY <1>2, SequenceOf

\* replay_buffer_data
LEMMA ReplayDataFresh ==
  ASSUME ReplayInv, NEW p \in NextPackets, ReplayData(p)
  PROVE  CaptureInv' /\ BufferInv'
  <1> USE DEF ReplayInv
  <1>1. p \in MuxPacket /\ p.sys >= coming.begin /\ p.sys = ReplayNow
      BY NextPacketsTyped DEF CaptureInv
  <1>2. /\ coming' \in [begin : Nat, video : Nat, audio : Nat, gop : Nat]
        /\ coming'.begin = coming.begin /\ ReplayNow' >= ReplayNow
      BY <1>1, AdvanceTyped DEF CaptureInv, ReplayData
  <1>3. UNCHANGED <<flagVars, max, spoilt, clean>>
      BY DEF ReplayData
  <1>4. CASE /\ ~replay_active
             /\ UNCHANGED <<bufferVars, muxVars, save_ts, capture, data_thread>>
    <2>1. BufferInv'
        BY <1>2, <1>4, SameBuffer
    <2>2. packets' \in Seq(Past')
        BY <1>2, <1>4, PastStays DEF CaptureInv, ReplayTyped, bufferVars
    <2>3. CaptureInv'
        BY <1>2, <1>3, <1>4, <2>2
           DEF CaptureInv, ReplayTyped, CaptureIsOwn, NothingLeft, bufferVars,
               flagVars
    <2>4. QED
        BY <2>1, <2>3
  <1>5. CASE /\ replay_active /\ StopsNow(p)
             /\ capture' = "ending" /\ data_thread' = "deactivate"
             /\ UNCHANGED <<bufferVars, muxVars, save_ts>>
    <2>1. BufferInv'
        BY <1>2, <1>5, SameBuffer
    <2>2. packets' \in Seq(Past')
        BY <1>2, <1>5, PastStays DEF CaptureInv, ReplayTyped, bufferVars
    <2>3. CaptureInv'
        BY <1>2, <1>3, <1>5, <2>2
           DEF CaptureInv, ReplayTyped, CaptureIsOwn, NothingLeft, bufferVars,
               flagVars
    <2>4. QED
        BY <2>1, <2>3
  <1>6. CASE /\ replay_active /\ ~StopsNow(p)
             /\ AddPacketToBuffer(p) /\ SaveIfDue(p)
             /\ UNCHANGED <<capture, data_thread>>
    <2> DEFINE S == {r \in MuxPacket : r.sys >= coming.begin}
    <2>1. Past \subseteq MuxPacket /\ p \in Past
      <3>1. ReplayNow \in Nat
          BY ClockTyped DEF CaptureInv
      <3>2. QED
          BY <1>1, <3>1 DEF Past
    <2>2. packets' \in Seq(Past) /\ BufferInv'
      <3> HIDE DEF S
      <3>1. QED
          BY <1>3, <1>6, <2>1, AddPacketTyped
             DEF CaptureInv, ReplayTyped, BufferInv
    <2>3. packets' \in Seq(Past')
        BY <1>2, <2>2, PastStays DEF CaptureInv
    <2>4. save_ts' \in {0, save_ts}
        BY <1>6 DEF SaveIfDue, ReplayBufferSave
    <2>5. ASSUME clean, capture = "on"
          PROVE  packets' \in Seq({r \in MuxPacket : r.sys >= coming'.begin})
      <3>1. packets \in Seq(S)
          BY <2>5 DEF CaptureInv, CaptureIsOwn
      <3>2. S \subseteq MuxPacket /\ p \in S
          BY <1>1
      <3> HIDE DEF S
      <3>3. packets' \in Seq(S)
          BY <1>3, <1>6, <3>1, <3>2, AddPacketTyped DEF CaptureInv, BufferInv
      <3>4. QED
          BY <1>2, <3>3 DEF S
    <2> HIDE DEF S
    <2>6. ReplayTyped'
        BY <1>2, <1>3, <1>6, <2>3, <2>4 DEF CaptureInv, ReplayTyped, flagVars
    <2>7. CaptureIsOwn'
        BY <1>2, <1>3, <1>6, <2>4, <2>5
           DEF CaptureInv, CaptureIsOwn, flagVars
    <2>8. NothingLeft'
        BY <1>3, <1>6 DEF CaptureInv, NothingLeft, flagVars
    <2>9. QED
        BY <2>2, <2>6, <2>7, <2>8 DEF CaptureInv
  <1>7. QED
      BY <1>4, <1>5, <1>6 DEF ReplayData

\* Every step keeps it: what is left for the next capture, or comes too early
\* for it, is noted.
LEMMA ReplayNextFresh ==
  ReplayInv /\ [ReplayNext]_replayVars => CaptureInv'
  <1> SUFFICES ASSUME ReplayInv, [ReplayNext]_replayVars PROVE CaptureInv'
      OBVIOUS
  <1>0. CaptureInv
      BY DEF ReplayInv
  <1>1. ASSUME NEW p \in NextPackets, ReplayData(p) PROVE CaptureInv'
      BY <1>1, ReplayDataFresh
  <1> USE DEF CaptureInv, ReplayTyped, CaptureIsOwn, NothingLeft
  <1> USE <1>0
  <1>2. CASE DeactivateReplayBuffer
    <2>1. /\ capture' = capture
          /\ data_thread = "deactivate" /\ data_thread' = "idle"
        BY <1>2 DEF DeactivateReplayBuffer
    <2>2. /\ packets' = <<>> /\ save_ts' = 0 /\ replay_active' = FALSE
          /\ replay_stopping' = FALSE /\ spoilt' = FALSE
          /\ max' = [max_size |-> 0, max_time |-> 0]
          /\ UNCHANGED <<stop_ts, capturing, coming, clean>>
        BY <1>2 DEF DeactivateReplayBuffer
    <2>3. packets' \in Seq(Past')
        BY <2>2
    <2>4. ReplayTyped'
      <3>1. /\ replay_active' \in BOOLEAN /\ replay_stopping' \in BOOLEAN
            /\ capturing' \in BOOLEAN /\ spoilt' \in BOOLEAN
            /\ clean' \in BOOLEAN
          BY <2>2
      <3>2. /\ max' \in [max_size : Nat, max_time : Nat]
            /\ save_ts' \in Nat /\ stop_ts' \in Nat
            /\ coming' \in [begin : Nat, video : Nat, audio : Nat, gop : Nat]
          BY <2>2
      <3>3. QED
          BY <2>1, <2>3, <3>1, <3>2
    <2>5. CaptureIsOwn' /\ NothingLeft'
        BY <2>1, <2>2
    <2>6. QED
        BY <2>4, <2>5
  <1>3. CASE ReplayStart
    <2>1. /\ capture = "off"
          /\ clean' = (data_thread = "idle" /\ ~spoilt)
          /\ capture' = "on" /\ replay_active' = TRUE /\ capturing' = TRUE
          /\ max' \in [max_size : Nat, max_time : Nat]
          /\ UNCHANGED <<packets, save_ts, stop_ts, replay_stopping,
                         data_thread, spoilt>>
          /\ coming' = [begin |-> ReplayNow + MaxLatency + 1,
                        video |-> 0, audio |-> 0, gop |-> 0]
        BY <1>3, ReplayNumbers DEF ReplayStart
    <2>2. /\ ReplayNow + MaxLatency + 1 \in Nat
          /\ ReplayNow' = ReplayNow + MaxLatency + 1 /\ ReplayNow' >= ReplayNow
      <3>1. ReplayNow \in Nat /\ MaxLatency \in Nat
          BY ClockTyped, ReplayNumbers
      <3>2. coming'.begin = ReplayNow + MaxLatency + 1 /\ coming'.video = 0
            /\ coming'.audio = 0
          BY <2>1
      <3>3. ReplayNow' = ReplayNow + MaxLatency + 1
          BY <3>1, <3>2 DEF ReplayNow
      <3>4. QED
          BY <3>1, <3>3
    <2>3. packets' \in Seq(Past')
        BY <2>1, <2>2, PastStays
    <2>4. ASSUME clean'
          PROVE  /\ data_thread' = "idle" /\ save_ts' = 0 /\ ~replay_stopping'
                 /\ packets' \in Seq({p \in MuxPacket : p.sys >= coming'.begin})
      <3>1. packets' = <<>> /\ save_ts' = 0 /\ ~replay_stopping'
          BY <2>1, <2>4
      <3>2. QED
          BY <2>1, <2>4, <3>1
    <2>5. ReplayTyped'
      <3>1. clean' \in BOOLEAN
          BY <2>1
      <3>2. coming' \in [begin : Nat, video : Nat, audio : Nat, gop : Nat]
          BY <2>1, <2>2
      <3>3. QED
          BY <2>1, <2>3, <3>1, <3>2
    <2>6. CaptureIsOwn' /\ NothingLeft'
        BY <2>1, <2>4
    <2>7. QED
        BY <2>5, <2>6
  <1>4. ASSUME NEW t \in {0} \cup ClockShows, ReplayStop(t) PROVE CaptureInv'
    <2>1. t \in Nat
        BY ClockTyped
    <2>2. /\ capture \in {"on", "ending"}
          /\ spoilt' = (spoilt \/ capture = "ending")
          /\ stop_ts' = t /\ replay_stopping' = TRUE /\ capturing' = FALSE
          /\ UNCHANGED <<packets, max, save_ts, replay_active, capture,
                         data_thread, coming, clean>>
        BY <1>4 DEF ReplayStop, bufferVars
    <2>3. ReplayTyped'
      <3>1. /\ spoilt' \in BOOLEAN /\ replay_stopping' \in BOOLEAN
            /\ capturing' \in BOOLEAN /\ Past' = Past
          BY <2>2 DEF Past, ReplayNow
      <3>2. QED
          BY <2>1, <2>2, <3>1
    <2>4. CaptureIsOwn' /\ NothingLeft'
        BY <2>2
    <2>5. QED
        BY <2>3, <2>4
  <1>5. ASSUME NEW now \in ClockShows, ReplayHotkey(now) PROVE CaptureInv'
    <2>1. now \in Nat /\ now >= coming.begin
        BY ClockTyped
    <2>2. /\ spoilt' = (spoilt \/ ~replay_active) /\ save_ts' = now
          /\ UNCHANGED <<packets, max, stop_ts, replay_active, replay_stopping,
                         capturing, capture, data_thread, coming, clean>>
        BY <1>5 DEF ReplayHotkey, bufferVars, flagVars
    <2>3. ReplayTyped'
      <3>1. spoilt' \in BOOLEAN /\ Past' = Past
          BY <2>2 DEF Past, ReplayNow
      <3>2. QED
          BY <2>1, <2>2, <3>1
    <2>4. CaptureIsOwn' /\ NothingLeft'
        BY <2>1, <2>2
    <2>5. QED
        BY <2>3, <2>4
  <1>6. CASE ReplayCaptureEnds
      BY <1>6 DEF ReplayCaptureEnds, bufferVars, flagVars, Past, ReplayNow
  <1>7. CASE MuxThreadEnds
      BY <1>7 DEF MuxThreadEnds, bufferVars, flagVars, Past, ReplayNow
  <1>8. CASE MuxWriteFails
    <2>1. /\ spoilt' = (spoilt \/ capture = "on") /\ replay_active' = FALSE
          /\ replay_stopping' = FALSE /\ capturing' = FALSE
          /\ capture' = IF capture = "on" THEN "ending" ELSE capture
          /\ UNCHANGED <<packets, max, save_ts, stop_ts, data_thread, coming,
                         clean>>
        BY <1>8 DEF MuxWriteFails, bufferVars
    <2>2. capture' # "on" /\ capture' \in {"off", "ending"}
        BY <2>1
    <2>3. ReplayTyped'
      <3>1. /\ spoilt' \in BOOLEAN /\ replay_active' \in BOOLEAN
            /\ replay_stopping' \in BOOLEAN /\ capturing' \in BOOLEAN
            /\ Past' = Past
          BY <2>1 DEF Past, ReplayNow
      <3>2. QED
          BY <2>1, <2>2, <3>1
    <2>4. CaptureIsOwn' /\ NothingLeft'
        BY <2>1, <2>2
    <2>5. QED
        BY <2>3, <2>4
  <1>9. CASE UNCHANGED replayVars
      BY <1>9 DEF replayVars, bufferVars, flagVars, Past, ReplayNow
  <1>10. QED
      BY <1>1, <1>2, <1>3, <1>4, <1>5, <1>6, <1>7, <1>8, <1>9 DEF ReplayNext

\* And it keeps the account of the buffer.
LEMMA ReplayNextCounted ==
  ReplayInv /\ [ReplayNext]_replayVars => BufferInv'
  <1> SUFFICES ASSUME ReplayInv, [ReplayNext]_replayVars PROVE BufferInv'
      OBVIOUS
  <1>1. ASSUME NEW p \in NextPackets, ReplayData(p) PROVE BufferInv'
      BY <1>1, ReplayDataFresh
  <1>2. CASE DeactivateReplayBuffer
    <2>1. NoPackets'
        BY <1>2 DEF DeactivateReplayBuffer, NoPackets
    <2>2. QED
        BY <2>1, EmptyIsCounted, PTL
  <1>3. CASE ReplayStart
    <2>1. /\ UNCHANGED <<packets, cur_size, cur_time, keyframes>>
          /\ coming' = [begin |-> ReplayNow + MaxLatency + 1,
                        video |-> 0, audio |-> 0, gop |-> 0]
        BY <1>3 DEF ReplayStart
    <2>2. Counted'
        BY <2>1 DEF ReplayInv, BufferInv, Counted, Contents
    <2>3. ReplayNow \in Nat /\ MaxLatency \in Nat /\ packets \in Seq(Past)
        BY ClockTyped, ReplayNumbers DEF ReplayInv, CaptureInv, ReplayTyped
    <2>4. packets # <<>> => Last(packets).sys < coming'.begin
      <3>1. packets # <<>> => Last(packets) \in Past
          BY <2>3 DEF Last
      <3>2. QED
          BY <2>1, <2>3, <3>1 DEF Past, MuxPacket
    <2>5. packets # <<>> => Last(packets) \in Past
        BY <2>3 DEF Last
    <2>6. coming'.begin \in Nat /\ (packets # <<>> => Last(packets).sys \in Nat)
        BY <2>1, <2>3, <2>5 DEF Past, MuxPacket
    <2>7. WithinLimits'
        BY <2>1, <2>4, <2>6 DEF WithinLimits
    <2>8. QED
        BY <2>2, <2>7 DEF BufferInv
  <1>4. CASE UNCHANGED <<bufferVars, coming>>
      BY <1>4, SameBuffer DEF ReplayInv
  <1>5. ASSUME NEW t \in {0} \cup ClockShows, ReplayStop(t)
        PROVE  UNCHANGED <<bufferVars, coming>>
      BY <1>5 DEF ReplayStop
  <1>6. ASSUME NEW now \in ClockShows, ReplayHotkey(now)
        PROVE  UNCHANGED <<bufferVars, coming>>
      BY <1>6 DEF ReplayHotkey
  <1>7. ReplayCaptureEnds \/ MuxThreadEnds \/ MuxWriteFails =>
            UNCHANGED <<bufferVars, coming>>
      BY DEF ReplayCaptureEnds, MuxThreadEnds, MuxWriteFails
  <1>8. UNCHANGED replayVars => UNCHANGED <<bufferVars, coming>>
      BY DEF replayVars
  <1>9. QED
      BY <1>1, <1>2, <1>3, <1>4, <1>5, <1>6, <1>7, <1>8 DEF ReplayNext

\* What a capture of the replay buffer finds, has and leaves, for any lengths,
\* limits, groups of pictures and numbers of captures.
THEOREM ReplayInvHolds ==
  ReplaySpec => []ReplayInv
  <1>1. ReplayInv /\ [ReplayNext]_replayVars => ReplayInv'
      BY ReplayNextFresh, ReplayNextCounted DEF ReplayInv
  <1>2. QED
      BY <1>1, ReplayInitFresh, PTL DEF ReplaySpec

\* replay_buffer_start: a capture that nothing was left for has its own packets
\* only, and no save or stop is older than it.  What a file that fails, a late
\* save or stop or an early start spoils is one capture: deactivate_replay_buffer
\* leaves nothing, whatever it finds.
THEOREM CapturesAreFresh ==
  ReplaySpec => []ReplayFresh
  <1>1. ReplayInv => ReplayFresh
    <2> SUFFICES ASSUME CaptureInv, clean, capture = "on" PROVE ReplayFresh
        BY DEF ReplayFresh, ReplayInv
    <2>1. \A i \in DOMAIN packets : packets[i].sys >= coming.begin
        BY DEF CaptureInv, CaptureIsOwn
    <2>2. QED
        BY <2>1 DEF CaptureInv, CaptureIsOwn, ReplayFresh
  <1>2. QED
      BY <1>1, ReplayInvHolds, PTL

\* replay_buffer_purge: the size, the keyframes and the first time stamp that it
\* decides by are those of the packets there are, and where there are keyframes
\* to choose from what is left keeps both limits.
THEOREM ReplayIsAccounted ==
  ReplaySpec => []ReplayAccounted
  <1>1. ReplayInv => ReplayAccounted
      BY DEF ReplayInv, BufferInv, Counted, WithinLimits, Contents, Buffers,
             Accounted, ReplayAccounted
  <1>2. QED
      BY <1>1, ReplayInvHolds, PTL

-----------------------------------------------------------------------------
(* Signals: the inductive invariant                                         *)

Array(a) == IF a = "signal" THEN callbacks ELSE global_callbacks

TheArrays == [a \in Arrays |-> Array(a)]

\* A thread that walks an array has its mutex.
In(seq, a) == seq # <<>> /\ seq[1].in = a

\* A callback is in an array once.
Distinct(array) ==
    \A i, j \in DOMAIN array : array[i].callback = array[j].callback => i = j

Unmarked(array) == \A i \in DOMAIN array : ~array[i].remove

\* What is connected is in the array, and what is not is marked there only
\* while somebody walks it.
Intact(array, want, held) ==
    /\ Distinct(array) /\ StillConnected(array) = want
    /\ held \/ Unmarked(array)

\* What was called is what comes before the position, but for what is marked.
Follows(array, d) ==
    /\ d.next \in 1 .. Len(array) + 1
    /\ \A i \in 1 .. d.next - 1 :
           array[i].remove \/ array[i].callback \in ToSet(d.called)
    /\ \A c \in ToSet(d.called) :
           \E i \in 1 .. d.next - 1 : array[i].callback = c
    /\ d.running => /\ d.next > 1 /\ d.called # <<>>
                    /\ Last(d.called) = array[d.next - 1].callback

Nowhere == [a \in Arrays |-> 0]

\* A delivery that goes on, with the pointers to its callback.
Going(d, cur, arrays, want) ==
    /\ IsInjective(d.called)
    /\ cur = [a \in Arrays |-> IF d.running /\ d.in = a THEN d.next - 1 ELSE 0]
    /\ d.in = "between" => ~d.running /\ d.due \subseteq ToSet(d.called)
    /\ d.in # "between" => /\ Follows(arrays[d.in], d)
                           /\ d.due \subseteq want[d.in]

\* A thread is in one delivery at most.
Fine(seq, cur, arrays, want) ==
    IF seq = <<>> THEN cur = Nowhere
    ELSE seq = <<seq[1]>> /\ Going(seq[1], cur, arrays, want)

\* A callback is counted while it is called.
IsCounted(i) ==
    global_callbacks[i].signaling =
        IF \E t \in SignalThreads : current[t]["global"] = i THEN 1 ELSE 0

SignalInv ==
    /\ SignalsTypeOK
    /\ \A t \in SignalThreads :
           Fine(deliveries[t], current[t], TheArrays, wanted)
    /\ \A a \in Arrays : \A t, u \in SignalThreads :
           In(deliveries[t], a) /\ In(deliveries[u], a) => t = u
    /\ \A a \in Arrays :
           Intact(Array(a), wanted[a],
                  \E t \in SignalThreads : In(deliveries[t], a))
    /\ signalling <=> \E t \in SignalThreads : In(deliveries[t], "signal")
    /\ \A i \in DOMAIN global_callbacks : IsCounted(i)

-----------------------------------------------------------------------------
(* Signals: what the operations make of an array                            *)

\* da_find on the callbacks of a signal finds the one that it looks for.
LEMMA PositionFinds ==
  ASSUME NEW S, callbacks \in Seq(S), NEW c
  PROVE  /\ Position(c) = 0 =>
                \A i \in DOMAIN callbacks : callbacks[i].callback # c
         /\ Position(c) # 0 => /\ Position(c) \in DOMAIN callbacks
                               /\ callbacks[Position(c)].callback = c
  <1> DEFINE I == {i \in 1 .. Len(callbacks) : callbacks[i].callback = c}
  <1>1. Position(c) = IF I # {} THEN Min(I) ELSE 0
      BY Zenon DEF Position, SelectInSeq
  <1>2. I \in SUBSET Nat /\ 0 \notin I /\ DOMAIN callbacks = 1 .. Len(callbacks)
      OBVIOUS
  <1>3. I # {} => Min(I) \in I
    <2> HIDE DEF I
    <2>1. QED
        BY <1>2, MinIsLeast
  <1>4. CASE I = {}
    <2>1. Position(c) = 0
        BY <1>1, <1>4
    <2>2. QED
        BY <1>2, <1>4, <2>1
  <1>5. CASE I # {}
    <2>1. Position(c) \in I
        BY <1>1, <1>3, <1>5
    <2>2. QED
        BY <1>2, <2>1
  <1>6. QED
      BY <1>4, <1>5

\* da_find on the global callbacks finds the whole element.
LEMMA GlobalPositionFinds ==
  ASSUME NEW S, global_callbacks \in Seq(S), NEW c, NEW e,
         e = [callback |-> c, signaling |-> 0, remove |-> FALSE]
  PROVE  /\ GlobalPosition(c) = 0 =>
                \A i \in DOMAIN global_callbacks : global_callbacks[i] # e
         /\ GlobalPosition(c) # 0 =>
                /\ GlobalPosition(c) \in DOMAIN global_callbacks
                /\ global_callbacks[GlobalPosition(c)] = e
  <1> DEFINE I == {i \in 1 .. Len(global_callbacks) :
                       global_callbacks[i] = [callback |-> c, signaling |-> 0,
                                              remove |-> FALSE]}
  <1>1. GlobalPosition(c) = IF I # {} THEN Min(I) ELSE 0
      BY Zenon DEF GlobalPosition, SelectInSeq
  <1>2. /\ I = {i \in 1 .. Len(global_callbacks) : global_callbacks[i] = e}
        /\ I \in SUBSET Nat /\ 0 \notin I
        /\ DOMAIN global_callbacks = 1 .. Len(global_callbacks)
      OBVIOUS
  <1> HIDE DEF I
  <1>3. I # {} => Min(I) \in I
      BY <1>2, MinIsLeast
  <1>4. CASE I = {}
    <2>1. GlobalPosition(c) = 0
        BY <1>1, <1>4
    <2>2. QED
        BY <1>2, <1>4, <2>1
  <1>5. CASE I # {}
    <2>1. GlobalPosition(c) \in I
        BY <1>1, <1>3, <1>5
    <2>2. QED
        BY <1>2, <2>1
  <1>6. QED
      BY <1>4, <1>5

\* What is still connected, element by element.
LEMMA StillIs ==
  ASSUME NEW array, NEW c
  PROVE  c \in StillConnected(array) <=>
             \E i \in DOMAIN array : ~array[i].remove /\ array[i].callback = c
  BY DEF StillConnected

\* A new callback at the end of an array is connected.
LEMMA AppendIntact ==
  ASSUME NEW S, NEW array \in Seq(S), NEW e \in S, NEW want, NEW held,
         Intact(array, want, held), ~e.remove,
         \A i \in DOMAIN array : array[i].callback # e.callback
  PROVE  Intact(Append(array, e), want \cup {e.callback}, held)
  <1> DEFINE n == Len(array)
  <1>1. PICK longer : longer = Append(array, e)
      OBVIOUS
  <1>2. /\ n \in Nat /\ DOMAIN array = 1 .. n /\ DOMAIN longer = 1 .. n + 1
        /\ \A i \in 1 .. n : longer[i] = array[i]
        /\ longer[n + 1] = e
      BY <1>1
  <1> HIDE DEF n
  <1>3. Distinct(longer)
    <2>1. SUFFICES ASSUME NEW i \in 1 .. n + 1, NEW j \in 1 .. n + 1,
                          longer[i].callback = longer[j].callback
                   PROVE  i = j
        BY <1>2 DEF Distinct
    <2>2. i = n + 1 \/ i \in 1 .. n
        BY <1>2
    <2>3. j = n + 1 \/ j \in 1 .. n
        BY <1>2
    <2>4. QED
        BY <1>2, <2>1, <2>2, <2>3 DEF Intact, Distinct
  <1>4. ASSUME NEW c
        PROVE  c \in StillConnected(longer) <=> c \in want \cup {e.callback}
    <2>1. c \in StillConnected(longer) <=>
              \E i \in 1 .. n + 1 : ~longer[i].remove /\ longer[i].callback = c
        BY <1>2, StillIs
    <2>2. c \in want <=>
              \E i \in 1 .. n : ~array[i].remove /\ array[i].callback = c
        BY <1>2, StillIs DEF Intact
    <2>3. \A i : i \in 1 .. n + 1 <=> i \in 1 .. n \/ i = n + 1
        BY <1>2
    <2>4. QED
        BY <1>2, <2>1, <2>2, <2>3
  <1>5. held \/ Unmarked(longer)
    <2>1. \A i \in 1 .. n + 1 : i = n + 1 \/ i \in 1 .. n
        BY <1>2
    <2>2. QED
        BY <1>2, <2>1 DEF Intact, Unmarked
  <1>6. QED
      BY <1>1, <1>3, <1>4, <1>5 DEF Intact

\* What is connected already may be connected again.
LEMMA ConnectedIntact ==
  ASSUME NEW array, NEW want, NEW held, Intact(array, want, held),
         NEW i \in DOMAIN array, ~array[i].remove
  PROVE  Intact(array, want \cup {array[i].callback}, held)
  BY StillIs DEF Intact

\* The second array is the first one, that has grown or has more marks.
Grown(array, array2) ==
    /\ Len(array) \in Nat /\ Len(array2) \in Nat /\ Len(array) <= Len(array2)
    /\ \A i \in 1 .. Len(array) :
           /\ array2[i].callback = array[i].callback
           /\ array[i].remove => array2[i].remove

\* A delivery keeps its place in an array that grows.
LEMMA GrownFollows ==
  ASSUME NEW array, NEW array2, Grown(array, array2), NEW d, Follows(array, d)
  PROVE  Follows(array2, d)
  <1> DEFINE n == d.next
  <1>1. /\ n \in 1 .. Len(array) + 1 /\ n \in 1 .. Len(array2) + 1
        /\ \A i \in 1 .. n - 1 : i \in 1 .. Len(array)
      BY DEF Grown, Follows
  <1>2. n > 1 => n - 1 \in 1 .. Len(array)
      BY <1>1 DEF Grown
  <1>3. /\ \A i \in 1 .. n - 1 :
               array2[i].remove \/ array2[i].callback \in ToSet(d.called)
        /\ \A c \in ToSet(d.called) :
               \E i \in 1 .. n - 1 : array2[i].callback = c
      BY <1>1 DEF Grown, Follows
  <1>4. QED
      BY <1>1, <1>2, <1>3 DEF Grown, Follows

\* An array that grows.
LEMMA AppendGrown ==
  ASSUME NEW S, NEW array \in Seq(S), NEW e \in S
  PROVE  Grown(array, Append(array, e))
  BY DEF Grown

\* A callback of an array that is walked is marked.
Marks(array, array2, p) ==
    /\ p \in 1 .. Len(array) /\ Len(array) \in Nat /\ Len(array2) = Len(array)
    /\ DOMAIN array = 1 .. Len(array) /\ DOMAIN array2 = 1 .. Len(array)
    /\ \A i \in 1 .. Len(array) :
           /\ array2[i].callback = array[i].callback
           /\ array2[i].remove <=> array[i].remove \/ i = p

\* What is marked is not connected any more.
LEMMA MarkIntact ==
  ASSUME NEW array, NEW array2, NEW p, Marks(array, array2, p),
         NEW want, NEW held, Intact(array, want, held)
  PROVE  Intact(array2, want \ {array[p].callback}, TRUE)
  <1>1. Distinct(array2)
      BY DEF Marks, Intact, Distinct
  <1>2. ASSUME NEW c
        PROVE  c \in StillConnected(array2) <=> c \in want \ {array[p].callback}
    <2>1. c \in want <=>
              \E i \in DOMAIN array : ~array[i].remove /\ array[i].callback = c
        BY StillIs DEF Intact
    <2>2. c \in StillConnected(array2) <=>
              \E i \in DOMAIN array2 :
                  ~array2[i].remove /\ array2[i].callback = c
        BY StillIs
    <2>3. Distinct(array)
        BY DEF Intact
    <2>4. QED
        BY <2>1, <2>2, <2>3 DEF Marks, Distinct
  <1>3. QED
      BY <1>1, <1>2 DEF Intact

\* Marking moves nothing.
LEMMA MarkGrown ==
  ASSUME NEW array, NEW array2, NEW p, Marks(array, array2, p)
  PROVE  Grown(array, array2)
  BY DEF Marks, Grown

\* An array without one element.
LEMMA RemoveAtIs ==
  ASSUME NEW S, NEW array \in Seq(S), NEW p \in 1 .. Len(array)
  PROVE  /\ RemoveAt(array, p) \in Seq(S)
         /\ Len(RemoveAt(array, p)) = Len(array) - 1
         /\ \A i \in 1 .. Len(array) - 1 :
                RemoveAt(array, p)[i] = IF i < p THEN array[i] ELSE array[i + 1]
  <1> DEFINE left == SubSeq(array, 1, p - 1)
             right == SubSeq(array, p + 1, Len(array))
  <1>1. Len(array) \in Nat /\ p \in Nat
      OBVIOUS
  <1>2. /\ left \in Seq(S) /\ Len(left) = p - 1
        /\ \A i \in 1 .. p - 1 : left[i] = array[i]
      BY <1>1
  <1>3. /\ right \in Seq(S) /\ Len(right) = Len(array) - p
        /\ \A i \in 1 .. Len(array) - p : right[i] = array[i + p]
      BY <1>1
  <1>4. RemoveAt(array, p) = left \o right
      BY DEF RemoveAt
  <1> HIDE DEF left, right
  <1>5. ASSUME NEW i \in 1 .. Len(array) - 1, i < p
        PROVE  (left \o right)[i] = array[i]
    <2>1. i \in 1 .. p - 1
        BY <1>1, <1>5
    <2>2. QED
        BY <1>1, <1>2, <1>3, <2>1
  <1>6. ASSUME NEW i \in 1 .. Len(array) - 1, ~(i < p)
        PROVE  (left \o right)[i] = array[i + 1]
    <2>1. /\ i \in 1 .. Len(left) + Len(right) /\ ~(i <= Len(left))
          /\ i - (p - 1) \in 1 .. Len(array) - p
          /\ (i - (p - 1)) + p = i + 1
        BY <1>1, <1>2, <1>3, <1>6
    <2>2. (left \o right)[i] = right[i - (p - 1)]
        BY <1>1, <1>2, <1>3, <2>1
    <2>3. QED
        BY <1>3, <2>1, <2>2
  <1>7. /\ left \o right \in Seq(S)
        /\ Len(left \o right) = Len(array) - 1
    <2>1. /\ left \o right \in Seq(S)
          /\ Len(left \o right) = Len(left) + Len(right)
        BY <1>2, <1>3, ConcatProperties
    <2>2. Len(left) + Len(right) = Len(array) - 1
        BY <1>1, <1>2, <1>3
    <2>3. QED
        BY <2>1, <2>2
  <1>8. QED
      BY <1>4, <1>5, <1>6, <1>7

\* What is removed from an array that nobody walks is not connected any more.
LEMMA RemoveAtIntact ==
  ASSUME NEW S, NEW array \in Seq(S), NEW p \in 1 .. Len(array), NEW want,
         Intact(array, want, FALSE)
  PROVE  Intact(RemoveAt(array, p), want \ {array[p].callback}, FALSE)
  <1> DEFINE n == Len(array)
  <1>1. PICK shorter : shorter = RemoveAt(array, p)
      OBVIOUS
  <1>2. /\ n \in Nat /\ p \in 1 .. n /\ DOMAIN array = 1 .. n
        /\ shorter \in Seq(S) /\ DOMAIN shorter = 1 .. n - 1
        /\ \A i \in 1 .. n - 1 :
               shorter[i] = IF i < p THEN array[i] ELSE array[i + 1]
    <2>1. /\ shorter \in Seq(S) /\ Len(shorter) = n - 1
          /\ \A i \in 1 .. n - 1 :
                 shorter[i] = IF i < p THEN array[i] ELSE array[i + 1]
        BY Zenon, <1>1, RemoveAtIs
    <2>2. n \in Nat /\ p \in 1 .. n /\ DOMAIN array = 1 .. n
        OBVIOUS
    <2>3. DOMAIN shorter = 1 .. n - 1
        BY <2>1
    <2>4. QED
        BY <2>1, <2>2, <2>3
  <1> HIDE DEF n
  <1>3. \A i \in 1 .. n - 1 : \E j \in 1 .. n :
            /\ j # p /\ shorter[i] = array[j]
            /\ j = IF i < p THEN i ELSE i + 1
    <2>1. ASSUME NEW i \in 1 .. n - 1, i < p
          PROVE  i \in 1 .. n /\ i # p /\ shorter[i] = array[i]
        BY <1>2, <2>1
    <2>2. ASSUME NEW i \in 1 .. n - 1, ~(i < p)
          PROVE  i + 1 \in 1 .. n /\ i + 1 # p /\ shorter[i] = array[i + 1]
        BY <1>2, <2>2
    <2>3. QED
        BY <2>1, <2>2
  <1>4. \A j \in 1 .. n : j # p => \E i \in 1 .. n - 1 : shorter[i] = array[j]
    <2>1. ASSUME NEW j \in 1 .. n, j < p
          PROVE  j \in 1 .. n - 1 /\ shorter[j] = array[j]
        BY <1>2, <2>1
    <2>2. ASSUME NEW j \in 1 .. n, j > p
          PROVE  j - 1 \in 1 .. n - 1 /\ shorter[j - 1] = array[j]
        BY <1>2, <2>2
    <2>3. \A j \in 1 .. n : j # p => j < p \/ j > p
        BY <1>2
    <2>4. QED
        BY <2>1, <2>2, <2>3
  <1>5. Distinct(array) /\ Unmarked(array) /\ StillConnected(array) = want
      BY DEF Intact
  <1>6. Distinct(shorter)
    <2>1. SUFFICES ASSUME NEW i \in 1 .. n - 1, NEW j \in 1 .. n - 1,
                          shorter[i].callback = shorter[j].callback
                   PROVE  i = j
        BY <1>2 DEF Distinct
    <2>2. PICK ii \in 1 .. n : /\ shorter[i] = array[ii]
                               /\ ii = IF i < p THEN i ELSE i + 1
        BY <1>3
    <2>3. PICK jj \in 1 .. n : /\ shorter[j] = array[jj]
                               /\ jj = IF j < p THEN j ELSE j + 1
        BY <1>3
    <2>4. ii = jj
        BY <1>2, <1>5, <2>1, <2>2, <2>3 DEF Distinct
    <2>5. QED
        BY <1>2, <2>2, <2>3, <2>4
  <1>7. Unmarked(shorter)
      BY <1>2, <1>3, <1>5 DEF Unmarked
  <1>8. ASSUME NEW c
        PROVE  c \in StillConnected(shorter)
                   <=> c \in want \ {array[p].callback}
    <2>1. c \in want <=>
              \E i \in 1 .. n : ~array[i].remove /\ array[i].callback = c
        BY <1>2, <1>5, StillIs
    <2>2. c \in StillConnected(shorter) <=>
              \E i \in 1 .. n - 1 :
                  ~shorter[i].remove /\ shorter[i].callback = c
        BY <1>2, StillIs
    <2>3. ASSUME c \in StillConnected(shorter)
          PROVE  c \in want \ {array[p].callback}
      <3>1. PICK i \in 1 .. n - 1 :
                ~shorter[i].remove /\ shorter[i].callback = c
          BY <2>2, <2>3
      <3>2. PICK j \in 1 .. n : j # p /\ shorter[i] = array[j]
          BY <1>3
      <3>3. QED
          BY <1>2, <1>5, <2>1, <3>1, <3>2 DEF Distinct
    <2>4. ASSUME c \in want \ {array[p].callback}
          PROVE  c \in StillConnected(shorter)
      <3>1. PICK j \in 1 .. n : ~array[j].remove /\ array[j].callback = c
          BY <2>1, <2>4
      <3>2. j # p
          BY <2>4, <3>1
      <3>3. QED
          BY <1>4, <2>2, <3>1, <3>2
    <2>5. QED
        BY <2>3, <2>4
  <1>9. QED
      BY <1>1, <1>6, <1>7, <1>8 DEF Intact

\* What the elements of an array that stay make, one after the other.
Keeps(kept, array, gone) ==
    /\ kept[0] = <<>>
    /\ \A n \in 1 .. Len(array) :
           kept[n] = IF n \in gone THEN kept[n - 1]
                     ELSE Append(kept[n - 1], array[n])

\* The array without some elements is built one element after the other.
LEMMA WithoutIs ==
  ASSUME NEW S, NEW array \in Seq(S), NEW gone
  PROVE  \E kept : /\ Keeps(kept, array, gone)
                   /\ Without(array, gone) = kept[Len(array)]
  <1> DEFINE n == Len(array)
             F == [k \in 0 .. n |->
                      [x \in Seq(S) |-> IF k \in gone THEN x
                                        ELSE Append(x, array[k])]]
             T == [k \in 0 .. n |-> Seq(S)]
             Filters(g) == g = [k \in 0 .. n |->
                                   IF k = 0 THEN <<>>
                                   ELSE IF k \in gone THEN g[k - 1]
                                   ELSE Append(g[k - 1], array[k])]
             kept == CHOOSE g : Filters(g)
  <1>1. n \in Nat /\ \A k \in 1 .. n : array[k] \in S
      OBVIOUS
  <1>2. Without(array, gone) = kept[n]
      BY Zenon DEF Without
  <1> HIDE DEF n
  <1>3. \A k \in 0 .. n : /\ T[k] = Seq(S)
                          /\ \A x \in Seq(S) :
                                 F[k][x] = IF k \in gone THEN x
                                           ELSE Append(x, array[k])
      OBVIOUS
  <1> HIDE DEF F, T
  <1>4. PICK f : IsRun(f, F, T, 0, n, <<>>)
    <2>1. ASSUME NEW k \in 0 + 1 .. n, NEW x \in T[k - 1]
          PROVE  F[k][x] \in T[k]
      <3>1. k \in 0 .. n /\ k - 1 \in 0 .. n /\ k \in 1 .. n
          BY <1>1
      <3>2. x \in Seq(S) /\ T[k] = Seq(S)
          BY <1>3, <3>1
      <3>3. F[k][x] = IF k \in gone THEN x ELSE Append(x, array[k])
          BY <1>3, <3>1, <3>2
      <3>4. QED
          BY <1>1, <3>1, <3>2, <3>3
    <2>2. Leads(F, T, 0, n)
        BY <2>1 DEF Leads
    <2>3. <<>> \in T[0] /\ 0 <= n
      <3>1. T[0] = Seq(S) /\ 0 <= n
          BY <1>1, <1>3
      <3>2. QED
          BY <3>1, EmptySeq
    <2>4. QED
        BY <1>1, <2>2, <2>3, Recursion
  <1>5. Filters(f)
    <2>1. f = [k \in 0 .. n |-> f[k]] /\ f[0] = <<>>
        BY <1>4 DEF IsRun
    <2>2. ASSUME NEW k \in 0 .. n, k # 0
          PROVE  f[k] = IF k \in gone THEN f[k - 1]
                        ELSE Append(f[k - 1], array[k])
      <3>1. k \in 0 + 1 .. n /\ k - 1 \in 0 .. n
          BY <1>1, <2>2
      <3>2. f[k] = F[k][f[k - 1]] /\ f[k - 1] \in T[k - 1]
          BY <1>4, <3>1 DEF IsRun
      <3>3. QED
          BY <1>3, <3>1, <3>2
    <2>3. \A k \in 0 .. n :
              f[k] = IF k = 0 THEN <<>> ELSE IF k \in gone THEN f[k - 1]
                     ELSE Append(f[k - 1], array[k])
        BY <2>1, <2>2
    <2>4. QED
        BY <2>1, <2>3
  <1>6. Filters(kept)
      BY <1>5
  <1> HIDE DEF kept
  <1>7. \A k \in 0 .. n :
            kept[k] = IF k = 0 THEN <<>> ELSE IF k \in gone THEN kept[k - 1]
                      ELSE Append(kept[k - 1], array[k])
      BY <1>6
  <1> HIDE DEF Filters
  <1>8. kept[0] = <<>> /\ \A k \in 1 .. n :
            kept[k] = IF k \in gone THEN kept[k - 1]
                      ELSE Append(kept[k - 1], array[k])
    <2>1. 0 \in 0 .. n /\ \A k \in 1 .. n : k \in 0 .. n /\ k # 0
        BY <1>1
    <2>2. QED
        BY <1>7, <2>1
  <1>9. QED
      BY <1>2, <1>8 DEF Keeps, n

\* When a delivery ends, what is marked leaves the array.
LEMMA WithoutIntact ==
  ASSUME NEW S, NEW array \in Seq(S), NEW want, NEW held,
         Intact(array, want, held), NEW gone,
         gone = {i \in DOMAIN array : array[i].remove}
  PROVE  /\ Without(array, gone) \in Seq(S)
         /\ Intact(Without(array, gone), want, FALSE)
  <1> DEFINE n == Len(array)
             Until(k) ==
                 {array[i].callback : i \in {j \in 1 .. k : j \notin gone}}
  <1>1. PICK kept : /\ Keeps(kept, array, gone)
                    /\ Without(array, gone) = kept[n]
      BY WithoutIs
  <1>2. /\ n \in Nat /\ DOMAIN array = 1 .. n
        /\ \A k \in 1 .. n : array[k] \in S /\ (k \in gone <=> array[k].remove)
      OBVIOUS
  <1> DEFINE Good(k) == kept[k] \in Seq(S) /\ Intact(kept[k], Until(k), FALSE)
             X == {k \in 0 .. n : Good(k)}
  <1>3. 0 \in X
    <2>1. kept[0] = <<>> /\ Until(0) = {}
        BY <1>1 DEF Keeps
    <2>2. Intact(<<>>, {}, FALSE)
        BY DEF Intact, Distinct, Unmarked, StillConnected
    <2>3. <<>> \in Seq(S)
        BY EmptySeq
    <2>4. Good(0)
        BY <2>1, <2>2, <2>3
    <2> HIDE DEF Good
    <2>5. QED
        BY <1>2, <2>4
  <1>4. ASSUME NEW k \in 0 + 1 .. n, k - 1 \in X PROVE k \in X
    <2>1. k \in 1 .. n /\ k - 1 \in 0 .. n /\ k \in 0 .. n
        BY <1>2
    <2>2. \A i : i \in 1 .. k <=> i \in 1 .. k - 1 \/ i = k
        BY <2>1, <1>2
    <2>3. CASE k \in gone
      <3>1. kept[k] = kept[k - 1]
          BY <1>1, <2>1, <2>3 DEF Keeps
      <3>2. Until(k) = Until(k - 1)
          BY <2>2, <2>3
      <3>3. Good(k - 1)
          BY <1>4
      <3>4. Good(k)
          BY <3>1, <3>2, <3>3
      <3> HIDE DEF Good
      <3>5. QED
          BY <2>1, <3>4
    <2>4. CASE k \notin gone
      <3>1. kept[k] = Append(kept[k - 1], array[k])
          BY <1>1, <2>1, <2>4 DEF Keeps
      <3>2. Until(k) = Until(k - 1) \cup {array[k].callback}
          BY <2>2, <2>4
      <3>3. kept[k - 1] \in Seq(S) /\ Intact(kept[k - 1], Until(k - 1), FALSE)
          BY <1>4
      <3>4. array[k].callback \notin Until(k - 1)
        <4>1. ASSUME NEW i \in 1 .. k - 1
              PROVE  array[i].callback # array[k].callback
          <5>1. i \in 1 .. n /\ i # k
              BY <1>2, <2>1
          <5>2. QED
              BY <1>2, <2>1, <5>1 DEF Intact, Distinct
        <4>2. QED
            BY <4>1
      <3>5. array[k] \in S /\ ~array[k].remove
          BY <1>2, <2>1, <2>4
      <3> HIDE DEF Until
      <3>6. \A i \in DOMAIN kept[k - 1] :
                kept[k - 1][i].callback # array[k].callback
          BY <3>3, <3>4, StillIs DEF Intact, Unmarked
      <3>7. Intact(Append(kept[k - 1], array[k]),
                   Until(k - 1) \cup {array[k].callback}, FALSE)
          BY <3>3, <3>5, <3>6, AppendIntact
      <3>8. kept[k] \in Seq(S)
          BY <3>1, <3>3, <3>5
      <3>9. Good(k)
          BY <3>1, <3>2, <3>7, <3>8
      <3> HIDE DEF Good
      <3>10. QED
          BY <2>1, <3>9
    <2>5. QED
        BY <2>3, <2>4
  <1>5. n \in X
    <2> HIDE DEF X, n
    <2>1. \A k \in 0 .. n : k \in X
        BY <1>2, <1>3, <1>4, Induct
    <2>2. QED
        BY <1>2, <2>1
  <1>6. Until(n) = want
    <2>1. \A c : c \in Until(n) <=>
                     \E i \in 1 .. n : i \notin gone /\ array[i].callback = c
        OBVIOUS
    <2>2. \A c : c \in want <=>
                     \E i \in 1 .. n : ~array[i].remove /\ array[i].callback = c
        BY <1>2, StillIs DEF Intact
    <2> HIDE DEF Until
    <2>3. \A c : c \in Until(n) <=> c \in want
        BY <1>2, <2>1, <2>2, Zenon
    <2>4. QED
        BY <2>3
  <1>7. QED
      BY <1>1, <1>5, <1>6

-----------------------------------------------------------------------------
(* Signals: what a step makes of a delivery                                 *)

\* The types of the two kinds of callbacks, and of what is called.
SignalType == [callback : SignalCallbacks, remove : BOOLEAN]
GlobalType == [callback : GlobalCallbacks, signaling : Nat, remove : BOOLEAN]
Called == SignalCallbacks \cup GlobalCallbacks

\* A delivery that has called nothing follows any array.
LEMMA BeginFollows ==
  ASSUME NEW S, NEW array \in Seq(S), NEW d,
         d.next = 1, d.called = <<>>, ~d.running
  PROVE  Follows(array, d) /\ IsInjective(d.called)
  BY DEF Follows, IsInjective, ToSet

\* A callback that is to be removed is passed over.
LEMMA PassFollows ==
  ASSUME NEW S, NEW array \in Seq(S), NEW d, NEW e, Follows(array, d),
         d.next <= Len(array), array[d.next].remove,
         e.next = d.next + 1, e.called = d.called, ~e.running
  PROVE  Follows(array, e)
  <1>1. /\ Len(array) \in Nat /\ d.next \in 1 .. Len(array) + 1
      BY DEF Follows
  <1>2. /\ e.next \in 1 .. Len(array) + 1
        /\ \A i : i \in 1 .. e.next - 1 <=> i \in 1 .. d.next - 1 \/ i = d.next
      BY <1>1
  <1>3. QED
      BY <1>2 DEF Follows

\* What is called once more, at the end.
LEMMA ToSetAppend ==
  ASSUME NEW S, NEW seq \in Seq(S), NEW c \in S
  PROVE  /\ ToSet(Append(seq, c)) = ToSet(seq) \cup {c}
         /\ IsInjective(seq) /\ c \notin ToSet(seq) =>
                IsInjective(Append(seq, c))
         /\ Append(seq, c) # <<>> /\ Last(Append(seq, c)) = c
  <1> DEFINE n == Len(seq)
             longer == Append(seq, c)
  <1>1. /\ n \in Nat /\ DOMAIN seq = 1 .. n /\ DOMAIN longer = 1 .. n + 1
        /\ longer[n + 1] = c /\ \A i \in 1 .. n : longer[i] = seq[i]
        /\ Len(longer) = n + 1 /\ longer # <<>>
      OBVIOUS
  <1> HIDE DEF n, longer
  <1>2. \A i : i \in 1 .. n + 1 <=> i \in 1 .. n \/ i = n + 1
      BY <1>1
  <1>3. ToSet(longer) = ToSet(seq) \cup {c}
      BY <1>1, <1>2 DEF ToSet
  <1>4. IsInjective(seq) /\ c \notin ToSet(seq) => IsInjective(longer)
      BY <1>1, <1>2 DEF ToSet, IsInjective
  <1>5. Last(longer) = c
      BY <1>1 DEF Last
  <1>6. QED
      BY <1>1, <1>3, <1>4, <1>5 DEF longer

\* A callback that is called was not called before.
LEMMA CallFollows ==
  ASSUME NEW S, NEW array \in Seq(S), NEW C, NEW d, NEW e, Follows(array, d),
         Distinct(array), d.called \in Seq(C), IsInjective(d.called),
         d.next <= Len(array), array[d.next].callback \in C,
         e.next = d.next + 1,
         e.called = Append(d.called, array[d.next].callback)
  PROVE  Follows(array, e) /\ IsInjective(e.called)
  <1> DEFINE c == array[d.next].callback
  <1>1. /\ Len(array) \in Nat /\ d.next \in 1 .. Len(array) + 1
      BY DEF Follows
  <1>2. /\ e.next \in 1 .. Len(array) + 1 /\ e.next > 1 /\ e.next - 1 = d.next
        /\ \A i : i \in 1 .. e.next - 1 <=> i \in 1 .. d.next - 1 \/ i = d.next
        /\ d.next \in DOMAIN array
        /\ \A i \in 1 .. d.next - 1 : i \in DOMAIN array /\ i # d.next
      BY <1>1
  <1>3. c \notin ToSet(d.called)
      BY <1>2 DEF Follows, Distinct
  <1>4. /\ ToSet(e.called) = ToSet(d.called) \cup {c}
        /\ IsInjective(e.called) /\ e.called # <<>> /\ Last(e.called) = c
      BY <1>3, ToSetAppend
  <1>5. QED
      BY <1>2, <1>4 DEF Follows

\* A callback that returns leaves the delivery where it is.
LEMMA ReturnFollows ==
  ASSUME NEW array, NEW d, NEW e, Follows(array, d),
         e.next = d.next, e.called = d.called, e.running => d.running
  PROVE  Follows(array, e)
  BY DEF Follows

\* A delivery that has passed the last callback has called all that stay.
LEMMA EndReaches ==
  ASSUME NEW S, NEW array \in Seq(S), NEW d, Follows(array, d),
         d.next > Len(array), NEW want, NEW held, Intact(array, want, held),
         d.due \subseteq want
  PROVE  d.due \subseteq ToSet(d.called)
  <1>1. /\ Len(array) \in Nat /\ d.next - 1 = Len(array)
        /\ DOMAIN array = 1 .. Len(array)
      BY DEF Follows
  <1>2. ASSUME NEW c \in d.due PROVE c \in ToSet(d.called)
    <2>1. PICK i \in DOMAIN array : ~array[i].remove /\ array[i].callback = c
        BY StillIs DEF Intact
    <2>2. QED
        BY <1>1, <2>1 DEF Follows
  <1>3. QED
      BY <1>2

\* The states that a thread is in, between steps.
LEMMA DeliveryIs ==
  ASSUME SignalInv, NEW t \in SignalThreads, deliveries[t] # <<>>
  PROVE  \E d \in DeliveryType :
             /\ deliveries[t] = <<d>> /\ Last(deliveries[t]) = d
             /\ Front(deliveries[t]) = <<>>
             /\ Going(d, current[t], TheArrays, wanted)
             /\ \A a : In(deliveries[t], a) <=> d.in = a
             /\ \A a : Holds(t, a) <=> d.in = a
  <1>1. PICK seq : seq = deliveries[t]
      OBVIOUS
  <1>2. /\ seq \in Seq(DeliveryType) /\ seq # <<>>
        /\ seq = <<seq[1]>> /\ Going(seq[1], current[t], TheArrays, wanted)
      BY <1>1 DEF SignalInv, SignalsTypeOK, Fine
  <1>3. PICK d \in DeliveryType : d = seq[1]
      BY <1>2
  <1>4. seq = <<d>> /\ Len(seq) = 1 /\ DOMAIN seq = {1} /\ seq[1] = d
      BY <1>2, <1>3
  <1>5. Last(seq) = d /\ Front(seq) = <<>>
      BY <1>4 DEF Last, Front
  <1>6. \A a : In(seq, a) <=> d.in = a
      BY <1>2, <1>3 DEF In
  <1>7. \A a : Holds(t, a) <=> d.in = a
      BY <1>1, <1>4 DEF Holds
  <1>8. QED
      BY <1>1, <1>2, <1>3, <1>4, <1>5, <1>6, <1>7

\* Holding a mutex is being in the array.
LEMMA HoldsIs ==
  ASSUME SignalInv, NEW t \in SignalThreads, NEW a
  PROVE  Holds(t, a) <=> In(deliveries[t], a)
  <1>1. CASE deliveries[t] = <<>>
      BY <1>1 DEF Holds, In
  <1>2. CASE deliveries[t] # <<>>
      BY <1>2, DeliveryIs
  <1>3. QED
      BY <1>1, <1>2

\* What thread t changes: its delivery and its pointers, and one array that
\* nobody else holds.
Changes(t, a, seq, cur, w) ==
    /\ deliveries' = [deliveries EXCEPT ![t] = seq]
    /\ current' = [current EXCEPT ![t] = cur]
    /\ wanted' = [wanted EXCEPT ![a] = w]
    /\ seq \in Seq(DeliveryType) /\ cur \in [Arrays -> Nat]
    /\ w \subseteq Called /\ calls' \in Nat
    /\ \A u \in SignalThreads \ {t} : ~In(deliveries[u], a)
    /\ \A b \in Arrays \ {a} : In(seq, b) <=> In(deliveries[t], b)

\* The array that it changes, and what is known of the other one.
Alters(t, a, seq, cur, array) ==
    IF a = "signal"
    THEN /\ callbacks' = array /\ array \in Seq(SignalType)
         /\ UNCHANGED global_callbacks
         /\ cur["global"] = current[t]["global"]
         /\ signalling' \in BOOLEAN
         /\ signalling' <=> In(seq, "signal")
    ELSE /\ global_callbacks' = array /\ array \in Seq(GlobalType)
         /\ UNCHANGED <<callbacks, signalling>>
         /\ \A i \in DOMAIN array :
                array[i].signaling = IF cur["global"] = i THEN 1 ELSE 0

\* A step of a thread is right when it is right for its delivery and its array.
LEMMA StepKeeps ==
  ASSUME SignalInv, NEW t \in SignalThreads, NEW a \in Arrays,
         NEW seq, NEW cur, NEW w, NEW array,
         Changes(t, a, seq, cur, w), Alters(t, a, seq, cur, array),
         Fine(seq, cur, [TheArrays EXCEPT ![a] = array],
              [wanted EXCEPT ![a] = w]),
         Intact(array, w, In(seq, a))
  PROVE  SignalInv'
  <1>1. /\ deliveries \in [SignalThreads -> Seq(DeliveryType)]
        /\ current \in [SignalThreads -> [Arrays -> Nat]]
        /\ wanted \in [Arrays -> SUBSET Called]
        /\ callbacks \in Seq(SignalType) /\ signalling \in BOOLEAN
        /\ global_callbacks \in Seq(GlobalType)
      BY DEF SignalInv, SignalsTypeOK, SignalType, GlobalType, Called
  <1>2. /\ deliveries' \in [SignalThreads -> Seq(DeliveryType)]
        /\ current' \in [SignalThreads -> [Arrays -> Nat]]
        /\ wanted' \in [Arrays -> SUBSET Called]
        /\ deliveries'[t] = seq /\ current'[t] = cur /\ wanted'[a] = w
        /\ \A u \in SignalThreads \ {t} :
               deliveries'[u] = deliveries[u] /\ current'[u] = current[u]
        /\ \A b \in Arrays \ {a} : wanted'[b] = wanted[b]
      BY <1>1 DEF Changes
  <1>3. SignalsTypeOK'
    <2>1. /\ callbacks' \in Seq(SignalType) /\ signalling' \in BOOLEAN
          /\ global_callbacks' \in Seq(GlobalType)
        BY <1>1 DEF Alters
    <2>2. calls' \in Nat
        BY DEF Changes
    <2>3. QED
        BY <1>2, <2>1, <2>2, Zenon
           DEF SignalsTypeOK, SignalType, GlobalType, Called, DeliveryType
  <1>4. /\ Arrays = {"signal", "global"} /\ "signal" # "global"
        /\ Array("signal") = callbacks /\ Array("global") = global_callbacks
        /\ Array("signal")' = callbacks' /\ Array("global")' = global_callbacks'
      BY DEF Arrays, Array
  <1>5. /\ Array(a)' = array
        /\ \A b \in Arrays \ {a} : Array(b)' = Array(b)
    <2>1. CASE a = "signal"
      <3>1. callbacks' = array /\ global_callbacks' = global_callbacks
          BY <2>1 DEF Alters
      <3>2. \A b \in Arrays \ {a} : b = "global"
          BY <1>4, <2>1
      <3>3. QED
          BY <1>4, <2>1, <3>1, <3>2, Zenon
    <2>2. CASE a = "global"
      <3>1. global_callbacks' = array /\ callbacks' = callbacks
          BY <1>4, <2>2 DEF Alters
      <3>2. \A b \in Arrays \ {a} : b = "signal"
          BY <1>4, <2>2
      <3>3. QED
          BY <1>4, <2>2, <3>1, <3>2, Zenon
    <2>3. QED
        BY <1>4, <2>1, <2>2
  <1>6. /\ TheArrays' = [TheArrays EXCEPT ![a] = array]
        /\ \A b \in Arrays \ {a} : TheArrays'[b] = TheArrays[b]
    <2>1. PICK olds : olds = TheArrays
        OBVIOUS
    <2>2. PICK news : news = TheArrays'
        OBVIOUS
    <2>3. olds = [b \in Arrays |-> Array(b)]
        BY <2>1 DEF TheArrays
    <2>4. news = [b \in Arrays |-> Array(b)']
        BY <2>2 DEF TheArrays
    <2>5. news = [olds EXCEPT ![a] = array]
        BY <1>5, <2>3, <2>4
    <2>6. \A b \in Arrays \ {a} : news[b] = olds[b]
        BY <2>3, <2>5
    <2>7. QED
        BY <2>1, <2>2, <2>5, <2>6
  <1>7. wanted' = [wanted EXCEPT ![a] = w]
      BY DEF Changes
  <1>8. ASSUME NEW u \in SignalThreads
        PROVE  Fine(deliveries'[u], current'[u], TheArrays', wanted')
    <2>1. CASE u = t
        BY <1>2, <1>6, <1>7, <2>1
    <2>2. CASE u # t
      <3>1. Fine(deliveries[u], current[u], TheArrays, wanted)
          BY DEF SignalInv
      <3>2. deliveries'[u] = deliveries[u] /\ current'[u] = current[u]
          BY <1>2, <2>2
      <3>3. CASE deliveries[u] = <<>>
          BY <3>1, <3>2, <3>3 DEF Fine
      <3>4. CASE deliveries[u] # <<>>
        <4>1. PICK d \in DeliveryType :
                  /\ deliveries[u] = <<d>>
                  /\ Going(d, current[u], TheArrays, wanted)
                  /\ \A b : In(deliveries[u], b) <=> d.in = b
            BY <3>4, DeliveryIs
        <4>2. d.in # a
            BY <2>2, <4>1 DEF Changes
        <4>3. d.in \in Arrays \cup {"between"}
            BY DEF DeliveryType
        <4>4. d.in # "between" =>
                  /\ TheArrays'[d.in] = TheArrays[d.in]
                  /\ wanted'[d.in] = wanted[d.in]
            BY <1>2, <1>6, <4>2, <4>3
        <4>5. Going(d, current[u], TheArrays', wanted')
            BY <4>1, <4>4 DEF Going
        <4>6. <<d>>[1] = d /\ <<d>> # <<>>
            OBVIOUS
        <4>7. QED
            BY <3>2, <4>1, <4>5, <4>6 DEF Fine
      <3>5. QED
          BY <3>3, <3>4
    <2>3. QED
        BY <2>1, <2>2
  <1>9. ASSUME NEW b \in Arrays, NEW u \in SignalThreads, b # a
        PROVE  In(deliveries'[u], b) <=> In(deliveries[u], b)
    <2>1. CASE u = t
        BY <1>2, <1>9, <2>1 DEF Changes
    <2>2. CASE u # t
        BY <1>2, <2>2
    <2>3. QED
        BY <2>1, <2>2
  <1>10. ASSUME NEW u \in SignalThreads
         PROVE  In(deliveries'[u], a) <=> u = t /\ In(seq, a)
    <2>1. CASE u = t
        BY <1>2, <2>1
    <2>2. CASE u # t
        BY <1>2, <2>2 DEF Changes
    <2>3. QED
        BY <2>1, <2>2
  <1>11. ASSUME NEW b \in Arrays, NEW u \in SignalThreads,
                NEW v \in SignalThreads,
                In(deliveries'[u], b), In(deliveries'[v], b)
         PROVE  u = v
    <2>1. CASE b = a
        BY <1>10, <1>11, <2>1
    <2>2. CASE b # a
      <3>1. In(deliveries[u], b) /\ In(deliveries[v], b)
          BY <1>9, <1>11, <2>2
      <3>2. QED
          BY <3>1 DEF SignalInv
    <2>3. QED
        BY <2>1, <2>2
  <1>12. ASSUME NEW b \in Arrays
         PROVE  Intact(Array(b)', wanted'[b],
                       \E u \in SignalThreads : In(deliveries'[u], b))
    <2>1. CASE b = a
      <3>1. In(seq, a) <=> \E u \in SignalThreads : In(deliveries'[u], a)
          BY <1>10
      <3>2. Distinct(array) /\ StillConnected(array) = w
          BY DEF Intact
      <3>3. (\E u \in SignalThreads : In(deliveries'[u], a)) \/ Unmarked(array)
          BY <3>1 DEF Intact
      <3>4. QED
          BY <1>2, <1>5, <2>1, <3>2, <3>3 DEF Intact
    <2>2. CASE b # a
      <3>1. Intact(Array(b), wanted[b],
                   \E u \in SignalThreads : In(deliveries[u], b))
          BY DEF SignalInv
      <3>2. (\E u \in SignalThreads : In(deliveries[u], b)) =>
                \E u \in SignalThreads : In(deliveries'[u], b)
          BY <1>9, <2>2
      <3>3. Array(b)' = Array(b) /\ wanted'[b] = wanted[b]
          BY <1>2, <1>5, <2>2
      <3>4. QED
          BY <3>1, <3>2, <3>3 DEF Intact
    <2>3. QED
        BY <2>1, <2>2
  <1>13. signalling' <=> \E u \in SignalThreads : In(deliveries'[u], "signal")
    <2>1. CASE a = "signal"
        BY <1>10, <2>1 DEF Alters
    <2>2. CASE a # "signal"
      <3>1. signalling' = signalling
          BY <2>2 DEF Alters
      <3>2. \A u \in SignalThreads :
                In(deliveries'[u], "signal") <=> In(deliveries[u], "signal")
          BY <1>4, <1>9, <2>2
      <3>3. QED
          BY <3>1, <3>2 DEF SignalInv
    <2>3. QED
        BY <2>1, <2>2
  <1>14. ASSUME NEW i \in DOMAIN global_callbacks'
         PROVE  global_callbacks'[i].signaling =
                    IF \E u \in SignalThreads : current'[u]["global"] = i
                    THEN 1 ELSE 0
    <2>1. CASE a = "signal"
      <3>1. /\ global_callbacks' = global_callbacks
            /\ cur["global"] = current[t]["global"]
          BY <2>1 DEF Alters
      <3>2. \A u \in SignalThreads :
                current'[u]["global"] = current[u]["global"]
          BY <1>2, <3>1
      <3>3. QED
          BY <3>1, <3>2 DEF SignalInv, IsCounted
    <2>2. CASE a # "signal"
      <3>1. /\ global_callbacks' = array
            /\ array[i].signaling = IF cur["global"] = i THEN 1 ELSE 0
          BY <2>2 DEF Alters
      <3>2. i # 0
          BY <1>1, <2>2 DEF Alters
      <3>3. ASSUME NEW u \in SignalThreads, u # t
            PROVE  current'[u]["global"] = 0
        <4>1. Fine(deliveries[u], current[u], TheArrays, wanted)
              /\ ~In(deliveries[u], "global")
            BY <1>4, <2>2, <3>3 DEF SignalInv, Changes
        <4>2. current[u]["global"] = 0
            BY <1>4, <4>1 DEF Fine, Going, Nowhere, In
        <4>3. QED
            BY <1>2, <3>3, <4>2
      <3>4. (\E u \in SignalThreads : current'[u]["global"] = i)
                <=> cur["global"] = i
          BY <1>2, <3>2, <3>3
      <3>5. QED
          BY <3>1, <3>4
    <2>3. QED
        BY <2>1, <2>2
  <1>15. QED
    <2>1. \A u \in SignalThreads :
              Fine(deliveries'[u], current'[u], TheArrays', wanted')
        BY <1>8
    <2>2. \A b \in Arrays : \A u, v \in SignalThreads :
              In(deliveries'[u], b) /\ In(deliveries'[v], b) => u = v
        BY <1>11
    <2>3. QED
        BY <1>3, <1>12, <1>13, <1>14, <2>1, <2>2, Zenon DEF SignalInv, IsCounted

\* What thread t is in, when it connects or disconnects callbacks of array a:
\* nothing, or a callback.
LEMMA CallerIs ==
  ASSUME SignalInv, NEW t \in SignalThreads, MayCall(t)
  PROVE  /\ calls' \in Nat
         /\ \/ deliveries[t] = <<>> /\ current[t] = Nowhere
            \/ \E d \in DeliveryType :
                   /\ deliveries[t] = <<d>> /\ Last(deliveries[t]) = d
                   /\ d.running /\ d.in \in Arrays
                   /\ Going(d, current[t], TheArrays, wanted)
  <1>1. calls' \in Nat
      BY DEF MayCall, SignalInv, SignalsTypeOK
  <1>2. CASE deliveries[t] = <<>>
      BY <1>1, <1>2 DEF SignalInv, Fine
  <1>3. CASE deliveries[t] # <<>>
    <2>1. PICK d \in DeliveryType :
              /\ deliveries[t] = <<d>> /\ Last(deliveries[t]) = d
              /\ Going(d, current[t], TheArrays, wanted)
        BY <1>3, DeliveryIs
    <2>2. d.running
        BY <1>3, <2>1 DEF MayCall
    <2>3. d.in \in Arrays
        BY <2>1, <2>2 DEF Going, DeliveryType
    <2>4. QED
        BY <1>1, <2>1, <2>2, <2>3
  <1>4. QED
      BY <1>2, <1>3

\* Nobody else holds a mutex that can be taken.
LEMMA LockIs ==
  ASSUME SignalInv, NEW t \in SignalThreads, NEW a, MayLock(t, a)
  PROVE  \A u \in SignalThreads \ {t} : ~In(deliveries[u], a)
  BY HoldsIs DEF MayLock

\* The delivery of t, when it is in an array, need not reach callback c.
Spared(seq, a, c) ==
    IF In(seq, a) THEN <<[seq[1] EXCEPT !.due = @ \ {c}]>> ELSE seq

\* A disconnected callback matters to the delivery of the caller only.
LEMMA UnwantIs ==
  ASSUME SignalInv, NEW t \in SignalThreads, NEW a \in Arrays, NEW c,
         Unwant(a, c), \A u \in SignalThreads \ {t} : ~In(deliveries[u], a)
  PROVE  /\ wanted' = [wanted EXCEPT ![a] = wanted[a] \ {c}]
         /\ deliveries' = [deliveries EXCEPT ![t] = Spared(deliveries[t], a, c)]
         /\ Spared(deliveries[t], a, c) \in Seq(DeliveryType)
         /\ \A b : In(Spared(deliveries[t], a, c), b) <=> In(deliveries[t], b)
         /\ wanted[a] \ {c} \subseteq Called
  <1>1. /\ deliveries \in [SignalThreads -> Seq(DeliveryType)]
        /\ wanted \in [Arrays -> SUBSET Called]
      BY DEF SignalInv, SignalsTypeOK, Called
  <1>2. wanted' = [wanted EXCEPT ![a] = wanted[a] \ {c}]
      BY <1>1 DEF Unwant
  <1> DEFINE Less(seq) == [i \in DOMAIN seq |->
                              IF seq[i].in = a
                              THEN [seq[i] EXCEPT !.due = @ \ {c}] ELSE seq[i]]
  <1>3. deliveries' = [u \in SignalThreads |-> Less(deliveries[u])]
      BY Zenon DEF Unwant
  <1>4. ASSUME NEW u \in SignalThreads
        PROVE  /\ Less(deliveries[u]) = Spared(deliveries[u], a, c)
               /\ Spared(deliveries[u], a, c) \in Seq(DeliveryType)
               /\ \A b : In(Spared(deliveries[u], a, c), b)
                             <=> In(deliveries[u], b)
    <2>1. PICK seq \in Seq(DeliveryType) : seq = deliveries[u]
        BY <1>1
    <2>2. CASE seq = <<>>
      <3>1. Less(seq) = <<>>
          BY <2>2
      <3>2. ~In(seq, a) /\ Spared(seq, a, c) = seq
          BY <2>2 DEF In, Spared
      <3>3. QED
          BY <2>1, <2>2, <3>1, <3>2
    <2>3. CASE seq # <<>>
      <3>0. deliveries[u] # <<>>
          BY <2>1, <2>3
      <3>1. PICK d \in DeliveryType : /\ seq = <<d>>
                                      /\ \A b : In(seq, b) <=> d.in = b
          BY Zenon, <2>1, <3>0, DeliveryIs
      <3>2. PICK e : e = [d EXCEPT !.due = @ \ {c}]
          OBVIOUS
      <3>3. e \in DeliveryType /\ e.in = d.in
          BY <3>2 DEF DeliveryType
      <3>4. CASE d.in = a
        <4>1. Less(seq) = <<e>>
            BY <3>1, <3>2, <3>4
        <4>2. Spared(seq, a, c) = <<e>>
            BY <3>1, <3>2, <3>4 DEF Spared
        <4>3. \A b : In(<<e>>, b) <=> d.in = b
            BY <3>3 DEF In
        <4>4. <<e>> \in Seq(DeliveryType)
            BY <3>3
        <4>5. QED
            BY <2>1, <3>1, <4>1, <4>2, <4>3, <4>4
      <3>5. CASE d.in # a
        <4>1. Less(seq) = seq
            BY <3>1, <3>5
        <4>2. Spared(seq, a, c) = seq
            BY <3>1, <3>5 DEF Spared
        <4>3. QED
            BY <2>1, <4>1, <4>2
      <3>6. QED
          BY <3>4, <3>5
    <2>4. QED
        BY <2>2, <2>3
  <1>5. \A u \in SignalThreads \ {t} :
            Spared(deliveries[u], a, c) = deliveries[u]
      BY DEF Spared
  <1>6. deliveries' = [u \in SignalThreads |-> Spared(deliveries[u], a, c)]
    <2>1. \A u \in SignalThreads :
              Less(deliveries[u]) = Spared(deliveries[u], a, c)
        BY <1>4
    <2> HIDE DEF Less
    <2>2. QED
        BY <1>3, <2>1
  <1>7. deliveries' = [deliveries EXCEPT ![t] = Spared(deliveries[t], a, c)]
    <2>1. PICK f : f = [u \in SignalThreads |-> Spared(deliveries[u], a, c)]
        OBVIOUS
    <2>2. f = [deliveries EXCEPT ![t] = Spared(deliveries[t], a, c)]
        BY <1>1, <1>5, <2>1
    <2>3. QED
        BY <1>6, <2>1, <2>2
  <1>8. wanted[a] \ {c} \subseteq Called
      BY <1>1
  <1>9. QED
      BY <1>2, <1>4, <1>7, <1>8

\* What a call makes of array a leaves the delivery of its caller right.
LEMMA CallerFine ==
  ASSUME SignalInv, NEW t \in SignalThreads, NEW a \in Arrays, NEW c,
         NEW array, Grown(Array(a), array) \/ ~In(deliveries[t], a),
         NEW w, NEW seq,
         \/ w = wanted[a] \cup {c} /\ seq = deliveries[t]
         \/ w = wanted[a] \ {c} /\ seq = Spared(deliveries[t], a, c)
  PROVE  Fine(seq, current[t], [TheArrays EXCEPT ![a] = array],
              [wanted EXCEPT ![a] = w])
  <1>1. Fine(deliveries[t], current[t], TheArrays, wanted)
      BY DEF SignalInv
  <1>2. CASE deliveries[t] = <<>>
    <2>1. seq = <<>>
        BY <1>2 DEF Spared, In
    <2>2. QED
        BY <1>1, <1>2, <2>1 DEF Fine
  <1>3. CASE deliveries[t] # <<>>
    <2>1. PICK d \in DeliveryType :
              /\ deliveries[t] = <<d>>
              /\ Going(d, current[t], TheArrays, wanted)
              /\ \A b : In(deliveries[t], b) <=> d.in = b
        BY <1>3, DeliveryIs
    <2>2. PICK arrays : arrays = [TheArrays EXCEPT ![a] = array]
        OBVIOUS
    <2>3. PICK wants : wants = [wanted EXCEPT ![a] = w]
        OBVIOUS
    <2>4. /\ arrays[a] = array /\ wants[a] = w /\ TheArrays[a] = Array(a)
          /\ \A b \in Arrays \ {a} :
                 arrays[b] = TheArrays[b] /\ wants[b] = wanted[b]
        BY <2>2, <2>3 DEF TheArrays, SignalInv, SignalsTypeOK
    <2>5. d.in \in Arrays \cup {"between"} /\ "between" \notin Arrays
        BY DEF DeliveryType, Arrays
    <2>6. PICK e : /\ seq = <<e>>
                   /\ e.in = d.in /\ e.next = d.next /\ e.running = d.running
                   /\ e.called = d.called
                   /\ e.due \subseteq d.due
                   /\ e.in = a => e.due \subseteq w
      <3>1. d.in = a => d.due \subseteq wanted[a]
          BY <2>1, <2>5 DEF Going
      <3>2. CASE seq = deliveries[t] /\ (d.in # a \/ w = wanted[a] \cup {c})
          BY <2>1, <3>1, <3>2
      <3>3. CASE seq = <<[d EXCEPT !.due = @ \ {c}]>> /\ w = wanted[a] \ {c}
        <4>1. PICK f : f = [d EXCEPT !.due = @ \ {c}]
            OBVIOUS
        <4>2. /\ f.in = d.in /\ f.next = d.next /\ f.running = d.running
              /\ f.called = d.called /\ f.due = d.due \ {c}
            BY <4>1 DEF DeliveryType
        <4>3. QED
            BY <3>1, <3>3, <4>1, <4>2
      <3>4. Spared(deliveries[t], a, c) =
                IF d.in = a THEN <<[d EXCEPT !.due = @ \ {c}]>>
                ELSE deliveries[t]
          BY <2>1 DEF Spared
      <3>5. QED
          BY <3>2, <3>3, <3>4
    <2>7. d.in # "between" => Follows(arrays[d.in], d)
      <3>1. CASE d.in = a
        <4>1. Follows(Array(a), d) /\ Grown(Array(a), array)
            BY <2>1, <2>4, <2>5, <3>1 DEF Going
        <4>2. QED
            BY <2>4, <3>1, <4>1, GrownFollows
      <3>2. CASE d.in # a
          BY <2>1, <2>4, <2>5, <3>2 DEF Going
      <3>3. QED
          BY <3>1, <3>2
    <2>8. Going(e, current[t], arrays, wants)
      <3>1. /\ IsInjective(e.called)
            /\ current[t] = [b \in Arrays |-> IF e.running /\ e.in = b
                                              THEN e.next - 1 ELSE 0]
            /\ e.in = "between" => ~e.running
                                   /\ e.due \subseteq ToSet(e.called)
          BY <2>1, <2>6 DEF Going
      <3>2. ASSUME e.in # "between"
            PROVE  Follows(arrays[e.in], e) /\ e.due \subseteq wants[e.in]
        <4>1. Follows(arrays[e.in], e)
          <5>1. Follows(arrays[d.in], d)
              BY <2>6, <2>7, <3>2
          <5>2. QED
              BY <2>6, <5>1, ReturnFollows
        <4>2. CASE e.in = a
            BY <2>4, <2>6, <4>1, <4>2
        <4>3. CASE e.in # a
          <5>1. d.due \subseteq wanted[d.in]
              BY <2>1, <2>6, <3>2 DEF Going
          <5>2. QED
              BY <2>4, <2>5, <2>6, <3>2, <4>1, <4>3, <5>1
        <4>4. QED
            BY <4>2, <4>3
      <3>3. QED
          BY <3>1, <3>2 DEF Going
    <2>9. QED
      <3>1. seq # <<>> /\ seq[1] = e
          BY <2>6
      <3>2. QED
          BY <2>2, <2>3, <2>6, <2>8, <3>1 DEF Fine
  <1>4. QED
      BY <1>2, <1>3

-----------------------------------------------------------------------------
(* Signals: connecting and disconnecting                                    *)

\* Who is called by nobody else than t is counted by t.
LEMMA CountIs ==
  ASSUME SignalInv, NEW t \in SignalThreads,
         \A u \in SignalThreads \ {t} : ~In(deliveries[u], "global")
  PROVE  /\ \A i \in DOMAIN global_callbacks :
                global_callbacks[i].signaling =
                    IF current[t]["global"] = i THEN 1 ELSE 0
         /\ ~In(deliveries[t], "global") => current[t]["global"] = 0
  <1>1. ASSUME NEW u \in SignalThreads, ~In(deliveries[u], "global")
        PROVE  current[u]["global"] = 0
    <2>1. Fine(deliveries[u], current[u], TheArrays, wanted)
        BY DEF SignalInv
    <2>2. "global" \in Arrays
        BY DEF Arrays
    <2>3. QED
        BY <1>1, <2>1, <2>2 DEF Fine, Going, Nowhere, In
  <1>2. ASSUME NEW i \in DOMAIN global_callbacks
        PROVE  global_callbacks[i].signaling =
                   IF current[t]["global"] = i THEN 1 ELSE 0
    <2>1. i # 0
        BY DEF SignalInv, SignalsTypeOK
    <2>2. (\E u \in SignalThreads : current[u]["global"] = i)
              <=> current[t]["global"] = i
        BY <1>1, <2>1
    <2>3. QED
        BY <2>2 DEF SignalInv, IsCounted
  <1>3. QED
      BY <1>1, <1>2

\* A call keeps the invariant when it is right for the array that it is about.
LEMMA CallKeeps ==
  ASSUME SignalInv, NEW t \in SignalThreads, NEW a \in Arrays,
         NEW c \in Called, MayCall(t),
         \A u \in SignalThreads \ {t} : ~In(deliveries[u], a),
         UNCHANGED <<signalling, current>>,
         NEW array,
         IF a = "signal"
         THEN /\ callbacks' = array /\ array \in Seq(SignalType)
              /\ UNCHANGED global_callbacks
         ELSE /\ global_callbacks' = array /\ array \in Seq(GlobalType)
              /\ UNCHANGED callbacks
              /\ \A i \in DOMAIN array :
                     array[i].signaling =
                         IF current[t]["global"] = i THEN 1 ELSE 0,
         Grown(Array(a), array) \/ ~In(deliveries[t], a),
         NEW w,
         \/ w = wanted[a] \cup {c} /\ Want(a, c) /\ UNCHANGED deliveries
         \/ w = wanted[a] \ {c} /\ Unwant(a, c),
         Intact(array, w, In(deliveries[t], a))
  PROVE  SignalInv'
  <1>1. /\ deliveries \in [SignalThreads -> Seq(DeliveryType)]
        /\ current \in [SignalThreads -> [Arrays -> Nat]]
        /\ wanted \in [Arrays -> SUBSET Called] /\ signalling \in BOOLEAN
      BY DEF SignalInv, SignalsTypeOK, Called
  <1>2. calls' \in Nat
      BY CallerIs
  <1>3. /\ current' = [current EXCEPT ![t] = current[t]]
        /\ current[t] \in [Arrays -> Nat]
      BY <1>1
  <1>4. PICK seq : /\ deliveries' = [deliveries EXCEPT ![t] = seq]
                   /\ seq \in Seq(DeliveryType)
                   /\ \A b : In(seq, b) <=> In(deliveries[t], b)
                   /\ wanted' = [wanted EXCEPT ![a] = w] /\ w \subseteq Called
                   /\ \/ w = wanted[a] \cup {c} /\ seq = deliveries[t]
                      \/ w = wanted[a] \ {c} /\ seq = Spared(deliveries[t], a, c)
    <2>1. CASE w = wanted[a] \cup {c} /\ Want(a, c) /\ UNCHANGED deliveries
      <3>1. deliveries' = [deliveries EXCEPT ![t] = deliveries[t]]
          BY <1>1, <2>1
      <3>2. wanted' = [wanted EXCEPT ![a] = w] /\ w \subseteq Called
          BY <1>1, <2>1 DEF Want
      <3>3. QED
          BY <1>1, <2>1, <3>1, <3>2
    <2>2. CASE w = wanted[a] \ {c} /\ Unwant(a, c)
        BY <2>2, UnwantIs
    <2>3. QED
        BY <2>1, <2>2
  <1>5. Changes(t, a, seq, current[t], w)
      BY <1>2, <1>3, <1>4 DEF Changes
  <1>6. Alters(t, a, seq, current[t], array)
    <2>1. CASE a = "signal"
      <3>1. signalling <=> In(deliveries[t], "signal")
          BY <2>1 DEF SignalInv
      <3>2. QED
          BY <1>1, <1>4, <2>1, <3>1 DEF Alters
    <2>2. CASE a # "signal"
        BY <2>2 DEF Alters
    <2>3. QED
        BY <2>1, <2>2
  <1>7. Fine(seq, current[t], [TheArrays EXCEPT ![a] = array],
             [wanted EXCEPT ![a] = w])
      BY <1>4, CallerFine
  <1>8. Intact(array, w, In(seq, a))
      BY <1>4 DEF Intact
  <1>9. QED
      BY <1>5, <1>6, <1>7, <1>8, StepKeeps

\* What is known of an array that nobody else holds.
LEMMA ArrayIs ==
  ASSUME SignalInv, NEW t \in SignalThreads, NEW a \in Arrays,
         \A u \in SignalThreads \ {t} : ~In(deliveries[u], a)
  PROVE  /\ Intact(Array(a), wanted[a], In(deliveries[t], a))
         /\ Array("signal") = callbacks /\ callbacks \in Seq(SignalType)
         /\ Array("global") = global_callbacks
         /\ global_callbacks \in Seq(GlobalType)
         /\ wanted[a] \subseteq Called
         /\ a = "signal" => (signalling <=> In(deliveries[t], a))
  <1>1. Intact(Array(a), wanted[a],
               \E u \in SignalThreads : In(deliveries[u], a))
      BY DEF SignalInv
  <1>2. Intact(Array(a), wanted[a], In(deliveries[t], a))
      BY <1>1 DEF Intact
  <1>3. /\ Array("signal") = callbacks
        /\ Array("global") = global_callbacks
      BY DEF Array
  <1>4. /\ callbacks \in Seq(SignalType) /\ global_callbacks \in Seq(GlobalType)
        /\ wanted[a] \subseteq Called
      BY DEF SignalInv, SignalsTypeOK, SignalType, GlobalType, Called
  <1>5. a = "signal" => (signalling <=> In(deliveries[t], a))
      BY DEF SignalInv
  <1>6. QED
      BY <1>2, <1>3, <1>4, <1>5

\* An array stays when what is connected is in it.
LEMMA StayGrown ==
  ASSUME NEW S, NEW array \in Seq(S)
  PROVE  Grown(array, array)
  BY DEF Grown

\* signal_handler_connect
LEMMA ConnectKeeps ==
  ASSUME SignalInv, SignalRaces = {}, NEW t \in SignalThreads,
         NEW c \in SignalCallbacks, ConnectCallback(t, c)
  PROVE  SignalInv'
  <1>1. /\ MayCall(t) /\ MayLock(t, "signal") /\ Want("signal", c)
        /\ UNCHANGED <<signalling, global_callbacks, deliveries>>
        /\ c \in Called /\ "signal" \in Arrays
      BY DEF ConnectCallback, Called, Arrays
  <1>2. \A u \in SignalThreads \ {t} : ~In(deliveries[u], "signal")
      BY <1>1, LockIs
  <1>3. /\ Intact(callbacks, wanted["signal"], In(deliveries[t], "signal"))
        /\ Array("signal") = callbacks /\ callbacks \in Seq(SignalType)
      BY <1>1, <1>2, ArrayIs
  <1>4. PICK w : w = wanted["signal"] \cup {c}
      OBVIOUS
  <1>5. PICK array \in Seq(SignalType) :
            /\ callbacks' = array /\ UNCHANGED current
            /\ Grown(callbacks, array)
            /\ Intact(array, w, In(deliveries[t], "signal"))
    <2>1. CASE /\ Position(c) = 0 /\ Pushed(t, "signal")
               /\ callbacks' = Append(callbacks, [callback |-> c, remove |-> FALSE])
      <3>1. PICK e : e = [callback |-> c, remove |-> FALSE]
          OBVIOUS
      <3>2. e \in SignalType /\ ~e.remove /\ e.callback = c
          BY <3>1 DEF SignalType
      <3>3. \A i \in DOMAIN callbacks : callbacks[i].callback # c
          BY <1>3, <2>1, PositionFinds
      <3>4. Intact(Append(callbacks, e), w, In(deliveries[t], "signal"))
          BY <1>3, <1>4, <3>2, <3>3, AppendIntact
      <3>5. Append(callbacks, e) \in Seq(SignalType)
            /\ Grown(callbacks, Append(callbacks, e))
          BY <1>3, <3>2, AppendGrown
      <3>6. UNCHANGED current
          BY <2>1 DEF Pushed
      <3>7. QED
          BY <2>1, <3>1, <3>4, <3>5, <3>6
    <2>2. CASE /\ Position(c) # 0 /\ UNCHANGED <<callbacks, current>>
               /\ ~callbacks[Position(c)].remove \/ "reconnect" \in SignalRaces
      <3>1. /\ Position(c) \in DOMAIN callbacks
            /\ callbacks[Position(c)].callback = c
            /\ ~callbacks[Position(c)].remove
          BY <1>3, <2>2, PositionFinds
      <3>2. Intact(callbacks, w, In(deliveries[t], "signal"))
          BY <1>3, <1>4, <3>1, ConnectedIntact
      <3>3. QED
          BY <1>3, <2>2, <3>2, StayGrown
    <2>3. QED
        BY <2>1, <2>2, Zenon DEF ConnectCallback
  <1>6. QED
      BY <1>1, <1>2, <1>3, <1>4, <1>5, CallKeeps

\* One element of an array is changed.
LEMMA ElementIs ==
  ASSUME NEW S, NEW array \in Seq(S), NEW p \in DOMAIN array, NEW e \in S,
         NEW array2, array2 = [array EXCEPT ![p] = e]
  PROVE  /\ array2 \in Seq(S) /\ Len(array2) = Len(array)
         /\ DOMAIN array2 = DOMAIN array
         /\ \A i \in DOMAIN array : array2[i] = IF i = p THEN e ELSE array[i]
  <1>1. p \in 1 .. Len(array) /\ DOMAIN array = 1 .. Len(array)
      OBVIOUS
  <1>2. /\ [array EXCEPT ![p] = e] \in Seq(S)
        /\ Len([array EXCEPT ![p] = e]) = Len(array)
      BY <1>1, ExceptSeq
  <1>3. array2 \in Seq(S) /\ Len(array2) = Len(array)
      BY <1>2, Zenon
  <1>4. DOMAIN array2 = DOMAIN array
      BY <1>1, <1>3
  <1>5. QED
      BY <1>3, <1>4

\* How a callback of a signal is marked.
LEMMA SignalMarks ==
  ASSUME NEW array \in Seq(SignalType), NEW p \in DOMAIN array, NEW array2,
         array2 = [array EXCEPT ![p].remove = TRUE]
  PROVE  array2 \in Seq(SignalType) /\ Marks(array, array2, p)
  <1> DEFINE n == Len(array)
  <1>1. /\ n \in Nat /\ DOMAIN array = 1 .. n
        /\ \A i \in 1 .. n : array[i] \in SignalType
      OBVIOUS
  <1>2. PICK e : e = [array[p] EXCEPT !.remove = TRUE]
      OBVIOUS
  <1>3. e \in SignalType /\ e.callback = array[p].callback /\ e.remove
      BY <1>1, <1>2 DEF SignalType
  <1>4. array2 = [array EXCEPT ![p] = e]
      BY <1>2
  <1>5. /\ array2 \in Seq(SignalType) /\ Len(array2) = n
        /\ DOMAIN array2 = 1 .. n
        /\ \A i \in 1 .. n : array2[i] = IF i = p THEN e ELSE array[i]
    <2>1. e \in SignalType
        BY <1>3
    <2>2. /\ array2 \in Seq(SignalType) /\ Len(array2) = Len(array)
          /\ DOMAIN array2 = DOMAIN array
          /\ \A i \in DOMAIN array : array2[i] = IF i = p THEN e ELSE array[i]
        BY <1>4, <2>1, ElementIs
    <2>3. QED
        BY <1>1, <2>2
  <1>6. \A i \in 1 .. n : /\ array2[i].callback = array[i].callback
                          /\ array2[i].remove <=> array[i].remove \/ i = p
    <2>1. ASSUME NEW i \in 1 .. n
          PROVE  /\ array2[i].callback = array[i].callback
                 /\ array2[i].remove <=> array[i].remove \/ i = p
      <3>1. CASE i = p
          BY <1>3, <1>5, <3>1
      <3>2. CASE i # p
          BY <1>5, <3>2
      <3>3. QED
          BY <3>1, <3>2
    <2>2. QED
        BY <2>1
  <1>7. QED
      BY <1>1, <1>5, <1>6 DEF Marks

\* How a global callback is marked.
LEMMA GlobalMarks ==
  ASSUME NEW array \in Seq(GlobalType), NEW p \in DOMAIN array, NEW array2,
         array2 = [array EXCEPT ![p].remove = TRUE]
  PROVE  /\ array2 \in Seq(GlobalType) /\ Marks(array, array2, p)
         /\ \A i \in DOMAIN array : array2[i].signaling = array[i].signaling
  <1> DEFINE n == Len(array)
  <1>1. /\ n \in Nat /\ DOMAIN array = 1 .. n
        /\ \A i \in 1 .. n : array[i] \in GlobalType
      OBVIOUS
  <1>2. PICK e : e = [array[p] EXCEPT !.remove = TRUE]
      OBVIOUS
  <1>3. /\ e \in GlobalType /\ e.callback = array[p].callback /\ e.remove
        /\ e.signaling = array[p].signaling
      BY <1>1, <1>2 DEF GlobalType
  <1>4. array2 = [array EXCEPT ![p] = e]
      BY <1>2
  <1>5. /\ array2 \in Seq(GlobalType) /\ Len(array2) = n
        /\ DOMAIN array2 = 1 .. n
        /\ \A i \in 1 .. n : array2[i] = IF i = p THEN e ELSE array[i]
    <2>1. e \in GlobalType
        BY <1>3
    <2>2. /\ array2 \in Seq(GlobalType) /\ Len(array2) = Len(array)
          /\ DOMAIN array2 = DOMAIN array
          /\ \A i \in DOMAIN array : array2[i] = IF i = p THEN e ELSE array[i]
        BY <1>4, <2>1, ElementIs
    <2>3. QED
        BY <1>1, <2>2
  <1>6. \A i \in 1 .. n : /\ array2[i].callback = array[i].callback
                          /\ array2[i].signaling = array[i].signaling
                          /\ array2[i].remove <=> array[i].remove \/ i = p
    <2>1. ASSUME NEW i \in 1 .. n
          PROVE  /\ array2[i].callback = array[i].callback
                 /\ array2[i].signaling = array[i].signaling
                 /\ array2[i].remove <=> array[i].remove \/ i = p
      <3>1. CASE i = p
          BY <1>3, <1>5, <3>1
      <3>2. CASE i # p
          BY <1>5, <3>2
      <3>3. QED
          BY <3>1, <3>2
    <2>2. QED
        BY <2>1
  <1>7. QED
      BY <1>1, <1>5, <1>6 DEF Marks

\* signal_handler_disconnect
LEMMA DisconnectKeeps ==
  ASSUME SignalInv, NEW t \in SignalThreads, NEW c \in SignalCallbacks,
         DisconnectCallback(t, c)
  PROVE  SignalInv'
  <1>1. /\ MayCall(t) /\ MayLock(t, "signal") /\ Unwant("signal", c)
        /\ UNCHANGED <<signalling, global_callbacks, current>>
        /\ c \in Called /\ "signal" \in Arrays
        /\ Position(c) # 0
        /\ callbacks' = IF signalling
                        THEN [callbacks EXCEPT ![Position(c)].remove = TRUE]
                        ELSE RemoveAt(callbacks, Position(c))
      BY DEF DisconnectCallback, Called, Arrays
  <1>2. \A u \in SignalThreads \ {t} : ~In(deliveries[u], "signal")
      BY <1>1, LockIs
  <1>3. /\ Intact(callbacks, wanted["signal"], In(deliveries[t], "signal"))
        /\ Array("signal") = callbacks /\ callbacks \in Seq(SignalType)
        /\ signalling <=> In(deliveries[t], "signal")
      BY <1>1, <1>2, ArrayIs
  <1>4. PICK w : w = wanted["signal"] \ {c}
      OBVIOUS
  <1>5. PICK p \in DOMAIN callbacks :
            p = Position(c) /\ callbacks[p].callback = c
      BY <1>1, <1>3, PositionFinds
  <1>6. PICK array \in Seq(SignalType) :
            /\ callbacks' = array
            /\ Grown(callbacks, array) \/ ~In(deliveries[t], "signal")
            /\ Intact(array, w, In(deliveries[t], "signal"))
    <2>1. CASE signalling
      <3>1. PICK array : array = [callbacks EXCEPT ![p].remove = TRUE]
          OBVIOUS
      <3>2. array \in Seq(SignalType) /\ Marks(callbacks, array, p)
          BY <1>3, <3>1, SignalMarks
      <3>3. Grown(callbacks, array) /\ Intact(array, w, TRUE)
          BY <1>3, <1>4, <1>5, <3>2, MarkGrown, MarkIntact
      <3>4. Intact(array, w, In(deliveries[t], "signal"))
          BY <1>3, <2>1, <3>3 DEF Intact
      <3>5. callbacks' = array
          BY <1>1, <1>5, <2>1, <3>1
      <3>6. QED
          BY <3>2, <3>3, <3>4, <3>5
    <2>2. CASE ~signalling
      <3>1. Intact(callbacks, wanted["signal"], FALSE)
          BY <1>3, <2>2 DEF Intact
      <3>2. p \in 1 .. Len(callbacks)
          BY <1>3
      <3>3. PICK array : array = RemoveAt(callbacks, p)
          OBVIOUS
      <3>4. array \in Seq(SignalType) /\ Intact(array, w, FALSE)
          BY <1>3, <1>4, <1>5, <3>1, <3>2, <3>3, RemoveAtIs, RemoveAtIntact
      <3>5. Intact(array, w, In(deliveries[t], "signal"))
          BY <3>4 DEF Intact
      <3>6. callbacks' = array
          BY <1>1, <1>5, <2>2, <3>3
      <3>7. QED
          BY <1>3, <2>2, <3>4, <3>5, <3>6
    <2>3. QED
        BY <2>1, <2>2
  <1>7. QED
      BY <1>1, <1>2, <1>3, <1>4, <1>6, CallKeeps

\* signal_handler_connect_global
LEMMA ConnectGlobalKeeps ==
  ASSUME SignalInv, SignalRaces = {}, NEW t \in SignalThreads,
         NEW c \in GlobalCallbacks, ConnectGlobal(t, c)
  PROVE  SignalInv'
  <1>1. /\ MayCall(t) /\ MayLock(t, "global") /\ Want("global", c)
        /\ UNCHANGED <<callbacks, signalling, deliveries>>
        /\ c \in Called /\ "global" \in Arrays /\ "global" # "signal"
      BY DEF ConnectGlobal, Called, Arrays
  <1>2. \A u \in SignalThreads \ {t} : ~In(deliveries[u], "global")
      BY <1>1, LockIs
  <1>3. /\ Intact(global_callbacks, wanted["global"], In(deliveries[t], "global"))
        /\ Array("global") = global_callbacks
        /\ global_callbacks \in Seq(GlobalType)
      BY <1>1, <1>2, ArrayIs
  <1>4. /\ \A i \in DOMAIN global_callbacks :
               global_callbacks[i].signaling =
                   IF current[t]["global"] = i THEN 1 ELSE 0
        /\ current[t]["global"] \in 0 .. Len(global_callbacks)
    <2>1. \A i \in DOMAIN global_callbacks :
              global_callbacks[i].signaling =
                  IF current[t]["global"] = i THEN 1 ELSE 0
        BY <1>2, CountIs
    <2>2. CASE ~In(deliveries[t], "global")
      <3>1. current[t]["global"] = 0 /\ Len(global_callbacks) \in Nat
          BY <1>2, <1>3, <2>2, CountIs
      <3>2. QED
          BY <2>1, <3>1
    <2>3. CASE In(deliveries[t], "global")
      <3>1. PICK d \in DeliveryType :
                d.in = "global" /\ Going(d, current[t], TheArrays, wanted)
          BY <2>3, DeliveryIs DEF In
      <3>2. /\ Follows(global_callbacks, d)
            /\ current[t]["global"] = IF d.running THEN d.next - 1 ELSE 0
          BY <1>1, <1>3, <3>1 DEF Going, TheArrays, Arrays
      <3>3. current[t]["global"] \in 0 .. Len(global_callbacks)
          BY <1>3, <3>2 DEF Follows
      <3>4. QED
          BY <2>1, <3>3
    <2>4. QED
        BY <2>2, <2>3
  <1>5. PICK w : w = wanted["global"] \cup {c}
      OBVIOUS
  <1>6. PICK e : e = [callback |-> c, signaling |-> 0, remove |-> FALSE]
      OBVIOUS
  <1>7. /\ e \in GlobalType /\ ~e.remove /\ e.callback = c /\ e.signaling = 0
      BY <1>6 DEF GlobalType
  <1>8. PICK array \in Seq(GlobalType) :
            /\ global_callbacks' = array /\ UNCHANGED current
            /\ Grown(global_callbacks, array)
            /\ \A i \in DOMAIN array :
                   array[i].signaling =
                       IF current[t]["global"] = i THEN 1 ELSE 0
            /\ Intact(array, w, In(deliveries[t], "global"))
    <2>1. CASE GlobalPosition(c) # 0 /\ UNCHANGED <<global_callbacks, current>>
      <3>1. /\ GlobalPosition(c) \in DOMAIN global_callbacks
            /\ global_callbacks[GlobalPosition(c)] = e
          BY <1>3, <1>6, <2>1, GlobalPositionFinds
      <3>2. Intact(global_callbacks, w, In(deliveries[t], "global"))
          BY <1>3, <1>5, <1>7, <3>1, ConnectedIntact
      <3>3. QED
          BY <1>3, <1>4, <2>1, <3>2, StayGrown
    <2>2. CASE /\ GlobalPosition(c) = 0 /\ Pushed(t, "global")
               /\ "global" \in SignalRaces
                  \/ \A i \in DOMAIN global_callbacks :
                         global_callbacks[i].callback # c
               /\ global_callbacks' = Append(global_callbacks,
                      [callback |-> c, signaling |-> 0, remove |-> FALSE])
      <3>1. \A i \in DOMAIN global_callbacks : global_callbacks[i].callback # c
          BY <2>2
      <3>2. PICK array : array = Append(global_callbacks, e)
          OBVIOUS
      <3>3. Intact(array, w, In(deliveries[t], "global"))
          BY <1>3, <1>5, <1>7, <3>1, <3>2, AppendIntact
      <3>4. array \in Seq(GlobalType) /\ Grown(global_callbacks, array)
          BY <1>3, <1>7, <3>2, AppendGrown
      <3>5. ASSUME NEW i \in DOMAIN array
            PROVE  array[i].signaling =
                       IF current[t]["global"] = i THEN 1 ELSE 0
        <4>1. /\ Len(global_callbacks) \in Nat
              /\ \/ i \in DOMAIN global_callbacks
                    /\ array[i] = global_callbacks[i]
                 \/ i = Len(global_callbacks) + 1 /\ array[i] = e
            BY <1>3, <1>7, <3>2
        <4>2. QED
            BY <1>4, <1>7, <4>1
      <3>6. UNCHANGED current
          BY <2>2 DEF Pushed
      <3>7. global_callbacks' = array
          BY <1>6, <2>2, <3>2
      <3>8. QED
          BY <3>3, <3>4, <3>5, <3>6, <3>7
    <2>3. QED
        BY <2>1, <2>2, Zenon DEF ConnectGlobal
  <1>9. QED
      BY <1>1, <1>2, <1>3, <1>5, <1>8, CallKeeps

\* A global callback that is not called.
Quiet == {e \in GlobalType : e.signaling = 0}

\* While nobody walks the global callbacks, none is called.
LEMMA NobodyCalls ==
  ASSUME SignalInv, NEW t \in SignalThreads,
         \A u \in SignalThreads \ {t} : ~In(deliveries[u], "global"),
         current[t]["global"] = 0
  PROVE  global_callbacks \in Seq(Quiet)
  <1>1. global_callbacks \in Seq(GlobalType)
      BY DEF SignalInv, SignalsTypeOK, GlobalType
  <1>2. /\ Len(global_callbacks) \in Nat
        /\ DOMAIN global_callbacks = 1 .. Len(global_callbacks)
        /\ global_callbacks = [i \in 1 .. Len(global_callbacks) |->
                                   global_callbacks[i]]
      BY <1>1
  <1>3. \A i \in 1 .. Len(global_callbacks) : global_callbacks[i] \in Quiet
    <2>1. ASSUME NEW i \in DOMAIN global_callbacks
          PROVE  global_callbacks[i].signaling = 0
      <3>1. global_callbacks[i].signaling =
                IF current[t]["global"] = i THEN 1 ELSE 0
          BY CountIs
      <3>2. i # 0
          BY <1>2
      <3>3. QED
          BY <3>1, <3>2
    <2>2. QED
        BY <1>1, <1>2, <2>1 DEF Quiet
  <1>4. QED
      BY <1>2, <1>3, IsASeq

\* What is not called stays uncounted.
LEMMA QuietIs ==
  ASSUME NEW array \in Seq(Quiet), NEW cur, cur = 0
  PROVE  /\ array \in Seq(GlobalType)
         /\ \A i \in DOMAIN array :
                array[i].signaling = IF cur = i THEN 1 ELSE 0
  <1>1. Quiet \subseteq GlobalType
      BY DEF Quiet
  <1>2. array \in Seq(GlobalType)
      BY <1>1, SeqMonotonic
  <1>3. ASSUME NEW i \in DOMAIN array
        PROVE  array[i].signaling = 0 /\ i # 0
    <2>1. array[i] \in Quiet /\ i # 0
        BY <1>3
    <2>2. QED
        BY <2>1 DEF Quiet
  <1>4. QED
      BY <1>2, <1>3

\* signal_handler_disconnect_global
LEMMA DisconnectGlobalKeeps ==
  ASSUME SignalInv, SignalRaces = {}, NEW t \in SignalThreads,
         NEW c \in GlobalCallbacks, DisconnectGlobal(t, c)
  PROVE  SignalInv'
  <1>1. /\ MayCall(t) /\ MayLock(t, "global") /\ Unwant("global", c)
        /\ UNCHANGED <<callbacks, signalling, current>>
        /\ c \in Called /\ "global" \in Arrays /\ "global" # "signal"
        /\ c \in wanted["global"] /\ ~Holds(t, "global")
      BY DEF DisconnectGlobal, Called, Arrays
  <1>2. /\ \A u \in SignalThreads \ {t} : ~In(deliveries[u], "global")
        /\ ~In(deliveries[t], "global")
      BY <1>1, LockIs, HoldsIs
  <1>3. /\ Intact(global_callbacks, wanted["global"], FALSE)
        /\ Array("global") = global_callbacks
        /\ global_callbacks \in Seq(GlobalType)
    <2>1. /\ Intact(global_callbacks, wanted["global"],
                    In(deliveries[t], "global"))
          /\ Array("global") = global_callbacks
          /\ global_callbacks \in Seq(GlobalType)
        BY <1>1, <1>2, ArrayIs
    <2>2. QED
        BY <1>2, <2>1 DEF Intact
  <1>4. current[t]["global"] = 0
      BY <1>2, CountIs
  <1>5. global_callbacks \in Seq(Quiet)
      BY <1>2, <1>4, NobodyCalls
  <1>6. PICK w : w = wanted["global"] \ {c}
      OBVIOUS
  <1>7. PICK e : e = [callback |-> c, signaling |-> 0, remove |-> FALSE]
      OBVIOUS
  <1>8. \E i \in DOMAIN global_callbacks : global_callbacks[i] = e
    <2>1. PICK i \in DOMAIN global_callbacks :
              ~global_callbacks[i].remove /\ global_callbacks[i].callback = c
        BY <1>1, <1>3, StillIs DEF Intact
    <2>2. PICK f : f = global_callbacks[i]
        OBVIOUS
    <2>3. f \in Quiet /\ ~f.remove /\ f.callback = c
        BY <1>5, <2>1, <2>2
    <2>4. f = e
        BY <1>7, <2>3 DEF Quiet, GlobalType
    <2>5. QED
        BY <2>2, <2>4
  <1>9. PICK p \in DOMAIN global_callbacks :
            /\ p = GlobalPosition(c) /\ p # 0
            /\ global_callbacks[p].callback = c
    <2>1. /\ GlobalPosition(c) # 0
          /\ GlobalPosition(c) \in DOMAIN global_callbacks
          /\ global_callbacks[GlobalPosition(c)] = e
        BY <1>3, <1>7, <1>8, GlobalPositionFinds
    <2>2. e.callback = c
        BY <1>7
    <2>3. QED
        BY <2>1, <2>2
  <1>10. PICK array : array = RemoveAt(global_callbacks, p)
      OBVIOUS
  <1>11. global_callbacks' = array
      BY <1>9, <1>10 DEF DisconnectGlobal
  <1>12. p \in 1 .. Len(global_callbacks)
      BY <1>3
  <1>13. array \in Seq(Quiet) /\ Intact(array, w, FALSE)
      BY <1>3, <1>5, <1>6, <1>9, <1>10, <1>12, RemoveAtIs, RemoveAtIntact
  <1>14. /\ array \in Seq(GlobalType)
         /\ \A i \in DOMAIN array :
                array[i].signaling = IF current[t]["global"] = i THEN 1 ELSE 0
      BY <1>4, <1>13, QuietIs
  <1>15. Intact(array, w, In(deliveries[t], "global"))
      BY <1>13 DEF Intact
  <1>16. QED
      BY <1>1, <1>2, <1>6, <1>11, <1>14, <1>15, CallKeeps

\* signal_handler_remove_current
LEMMA RemoveCurrentKeeps ==
  ASSUME SignalInv, NEW t \in SignalThreads, RemoveCurrent(t)
  PROVE  SignalInv'
  <1>1. MayCall(t) /\ deliveries[t] # <<>> /\ UNCHANGED <<signalling, current>>
      BY DEF RemoveCurrent
  <1>2. PICK d \in DeliveryType :
            /\ deliveries[t] = <<d>> /\ Last(deliveries[t]) = d
            /\ d.running /\ d.in \in Arrays
            /\ Going(d, current[t], TheArrays, wanted)
      BY <1>1, CallerIs
  <1>3. PICK a \in Arrays : a = d.in
      BY <1>2
  <1>4. PICK c : c = Last(d.called)
      OBVIOUS
  <1>5. Unwant(a, c)
      BY <1>2, <1>3, <1>4, Zenon DEF RemoveCurrent
  <1>6. In(deliveries[t], a)
      BY <1>2, <1>3 DEF In
  <1>7. \A u \in SignalThreads \ {t} : ~In(deliveries[u], a)
      BY <1>6 DEF SignalInv
  <1>8. /\ Intact(Array(a), wanted[a], TRUE)
        /\ Array("signal") = callbacks /\ callbacks \in Seq(SignalType)
        /\ Array("global") = global_callbacks
        /\ global_callbacks \in Seq(GlobalType)
    <2>1. Intact(Array(a), wanted[a], In(deliveries[t], a))
        BY <1>7, ArrayIs
    <2>2. QED
        BY <1>6, <1>7, <2>1, ArrayIs DEF Intact
  <1>9. /\ "between" \notin Arrays /\ Arrays = {"signal", "global"}
        /\ "signal" # "global"
      BY DEF Arrays
  <1>10. Follows(Array(a), d)
      BY <1>2, <1>3, <1>9 DEF Going, TheArrays
  <1>11. PICK p \in DOMAIN Array(a) : /\ p = d.next - 1 /\ p # 0
                                      /\ Array(a)[p].callback = c
    <2>1. DOMAIN Array(a) = 1 .. Len(Array(a)) /\ Len(Array(a)) \in Nat
        BY <1>8, <1>9
    <2>2. d.next - 1 \in DOMAIN Array(a) /\ d.next - 1 # 0
        BY <1>2, <1>10, <2>1 DEF Follows
    <2>3. Array(a)[d.next - 1].callback = c
        BY <1>2, <1>4, <1>10 DEF Follows
    <2>4. QED
        BY <2>2, <2>3
  <1>12. current[t] = [b \in Arrays |-> IF b = a THEN p ELSE 0]
      BY <1>2, <1>3, <1>11 DEF Going
  <1>13. PICK w : w = wanted[a] \ {c}
      OBVIOUS
  <1>14. CASE a = "signal"
    <2>1. current[t]["signal"] = p
        BY <1>9, <1>12, <1>14
    <2>2. PICK array : array = [callbacks EXCEPT ![p].remove = TRUE]
        OBVIOUS
    <2>3. current[t] # [b \in Arrays |-> 0]
        BY <1>9, <1>11, <2>1
    <2>4. callbacks' = array /\ UNCHANGED global_callbacks
        BY <1>11, <2>1, <2>2, <2>3 DEF RemoveCurrent
    <2>5. array \in Seq(SignalType) /\ Marks(callbacks, array, p)
        BY <1>8, <1>11, <1>14, <2>2, SignalMarks
    <2>6. Grown(callbacks, array) /\ Intact(array, w, TRUE)
        BY <1>8, <1>11, <1>13, <1>14, <2>5, MarkGrown, MarkIntact
    <2>7. c \in Called
      <3>1. callbacks[p] \in SignalType /\ callbacks[p].callback = c
          BY <1>8, <1>11, <1>14
      <3>2. QED
          BY <3>1 DEF SignalType, Called
    <2>8. Intact(array, w, In(deliveries[t], a))
        BY <1>6, <2>6 DEF Intact
    <2>9. Grown(Array(a), array)
        BY <1>8, <1>14, <2>6
    <2>10. QED
        BY <1>1, <1>5, <1>7, <1>13, <1>14, <2>4, <2>5, <2>7, <2>8, <2>9,
           CallKeeps
  <1>15. CASE a = "global"
    <2>1. current[t]["signal"] = 0 /\ current[t]["global"] = p
        BY <1>9, <1>12, <1>15
    <2>2. PICK array : array = [global_callbacks EXCEPT ![p].remove = TRUE]
        OBVIOUS
    <2>3. current[t] # [b \in Arrays |-> 0]
        BY <1>9, <1>11, <2>1
    <2>4. global_callbacks' = array /\ UNCHANGED callbacks
        BY <1>11, <2>1, <2>2, <2>3 DEF RemoveCurrent
    <2>5. /\ array \in Seq(GlobalType) /\ Marks(global_callbacks, array, p)
          /\ \A i \in DOMAIN global_callbacks :
                 array[i].signaling = global_callbacks[i].signaling
      <3>1. p \in DOMAIN global_callbacks
          BY <1>8, <1>11, <1>15
      <3>2. global_callbacks \in Seq(GlobalType)
          BY <1>8
      <3>3. \A x : x = [global_callbacks EXCEPT ![p].remove = TRUE] =>
                /\ x \in Seq(GlobalType) /\ Marks(global_callbacks, x, p)
                /\ \A i \in DOMAIN global_callbacks :
                       x[i].signaling = global_callbacks[i].signaling
          BY <3>1, <3>2, GlobalMarks
      <3>4. QED
          BY <2>2, <3>3
    <2>6. Grown(global_callbacks, array) /\ Intact(array, w, TRUE)
        BY <1>8, <1>11, <1>13, <1>15, <2>5, MarkGrown, MarkIntact
    <2>7. c \in Called
      <3>1. global_callbacks[p] \in GlobalType /\ global_callbacks[p].callback = c
          BY <1>8, <1>11, <1>15
      <3>2. QED
          BY <3>1 DEF GlobalType, Called
    <2>8. Intact(array, w, In(deliveries[t], a))
        BY <1>6, <2>6 DEF Intact
    <2>9. Grown(Array(a), array)
        BY <1>8, <1>15, <2>6
    <2>10. \A i \in DOMAIN array :
               array[i].signaling = IF current[t]["global"] = i THEN 1 ELSE 0
      <3>1. \A i \in DOMAIN global_callbacks :
                global_callbacks[i].signaling =
                    IF current[t]["global"] = i THEN 1 ELSE 0
          BY <1>7, <1>15, CountIs
      <3>2. DOMAIN array = DOMAIN global_callbacks
          BY <2>5 DEF Marks
      <3>3. QED
          BY <2>5, <3>1, <3>2
    <2>11. QED
        BY <1>1, <1>5, <1>7, <1>9, <1>13, <1>15, <2>4, <2>5, <2>7, <2>8, <2>9,
           <2>10, CallKeeps
  <1>16. QED
      BY <1>9, <1>14, <1>15

-----------------------------------------------------------------------------
(* Signals: the delivery                                                    *)

\* A delivery that goes on keeps the invariant when it is right for its array.
LEMMA DeliverKeeps ==
  ASSUME SignalInv, NEW t \in SignalThreads, NEW a \in Arrays,
         NEW seq, NEW cur, NEW array,
         deliveries' = [deliveries EXCEPT ![t] = seq],
         current' = [current EXCEPT ![t] = cur],
         UNCHANGED wanted, calls' \in Nat,
         \/ seq = <<>> /\ cur = Nowhere
         \/ \E e \in DeliveryType :
                /\ seq = <<e>>
                /\ Going(e, cur, [TheArrays EXCEPT ![a] = array], wanted),
         \A u \in SignalThreads \ {t} : ~In(deliveries[u], a),
         \A b \in Arrays \ {a} : In(seq, b) <=> In(deliveries[t], b),
         Alters(t, a, seq, cur, array),
         Intact(array, wanted[a], In(seq, a)),
         cur \in [Arrays -> Nat]
  PROVE  SignalInv'
  <1>1. wanted \in [Arrays -> SUBSET Called]
      BY DEF SignalInv, SignalsTypeOK, Called
  <1>2. PICK wants : wants = [wanted EXCEPT ![a] = wanted[a]]
      OBVIOUS
  <1>3. wants = wanted /\ wanted[a] \subseteq Called
      BY <1>1, <1>2
  <1>4. /\ seq \in Seq(DeliveryType)
        /\ Fine(seq, cur, [TheArrays EXCEPT ![a] = array], wanted)
    <2>1. CASE seq = <<>> /\ cur = Nowhere
        BY <2>1 DEF Fine
    <2>2. CASE \E e \in DeliveryType :
                   /\ seq = <<e>>
                   /\ Going(e, cur, [TheArrays EXCEPT ![a] = array], wanted)
      <3>1. PICK e \in DeliveryType :
                   /\ seq = <<e>>
                   /\ Going(e, cur, [TheArrays EXCEPT ![a] = array], wanted)
          BY <2>2
      <3>2. seq # <<>> /\ seq[1] = e /\ seq \in Seq(DeliveryType)
          BY <3>1
      <3>3. QED
          BY <3>1, <3>2 DEF Fine
    <2>3. QED
        BY <2>1, <2>2
  <1>5. Changes(t, a, seq, cur, wanted[a])
      BY <1>2, <1>3, <1>4 DEF Changes
  <1>6. Fine(seq, cur, [TheArrays EXCEPT ![a] = array],
             [wanted EXCEPT ![a] = wanted[a]])
      BY <1>2, <1>3, <1>4
  <1>7. QED
      BY <1>5, <1>6, StepKeeps

\* A delivery that goes on in an array, with nothing called.
LEMMA WalkingIs ==
  ASSUME SignalInv, NEW t \in SignalThreads, NEW a, Walking(t, a)
  PROVE  \E d \in DeliveryType :
             /\ deliveries[t] = <<d>> /\ Last(deliveries[t]) = d
             /\ Front(deliveries[t]) = <<>>
             /\ d.in = a /\ ~d.running
             /\ Going(d, current[t], TheArrays, wanted)
             /\ current[t] = Nowhere
             /\ \A b : In(deliveries[t], b) <=> b = a
             /\ \A b \in Arrays : In(deliveries[t], b) =>
                    \A u \in SignalThreads \ {t} : ~In(deliveries[u], b)
  <1>1. PICK d \in DeliveryType :
            /\ deliveries[t] = <<d>> /\ Last(deliveries[t]) = d
            /\ Front(deliveries[t]) = <<>>
            /\ Going(d, current[t], TheArrays, wanted)
            /\ \A b : In(deliveries[t], b) <=> d.in = b
      BY DeliveryIs DEF Walking
  <1>2. d.in = a /\ ~d.running
      BY <1>1 DEF Walking
  <1>3. current[t] = Nowhere
      BY <1>1, <1>2 DEF Going, Nowhere
  <1>4. ASSUME NEW b \in Arrays, In(deliveries[t], b)
        PROVE  \A u \in SignalThreads \ {t} : ~In(deliveries[u], b)
      BY <1>4 DEF SignalInv
  <1>5. QED
      BY <1>1, <1>2, <1>3, <1>4

\* What a delivery goes on with is put in its place.
LEMMA ReplaceIs ==
  ASSUME SignalInv, NEW t \in SignalThreads, Front(deliveries[t]) = <<>>,
         NEW e, Replace(t, e)
  PROVE  deliveries' = [deliveries EXCEPT ![t] = <<e>>]
  <1>1. <<>> \o <<e>> = <<e>>
      OBVIOUS
  <1>2. deliveries' = [deliveries EXCEPT ![t] = Front(deliveries[t]) \o <<e>>]
      BY DEF Replace, SignalInv, SignalsTypeOK
  <1>3. QED
      BY <1>1, <1>2

\* The arrays, when one of them stays.
LEMMA ArraysStay ==
  ASSUME NEW a \in Arrays
  PROVE  [TheArrays EXCEPT ![a] = Array(a)] = TheArrays
  BY DEF TheArrays

\* A delivery begins with the first callback, for what is connected then.
LEMMA DeliveryBegins ==
  ASSUME SignalInv, NEW a \in Arrays, NEW S, Array(a) \in Seq(S)
  PROVE  /\ Delivery(a) \in DeliveryType /\ Delivery(a).in = a
         /\ Going(Delivery(a), Nowhere, TheArrays, wanted)
  <1>1. wanted[a] \subseteq Called
      BY DEF SignalInv, SignalsTypeOK, Called
  <1>2. PICK d : d = Delivery(a)
      OBVIOUS
  <1>3. /\ d.in = a /\ d.next = 1 /\ ~d.running /\ d.called = <<>>
        /\ d.due = wanted[a]
      BY <1>2 DEF Delivery
  <1>4. d \in DeliveryType
      BY <1>1, <1>2, EmptySeq DEF Delivery, DeliveryType, Called
  <1>5. Follows(Array(a), d) /\ IsInjective(d.called)
      BY <1>3, BeginFollows
  <1>6. TheArrays[a] = Array(a) /\ a # "between"
      BY DEF TheArrays, Arrays
  <1>7. Nowhere = [b \in Arrays |-> IF d.running /\ d.in = b
                                    THEN d.next - 1 ELSE 0]
      BY <1>3 DEF Nowhere
  <1>8. Going(d, Nowhere, TheArrays, wanted)
      BY <1>3, <1>5, <1>6, <1>7 DEF Going
  <1>9. QED
      BY <1>2, <1>3, <1>4, <1>8

\* A signal is caused: the mutex is taken.
LEMMA BeginSignalKeeps ==
  ASSUME SignalInv, SignalRaces = {}, NEW t \in SignalThreads, BeginSignal(t)
  PROVE  SignalInv'
  <1>1. /\ MayCall(t) /\ MayLock(t, "signal") /\ deliveries[t] = <<>>
        /\ signalling' = TRUE
        /\ UNCHANGED <<callbacks, global_callbacks, current, wanted>>
      BY DEF BeginSignal
  <1>2. "signal" \in Arrays /\ "global" \in Arrays /\ "signal" # "global"
      BY DEF Arrays
  <1>3. /\ calls' \in Nat /\ current[t] = Nowhere
        /\ current \in [SignalThreads -> [Arrays -> Nat]]
      BY <1>1, CallerIs DEF SignalInv, SignalsTypeOK, Fine
  <1>4. PICK d : d = Delivery("signal")
      OBVIOUS
  <1>5. deliveries' = [deliveries EXCEPT ![t] = <<d>>]
    <2>1. Append(<<>>, d) = <<d>>
        OBVIOUS
    <2>2. deliveries' = [deliveries EXCEPT ![t] = Append(deliveries[t], d)]
        BY <1>4 DEF BeginSignal, SignalInv, SignalsTypeOK
    <2>3. QED
        BY <1>1, <2>1, <2>2
  <1>6. \A u \in SignalThreads \ {t} : ~In(deliveries[u], "signal")
      BY <1>1, LockIs
  <1>7. /\ Intact(callbacks, wanted["signal"], In(deliveries[t], "signal"))
        /\ Array("signal") = callbacks /\ callbacks \in Seq(SignalType)
      BY <1>2, <1>6, ArrayIs
  <1>8. /\ d \in DeliveryType /\ d.in = "signal"
        /\ Going(d, Nowhere, TheArrays, wanted)
      BY <1>2, <1>4, <1>7, DeliveryBegins
  <1>9. \A b : In(<<d>>, b) <=> b = "signal"
      BY <1>8 DEF In
  <1>10. /\ [TheArrays EXCEPT !["signal"] = callbacks] = TheArrays
         /\ \A b : ~In(deliveries[t], b)
      BY <1>1, <1>2, <1>7, ArraysStay DEF In
  <1>11. PICK cur : cur = Nowhere
      OBVIOUS
  <1>12. cur \in [Arrays -> Nat] /\ current' = [current EXCEPT ![t] = cur]
      BY <1>1, <1>3, <1>11
  <1>13. Alters(t, "signal", <<d>>, cur, callbacks)
      BY <1>1, <1>3, <1>7, <1>9, <1>11 DEF Alters
  <1>14. Intact(callbacks, wanted["signal"], In(<<d>>, "signal"))
      BY <1>7, <1>9 DEF Intact
  <1>15. \A b \in Arrays \ {"signal"} : In(<<d>>, b) <=> In(deliveries[t], b)
      BY <1>9, <1>10
  <1>16. Going(d, cur, [TheArrays EXCEPT !["signal"] = callbacks], wanted)
      BY <1>8, <1>10, <1>11
  <1>17. QED
      BY <1>1, <1>2, <1>3, <1>5, <1>6, <1>8, <1>12, <1>13, <1>14, <1>15, <1>16,
         DeliverKeeps

\* Between the two arrays the other mutex is taken.
LEMMA BeginGlobalKeeps ==
  ASSUME SignalInv, NEW t \in SignalThreads, BeginGlobal(t)
  PROVE  SignalInv'
  <1>1. /\ Walking(t, "between") /\ MayLock(t, "global")
        /\ Replace(t, Delivery("global"))
        /\ UNCHANGED <<callbacks, signalling, global_callbacks, current, wanted,
                       calls>>
      BY DEF BeginGlobal
  <1>2. /\ "signal" \in Arrays /\ "global" \in Arrays /\ "signal" # "global"
        /\ "between" \notin Arrays
      BY DEF Arrays
  <1>3. /\ calls' \in Nat /\ current \in [SignalThreads -> [Arrays -> Nat]]
      BY <1>1 DEF SignalInv, SignalsTypeOK
  <1>4. PICK d : d = Delivery("global")
      OBVIOUS
  <1>5. /\ Front(deliveries[t]) = <<>> /\ current[t] = Nowhere
        /\ \A b : In(deliveries[t], b) <=> b = "between"
      BY <1>1, WalkingIs
  <1>6. deliveries' = [deliveries EXCEPT ![t] = <<d>>]
      BY <1>1, <1>4, <1>5, ReplaceIs
  <1>7. \A u \in SignalThreads \ {t} : ~In(deliveries[u], "global")
      BY <1>1, LockIs
  <1>8. /\ Intact(global_callbacks, wanted["global"], In(deliveries[t], "global"))
        /\ Array("global") = global_callbacks
        /\ global_callbacks \in Seq(GlobalType)
      BY <1>2, <1>7, ArrayIs
  <1>9. /\ d \in DeliveryType /\ d.in = "global"
        /\ Going(d, Nowhere, TheArrays, wanted)
      BY <1>2, <1>4, <1>8, DeliveryBegins
  <1>10. \A b : In(<<d>>, b) <=> b = "global"
      BY <1>9 DEF In
  <1>11. [TheArrays EXCEPT !["global"] = global_callbacks] = TheArrays
      BY <1>2, <1>8, ArraysStay
  <1>12. PICK cur : cur = Nowhere
      OBVIOUS
  <1>13. /\ cur \in [Arrays -> Nat] /\ current' = [current EXCEPT ![t] = cur]
         /\ cur = current[t]
      BY <1>1, <1>3, <1>5, <1>12
  <1>14. Alters(t, "global", <<d>>, cur, global_callbacks)
      BY <1>1, <1>2, <1>7, <1>8, <1>13, CountIs DEF Alters
  <1>15. Intact(global_callbacks, wanted["global"], In(<<d>>, "global"))
      BY <1>8, <1>10 DEF Intact
  <1>16. \A b \in Arrays \ {"global"} : In(<<d>>, b) <=> In(deliveries[t], b)
      BY <1>2, <1>5, <1>10
  <1>17. Going(d, cur, [TheArrays EXCEPT !["global"] = global_callbacks], wanted)
      BY <1>9, <1>11, <1>12
  <1>18. QED
      BY <1>1, <1>2, <1>3, <1>6, <1>7, <1>9, <1>13, <1>14, <1>15, <1>16, <1>17,
         DeliverKeeps

\* The callbacks of the signal were called, and what is marked is removed.
LEMMA EndSignalKeeps ==
  ASSUME SignalInv, NEW t \in SignalThreads, EndSignal(t)
  PROVE  SignalInv'
  <1>1. /\ Walking(t, "signal") /\ Last(deliveries[t]).next > Len(callbacks)
        /\ callbacks' = Without(callbacks,
                                {i \in DOMAIN callbacks : callbacks[i].remove})
        /\ signalling' = FALSE
        /\ Replace(t, [Last(deliveries[t]) EXCEPT !.in = "between"])
        /\ UNCHANGED <<global_callbacks, current, wanted, calls>>
      BY DEF EndSignal
  <1>2. /\ "signal" \in Arrays /\ "global" \in Arrays /\ "signal" # "global"
        /\ "between" \notin Arrays
      BY DEF Arrays
  <1>3. /\ calls' \in Nat /\ current \in [SignalThreads -> [Arrays -> Nat]]
      BY <1>1 DEF SignalInv, SignalsTypeOK
  <1>4. PICK d \in DeliveryType :
            /\ Last(deliveries[t]) = d /\ Front(deliveries[t]) = <<>>
            /\ d.in = "signal" /\ ~d.running
            /\ Going(d, current[t], TheArrays, wanted)
            /\ current[t] = Nowhere
            /\ \A b : In(deliveries[t], b) <=> b = "signal"
            /\ \A b \in Arrays : In(deliveries[t], b) =>
                   \A u \in SignalThreads \ {t} : ~In(deliveries[u], b)
      BY <1>1, WalkingIs
  <1>5. PICK e : e = [d EXCEPT !.in = "between"]
      OBVIOUS
  <1>6. /\ e \in DeliveryType /\ e.in = "between" /\ e.due = d.due
        /\ e.called = d.called /\ ~e.running
      BY <1>4, <1>5 DEF DeliveryType
  <1>7. deliveries' = [deliveries EXCEPT ![t] = <<e>>]
      BY <1>1, <1>4, <1>5, ReplaceIs
  <1>8. \A u \in SignalThreads \ {t} : ~In(deliveries[u], "signal")
      BY <1>2, <1>4
  <1>9. /\ Intact(callbacks, wanted["signal"], In(deliveries[t], "signal"))
        /\ Array("signal") = callbacks /\ callbacks \in Seq(SignalType)
      BY <1>2, <1>8, ArrayIs
  <1>10. /\ Follows(callbacks, d) /\ d.due \subseteq wanted["signal"]
         /\ IsInjective(d.called)
    <2>1. TheArrays["signal"] = callbacks
        BY <1>2, <1>9 DEF TheArrays
    <2>2. QED
        BY <1>2, <1>4, <2>1 DEF Going
  <1>11. e.due \subseteq ToSet(e.called)
      BY <1>1, <1>4, <1>6, <1>9, <1>10, EndReaches
  <1>12. PICK cur : cur = Nowhere
      OBVIOUS
  <1>13. /\ cur \in [Arrays -> Nat] /\ current' = [current EXCEPT ![t] = cur]
         /\ cur = current[t]
      BY <1>1, <1>3, <1>4, <1>12
  <1>14. PICK array : array = callbacks'
      OBVIOUS
  <1>15. array \in Seq(SignalType) /\ Intact(array, wanted["signal"], FALSE)
      BY <1>1, <1>9, <1>14, WithoutIntact
  <1>16. \A b \in Arrays : ~In(<<e>>, b)
      BY <1>2, <1>6 DEF In
  <1>17. Alters(t, "signal", <<e>>, cur, array)
      BY <1>1, <1>2, <1>13, <1>14, <1>15, <1>16 DEF Alters
  <1>18. Intact(array, wanted["signal"], In(<<e>>, "signal"))
      BY <1>15 DEF Intact
  <1>19. \A b \in Arrays \ {"signal"} : In(<<e>>, b) <=> In(deliveries[t], b)
      BY <1>4, <1>16
  <1>20. Going(e, cur, [TheArrays EXCEPT !["signal"] = array], wanted)
    <2>1. cur = [b \in Arrays |-> IF e.running /\ e.in = b
                                  THEN e.next - 1 ELSE 0]
        BY <1>6, <1>12 DEF Nowhere
    <2>2. QED
        BY <1>6, <1>10, <1>11, <2>1 DEF Going
  <1>21. QED
      BY <1>1, <1>2, <1>3, <1>6, <1>7, <1>8, <1>13, <1>17, <1>18, <1>19, <1>20,
         DeliverKeeps

\* The global callbacks were called, and what is marked is removed.
LEMMA EndGlobalKeeps ==
  ASSUME SignalInv, NEW t \in SignalThreads, EndGlobal(t)
  PROVE  SignalInv'
  <1> DEFINE gone == {i \in DOMAIN global_callbacks :
                          /\ global_callbacks[i].remove
                          /\ global_callbacks[i].signaling = 0}
  <1>1. /\ Walking(t, "global")
        /\ global_callbacks' = Without(global_callbacks, gone)
        /\ deliveries' = [deliveries EXCEPT ![t] = Front(@)]
        /\ UNCHANGED <<callbacks, signalling, current, wanted, calls>>
      BY DEF EndGlobal
  <1>2. /\ "signal" \in Arrays /\ "global" \in Arrays /\ "signal" # "global"
        /\ "between" \notin Arrays
      BY DEF Arrays
  <1>3. /\ calls' \in Nat /\ current \in [SignalThreads -> [Arrays -> Nat]]
      BY <1>1 DEF SignalInv, SignalsTypeOK
  <1>4. /\ Front(deliveries[t]) = <<>> /\ current[t] = Nowhere
        /\ \A b : In(deliveries[t], b) <=> b = "global"
        /\ \A u \in SignalThreads \ {t} : ~In(deliveries[u], "global")
      BY <1>1, <1>2, WalkingIs
  <1>5. deliveries' = [deliveries EXCEPT ![t] = <<>>]
      BY <1>1, <1>4 DEF SignalInv, SignalsTypeOK
  <1>6. Intact(global_callbacks, wanted["global"], In(deliveries[t], "global"))
      BY <1>2, <1>4, ArrayIs DEF Array
  <1>7. current[t]["global"] = 0
      BY <1>2, <1>4 DEF Nowhere
  <1>8. global_callbacks \in Seq(Quiet)
      BY <1>4, <1>7, NobodyCalls
  <1>9. gone = {i \in DOMAIN global_callbacks : global_callbacks[i].remove}
    <2>1. \A i \in DOMAIN global_callbacks : global_callbacks[i].signaling = 0
      <3>1. \A i \in DOMAIN global_callbacks : global_callbacks[i] \in Quiet
          BY <1>8
      <3>2. QED
          BY <3>1 DEF Quiet
    <2>2. QED
        BY <2>1
  <1> HIDE DEF gone
  <1>10. PICK array : array = global_callbacks'
      OBVIOUS
  <1>11. array \in Seq(Quiet) /\ Intact(array, wanted["global"], FALSE)
      BY <1>1, <1>6, <1>8, <1>9, <1>10, WithoutIntact
  <1>12. PICK cur : cur = Nowhere
      OBVIOUS
  <1>13. /\ cur \in [Arrays -> Nat] /\ current' = [current EXCEPT ![t] = cur]
         /\ cur["global"] = 0
      BY <1>1, <1>3, <1>4, <1>7, <1>12
  <1>14. /\ array \in Seq(GlobalType)
         /\ \A i \in DOMAIN array :
                array[i].signaling = IF cur["global"] = i THEN 1 ELSE 0
      BY <1>11, <1>13, QuietIs
  <1>15. Alters(t, "global", <<>>, cur, array)
      BY <1>1, <1>2, <1>10, <1>14 DEF Alters
  <1>16. \A b : ~In(<<>>, b)
      BY DEF In
  <1>17. Intact(array, wanted["global"], In(<<>>, "global"))
      BY <1>11 DEF Intact
  <1>18. \A b \in Arrays \ {"global"} : In(<<>>, b) <=> In(deliveries[t], b)
      BY <1>4, <1>16
  <1>19. QED
      BY <1>1, <1>2, <1>3, <1>4, <1>5, <1>12, <1>13, <1>15, <1>17, <1>18,
         DeliverKeeps

\* The array with the count of one global callback changed.
Recount(array, p, k) == [array EXCEPT ![p].signaling = k]

\* How a global callback is counted.
LEMMA GlobalCounts ==
  ASSUME NEW array \in Seq(GlobalType), NEW p \in DOMAIN array, NEW k \in Nat
  PROVE  /\ Recount(array, p, k) \in Seq(GlobalType)
         /\ DOMAIN Recount(array, p, k) = DOMAIN array
         /\ \A i \in DOMAIN array :
                Recount(array, p, k)[i].signaling =
                    IF i = p THEN k ELSE array[i].signaling
         /\ \A i \in DOMAIN array :
                /\ Recount(array, p, k)[i].callback = array[i].callback
                /\ Recount(array, p, k)[i].remove = array[i].remove
         /\ Grown(array, Recount(array, p, k))
  <1>0. PICK array2 : array2 = Recount(array, p, k)
      OBVIOUS
  <1>1. PICK e : e = [array[p] EXCEPT !.signaling = k]
      OBVIOUS
  <1>2. array[p] \in GlobalType
      OBVIOUS
  <1>3. /\ e \in GlobalType /\ e.signaling = k
        /\ e.callback = array[p].callback /\ e.remove = array[p].remove
      BY <1>1, <1>2 DEF GlobalType
  <1>4. array2 = [array EXCEPT ![p] = e]
      BY <1>0, <1>1 DEF Recount
  <1>5. e \in GlobalType
      BY <1>3
  <1>6. /\ array2 \in Seq(GlobalType) /\ Len(array2) = Len(array)
        /\ DOMAIN array2 = DOMAIN array
        /\ \A i \in DOMAIN array : array2[i] = IF i = p THEN e ELSE array[i]
      BY <1>4, <1>5, ElementIs
  <1>7. ASSUME NEW i \in DOMAIN array
        PROVE  /\ array2[i].signaling = IF i = p THEN k ELSE array[i].signaling
               /\ array2[i].callback = array[i].callback
               /\ array2[i].remove = array[i].remove
      BY <1>3, <1>6
  <1>8. Grown(array, array2)
    <2>1. Len(array) \in Nat /\ DOMAIN array = 1 .. Len(array)
        OBVIOUS
    <2>2. QED
        BY <1>6, <1>7, <2>1 DEF Grown
  <1>9. QED
      BY <1>0, <1>6, <1>7, <1>8

\* Counting disconnects nothing.
LEMMA RecountIntact ==
  ASSUME NEW array \in Seq(GlobalType), NEW p \in DOMAIN array, NEW k \in Nat,
         NEW want, NEW held, Intact(array, want, held)
  PROVE  Intact(Recount(array, p, k), want, held)
  <1>1. PICK array2 : array2 = Recount(array, p, k)
      OBVIOUS
  <1>2. /\ DOMAIN array2 = DOMAIN array
        /\ \A i \in DOMAIN array : /\ array2[i].callback = array[i].callback
                                   /\ array2[i].remove = array[i].remove
      BY Zenon, <1>1, GlobalCounts
  <1>3. Distinct(array2)
      BY <1>2 DEF Intact, Distinct
  <1>4. held \/ Unmarked(array2)
      BY <1>2 DEF Intact, Unmarked
  <1>5. ASSUME NEW c
        PROVE  c \in StillConnected(array2) <=> c \in StillConnected(array)
    <2>1. c \in StillConnected(array2) <=>
              \E i \in DOMAIN array2 :
                  ~array2[i].remove /\ array2[i].callback = c
        BY StillIs
    <2>2. c \in StillConnected(array) <=>
              \E i \in DOMAIN array : ~array[i].remove /\ array[i].callback = c
        BY StillIs
    <2>3. \A i \in DOMAIN array :
              ~array2[i].remove /\ array2[i].callback = c
                  <=> ~array[i].remove /\ array[i].callback = c
        BY <1>2
    <2>4. QED
        BY <1>2, <2>1, <2>2, <2>3
  <1>6. StillConnected(array2) = StillConnected(array)
      BY <1>5
  <1>7. QED
      BY <1>1, <1>3, <1>4, <1>6 DEF Intact

\* The delivery of t, that is in array a, becomes e, and its pointers cur.
CalledNext(t, a, array, e, cur) ==
    /\ e \in DeliveryType /\ cur \in [Arrays -> Nat]
    /\ deliveries' = [deliveries EXCEPT ![t] = <<e>>]
    /\ current' = [current EXCEPT ![t] = cur]
    /\ e.in = a /\ Going(e, cur, TheArrays, wanted)
    /\ \A b \in Arrays \ {a} : cur[b] = 0
    /\ \/ cur = Nowhere /\ UNCHANGED current
       \/ cur[a] \in DOMAIN array /\ current' # current
    /\ current[t] = Nowhere
    /\ \A b : In(deliveries[t], b) <=> b = a
    /\ \A u \in SignalThreads \ {t} : ~In(deliveries[u], a)

\* What a delivery becomes when it goes on to the next callback of an array.
LEMMA CallNextIs ==
  ASSUME SignalInv, NEW t \in SignalThreads, NEW a \in Arrays,
         NEW array, array = Array(a), NEW S, array \in Seq(S),
         \A x \in S : x.callback \in Called, CallNext(t, a, array)
  PROVE  \E e, cur : CalledNext(t, a, array, e, cur)
  <1>1. Walking(t, a)
      BY DEF CallNext
  <1>2. PICK d \in DeliveryType :
            /\ Last(deliveries[t]) = d /\ Front(deliveries[t]) = <<>>
            /\ d.in = a /\ ~d.running
            /\ Going(d, current[t], TheArrays, wanted)
            /\ current[t] = Nowhere
            /\ \A b : In(deliveries[t], b) <=> b = a
            /\ \A b \in Arrays : In(deliveries[t], b) =>
                   \A u \in SignalThreads \ {t} : ~In(deliveries[u], b)
      BY <1>1, WalkingIs
  <1>3. \A u \in SignalThreads \ {t} : ~In(deliveries[u], a)
      BY <1>2
  <1>4. /\ TheArrays[a] = array /\ a # "between"
        /\ Intact(array, wanted[a], In(deliveries[t], a))
        /\ current \in [SignalThreads -> [Arrays -> Nat]]
      BY <1>3, ArrayIs DEF TheArrays, Arrays, SignalInv, SignalsTypeOK
  <1>5. /\ Follows(array, d) /\ d.due \subseteq wanted[a]
        /\ IsInjective(d.called) /\ Distinct(array)
      BY <1>2, <1>4 DEF Going, Intact
  <1>6. /\ d.next \in Nat /\ d.called \in Seq(Called)
        /\ d.due \subseteq Called /\ a \in Arrays \cup {"between"}
      BY DEF DeliveryType, Called
  <1>7. d.next <= Len(array) /\ d.next \in DOMAIN array
    <2>1. d.next <= Len(array)
        BY <1>2 DEF CallNext
    <2>2. d.next >= 1
        BY <1>5 DEF Follows
    <2>3. DOMAIN array = 1 .. Len(array) /\ Len(array) \in Nat
        OBVIOUS
    <2>4. QED
        BY <1>6, <2>1, <2>2, <2>3
  <1>8. CASE array[d.next].remove
    <2>1. PICK e : e = [d EXCEPT !.next = @ + 1]
        OBVIOUS
    <2>2. /\ e.in = a /\ ~e.running /\ e.next = d.next + 1
          /\ e.called = d.called /\ e.due = d.due
        BY <1>2, <2>1 DEF DeliveryType
    <2>3. e \in DeliveryType
      <3>1. e = [in |-> d.in, next |-> d.next + 1, running |-> d.running,
                 called |-> d.called, due |-> d.due]
          BY <2>1 DEF DeliveryType
      <3>2. d.next + 1 \in Nat
          BY <1>6
      <3>3. d.in \in Arrays \cup {"between"} /\ d.running \in BOOLEAN
          BY DEF DeliveryType
      <3>4. QED
          BY <1>6, <3>1, <3>2, <3>3 DEF DeliveryType, Called
    <2>4. Replace(t, e) /\ UNCHANGED current
        BY <1>2, <1>8, <2>1 DEF CallNext
    <2>5. deliveries' = [deliveries EXCEPT ![t] = <<e>>]
        BY <1>2, <2>4, ReplaceIs
    <2>6. Follows(array, e)
        BY <1>5, <1>7, <1>8, <2>2, PassFollows
    <2>7. Nowhere = [b \in Arrays |-> IF e.running /\ e.in = b
                                      THEN e.next - 1 ELSE 0]
        BY <2>2 DEF Nowhere
    <2>8. Going(e, Nowhere, TheArrays, wanted)
        BY <1>4, <1>5, <2>2, <2>6, <2>7 DEF Going
    <2>9. PICK cur \in [Arrays -> Nat] :
              /\ cur = Nowhere /\ \A b \in Arrays : cur[b] = 0
              /\ current' = [current EXCEPT ![t] = cur]
      <3>1. Nowhere \in [Arrays -> Nat] /\ \A b \in Arrays : Nowhere[b] = 0
          BY DEF Nowhere
      <3>2. current' = [current EXCEPT ![t] = current[t]]
          BY <1>4, <2>4
      <3>3. QED
          BY <1>2, <3>1, <3>2
    <2>10. QED
        BY <1>2, <1>3, <2>2, <2>3, <2>4, <2>5, <2>8, <2>9 DEF CalledNext
  <1>9. CASE ~array[d.next].remove
    <2>1. PICK c : c = array[d.next].callback
        OBVIOUS
    <2>2. c \in Called
        BY <1>7, <2>1
    <2>3. PICK called : called = Append(d.called, c)
        OBVIOUS
    <2>4. PICK e : e = [d EXCEPT !.next = @ + 1, !.running = TRUE,
                                 !.called = called]
        OBVIOUS
    <2>5. /\ e.in = a /\ e.running /\ e.next = d.next + 1
          /\ e.called = called /\ e.due = d.due
        BY <1>2, <2>4 DEF DeliveryType
    <2>6. e \in DeliveryType
      <3>1. called \in Seq(Called)
          BY <1>6, <2>2, <2>3
      <3>2. e = [in |-> d.in, next |-> d.next + 1, running |-> TRUE,
                 called |-> called, due |-> d.due]
          BY <2>4 DEF DeliveryType
      <3>3. QED
          BY <1>2, <1>6, <3>1, <3>2 DEF DeliveryType, Called
    <2>7. Replace(t, e) /\ current' = [current EXCEPT ![t][a] = d.next]
      <3>1. e = [d EXCEPT !.next = @ + 1, !.running = TRUE,
                          !.called = Append(@, array[d.next].callback)]
          BY <2>1, <2>3, <2>4
      <3>2. QED
          BY <1>2, <1>9, <3>1, Zenon DEF CallNext
    <2>8. deliveries' = [deliveries EXCEPT ![t] = <<e>>]
        BY <1>2, <2>7, ReplaceIs
    <2>9. Follows(array, e) /\ IsInjective(e.called)
        BY <1>5, <1>6, <1>7, <2>1, <2>2, <2>3, <2>5, CallFollows
    <2>10. PICK cur : cur = [b \in Arrays |-> IF b = a THEN d.next ELSE 0]
        OBVIOUS
    <2>11. /\ cur \in [Arrays -> Nat] /\ cur[a] = d.next
           /\ \A b \in Arrays \ {a} : cur[b] = 0
        BY <1>6, <2>10
    <2>12. current' = [current EXCEPT ![t] = cur]
      <3>1. cur = [current[t] EXCEPT ![a] = d.next]
          BY <1>2, <2>10 DEF Nowhere
      <3>2. QED
          BY <2>7, <3>1
    <2>13. cur = [b \in Arrays |-> IF e.running /\ e.in = b
                                   THEN e.next - 1 ELSE 0]
      <3>1. e.next - 1 = d.next
          BY <1>6, <2>5
      <3>2. QED
          BY <2>5, <2>10, <3>1
    <2>14. Going(e, cur, TheArrays, wanted)
        BY <1>4, <1>5, <2>5, <2>9, <2>13 DEF Going
    <2>15. cur[a] \in DOMAIN array /\ current' # current
      <3>1. current'[t] = cur /\ current[t][a] = 0 /\ 0 \notin DOMAIN array
          BY <1>2, <1>4, <2>12 DEF Nowhere
      <3>2. QED
          BY <1>7, <2>11, <3>1
    <2>16. QED
        BY <1>2, <1>3, <2>5, <2>6, <2>8, <2>11, <2>12, <2>14, <2>15
           DEF CalledNext
  <1>10. QED
      BY <1>8, <1>9

\* The next callback of the signal is called.
LEMMA CallSignalKeeps ==
  ASSUME SignalInv, NEW t \in SignalThreads, CallSignal(t)
  PROVE  SignalInv'
  <1>1. /\ CallNext(t, "signal", callbacks)
        /\ UNCHANGED <<callbacks, signalling, global_callbacks, wanted, calls>>
      BY DEF CallSignal
  <1>2. "signal" \in Arrays /\ "global" \in Arrays /\ "signal" # "global"
      BY DEF Arrays
  <1>3. /\ calls' \in Nat /\ Array("signal") = callbacks
        /\ callbacks \in Seq(SignalType) /\ signalling \in BOOLEAN
      BY <1>1 DEF SignalInv, SignalsTypeOK, Array, SignalType
  <1>4. \A x \in SignalType : x.callback \in Called
      BY DEF SignalType, Called
  <1>5. PICK e \in DeliveryType, cur \in [Arrays -> Nat] :
            CalledNext(t, "signal", callbacks, e, cur)
    <2>1. PICK e, cur : CalledNext(t, "signal", callbacks, e, cur)
        BY <1>1, <1>2, <1>3, <1>4, CallNextIs
    <2>2. QED
        BY <2>1 DEF CalledNext
  <1>6. \A b : In(<<e>>, b) <=> b = "signal"
      BY <1>5 DEF In, CalledNext
  <1>7. /\ Intact(callbacks, wanted["signal"], In(deliveries[t], "signal"))
        /\ signalling <=> In(deliveries[t], "signal")
      BY <1>2, <1>3, <1>5, ArrayIs DEF CalledNext
  <1>8. Intact(callbacks, wanted["signal"], In(<<e>>, "signal"))
      BY <1>6, <1>7 DEF Intact
  <1>9. cur["global"] = current[t]["global"]
      BY <1>2, <1>5 DEF Nowhere, CalledNext
  <1>10. Alters(t, "signal", <<e>>, cur, callbacks)
      BY <1>1, <1>3, <1>5, <1>6, <1>7, <1>9 DEF Alters, CalledNext
  <1>11. \A b \in Arrays \ {"signal"} : In(<<e>>, b) <=> In(deliveries[t], b)
      BY <1>5, <1>6 DEF CalledNext
  <1>12. Going(e, cur, [TheArrays EXCEPT !["signal"] = callbacks], wanted)
      BY <1>2, <1>3, <1>5, ArraysStay DEF CalledNext
  <1>13. QED
      BY <1>1, <1>2, <1>3, <1>5, <1>8, <1>10, <1>11, <1>12, DeliverKeeps
         DEF CalledNext

\* A delivery goes on in an array in which nothing moves.
LEMMA GrownGoing ==
  ASSUME NEW a \in Arrays, NEW array, Grown(Array(a), array),
         NEW d, NEW cur, Going(d, cur, TheArrays, wanted), d.in = a
  PROVE  Going(d, cur, [TheArrays EXCEPT ![a] = array], wanted)
  <1>1. PICK arrays : arrays = [TheArrays EXCEPT ![a] = array]
      OBVIOUS
  <1>2. arrays[a] = array /\ TheArrays[a] = Array(a) /\ a # "between"
      BY <1>1 DEF TheArrays, Arrays
  <1>3. Follows(array, d)
      BY <1>2, GrownFollows DEF Going
  <1>4. Going(d, cur, arrays, wanted)
      BY <1>2, <1>3 DEF Going
  <1>5. QED
      BY <1>1, <1>4

\* The next global callback is called, and counted.
LEMMA CallGlobalKeeps ==
  ASSUME SignalInv, NEW t \in SignalThreads, CallGlobal(t)
  PROVE  SignalInv'
  <1>1. /\ CallNext(t, "global", global_callbacks)
        /\ UNCHANGED <<callbacks, signalling, wanted, calls>>
        /\ global_callbacks' = IF current' = current THEN global_callbacks
                               ELSE [global_callbacks EXCEPT
                                        ![current'[t]["global"]].signaling = @ + 1]
      BY DEF CallGlobal
  <1>2. "signal" \in Arrays /\ "global" \in Arrays /\ "signal" # "global"
      BY DEF Arrays
  <1>3. /\ calls' \in Nat /\ Array("global") = global_callbacks
        /\ global_callbacks \in Seq(GlobalType)
        /\ current \in [SignalThreads -> [Arrays -> Nat]]
      BY <1>1, <1>2 DEF SignalInv, SignalsTypeOK, Array, GlobalType
  <1>4. \A x \in GlobalType : x.callback \in Called
      BY DEF GlobalType, Called
  <1>5. PICK e \in DeliveryType, cur \in [Arrays -> Nat] :
            CalledNext(t, "global", global_callbacks, e, cur)
    <2>1. PICK e, cur : CalledNext(t, "global", global_callbacks, e, cur)
        BY <1>1, <1>2, <1>3, <1>4, CallNextIs
    <2>2. QED
        BY <2>1 DEF CalledNext
  <1>6. \A b : In(<<e>>, b) <=> b = "global"
      BY <1>5 DEF In, CalledNext
  <1>7. Intact(global_callbacks, wanted["global"], In(<<e>>, "global"))
    <2>1. Intact(global_callbacks, wanted["global"], In(deliveries[t], "global"))
        BY <1>2, <1>3, <1>5, ArrayIs DEF CalledNext
    <2>2. QED
        BY <1>5, <1>6, <2>1 DEF Intact, CalledNext
  <1>8. \A i \in DOMAIN global_callbacks : global_callbacks[i].signaling = 0
    <2>1. current[t]["global"] = 0
        BY <1>2, <1>5 DEF Nowhere, CalledNext
    <2>2. global_callbacks \in Seq(Quiet)
        BY <1>5, <2>1, NobodyCalls DEF CalledNext
    <2>3. \A i \in DOMAIN global_callbacks : global_callbacks[i] \in Quiet
        BY <2>2
    <2>4. QED
        BY <2>3 DEF Quiet
  <1>9. PICK array \in Seq(GlobalType) :
            /\ global_callbacks' = array /\ Grown(global_callbacks, array)
            /\ Intact(array, wanted["global"], In(<<e>>, "global"))
            /\ \A i \in DOMAIN array :
                   array[i].signaling = IF cur["global"] = i THEN 1 ELSE 0
    <2>1. CASE cur = Nowhere /\ UNCHANGED current
      <3>1. cur["global"] = 0 /\ 0 \notin DOMAIN global_callbacks
          BY <1>2, <1>3, <2>1 DEF Nowhere
      <3>2. QED
          BY <1>1, <1>3, <1>7, <1>8, <2>1, <3>1, StayGrown
    <2>2. CASE cur["global"] \in DOMAIN global_callbacks /\ current' # current
      <3>1. PICK p \in DOMAIN global_callbacks : p = cur["global"]
          BY <2>2
      <3>2. current'[t]["global"] = p
          BY <1>3, <1>5, <3>1 DEF CalledNext
      <3>3. PICK array : array = Recount(global_callbacks, p, 1)
          OBVIOUS
      <3>4. global_callbacks[p].signaling + 1 = 1
          BY <1>8
      <3>5. global_callbacks' = [global_callbacks EXCEPT
                                     ![p].signaling =
                                         global_callbacks[p].signaling + 1]
          BY <1>1, <2>2, <3>2
      <3>6. global_callbacks' = array
          BY <3>3, <3>4, <3>5 DEF Recount
      <3>7. /\ array \in Seq(GlobalType)
            /\ DOMAIN array = DOMAIN global_callbacks
            /\ \A i \in DOMAIN global_callbacks :
                   array[i].signaling =
                       IF i = p THEN 1 ELSE global_callbacks[i].signaling
            /\ Grown(global_callbacks, array)
            /\ Intact(array, wanted["global"], In(<<e>>, "global"))
        <4>1. 1 \in Nat /\ global_callbacks \in Seq(GlobalType)
            BY <1>3
        <4>2. /\ Recount(global_callbacks, p, 1) \in Seq(GlobalType)
              /\ Grown(global_callbacks, Recount(global_callbacks, p, 1))
              /\ DOMAIN Recount(global_callbacks, p, 1)
                     = DOMAIN global_callbacks
              /\ \A i \in DOMAIN global_callbacks :
                     Recount(global_callbacks, p, 1)[i].signaling =
                         IF i = p THEN 1 ELSE global_callbacks[i].signaling
            BY <4>1, GlobalCounts
        <4>3. Intact(Recount(global_callbacks, p, 1), wanted["global"],
                     In(<<e>>, "global"))
            BY <1>7, <4>1, RecountIntact
        <4>4. QED
            BY <3>3, <4>2, <4>3
      <3>8. QED
          BY <1>8, <3>1, <3>6, <3>7
    <2>3. QED
        BY <1>5, <2>1, <2>2 DEF CalledNext
  <1>10. Alters(t, "global", <<e>>, cur, array)
      BY <1>1, <1>2, <1>9 DEF Alters
  <1>11. \A b \in Arrays \ {"global"} : In(<<e>>, b) <=> In(deliveries[t], b)
      BY <1>5, <1>6 DEF CalledNext
  <1>12. Going(e, cur, [TheArrays EXCEPT !["global"] = array], wanted)
      BY <1>2, <1>3, <1>5, <1>9, GrownGoing DEF CalledNext
  <1>13. QED
      BY <1>1, <1>2, <1>3, <1>5, <1>9, <1>10, <1>11, <1>12, DeliverKeeps
         DEF CalledNext

\* A callback returns, and a global one is counted down.
LEMMA ReturnKeeps ==
  ASSUME SignalInv, NEW t \in SignalThreads, Return(t)
  PROVE  SignalInv'
  <1>1. deliveries[t] # <<>> /\ Last(deliveries[t]).running
      BY DEF Return
  <1>2. PICK d \in DeliveryType :
            /\ deliveries[t] = <<d>> /\ Last(deliveries[t]) = d
            /\ Front(deliveries[t]) = <<>>
            /\ Going(d, current[t], TheArrays, wanted)
            /\ \A b : In(deliveries[t], b) <=> d.in = b
      BY <1>1, DeliveryIs
  <1>3. d.running
      BY <1>1, <1>2
  <1>4. PICK a \in Arrays : a = d.in
      BY <1>2, <1>3 DEF Going, DeliveryType
  <1>5. PICK e : e = [d EXCEPT !.running = FALSE]
      OBVIOUS
  <1>6. /\ e \in DeliveryType /\ e.in = a /\ ~e.running /\ e.next = d.next
        /\ e.called = d.called /\ e.due = d.due
      BY <1>4, <1>5 DEF DeliveryType
  <1>7. /\ Replace(t, e) /\ current' = [current EXCEPT ![t][a] = 0]
        /\ global_callbacks' =
               IF a = "signal" THEN global_callbacks
               ELSE [global_callbacks EXCEPT ![d.next - 1].signaling = @ - 1]
        /\ UNCHANGED <<callbacks, signalling, wanted, calls>>
      BY <1>2, <1>4, <1>5 DEF Return
  <1>8. deliveries' = [deliveries EXCEPT ![t] = <<e>>]
      BY <1>2, <1>7, ReplaceIs
  <1>9. /\ "signal" \in Arrays /\ "global" \in Arrays /\ "signal" # "global"
        /\ "between" \notin Arrays /\ Arrays = {"signal", "global"}
      BY DEF Arrays
  <1>10. /\ calls' \in Nat /\ current \in [SignalThreads -> [Arrays -> Nat]]
         /\ signalling \in BOOLEAN
      BY <1>7 DEF SignalInv, SignalsTypeOK
  <1>11. \A u \in SignalThreads \ {t} : ~In(deliveries[u], a)
      BY <1>2, <1>4 DEF SignalInv
  <1>12. /\ Intact(Array(a), wanted[a], In(deliveries[t], a))
         /\ Array("signal") = callbacks /\ callbacks \in Seq(SignalType)
         /\ Array("global") = global_callbacks
         /\ global_callbacks \in Seq(GlobalType)
         /\ a = "signal" => (signalling <=> In(deliveries[t], a))
      BY <1>11, ArrayIs
  <1>13. PICK cur : cur = Nowhere
      OBVIOUS
  <1>14. /\ cur \in [Arrays -> Nat] /\ \A b \in Arrays : cur[b] = 0
         /\ current' = [current EXCEPT ![t] = cur]
    <2>1. current[t] = [b \in Arrays |-> IF b = a THEN d.next - 1 ELSE 0]
        BY <1>2, <1>3, <1>4 DEF Going
    <2>2. [current[t] EXCEPT ![a] = 0] = Nowhere
        BY <2>1 DEF Nowhere
    <2>3. current' = [current EXCEPT ![t] = [current[t] EXCEPT ![a] = 0]]
        BY <1>7
    <2>4. cur \in [Arrays -> Nat] /\ \A b \in Arrays : cur[b] = 0
        BY <1>13 DEF Nowhere
    <2>5. QED
        BY <1>13, <2>2, <2>3, <2>4
  <1>15. \A b : In(<<e>>, b) <=> b = a
      BY <1>6 DEF In
  <1>16. Follows(Array(a), d)
      BY <1>2, <1>4, <1>9 DEF Going, TheArrays
  <1>17. Going(e, cur, TheArrays, wanted)
    <2>1. TheArrays[a] = Array(a) /\ a # "between"
        BY <1>9 DEF TheArrays
    <2>2. Follows(Array(a), e)
        BY <1>6, <1>16, ReturnFollows
    <2>3. cur = [b \in Arrays |-> IF e.running /\ e.in = b
                                  THEN e.next - 1 ELSE 0]
        BY <1>6, <1>13 DEF Nowhere
    <2>4. IsInjective(e.called) /\ e.due \subseteq wanted[a]
        BY <1>2, <1>4, <1>6, <2>1 DEF Going
    <2>5. QED
        BY <1>6, <2>1, <2>2, <2>3, <2>4 DEF Going
  <1>18. \A b \in Arrays \ {a} : In(<<e>>, b) <=> In(deliveries[t], b)
      BY <1>2, <1>4, <1>15
  <1>19. In(deliveries[t], a) /\ In(<<e>>, a)
      BY <1>2, <1>4, <1>15
  <1>20. CASE a = "signal"
    <2>1. global_callbacks' = global_callbacks
        BY <1>7, <1>20
    <2>2. cur["global"] = current[t]["global"]
      <3>1. current[t]["global"] = 0
          BY <1>2, <1>4, <1>9, <1>20 DEF Going
      <3>2. QED
          BY <1>9, <1>14, <3>1
    <2>3. Alters(t, "signal", <<e>>, cur, callbacks)
        BY <1>7, <1>10, <1>12, <1>19, <1>20, <2>1, <2>2 DEF Alters
    <2>4. Intact(callbacks, wanted["signal"], In(<<e>>, "signal"))
        BY <1>12, <1>19, <1>20 DEF Intact
    <2>5. Going(e, cur, [TheArrays EXCEPT !["signal"] = callbacks], wanted)
        BY <1>9, <1>12, <1>17, ArraysStay
    <2>6. /\ \A u \in SignalThreads \ {t} : ~In(deliveries[u], "signal")
          /\ \A b \in Arrays \ {"signal"} : In(<<e>>, b) <=> In(deliveries[t], b)
        BY <1>11, <1>18, <1>20
    <2>7. QED
        BY <1>6, <1>7, <1>8, <1>9, <1>10, <1>14, <2>3, <2>4, <2>5, <2>6,
           DeliverKeeps
  <1>21. CASE a = "global"
    <2>1. PICK p \in DOMAIN global_callbacks : p = d.next - 1
      <3>1. d.next - 1 \in 1 .. Len(global_callbacks)
          BY <1>3, <1>12, <1>16, <1>21 DEF Follows
      <3>2. QED
          BY <1>12, <3>1
    <2>2. current[t]["global"] = p
        BY <1>2, <1>3, <1>4, <1>21, <2>1 DEF Going
    <2>3. \A i \in DOMAIN global_callbacks :
              global_callbacks[i].signaling = IF i = p THEN 1 ELSE 0
        BY <1>11, <1>21, <2>2, CountIs
    <2>4. PICK array : array = Recount(global_callbacks, p, 0)
        OBVIOUS
    <2>5. global_callbacks' = array
      <3>1. global_callbacks[p].signaling - 1 = 0
          BY <2>3
      <3>2. global_callbacks' = [global_callbacks EXCEPT
                                     ![p].signaling =
                                         global_callbacks[p].signaling - 1]
          BY <1>7, <1>9, <1>21, <2>1
      <3>3. QED
          BY <2>4, <3>1, <3>2 DEF Recount
    <2>6. 0 \in Nat /\ global_callbacks \in Seq(GlobalType)
        BY <1>12
    <2>7. /\ array \in Seq(GlobalType)
          /\ DOMAIN array = DOMAIN global_callbacks
          /\ \A i \in DOMAIN global_callbacks :
                 array[i].signaling =
                     IF i = p THEN 0 ELSE global_callbacks[i].signaling
          /\ Grown(global_callbacks, array)
      <3>1. /\ Recount(global_callbacks, p, 0) \in Seq(GlobalType)
            /\ Grown(global_callbacks, Recount(global_callbacks, p, 0))
            /\ DOMAIN Recount(global_callbacks, p, 0) = DOMAIN global_callbacks
            /\ \A i \in DOMAIN global_callbacks :
                   Recount(global_callbacks, p, 0)[i].signaling =
                       IF i = p THEN 0 ELSE global_callbacks[i].signaling
          BY <2>6, GlobalCounts
      <3>2. QED
          BY <2>4, <3>1
    <2>8. \A i \in DOMAIN array :
              array[i].signaling = IF cur["global"] = i THEN 1 ELSE 0
      <3>1. \A i \in DOMAIN array : array[i].signaling = 0 /\ i # 0
          BY <1>12, <2>3, <2>7
      <3>2. cur["global"] = 0
          BY <1>9, <1>14
      <3>3. QED
          BY <3>1, <3>2
    <2>9. Alters(t, "global", <<e>>, cur, array)
        BY <1>7, <1>9, <2>5, <2>7, <2>8 DEF Alters
    <2>10. Intact(array, wanted["global"], In(<<e>>, "global"))
      <3>1. Intact(global_callbacks, wanted["global"], In(deliveries[t], "global"))
          BY <1>12, <1>21
      <3>2. Intact(array, wanted["global"], In(deliveries[t], "global"))
          BY <2>4, <2>6, <3>1, RecountIntact
      <3>3. QED
          BY <1>19, <1>21, <3>2 DEF Intact
    <2>11. Going(e, cur, [TheArrays EXCEPT !["global"] = array], wanted)
        BY <1>6, <1>9, <1>12, <1>17, <1>21, <2>7, GrownGoing
    <2>12. /\ \A u \in SignalThreads \ {t} : ~In(deliveries[u], "global")
           /\ \A b \in Arrays \ {"global"} : In(<<e>>, b) <=> In(deliveries[t], b)
        BY <1>11, <1>18, <1>21
    <2>13. QED
        BY <1>6, <1>7, <1>8, <1>9, <1>10, <1>14, <2>9, <2>10, <2>11, <2>12,
           DeliverKeeps
  <1>22. QED
      BY <1>9, <1>20, <1>21

-----------------------------------------------------------------------------
(* Signals: the theorem                                                     *)

\* Nothing is connected, and nobody signals.
LEMMA SignalsBegin ==
  SignalsInit => SignalInv
  <1> SUFFICES ASSUME SignalsInit PROVE SignalInv
      OBVIOUS
  <1>1. /\ callbacks = <<>> /\ signalling = FALSE /\ global_callbacks = <<>>
        /\ deliveries = [t \in SignalThreads |-> <<>>]
        /\ current = [t \in SignalThreads |-> Nowhere]
        /\ wanted = [a \in Arrays |-> {}] /\ calls = 0
      BY DEF SignalsInit, Nowhere
  <1>2. Nowhere \in [Arrays -> Nat]
      BY DEF Nowhere
  <1>3. SignalsTypeOK
    <2>1. \A S : <<>> \in Seq(S)
        BY EmptySeq
    <2>2. QED
        BY <1>1, <1>2, <2>1 DEF SignalsTypeOK
  <1>4. \A t \in SignalThreads :
            Fine(deliveries[t], current[t], TheArrays, wanted)
      BY <1>1 DEF Fine
  <1>5. \A t \in SignalThreads : \A a : ~In(deliveries[t], a)
      BY <1>1 DEF In
  <1>6. ASSUME NEW a \in Arrays
        PROVE  Intact(Array(a), wanted[a],
                      \E t \in SignalThreads : In(deliveries[t], a))
    <2>1. Array(a) = <<>> /\ wanted[a] = {}
        BY <1>1 DEF Array
    <2>2. StillConnected(<<>>) = {} /\ Distinct(<<>>) /\ Unmarked(<<>>)
        BY DEF StillConnected, Distinct, Unmarked
    <2>3. QED
        BY <2>1, <2>2 DEF Intact
  <1>7. \A i \in DOMAIN global_callbacks : IsCounted(i)
      BY <1>1
  <1>8. QED
      BY <1>1, <1>3, <1>4, <1>5, <1>6, <1>7 DEF SignalInv

\* Every step keeps the invariant, when callbacks do not interfere in the ways
\* of SignalRaces.
LEMMA SignalsNextKeeps ==
  ASSUME SignalRaces = {}, SignalInv, [SignalsNext]_signalVars
  PROVE  SignalInv'
  <1>1. CASE SignalsNext
    <2>1. PICK t \in SignalThreads : SignalCall(t) \/ Deliver(t)
        BY <1>1 DEF SignalsNext
    <2>2. ASSUME NEW c \in SignalCallbacks, ConnectCallback(t, c)
          PROVE  SignalInv'
        BY <2>2, ConnectKeeps
    <2>3. ASSUME NEW c \in SignalCallbacks, DisconnectCallback(t, c)
          PROVE  SignalInv'
        BY <2>3, DisconnectKeeps
    <2>4. ASSUME NEW c \in GlobalCallbacks, ConnectGlobal(t, c)
          PROVE  SignalInv'
        BY <2>4, ConnectGlobalKeeps
    <2>5. ASSUME NEW c \in GlobalCallbacks, DisconnectGlobal(t, c)
          PROVE  SignalInv'
        BY <2>5, DisconnectGlobalKeeps
    <2>6. CASE RemoveCurrent(t)
        BY <2>6, RemoveCurrentKeeps
    <2>7. CASE BeginSignal(t)
        BY <2>7, BeginSignalKeeps
    <2>8. CASE CallSignal(t)
        BY <2>8, CallSignalKeeps
    <2>9. CASE CallGlobal(t)
        BY <2>9, CallGlobalKeeps
    <2>10. CASE Return(t)
        BY <2>10, ReturnKeeps
    <2>11. CASE EndSignal(t)
        BY <2>11, EndSignalKeeps
    <2>12. CASE BeginGlobal(t)
        BY <2>12, BeginGlobalKeeps
    <2>13. CASE EndGlobal(t)
        BY <2>13, EndGlobalKeeps
    <2>14. QED
        BY <2>1, <2>2, <2>3, <2>4, <2>5, <2>6, <2>7, <2>8, <2>9, <2>10, <2>11,
           <2>12, <2>13, Zenon DEF SignalCall, Deliver
  <1>2. CASE UNCHANGED signalVars
    <2>1. /\ UNCHANGED <<callbacks, signalling, global_callbacks>>
          /\ UNCHANGED <<deliveries, current, wanted, calls>>
        BY <1>2 DEF signalVars
    <2>2. TheArrays' = TheArrays /\ \A a : Array(a)' = Array(a)
        BY <2>1 DEF TheArrays, Array
    <2>3. SignalsTypeOK'
        BY <2>1, Zenon DEF SignalInv, SignalsTypeOK, DeliveryType
    <2>4. QED
        BY <2>1, <2>2, <2>3, Zenon DEF SignalInv, IsCounted
  <1>3. QED
      BY <1>1, <1>2

\* A delivery is right for what is connected.
LEMMA InvDelivers ==
  ASSUME SignalInv
  PROVE  DeliveredOnce
  <1>1. /\ "signal" \in Arrays /\ "global" \in Arrays /\ "signal" # "global"
        /\ "between" \notin Arrays
      BY DEF Arrays
  <1>2. /\ Array("signal") = callbacks /\ Array("global") = global_callbacks
        /\ global_callbacks \in Seq(GlobalType)
      BY <1>1 DEF Array, SignalInv, SignalsTypeOK, GlobalType
  <1>3. /\ StillConnected(callbacks) = wanted["signal"]
        /\ StillConnected(global_callbacks) = wanted["global"]
      BY <1>1, <1>2 DEF SignalInv, Intact
  <1>4. ASSUME NEW t \in SignalThreads, NEW i \in DOMAIN deliveries[t]
        PROVE  /\ IsInjective(deliveries[t][i].called)
               /\ deliveries[t][i].in = "between" =>
                      deliveries[t][i].due
                          \subseteq ToSet(deliveries[t][i].called)
    <2>1. deliveries[t] # <<>>
        BY <1>4
    <2>2. PICK d \in DeliveryType :
              deliveries[t] = <<d>> /\ Going(d, current[t], TheArrays, wanted)
        BY <2>1, DeliveryIs
    <2>3. deliveries[t][i] = d
        BY <2>2
    <2>4. QED
        BY <2>2, <2>3 DEF Going
  <1>5. ASSUME NEW t \in SignalThreads, Walking(t, "global"),
               Last(deliveries[t]).next > Len(global_callbacks)
        PROVE  Last(deliveries[t]).due
                   \subseteq ToSet(Last(deliveries[t]).called)
    <2>1. PICK d \in DeliveryType :
              /\ Last(deliveries[t]) = d /\ d.in = "global"
              /\ Going(d, current[t], TheArrays, wanted)
        BY <1>5, WalkingIs
    <2>2. TheArrays["global"] = global_callbacks
        BY <1>1, <1>2 DEF TheArrays
    <2>3. Follows(global_callbacks, d) /\ d.due \subseteq wanted["global"]
        BY <1>1, <2>1, <2>2 DEF Going
    <2>4. PICK held : Intact(global_callbacks, wanted["global"], held)
        BY <1>1, <1>2 DEF SignalInv
    <2>5. d.due \subseteq ToSet(d.called)
        BY <1>2, <1>5, <2>1, <2>3, <2>4, EndReaches
    <2>6. QED
        BY <2>1, <2>5
  <1>6. QED
      BY <1>3, <1>4, <1>5 DEF DeliveredOnce

\* The arrays, the deliveries and what is connected belong together, for any
\* threads and callbacks.
THEOREM SignalInvHolds == SignalRaces = {} => (SignalsSpec => []SignalInv)
  <1> SUFFICES ASSUME SignalRaces = {} PROVE SignalsSpec => []SignalInv
      OBVIOUS
  <1>1. SignalsInit => SignalInv
      BY SignalsBegin
  <1>2. SignalInv /\ [SignalsNext]_signalVars => SignalInv'
      BY SignalsNextKeeps
  <1>3. QED
      BY <1>1, <1>2, PTL DEF SignalsSpec

\* Whatever callbacks connect and disconnect while they are called, by any
\* number of threads, a delivery reaches each callback that stays connected, and
\* none twice.
THEOREM SignalsDelivered == SignalRaces = {} => (SignalsSpec => []DeliveredOnce)
  <1>1. SignalInv => DeliveredOnce
      BY InvDelivers
  <1>2. QED
      BY <1>1, SignalInvHolds, PTL
================================================================================
