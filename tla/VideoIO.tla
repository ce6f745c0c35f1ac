------------------------------- MODULE VideoIO -------------------------------
(***************************************************************************)
(* The video frame cache of libobs/media-io/video-io.c: the graphics thread *)
(* hands finished frames to a ring of cache slots, the "video-io" thread    *)
(* plays every slot out to the connected inputs (encoders and raw outputs)  *)
(* once per frame interval that the slot stands for.                        *)
(*                                                                         *)
(* Time is counted in frame intervals (video->frame_time is 1).  A frame    *)
(* that the graphics thread rendered late stands for `count' intervals      *)
(* (video_sleep of obs-video.c), and a frame that finds every slot taken is *)
(* dropped: its intervals are added to the newest slot, which is then       *)
(* repeated.  Picture contents are not modelled.                            *)
(***************************************************************************)
EXTENDS Integers

CONSTANTS
    Inputs,       \* the (callback, param) pairs that may connect
    Converting,   \* those of Inputs that go through a scaler, which may fail
    CacheSize,    \* video_output_info.cache_size
    MaxCount,     \* bound: the largest lag of a single frame, in intervals
    MaxClock      \* bound: the intervals the graphics thread renders

ASSUME VideoIOAssumption ==
    /\ Converting \subseteq Inputs
    /\ CacheSize \in Nat \ {0}
    /\ MaxCount \in Nat \ {0}
    /\ MaxClock \in Nat

VARIABLES
    available_frames, first_added, last_added, cache,   \* data_mutex
    inputs,                                             \* input_mutex
    update_semaphore, stop,
    skipped_frames, total_frames,
    clock,        \* the first interval no frame was submitted for (video_time)
    render,       \* where the graphics thread is
    thread,       \* where the video thread is
    frame_info,   \* the video thread's local: the slot it plays
    complete,     \* the video thread's local: that slot is used up
    reg,          \* the counter value the video thread is about to increment
    stopper,      \* where the caller of video_output_stop is
    seen          \* history: last timestamp each connected input was called with

cacheVars  == <<available_frames, first_added, last_added, cache>>
statVars   == <<skipped_frames, total_frames>>
threadVars == <<thread, frame_info, complete, reg>>
vars == <<cacheVars, inputs, update_semaphore, stop, statVars, clock, render,
          threadVars, stopper, seen>>

Slot     == 0 .. CacheSize - 1
Unseen   == -1
SlotInfo == [timestamp : Nat, count : Nat, skipped : Nat]

\* The slot after i: ++i == cache_size wraps to 0.
Succ(i) == IF i + 1 = CacheSize THEN 0 ELSE i + 1

\* How far slot i lies ahead of first_added.
Ahead(i) == IF i >= first_added THEN i - first_added
                                ELSE i - first_added + CacheSize

\* The slots submitted and not played out, the one being written included.
Queued == CacheSize - available_frames + (IF render = "writing" THEN 1 ELSE 0)

Pending(i) == Ahead(i) < Queued

-----------------------------------------------------------------------------
(* Initial state: video_output_open has returned, nothing is connected.     *)

Init ==
    /\ available_frames = CacheSize
    /\ first_added = 0 /\ last_added = 0
    /\ cache = [i \in Slot |-> [timestamp |-> 0, count |-> 0, skipped |-> 0]]
    /\ inputs = {}
    /\ update_semaphore = 0 /\ stop = FALSE
    /\ skipped_frames = 0 /\ total_frames = 0
    /\ clock = 0 /\ render = "top"
    /\ thread = "wait" /\ frame_info = 0 /\ complete = FALSE /\ reg = 0
    /\ stopper = "idle"
    /\ seen = [i \in Inputs |-> Unseen]

-----------------------------------------------------------------------------
(* The graphics thread                                                      *)

\* The head of the loop of obs_graphics_thread.
RenderTop ==
    /\ render = "top"
    /\ \/ stop /\ render' = "done"
       \/ ~stop /\ clock < MaxClock /\ render' = "frame"
    /\ UNCHANGED <<cacheVars, inputs, update_semaphore, stop, statVars, clock,
                   threadVars, stopper, seen>>

\* Faulty variant: only the skipped counter learns of the dropped frame.
CoalesceCountOnce(count) ==
    /\ available_frames = 0
    /\ cache' = [cache EXCEPT ![last_added].skipped = @ + count]
    /\ render' = "top"
    /\ UNCHANGED last_added

\* Faulty variant: the oldest slot is prolonged, not the newest.
CoalesceOldest(count) ==
    /\ available_frames = 0
    /\ cache' = [cache EXCEPT ![first_added] =
          [timestamp |-> @.timestamp, count |-> @.count + count,
           skipped |-> @.skipped + count]]
    /\ render' = "top"
    /\ UNCHANGED last_added

\* video_output_lock_frame with no slot left: the newest slot is prolonged.
CoalesceFrame(count) ==
    /\ available_frames = 0
    /\ cache' = [cache EXCEPT ![last_added] =
          [timestamp |-> @.timestamp, count |-> @.count + count,
           skipped |-> @.skipped + count]]
    /\ render' = "top"
    /\ UNCHANGED last_added

\* Faulty variant: the slot of the newest frame is always taken again.
TakeSlotInPlace(count) ==
    /\ available_frames # 0
    /\ cache' = [cache EXCEPT ![last_added] =
                    [timestamp |-> clock, count |-> count, skipped |-> 0]]
    /\ render' = "writing"
    /\ UNCHANGED last_added

\* video_output_lock_frame with a free slot.
TakeSlot(count) ==
    /\ available_frames # 0
    /\ LET slot == IF available_frames = CacheSize THEN last_added
                                                   ELSE Succ(last_added)
       IN  /\ last_added' = slot
           /\ cache' = [cache EXCEPT ![slot] =
                 [timestamp |-> clock, count |-> count, skipped |-> 0]]
    /\ render' = "writing"

LockFrame ==
    /\ render = "frame"
    /\ \E count \in 1 .. MaxCount :
          /\ clock + count =< MaxClock
          /\ clock' = clock + count
          /\ CoalesceFrame(count) \/ TakeSlot(count)
    /\ UNCHANGED <<available_frames, first_added, inputs, update_semaphore,
                   stop, statVars, threadVars, stopper, seen>>

\* Faulty variant: the video thread is not woken.
UnlockWithoutPost ==
    /\ render = "writing"
    /\ render' = "top"
    /\ available_frames' = available_frames - 1
    /\ UNCHANGED <<first_added, last_added, cache, inputs, update_semaphore,
                   stop, statVars, clock, threadVars, stopper, seen>>

UnlockFrame ==
    /\ render = "writing"
    /\ render' = "top"
    /\ available_frames' = available_frames - 1
    /\ update_semaphore' = update_semaphore + 1
    /\ UNCHANGED <<first_added, last_added, cache, inputs, stop, statVars,
                   clock, threadVars, stopper, seen>>

-----------------------------------------------------------------------------
(* The video thread                                                         *)

\* os_sem_wait returned; the thread leaves when it was woken to stop.
Wake ==
    /\ thread = "wait" /\ update_semaphore > 0
    /\ update_semaphore' = update_semaphore - 1
    /\ thread' = IF stop THEN "exit" ELSE "enter"
    /\ UNCHANGED <<cacheVars, inputs, stop, statVars, clock, render,
                   frame_info, complete, reg, stopper, seen>>

\* The loop condition: stop is tested, then the oldest slot is picked.
Enter ==
    /\ thread = "enter"
    /\ \/ /\ stop
          /\ thread' = "tally" /\ complete' = TRUE
          /\ UNCHANGED frame_info
       \/ /\ ~stop
          /\ thread' = "callbacks" /\ frame_info' = first_added
          /\ UNCHANGED complete
    /\ UNCHANGED <<cacheVars, inputs, update_semaphore, stop, statVars, clock,
                   render, reg, stopper, seen>>

\* Every input is called under input_mutex; a failed scaling skips its input.
Callbacks ==
    /\ thread = "callbacks"
    /\ thread' = "commit"
    /\ \E failed \in SUBSET (inputs \cap Converting) :
          seen' = [i \in Inputs |-> IF i \in inputs \ failed
                                    THEN cache[frame_info].timestamp
                                    ELSE seen[i]]
    /\ UNCHANGED <<cacheVars, inputs, update_semaphore, stop, statVars, clock,
                   render, frame_info, complete, reg, stopper>>

\* Faulty variant: last_added is not brought along when the cache runs empty.
FreeSlotOnly(left) ==
    /\ left.count = 0
    /\ complete' = TRUE
    /\ cache' = [cache EXCEPT ![frame_info] = left]
    /\ first_added' = Succ(first_added)
    /\ available_frames' = available_frames + 1
    /\ thread' = "tally"
    /\ UNCHANGED <<reg, last_added>>

\* The last interval of the slot was played: the slot is free again.
FreeSlot(left) ==
    /\ left.count = 0
    /\ complete' = TRUE
    /\ cache' = [cache EXCEPT ![frame_info] = left]
    /\ first_added' = Succ(first_added)
    /\ available_frames' = available_frames + 1
    /\ last_added' = IF available_frames' = CacheSize THEN first_added'
                                                      ELSE last_added
    /\ thread' = "tally"
    /\ UNCHANGED reg

\* The slot is played again; a dropped frame's interval counts as skipped.
RepeatSlot(left) ==
    /\ left.count # 0
    /\ complete' = FALSE
    /\ \/ /\ left.skipped > 0
          /\ cache' = [cache EXCEPT ![frame_info] =
                                       [left EXCEPT !.skipped = @ - 1]]
          /\ thread' = "skip" /\ reg' = skipped_frames
       \/ /\ left.skipped = 0
          /\ cache' = [cache EXCEPT ![frame_info] = left]
          /\ thread' = "tally" /\ UNCHANGED reg
    /\ UNCHANGED <<first_added, available_frames, last_added>>

\* Faulty variant: a repeated frame keeps its time stamp.
CommitKeepingTime ==
    /\ thread = "commit"
    /\ LET slot == cache[frame_info]
           left == [slot EXCEPT !.count = @ - 1]
       IN  FreeSlot(left) \/ RepeatSlot(left)
    /\ UNCHANGED <<inputs, update_semaphore, stop, statVars, clock, render,
                   frame_info, stopper, seen>>

\* The second data_mutex section of video_output_cur_frame.
Commit ==
    /\ thread = "commit"
    /\ LET slot == cache[frame_info]
           left == [timestamp |-> slot.timestamp + 1, count |-> slot.count - 1,
                    skipped |-> slot.skipped]
       IN  FreeSlot(left) \/ RepeatSlot(left)
    /\ UNCHANGED <<inputs, update_semaphore, stop, statVars, clock, render,
                   frame_info, stopper, seen>>

\* ++skipped_frames is not protected against the reset in Connect, and
\* total_frames++ below holds no lock at all: the load and the store of each
\* are two steps.
StoreSkipped ==
    /\ thread = "skip"
    /\ skipped_frames' = reg + 1
    /\ thread' = "tally"
    /\ UNCHANGED <<cacheVars, inputs, update_semaphore, stop, total_frames,
                   clock, render, frame_info, complete, reg, stopper, seen>>

LoadTotal ==
    /\ thread = "tally"
    /\ reg' = total_frames
    /\ thread' = "store"
    /\ UNCHANGED <<cacheVars, inputs, update_semaphore, stop, statVars, clock,
                   render, frame_info, complete, stopper, seen>>

StoreTotal ==
    /\ thread = "store"
    /\ total_frames' = reg + 1
    /\ thread' = IF complete THEN "wait" ELSE "enter"
    /\ UNCHANGED <<cacheVars, inputs, update_semaphore, stop, skipped_frames,
                   clock, render, frame_info, complete, reg, stopper, seen>>

-----------------------------------------------------------------------------
(* Calls from other threads                                                 *)

\* The first input to connect restarts the statistics; a second connection
\* of the same input is refused, and so is one whose scaler cannot be made.
Connect(i) ==
    /\ \/ inputs' = inputs \cup {i}
       \/ i \in Converting /\ UNCHANGED inputs
    /\ IF inputs = {} THEN skipped_frames' = 0 /\ total_frames' = 0
                      ELSE UNCHANGED statVars
    /\ seen' = [seen EXCEPT ![i] = IF i \in inputs THEN @ ELSE Unseen]
    /\ UNCHANGED <<cacheVars, update_semaphore, stop, clock, render,
                   threadVars, stopper>>

Disconnect(i) ==
    /\ i \in inputs
    /\ inputs' = inputs \ {i}
    /\ seen' = [seen EXCEPT ![i] = Unseen]
    /\ UNCHANGED <<cacheVars, update_semaphore, stop, statVars, clock, render,
                   threadVars, stopper>>

\* video_output_stop up to pthread_join.
Stop ==
    /\ stopper = "idle"
    /\ stopper' = "joining"
    /\ stop' = TRUE
    /\ update_semaphore' = update_semaphore + 1
    /\ UNCHANGED <<cacheVars, inputs, statVars, clock, render, threadVars, seen>>

Join ==
    /\ stopper = "joining" /\ thread = "exit"
    /\ stopper' = "joined"
    /\ UNCHANGED <<cacheVars, inputs, update_semaphore, stop, statVars, clock,
                   render, threadVars, seen>>

-----------------------------------------------------------------------------

RenderThread == RenderTop \/ LockFrame \/ UnlockFrame

VideoThread ==
    Wake \/ Enter \/ Callbacks \/ Commit \/ StoreSkipped \/ LoadTotal \/ StoreTotal

Callers == Stop \/ Join \/ \E i \in Inputs : Connect(i) \/ Disconnect(i)

Next == RenderThread \/ VideoThread \/ Callers

\* Both threads and a caller inside pthread_join keep running.  Nothing obliges
\* anyone to connect, to disconnect or to stop.
Fairness == WF_vars(RenderThread) /\ WF_vars(VideoThread) /\ WF_vars(Join)

Spec == Init /\ [][Next]_vars /\ Fairness

-----------------------------------------------------------------------------
(* Properties                                                               *)

TypeOK ==
    /\ available_frames \in 0 .. CacheSize
    /\ first_added \in Slot /\ last_added \in Slot
    /\ cache \in [Slot -> SlotInfo]
    /\ inputs \in SUBSET Inputs
    /\ update_semaphore \in Nat /\ stop \in BOOLEAN
    /\ skipped_frames \in Nat /\ total_frames \in Nat
    /\ clock \in Nat
    /\ render \in {"top", "frame", "writing", "done"}
    /\ thread \in {"wait", "enter", "callbacks", "commit", "skip", "tally",
                   "store", "exit"}
    /\ frame_info \in Slot /\ complete \in BOOLEAN /\ reg \in Nat
    /\ stopper \in {"idle", "joining", "joined"}
    /\ seen \in [Inputs -> Nat \cup {Unseen}]

\* The video thread reads a slot's picture without data_mutex (video_input
\* callbacks run on frame_info->frame), so it must never be inside the slot
\* that the graphics thread is filling between lock_frame and unlock_frame.
NoTornFrame ==
    render = "writing" /\ thread \in {"callbacks", "commit"}
        => frame_info # last_added

\* Queued slots tile the time line: each one ends where the next begins, and
\* the newest ends at the graphics thread's clock, whatever was coalesced.
SlotsTileTime ==
    \A i \in Slot : Pending(i) =>
        LET end == cache[i].timestamp + cache[i].count
        IN  IF i = last_added THEN end = clock
                              ELSE end = cache[Succ(i)].timestamp

\* A slot in use always has intervals left to play, and fewer of them are
\* marked skipped than are left: no skipped interval is forgotten when the
\* slot is freed, and count never wraps below zero.
SkipsWithinCount ==
    \A i \in Slot : Pending(i) => cache[i].skipped < cache[i].count

\* The video thread has taken up a slot and not freed it.
Playing ==
    \/ thread \in {"enter", "callbacks", "commit", "skip"}
    \/ thread \in {"tally", "store"} /\ ~complete

\* The semaphore holds one wake-up for every submitted slot that the video
\* thread has not taken up: no frame is stranded in the cache and the thread
\* never wakes to an empty one.
WakeupsMatchSlots ==
    thread # "exit" /\ ~stop =>
        update_semaphore + (IF Playing THEN 1 ELSE 0)
            = CacheSize - available_frames

\* The interval the video thread plays next: where the oldest slot starts.
Shown ==
    IF Queued = 0 THEN clock
    ELSE IF thread = "commit" THEN cache[first_added].timestamp + 1
    ELSE cache[first_added].timestamp

\* The cache implements the plain time line of FrameStream.
Stream == INSTANCE FrameStream WITH submitted <- clock, shown <- Shown

ImplementsFrameStream == Stream!Spec

\* An input that stays connected and needs no scaler is called for every
\* interval once, in order; a failing scaler can only leave intervals out.
EveryIntervalOnce ==
    [][\A i \in Inputs :
          (seen[i] # Unseen /\ seen'[i] # Unseen /\ seen'[i] # seen[i]) =>
              IF i \in Converting THEN seen'[i] > seen[i]
                                  ELSE seen'[i] = seen[i] + 1]_vars

\* video_output_stop returns: the video thread always notices the request,
\* also in the middle of a slot with many intervals left.
StopReturns == stopper = "joining" ~> stopper = "joined"

\* Every submitted interval is eventually played, unless the output is stopped;
\* and stopped it is when that is asked.
EveryIntervalPlayed ==
    /\ \A t \in 0 .. MaxClock - 1 : clock > t ~> Shown > t \/ stop
    /\ StopReturns

-----------------------------------------------------------------------------
(* The inductive invariant behind the safety properties: the queued slots    *)
(* run from first_added to last_added without a hole and do not reach past   *)
(* the clock, the video thread works on the oldest one, and no input is      *)
(* ahead of or behind the time line.                                         *)

QueueShape ==
    /\ render = "writing" => available_frames > 0
    /\ IF Queued = 0 THEN last_added = first_added
                     ELSE Ahead(last_added) = Queued - 1

SlotsBehindClock ==
    \A i \in Slot : Pending(i) => cache[i].timestamp + cache[i].count =< clock

ThreadHoldsSlot ==
    /\ Playing => available_frames < CacheSize
    /\ thread \in {"callbacks", "commit"} => frame_info = first_added
    /\ thread = "skip" => ~complete

SeenIsCurrent ==
    \A i \in Inputs :
        /\ i \notin inputs => seen[i] = Unseen
        /\ seen[i] # Unseen =>
              IF i \in Converting THEN seen[i] < Shown
                                  ELSE seen[i] + 1 = Shown

IndInv ==
    /\ TypeOK /\ QueueShape /\ SlotsTileTime /\ SlotsBehindClock
    /\ SkipsWithinCount /\ WakeupsMatchSlots /\ ThreadHoldsSlot /\ SeenIsCurrent

=============================================================================
