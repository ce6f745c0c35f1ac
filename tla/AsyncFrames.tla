----------------------------- MODULE AsyncFrames -----------------------------
(***************************************************************************)
(* The frames of an asynchronous source (libobs/obs-source.c and            *)
(* obs-source-deinterlace.c).  The capture thread copies what a device      *)
(* delivers into a frame of the cache and queues it, the graphics thread    *)
(* takes the frames that are due and drops the others, passes one through   *)
(* the filters and releases it.  The asynchronous delay filter of           *)
(* plugins/obs-filters keeps frames for a while.  Time stamps are left out: *)
(* any frame of the queue can be the one that is due.                       *)
(* An operator whose comment says it is faulty is used by no action.        *)
(***************************************************************************)
EXTENDS Naturals, Sequences, FiniteSetsExt

CONSTANTS
    NumFrames,      \* bound: frames that exist at a time
    MAX_ASYNC_FRAMES, MAX_UNUSED_FRAME_DURATION,
    MaxDelayed,     \* bound: frames in the asynchronous delay filter
    AsyncRaces      \* what may coincide, see below

(* async_tick reads cur_async_frame again after it has released async_mutex. *)
(* "resize": the capture thread may free the cache before it is done with    *)
(* that frame; left out, it may not.                                         *)
ASSUME AsyncFramesAssumption ==
    /\ NumFrames \in Nat /\ MAX_ASYNC_FRAMES \in Nat \ {0}
    /\ MAX_UNUSED_FRAME_DURATION \in Nat \ {0}
    /\ MaxDelayed \in Nat /\ AsyncRaces \subseteq {"resize"}

VARIABLES
    refs,               \* obs_source_frame.refs; 0 when it is not allocated
    async_cache,        \* [used, unused_count] of each frame it holds
    async_frames,       \* the frames that wait to be shown
    cur_async_frame, prev_async_frame,
    copying, \* the capture thread: the frame in its hand and what it does
    showing, \* the graphics thread: the frame in its hand and what it does
    delayed  \* the frames the asynchronous delay filter keeps

shownVars == <<cur_async_frame, prev_async_frame>>
asyncVars == <<refs, async_cache, async_frames, shownVars, copying, showing,
               delayed>>

NULL == 0
Frames == 1 .. NumFrames
NoCache == [f \in {} |-> [used |-> FALSE, unused_count |-> 0]]
FrameOrNull == Frames \cup {NULL}
Idle == [at |-> "idle", frame |-> NULL]

AsyncInit ==
    /\ refs = [f \in Frames |-> 0]
    /\ async_cache = NoCache /\ async_frames = <<>>
    /\ cur_async_frame = NULL /\ prev_async_frame = NULL
    /\ copying = Idle /\ showing = Idle /\ delayed = <<>>

Cached == DOMAIN async_cache
Elements(s) == {s[i] : i \in DOMAIN s}

\* Every frame some variable points to.
InUse == (Cached \cup Elements(async_frames) \cup Elements(delayed)
          \cup {cur_async_frame, prev_async_frame, copying.frame,
                showing.frame}) \ {NULL}

\* remove_async_frame, for all frames of a set: they may be used again.
Removed(cache, frames) ==
    [f \in DOMAIN cache |-> [cache[f] EXCEPT !.used = @ /\ f \notin frames]]

-----------------------------------------------------------------------------
(* The capture thread: obs_source_output_video                              *)

MayCapture == "resize" \in AsyncRaces \/ showing.at # "resize"

\* Faulty: the frames are freed although somebody holds them.
FreeCached == [f \in Frames |-> IF f \in Cached THEN 0 ELSE refs[f]]

\* free_async_cache: what is left of the counts of references.
Decref == [f \in Frames |-> IF f \in Cached THEN refs[f] - 1 ELSE refs[f]]

\* cache_video with a full queue, which nobody reads: everything is dropped.
CacheOverflows ==
    /\ MayCapture /\ copying.at = "idle"
    /\ Len(async_frames) >= MAX_ASYNC_FRAMES
    /\ refs' = Decref
    /\ async_cache' = NoCache /\ async_frames' = <<>>
    /\ cur_async_frame' = NULL /\ prev_async_frame' = NULL
    /\ UNCHANGED <<copying, showing, delayed>>

\* clean_cache: frames that have not been used for a while are freed.
CleanCache(cache) ==
    LET older == [f \in DOMAIN cache |->
                     [cache[f] EXCEPT !.unused_count = IF cache[f].used THEN @
                                                       ELSE @ + 1]]
    IN  Restrict(older, {f \in DOMAIN older :
            older[f].used \/ older[f].unused_count < MAX_UNUSED_FRAME_DURATION})

\* The order of the cache is left out, and which memory a new frame gets but
\* that nobody points to it: the lowest number is taken.
Unused(cache) == {f \in DOMAIN cache : ~cache[f].used}
Unallocated == Frames \ InUse

\* The rest of what cache_video does under async_mutex: with a new format the
\* cache is replaced; a frame is reused or created, and referred to.
CacheVideo ==
    /\ MayCapture /\ copying.at = "idle"
    /\ Len(async_frames) < MAX_ASYNC_FRAMES
    /\ \E changed \in BOOLEAN :
          LET before == IF changed THEN NoCache ELSE async_cache
              counts == IF changed THEN Decref ELSE refs
              reused == Unused(before) # {}
              frame  == Min(IF reused THEN Unused(before) ELSE Unallocated)
              taken  == [used |-> TRUE, unused_count |-> 0]
              cache  == CleanCache(IF reused
                                   THEN [before EXCEPT ![frame] = taken]
                                   ELSE before)
              freed  == DOMAIN before \ DOMAIN cache
              left   == [f \in Frames |-> IF f \in freed THEN 0 ELSE counts[f]]
          IN  /\ reused \/ Unallocated # {}
              /\ async_cache' =
                     [f \in DOMAIN cache \cup {frame} |->
                         IF f = frame THEN taken ELSE cache[f]]
              /\ refs' = [left EXCEPT ![frame] = IF reused THEN @ + 1 ELSE 2]
              /\ copying' = [at |-> "copy", frame |-> frame]
              /\ IF changed
                 THEN /\ async_frames' = <<>>
                      /\ cur_async_frame' = NULL /\ prev_async_frame' = NULL
                 ELSE UNCHANGED <<async_frames, shownVars>>
    /\ UNCHANGED <<showing, delayed>>

\* copy_frame_data is done; the reference is given back without the mutex.
CopyDone ==
    /\ copying.at = "copy"
    /\ refs' = [refs EXCEPT ![copying.frame] = @ - 1]
    /\ copying' = IF refs[copying.frame] = 1 THEN Idle
                  ELSE [copying EXCEPT !.at = "queue"]
    /\ UNCHANGED <<async_cache, async_frames, shownVars,
                   showing, delayed>>

QueueFrame ==
    /\ copying.at = "queue"
    /\ async_frames' = Append(async_frames, copying.frame)
    /\ copying' = Idle
    /\ UNCHANGED <<refs, async_cache, shownVars, showing,
                   delayed>>

-----------------------------------------------------------------------------
(* The graphics thread                                                      *)

\* async_tick: the frames of the last tick that nobody took may be used again,
\* and so may those in front of the one that is due now.  A source that is
\* deinterlaced shows the one before it, too.
AsyncTick ==
    /\ showing.at = "idle"
    /\ \E deinterlacing \in BOOLEAN :
       \E due \in 0 .. Len(async_frames) :
       \E pair \in (IF deinterlacing /\ due > 1 THEN BOOLEAN ELSE {FALSE}) :
          LET last == (IF deinterlacing THEN {prev_async_frame} ELSE {})
                          \cup {cur_async_frame}
              shown   == IF pair THEN 2 ELSE 1
              skipped == Elements(SubSeq(async_frames, 1, due - shown))
          IN  /\ async_cache' = Removed(async_cache, last \cup skipped)
              /\ async_frames' = SubSeq(async_frames, due + 1, Len(async_frames))
              /\ cur_async_frame' = IF due = 0 THEN NULL ELSE async_frames[due]
              /\ prev_async_frame' = IF pair THEN async_frames[due - 1]
                                     ELSE IF deinterlacing THEN NULL
                                     ELSE prev_async_frame
    /\ showing' = [at |-> "resize", frame |-> NULL]
    /\ UNCHANGED <<refs, copying, delayed>>

\* After the unlock cur_async_frame is read again, and set_async_texture_size
\* reads that frame.
ReadForSize ==
    /\ showing.at = "resize" /\ showing.frame = NULL
    /\ showing' = IF cur_async_frame = NULL THEN [Idle EXCEPT !.at = "ticked"]
                  ELSE [showing EXCEPT !.frame = cur_async_frame]
    /\ UNCHANGED <<refs, async_cache, async_frames, shownVars, copying,
                   delayed>>

SizeRead ==
    /\ showing.at = "resize" /\ showing.frame # NULL
    /\ showing' = [Idle EXCEPT !.at = "ticked"]
    /\ UNCHANGED <<refs, async_cache, async_frames, shownVars, copying,
                   delayed>>

\* obs_source_get_frame or get_prev_frame; a source that is not shown is ticked
\* again instead.
GetFrame ==
    /\ showing.at = "ticked"
    /\ \/ /\ cur_async_frame # NULL
          /\ showing' = [at |-> "filter", frame |-> cur_async_frame]
          /\ refs' = [refs EXCEPT ![cur_async_frame] = @ + 1]
          /\ cur_async_frame' = NULL /\ UNCHANGED prev_async_frame
       \/ /\ prev_async_frame # NULL
          /\ showing' = [at |-> "filter", frame |-> prev_async_frame]
          /\ refs' = [refs EXCEPT ![prev_async_frame] = @ + 1]
          /\ prev_async_frame' = NULL /\ UNCHANGED cur_async_frame
       \/ /\ showing' = Idle
          /\ UNCHANGED <<refs, shownVars>>
    /\ UNCHANGED <<async_cache, async_frames, copying, delayed>>

\* filter_async_video without a delay, or with one that is reached or not:
\* async_delay_filter_video keeps the frame and may return the oldest it has.
FilterFrame ==
    /\ showing.at = "filter"
    /\ \/ /\ delayed = <<>>
          /\ showing' = [showing EXCEPT !.at = "release"]
          /\ UNCHANGED delayed
       \/ /\ delayed # <<>>
          /\ showing' = [at |-> "release", frame |-> Head(delayed)]
          /\ delayed' = Append(Tail(delayed), showing.frame)
       \/ /\ Len(delayed) < MaxDelayed
          /\ showing' = [Idle EXCEPT !.at = "ticked"]
          /\ delayed' = Append(delayed, showing.frame)
    /\ UNCHANGED <<refs, async_cache, async_frames, shownVars, copying>>

\* obs_source_release_frame: the last reference frees the frame; one that is
\* left is that of the cache.
Release(f) ==
    /\ refs' = [refs EXCEPT ![f] = @ - 1]
    /\ async_cache' = Removed(async_cache, {f})

ReleaseFrame ==
    /\ showing.at = "release"
    /\ Release(showing.frame)
    /\ showing' = [Idle EXCEPT !.at = "ticked"]
    /\ UNCHANGED <<async_frames, shownVars, copying, delayed>>

\* free_video_data: the graphics thread updates or resets the delay filter, or
\* any thread has taken it off the source.
FreeDelayed ==
    /\ delayed # <<>> /\ Release(Head(delayed))
    /\ delayed' = Tail(delayed)
    /\ UNCHANGED <<async_frames, shownVars, copying, showing>>

\* enable_deinterlacing, with the graphics context.
EnableDeinterlacing ==
    /\ prev_async_frame # NULL /\ showing.at \in {"idle", "ticked"}
    /\ async_cache' = Removed(async_cache, {prev_async_frame})
    /\ prev_async_frame' = NULL
    /\ UNCHANGED <<refs, async_frames, cur_async_frame,
                   copying, showing, delayed>>

-----------------------------------------------------------------------------

AsyncNext ==
    \/ CacheOverflows \/ CacheVideo \/ CopyDone \/ QueueFrame
    \/ AsyncTick \/ ReadForSize \/ SizeRead \/ GetFrame \/ FilterFrame
    \/ ReleaseFrame \/ FreeDelayed \/ EnableDeinterlacing

AsyncSpec == AsyncInit /\ [][AsyncNext]_asyncVars

-----------------------------------------------------------------------------
(* Properties                                                               *)

AsyncTypeOK ==
    /\ refs \in [Frames -> Nat]
    /\ Cached \subseteq Frames
    /\ \A f \in Cached : async_cache[f] \in [used : BOOLEAN, unused_count : Nat]
    /\ async_frames \in Seq(Frames) /\ delayed \in Seq(Frames)
    /\ {cur_async_frame, prev_async_frame} \subseteq FrameOrNull
    /\ copying \in [at : {"idle", "copy", "queue"}, frame : FrameOrNull]
    /\ showing \in [at : {"idle", "resize", "ticked", "filter", "release"},
                    frame : FrameOrNull]

\* The frames somebody reads, or is going to.
Read == Elements(async_frames) \cup Elements(delayed)
            \cup ({cur_async_frame, prev_async_frame, showing.frame} \ {NULL})

Times(b) == IF b THEN 1 ELSE 0

\* No frame that is queued, shown, filtered or copied into is freed, and none
\* that is to be read is handed to the capture thread to be overwritten:
\* neither a full queue, a new format nor the clean-up of the cache touches a
\* frame the graphics thread or a filter still has.  And nothing leaks: a frame
\* that is allocated is in the cache, or held by somebody who will release it,
\* once for every reference; a frame of the cache that is marked as used is one
\* that somebody uses, or it could never be used again.
FramesIntact ==
    /\ \A f \in InUse : refs[f] > 0
    /\ copying.at = "copy" => copying.frame \notin Read
    /\ \A f \in Frames :
          refs[f] = Times(f \in Cached)
                  + Cardinality({i \in DOMAIN delayed : delayed[i] = f})
                  + Times(copying = [at |-> "copy", frame |-> f])
                  + Times(showing.at \in {"filter", "release"}
                              /\ showing.frame = f)
    /\ \A f \in Cached : async_cache[f].used => f \in Read \cup {copying.frame}
=============================================================================
