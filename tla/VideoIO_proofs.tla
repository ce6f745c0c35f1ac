--------------------------- MODULE VideoIO_proofs ---------------------------
(***************************************************************************)
(* Proofs about VideoIO for every number of inputs, every cache size and    *)
(* every bound.                                                             *)
(***************************************************************************)
EXTENDS VideoIO, TLAPS

(* The initial state satisfies the inductive invariant: the cache is empty. *)
LEMMA InitIndInv == Init => IndInv
  <1> SUFFICES ASSUME Init PROVE IndInv
      OBVIOUS
  <1> USE VideoIOAssumption DEF Init
  <1>1. TypeOK
    <2>1. 0 \in Slot
        BY DEF Slot
    <2>2. [timestamp |-> 0, count |-> 0, skipped |-> 0] \in SlotInfo
        BY DEF SlotInfo
    <2>3. cache \in [Slot -> SlotInfo]
        BY <2>2
    <2>4. seen \in [Inputs -> Nat \cup {Unseen}]
        OBVIOUS
    <2>5. QED
      <3>1. available_frames \in 0 .. CacheSize
          OBVIOUS
      <3>2. QED
          BY <2>1, <2>3, <2>4, <3>1 DEF TypeOK
  <1>2. Queued = 0 /\ \A i \in Slot : ~Pending(i)
      BY DEF Queued, Pending, Ahead, Slot
  <1>3. QueueShape /\ SlotsTileTime /\ SlotsBehindClock /\ SkipsWithinCount
      BY <1>2 DEF QueueShape, SlotsTileTime, SlotsBehindClock, SkipsWithinCount
  <1>4. WakeupsMatchSlots /\ ThreadHoldsSlot /\ SeenIsCurrent
      BY DEF WakeupsMatchSlots, ThreadHoldsSlot, SeenIsCurrent, Playing
  <1>5. QED
      BY <1>1, <1>3, <1>4 DEF IndInv

(* Every step of the graphics thread, the video thread and the callers keeps *)
(* the type invariant.                                                       *)
LEMMA NextTypeOK == IndInv /\ Next => TypeOK'
  <1> SUFFICES ASSUME IndInv, Next PROVE TypeOK'
      OBVIOUS
  <1> USE VideoIOAssumption DEF IndInv, cacheVars, statVars, threadVars
  <1>1. CASE RenderTop
      BY <1>1 DEF RenderTop, TypeOK
  <1>2. CASE LockFrame
    <2>1. PICK count \in 1 .. MaxCount :
             /\ clock' = clock + count
             /\ CoalesceFrame(count) \/ TakeSlot(count)
        BY <1>2 DEF LockFrame
    <2>2. cache' \in [Slot -> SlotInfo] /\ last_added' \in Slot
      <3>1. CASE CoalesceFrame(count)
        <4>1. cache[last_added] \in SlotInfo
            BY DEF TypeOK
        <4>2. [timestamp |-> cache[last_added].timestamp,
               count |-> cache[last_added].count + count,
               skipped |-> cache[last_added].skipped + count] \in SlotInfo
            BY <4>1 DEF SlotInfo
        <4>3. QED
            BY <3>1, <4>2 DEF CoalesceFrame, TypeOK
      <3>2. CASE TakeSlot(count)
        <4>1. [timestamp |-> clock, count |-> count, skipped |-> 0] \in SlotInfo
            BY DEF SlotInfo, TypeOK
        <4>2. Succ(last_added) \in Slot
            BY DEF Succ, Slot, TypeOK
        <4>3. QED
            BY <3>2, <4>1, <4>2 DEF TakeSlot, TypeOK
      <3>3. QED
          BY <2>1, <3>1, <3>2
    <2>3. render' \in {"top", "writing"}
        BY <2>1 DEF CoalesceFrame, TakeSlot
    <2>4. QED
        BY <1>2, <2>1, <2>2, <2>3 DEF LockFrame, TypeOK
  <1>3. CASE UnlockFrame
      BY <1>3 DEF UnlockFrame, TypeOK, QueueShape
  <1>4. CASE Wake
      BY <1>4 DEF Wake, TypeOK
  <1>5. CASE Enter
      BY <1>5 DEF Enter, TypeOK
  <1>6. CASE Callbacks
      BY <1>6 DEF Callbacks, TypeOK, SlotInfo
  <1>7. CASE Commit
    <2>1. thread = "commit" /\ frame_info = first_added
          /\ available_frames < CacheSize
        BY <1>7 DEF Commit, ThreadHoldsSlot, Playing
    <2>2. Pending(first_added)
        BY <2>1 DEF Pending, Ahead, Queued, TypeOK, Slot
    <2>3. cache[frame_info].count > 0
        BY <2>1, <2>2 DEF SkipsWithinCount, TypeOK, SlotInfo
    <2> DEFINE slot == cache[frame_info]
               left == [timestamp |-> slot.timestamp + 1,
                        count |-> slot.count - 1, skipped |-> slot.skipped]
    <2>4. left \in SlotInfo
      <3>1. cache[frame_info] \in SlotInfo
          BY DEF TypeOK
      <3>2. QED
          BY <2>3, <3>1 DEF SlotInfo
    <2>5. CASE FreeSlot(left)
      <3>1. cache' \in [Slot -> SlotInfo]
          BY <2>4, <2>5 DEF FreeSlot, TypeOK
      <3>2. available_frames' \in 0 .. CacheSize /\ first_added' \in Slot
            /\ last_added' \in Slot
        <4>1. first_added' \in Slot
            BY <2>5, SMTT(30) DEF FreeSlot, TypeOK, Slot, Succ
        <4>2. available_frames' \in 0 .. CacheSize
            BY <2>1, <2>5 DEF FreeSlot, TypeOK
        <4>3. last_added' \in Slot
            BY <4>1, <2>5 DEF FreeSlot, TypeOK
        <4>4. QED
            BY <4>1, <4>2, <4>3
      <3>3. QED
          BY <3>1, <3>2, <2>5, <1>7 DEF Commit, FreeSlot, TypeOK
    <2>6. CASE RepeatSlot(left)
      <3>1. left.skipped > 0 => [left EXCEPT !.skipped = @ - 1] \in SlotInfo
          BY <2>4 DEF SlotInfo
      <3>2. cache' \in [Slot -> SlotInfo]
          BY <2>4, <2>6, <3>1 DEF RepeatSlot, TypeOK
      <3>3. QED
          BY <3>2, <2>6, <1>7 DEF Commit, RepeatSlot, TypeOK
    <2>7. QED
        BY <2>5, <2>6, <1>7 DEF Commit
  <1>8. CASE StoreSkipped
      BY <1>8 DEF StoreSkipped, TypeOK
  <1>9. CASE LoadTotal
      BY <1>9 DEF LoadTotal, TypeOK
  <1>10. CASE StoreTotal
      BY <1>10 DEF StoreTotal, TypeOK
  <1>11. CASE Stop
      BY <1>11 DEF Stop, TypeOK
  <1>12. CASE Join
      BY <1>12 DEF Join, TypeOK
  <1>13. ASSUME NEW i \in Inputs, Connect(i) PROVE TypeOK'
      BY <1>13 DEF Connect, TypeOK
  <1>14. ASSUME NEW i \in Inputs, Disconnect(i) PROVE TypeOK'
      BY <1>14 DEF Disconnect, TypeOK
  <1>15. QED
      BY <1>1, <1>2, <1>3, <1>4, <1>5, <1>6, <1>7, <1>8, <1>9, <1>10, <1>11,
         <1>12, <1>13, <1>14 DEF Next, RenderThread, VideoThread, Callers

(* Distances along the ring: Ahead numbers the slots from first_added on.    *)
LEMMA AheadFacts ==
    ASSUME TypeOK, NEW i \in Slot
    PROVE  /\ Ahead(i) \in 0 .. CacheSize - 1
           /\ Ahead(i) = 0 <=> i = first_added
           /\ Succ(i) \in Slot
           /\ IF Ahead(i) = CacheSize - 1 THEN Succ(i) = first_added
                                          ELSE Ahead(Succ(i)) = Ahead(i) + 1
           /\ \A j \in Slot : Ahead(j) = Ahead(i) => j = i
    BY VideoIOAssumption DEF TypeOK, Ahead, Succ, Slot

(* The part of the invariant that is about the queue of slots.               *)
Queue == QueueShape /\ SlotsTileTime /\ SlotsBehindClock /\ SkipsWithinCount

(* The queue is not empty while the video thread plays a slot.               *)
LEMMA PlayedSlot ==
    ASSUME IndInv, Playing
    PROVE  /\ available_frames < CacheSize /\ Queued >= 1
           /\ Pending(first_added)
           /\ thread \in {"callbacks", "commit"} => frame_info = first_added
    BY AheadFacts, VideoIOAssumption
       DEF IndInv, ThreadHoldsSlot, Queued, Pending, TypeOK

(* Steps that leave the queue of slots as it is.                             *)
LEMMA QueueUnchanged ==
    ASSUME IndInv, UNCHANGED <<cacheVars, clock, render>>
    PROVE  Queue' /\ Queued' = Queued
  <1>1. Queued' = Queued
      BY DEF Queued, cacheVars
  <1>2. \A i \in Slot : Ahead(i)' = Ahead(i) /\ (Pending(i)' <=> Pending(i))
      BY <1>1 DEF Ahead, Pending, cacheVars
  <1>3. QueueShape'
      BY <1>1, <1>2 DEF IndInv, TypeOK, QueueShape, cacheVars
  <1>4. SlotsTileTime' /\ SlotsBehindClock'
      BY <1>2 DEF IndInv, TypeOK, SlotsTileTime, SlotsBehindClock, cacheVars
  <1>5. SkipsWithinCount'
      BY <1>2 DEF IndInv, SkipsWithinCount, cacheVars
  <1>6. QED
      BY <1>1, <1>3, <1>4, <1>5 DEF Queue

(* A frame that found no slot prolongs the newest one.                       *)
LEMMA CoalesceQueue ==
    ASSUME IndInv, LockFrame, NEW count \in 1 .. MaxCount,
           clock' = clock + count, CoalesceFrame(count)
    PROVE  Queue'
  <1> USE VideoIOAssumption
  <1>1. /\ available_frames = 0 /\ available_frames' = 0
        /\ render = "frame" /\ render' = "top"
        /\ UNCHANGED <<first_added, last_added>>
        /\ cache' = [cache EXCEPT ![last_added] =
             [timestamp |-> cache[last_added].timestamp,
              count |-> cache[last_added].count + count,
              skipped |-> cache[last_added].skipped + count]]
      BY DEF LockFrame, CoalesceFrame
  <1>2. TypeOK /\ TypeOK'
      BY NextTypeOK DEF IndInv, Next, RenderThread
  <1>3. Queued = CacheSize /\ Queued' = CacheSize
      BY <1>1 DEF Queued
  <1>4. \A i \in Slot : Pending(i) /\ Pending(i)' /\ Ahead(i)' = Ahead(i)
      BY <1>1, <1>2, <1>3, AheadFacts DEF Pending, Ahead
  <1>5. QueueShape'
      BY <1>1, <1>2, <1>3, <1>4 DEF QueueShape, IndInv, TypeOK
  <1>6. /\ \A i \in Slot : /\ i # last_added => cache'[i] = cache[i]
                           /\ cache'[i].timestamp = cache[i].timestamp
        /\ cache'[last_added].count = cache[last_added].count + count
        /\ cache'[last_added].skipped = cache[last_added].skipped + count
      BY <1>1, <1>2 DEF TypeOK
  <1>7. \A i \in Slot : Succ(i) \in Slot
      BY <1>2, AheadFacts
  <1>8. SlotsTileTime'
    <2> SUFFICES ASSUME NEW i \in Slot
                 PROVE  LET end == cache'[i].timestamp + cache'[i].count
                        IN  IF i = last_added THEN end = clock'
                            ELSE end = cache'[Succ(i)].timestamp
        BY <1>1 DEF SlotsTileTime, Succ
    <2>1. LET end == cache[i].timestamp + cache[i].count
          IN  IF i = last_added THEN end = clock
                                ELSE end = cache[Succ(i)].timestamp
        BY <1>4 DEF IndInv, SlotsTileTime
    <2>2. cache[i] \in SlotInfo /\ clock \in Nat
        BY <1>2 DEF TypeOK
    <2>3. QED
        BY <2>1, <2>2, <1>6, <1>7 DEF SlotInfo
  <1>9. SlotsBehindClock' /\ SkipsWithinCount'
    <2> SUFFICES ASSUME NEW i \in Slot
                 PROVE  /\ cache'[i].timestamp + cache'[i].count =< clock'
                        /\ cache'[i].skipped < cache'[i].count
        BY <1>4 DEF SlotsBehindClock, SkipsWithinCount
    <2>1. /\ cache[i].timestamp + cache[i].count =< clock
          /\ cache[i].skipped < cache[i].count
        BY <1>4 DEF IndInv, SlotsBehindClock, SkipsWithinCount
    <2>2. cache[i] \in SlotInfo /\ clock \in Nat
        BY <1>2 DEF TypeOK
    <2>3. QED
        BY <2>1, <2>2, <1>6 DEF SlotInfo
  <1>10. QED
      BY <1>5, <1>8, <1>9 DEF Queue

(* A frame that found a slot is appended after the newest one.               *)
LEMMA TakeSlotQueue ==
    ASSUME IndInv, LockFrame, NEW count \in 1 .. MaxCount,
           clock' = clock + count, TakeSlot(count)
    PROVE  Queue'
  <1> USE VideoIOAssumption
  <1> DEFINE slot == last_added'
  <1>1. /\ available_frames # 0
        /\ slot = IF available_frames = CacheSize THEN last_added
                                                  ELSE Succ(last_added)
        /\ cache' = [cache EXCEPT ![slot] =
              [timestamp |-> clock, count |-> count, skipped |-> 0]]
        /\ render = "frame" /\ render' = "writing"
        /\ UNCHANGED <<available_frames, first_added>>
      BY DEF LockFrame, TakeSlot
  <1>2. TypeOK /\ TypeOK'
      BY NextTypeOK DEF IndInv, Next, RenderThread
  <1>3. /\ Queued = CacheSize - available_frames /\ Queued \in 0 .. CacheSize - 1
        /\ Queued' = Queued + 1
      BY <1>1, <1>2 DEF Queued, TypeOK
  <1>4. \A i \in Slot : Ahead(i)' = Ahead(i)
      BY <1>1 DEF Ahead
  <1>5. slot \in Slot /\ last_added \in Slot /\ clock \in Nat
      BY <1>2 DEF TypeOK
  <1>6. Ahead(slot) = Queued
    <2>1. CASE Queued = 0
        BY <2>1, <1>1, <1>3, <1>5, <1>2, AheadFacts DEF IndInv, QueueShape,
           TypeOK
    <2>2. CASE Queued # 0
      <3>1. Ahead(last_added) = Queued - 1
          BY <2>2 DEF IndInv, QueueShape
      <3>2. slot = Succ(last_added)
          BY <2>2, <1>1, <1>3, <1>2 DEF TypeOK
      <3>3. QED
          BY <3>1, <3>2, <1>3, <1>5, <1>2, AheadFacts
    <2>3. QED
        BY <2>1, <2>2
  <1>7. \A i \in Slot : Pending(i)' <=> Pending(i) \/ i = slot
      BY <1>2, <1>3, <1>4, <1>5, <1>6, AheadFacts DEF Pending
  <1>8. /\ \A i \in Slot : i # slot => cache'[i] = cache[i]
        /\ cache'[slot].timestamp = clock /\ cache'[slot].count = count
        /\ cache'[slot].skipped = 0
      BY <1>1, <1>2, <1>5 DEF TypeOK
  <1>9. ~Pending(slot)
      BY <1>3, <1>6 DEF Pending
  <1>10. QueueShape'
      BY <1>1, <1>2, <1>3, <1>4, <1>5, <1>6 DEF QueueShape, TypeOK
  <1>11. SlotsTileTime'
    <2> SUFFICES ASSUME NEW i \in Slot, Pending(i)'
                 PROVE  LET end == cache'[i].timestamp + cache'[i].count
                        IN  IF i = slot THEN end = clock'
                            ELSE end = cache'[Succ(i)].timestamp
        BY DEF SlotsTileTime, Succ
    <2>1. CASE i = slot
        BY <2>1, <1>8
    <2>2. CASE i # slot
      <3>1. Pending(i) /\ cache'[i] = cache[i]
          BY <2>2, <1>7, <1>8
      <3>2. CASE i = last_added
        <4>1. Queued # 0 /\ slot = Succ(i)
            BY <3>1, <3>2, <1>1, <1>2, <1>3, AheadFacts DEF Pending, TypeOK
        <4>2. QED
            BY <4>1, <3>1, <3>2, <2>2, <1>8 DEF IndInv, SlotsTileTime
      <3>3. CASE i # last_added
        <4>1. Ahead(i) < Queued - 1
          <5>1. Ahead(i) # Queued - 1
              BY <3>1, <3>3, <1>2, <1>3, <1>5, AheadFacts
                 DEF IndInv, QueueShape, Pending
          <5>2. QED
              BY <5>1, <3>1, <1>2, <1>3, AheadFacts DEF Pending
        <4>2. Succ(i) \in Slot /\ Succ(i) # slot
            BY <4>1, <1>2, <1>3, <1>6, AheadFacts
        <4>3. QED
            BY <4>2, <3>1, <3>3, <2>2, <1>8 DEF IndInv, SlotsTileTime
      <3>4. QED
          BY <3>2, <3>3
    <2>3. QED
        BY <2>1, <2>2
  <1>12. SlotsBehindClock' /\ SkipsWithinCount'
    <2> SUFFICES ASSUME NEW i \in Slot, Pending(i)'
                 PROVE  /\ cache'[i].timestamp + cache'[i].count =< clock'
                        /\ cache'[i].skipped < cache'[i].count
        BY DEF SlotsBehindClock, SkipsWithinCount
    <2>1. CASE i = slot
        BY <2>1, <1>5, <1>8
    <2>2. CASE i # slot
      <3>1. /\ cache[i].timestamp + cache[i].count =< clock
            /\ cache[i].skipped < cache[i].count
            /\ cache'[i] = cache[i]
          BY <2>2, <1>7, <1>8 DEF IndInv, SlotsBehindClock, SkipsWithinCount
      <3>2. cache[i] \in SlotInfo
          BY <1>2 DEF TypeOK
      <3>3. QED
          BY <3>1, <3>2, <1>5 DEF SlotInfo
    <2>3. QED
        BY <2>1, <2>2
  <1>13. QED
      BY <1>10, <1>11, <1>12 DEF Queue

(* unlock_frame turns the slot being written into a submitted one.           *)
LEMMA UnlockQueue ==
    ASSUME IndInv, UnlockFrame
    PROVE  Queue' /\ Queued' = Queued
  <1>1. /\ render = "writing" /\ render' = "top"
        /\ available_frames' = available_frames - 1
        /\ UNCHANGED <<first_added, last_added, cache, clock>>
      BY DEF UnlockFrame
  <1>2. Queued' = Queued
      BY <1>1, VideoIOAssumption DEF Queued, IndInv, TypeOK
  <1>3. \A i \in Slot : Ahead(i)' = Ahead(i) /\ (Pending(i)' <=> Pending(i))
      BY <1>1, <1>2 DEF Ahead, Pending
  <1>4. QueueShape'
      BY <1>1, <1>2, <1>3 DEF QueueShape, IndInv, TypeOK
  <1>5. SlotsTileTime' /\ SlotsBehindClock' /\ SkipsWithinCount'
      BY <1>1, <1>3 DEF IndInv, SlotsTileTime, SlotsBehindClock,
         SkipsWithinCount
  <1>6. QED
      BY <1>2, <1>4, <1>5 DEF Queue

(* What Commit leaves of the slot it has played one interval of.             *)
Left == [timestamp |-> cache[first_added].timestamp + 1,
         count |-> cache[first_added].count - 1,
         skipped |-> cache[first_added].skipped]

\* video_output_cur_frame: the slot is played once more or becomes free.
LEMMA CommitCases ==
    ASSUME IndInv, Commit
    PROVE  /\ FreeSlot(Left) \/ RepeatSlot(Left)
           /\ frame_info = first_added /\ cache[first_added] \in SlotInfo
           /\ Pending(first_added) /\ Queued >= 1
           /\ available_frames < CacheSize
           /\ cache[first_added].skipped < cache[first_added].count
           /\ UNCHANGED <<clock, render, inputs, seen>>
           /\ TypeOK /\ TypeOK'
  <1>1. thread = "commit" /\ Playing
      BY DEF Commit, Playing
  <1>2. /\ frame_info = first_added /\ Pending(first_added) /\ Queued >= 1
        /\ available_frames < CacheSize
      BY <1>1, PlayedSlot
  <1>3. cache[first_added].skipped < cache[first_added].count
      BY <1>2 DEF IndInv, SkipsWithinCount, TypeOK
  <1>4. TypeOK /\ TypeOK'
      BY NextTypeOK DEF IndInv, Next, VideoThread
  <1>5. cache[first_added] \in SlotInfo
      BY <1>4 DEF TypeOK
  <1>6. QED
      BY <1>2, <1>3, <1>4, <1>5 DEF Commit, Left

(* A slot that was played out leaves the queue at its front.                 *)
LEMMA FreeSlotQueue ==
    ASSUME IndInv, Commit, FreeSlot(Left)
    PROVE  Queue'
  <1> USE VideoIOAssumption
  <1>1. /\ cache' = [cache EXCEPT ![first_added] = Left]
        /\ first_added' = Succ(first_added)
        /\ available_frames' = available_frames + 1
        /\ last_added' = IF available_frames' = CacheSize THEN first_added'
                                                          ELSE last_added
        /\ UNCHANGED <<clock, render>>
      BY CommitCases DEF FreeSlot
  <1>2. /\ TypeOK /\ TypeOK' /\ Queued \in 1 .. CacheSize
        /\ available_frames < CacheSize
    <2>1. TypeOK /\ TypeOK' /\ Queued >= 1 /\ available_frames < CacheSize
        BY CommitCases
    <2>2. QED
        BY <2>1 DEF Queued, IndInv, QueueShape, TypeOK
  <1>3. Queued' = Queued - 1
      BY <1>1, <1>2 DEF Queued, TypeOK
  <1>4. \A i \in Slot : Ahead(i)' = IF i = first_added THEN CacheSize - 1
                                                      ELSE Ahead(i) - 1
      BY <1>1, <1>2 DEF Ahead, Succ, TypeOK, Slot
  <1>5. \A i \in Slot : Pending(i)' <=> Pending(i) /\ i # first_added
      BY <1>2, <1>3, <1>4, AheadFacts DEF Pending
  <1>6. \A i \in Slot : i # first_added => cache'[i] = cache[i]
      BY <1>1, <1>2 DEF TypeOK
  <1>7. first_added \in Slot /\ last_added \in Slot /\ Ahead(last_added) = Queued - 1
      BY <1>2 DEF IndInv, QueueShape, TypeOK
  <1>8. QueueShape' /\ (Queued' # 0 => last_added' = last_added)
    <2>1. CASE Queued = 1 /\ render # "writing"
      <3>1. available_frames' = CacheSize /\ last_added' = first_added'
          BY <2>1, <1>1, <1>2 DEF Queued, TypeOK
      <3>2. QED
          BY <2>1, <3>1, <1>1, <1>2, <1>3 DEF QueueShape
    <2>2. CASE Queued = 1 /\ render = "writing"
        BY <2>2, <1>2 DEF Queued, TypeOK
    <2>3. CASE Queued # 1 /\ available_frames' = CacheSize
      <3>1. Queued = 2 /\ render = "writing"
          BY <2>3, <1>1, <1>2 DEF Queued, TypeOK
      <3>2. last_added = Succ(first_added)
          BY <3>1, <1>2, <1>7, AheadFacts
      <3>3. last_added' = last_added
          BY <2>3, <3>2, <1>1
      <3>4. Ahead(last_added)' = 0
        <4>1. last_added # first_added
            BY <3>1, <1>2, <1>7, AheadFacts
        <4>2. QED
            BY <4>1, <3>1, <3>3, <1>4, <1>7, <1>2 DEF Ahead
      <3>5. QED
          BY <3>1, <3>3, <3>4, <1>1, <1>2, <1>3 DEF QueueShape, TypeOK
    <2>4. CASE Queued # 1 /\ available_frames' # CacheSize
      <3>1. last_added' = last_added /\ last_added # first_added
          BY <2>4, <1>1, <1>2, <1>7, AheadFacts
      <3>2. Ahead(last_added)' = Queued - 2
          BY <3>1, <1>4, <1>7, <1>2 DEF Ahead
      <3>3. QED
          BY <2>4, <3>1, <3>2, <1>1, <1>2, <1>3 DEF QueueShape, TypeOK
    <2>5. QED
        BY <2>1, <2>2, <2>3, <2>4
  <1>9. SlotsTileTime'
    <2> SUFFICES ASSUME NEW i \in Slot, Pending(i)'
                 PROVE  LET end == cache'[i].timestamp + cache'[i].count
                        IN  IF i = last_added' THEN end = clock'
                            ELSE end = cache'[Succ(i)].timestamp
        BY DEF SlotsTileTime, Succ
    <2>1. Pending(i) /\ i # first_added /\ cache'[i] = cache[i]
        BY <1>5, <1>6
    <2>2. last_added' = last_added
        BY <2>1, <1>2, <1>3, <1>8, AheadFacts DEF Pending
    <2>3. CASE i = last_added
        BY <2>1, <2>2, <2>3, <1>1 DEF IndInv, SlotsTileTime
    <2>4. CASE i # last_added
      <3>1. Ahead(i) # CacheSize - 1
        <4>1. Ahead(i) < Queued /\ Ahead(i) # Queued - 1
            BY <2>1, <2>4, <1>2, <1>7, AheadFacts DEF Pending
        <4>2. QED
            BY <4>1, <1>2, AheadFacts
      <3>2. Succ(i) \in Slot /\ Succ(i) # first_added
          BY <3>1, <1>2, AheadFacts
      <3>3. QED
          BY <3>2, <2>1, <2>2, <2>4, <1>6 DEF IndInv, SlotsTileTime
    <2>5. QED
        BY <2>3, <2>4
  <1>10. SlotsBehindClock' /\ SkipsWithinCount'
      BY <1>1, <1>5, <1>6 DEF IndInv, SlotsBehindClock, SkipsWithinCount
  <1>11. QED
      BY <1>8, <1>9, <1>10 DEF Queue

(* A slot that is played again keeps its place and its end.                  *)
LEMMA RepeatSlotQueue ==
    ASSUME IndInv, Commit, RepeatSlot(Left)
    PROVE  Queue' /\ Queued' = Queued
  <1> USE VideoIOAssumption
  <1> DEFINE slot == cache[first_added]
  <1>1. /\ UNCHANGED <<first_added, last_added, available_frames, clock, render>>
        /\ \A i \in Slot : i # first_added => cache'[i] = cache[i]
        /\ cache'[first_added].timestamp = slot.timestamp + 1
        /\ cache'[first_added].count = slot.count - 1
        /\ slot.count - 1 # 0
        /\ cache'[first_added].skipped =
              IF slot.skipped > 0 THEN slot.skipped - 1 ELSE slot.skipped
    <2>1. /\ UNCHANGED <<first_added, last_added, available_frames, clock, render>>
          /\ slot.count - 1 # 0
        BY CommitCases DEF RepeatSlot, Left
    <2>2. cache \in [Slot -> SlotInfo] /\ first_added \in Slot /\ slot \in SlotInfo
        BY DEF IndInv, TypeOK
    <2>3. CASE slot.skipped > 0
      <3>1. cache' = [cache EXCEPT ![first_added] =
                                [Left EXCEPT !.skipped = slot.skipped - 1]]
          BY <2>2, <2>3, CommitCases DEF RepeatSlot, Left, SlotInfo
      <3>2. QED
          BY <2>1, <2>2, <2>3, <3>1 DEF Left
    <2>4. CASE slot.skipped = 0
      <3>1. cache' = [cache EXCEPT ![first_added] = Left]
          BY <2>2, <2>4, CommitCases DEF RepeatSlot, Left, SlotInfo
      <3>2. QED
          BY <2>1, <2>2, <2>4, <3>1 DEF Left
    <2>5. QED
        BY <2>2, <2>3, <2>4 DEF SlotInfo
  <1>2. /\ TypeOK /\ slot \in SlotInfo /\ slot.skipped < slot.count
        /\ first_added \in Slot /\ last_added \in Slot /\ Pending(first_added)
      BY CommitCases DEF TypeOK
  <1>3. Queued' = Queued
      BY <1>1 DEF Queued
  <1>4. \A i \in Slot : Ahead(i)' = Ahead(i) /\ (Pending(i)' <=> Pending(i))
      BY <1>1, <1>3 DEF Ahead, Pending
  <1>5. QueueShape'
      BY <1>1, <1>3, <1>4, <1>2 DEF QueueShape, IndInv
  <1>6. cache'[first_added].timestamp + cache'[first_added].count
          = slot.timestamp + slot.count
      BY <1>1, <1>2 DEF SlotInfo
  <1>7. SlotsTileTime'
    <2> SUFFICES ASSUME NEW i \in Slot, Pending(i)
                 PROVE  LET end == cache'[i].timestamp + cache'[i].count
                        IN  IF i = last_added THEN end = clock
                            ELSE end = cache'[Succ(i)].timestamp
        BY <1>1, <1>4 DEF SlotsTileTime, Succ
    <2>1. cache'[i].timestamp + cache'[i].count
            = cache[i].timestamp + cache[i].count
        BY <1>1, <1>6
    <2>2. CASE i = last_added
        BY <2>1, <2>2 DEF IndInv, SlotsTileTime
    <2>3. CASE i # last_added
      <3>1. Ahead(i) # CacheSize - 1
        <4>1. Ahead(last_added) = Queued - 1 /\ Queued \in Nat /\ Queued =< CacheSize
            BY <1>2, CommitCases DEF IndInv, QueueShape, Queued, TypeOK
        <4>2. Ahead(i) < Queued /\ Ahead(i) # Queued - 1
            BY <4>1, <2>3, <1>2, AheadFacts DEF Pending
        <4>3. QED
            BY <4>1, <4>2, <1>2, AheadFacts
      <3>2. Succ(i) \in Slot /\ Succ(i) # first_added
          BY <3>1, <1>2, AheadFacts
      <3>3. QED
          BY <3>2, <2>1, <2>3, <1>1 DEF IndInv, SlotsTileTime
    <2>4. QED
        BY <2>2, <2>3
  <1>8. SlotsBehindClock'
      BY <1>1, <1>4, <1>6 DEF IndInv, SlotsBehindClock
  <1>9. SkipsWithinCount'
    <2>1. cache'[first_added].skipped < cache'[first_added].count
        BY <1>1, <1>2 DEF SlotInfo
    <2>2. QED
        BY <2>1, <1>1, <1>4 DEF IndInv, SkipsWithinCount
  <1>10. QED
      BY <1>3, <1>5, <1>7, <1>8, <1>9 DEF Queue

(* No step breaks the queue of slots.                                        *)
LEMMA NextQueue == IndInv /\ Next => Queue'
  <1> SUFFICES ASSUME IndInv, Next PROVE Queue'
      OBVIOUS
  <1>1. CASE LockFrame
    <2>1. PICK count \in 1 .. MaxCount :
             clock' = clock + count /\ (CoalesceFrame(count) \/ TakeSlot(count))
        BY <1>1 DEF LockFrame
    <2>2. QED
        BY <2>1, <1>1, CoalesceQueue, TakeSlotQueue
  <1>2. CASE UnlockFrame
      BY <1>2, UnlockQueue
  <1>3. CASE Commit
      BY <1>3, CommitCases, FreeSlotQueue, RepeatSlotQueue
  <1>4. CASE RenderTop
    <2>1. Queued' = Queued /\ UNCHANGED <<cacheVars, clock>>
        BY <1>4 DEF RenderTop, Queued, cacheVars
    <2>2. /\ render # "writing" /\ render' # "writing"
        BY <1>4 DEF RenderTop
    <2>3. \A i \in Slot : Ahead(i)' = Ahead(i) /\ (Pending(i)' <=> Pending(i))
        BY <2>1 DEF Ahead, Pending, cacheVars
    <2>4. QueueShape'
        BY <2>1, <2>2, <2>3 DEF IndInv, TypeOK, QueueShape, cacheVars
    <2>5. QED
        BY <2>1, <2>3, <2>4 DEF Queue, IndInv, TypeOK, SlotsTileTime,
                                SlotsBehindClock, SkipsWithinCount, cacheVars
  <1>5. CASE UNCHANGED <<cacheVars, clock, render>>
      BY <1>5, QueueUnchanged
  <1>6. QED
      BY <1>1, <1>2, <1>3, <1>4, <1>5
         DEF Next, RenderThread, VideoThread, Callers, Wake, Enter, Callbacks,
             StoreSkipped, LoadTotal, StoreTotal, Stop, Join, Connect, Disconnect

(* No step breaks the balance of wake-ups and submitted slots.               *)
LEMMA NextThread == IndInv /\ Next => WakeupsMatchSlots' /\ ThreadHoldsSlot'
  <1> SUFFICES ASSUME IndInv, Next PROVE WakeupsMatchSlots' /\ ThreadHoldsSlot'
      OBVIOUS
  <1> USE VideoIOAssumption DEF WakeupsMatchSlots, ThreadHoldsSlot, Playing
  <1>1. TypeOK /\ TypeOK' /\ WakeupsMatchSlots /\ ThreadHoldsSlot
      BY NextTypeOK DEF IndInv
  <1>2. CASE UNCHANGED <<available_frames, first_added, update_semaphore, stop,
                         threadVars>>
      BY <1>1, <1>2 DEF threadVars
  <1>3. CASE UnlockFrame
      BY <1>1, <1>3 DEF UnlockFrame, threadVars, TypeOK
  <1>4. CASE Wake
      BY <1>1, <1>4 DEF Wake, cacheVars, TypeOK
  <1>5. CASE Enter
      BY <1>1, <1>5 DEF Enter, cacheVars, TypeOK
  <1>6. CASE Callbacks
      BY <1>1, <1>6 DEF Callbacks, cacheVars, TypeOK
  <1>7. CASE Commit
    <2>1. thread = "commit" /\ UNCHANGED <<update_semaphore, stop, frame_info>>
        BY <1>7 DEF Commit
    <2>2. CASE FreeSlot(Left)
        BY <1>1, <2>1, <2>2 DEF FreeSlot, TypeOK
    <2>3. CASE RepeatSlot(Left)
        BY <1>1, <2>1, <2>3 DEF RepeatSlot, TypeOK
    <2>4. QED
        BY <1>7, <2>2, <2>3, CommitCases
  <1>8. CASE StoreSkipped
      BY <1>1, <1>8 DEF StoreSkipped, cacheVars, TypeOK
  <1>9. CASE LoadTotal
      BY <1>1, <1>9 DEF LoadTotal, cacheVars, TypeOK
  <1>10. CASE StoreTotal
      BY <1>1, <1>10 DEF StoreTotal, cacheVars, TypeOK
  <1>11. CASE Stop
      BY <1>1, <1>11 DEF Stop, cacheVars, threadVars, TypeOK
  <1>12. CASE RenderTop \/ LockFrame
      BY <1>2, <1>12 DEF RenderTop, LockFrame, cacheVars
  <1>13. CASE Join \/ \E i \in Inputs : Connect(i) \/ Disconnect(i)
      BY <1>2, <1>13 DEF Join, Connect, Disconnect, cacheVars
  <1>14. QED
      BY <1>3, <1>4, <1>5, <1>6, <1>7, <1>8, <1>9, <1>10, <1>11, <1>12, <1>13
         DEF Next, RenderThread, VideoThread, Callers

(* Calling the inputs is what moves the shown time line on by one interval.  *)
LEMMA CallbacksShown ==
    ASSUME IndInv, Callbacks
    PROVE  /\ Shown = cache[frame_info].timestamp /\ Shown \in Nat
           /\ Shown < clock /\ Shown' = Shown + 1
  <1>1. /\ thread = "callbacks" /\ thread' = "commit" /\ Playing
        /\ UNCHANGED <<available_frames, first_added, cache, render>>
      BY DEF Callbacks, cacheVars, Playing
  <1>2. /\ frame_info = first_added /\ Queued >= 1 /\ Pending(first_added)
      BY <1>1, PlayedSlot
  <1>3. Queued' = Queued /\ Queued # 0
      BY <1>1, <1>2 DEF Queued
  <1>4. Shown = cache[frame_info].timestamp /\ Shown' = Shown + 1
      BY <1>1, <1>2, <1>3 DEF Shown
  <1>5. cache[first_added] \in SlotInfo /\ first_added \in Slot /\ clock \in Nat
      BY DEF IndInv, TypeOK
  <1>6. /\ cache[first_added].timestamp + cache[first_added].count =< clock
        /\ cache[first_added].skipped < cache[first_added].count
      BY <1>2, <1>5 DEF IndInv, SlotsBehindClock, SkipsWithinCount
  <1>7. QED
      BY <1>2, <1>4, <1>5, <1>6 DEF SlotInfo

(* Every other step leaves it where it is.                                   *)
LEMMA OthersShown ==
    ASSUME IndInv, Next, ~Callbacks
    PROVE  Shown' = Shown
  <1> USE VideoIOAssumption
  <1>1. TypeOK /\ TypeOK'
      BY NextTypeOK DEF IndInv
  <1>2. CASE /\ UNCHANGED <<cacheVars, clock>>
             /\ render = "writing" <=> render' = "writing"
             /\ thread = "commit" <=> thread' = "commit"
      BY <1>2 DEF Shown, Queued, cacheVars
  <1>3. CASE UnlockFrame
    <2>1. Queued' = Queued
        BY <1>3, UnlockQueue
    <2>2. QED
        BY <1>3, <2>1 DEF UnlockFrame, Shown, threadVars
  <1>4. CASE LockFrame
    <2>1. PICK count \in 1 .. MaxCount :
             /\ clock' = clock + count
             /\ CoalesceFrame(count) \/ TakeSlot(count)
        BY <1>4 DEF LockFrame
    <2>2. /\ render = "frame" /\ thread' = thread /\ first_added' = first_added
          /\ available_frames' = available_frames
        BY <1>4 DEF LockFrame, threadVars
    <2>3. first_added \in Slot /\ last_added \in Slot /\ clock \in Nat
        BY <1>1 DEF TypeOK
    <2>4. CASE CoalesceFrame(count)
      <3>1. Queued # 0 /\ Queued' = Queued
          BY <2>2, <2>4 DEF CoalesceFrame, Queued
      <3>2. cache'[first_added].timestamp = cache[first_added].timestamp
          BY <2>3, <2>4, <1>1 DEF CoalesceFrame, TypeOK
      <3>3. QED
          BY <2>2, <3>1, <3>2 DEF Shown
    <2>5. CASE TakeSlot(count)
      <3>1. Queued = CacheSize - available_frames /\ Queued' = Queued + 1
            /\ Queued \in Nat
          BY <2>2, <2>5, <1>1 DEF TakeSlot, Queued, TypeOK
      <3>2. CASE Queued = 0
        <4>1. thread # "commit"
            BY <3>1, <3>2, <1>1 DEF IndInv, ThreadHoldsSlot, Playing, TypeOK
        <4>2. available_frames = CacheSize /\ last_added = first_added
            BY <3>1, <3>2, <1>1 DEF IndInv, QueueShape, TypeOK
        <4>3. cache'[first_added].timestamp = clock
            BY <4>2, <2>3, <2>5, <1>1 DEF TakeSlot, TypeOK
        <4>4. QED
            BY <2>2, <3>1, <3>2, <4>1, <4>3 DEF Shown
      <3>3. CASE Queued # 0
        <4>1. last_added' = Succ(last_added) /\ Ahead(last_added) = Queued - 1
              /\ Queued =< CacheSize - 1
            BY <3>1, <3>3, <2>5, <1>1 DEF TakeSlot, IndInv, QueueShape, TypeOK
        <4>2. last_added' # first_added
            BY <4>1, <3>1, <3>3, <2>3, <1>1, AheadFacts
        <4>3. cache'[first_added] = cache[first_added]
            BY <4>2, <2>3, <2>5, <1>1 DEF TakeSlot, TypeOK
        <4>4. QED
            BY <2>2, <3>1, <3>3, <4>3 DEF Shown
      <3>4. QED
          BY <3>2, <3>3
    <2>6. QED
        BY <2>1, <2>4, <2>5
  <1>5. CASE Commit
    <2>1. /\ thread = "commit" /\ thread' # "commit" /\ UNCHANGED <<clock, render>>
          /\ frame_info = first_added /\ first_added \in Slot /\ clock \in Nat
          /\ last_added \in Slot /\ Pending(first_added) /\ Queued >= 1
          /\ cache[first_added] \in SlotInfo
        BY <1>1, <1>5, CommitCases DEF Commit, FreeSlot, RepeatSlot, TypeOK
    <2>2. Shown = cache[first_added].timestamp + 1
        BY <2>1 DEF Shown
    <2>3. CASE FreeSlot(Left)
      <3>1. /\ first_added' = Succ(first_added)
            /\ cache' = [cache EXCEPT ![first_added] = Left]
            /\ available_frames' = available_frames + 1
            /\ cache[first_added].count = 1
          BY <2>1, <2>3 DEF FreeSlot, Left, SlotInfo
      <3>2. Queued' = Queued - 1 /\ Queued \in Nat
          BY <3>1, <2>1, <1>1 DEF Queued, TypeOK
      <3>3. IF first_added = last_added THEN Shown = clock
                                        ELSE Shown = cache[Succ(first_added)].timestamp
          BY <3>1, <2>1, <2>2 DEF IndInv, SlotsTileTime
      <3>4. Ahead(first_added) = 0 /\ Ahead(last_added) = Queued - 1
          BY <2>1, <1>1, AheadFacts DEF IndInv, QueueShape
      <3>5. CASE Queued = 1
        <4>1. first_added = last_added
            BY <3>4, <3>5, <2>1, <1>1, AheadFacts
        <4>2. QED
            BY <4>1, <3>2, <3>3, <3>5, <2>1 DEF Shown
      <3>6. CASE Queued # 1
        <4>1. Succ(first_added) \in Slot /\ Succ(first_added) # first_added
          <5>1. Ahead(last_added) \in 1 .. CacheSize - 1
              BY <3>2, <3>4, <3>6, <2>1, <1>1, AheadFacts
          <5>2. CacheSize - 1 # 0
              BY <5>1
          <5>3. QED
              BY <5>2, <2>1 DEF Succ, Slot
        <4>2. cache'[Succ(first_added)] = cache[Succ(first_added)]
            BY <4>1, <3>1, <1>1 DEF TypeOK
        <4>3. first_added # last_added
            BY <3>2, <3>4, <3>6
        <4>4. QED
            BY <4>2, <4>3, <3>1, <3>2, <3>3, <3>6, <2>1 DEF Shown
      <3>7. QED
          BY <3>5, <3>6
    <2>4. CASE RepeatSlot(Left)
      <3>1. Queued' = Queued /\ Queued # 0 /\ first_added' = first_added
        <4>1. Queued' = Queued
            BY <2>4, <1>5, RepeatSlotQueue
        <4>2. first_added' = first_added
            BY <2>4 DEF RepeatSlot
        <4>3. QED
            BY <4>1, <4>2, <2>1
      <3>2. cache'[first_added].timestamp = cache[first_added].timestamp + 1
          BY <2>1, <2>4, <1>1 DEF RepeatSlot, Left, TypeOK
      <3>3. QED
          BY <2>1, <2>2, <3>1, <3>2 DEF Shown
    <2>5. QED
        BY <1>5, <2>3, <2>4, CommitCases
  <1>6. QED
      BY <1>2, <1>3, <1>4, <1>5
         DEF Next, RenderThread, VideoThread, Callers, RenderTop, Wake, Enter,
             StoreSkipped, LoadTotal, StoreTotal, Stop, Join, Connect,
             Disconnect, threadVars

(* No step lets an input run ahead of the time line or fall behind it.       *)
LEMMA NextSeen == IndInv /\ Next => SeenIsCurrent'
  <1> SUFFICES ASSUME IndInv, Next PROVE SeenIsCurrent'
      OBVIOUS
  <1>1. /\ TypeOK /\ TypeOK' /\ SeenIsCurrent /\ Converting \subseteq Inputs
      BY NextTypeOK, VideoIOAssumption DEF IndInv
  <1>2. CASE Callbacks
    <2>1. PICK failed \in SUBSET (inputs \cap Converting) :
             seen' = [i \in Inputs |-> IF i \in inputs \ failed
                                       THEN cache[frame_info].timestamp
                                       ELSE seen[i]]
        BY <1>2 DEF Callbacks
    <2>2. inputs' = inputs
        BY <1>2 DEF Callbacks
    <2>3. /\ Shown = cache[frame_info].timestamp /\ Shown' = Shown + 1
          /\ Shown \in Nat
        BY <1>2, CallbacksShown
    <2> SUFFICES ASSUME NEW i \in Inputs
                 PROVE  /\ i \notin inputs => seen'[i] = Unseen
                        /\ seen'[i] # Unseen =>
                              IF i \in Converting THEN seen'[i] < Shown'
                                                  ELSE seen'[i] + 1 = Shown'
        BY <2>2 DEF SeenIsCurrent
    <2>4. CASE i \in inputs \ failed
        BY <2>1, <2>3, <2>4
    <2>5. CASE i \notin inputs \ failed
      <3>1. seen'[i] = seen[i] /\ (i \notin Converting => i \notin inputs)
          BY <2>1, <2>5
      <3>2. /\ i \notin inputs => seen[i] = Unseen
            /\ seen[i] # Unseen => i \in Converting /\ seen[i] < Shown
          BY <3>1, <1>1 DEF SeenIsCurrent
      <3>3. seen[i] \in Nat \cup {Unseen}
          BY <1>1 DEF TypeOK
      <3>4. QED
          BY <3>1, <3>2, <3>3, <2>3 DEF Unseen
    <2>6. QED
        BY <2>4, <2>5
  <1>3. CASE ~Callbacks
    <2>1. Shown' = Shown
        BY <1>3, OthersShown
    <2>2. CASE UNCHANGED <<inputs, seen>>
        BY <2>1, <2>2, <1>1 DEF SeenIsCurrent
    <2>3. ASSUME NEW i \in Inputs, Connect(i) \/ Disconnect(i)
          PROVE  SeenIsCurrent'
        BY <2>1, <2>3, <1>1 DEF SeenIsCurrent, Connect, Disconnect, TypeOK
    <2>4. QED
        BY <2>2, <2>3, <1>3
           DEF Next, RenderThread, VideoThread, Callers, RenderTop, LockFrame,
               UnlockFrame, Wake, Enter, Commit, StoreSkipped, LoadTotal,
               StoreTotal, Stop, Join
  <1>4. QED
      BY <1>2, <1>3

(* The inductive invariant holds in every state of the system.               *)
THEOREM Invariance == Spec => []IndInv
  <1>1. Init => IndInv
      BY InitIndInv
  <1>2. IndInv /\ [Next]_vars => IndInv'
    <2> SUFFICES ASSUME IndInv, [Next]_vars PROVE IndInv'
        OBVIOUS
    <2>1. CASE Next
        BY <2>1, NextTypeOK, NextQueue, NextThread, NextSeen DEF IndInv, Queue
    <2>2. CASE UNCHANGED vars
        BY <2>2 DEF vars, cacheVars, statVars, threadVars, IndInv, TypeOK,
                    QueueShape, SlotsTileTime, SlotsBehindClock,
                    SkipsWithinCount, WakeupsMatchSlots, ThreadHoldsSlot,
                    SeenIsCurrent, Shown, Playing, Pending, Ahead, Queued
    <2>3. QED
        BY <2>1, <2>2
  <1>3. QED
      BY <1>1, <1>2, PTL DEF Spec

(* The type invariant, for every constant.                                   *)
THEOREM TypeCorrect == Spec => []TypeOK
  BY Invariance, PTL DEF IndInv

(* video_output_cur_frame reads the picture of a slot without holding        *)
(* data_mutex; it is never the slot that lock_frame handed to the renderer.  *)
THEOREM NoTornFrameEver == Spec => []NoTornFrame
  <1>1. IndInv => NoTornFrame
    <2> SUFFICES ASSUME IndInv, render = "writing",
                        thread \in {"callbacks", "commit"}
                 PROVE  frame_info # last_added
        BY DEF NoTornFrame
    <2>1. frame_info = first_added /\ available_frames < CacheSize
        BY DEF IndInv, ThreadHoldsSlot, Playing
    <2>2. TypeOK /\ Queued >= 2 /\ Queued \in Nat
        BY <2>1, VideoIOAssumption DEF IndInv, Queued, TypeOK
    <2>3. Ahead(last_added) = Queued - 1 /\ Queued # 0
        BY <2>2 DEF IndInv, QueueShape
    <2>4. Ahead(first_added) = 0
        BY <2>2, AheadFacts DEF TypeOK
    <2>5. QED
        BY <2>1, <2>2, <2>3, <2>4
  <1>2. QED
      BY <1>1, Invariance, PTL

(* Queued slots tile the time line up to the renderer's clock, and no slot   *)
(* holds more skipped intervals than it has left.                            *)
THEOREM SlotsTileTimeAlways == Spec => [](SlotsTileTime /\ SkipsWithinCount)
  BY Invariance, PTL DEF IndInv

(* One semaphore count for every frame the video thread has not taken up.    *)
THEOREM WakeupsMatchSlotsAlways == Spec => []WakeupsMatchSlots
  BY Invariance, PTL DEF IndInv

(* The input of an encoder is called for every interval exactly once and in  *)
(* order, whatever the graphics thread had to drop.                          *)
THEOREM EveryIntervalOnceAlways == Spec => EveryIntervalOnce
  <1> DEFINE Step ==
        \A i \in Inputs :
          (seen[i] # Unseen /\ seen'[i] # Unseen /\ seen'[i] # seen[i]) =>
              IF i \in Converting THEN seen'[i] > seen[i]
                                  ELSE seen'[i] = seen[i] + 1
  <1>1. IndInv /\ Next => Step
    <2> SUFFICES ASSUME IndInv, Next, NEW i \in Inputs, seen[i] # Unseen,
                        seen'[i] # Unseen, seen'[i] # seen[i]
                 PROVE  IF i \in Converting THEN seen'[i] > seen[i]
                                            ELSE seen'[i] = seen[i] + 1
        OBVIOUS
    <2>1. CASE Callbacks
      <3>1. seen'[i] = cache[frame_info].timestamp
          BY <2>1 DEF Callbacks
      <3>2. Shown = cache[frame_info].timestamp /\ Shown \in Nat
          BY <2>1, CallbacksShown
      <3>3. IF i \in Converting THEN seen[i] < Shown ELSE seen[i] + 1 = Shown
          BY DEF IndInv, SeenIsCurrent
      <3>4. seen[i] \in Nat
          BY DEF IndInv, TypeOK
      <3>5. QED
          BY <3>1, <3>2, <3>3, <3>4
    <2>2. ASSUME NEW j \in Inputs, Connect(j) \/ Disconnect(j)
          PROVE  FALSE
      <3>1. seen'[i] = seen[i] \/ seen'[i] = Unseen
          BY <2>2 DEF Connect, Disconnect, IndInv, TypeOK
      <3>2. QED
          BY <3>1
    <2>3. QED
        BY <2>1, <2>2
           DEF Next, RenderThread, VideoThread, Callers, RenderTop, LockFrame,
               UnlockFrame, Wake, Enter, Commit, StoreSkipped, LoadTotal,
               StoreTotal, Stop, Join
  <1>2. IndInv /\ [Next]_vars => [Step]_vars
      BY <1>1
  <1>3. QED
      BY <1>2, Invariance, PTL DEF Spec, EveryIntervalOnce

(* The frame cache implements the plain time line of FrameStream: what was   *)
(* submitted is shown one interval after the other, nothing lost or repeated. *)
THEOREM Refinement == Spec => ImplementsFrameStream
  <1>1. Init => Stream!Init
      BY VideoIOAssumption DEF Init, Stream!Init, Shown, Queued
  <1>2. IndInv /\ [Next]_vars => [Stream!Next]_(Stream!vars)
    <2> SUFFICES ASSUME IndInv, [Next]_vars
                 PROVE  Stream!Next \/ UNCHANGED Stream!vars
        OBVIOUS
    <2>1. CASE Callbacks
        BY <2>1, CallbacksShown DEF Callbacks, Stream!Next, Stream!Show
    <2>2. CASE Next /\ ~Callbacks
      <3>1. Shown' = Shown
          BY <2>2, OthersShown
      <3>2. clock' = clock \/ \E count \in 1 .. MaxCount : clock' = clock + count
          BY <2>2 DEF Next, RenderThread, VideoThread, Callers, RenderTop,
               LockFrame, UnlockFrame, Wake, Enter, Commit, StoreSkipped,
               LoadTotal, StoreTotal, Stop, Join, Connect, Disconnect
      <3>3. QED
          BY <3>1, <3>2 DEF Stream!Next, Stream!Submit, Stream!vars
    <2>3. CASE UNCHANGED vars
        BY <2>3 DEF vars, cacheVars, threadVars, Stream!vars, Shown, Queued
    <2>4. QED
        BY <2>1, <2>2, <2>3
  <1>3. QED
      BY <1>1, <1>2, Invariance, PTL DEF Spec, ImplementsFrameStream,
         Stream!Spec

=============================================================================
