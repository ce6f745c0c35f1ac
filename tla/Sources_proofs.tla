--------------------------- MODULE Sources_proofs ---------------------------
(***************************************************************************)
(* Proofs about SourceRefs, for every finite set of users and every bound of *)
(* the references they hold: unless the audio thread walks its list while    *)
(* the last reference is given up, nothing is freed that is in use.          *)
(* And about SceneItems: for any scenes, sources and items, whatever the     *)
(* frontend, the audio thread and the graphics thread do, no scene becomes   *)
(* an active part of itself, what the counts of the items stand for is kept, *)
(* and so are, unless the audio thread hides an item between the two halves  *)
(* of a count, the counts that say which sources are shown and active.       *)
(***************************************************************************)
EXTENDS SourceRefs, SceneItems, FiniteSetTheorems, SequenceTheorems,
        WellFoundedInduction, TLAPS

(* What the counts stand for *)

\* The references the threads have, each with a number of its own.
Holds == {p \in Threads \X (1 .. MaxHeld + 1) : p[2] <= held[p[1]]}

WeakHolders == {t \in Threads : weak[t]}

Dying(t) == thread[t] \in {"destroy", "unlist", "free", "release_control"}

\* The strong references have given up their weak one.
ControlReleased == freed /\ Releasing = {}

\* source_refs is one less than the references of the threads and the channel.
RefsCounted == source_refs + 1 = Cardinality(Holds) + (IF channel THEN 1 ELSE 0)

WeakCounted ==
    weak_refs + 1 = Cardinality(WeakHolders) + (IF ControlReleased THEN 0 ELSE 1)

-----------------------------------------------------------------------------
(* The inductive invariant                                                  *)

\* What a thread may be at, and what it has there.
ThreadPlaces ==
    \A t \in Threads :
        /\ held[t] <= MaxHeld + 1
        /\ thread[t] \in {"found", "swap"} => t \in Users /\ held[t] < MaxHeld
        /\ thread[t] = "walk" => t \in {"audio", "graphics"}
        /\ Dying(t) => t # "graphics"

\* Who has a mutex is between the two ends of a search or a walk; a list is
\* only left while nobody has its mutex, so its owner finds the source listed.
MutexHeld ==
    /\ sources_mutex # "none" =>
          /\ listed /\ sources_mutex # "audio"
          /\ thread[sources_mutex] \in {"found", "swap", "walk"}
    /\ audio_sources_mutex # "none" =>
          audio_listed /\ audio_sources_mutex = "audio" /\ thread["audio"] = "walk"
    /\ \A u \in Users :
          /\ thread[u] = "found" => sources_mutex = u
          /\ thread[u] = "swap" => weak[u] \/ sources_mutex = u
    /\ thread["graphics"] = "walk" => sources_mutex = "graphics"
    /\ thread["audio"] = "walk" => audio_sources_mutex = "audio"

\* A reference is only tried for after a look that saw one.
SwapSawReference == \A u \in Users : thread[u] = "swap" => seen[u] > -1

\* Only one thread destroys the source, when there are no references any more,
\* and it leaves both lists before it frees the source.
DestroyedOnce ==
    /\ \A t \in Threads : Dying(t) => source_refs = -1
    /\ \A t, w \in Threads : Dying(t) /\ Dying(w) => t = w
    /\ \A t \in Threads : freed => thread[t] \notin {"destroy", "unlist", "free"}
    /\ \A t \in Threads : thread[t] = "release_control" => freed
    /\ freed => source_refs = -1

ListedIsAlive ==
    /\ listed => ~freed /\ \A t \in Threads : thread[t] # "free"
    /\ audio_listed =>
          ~freed /\ \A t \in Threads : thread[t] \notin {"unlist", "free"}

RefInv ==
    /\ RefTypeOK /\ RefsCounted /\ WeakCounted
    /\ ThreadPlaces /\ MutexHeld /\ SwapSawReference
    /\ DestroyedOnce /\ ListedIsAlive
    /\ control_freed => weak_refs = -1

-----------------------------------------------------------------------------
(* Lemmas about the counts                                                  *)

(* The threads are finitely many, so what they hold can be counted.         *)
LEMMA HoldsFinite ==
    ASSUME RefTypeOK
    PROVE  /\ IsFiniteSet(Holds) /\ Cardinality(Holds) \in Nat
           /\ IsFiniteSet(WeakHolders) /\ Cardinality(WeakHolders) \in Nat
  <1>1. IsFiniteSet(Threads)
    <2>1. IsFiniteSet({"audio", "graphics"})
      <3>1. {"audio", "graphics"} = {"audio"} \cup {"graphics"}
          OBVIOUS
      <3>2. IsFiniteSet({"audio"})
          BY FS_Singleton
      <3>3. IsFiniteSet({"audio"} \cup {"graphics"})
          BY <3>2, FS_AddElement
      <3>4. QED
          BY <3>1, <3>3
    <2>2. QED
        BY <2>1, FS_Union, SourceRefsAssumption DEF Threads
  <1>2. IsFiniteSet(Threads \X (1 .. MaxHeld + 1))
    <2>1. IsFiniteSet(1 .. MaxHeld + 1)
        BY FS_Interval, SourceRefsAssumption
    <2>2. QED
        BY <1>1, <2>1, FS_Product
  <1>3. IsFiniteSet(Holds) /\ IsFiniteSet(WeakHolders)
      BY <1>1, <1>2, FS_Subset DEF Holds, WeakHolders
  <1>4. QED
      BY <1>3, FS_CardinalityType

(* Who takes a reference more makes the count of references one larger.      *)
LEMMA HoldMore ==
    ASSUME RefTypeOK, NEW t \in Threads, held[t] <= MaxHeld,
           held' = [held EXCEPT ![t] = @ + 1]
    PROVE  Cardinality(Holds') = Cardinality(Holds) + 1
  <1> USE SourceRefsAssumption DEF RefTypeOK
  <1> DEFINE new == <<t, held[t] + 1>>
  <1>1. Holds' = Holds \cup {new}
    <2>1. held[t] + 1 \in 1 .. MaxHeld + 1
        OBVIOUS
    <2>2. ASSUME NEW p \in Threads \X (1 .. MaxHeld + 1)
          PROVE  p[2] <= held'[p[1]] <=> p[2] <= held[p[1]] \/ p = new
        OBVIOUS
    <2>3. QED
        BY <2>1, <2>2 DEF Holds
  <1>2. new \notin Holds
      BY DEF Holds
  <1>3. QED
      BY <1>1, <1>2, HoldsFinite, FS_AddElement

(* Who gives one up makes it one smaller.                                    *)
LEMMA HoldLess ==
    ASSUME RefTypeOK, NEW t \in Threads, held[t] \in 1 .. MaxHeld + 1,
           held' = [held EXCEPT ![t] = @ - 1]
    PROVE  Cardinality(Holds') = Cardinality(Holds) - 1
  <1> USE SourceRefsAssumption DEF RefTypeOK
  <1> DEFINE old == <<t, held[t]>>
  <1>1. Holds' = Holds \ {old}
    <2>1. ASSUME NEW p \in Threads \X (1 .. MaxHeld + 1)
          PROVE  p[2] <= held'[p[1]] <=> p[2] <= held[p[1]] /\ p # old
        OBVIOUS
    <2>2. QED
        BY <2>1 DEF Holds
  <1>2. old \in Holds
      BY DEF Holds
  <1>3. QED
      BY <1>1, <1>2, HoldsFinite, FS_RemoveElement

(* A source somebody holds, or the channel has, is counted as held.          *)
LEMMA HeldIsCounted ==
    ASSUME RefTypeOK, RefsCounted, ThreadPlaces
    PROVE  /\ source_refs >= -1
           /\ channel \/ (\E t \in Threads : held[t] > 0) => source_refs >= 0
  <1> USE SourceRefsAssumption, HoldsFinite DEF RefTypeOK
  <1>1. ASSUME NEW t \in Threads, held[t] > 0 PROVE Cardinality(Holds) >= 1
    <2>1. <<t, 1>> \in Holds
        BY <1>1 DEF Holds
    <2>2. QED
        BY <2>1, FS_EmptySet
  <1>2. QED
      BY <1>1 DEF RefsCounted

(* A control block somebody has a weak reference to, or that the strong ones *)
(* have theirs to, is counted as held.                                       *)
LEMMA WeakIsCounted ==
    ASSUME RefTypeOK, WeakCounted
    PROVE  /\ weak_refs >= -1
           /\ ~ControlReleased \/ (\E t \in Threads : weak[t]) => weak_refs >= 0
  <1> USE HoldsFinite DEF RefTypeOK
  <1>1. ASSUME NEW t \in Threads, weak[t] PROVE Cardinality(WeakHolders) >= 1
    <2>1. t \in WeakHolders
        BY <1>1 DEF WeakHolders
    <2>2. QED
        BY <2>1, FS_EmptySet
  <1>2. QED
      BY <1>1 DEF WeakCounted

-----------------------------------------------------------------------------
(* Each part of the invariant is kept by each step                          *)

(* Every step keeps the type invariant. *)
LEMMA TypeKept ==
    ASSUME "revive" \notin RefRaces, RefInv, RefNext PROVE RefTypeOK'
  <1> USE SourceRefsAssumption DEF RefInv, RefTypeOK, memVars, listVars,
        lockVars, countVars, Threads
  <1>1. ASSUME NEW u \in Users, Addref(u) PROVE RefTypeOK'
      BY <1>1 DEF Addref
  <1>2. ASSUME NEW u \in Users, GetWeak(u) PROVE RefTypeOK'
      BY <1>2 DEF GetWeak
  <1>3. ASSUME NEW u \in Users, DropWeak(u) PROVE RefTypeOK'
      BY <1>3 DEF DropWeak, ReleaseWeak
  <1>4. ASSUME NEW u \in Users, GetSource(u) PROVE RefTypeOK'
      BY <1>4 DEF GetSource, Look
  <1>5. ASSUME NEW u \in Users, FindByName(u) PROVE RefTypeOK'
      BY <1>5 DEF FindByName
  <1>6. ASSUME NEW u \in Users, SetChannel(u) PROVE RefTypeOK'
      BY <1>6 DEF SetChannel
  <1>7. ASSUME NEW u \in Users, ClearChannel(u) PROVE RefTypeOK'
    <2>1. held' \in [Threads -> Nat]
        BY <1>7 DEF ClearChannel
    <2>2. QED
        BY <1>7, <2>1 DEF ClearChannel
  <1>8. ASSUME NEW u \in Users, GetFound(u) PROVE RefTypeOK'
      BY <1>8 DEF GetFound, Look
  <1>9. ASSUME NEW u \in Users, Swap(u) PROVE RefTypeOK'
      BY <1>9 DEF Swap, Look, Unlocked
  <1>10. ASSUME NEW t \in Users \cup {"audio"}, ReleaseRef(t) PROVE RefTypeOK'
      BY <1>10 DEF ReleaseRef
  <1>11. ASSUME NEW t \in Users \cup {"audio"}, LeaveAudioList(t)
         PROVE  RefTypeOK'
      BY <1>11 DEF LeaveAudioList, Goes
  <1>12. ASSUME NEW t \in Users \cup {"audio"}, LeaveList(t) PROVE RefTypeOK'
      BY <1>12 DEF LeaveList, Goes
  <1>13. ASSUME NEW t \in Users \cup {"audio"}, FreeSource(t) PROVE RefTypeOK'
      BY <1>13 DEF FreeSource, Goes
  <1>14. ASSUME NEW t \in Users \cup {"audio"}, ReleaseControl(t)
         PROVE  RefTypeOK'
      BY <1>14 DEF ReleaseControl, Goes, ReleaseWeak
  <1>15. CASE TickSources
      BY <1>15 DEF TickSources, Goes
  <1>16. CASE TickDone
      BY <1>16 DEF TickDone, Goes
  <1>17. CASE AudioGetsChannel
      BY <1>17 DEF AudioGetsChannel
  <1>18. CASE AudioWalks
      BY <1>18 DEF AudioWalks, Goes
  <1>19. CASE AudioWalked
      BY <1>19 DEF AudioWalked, Goes
  <1>20. QED
      BY <1>1, <1>2, <1>3, <1>4, <1>5, <1>6, <1>7, <1>8, <1>9, <1>10, <1>11,
         <1>12, <1>13, <1>14, <1>15, <1>16, <1>17, <1>18, <1>19 DEF RefNext,
         SourceCall, GetRef, Destroy

(* A thread is where its calls bring it, and holds no more than it may. *)
LEMMA PlacesKept ==
    ASSUME "revive" \notin RefRaces, RefInv, RefNext PROVE ThreadPlaces'
  <1> USE SourceRefsAssumption DEF RefInv, RefTypeOK, ThreadPlaces, Dying,
        memVars, listVars, lockVars, countVars, Threads
  <1>1. ASSUME NEW u \in Users, Addref(u) PROVE ThreadPlaces'
      BY <1>1 DEF Addref
  <1>2. ASSUME NEW u \in Users, GetWeak(u) PROVE ThreadPlaces'
      BY <1>2 DEF GetWeak
  <1>3. ASSUME NEW u \in Users, DropWeak(u) PROVE ThreadPlaces'
      BY <1>3 DEF DropWeak, ReleaseWeak
  <1>4. ASSUME NEW u \in Users, GetSource(u) PROVE ThreadPlaces'
      BY <1>4 DEF GetSource, Look
  <1>5. ASSUME NEW u \in Users, FindByName(u) PROVE ThreadPlaces'
      BY <1>5 DEF FindByName
  <1>6. ASSUME NEW u \in Users, SetChannel(u) PROVE ThreadPlaces'
      BY <1>6 DEF SetChannel
  <1>7. ASSUME NEW u \in Users, ClearChannel(u) PROVE ThreadPlaces'
      BY <1>7 DEF ClearChannel
  <1>8. ASSUME NEW u \in Users, GetFound(u) PROVE ThreadPlaces'
      BY <1>8 DEF GetFound, Look
  <1>9. ASSUME NEW u \in Users, Swap(u) PROVE ThreadPlaces'
      BY <1>9 DEF Swap, Look, Unlocked
  <1>10. ASSUME NEW t \in Users \cup {"audio"}, ReleaseRef(t)
         PROVE  ThreadPlaces'
      BY <1>10 DEF ReleaseRef
  <1>11. ASSUME NEW t \in Users \cup {"audio"}, LeaveAudioList(t)
         PROVE  ThreadPlaces'
      BY <1>11 DEF LeaveAudioList, Goes
  <1>12. ASSUME NEW t \in Users \cup {"audio"}, LeaveList(t) PROVE ThreadPlaces'
      BY <1>12 DEF LeaveList, Goes
  <1>13. ASSUME NEW t \in Users \cup {"audio"}, FreeSource(t)
         PROVE  ThreadPlaces'
      BY <1>13 DEF FreeSource, Goes
  <1>14. ASSUME NEW t \in Users \cup {"audio"}, ReleaseControl(t)
         PROVE  ThreadPlaces'
      BY <1>14 DEF ReleaseControl, Goes, ReleaseWeak
  <1>15. CASE TickSources
      BY <1>15 DEF TickSources, Goes
  <1>16. CASE TickDone
      BY <1>16 DEF TickDone, Goes
  <1>17. CASE AudioGetsChannel
      BY <1>17 DEF AudioGetsChannel
  <1>18. CASE AudioWalks
      BY <1>18 DEF AudioWalks, Goes
  <1>19. CASE AudioWalked
      BY <1>19 DEF AudioWalked, Goes
  <1>20. QED
      BY <1>1, <1>2, <1>3, <1>4, <1>5, <1>6, <1>7, <1>8, <1>9, <1>10, <1>11,
         <1>12, <1>13, <1>14, <1>15, <1>16, <1>17, <1>18, <1>19 DEF RefNext,
         SourceCall, GetRef, Destroy

(* A mutex is held between the two ends of a search or a walk. *)
LEMMA MutexKept ==
    ASSUME "revive" \notin RefRaces, RefInv, RefNext PROVE MutexHeld'
  <1> USE SourceRefsAssumption DEF RefInv, RefTypeOK, ThreadPlaces, MutexHeld,
        memVars, listVars, lockVars, countVars, Threads
  <1>1. ASSUME NEW u \in Users, Addref(u) PROVE MutexHeld'
      BY <1>1 DEF Addref
  <1>2. ASSUME NEW u \in Users, GetWeak(u) PROVE MutexHeld'
      BY <1>2 DEF GetWeak
  <1>3. ASSUME NEW u \in Users, DropWeak(u) PROVE MutexHeld'
      BY <1>3 DEF DropWeak, ReleaseWeak
  <1>4. ASSUME NEW u \in Users, GetSource(u) PROVE MutexHeld'
      BY <1>4 DEF GetSource, Look
  <1>5. ASSUME NEW u \in Users, FindByName(u) PROVE MutexHeld'
      BY <1>5 DEF FindByName
  <1>6. ASSUME NEW u \in Users, SetChannel(u) PROVE MutexHeld'
      BY <1>6 DEF SetChannel
  <1>7. ASSUME NEW u \in Users, ClearChannel(u) PROVE MutexHeld'
      BY <1>7 DEF ClearChannel
  <1>8. ASSUME NEW u \in Users, GetFound(u) PROVE MutexHeld'
      BY <1>8 DEF GetFound, Look
  <1>9. ASSUME NEW u \in Users, Swap(u) PROVE MutexHeld'
      BY <1>9 DEF Swap, Look, Unlocked
  <1>10. ASSUME NEW t \in Users \cup {"audio"}, ReleaseRef(t) PROVE MutexHeld'
      BY <1>10 DEF ReleaseRef
  <1>11. ASSUME NEW t \in Users \cup {"audio"}, LeaveAudioList(t)
         PROVE  MutexHeld'
      BY <1>11 DEF LeaveAudioList, Goes
  <1>12. ASSUME NEW t \in Users \cup {"audio"}, LeaveList(t) PROVE MutexHeld'
      BY <1>12 DEF LeaveList, Goes
  <1>13. ASSUME NEW t \in Users \cup {"audio"}, FreeSource(t) PROVE MutexHeld'
      BY <1>13 DEF FreeSource, Goes
  <1>14. ASSUME NEW t \in Users \cup {"audio"}, ReleaseControl(t)
         PROVE  MutexHeld'
      BY <1>14 DEF ReleaseControl, Goes, ReleaseWeak
  <1>15. CASE TickSources
      BY <1>15 DEF TickSources, Goes
  <1>16. CASE TickDone
      BY <1>16 DEF TickDone, Goes
  <1>17. CASE AudioGetsChannel
      BY <1>17 DEF AudioGetsChannel
  <1>18. CASE AudioWalks
      BY <1>18 DEF AudioWalks, Goes
  <1>19. CASE AudioWalked
      BY <1>19 DEF AudioWalked, Goes
  <1>20. QED
      BY <1>1, <1>2, <1>3, <1>4, <1>5, <1>6, <1>7, <1>8, <1>9, <1>10, <1>11,
         <1>12, <1>13, <1>14, <1>15, <1>16, <1>17, <1>18, <1>19 DEF RefNext,
         SourceCall, GetRef, Destroy

(* A compare-and-swap has seen a reference. *)
LEMMA SwapKept ==
    ASSUME "revive" \notin RefRaces, RefInv, RefNext PROVE SwapSawReference'
  <1> USE SourceRefsAssumption DEF RefInv, RefTypeOK, SwapSawReference, memVars,
        listVars, lockVars, countVars, Threads
  <1>1. ASSUME NEW u \in Users, Addref(u) PROVE SwapSawReference'
      BY <1>1 DEF Addref
  <1>2. ASSUME NEW u \in Users, GetWeak(u) PROVE SwapSawReference'
      BY <1>2 DEF GetWeak
  <1>3. ASSUME NEW u \in Users, DropWeak(u) PROVE SwapSawReference'
      BY <1>3 DEF DropWeak, ReleaseWeak
  <1>4. ASSUME NEW u \in Users, GetSource(u) PROVE SwapSawReference'
      BY <1>4 DEF GetSource, Look
  <1>5. ASSUME NEW u \in Users, FindByName(u) PROVE SwapSawReference'
      BY <1>5 DEF FindByName
  <1>6. ASSUME NEW u \in Users, SetChannel(u) PROVE SwapSawReference'
      BY <1>6 DEF SetChannel
  <1>7. ASSUME NEW u \in Users, ClearChannel(u) PROVE SwapSawReference'
      BY <1>7 DEF ClearChannel
  <1>8. ASSUME NEW u \in Users, GetFound(u) PROVE SwapSawReference'
      BY <1>8 DEF GetFound, Look
  <1>9. ASSUME NEW u \in Users, Swap(u) PROVE SwapSawReference'
      BY <1>9 DEF Swap, Look, Unlocked
  <1>10. ASSUME NEW t \in Users \cup {"audio"}, ReleaseRef(t)
         PROVE  SwapSawReference'
      BY <1>10 DEF ReleaseRef
  <1>11. ASSUME NEW t \in Users \cup {"audio"}, LeaveAudioList(t)
         PROVE  SwapSawReference'
      BY <1>11 DEF LeaveAudioList, Goes
  <1>12. ASSUME NEW t \in Users \cup {"audio"}, LeaveList(t)
         PROVE  SwapSawReference'
      BY <1>12 DEF LeaveList, Goes
  <1>13. ASSUME NEW t \in Users \cup {"audio"}, FreeSource(t)
         PROVE  SwapSawReference'
      BY <1>13 DEF FreeSource, Goes
  <1>14. ASSUME NEW t \in Users \cup {"audio"}, ReleaseControl(t)
         PROVE  SwapSawReference'
      BY <1>14 DEF ReleaseControl, Goes, ReleaseWeak
  <1>15. CASE TickSources
      BY <1>15 DEF TickSources, Goes
  <1>16. CASE TickDone
      BY <1>16 DEF TickDone, Goes
  <1>17. CASE AudioGetsChannel
      BY <1>17 DEF AudioGetsChannel
  <1>18. CASE AudioWalks
      BY <1>18 DEF AudioWalks, Goes
  <1>19. CASE AudioWalked
      BY <1>19 DEF AudioWalked, Goes
  <1>20. QED
      BY <1>1, <1>2, <1>3, <1>4, <1>5, <1>6, <1>7, <1>8, <1>9, <1>10, <1>11,
         <1>12, <1>13, <1>14, <1>15, <1>16, <1>17, <1>18, <1>19 DEF RefNext,
         SourceCall, GetRef, Destroy

(* The lists are left before the source is freed. *)
LEMMA ListedKept ==
    ASSUME "revive" \notin RefRaces, RefInv, RefNext PROVE ListedIsAlive'
  <1> USE SourceRefsAssumption DEF RefInv, RefTypeOK, ListedIsAlive,
        DestroyedOnce, Dying, memVars, listVars, lockVars, countVars, Threads
  <1>1. ASSUME NEW u \in Users, Addref(u) PROVE ListedIsAlive'
      BY <1>1 DEF Addref
  <1>2. ASSUME NEW u \in Users, GetWeak(u) PROVE ListedIsAlive'
      BY <1>2 DEF GetWeak
  <1>3. ASSUME NEW u \in Users, DropWeak(u) PROVE ListedIsAlive'
      BY <1>3 DEF DropWeak, ReleaseWeak
  <1>4. ASSUME NEW u \in Users, GetSource(u) PROVE ListedIsAlive'
      BY <1>4 DEF GetSource, Look
  <1>5. ASSUME NEW u \in Users, FindByName(u) PROVE ListedIsAlive'
      BY <1>5 DEF FindByName
  <1>6. ASSUME NEW u \in Users, SetChannel(u) PROVE ListedIsAlive'
      BY <1>6 DEF SetChannel
  <1>7. ASSUME NEW u \in Users, ClearChannel(u) PROVE ListedIsAlive'
      BY <1>7 DEF ClearChannel
  <1>8. ASSUME NEW u \in Users, GetFound(u) PROVE ListedIsAlive'
      BY <1>8 DEF GetFound, Look
  <1>9. ASSUME NEW u \in Users, Swap(u) PROVE ListedIsAlive'
      BY <1>9 DEF Swap, Look, Unlocked
  <1>10. ASSUME NEW t \in Users \cup {"audio"}, ReleaseRef(t)
         PROVE  ListedIsAlive'
      BY <1>10 DEF ReleaseRef
  <1>11. ASSUME NEW t \in Users \cup {"audio"}, LeaveAudioList(t)
         PROVE  ListedIsAlive'
      BY <1>11 DEF LeaveAudioList, Goes
  <1>12. ASSUME NEW t \in Users \cup {"audio"}, LeaveList(t)
         PROVE  ListedIsAlive'
      BY <1>12 DEF LeaveList, Goes
  <1>13. ASSUME NEW t \in Users \cup {"audio"}, FreeSource(t)
         PROVE  ListedIsAlive'
      BY <1>13 DEF FreeSource, Goes
  <1>14. ASSUME NEW t \in Users \cup {"audio"}, ReleaseControl(t)
         PROVE  ListedIsAlive'
      BY <1>14 DEF ReleaseControl, Goes, ReleaseWeak
  <1>15. CASE TickSources
      BY <1>15 DEF TickSources, Goes
  <1>16. CASE TickDone
      BY <1>16 DEF TickDone, Goes
  <1>17. CASE AudioGetsChannel
      BY <1>17 DEF AudioGetsChannel
  <1>18. CASE AudioWalks
      BY <1>18 DEF AudioWalks, Goes
  <1>19. CASE AudioWalked
      BY <1>19 DEF AudioWalked, Goes
  <1>20. QED
      BY <1>1, <1>2, <1>3, <1>4, <1>5, <1>6, <1>7, <1>8, <1>9, <1>10, <1>11,
         <1>12, <1>13, <1>14, <1>15, <1>16, <1>17, <1>18, <1>19 DEF RefNext,
         SourceCall, GetRef, Destroy

(* Only the last release begins to destroy the source. *)
LEMMA OnceKept ==
    ASSUME "revive" \notin RefRaces, RefInv, RefNext PROVE DestroyedOnce'
  <1> USE SourceRefsAssumption, HeldIsCounted DEF RefInv, RefTypeOK,
        DestroyedOnce, Dying, SwapSawReference, ThreadPlaces, memVars,
        listVars, lockVars, countVars, Threads
  <1>1. ASSUME NEW u \in Users, Addref(u) PROVE DestroyedOnce'
      BY <1>1 DEF Addref
  <1>2. ASSUME NEW u \in Users, GetWeak(u) PROVE DestroyedOnce'
      BY <1>2 DEF GetWeak
  <1>3. ASSUME NEW u \in Users, DropWeak(u) PROVE DestroyedOnce'
      BY <1>3 DEF DropWeak, ReleaseWeak
  <1>4. ASSUME NEW u \in Users, GetSource(u) PROVE DestroyedOnce'
      BY <1>4 DEF GetSource, Look
  <1>5. ASSUME NEW u \in Users, FindByName(u) PROVE DestroyedOnce'
      BY <1>5 DEF FindByName
  <1>6. ASSUME NEW u \in Users, SetChannel(u) PROVE DestroyedOnce'
      BY <1>6 DEF SetChannel
  <1>7. ASSUME NEW u \in Users, ClearChannel(u) PROVE DestroyedOnce'
      BY <1>7 DEF ClearChannel
  <1>8. ASSUME NEW u \in Users, GetFound(u) PROVE DestroyedOnce'
      BY <1>8 DEF GetFound, Look
  <1>9. ASSUME NEW u \in Users, Swap(u) PROVE DestroyedOnce'
      BY <1>9 DEF Swap, Look, Unlocked
  <1>10. ASSUME NEW t \in Users \cup {"audio"}, ReleaseRef(t)
         PROVE  DestroyedOnce'
      BY <1>10 DEF ReleaseRef
  <1>11. ASSUME NEW t \in Users \cup {"audio"}, LeaveAudioList(t)
         PROVE  DestroyedOnce'
      BY <1>11 DEF LeaveAudioList, Goes
  <1>12. ASSUME NEW t \in Users \cup {"audio"}, LeaveList(t)
         PROVE  DestroyedOnce'
      BY <1>12 DEF LeaveList, Goes
  <1>13. ASSUME NEW t \in Users \cup {"audio"}, FreeSource(t)
         PROVE  DestroyedOnce'
      BY <1>13 DEF FreeSource, Goes
  <1>14. ASSUME NEW t \in Users \cup {"audio"}, ReleaseControl(t)
         PROVE  DestroyedOnce'
      BY <1>14 DEF ReleaseControl, Goes, ReleaseWeak
  <1>15. CASE TickSources
      BY <1>15 DEF TickSources, Goes
  <1>16. CASE TickDone
      BY <1>16 DEF TickDone, Goes
  <1>17. CASE AudioGetsChannel
      BY <1>17 DEF AudioGetsChannel
  <1>18. CASE AudioWalks
      BY <1>18 DEF AudioWalks, Goes
  <1>19. CASE AudioWalked
      BY <1>19 DEF AudioWalked, Goes
  <1>20. QED
      BY <1>1, <1>2, <1>3, <1>4, <1>5, <1>6, <1>7, <1>8, <1>9, <1>10, <1>11,
         <1>12, <1>13, <1>14, <1>15, <1>16, <1>17, <1>18, <1>19 DEF RefNext,
         SourceCall, GetRef, Destroy

(* The count of references moves with what the threads and the channel have. *)
LEMMA RefsCountedKept ==
    ASSUME "revive" \notin RefRaces, RefInv, RefNext PROVE RefsCounted'
  <1> USE SourceRefsAssumption, HoldsFinite
      DEF RefInv, RefTypeOK, RefsCounted, listVars, lockVars, memVars, countVars
  <1> DEFINE SameHolders == UNCHANGED <<source_refs, held, channel>>
  <1>1. CASE SameHolders
      BY <1>1 DEF Holds
  <1>2. ASSUME NEW u \in Users, Addref(u) PROVE RefsCounted'
    <2>1. /\ u \in Threads /\ held[u] <= MaxHeld
          /\ held' = [held EXCEPT ![u] = @ + 1]
        BY <1>2 DEF Addref, Threads
    <2>2. Cardinality(Holds') = Cardinality(Holds) + 1
        BY <2>1, HoldMore
    <2>3. QED
        BY <1>2, <2>2 DEF Addref
  <1>3. ASSUME NEW u \in Users, SetChannel(u) PROVE RefsCounted'
      BY <1>3 DEF SetChannel, Holds
  <1>4. ASSUME NEW u \in Users, ClearChannel(u) PROVE RefsCounted'
    <2>1. /\ u \in Threads /\ held[u] <= MaxHeld
          /\ held' = [held EXCEPT ![u] = @ + 1]
        BY <1>4 DEF ClearChannel, Threads
    <2>2. Cardinality(Holds') = Cardinality(Holds) + 1
        BY <2>1, HoldMore
    <2>3. QED
        BY <1>4, <2>2 DEF ClearChannel
  <1>5. ASSUME NEW u \in Users, Swap(u) PROVE RefsCounted'
    <2>1. CASE source_refs = seen[u]
      <3>1. Cardinality(Holds') = Cardinality(Holds) + 1
          BY <1>5, <2>1, HoldMore DEF Swap, Threads, ThreadPlaces
      <3>2. QED
          BY <1>5, <2>1, <3>1 DEF Swap
    <2>2. QED
        BY <1>1, <1>5, <2>1 DEF Swap
  <1>6. ASSUME NEW t \in Users \cup {"audio"}, ReleaseRef(t) PROVE RefsCounted'
    <2>1. /\ t \in Threads /\ held[t] \in 1 .. MaxHeld + 1
          /\ held' = [held EXCEPT ![t] = @ - 1]
        BY <1>6 DEF ReleaseRef, Threads, ThreadPlaces
    <2>2. Cardinality(Holds') = Cardinality(Holds) - 1
        BY <2>1, HoldLess
    <2>3. QED
        BY <1>6, <2>2 DEF ReleaseRef
  <1>7. CASE AudioGetsChannel \/ AudioWalks
    <2>1. /\ "audio" \in Threads
          /\ held["audio"] = 0 /\ held["audio"] <= MaxHeld
        BY <1>7 DEF AudioGetsChannel, AudioWalks, Threads
    <2>2. held' = [held EXCEPT !["audio"] = @ + 1]
        BY <1>7, <2>1 DEF AudioGetsChannel, AudioWalks
    <2>3. Cardinality(Holds') = Cardinality(Holds) + 1
        BY <2>1, <2>2, HoldMore
    <2>4. QED
        BY <1>7, <2>3 DEF AudioGetsChannel, AudioWalks
  <1>8. ASSUME NEW u \in Users,
               GetWeak(u) \/ DropWeak(u) \/ GetSource(u) \/ FindByName(u)
                   \/ GetFound(u)
        PROVE  SameHolders
      BY <1>8 DEF GetWeak, DropWeak, GetSource, FindByName, GetFound
  <1>9. ASSUME NEW t \in Users \cup {"audio"}, Destroy(t) PROVE SameHolders
      BY <1>9 DEF Destroy, LeaveAudioList, LeaveList, FreeSource, ReleaseControl
  <1>10. ASSUME TickSources \/ TickDone \/ AudioWalked PROVE SameHolders
      BY <1>10 DEF TickSources, TickDone, AudioWalked
  <1>11. QED
      BY <1>1, <1>2, <1>3, <1>4, <1>5, <1>6, <1>7, <1>8, <1>9, <1>10
         DEF RefNext, SourceCall, GetRef

(* The count of the control block moves with the weak references, and with   *)
(* the destruction of the source, which gives up the one it has.             *)
LEMMA WeakCountedKept ==
    ASSUME "revive" \notin RefRaces, RefInv, RefNext
    PROVE  WeakCounted' /\ (control_freed => weak_refs = -1)'
  <1> USE SourceRefsAssumption, HoldsFinite, HeldIsCounted, WeakIsCounted
      DEF RefInv, RefTypeOK, WeakCounted, listVars, lockVars, memVars, countVars
  <1> DEFINE Kept == WeakCounted' /\ (control_freed => weak_refs = -1)'
             SameWeak == UNCHANGED <<weak_refs, weak, control_freed>>
             SameDestroyed == UNCHANGED freed /\ Releasing' = Releasing
  <1>1. CASE SameWeak /\ SameDestroyed
      BY <1>1 DEF WeakHolders, ControlReleased
  <1>2. ASSUME NEW u \in Users, GetWeak(u) PROVE Kept
    <2>1. WeakHolders' = WeakHolders \cup {u} /\ u \notin WeakHolders
        BY <1>2 DEF GetWeak, WeakHolders, Threads
    <2>2. Cardinality(WeakHolders') = Cardinality(WeakHolders) + 1
        BY <2>1, FS_AddElement
    <2>3. ControlReleased' = ControlReleased
        BY <1>2 DEF GetWeak, ControlReleased, Releasing
    <2>4. ~control_freed
        BY <1>2 DEF GetWeak, DestroyedOnce, ControlReleased, Threads
    <2>5. QED
        BY <1>2, <2>2, <2>3, <2>4 DEF GetWeak
  <1>3. ASSUME NEW u \in Users, DropWeak(u) PROVE Kept
    <2>1. WeakHolders' = WeakHolders \ {u} /\ u \in WeakHolders
        BY <1>3 DEF DropWeak, WeakHolders, Threads
    <2>2. Cardinality(WeakHolders') = Cardinality(WeakHolders) - 1
        BY <2>1, FS_RemoveElement
    <2>3. ControlReleased' = ControlReleased
        BY <1>3 DEF DropWeak, ControlReleased, Releasing
    <2>4. ~control_freed
        BY <1>3 DEF DropWeak, Threads
    <2>5. QED
        BY <1>3, <2>2, <2>3, <2>4 DEF DropWeak, ReleaseWeak
  <1>4. ASSUME NEW t \in Users \cup {"audio"}, FreeSource(t) PROVE Kept
    <2>1. ~ControlReleased /\ ~ControlReleased'
        BY <1>4 DEF FreeSource, Goes, ControlReleased, Releasing, DestroyedOnce,
                    Threads
    <2>2. QED
        BY <1>4, <2>1 DEF FreeSource, WeakHolders
  <1>5. ASSUME NEW t \in Users \cup {"audio"}, ReleaseControl(t) PROVE Kept
    <2>1. ~ControlReleased /\ ControlReleased'
        BY <1>5 DEF ReleaseControl, Goes, ControlReleased, Releasing,
                    DestroyedOnce, Dying, Threads
    <2>2. QED
        BY <1>5, <2>1 DEF ReleaseControl, ReleaseWeak, WeakHolders
  <1>6. ASSUME NEW u \in Users,
               \/ Addref(u) \/ GetSource(u) \/ FindByName(u) \/ SetChannel(u)
               \/ ClearChannel(u) \/ GetFound(u) \/ Swap(u)
        PROVE  SameWeak /\ SameDestroyed
    <2>1. SameWeak /\ freed' = freed
        BY <1>6 DEF Addref, GetSource, FindByName, SetChannel, ClearChannel,
                    GetFound, Swap
    <2>2. \A t \in Threads :
              thread'[t] = "release_control" <=> thread[t] = "release_control"
        BY <1>6 DEF Addref, GetSource, FindByName, SetChannel, ClearChannel,
                    GetFound, Swap, Look, Threads
    <2>3. QED
        BY <2>1, <2>2 DEF Releasing
  <1>7. ASSUME NEW t \in Users \cup {"audio"},
               ReleaseRef(t) \/ LeaveAudioList(t) \/ LeaveList(t)
        PROVE  SameWeak /\ SameDestroyed
      BY <1>7 DEF ReleaseRef, LeaveAudioList, LeaveList, Goes, Releasing,
         Threads
  <1>8. ASSUME TickSources \/ TickDone \/ AudioGetsChannel \/ AudioWalks
                   \/ AudioWalked
        PROVE  SameWeak /\ SameDestroyed
      BY <1>8 DEF TickSources, TickDone, AudioGetsChannel, AudioWalks,
                  AudioWalked, Goes, Releasing, Threads
  <1>9. QED
      BY <1>1, <1>2, <1>3, <1>4, <1>5, <1>6, <1>7, <1>8
         DEF RefNext, SourceCall, GetRef, Destroy

-----------------------------------------------------------------------------
(* The theorems                                                             *)

(* A source that was just created satisfies the inductive invariant.         *)
LEMMA InitRefInv == RefInit => RefInv
  <1> SUFFICES ASSUME RefInit PROVE RefInv
      OBVIOUS
  <1> USE SourceRefsAssumption
  <1>1. PICK u \in Users : RefInit!(u)
      BY DEF RefInit
  <1>2. RefTypeOK
    <2>1. held \in [Threads -> Nat] /\ seen \in [Threads -> Int]
        BY <1>1
    <2>2. weak \in [Threads -> BOOLEAN]
        BY <1>1
    <2>3. thread \in [Threads -> {"idle", "destroy", "unlist", "free",
                                 "release_control", "found", "swap", "walk"}]
        BY <1>1
    <2>4. /\ {source_refs, weak_refs} \subseteq Int
          /\ {sources_mutex, audio_sources_mutex} \subseteq Threads \cup {"none"}
        BY <1>1
    <2>5. {listed, audio_listed, channel, freed, control_freed} \subseteq BOOLEAN
        BY <1>1
    <2>6. QED
        BY <2>1, <2>2, <2>3, <2>4, <2>5 DEF RefTypeOK
  <1>3. RefsCounted
    <2>1. Holds = {<<u, 1>>}
        BY <1>1 DEF Holds, Threads
    <2>2. Cardinality(Holds) = 1
        BY <2>1, FS_Singleton
    <2>3. QED
        BY <1>1, <2>2 DEF RefsCounted
  <1>4. WeakCounted
    <2>1. WeakHolders = {}
        BY <1>1 DEF WeakHolders
    <2>2. QED
        BY <1>1, <2>1, FS_EmptySet DEF WeakCounted, ControlReleased
  <1>5. ThreadPlaces /\ MutexHeld /\ SwapSawReference
      BY <1>1 DEF ThreadPlaces, MutexHeld, SwapSawReference, Dying, Threads
  <1>6. DestroyedOnce /\ ListedIsAlive
      BY <1>1 DEF DestroyedOnce, ListedIsAlive, Dying, Threads
  <1>7. QED
      BY <1>1, <1>2, <1>3, <1>4, <1>5, <1>6 DEF RefInv

(* Every step of a user, the audio thread and the graphics thread keeps it.  *)
LEMMA NextRefInv ==
    ASSUME "revive" \notin RefRaces, RefInv, [RefNext]_refVars PROVE RefInv'
  <1>1. CASE RefNext
      BY <1>1, TypeKept, PlacesKept, MutexKept, SwapKept, ListedKept, OnceKept,
         RefsCountedKept, WeakCountedKept DEF RefInv
  <1>2. CASE UNCHANGED refVars
      BY <1>2 DEF RefInv, refVars, countVars, listVars, lockVars, memVars,
         RefTypeOK, RefsCounted, WeakCounted, ThreadPlaces, MutexHeld,
         SwapSawReference, DestroyedOnce, ListedIsAlive, Holds, WeakHolders,
         ControlReleased, Releasing, Dying
  <1>3. QED
      BY <1>1, <1>2

(* The inductive invariant is what NothingFreedInUse takes.                  *)
LEMMA RefInvSuffices == RefInv => NothingFreedInUse
  <1> SUFFICES ASSUME RefInv PROVE NothingFreedInUse
      OBVIOUS
  <1> USE HeldIsCounted, WeakIsCounted DEF RefInv
  <1>1. HeldIsAlive
    <2>1. channel \/ (\E t \in Threads : held[t] > 0)
              => ~freed /\ Destroying = {}
        BY DEF DestroyedOnce, Destroying, Dying
    <2>2. Cardinality(Destroying \cup Releasing) <= 1
      <3> DEFINE D == Destroying \cup Releasing
      <3>1. \A t, w \in D : t = w
          BY DEF DestroyedOnce, Destroying, Releasing, Dying
      <3>2. D = {} \/ \E t \in D : D = {t}
          BY <3>1
      <3>3. Cardinality(D) = 0 \/ Cardinality(D) = 1
          BY <3>2, FS_EmptySet, FS_Singleton
      <3>4. QED
          BY <3>3
    <2>3. (\E t \in Threads : thread[t] \in {"found", "walk"}) => ~freed
        BY SourceRefsAssumption
           DEF ThreadPlaces, MutexHeld, ListedIsAlive, Threads
    <2>4. QED
        BY <2>1, <2>2, <2>3 DEF HeldIsAlive
  <1>2. ControlAlive
    <2>1. ~freed \/ Releasing # {} => ~control_freed
        BY DEF ControlReleased
    <2>2. \A t \in Threads : weak[t] => ~control_freed
        OBVIOUS
    <2>3. \A t \in Threads : thread[t] \in {"found", "swap"} => ~control_freed
        BY <2>1, <2>2, SourceRefsAssumption
           DEF ThreadPlaces, MutexHeld, ListedIsAlive
    <2>4. QED
        BY <2>1, <2>2, <2>3 DEF ControlAlive
  <1>3. QED
      BY <1>1, <1>2 DEF NothingFreedInUse

(* What the counts stand for holds in every state, unless the audio thread   *)
(* walks its list while the last reference is given up.                      *)
THEOREM RefInvHolds ==
    ASSUME "revive" \notin RefRaces PROVE RefSpec => []RefInv
  <1>1. RefInit => RefInv
      BY InitRefInv
  <1>2. RefInv /\ [RefNext]_refVars => RefInv'
      BY NextRefInv
  <1>3. QED
      BY <1>1, <1>2, PTL DEF RefSpec

(* No thread ever uses a source, or the control block of one, that was       *)
(* freed, and only one thread frees it: obs_source_release and               *)
(* obs_weak_ref_get_ref, however they meet each other, the searches, the     *)
(* channel and the walks.                                                    *)
THEOREM SourceSafety ==
    ASSUME "revive" \notin RefRaces PROVE RefSpec => []NothingFreedInUse
  <1>1. RefSpec => []RefInv
      BY RefInvHolds
  <1>2. RefInv => NothingFreedInUse
      BY RefInvSuffices
  <1>3. QED
      BY <1>1, <1>2, PTL

(* Once the last reference was given up nobody gets one any more: neither a  *)
(* weak reference nor a search that began before can bring the source back.  *)
THEOREM LastReleaseIsFinal ==
    ASSUME "revive" \notin RefRaces
    PROVE  RefSpec => [][source_refs = -1 => source_refs' = -1]_refVars
  <1>1. RefSpec => []RefInv
      BY RefInvHolds
  <1>2. ASSUME RefInv, RefNext, source_refs = -1 PROVE source_refs' = -1
    <2> USE SourceRefsAssumption, HeldIsCounted, <1>2
        DEF RefInv, countVars, Threads
    <2>1. ASSUME NEW u \in Users, SourceCall(u) PROVE source_refs' = -1
        BY <2>1 DEF SourceCall, Addref, GetWeak, DropWeak, GetSource,
                    FindByName, SetChannel, ClearChannel
    <2>2. ASSUME NEW u \in Users, GetRef(u) PROVE source_refs' = -1
        BY <2>2 DEF GetRef, GetFound, Swap, SwapSawReference
    <2>3. ASSUME NEW t \in Users \cup {"audio"}, ReleaseRef(t) \/ Destroy(t)
          PROVE  source_refs' = -1
        BY <2>3 DEF ReleaseRef, Destroy, LeaveAudioList, LeaveList, FreeSource,
                    ReleaseControl
    <2>4. CASE TickSources \/ TickDone \/ AudioWalked
        BY <2>4 DEF TickSources, TickDone, AudioWalked
    <2>5. CASE AudioGetsChannel \/ AudioWalks
        BY <2>5 DEF AudioGetsChannel, AudioWalks
    <2>6. QED
        BY <2>1, <2>2, <2>3, <2>4, <2>5 DEF RefNext
  <1>3. QED
      BY <1>1, <1>2, PTL DEF RefSpec

-----------------------------------------------------------------------------
(* Induction on numbers                                                      *)

\* Induction up to a number, on the numbers of a set.
LEMMA Induct ==
  ASSUME NEW a \in Nat, NEW n \in Nat, NEW X, a \in X,
         \A k \in a + 1 .. n : k - 1 \in X => k \in X
  PROVE  \A k \in a .. n : k \in X
  <1> DEFINE S == {k \in a .. n : k \notin X}
             R == {ss \in Nat \X Nat : ss[1] < ss[2]}
  <1>1. SUFFICES ASSUME S # {} PROVE FALSE
      OBVIOUS
  <1>2. S \subseteq Nat
      OBVIOUS
  <1>3. PICK k \in S : \A m \in S : ~(<<m, k>> \in OpToRel(<, Nat))
    <2> HIDE DEF S
    <2>1. QED
      BY <1>1, <1>2, NatLessThanWellFounded, WFMin
  <1>4. OpToRel(<, Nat) = R
      BY Zenon DEF OpToRel
  <1>5. \A m \in S : ~(m < k)
    <2>1. ASSUME NEW m \in S, m < k PROVE FALSE
      <3>1. <<m, k>> \in R
          BY <1>2, <1>3, <2>1
      <3>2. QED
          BY <1>3, <1>4, <3>1
    <2>2. QED
        BY <2>1
  <1>6. k # a /\ k \in a + 1 .. n
    <2>1. k \in a .. n /\ k \notin X
        BY <1>3, Zenon
    <2>2. QED
        BY <2>1
  <1>7. k - 1 \in a .. n /\ k - 1 < k
      BY <1>6
  <1>8. k - 1 \in X
      BY <1>5, <1>7
  <1>9. QED
      BY <1>3, <1>6, <1>8

-----------------------------------------------------------------------------
(* Scenes in scenes: what can be reached                                    *)

\* The sources that edges lead to from the given ones.
Children(sources, edges) == {i[2] : i \in {e \in edges : e[1] \in sources}}

\* How the walk of Reach goes on for m steps.
IsWalk(near, roots, edges, m) ==
    /\ near = [n \in 0 .. m |-> near[n]] /\ near[0] = roots
    /\ \A n \in 1 .. m :
           near[n] = near[n - 1] \cup Children(near[n - 1], edges)

\* There are as many steps as there are scenes.
LEMMA ReachWalk ==
  ASSUME NEW roots, NEW edges
  PROVE  \E near : /\ IsWalk(near, roots, edges, Cardinality(Scenes))
                   /\ Reach(roots, edges) = near[Cardinality(Scenes)]
  <1> DEFINE N == Cardinality(Scenes)
             More(X) == X \cup {i[2] : i \in {e \in edges : e[1] \in X}}
             Walks(g) == g = [n \in 0..N |->
                                 IF n = 0 THEN roots ELSE More(g[n - 1])]
             walk == CHOOSE g : Walks(g)
             M == {m \in 0..N : \E g : IsWalk(g, roots, edges, m)}
  <1>1. N \in Nat
      BY SceneAssumption, FS_CardinalityType
  <1>2. \A X : More(X) = X \cup Children(X, edges)
      BY DEF Children
  <1>3. Reach(roots, edges) = walk[N]
      BY Zenon DEF Reach
  <1> HIDE DEF N, More
  <1>4. 0 \in M
    <2> DEFINE g == [n \in 0..0 |-> roots]
    <2>1. IsWalk(g, roots, edges, 0)
        BY DEF IsWalk
    <2> HIDE DEF g
    <2>2. QED
        BY <1>1, <2>1
  <1>5. ASSUME NEW m \in 0 + 1 .. N, m - 1 \in M PROVE m \in M
    <2>1. PICK g : IsWalk(g, roots, edges, m - 1)
        BY <1>5
    <2> DEFINE h == [n \in 0..m |-> IF n = m
                                    THEN g[m - 1] \cup Children(g[m - 1], edges)
                                    ELSE g[n]]
    <2>2. m \in 0..N /\ m \in 1..m /\ m - 1 \in 0 .. m - 1 /\ m \in Nat
        BY <1>1
    <2>3. /\ h = [n \in 0..m |-> h[n]]
          /\ \A n \in 0 .. m - 1 : h[n] = g[n]
          /\ h[m] = g[m - 1] \cup Children(g[m - 1], edges)
        BY <2>2
    <2> HIDE DEF h
    <2>4. h[0] = roots
      <3>1. 0 \in 0 .. m - 1 /\ g[0] = roots
          BY <1>1, <2>1, <2>2 DEF IsWalk
      <3>2. QED
          BY <2>3, <3>1
    <2>5. ASSUME NEW n \in 1..m
          PROVE  h[n] = h[n - 1] \cup Children(h[n - 1], edges)
      <3>1. CASE n = m
          BY <2>2, <2>3, <3>1
      <3>2. CASE n # m
        <4>1. n \in 1 .. m - 1 /\ n \in 0 .. m - 1 /\ n - 1 \in 0 .. m - 1
            BY <2>2, <3>2
        <4>2. g[n] = g[n - 1] \cup Children(g[n - 1], edges)
            BY <2>1, <4>1 DEF IsWalk
        <4>3. QED
            BY <2>3, <4>1, <4>2
      <3>3. QED
          BY <3>1, <3>2
    <2>6. IsWalk(h, roots, edges, m)
        BY <2>3, <2>4, <2>5 DEF IsWalk
    <2>7. QED
        BY <2>2, <2>6
  <1> HIDE DEF M
  <1>6. N \in M
    <2>1. \A m \in 0..N : m \in M
        BY <1>1, <1>4, <1>5, Induct
    <2>2. QED
        BY <1>1, <2>1
  <1>7. PICK g : IsWalk(g, roots, edges, N)
      BY <1>6 DEF M
  <1>8. Walks(g)
    <2>1. g = [n \in 0..N |-> g[n]] /\ g[0] = roots
        BY <1>7 DEF IsWalk
    <2>2. ASSUME NEW n \in 0..N, n # 0 PROVE g[n] = More(g[n - 1])
      <3>1. n \in 1..N
          BY <1>1, <2>2
      <3>2. QED
          BY <1>2, <1>7, <3>1 DEF IsWalk
    <2>3. \A n \in 0..N : g[n] = IF n = 0 THEN roots ELSE More(g[n - 1])
        BY <2>1, <2>2
    <2>4. QED
        BY <2>1, <2>3
  <1>9. Walks(walk)
      BY <1>8
  <1> HIDE DEF walk
  <1>10. IsWalk(walk, roots, edges, N)
    <2>1. walk = [n \in 0..N |-> walk[n]] /\ walk[0] = roots
        BY <1>1, <1>9
    <2>2. ASSUME NEW n \in 1..N
          PROVE  walk[n] = walk[n - 1] \cup Children(walk[n - 1], edges)
      <3>1. n \in 0..N /\ n # 0
          BY <1>1
      <3>2. walk[n] = More(walk[n - 1])
          BY <1>9, <3>1
      <3>3. QED
          BY <1>2, <3>2
    <2>3. QED
        BY <2>1, <2>2 DEF IsWalk
  <1>11. QED
      BY <1>3, <1>10 DEF N

\* What is reached is in every set that has the roots and is left by no edge.
LEMMA ReachLeast ==
  ASSUME NEW roots, NEW edges, NEW X, roots \subseteq X,
         Children(X, edges) \subseteq X
  PROVE  Reach(roots, edges) \subseteq X
  <1> DEFINE N == Cardinality(Scenes)
  <1>1. PICK near : /\ IsWalk(near, roots, edges, N)
                    /\ Reach(roots, edges) = near[N]
      BY ReachWalk
  <1>2. N \in Nat
      BY SceneAssumption, FS_CardinalityType
  <1> HIDE DEF N
  <1> DEFINE M == {m \in 0..N : near[m] \subseteq X}
  <1>3. 0 \in M
      BY <1>1, <1>2 DEF IsWalk
  <1>4. ASSUME NEW m \in 0 + 1 .. N, m - 1 \in M PROVE m \in M
    <2>1. near[m] = near[m - 1] \cup Children(near[m - 1], edges)
        BY <1>1, <1>2 DEF IsWalk
    <2>2. near[m - 1] \subseteq X
        BY <1>4
    <2>3. Children(near[m - 1], edges) \subseteq X
        BY <2>2 DEF Children
    <2>4. QED
        BY <1>2, <2>1, <2>2, <2>3
  <1> HIDE DEF M
  <1>5. N \in M
    <2>1. \A m \in 0..N : m \in M
        BY <1>2, <1>3, <1>4, Induct
    <2>2. QED
        BY <1>2, <2>1
  <1>6. QED
      BY <1>1, <1>5 DEF M

\* What is reached has the roots, and no edge leaves it: each step that is not
\* the last finds a scene.
LEMMA ReachClosed ==
  ASSUME NEW roots, NEW edges, \A e \in edges : e[1] \in Scenes
  PROVE  /\ roots \subseteq Reach(roots, edges)
         /\ Children(Reach(roots, edges), edges) \subseteq Reach(roots, edges)
  <1> DEFINE N == Cardinality(Scenes)
             Closed(X) == Children(X, edges) \subseteq X
             Found(X) == X \cap Scenes
  <1>1. PICK near : /\ IsWalk(near, roots, edges, N)
                    /\ Reach(roots, edges) = near[N]
      BY ReachWalk
  <1>2. N \in Nat
      BY SceneAssumption, FS_CardinalityType
  <1>3. \A X : /\ IsFiniteSet(Found(X)) /\ Cardinality(Found(X)) \in Nat
               /\ Cardinality(Found(X)) <= N
    <2>1. ASSUME NEW X
          PROVE  /\ IsFiniteSet(Found(X)) /\ Cardinality(Found(X)) \in Nat
                 /\ Cardinality(Found(X)) <= N
      <3>1. Found(X) \subseteq Scenes
          OBVIOUS
      <3>2. QED
          BY <3>1, SceneAssumption, FS_Subset, FS_CardinalityType
    <2>2. QED
        BY <2>1
  <1> HIDE DEF N
  <1> DEFINE M == {m \in 0..N : /\ roots \subseteq near[m]
                                /\ \/ Closed(near[m])
                                   \/ Cardinality(Found(near[m])) > m}
  <1>4. 0 \in M
    <2>1. near[0] = roots
        BY <1>1 DEF IsWalk
    <2>2. CASE Closed(roots)
        BY <1>2, <2>1, <2>2
    <2>3. CASE ~Closed(roots)
      <3>1. PICK e \in edges : e[1] \in roots
          BY <2>3 DEF Children
      <3>2. e[1] \in Found(roots)
          BY <3>1
      <3>3. Cardinality(Found(roots)) # 0
          BY <1>3, <3>2, FS_EmptySet
      <3>4. Cardinality(Found(roots)) > 0
          BY <1>3, <3>3
      <3> HIDE DEF Found, Closed
      <3>5. QED
          BY <1>2, <2>1, <3>4
    <2>4. QED
        BY <2>2, <2>3
  <1>5. ASSUME NEW m \in 0 + 1 .. N, m - 1 \in M PROVE m \in M
    <2> DEFINE A == near[m - 1]
               B == near[m]
    <2>1. B = A \cup Children(A, edges)
        BY <1>1, <1>2 DEF IsWalk
    <2>2. roots \subseteq B
        BY <1>5, <2>1
    <2>3. CASE Closed(A)
      <3>1. B = A
          BY <2>1, <2>3
      <3>2. Closed(B)
          BY <2>3, <3>1
      <3> HIDE DEF A, B, Closed, Found
      <3>3. QED
          BY <1>2, <2>2, <3>2 DEF B
    <2>4. CASE ~Closed(A)
      <3>1. Cardinality(Found(A)) > m - 1
          BY <1>5, <2>4
      <3>2. CASE Closed(B)
        <4> HIDE DEF A, Closed, Found
        <4>1. QED
            BY <1>2, <2>2, <3>2
      <3>3. CASE ~Closed(B)
        <4>1. PICK e \in edges : e[1] \in B /\ e[2] \notin B
            BY <3>3 DEF Children
        <4>2. e[1] \in Found(B) /\ e[1] \notin Found(A)
            BY <2>1, <4>1 DEF Children
        <4>3. Found(A) \in SUBSET Found(B) /\ Found(A) # Found(B)
            BY <2>1, <4>2
        <4>4. /\ Cardinality(Found(A)) \in Nat
              /\ Cardinality(Found(B)) \in Nat /\ IsFiniteSet(Found(B))
            BY <1>3
        <4>5. Cardinality(Found(A)) < Cardinality(Found(B))
          <5> HIDE DEF Found
          <5>1. /\ Cardinality(Found(A)) <= Cardinality(Found(B))
                /\ Cardinality(Found(A)) # Cardinality(Found(B))
              BY <4>3, <4>4, FS_Subset
          <5>2. QED
              BY <4>4, <5>1
        <4> HIDE DEF A, Found, Closed
        <4>6. Cardinality(Found(B)) > m
            BY <1>2, <3>1, <4>4, <4>5
        <4>7. QED
            BY <1>2, <2>2, <4>6
      <3>4. QED
          BY <3>2, <3>3
    <2>5. QED
        BY <2>3, <2>4
  <1> HIDE DEF M
  <1>6. N \in M
    <2>1. \A m \in 0..N : m \in M
        BY <1>2, <1>4, <1>5, Induct
    <2>2. QED
        BY <1>2, <2>1
  <1>7. /\ roots \subseteq near[N]
        /\ Closed(near[N]) \/ Cardinality(Found(near[N])) > N
      BY <1>6 DEF M
  <1>8. ~(Cardinality(Found(near[N])) > N)
      BY <1>2, <1>3
  <1>9. QED
      BY <1>1, <1>7, <1>8

-----------------------------------------------------------------------------
(* Scenes in scenes: no scene becomes a part of itself                      *)

\* What is below a scene.
Below(s, edges) == Reach({i[2] : i \in {e \in edges : e[1] = s}}, edges)

\* Below a scene is what its edges lead to and what these lead to, and there is
\* no more.
LEMMA BelowLaws ==
  ASSUME NEW edges, \A e \in edges : e[1] \in Scenes, NEW s
  PROVE  /\ Children({s}, edges) \subseteq Below(s, edges)
         /\ Children(Below(s, edges), edges) \subseteq Below(s, edges)
         /\ \A X : /\ Children({s}, edges) \subseteq X
                   /\ Children(X, edges) \subseteq X
                   => Below(s, edges) \subseteq X
  <1>1. {i[2] : i \in {e \in edges : e[1] = s}} = Children({s}, edges)
      BY DEF Children
  <1>2. Below(s, edges) = Reach(Children({s}, edges), edges)
      BY <1>1 DEF Below
  <1> DEFINE first == Children({s}, edges)
  <1> HIDE DEF first
  <1>3. /\ first \subseteq Reach(first, edges)
        /\ Children(Reach(first, edges), edges) \subseteq Reach(first, edges)
      BY ReachClosed
  <1>4. ASSUME NEW X, first \subseteq X, Children(X, edges) \subseteq X
        PROVE  Reach(first, edges) \subseteq X
      BY <1>4, ReachLeast
  <1>5. QED
      BY <1>2, <1>3, <1>4 DEF first

\* With fewer edges there is no cycle either.
LEMMA FewerEdges ==
  ASSUME NEW edges, \A e \in edges : e[1] \in Scenes, Acyclic(edges),
         NEW fewer, fewer \subseteq edges
  PROVE  Acyclic(fewer)
  <1>1. ASSUME NEW s \in Scenes PROVE s \notin Below(s, fewer)
    <2>1. s \notin Below(s, edges)
        BY DEF Acyclic, Below
    <2>2. \A X : Children(X, fewer) \subseteq Children(X, edges)
        BY DEF Children
    <2>3. /\ Children({s}, fewer) \subseteq Below(s, edges)
          /\ Children(Below(s, edges), fewer) \subseteq Below(s, edges)
        BY <2>2, BelowLaws
    <2>4. Below(s, fewer) \subseteq Below(s, edges)
      <3>1. \A e \in fewer : e[1] \in Scenes
          OBVIOUS
      <3>2. QED
          BY <2>3, <3>1, BelowLaws
    <2>5. QED
        BY <2>1, <2>4
  <1>2. QED
      BY <1>1 DEF Acyclic, Below

\* An edge whose end does not reach its begin closes no cycle.
LEMMA OneMoreEdge ==
  ASSUME NEW edges, \A e \in edges : e[1] \in Scenes, Acyclic(edges),
         NEW new, new[1] \in Scenes, new[1] # new[2],
         new[1] \notin Below(new[2], edges)
  PROVE  Acyclic(edges \cup {new})
  <1> DEFINE p == new[1]
             c == new[2]
             more == edges \cup {new}
             C == {c} \cup Below(c, edges)
  <1>1. \A e \in more : e[1] \in Scenes
      OBVIOUS
  <1>2. \A X : Children(X, more) =
                   Children(X, edges) \cup (IF p \in X THEN {c} ELSE {})
      BY DEF Children
  <1>3. \A X, Y : Children(X \cup Y, edges) =
                      Children(X, edges) \cup Children(Y, edges)
      BY DEF Children
  <1>4. p \notin C /\ c \in C /\ Children(C, edges) \subseteq C
    <2>1. /\ Children({c}, edges) \subseteq Below(c, edges)
          /\ Children(Below(c, edges), edges) \subseteq Below(c, edges)
        BY BelowLaws
    <2>2. Children(C, edges) = Children({c}, edges)
                                   \cup Children(Below(c, edges), edges)
        BY <1>3
    <2>3. p \notin C /\ c \in C
        OBVIOUS
    <2>4. QED
        BY <2>1, <2>2, <2>3
  <1> HIDE DEF p, c, more, C
  <1>5. ASSUME NEW s \in Scenes PROVE s \notin Below(s, more)
    <2> DEFINE Y == Below(s, edges)
    <2>1. /\ s \notin Y /\ Children({s}, edges) \subseteq Y
          /\ Children(Y, edges) \subseteq Y
        BY BelowLaws DEF Acyclic, Below
    <2>2. Children({s}, edges) \subseteq C => Y \subseteq C
      <3>1. (/\ Children({s}, edges) \subseteq C
             /\ Children(C, edges) \subseteq C) => Y \subseteq C
          BY BelowLaws
      <3>2. QED
          BY <1>4, <3>1
    <2> HIDE DEF Y
    <2>3. \A X : /\ Children({s}, more) \subseteq X
                 /\ Children(X, more) \subseteq X
                 => Below(s, more) \subseteq X
        BY <1>1, BelowLaws
    <2>4. CASE s # p /\ p \notin Y
      <3>1. /\ Children({s}, more) \subseteq Y
            /\ Children(Y, more) \subseteq Y
          BY <1>2, <2>1, <2>4
      <3>2. QED
          BY <2>1, <2>3, <3>1
    <2>5. CASE s = p \/ p \in Y
      <3>1. /\ Children({s}, more) \subseteq Y \cup C
            /\ Children(Y \cup C, more) \subseteq Y \cup C
          BY <1>2, <1>3, <1>4, <2>1
      <3>2. Below(s, more) \subseteq Y \cup C
          BY <2>3, <3>1
      <3>3. s \notin C
        <4>1. CASE s = p
            BY <1>4, <4>1
        <4>2. CASE s # p
          <5>1. SUFFICES ASSUME s \in C PROVE FALSE
              OBVIOUS
          <5>2. Children({s}, edges) \subseteq Children(C, edges)
              BY <5>1 DEF Children
          <5>3. Y \subseteq C
              BY <1>4, <2>2, <5>2
          <5>4. QED
              BY <1>4, <2>5, <4>2, <5>3
        <4>3. QED
            BY <4>1, <4>2
      <3>4. QED
          BY <2>1, <3>2, <3>3
    <2>6. QED
        BY <2>4, <2>5
  <1>6. QED
      BY <1>5 DEF Acyclic, Below, more

-----------------------------------------------------------------------------
(* Scenes in scenes: the inductive invariant                                *)

\* Of an item without audio no action waits, and its count is not negative.
ItemTyped(i, item) ==
    /\ item \in [active_refs : Int, visible : BOOLEAN, user_visible : BOOLEAN,
                 actions : Seq(BOOLEAN)]
    /\ ~HasAudio(i[2]) => item.active_refs \in Nat /\ item.actions = <<>>

ItemsTyped ==
    /\ items = [i \in DOMAIN items |-> items[i]] /\ DOMAIN items \subseteq Pairs
    /\ \A i \in DOMAIN items : ItemTyped(i, items[i])

\* What the audio thread hides has audio.
HiderTyped ==
    /\ audio = [at |-> audio.at, item |-> audio.item, count |-> audio.count]
    /\ audio.at # "idle" => HasAudio(audio.item[2])

SceneInv == ItemsTyped /\ HiderTyped /\ NoActiveCycle

\* The items that there may be are edges between sources that are not the same.
LEMMA PairsAreEdges ==
  /\ \A i \in Pairs : i[1] \in Scenes /\ i[1] # i[2]
  /\ ItemsTyped => \A i \in Active : i[1] \in Scenes
  <1>1. \A i \in Pairs : i[1] \in Scenes /\ i[1] # i[2]
      BY SceneAssumption
  <1>2. QED
      BY <1>1 DEF ItemsTyped, Active

\* When no item becomes active there is no new cycle.
LEMMA FewerActive ==
  ASSUME ItemsTyped, NoActiveCycle, Active' \subseteq Active
  PROVE  NoActiveCycle'
  <1>1. Acyclic(Active')
      BY PairsAreEdges, FewerEdges DEF NoActiveCycle
  <1>2. QED
      BY <1>1 DEF NoActiveCycle

\* obs_source_add_active_child: an item that may be added closes no cycle.
LEMMA OneMoreActive ==
  ASSUME ItemsTyped, NoActiveCycle, NEW i \in Pairs, MayAdd(i[1], i[2]),
         Active' \subseteq Active \cup {i}
  PROVE  NoActiveCycle'
  <1>1. \A e \in Active : e[1] \in Scenes
      BY PairsAreEdges
  <1> DEFINE first == Children({i[2]}, DOMAIN items)
  <1>2. FullTree(i[2]) = Reach(first, Active)
    <2>1. {e[2] : e \in {x \in DOMAIN items : x[1] = i[2]}} = first
        BY DEF Children
    <2>2. QED
        BY <2>1 DEF FullTree
  <1>3. Children({i[2]}, Active) \subseteq first
      BY DEF Children, Active
  <1> HIDE DEF first
  <1>4. /\ first \subseteq FullTree(i[2])
        /\ Children(FullTree(i[2]), Active) \subseteq FullTree(i[2])
      BY <1>1, <1>2, ReachClosed
  <1>5. Below(i[2], Active) \subseteq FullTree(i[2])
    <2>1. Children({i[2]}, Active) \subseteq FullTree(i[2])
        BY <1>3, <1>4
    <2>2. QED
        BY <1>1, <1>4, <2>1, BelowLaws
  <1>6. i[1] \notin Below(i[2], Active)
      BY <1>5 DEF MayAdd
  <1>7. Acyclic(Active \cup {i})
      BY <1>1, <1>6, PairsAreEdges, OneMoreEdge DEF NoActiveCycle
  <1>8. Acyclic(Active')
    <2>1. \A e \in Active \cup {i} : e[1] \in Scenes
        BY <1>1, PairsAreEdges
    <2>2. QED
        BY <1>7, <2>1, FewerEdges
  <1>9. QED
      BY <1>8 DEF NoActiveCycle

\* A change of one item.
LEMMA ItemChanged ==
  ASSUME ItemsTyped, NoActiveCycle, NEW i \in DOMAIN items, NEW item,
         ItemTyped(i, item), items' = [items EXCEPT ![i] = item],
         \/ item.active_refs > 0 => items[i].active_refs > 0
         \/ MayAdd(i[1], i[2])
  PROVE  ItemsTyped' /\ NoActiveCycle'
  <1>1. /\ DOMAIN items' = DOMAIN items /\ items'[i] = item
        /\ items' = [j \in DOMAIN items' |-> items'[j]]
        /\ \A j \in DOMAIN items : j # i => items'[j] = items[j]
      BY DEF ItemsTyped
  <1>2. ItemsTyped'
    <2>1. ASSUME NEW j \in DOMAIN items' PROVE ItemTyped(j, items'[j])
      <3>1. CASE j = i
          BY <1>1, <3>1
      <3>2. CASE j # i
          BY <1>1, <3>2 DEF ItemsTyped
      <3>3. QED
          BY <3>1, <3>2
    <2>2. DOMAIN items' \subseteq Pairs
        BY <1>1 DEF ItemsTyped
    <2>3. QED
        BY <1>1, <2>1, <2>2 DEF ItemsTyped, ItemTyped, HasAudio
  <1>3. i \in Pairs
      BY DEF ItemsTyped
  <1>4. CASE item.active_refs > 0 => items[i].active_refs > 0
    <2>1. Active' \subseteq Active
        BY <1>1, <1>4 DEF Active
    <2>2. QED
        BY <1>2, <2>1, FewerActive
  <1>5. CASE MayAdd(i[1], i[2])
    <2>1. Active' \subseteq Active \cup {i}
        BY <1>1 DEF Active
    <2>2. QED
        BY <1>2, <1>3, <1>5, <2>1, OneMoreActive
  <1>6. QED
      BY <1>4, <1>5

\* detach_sceneitem
LEMMA DetachKept ==
  ASSUME ItemsTyped, NoActiveCycle, NEW i \in DOMAIN items, Detach(i)
  PROVE  ItemsTyped' /\ NoActiveCycle'
  <1>1. items' = [j \in DOMAIN items \ {i} |-> items[j]]
      BY DEF Detach
  <1>2. /\ DOMAIN items' = DOMAIN items \ {i}
        /\ \A j \in DOMAIN items' : items'[j] = items[j]
        /\ items' = [j \in DOMAIN items' |-> items'[j]]
      BY <1>1
  <1>3. ItemsTyped'
      BY <1>2 DEF ItemsTyped, ItemTyped, HasAudio
  <1>4. Active' \subseteq Active
      BY <1>2 DEF Active
  <1>5. QED
      BY <1>3, <1>4, FewerActive

\* set_visibility(false)
LEMMA HideKept ==
  ASSUME ItemsTyped, NoActiveCycle, NEW i \in DOMAIN items, Hide(i)
  PROVE  ItemsTyped' /\ NoActiveCycle'
  <1> DEFINE item == [active_refs |-> 0, visible |-> FALSE,
                      user_visible |-> FALSE, actions |-> <<>>]
  <1>1. items' = [items EXCEPT ![i] = item]
      BY DEF Hide
  <1>2. ItemTyped(i, item) /\ ~(item.active_refs > 0)
      BY DEF ItemTyped
  <1> HIDE DEF item
  <1>3. QED
      BY <1>1, <1>2, ItemChanged

\* obs_scene_add
LEMMA AddItemKept ==
  ASSUME ItemsTyped, NoActiveCycle, NEW i \in Pairs, AddItem(i)
  PROVE  ItemsTyped' /\ NoActiveCycle'
  <1> DEFINE item == [active_refs |-> 1, user_visible |-> TRUE,
                      visible |-> ~HasAudio(i[2]),
                      actions |-> IF HasAudio(i[2]) THEN <<TRUE>> ELSE <<>>]
  <1>1. /\ items' = [j \in DOMAIN items \cup {i} |->
                        IF j # i THEN items[j] ELSE item]
        /\ MayAdd(i[1], i[2])
      BY DEF AddItem
  <1>2. ItemTyped(i, item)
    <2>1. (~HasAudio(i[2])) \in BOOLEAN
        BY Zenon DEF HasAudio
    <2>2. <<TRUE>> \in Seq(BOOLEAN) /\ <<>> \in Seq(BOOLEAN)
        OBVIOUS
    <2>3. CASE HasAudio(i[2])
      <3>1. item = [active_refs |-> 1, user_visible |-> TRUE,
                    visible |-> ~HasAudio(i[2]), actions |-> <<TRUE>>]
          BY <2>3
      <3> HIDE DEF item
      <3>2. QED
          BY <2>1, <2>2, <2>3, <3>1 DEF ItemTyped
    <2>4. CASE ~HasAudio(i[2])
      <3>1. item = [active_refs |-> 1, user_visible |-> TRUE,
                    visible |-> ~HasAudio(i[2]), actions |-> <<>>]
          BY <2>4
      <3> HIDE DEF item
      <3>2. QED
          BY <2>1, <2>2, <2>4, <3>1 DEF ItemTyped
    <2>5. QED
        BY <2>3, <2>4
  <1> HIDE DEF item
  <1>3. /\ DOMAIN items' = DOMAIN items \cup {i} /\ items'[i] = item
        /\ \A j \in DOMAIN items : j # i => items'[j] = items[j]
        /\ items' = [j \in DOMAIN items' |-> items'[j]]
      BY <1>1
  <1>4. ItemsTyped'
    <2>1. ASSUME NEW j \in DOMAIN items' PROVE ItemTyped(j, items'[j])
      <3>1. CASE j = i
          BY <1>2, <1>3, <3>1
      <3>2. CASE j # i
          BY <1>3, <3>2 DEF ItemsTyped
      <3>3. QED
          BY <3>1, <3>2
    <2>2. DOMAIN items' \subseteq Pairs
        BY <1>3 DEF ItemsTyped
    <2>3. QED
        BY <1>3, <2>1, <2>2 DEF ItemsTyped, ItemTyped, HasAudio
  <1>5. Active' \subseteq Active \cup {i}
      BY <1>3 DEF Active
  <1>6. QED
      BY <1>1, <1>4, <1>5, OneMoreActive

\* obs_sceneitem_set_visible(true)
LEMMA ShowItemKept ==
  ASSUME ItemsTyped, NoActiveCycle, NEW i \in Pairs, ShowItem(i)
  PROVE  ItemsTyped' /\ NoActiveCycle'
  <1> DEFINE refs == IF HasAudio(i[2]) THEN items[i].active_refs + 1 ELSE 1
             now == items[i].visible \/ ~HasAudio(i[2])
             todo == IF HasAudio(i[2]) THEN Append(items[i].actions, TRUE)
                                       ELSE <<>>
             item == [items[i] EXCEPT !.active_refs = refs,
                                      !.user_visible = TRUE, !.visible = now,
                                      !.actions = todo]
  <1>1. i \in DOMAIN items /\ (items[i].active_refs = 0 => MayAdd(i[1], i[2]))
      BY DEF ShowItem
  <1>2. ItemTyped(i, items[i])
      BY <1>1 DEF ItemsTyped
  <1>3. items' = [items EXCEPT ![i] = item]
      BY <1>1 DEF ShowItem, ItemsTyped
  <1>4. /\ refs \in Int /\ now \in BOOLEAN /\ todo \in Seq(BOOLEAN)
        /\ ~HasAudio(i[2]) => refs = 1 /\ todo = <<>>
    <2>1. items[i].active_refs \in Int /\ items[i].actions \in Seq(BOOLEAN)
        BY <1>2 DEF ItemTyped
    <2>2. Append(items[i].actions, TRUE) \in Seq(BOOLEAN)
          /\ <<>> \in Seq(BOOLEAN)
        BY <2>1
    <2>3. now \in BOOLEAN
        BY Zenon DEF HasAudio
    <2>4. todo \in Seq(BOOLEAN) /\ (~HasAudio(i[2]) => todo = <<>>)
        BY <2>2, Zenon
    <2>5. refs \in Int /\ (~HasAudio(i[2]) => refs = 1)
        BY <2>1
    <2> HIDE DEF refs, now, todo
    <2>6. QED
        BY <2>3, <2>4, <2>5
  <1>5. items[i].active_refs = 0 \/ (refs > 0 => items[i].active_refs > 0)
    <2>1. /\ items[i].active_refs \in Int
          /\ ~HasAudio(i[2]) => items[i].active_refs \in Nat
        BY <1>2 DEF ItemTyped
    <2>2. QED
        BY <2>1
  <1> HIDE DEF refs, now, todo
  <1>6. ItemTyped(i, item) /\ item.active_refs = refs
    <2>1. item = [active_refs |-> refs, visible |-> now,
                  user_visible |-> TRUE, actions |-> todo]
      <3> DEFINE it == items[i]
      <3>1. it = [active_refs |-> it.active_refs, visible |-> it.visible,
                  user_visible |-> it.user_visible, actions |-> it.actions]
          BY <1>2 DEF ItemTyped
      <3> HIDE DEF it
      <3>2. item = [it EXCEPT !.active_refs = refs, !.user_visible = TRUE,
                              !.visible = now, !.actions = todo]
          BY DEF it
      <3> HIDE DEF item
      <3>3. QED
          BY <3>1, <3>2, Zenon
    <2> HIDE DEF item
    <2>2. ~HasAudio(i[2]) => refs \in Nat
        BY <1>4
    <2>3. QED
        BY <1>4, <2>1, <2>2 DEF ItemTyped
  <1> HIDE DEF item
  <1>7. QED
      BY <1>1, <1>3, <1>5, <1>6, ItemChanged

\* obs_sceneitem_set_visible(false)
LEMMA HideItemKept ==
  ASSUME ItemsTyped, NoActiveCycle, NEW i \in Pairs, HideItem(i)
  PROVE  ItemsTyped' /\ NoActiveCycle'
  <1>1. i \in DOMAIN items
      BY DEF HideItem
  <1>2. CASE HasAudio(i[2])
    <2> DEFINE todo == Append(items[i].actions, FALSE)
               item == [items[i] EXCEPT !.user_visible = FALSE,
                                        !.actions = todo]
    <2>1. ItemTyped(i, items[i])
        BY <1>1 DEF ItemsTyped
    <2>2. items' = [items EXCEPT ![i] = item]
        BY <1>1, <1>2 DEF HideItem, ItemsTyped
    <2>3. todo \in Seq(BOOLEAN)
        BY <2>1 DEF ItemTyped
    <2> HIDE DEF todo
    <2>4. ItemTyped(i, item) /\ item.active_refs = items[i].active_refs
        BY <1>2, <2>1, <2>3 DEF ItemTyped
    <2> HIDE DEF item
    <2>5. QED
        BY <1>1, <2>2, <2>4, ItemChanged
  <1>3. CASE ~HasAudio(i[2])
    <2>1. Hide(i)
        BY <1>3 DEF HideItem
    <2>2. QED
        BY <1>1, <2>1, HideKept
  <1>4. QED
      BY <1>2, <1>3

\* apply_scene_item_audio_actions: the actions that are due.
LEMMA ApplyActionsKept ==
  ASSUME ItemsTyped, NoActiveCycle, NEW i \in Pairs, NEW n \in Nat,
         ApplyActions(i, n)
  PROVE  ItemsTyped' /\ NoActiveCycle' /\ HiderTyped'
  <1> DEFINE left == SubSeq(items[i].actions, n + 1, Len(items[i].actions))
             due == SubSeq(items[i].actions, 1, n)
             item == [items[i] EXCEPT !.visible = due[n], !.actions = left]
  <1>1. i \in DOMAIN items /\ n \in 1 .. Len(items[i].actions)
      BY DEF ApplyActions
  <1>2. ItemTyped(i, items[i])
      BY <1>1 DEF ItemsTyped
  <1>3. HasAudio(i[2]) /\ items[i].actions \in Seq(BOOLEAN)
      BY <1>1, <1>2 DEF ItemTyped
  <1>4. items' = [items EXCEPT ![i] = item]
      BY <1>1 DEF ApplyActions, ItemsTyped
  <1>5. left \in Seq(BOOLEAN) /\ due[n] \in BOOLEAN
    <2>1. due[n] = items[i].actions[n]
        BY <1>1, <1>3
    <2>2. QED
        BY <1>1, <1>3, <2>1
  <1>6. HiderTyped'
    <2> DEFINE hide == Cardinality({k \in 1 .. n : ~due[k]})
    <2>1. audio' = IF hide = 0 THEN NoItem
                   ELSE [at |-> "deref", item |-> i, count |-> hide]
        BY DEF ApplyActions
    <2> HIDE DEF hide
    <2>2. audio' = NoItem
          \/ audio' = [at |-> "deref", item |-> i, count |-> hide]
        BY <2>1
    <2>3. QED
        BY <1>3, <2>2 DEF HiderTyped, NoItem, HasAudio
  <1> HIDE DEF left, due
  <1>7. ItemTyped(i, item) /\ item.active_refs = items[i].active_refs
      BY <1>2, <1>3, <1>5 DEF ItemTyped
  <1> HIDE DEF item
  <1>8. QED
      BY <1>1, <1>4, <1>6, <1>7, ItemChanged

\* set_visibility in the audio thread: one count less.
LEMMA DerefKept ==
  ASSUME ItemsTyped, NoActiveCycle, HiderTyped, Deref
  PROVE  ItemsTyped' /\ NoActiveCycle' /\ HiderTyped'
  <1> DEFINE i == audio.item
             left == items[i].active_refs - 1
             item == [items[i] EXCEPT !.active_refs = left]
  <1>1. i \in DOMAIN items /\ audio.at = "deref" /\ HasAudio(i[2])
      BY DEF Deref, HiderTyped
  <1>2. ItemTyped(i, items[i])
      BY <1>1 DEF ItemsTyped
  <1>3. items' = [items EXCEPT ![i] = item]
      BY <1>1 DEF Deref, ItemsTyped
  <1>4. left \in Int /\ (left > 0 => items[i].active_refs > 0)
    <2>1. items[i].active_refs \in Int
        BY <1>2 DEF ItemTyped
    <2>2. QED
        BY <2>1
  <1>5. HiderTyped'
    <2>1. audio' = NoItem
          \/ \E at, count : audio' = [audio EXCEPT !.at = at, !.count = count]
        BY DEF Deref
    <2>2. audio' = NoItem
          \/ \E at, count : audio' = [at |-> at, item |-> i, count |-> count]
        BY <2>1 DEF HiderTyped
    <2>3. QED
        BY <1>1, <2>2 DEF HiderTyped, NoItem, HasAudio
  <1> HIDE DEF left
  <1>6. ItemTyped(i, item) /\ item.active_refs = left
      BY <1>1, <1>2, <1>4 DEF ItemTyped
  <1> HIDE DEF item, i
  <1>7. QED
      BY <1>1, <1>3, <1>4, <1>5, <1>6, ItemChanged

\* Every collection that can be loaded is without a cycle.
LEMMA SceneInitInv ==
  SceneInit => SceneInv
  <1> SUFFICES ASSUME SceneInit PROVE SceneInv
      OBVIOUS
  <1>1. PICK l \in Loaded :
          items = [i \in DOMAIN l |->
                      [active_refs |-> Once(l[i]), visible |-> l[i],
                       user_visible |-> l[i], actions |-> <<>>]]
      BY DEF SceneInit
  <1>2. DOMAIN l \subseteq Pairs /\ \A i \in DOMAIN l : l[i] \in BOOLEAN
      BY SceneAssumption
  <1>3. \A b \in BOOLEAN : Once(b) \in Nat /\ (Once(b) > 0 <=> b)
      BY DEF Once
  <1>4. ItemsTyped
    <2>1. ASSUME NEW i \in DOMAIN l PROVE ItemTyped(i, items[i])
      <3>1. items[i] = [active_refs |-> Once(l[i]), visible |-> l[i],
                        user_visible |-> l[i], actions |-> <<>>]
          BY <1>1
      <3>2. l[i] \in BOOLEAN /\ Once(l[i]) \in Nat /\ <<>> \in Seq(BOOLEAN)
          BY <1>2, <1>3
      <3>3. QED
          BY <3>1, <3>2 DEF ItemTyped
    <2>2. DOMAIN items = DOMAIN l /\ items = [i \in DOMAIN items |-> items[i]]
        BY <1>1
    <2>3. QED
        BY <1>2, <2>1, <2>2 DEF ItemsTyped
  <1>5. NoActiveCycle
    <2>1. Active = {i \in DOMAIN l : Once(l[i]) > 0}
        BY <1>1 DEF Active
    <2>2. Active = {i \in DOMAIN l : l[i]}
        BY <1>2, <1>3, <2>1
    <2>3. QED
        BY <2>2, LoadedAssumption DEF NoActiveCycle
  <1>6. HiderTyped
      BY DEF SceneInit, HiderTyped, NoItem
  <1>7. QED
      BY <1>4, <1>5, <1>6 DEF SceneInv

\* Every step keeps the invariant, whatever coincides.
LEMMA SceneNextInv ==
  SceneInv /\ [SceneNext]_sceneVars => SceneInv'
  <1> SUFFICES ASSUME SceneInv, [SceneNext]_sceneVars PROVE SceneInv'
      OBVIOUS
  <1>1. ItemsTyped /\ HiderTyped /\ NoActiveCycle
      BY DEF SceneInv
  <1>2. UNCHANGED items => ItemsTyped' /\ NoActiveCycle'
    <2>1. UNCHANGED items => Active' = Active
        BY DEF Active
    <2>2. UNCHANGED items => ItemsTyped'
        BY <1>1 DEF ItemsTyped, ItemTyped, HasAudio
    <2>3. QED
        BY <1>1, <2>1, <2>2, FewerActive
  <1>3. UNCHANGED audio => HiderTyped'
      BY <1>1 DEF HiderTyped, HasAudio
  <1>4. CASE UNCHANGED sceneVars
      BY <1>2, <1>3, <1>4 DEF sceneVars, sceneAudioVars, SceneInv
  <1>5. CASE FrontendStep
    <2>1. UNCHANGED audio
        BY <1>5 DEF FrontendStep, ChangeView, AddItem, ShowItem, HideItem,
                    RemoveItem, RemoveSource, sceneAudioVars
    <2>2. ASSUME NEW v \in DOMAIN views, NEW s \in Scenes \cup {NoScene},
                 ChangeView(v, s)
          PROVE  ItemsTyped' /\ NoActiveCycle'
        BY <1>2, <2>2 DEF ChangeView
    <2>3. ASSUME NEW i \in Pairs, AddItem(i)
          PROVE  ItemsTyped' /\ NoActiveCycle'
        BY <1>1, <2>3, AddItemKept
    <2>4. ASSUME NEW i \in Pairs, ShowItem(i)
          PROVE  ItemsTyped' /\ NoActiveCycle'
        BY <1>1, <2>4, ShowItemKept
    <2>5. ASSUME NEW i \in Pairs, HideItem(i)
          PROVE  ItemsTyped' /\ NoActiveCycle'
        BY <1>1, <2>5, HideItemKept
    <2>6. ASSUME NEW i \in Pairs, RemoveItem(i)
          PROVE  ItemsTyped' /\ NoActiveCycle'
        BY <1>1, <2>6, DetachKept DEF RemoveItem
    <2>7. ASSUME NEW s \in Inputs, RemoveSource(s)
          PROVE  ItemsTyped' /\ NoActiveCycle'
        BY <1>2, <2>7 DEF RemoveSource
    <2>8. ItemsTyped' /\ NoActiveCycle'
        BY <1>5, <2>2, <2>3, <2>4, <2>5, <2>6, <2>7 DEF FrontendStep
    <2>9. QED
        BY <1>3, <2>1, <2>8 DEF SceneInv
  <1>6. CASE CallStep
    <2>1. UNCHANGED <<items, audio>>
        BY <1>6 DEF CallStep, CountSource, CountTree, sceneAudioVars
    <2>2. QED
        BY <1>2, <1>3, <2>1 DEF SceneInv
  <1>7. CASE ApplyStep
    <2>1. PICK i \in Pairs, n \in 1 .. MaxChanges : ApplyActions(i, n)
        BY <1>7 DEF ApplyStep
    <2>2. n \in Nat
        BY SceneAssumption
    <2>3. QED
        BY <1>1, <2>1, <2>2, ApplyActionsKept DEF SceneInv
  <1>8. CASE Deref
      BY <1>1, <1>8, DerefKept DEF SceneInv
  <1>9. CASE BuildOrder \/ \E s \in Scenes : LeaveScene(s)
    <2>1. UNCHANGED <<items, audio>>
        BY <1>9 DEF BuildOrder, LeaveScene
    <2>2. QED
        BY <1>2, <1>3, <2>1 DEF SceneInv
  <1>10. CASE RemoveHidden
    <2>1. /\ UNCHANGED items /\ HasAudio(audio.item[2])
          /\ audio' = NoItem \/ audio' = [audio EXCEPT !.at = "deref"]
        BY <1>1, <1>10 DEF RemoveHidden, HiderTyped
    <2>2. audio' = NoItem
          \/ audio' = [at |-> "deref", item |-> audio.item,
                       count |-> audio.count]
        BY <1>1, <2>1 DEF HiderTyped
    <2>3. HiderTyped'
        BY <2>1, <2>2 DEF HiderTyped, NoItem, HasAudio
    <2>4. QED
        BY <1>2, <2>1, <2>3 DEF SceneInv
  <1>11. ASSUME NEW i \in Pairs, RenderRemoves(i) PROVE SceneInv'
    <2>1. i \in DOMAIN items /\ Detach(i) /\ UNCHANGED audio
        BY <1>11 DEF RenderRemoves, sceneAudioVars
    <2>2. QED
        BY <1>1, <1>3, <2>1, DetachKept DEF SceneInv
  <1>12. QED
      BY <1>4, <1>5, <1>6, <1>7, <1>8, <1>9, <1>10, <1>11
         DEF SceneNext, AudioStep

\* No scene becomes a part of itself, for any scenes, sources and items and
\* whatever coincides, although the test that obs_scene_add makes looks at the
\* active items only.
THEOREM ScenesStayAcyclic ==
  SceneSpec => []NoActiveCycle
  <1>1. SceneInv => NoActiveCycle
      BY DEF SceneInv
  <1>2. QED
      BY <1>1, SceneInitInv, SceneNextInv, PTL DEF SceneSpec

-----------------------------------------------------------------------------
(* Sums over finite sets                                                    *)

\* Induction on the subsets of a finite set, each from those that have one
\* element less.
LEMMA InductOnSets ==
  ASSUME NEW S, IsFiniteSet(S), NEW X,
         \A T \in SUBSET S : (\A x \in T : T \ {x} \in X) => T \in X
  PROVE  \A T \in SUBSET S : T \in X
  <1> DEFINE Sized(n) == {T \in SUBSET S : Cardinality(T) = n}
             N == Cardinality(S)
             M == {n \in 0 .. N : Sized(n) \subseteq X}
  <1>1. /\ N \in Nat
        /\ \A T \in SUBSET S : /\ IsFiniteSet(T) /\ Cardinality(T) \in 0 .. N
                               /\ T = {} <=> Cardinality(T) = 0
    <2>1. ASSUME NEW T \in SUBSET S
          PROVE  /\ IsFiniteSet(T) /\ Cardinality(T) \in 0 .. N
                 /\ T = {} <=> Cardinality(T) = 0
        BY FS_Subset, FS_CardinalityType, FS_EmptySet
    <2>2. QED
        BY <2>1, FS_CardinalityType
  <1>2. \A T \in SUBSET S : \A x \in T :
            T \ {x} \in SUBSET S /\ Cardinality(T \ {x}) = Cardinality(T) - 1
      BY <1>1, FS_RemoveElement
  <1> HIDE DEF N
  <1>3. 0 \in M
    <2>1. \A T \in Sized(0) : T = {}
        BY <1>1
    <2>2. {} \in X
        OBVIOUS
    <2>3. QED
        BY <1>1, <2>1, <2>2
  <1>4. ASSUME NEW n \in 0 + 1 .. N, n - 1 \in M PROVE n \in M
    <2>1. ASSUME NEW T \in Sized(n) PROVE T \in X
      <3>1. ASSUME NEW x \in T PROVE T \ {x} \in Sized(n - 1)
          BY <1>1, <1>2
      <3>2. QED
          BY <1>4, <3>1
    <2>2. QED
        BY <1>1, <2>1
  <1> HIDE DEF M, Sized
  <1>5. \A n \in 0 .. N : n \in M
      BY <1>1, <1>3, <1>4, Induct
  <1>6. QED
      BY <1>1, <1>5 DEF M, Sized

\* The element that a sum takes first.
Pick(T) == CHOOSE x \in T : TRUE

\* Sums over the subsets of a set, by taking one element at a time.
IsSum(sum, f, S) ==
    sum = [T \in SUBSET S |->
              IF T = {} THEN 0 ELSE f[Pick(T)] + sum[T \ {Pick(T)}]]

\* There are such sums, and they are numbers.
LEMMA SumExists ==
  ASSUME NEW S, IsFiniteSet(S), NEW f, \A x \in S : f[x] \in Int
  PROVE  \E sum \in [SUBSET S -> Int] : IsSum(sum, f, S)
  <1> DEFINE Right(g, T) ==
                 g[T] = IF T = {} THEN 0 ELSE f[Pick(T)] + g[T \ {Pick(T)}]
             N == Cardinality(S)
             M == {n \in 0 .. N : \E g \in [SUBSET S -> Int] :
                       \A T \in SUBSET S : Cardinality(T) <= n => Right(g, T)}
  <1>1. /\ N \in Nat
        /\ \A T \in SUBSET S : /\ IsFiniteSet(T) /\ Cardinality(T) \in 0 .. N
                               /\ T = {} <=> Cardinality(T) = 0
    <2>1. ASSUME NEW T \in SUBSET S
          PROVE  /\ IsFiniteSet(T) /\ Cardinality(T) \in 0 .. N
                 /\ T = {} <=> Cardinality(T) = 0
        BY FS_Subset, FS_CardinalityType, FS_EmptySet
    <2>2. QED
        BY <2>1, FS_CardinalityType
  <1>2. \A T \in SUBSET S : T # {} => Pick(T) \in T
      BY DEF Pick
  <1>3. \A T \in SUBSET S : T # {} =>
            /\ T \ {Pick(T)} \in SUBSET S
            /\ Cardinality(T \ {Pick(T)}) = Cardinality(T) - 1
      BY <1>1, <1>2, FS_RemoveElement
  <1> HIDE DEF N
  <1>4. 0 \in M
    <2> DEFINE g == [T \in SUBSET S |-> 0]
    <2>1. g \in [SUBSET S -> Int]
        OBVIOUS
    <2>2. \A T \in SUBSET S : Cardinality(T) <= 0 => Right(g, T)
        BY <1>1
    <2> HIDE DEF g
    <2>3. QED
        BY <1>1, <2>1, <2>2
  <1>5. ASSUME NEW n \in 0 + 1 .. N, n - 1 \in M PROVE n \in M
    <2>1. PICK g \in [SUBSET S -> Int] :
              \A T \in SUBSET S : Cardinality(T) <= n - 1 => Right(g, T)
        BY <1>5
    <2> DEFINE h == [T \in SUBSET S |->
                        IF T = {} THEN 0 ELSE f[Pick(T)] + g[T \ {Pick(T)}]]
    <2>2. h \in [SUBSET S -> Int]
      <3>1. ASSUME NEW T \in SUBSET S, T # {}
            PROVE  f[Pick(T)] + g[T \ {Pick(T)}] \in Int
        <4>1. f[Pick(T)] \in Int /\ g[T \ {Pick(T)}] \in Int
            BY <1>2, <1>3, <3>1
        <4>2. QED
            BY <4>1
      <3>2. QED
          BY <3>1
    <2>3. \A T \in SUBSET S : Cardinality(T) <= n - 1 => h[T] = g[T]
        BY <2>1
    <2>4. ASSUME NEW T \in SUBSET S, Cardinality(T) <= n PROVE Right(h, T)
      <3>1. CASE T = {}
          BY <3>1
      <3>2. CASE T # {}
        <4>1. /\ T \ {Pick(T)} \in SUBSET S
              /\ Cardinality(T \ {Pick(T)}) = Cardinality(T) - 1
            BY <1>3, <3>2
        <4>2. Cardinality(T) - 1 <= n - 1
            BY <1>1, <2>4
        <4>3. h[T \ {Pick(T)}] = g[T \ {Pick(T)}]
            BY <2>3, <4>1, <4>2
        <4>4. QED
            BY <3>2, <4>3
      <3>3. QED
          BY <3>1, <3>2
    <2> HIDE DEF h, Right
    <2>5. QED
        BY <1>1, <2>2, <2>4
  <1> HIDE DEF M
  <1>6. N \in M
    <2>1. \A n \in 0 .. N : n \in M
        BY <1>1, <1>4, <1>5, Induct
    <2>2. QED
        BY <1>1, <2>1
  <1>7. PICK g \in [SUBSET S -> Int] :
            \A T \in SUBSET S : Cardinality(T) <= N => Right(g, T)
      BY <1>6 DEF M
  <1>8. \A T \in SUBSET S : Right(g, T)
    <2> HIDE DEF Right
    <2>1. QED
        BY <1>1, <1>7
  <1>9. IsSum(g, f, S)
    <2>1. g = [T \in SUBSET S |-> g[T]]
        OBVIOUS
    <2>2. QED
        BY <1>8, <2>1 DEF IsSum
  <1>10. QED
      BY <1>9

\* SumFunctionOnSet is such a sum.
LEMMA SumIsSum ==
  ASSUME NEW S, IsFiniteSet(S), NEW f, \A x \in S : f[x] \in Int
  PROVE  \E sum \in [SUBSET S -> Int] :
             IsSum(sum, f, S) /\ SumFunctionOnSet(f, S) = sum[S]
  <1> DEFINE sum == CHOOSE g : IsSum(g, f, S)
  <1>1. SumFunctionOnSet(f, S) = sum[S]
      BY Zenon DEF SumFunctionOnSet, FoldFunctionOnSet, MapThenFoldSet, Pick, IsSum
  <1>2. PICK g \in [SUBSET S -> Int] : IsSum(g, f, S)
      BY SumExists
  <1>3. IsSum(sum, f, S)
      BY <1>2
  <1>4. sum = g
    <2> DEFINE X == {T \in SUBSET S : sum[T] = g[T]}
    <2>1. ASSUME NEW T \in SUBSET S, \A x \in T : T \ {x} \in X PROVE T \in X
      <3>1. T # {} => Pick(T) \in T
          BY DEF Pick
      <3>2. QED
          BY <1>2, <1>3, <2>1, <3>1 DEF IsSum
    <2> HIDE DEF X
    <2>2. \A T \in SUBSET S : T \in X
        BY <2>1, InductOnSets
    <2>3. \A T \in SUBSET S : sum[T] = g[T]
        BY <2>2 DEF X
    <2>4. sum = [T \in SUBSET S |-> sum[T]] /\ g = [T \in SUBSET S |-> g[T]]
        BY <1>2, <1>3 DEF IsSum
    <2>5. QED
        BY <2>3, <2>4
  <1>5. QED
      BY <1>1, <1>2, <1>4

\* Any element may be taken first.
AnyFirst(sum, f, S) ==
    \A T \in SUBSET S : \A x \in T : sum[T] = f[x] + sum[T \ {x}]

\* The element that is taken first does not matter.
LEMMA SumAnyFirst ==
  ASSUME NEW S, IsFiniteSet(S), NEW f, \A x \in S : f[x] \in Int,
         NEW sum \in [SUBSET S -> Int], IsSum(sum, f, S)
  PROVE  AnyFirst(sum, f, S)
  <1> DEFINE X == {T \in SUBSET S :
                      \A x \in T : sum[T] = f[x] + sum[T \ {x}]}
  <1>1. \A T \in SUBSET S : T # {} =>
            Pick(T) \in T /\ sum[T] = f[Pick(T)] + sum[T \ {Pick(T)}]
    <2>1. ASSUME NEW T \in SUBSET S, T # {}
          PROVE  Pick(T) \in T /\ sum[T] = f[Pick(T)] + sum[T \ {Pick(T)}]
      <3>1. Pick(T) \in T
          BY <2>1 DEF Pick
      <3>2. QED
          BY <2>1, <3>1 DEF IsSum
    <2>2. QED
        BY <2>1
  <1>2. ASSUME NEW T \in SUBSET S, \A x \in T : T \ {x} \in X PROVE T \in X
    <2>1. ASSUME NEW x \in T PROVE sum[T] = f[x] + sum[T \ {x}]
      <3> DEFINE p == Pick(T)
                 U == T \ {x, p}
      <3>1. p \in T /\ sum[T] = f[p] + sum[T \ {p}]
          BY <1>1
      <3> HIDE DEF p
      <3>2. CASE x = p
          BY <3>1, <3>2
      <3>3. CASE x # p
        <4>1. (T \ {p}) \ {x} = U /\ (T \ {x}) \ {p} = U
            OBVIOUS
        <4>2. sum[T \ {p}] = f[x] + sum[U]
            BY <1>2, <3>1, <3>3, <4>1
        <4>3. sum[T \ {x}] = f[p] + sum[U]
            BY <1>2, <3>1, <3>3, <4>1
        <4>4. /\ f[x] \in Int /\ f[p] \in Int /\ sum[U] \in Int
            BY <3>1
        <4> HIDE DEF U
        <4>5. QED
            BY <3>1, <4>2, <4>3, <4>4
      <3>4. QED
          BY <3>2, <3>3
    <2>2. QED
        BY <2>1
  <1> HIDE DEF X
  <1>3. \A T \in SUBSET S : T \in X
      BY <1>2, InductOnSets
  <1>4. QED
      BY <1>3 DEF X, AnyFirst

\* The sum of a finite set is a number, and it is that of any one element and
\* the sum of the others.
LEMMA SumLaws ==
  ASSUME NEW S, IsFiniteSet(S), NEW f, \A x \in S : f[x] \in Int
  PROVE  /\ SumFunctionOnSet(f, S) \in Int
         /\ S = {} => SumFunctionOnSet(f, S) = 0
         /\ \A x \in S : /\ SumFunctionOnSet(f, S \ {x}) \in Int
                         /\ SumFunctionOnSet(f, S) =
                                f[x] + SumFunctionOnSet(f, S \ {x})
  <1>1. PICK sum \in [SUBSET S -> Int] :
            IsSum(sum, f, S) /\ SumFunctionOnSet(f, S) = sum[S]
      BY SumIsSum
  <1>2. S = {} => sum[S] = 0
      BY <1>1 DEF IsSum
  <1>3. \A T \in SUBSET S : \A x \in T : sum[T] = f[x] + sum[T \ {x}]
    <2>1. AnyFirst(sum, f, S)
        BY <1>1, SumAnyFirst
    <2>2. QED
        BY <2>1 DEF AnyFirst
  <1>4. ASSUME NEW x \in S
        PROVE  /\ SumFunctionOnSet(f, S \ {x}) = sum[S \ {x}]
               /\ sum[S] = f[x] + sum[S \ {x}]
    <2> DEFINE T == S \ {x}
    <2>1. T \in SUBSET S /\ IsFiniteSet(T) /\ \A y \in T : f[y] \in Int
        BY FS_Subset
    <2> HIDE DEF T
    <2>2. PICK less \in [SUBSET T -> Int] :
              IsSum(less, f, T) /\ SumFunctionOnSet(f, T) = less[T]
        BY <2>1, SumIsSum
    <2> DEFINE X == {U \in SUBSET T : less[U] = sum[U]}
    <2>3. ASSUME NEW U \in SUBSET T, \A y \in U : U \ {y} \in X PROVE U \in X
      <3>1. U # {} => Pick(U) \in U
          BY DEF Pick
      <3>2. U \in SUBSET S
          BY <2>1
      <3>3. /\ sum[U] = IF U = {} THEN 0 ELSE f[Pick(U)] + sum[U \ {Pick(U)}]
            /\ less[U] = IF U = {} THEN 0
                         ELSE f[Pick(U)] + less[U \ {Pick(U)}]
          BY <1>1, <2>2, <3>2 DEF IsSum
      <3>4. QED
          BY <2>3, <3>1, <3>3
    <2> HIDE DEF X
    <2>4. T \in X
      <3>1. \A U \in SUBSET T : U \in X
          BY <2>1, <2>3, InductOnSets
      <3>2. QED
          BY <3>1
    <2>5. SumFunctionOnSet(f, T) = sum[T]
        BY <2>2, <2>4 DEF X
    <2>6. sum[S] = f[x] + sum[T]
      <3>1. S \in SUBSET S
          OBVIOUS
      <3>2. QED
          BY <1>3, <3>1 DEF T
    <2>7. QED
        BY <2>5, <2>6 DEF T
  <1>5. QED
      BY <1>1, <1>2, <1>4

\* The sums of the same numbers are the same.
LEMMA SumSame ==
  ASSUME NEW S, IsFiniteSet(S), NEW f, NEW g,
         \A x \in S : f[x] \in Int /\ g[x] = f[x]
  PROVE  SumFunctionOnSet(g, S) = SumFunctionOnSet(f, S)
  <1> DEFINE X == {T \in SUBSET S :
                      SumFunctionOnSet(g, T) = SumFunctionOnSet(f, T)}
  <1>1. ASSUME NEW T \in SUBSET S, \A x \in T : T \ {x} \in X PROVE T \in X
    <2>1. IsFiniteSet(T)
        BY FS_Subset
    <2>2. /\ T = {} => /\ SumFunctionOnSet(f, T) = 0
                       /\ SumFunctionOnSet(g, T) = 0
          /\ \A x \in T : /\ SumFunctionOnSet(f, T) =
                                 f[x] + SumFunctionOnSet(f, T \ {x})
                          /\ SumFunctionOnSet(g, T) =
                                 g[x] + SumFunctionOnSet(g, T \ {x})
        BY <2>1, SumLaws
    <2>3. QED
        BY <1>1, <2>2
  <1> HIDE DEF X
  <1>2. S \in X
    <2>1. \A T \in SUBSET S : T \in X
        BY <1>1, InductOnSets
    <2>2. QED
        BY <2>1
  <1>3. QED
      BY <1>2 DEF X

\* What is added to each number, a multiple of another one, is added to the sum.
LEMMA SumLinear ==
  ASSUME NEW S, IsFiniteSet(S), NEW f, NEW g, NEW h, NEW k \in Int,
         \A x \in S : f[x] \in Int /\ g[x] \in Int /\ h[x] = f[x] + k * g[x]
  PROVE  SumFunctionOnSet(h, S) =
             SumFunctionOnSet(f, S) + k * SumFunctionOnSet(g, S)
  <1> DEFINE X == {T \in SUBSET S :
                      SumFunctionOnSet(h, T) =
                          SumFunctionOnSet(f, T) + k * SumFunctionOnSet(g, T)}
  <1>1. \A x \in S : h[x] \in Int
      OBVIOUS
  <1>2. ASSUME NEW T \in SUBSET S, \A x \in T : T \ {x} \in X PROVE T \in X
    <2>1. IsFiniteSet(T)
        BY FS_Subset
    <2>2. CASE T = {}
      <3>1. /\ SumFunctionOnSet(f, T) = 0 /\ SumFunctionOnSet(g, T) = 0
            /\ SumFunctionOnSet(h, T) = 0
          BY <1>1, <2>1, <2>2, SumLaws
      <3>2. QED
          BY <3>1
    <2>3. CASE T # {}
      <3>1. PICK x \in T : TRUE
          BY <2>3
      <3> DEFINE F == SumFunctionOnSet(f, T \ {x})
                 G == SumFunctionOnSet(g, T \ {x})
                 H == SumFunctionOnSet(h, T \ {x})
      <3>2. F \in Int /\ SumFunctionOnSet(f, T) = f[x] + F
          BY <2>1, SumLaws
      <3>3. G \in Int /\ SumFunctionOnSet(g, T) = g[x] + G
          BY <2>1, SumLaws
      <3>4. H \in Int /\ SumFunctionOnSet(h, T) = h[x] + H
          BY <1>1, <2>1, SumLaws
      <3>5. H = F + k * G
          BY <1>2
      <3>6. f[x] \in Int /\ g[x] \in Int /\ h[x] = f[x] + k * g[x]
          OBVIOUS
      <3> HIDE DEF F, G, H
      <3>7. h[x] + H = (f[x] + F) + k * (g[x] + G)
          BY <3>2, <3>3, <3>5, <3>6
      <3>8. QED
          BY <3>2, <3>3, <3>4, <3>7
    <2>4. QED
        BY <2>2, <2>3
  <1> HIDE DEF X
  <1>3. S \in X
    <2>1. \A T \in SUBSET S : T \in X
        BY <1>2, InductOnSets
    <2>2. QED
        BY <2>1
  <1>4. QED
      BY <1>3 DEF X

\* The sum of natural numbers is one, and none of them is greater.
LEMMA SumOfNats ==
  ASSUME NEW S, IsFiniteSet(S), NEW f, \A x \in S : f[x] \in Nat
  PROVE  /\ SumFunctionOnSet(f, S) \in Nat
         /\ \A x \in S : f[x] <= SumFunctionOnSet(f, S)
  <1> DEFINE X == {T \in SUBSET S : SumFunctionOnSet(f, T) \in Nat}
  <1>1. ASSUME NEW T \in SUBSET S, \A x \in T : T \ {x} \in X PROVE T \in X
    <2>1. IsFiniteSet(T)
        BY FS_Subset
    <2>2. /\ T = {} => SumFunctionOnSet(f, T) = 0
          /\ \A x \in T : SumFunctionOnSet(f, T) =
                              f[x] + SumFunctionOnSet(f, T \ {x})
        BY <2>1, SumLaws
    <2>3. CASE T = {}
        BY <2>2, <2>3
    <2>4. CASE T # {}
      <3>1. PICK x \in T : TRUE
          BY <2>4
      <3>2. f[x] \in Nat /\ SumFunctionOnSet(f, T \ {x}) \in Nat
          BY <1>1
      <3>3. SumFunctionOnSet(f, T) = f[x] + SumFunctionOnSet(f, T \ {x})
          BY <2>2
      <3>4. QED
          BY <3>2, <3>3
    <2>5. QED
        BY <2>3, <2>4
  <1> HIDE DEF X
  <1>2. \A T \in SUBSET S : T \in X
      BY <1>1, InductOnSets
  <1>3. \A T \in SUBSET S : SumFunctionOnSet(f, T) \in Nat
      BY <1>2 DEF X
  <1>4. ASSUME NEW x \in S PROVE f[x] <= SumFunctionOnSet(f, S)
    <2>1. SumFunctionOnSet(f, S) = f[x] + SumFunctionOnSet(f, S \ {x})
        BY SumLaws
    <2>2. SumFunctionOnSet(f, S \ {x}) \in Nat
        BY <1>3
    <2>3. QED
        BY <2>1, <2>2
  <1>5. QED
      BY <1>3, <1>4

-----------------------------------------------------------------------------
(* Scenes in scenes: what the parents of a source have together             *)

\* The items of which a source is the child.
Into(edges, s) == {i \in edges : i[2] = s}

\* There are finitely many, because there are finitely many scenes.
LEMMA IntoFinite ==
  ASSUME NEW edges, edges \subseteq Pairs, NEW s
  PROVE  /\ IsFiniteSet(Into(edges, s))
         /\ \A i \in Into(edges, s) : i[1] \in Scenes /\ i \in Pairs
  <1> DEFINE all == {<<t, s>> : t \in Scenes}
  <1>1. IsFiniteSet(all)
    <2> DEFINE of == [t \in Scenes |-> <<t, s>>]
    <2>1. all = {of[t] : t \in Scenes}
        OBVIOUS
    <2>2. of \in Surjection(Scenes, all)
        BY Zenon DEF Surjection
    <2> HIDE DEF of, all
    <2>3. QED
        BY <2>2, SceneAssumption, FS_Surjection
  <1>2. \A i \in Pairs : i[1] \in Scenes /\ i = <<i[1], i[2]>>
      BY SceneAssumption
  <1>3. Into(edges, s) \subseteq all
      BY <1>2 DEF Into
  <1>4. QED
      BY <1>1, <1>2, <1>3, FS_Subset DEF Into

\* What the parents have together is a number; it depends on what they have.
LEMMA OfParentsLaws ==
  ASSUME NEW edges, edges \subseteq Pairs, NEW s,
         NEW f, \A t \in Scenes : f[t] \in Int
  PROVE  /\ OfParents(f, edges, s) \in Int
         /\ Into(edges, s) = {} => OfParents(f, edges, s) = 0
         /\ (\A i \in Into(edges, s) : f[i[1]] >= 0) =>
                /\ OfParents(f, edges, s) \in Nat
                /\ \A i \in Into(edges, s) :
                       f[i[1]] <= OfParents(f, edges, s)
  <1> DEFINE F == [i \in Pairs |-> f[i[1]]]
  <1>1. OfParents(f, edges, s) = SumFunctionOnSet(F, Into(edges, s))
      BY Zenon DEF OfParents, Into
  <1>2. \A i \in Into(edges, s) : F[i] \in Int /\ F[i] = f[i[1]]
      BY IntoFinite
  <1> HIDE DEF F
  <1>3. IsFiniteSet(Into(edges, s))
      BY IntoFinite
  <1>4. /\ SumFunctionOnSet(F, Into(edges, s)) \in Int
        /\ Into(edges, s) = {} => SumFunctionOnSet(F, Into(edges, s)) = 0
      BY <1>2, <1>3, SumLaws
  <1>5. ASSUME \A i \in Into(edges, s) : f[i[1]] >= 0
        PROVE  /\ SumFunctionOnSet(F, Into(edges, s)) \in Nat
               /\ \A i \in Into(edges, s) :
                      F[i] <= SumFunctionOnSet(F, Into(edges, s))
    <2>1. \A i \in Into(edges, s) : F[i] \in Nat
        BY <1>2, <1>5
    <2>2. QED
        BY <1>3, <2>1, SumOfNats
  <1>6. QED
      BY <1>1, <1>2, <1>4, <1>5

\* Parents that have the same have the same together.
LEMMA OfParentsSame ==
  ASSUME NEW edges, edges \subseteq Pairs, NEW s,
         NEW f, \A t \in Scenes : f[t] \in Int,
         NEW g, \A i \in Into(edges, s) : g[i[1]] = f[i[1]]
  PROVE  OfParents(g, edges, s) = OfParents(f, edges, s)
  <1> DEFINE F == [i \in Pairs |-> f[i[1]]]
             G == [i \in Pairs |-> g[i[1]]]
  <1>1. /\ OfParents(f, edges, s) = SumFunctionOnSet(F, Into(edges, s))
        /\ OfParents(g, edges, s) = SumFunctionOnSet(G, Into(edges, s))
      BY Zenon DEF OfParents, Into
  <1>2. \A i \in Into(edges, s) : F[i] \in Int /\ G[i] = F[i]
      BY IntoFinite
  <1>3. IsFiniteSet(Into(edges, s))
      BY IntoFinite
  <1> HIDE DEF F, G
  <1>4. QED
      BY <1>1, <1>2, <1>3, SumSame

\* To what each scene has, a multiple of something else is added.
AddsUp(f, k, g, h) ==
    \A t \in Scenes :
        f[t] \in Int /\ g[t] \in Int /\ h[t] = f[t] + k * g[t]

\* What each parent has is added up.
LEMMA OfParentsLinear ==
  ASSUME NEW edges, edges \subseteq Pairs, NEW s, NEW k \in Int,
         NEW f, NEW g, NEW h, AddsUp(f, k, g, h)
  PROVE  OfParents(h, edges, s) =
             OfParents(f, edges, s) + k * OfParents(g, edges, s)
  <1> DEFINE F == [i \in Pairs |-> f[i[1]]]
             G == [i \in Pairs |-> g[i[1]]]
             H == [i \in Pairs |-> h[i[1]]]
  <1>1. /\ OfParents(f, edges, s) = SumFunctionOnSet(F, Into(edges, s))
        /\ OfParents(g, edges, s) = SumFunctionOnSet(G, Into(edges, s))
        /\ OfParents(h, edges, s) = SumFunctionOnSet(H, Into(edges, s))
      BY Zenon DEF OfParents, Into
  <1>2. \A i \in Into(edges, s) :
            F[i] \in Int /\ G[i] \in Int /\ H[i] = F[i] + k * G[i]
    <2>1. ASSUME NEW i \in Into(edges, s)
          PROVE  F[i] \in Int /\ G[i] \in Int /\ H[i] = F[i] + k * G[i]
      <3>1. /\ i[1] \in Scenes /\ F[i] = f[i[1]] /\ G[i] = g[i[1]]
            /\ H[i] = h[i[1]]
          BY IntoFinite
      <3> HIDE DEF F, G, H
      <3>2. QED
          BY <3>1 DEF AddsUp
    <2>2. QED
        BY <2>1
  <1>3. IsFiniteSet(Into(edges, s))
      BY IntoFinite
  <1> HIDE DEF F, G, H
  <1>4. SumFunctionOnSet(H, Into(edges, s)) =
            SumFunctionOnSet(F, Into(edges, s))
                + k * SumFunctionOnSet(G, Into(edges, s))
      BY <1>2, <1>3, SumLinear
  <1>5. QED
      BY <1>1, <1>4

\* What an item adds to the parents of a source.
FromItem(f, e, s) == IF e[2] = s THEN f[e[1]] ELSE 0
Numbers(f) == \A t \in Scenes : f[t] \in Int

\* One more item adds what its scene has to its source.
LEMMA OfParentsMore ==
  ASSUME NEW edges, edges \subseteq Pairs, NEW e, e \in Pairs, e \notin edges,
         NEW s, NEW f, Numbers(f), NEW more, more = edges \cup {e}
  PROVE  OfParents(f, more, s) = OfParents(f, edges, s) + FromItem(f, e, s)
  <1> DEFINE F == [i \in Pairs |-> f[i[1]]]
  <1>0. \A t \in Scenes : f[t] \in Int
      BY DEF Numbers
  <1>1. /\ OfParents(f, edges, s) = SumFunctionOnSet(F, Into(edges, s))
        /\ OfParents(f, more, s) = SumFunctionOnSet(F, Into(more, s))
      BY Zenon DEF OfParents, Into
  <1>2. more \subseteq Pairs
      OBVIOUS
  <1>3. CASE e[2] # s
    <2>1. Into(more, s) = Into(edges, s)
        BY <1>3 DEF Into
    <2>2. OfParents(f, edges, s) \in Int
        BY <1>0, OfParentsLaws
    <2> HIDE DEF F
    <2>3. FromItem(f, e, s) = 0
        BY <1>3 DEF FromItem
    <2>4. QED
        BY <1>1, <2>1, <2>2, <2>3
  <1>4. CASE e[2] = s
    <2>1. /\ e \in Into(more, s) /\ Into(more, s) \ {e} = Into(edges, s)
          /\ F[e] = f[e[1]]
        BY <1>4 DEF Into
    <2>2. \A i \in Into(more, s) : F[i] \in Int
        BY <1>0, <1>2, IntoFinite
    <2>3. IsFiniteSet(Into(more, s))
        BY <1>2, IntoFinite
    <2> HIDE DEF F
    <2>4. /\ SumFunctionOnSet(F, Into(edges, s)) \in Int
          /\ SumFunctionOnSet(F, Into(more, s)) =
                 F[e] + SumFunctionOnSet(F, Into(edges, s))
      <3>1. \A i \in Into(more, s) :
                /\ SumFunctionOnSet(F, Into(more, s) \ {i}) \in Int
                /\ SumFunctionOnSet(F, Into(more, s)) =
                       F[i] + SumFunctionOnSet(F, Into(more, s) \ {i})
          BY <2>2, <2>3, SumLaws
      <3>2. QED
          BY <2>1, <3>1, Zenon
    <2>5. F[e] \in Int
        BY <2>1, <2>2
    <2>6. FromItem(f, e, s) = F[e]
        BY <1>4, <2>1 DEF FromItem
    <2>7. QED
        BY <1>1, <2>1, <2>4, <2>5, <2>6
  <1>5. QED
      BY <1>3, <1>4

\* The scenes that a source is below of.
Above(edges, s) == {t \in Scenes : s \in Below(t, edges)}

\* More scenes are above a source than above any of its parents.
LEMMA AboveParents ==
  ASSUME NEW edges, edges \subseteq Pairs, Acyclic(edges)
  PROVE  /\ \A s : /\ IsFiniteSet(Above(edges, s))
                   /\ Cardinality(Above(edges, s)) \in 0 .. Cardinality(Scenes)
         /\ \A i \in edges :
                /\ i[1] \in Above(edges, i[2])
                /\ Cardinality(Above(edges, i[1]))
                       < Cardinality(Above(edges, i[2]))
  <1>1. \A e \in edges : e[1] \in Scenes
      BY SceneAssumption
  <1>2. Cardinality(Scenes) \in Nat
      BY SceneAssumption, FS_CardinalityType
  <1>3. ASSUME NEW s
        PROVE  /\ IsFiniteSet(Above(edges, s))
               /\ Cardinality(Above(edges, s)) \in 0 .. Cardinality(Scenes)
    <2>1. Above(edges, s) \subseteq Scenes
        BY DEF Above
    <2>2. /\ IsFiniteSet(Above(edges, s))
          /\ Cardinality(Above(edges, s)) <= Cardinality(Scenes)
        BY <2>1, SceneAssumption, FS_Subset
    <2>3. Cardinality(Above(edges, s)) \in Nat
        BY <2>2, FS_CardinalityType
    <2>4. QED
        BY <1>2, <2>2, <2>3
  <1>4. ASSUME NEW i \in edges
        PROVE  /\ i[1] \in Above(edges, i[2])
               /\ Cardinality(Above(edges, i[1]))
                      < Cardinality(Above(edges, i[2]))
    <2> DEFINE A == Above(edges, i[1])
               B == Above(edges, i[2])
    <2>1. i[1] \in Scenes /\ i[2] \in Children({i[1]}, edges)
        BY <1>1 DEF Children
    <2>2. i[1] \in B
        BY <1>1, <2>1, BelowLaws DEF Above
    <2>3. i[1] \notin A
        BY <2>1 DEF Above, Acyclic, Below
    <2>4. ASSUME NEW t \in A PROVE t \in B
      <3>1. t \in Scenes /\ i[1] \in Below(t, edges)
          BY DEF Above
      <3>2. i[2] \in Children(Below(t, edges), edges)
          BY <3>1 DEF Children
      <3>3. i[2] \in Below(t, edges)
          BY <1>1, <3>2, BelowLaws
      <3>4. QED
          BY <3>1, <3>3 DEF Above
    <2>5. /\ IsFiniteSet(B) /\ Cardinality(A) \in Nat /\ Cardinality(B) \in Nat
        BY <1>3
    <2>6. A \subseteq B /\ A # B
        BY <2>2, <2>3, <2>4
    <2> HIDE DEF A, B
    <2>7. /\ Cardinality(A) <= Cardinality(B)
          /\ Cardinality(A) # Cardinality(B)
        BY <2>5, <2>6, FS_Subset
    <2>8. Cardinality(A) < Cardinality(B)
        BY <2>5, <2>7
    <2>9. QED
        BY <2>2, <2>8 DEF A, B
  <1>5. QED
      BY <1>3, <1>4

\* Induction from the scenes that no other one has: what holds for a source when
\* it holds for its parents, holds for all sources.
LEMMA InductOnTree ==
  ASSUME NEW edges, edges \subseteq Pairs, Acyclic(edges), NEW X,
         \A s \in Sources : (\A i \in Into(edges, s) : i[1] \in X) => s \in X
  PROVE  \A s \in Sources : s \in X
  <1> DEFINE N == Cardinality(Scenes)
             High(s) == Cardinality(Above(edges, s))
             M == {n \in 0 .. N :
                      \A s \in Sources : High(s) <= n => s \in X}
  <1>1. /\ N \in Nat /\ \A s : High(s) \in 0 .. N
        /\ \A i \in edges : High(i[1]) < High(i[2])
      BY AboveParents, SceneAssumption, FS_CardinalityType
  <1>2. \A i \in edges : i[1] \in Sources
      BY SceneAssumption DEF Sources
  <1> HIDE DEF N, High
  <1>3. 0 \in M
    <2>1. ASSUME NEW s \in Sources, High(s) <= 0 PROVE s \in X
      <3>1. Into(edges, s) = {}
        <4>1. ASSUME NEW i \in Into(edges, s) PROVE FALSE
          <5>1. i \in edges /\ i[2] = s
              BY DEF Into
          <5>2. High(i[1]) < High(s) /\ High(i[1]) \in 0 .. N /\ High(s) \in 0 .. N
              BY <1>1, <5>1
          <5>3. QED
              BY <1>1, <2>1, <5>2
        <4>2. QED
            BY <4>1
      <3>2. QED
          BY <3>1
    <2>2. QED
        BY <1>1, <2>1
  <1>4. ASSUME NEW n \in 0 + 1 .. N, n - 1 \in M PROVE n \in M
    <2>1. ASSUME NEW s \in Sources, High(s) <= n PROVE s \in X
      <3>1. ASSUME NEW i \in Into(edges, s) PROVE i[1] \in X
        <4>1. i \in edges /\ i[2] = s
            BY DEF Into
        <4>2. High(i[1]) < High(s) /\ High(i[1]) \in 0 .. N /\ High(s) \in 0 .. N
            BY <1>1, <4>1
        <4>3. High(i[1]) <= n - 1
            BY <1>1, <2>1, <4>2
        <4>4. QED
            BY <1>2, <1>4, <4>1, <4>3
      <3>2. QED
          BY <3>1
    <2>2. QED
        BY <1>1, <2>1
  <1> HIDE DEF M
  <1>5. \A n \in 0 .. N : n \in M
      BY <1>1, <1>3, <1>4, Induct
  <1>6. N \in M
      BY <1>1, <1>5
  <1>7. \A s \in Sources : High(s) <= N => s \in X
      BY <1>6 DEF M
  <1>8. QED
      BY <1>1, <1>7

-----------------------------------------------------------------------------
(* Scenes in scenes: how often the walk comes to a source                   *)

\* What the walk finds when it starts from what it found before.
Further(past, root) ==
    [s \in Sources |->
        OfParents([t \in Sources |-> past[t] + Once(t = root)], Active, s)]

\* There are as many steps as there are scenes.
LEMMA VisitsWalk ==
  ASSUME ItemsTyped, NEW root
  PROVE  \E come \in [0 .. Cardinality(Scenes) -> [Sources -> Int]] :
             /\ come[0] = [s \in Sources |-> 0]
             /\ \A n \in 1 .. Cardinality(Scenes) :
                    come[n] = Further(come[n - 1], root)
             /\ Visits(root) = come[Cardinality(Scenes)]
  <1> DEFINE N == Cardinality(Scenes)
             zero == [s \in Sources |-> 0]
             Walks(g) == g = [n \in 0 .. N |->
                                 IF n = 0 THEN zero
                                 ELSE Further(g[n - 1], root)]
             walk == CHOOSE g : Walks(g)
             Start(g, m) == /\ g \in [0 .. N -> [Sources -> Int]] /\ g[0] = zero
                            /\ \A n \in 1 .. m : g[n] = Further(g[n - 1], root)
             M == {m \in 0 .. N : \E g : Start(g, m)}
  <1>1. N \in Nat
      BY SceneAssumption, FS_CardinalityType
  <1>2. zero \in [Sources -> Int]
      OBVIOUS
  <1>3. \A c \in [Sources -> Int] : Further(c, root) \in [Sources -> Int]
    <2>1. ASSUME NEW c \in [Sources -> Int], NEW s \in Sources
          PROVE  OfParents([t \in Sources |-> c[t] + Once(t = root)], Active, s)
                     \in Int
      <3> DEFINE g == [t \in Sources |-> c[t] + Once(t = root)]
      <3>1. \A t \in Scenes : g[t] \in Int
          BY DEF Once, Sources
      <3>2. Active \subseteq Pairs
          BY DEF Active, ItemsTyped
      <3> HIDE DEF g
      <3>3. OfParents(g, Active, s) \in Int
          BY <3>1, <3>2, OfParentsLaws
      <3>4. QED
          BY <3>3 DEF g
    <2>2. QED
        BY <2>1 DEF Further
  <1>4. Visits(root) = walk[N]
    <2>1. \A g : Walks(g) <=>
              g = [n \in 0 .. N |->
                      IF n = 0 THEN [s \in Sources |-> 0]
                      ELSE LET past == [s \in Sources |->
                                           g[n - 1][s] + Once(s = root)]
                           IN  [s \in Sources |-> OfParents(past, Active, s)]]
        BY Zenon DEF Further
    <2>2. QED
        BY <2>1, Zenon DEF Visits, Further
  <1> HIDE DEF N, zero
  <1>5. 0 \in M
    <2> DEFINE g == [n \in 0 .. N |-> zero]
    <2>1. Start(g, 0)
        BY <1>1, <1>2
    <2> HIDE DEF g, Start
    <2>2. QED
        BY <1>1, <2>1
  <1>6. ASSUME NEW m \in 0 + 1 .. N, m - 1 \in M PROVE m \in M
    <2>1. PICK g : Start(g, m - 1)
        BY <1>6
    <2> DEFINE h == [g EXCEPT ![m] = Further(g[m - 1], root)]
    <2>2. m \in 0 .. N /\ m - 1 \in 0 .. N /\ m # 0
        BY <1>1
    <2>3. h \in [0 .. N -> [Sources -> Int]]
        BY <1>3, <2>1, <2>2
    <2>4. h[m] = Further(g[m - 1], root)
          /\ \A n \in 0 .. N : n # m => h[n] = g[n]
        BY <2>1, <2>2
    <2> HIDE DEF h
    <2>5. h[0] = zero
        BY <1>1, <2>1, <2>2, <2>4
    <2>6. ASSUME NEW n \in 1 .. m PROVE h[n] = Further(h[n - 1], root)
      <3>1. n \in 0 .. N /\ n - 1 \in 0 .. N /\ n - 1 # m
          BY <1>1
      <3>2. n = m \/ n \in 1 .. m - 1
          OBVIOUS
      <3>3. QED
          BY <2>1, <2>4, <3>1, <3>2
    <2>7. Start(h, m)
        BY <2>3, <2>5, <2>6
    <2> HIDE DEF Start
    <2>8. QED
        BY <2>2, <2>7
  <1> HIDE DEF M
  <1>7. N \in M
    <2>1. \A n \in 0 .. N : n \in M
        BY <1>1, <1>5, <1>6, Induct
    <2>2. QED
        BY <1>1, <2>1
  <1>8. PICK g : Start(g, N)
      BY <1>7 DEF M
  <1>9. Walks(g)
    <2>1. g = [n \in 0 .. N |-> g[n]]
        BY <1>8
    <2>2. \A n \in 0 .. N : g[n] = IF n = 0 THEN zero ELSE Further(g[n - 1], root)
        BY <1>1, <1>8
    <2>3. QED
        BY <2>1, <2>2, Zenon
  <1>10. Walks(walk)
      BY <1>9
  <1>11. Start(walk, N)
    <2>1. \A n \in 0 .. N :
              walk[n] = IF n = 0 THEN zero ELSE Further(walk[n - 1], root)
        BY <1>10, Zenon
    <2>2. walk[0] = zero
        BY <1>1, <2>1
    <2>3. \A n \in 1 .. N : walk[n] = Further(walk[n - 1], root)
        BY <1>1, <2>1
    <2>4. walk = [n \in 0 .. N |-> walk[n]]
        BY <1>10, Zenon
    <2> HIDE DEF walk
    <2> DEFINE K == {n \in 0 .. N : walk[n] \in [Sources -> Int]}
    <2>5. 0 \in K
        BY <1>1, <1>2, <2>2
    <2>6. ASSUME NEW n \in 0 + 1 .. N, n - 1 \in K PROVE n \in K
        BY <1>1, <1>3, <2>3, <2>6
    <2> HIDE DEF K
    <2>7. \A n \in 0 .. N : n \in K
        BY <1>1, <2>5, <2>6, Induct
    <2>8. \A n \in 0 .. N : walk[n] \in [Sources -> Int]
        BY <2>7 DEF K
    <2>9. walk \in [0 .. N -> [Sources -> Int]]
        BY <2>4, <2>8
    <2>10. QED
        BY <2>2, <2>3, <2>9
  <1> HIDE DEF walk
  <1>12. QED
      BY <1>4, <1>11 DEF N, zero

\* Parents that have nothing have nothing together.
LEMMA OfParentsZero ==
  ASSUME NEW edges, edges \subseteq Pairs, NEW s,
         NEW f, \A i \in Into(edges, s) : f[i[1]] = 0
  PROVE  OfParents(f, edges, s) = 0
  <1> DEFINE z == [t \in Scenes |-> 0]
  <1>1. \A t \in Scenes : z[t] \in Int /\ z[t] = z[t] + 1 * z[t]
      OBVIOUS
  <1>2. \A i \in Into(edges, s) : f[i[1]] = z[i[1]]
      BY IntoFinite
  <1> HIDE DEF z
  <1>3. OfParents(f, edges, s) = OfParents(z, edges, s)
      BY <1>1, <1>2, OfParentsSame
  <1> DEFINE o == OfParents(z, edges, s)
  <1>4. o \in Int /\ o = o + 1 * o
    <2>1. o \in Int
        BY <1>1, OfParentsLaws
    <2>2. 1 \in Int
        OBVIOUS
    <2>3. QED
        BY <1>1, <2>1, <2>2, OfParentsLinear DEF AddsUp
  <1> HIDE DEF o
  <1>5. o = 0
      BY <1>4
  <1>6. QED
      BY <1>3, <1>5 DEF o

\* The walk comes to a source as often as it comes to its parents, the root
\* being one of them; and it does not come to what is not below the root.
LEMMA VisitsLaws ==
  ASSUME ItemsTyped, NoActiveCycle, NEW root
  PROVE  /\ Visits(root) \in [Sources -> Int]
         /\ Visits(root) = Further(Visits(root), root)
         /\ \A s \in Sources \ Below(root, Active) : Visits(root)[s] = 0
  <1> DEFINE N == Cardinality(Scenes)
             High(s) == Cardinality(Above(Active, s))
             Plus(c) == [t \in Sources |-> c[t] + Once(t = root)]
  <1>1. Active \subseteq Pairs /\ Acyclic(Active)
      BY DEF Active, ItemsTyped, NoActiveCycle
  <1>2. /\ N \in Nat /\ \A s : High(s) \in 0 .. N
        /\ \A i \in Active : High(i[1]) < High(i[2])
      BY <1>1, AboveParents, SceneAssumption, FS_CardinalityType
  <1>3. \A s : \A i \in Into(Active, s) :
            i \in Active /\ i[2] = s /\ i[1] \in Scenes /\ i[1] \in Sources
      BY <1>1, IntoFinite DEF Into, Sources
  <1>4. PICK come \in [0 .. N -> [Sources -> Int]] :
            /\ come[0] = [s \in Sources |-> 0]
            /\ \A n \in 1 .. N : come[n] = Further(come[n - 1], root)
            /\ Visits(root) = come[N]
      BY VisitsWalk
  <1>5. \A c \in [Sources -> Int] :
            /\ \A t \in Scenes : Plus(c)[t] \in Int
            /\ \A s \in Sources :
                   Further(c, root)[s] = OfParents(Plus(c), Active, s)
      BY DEF Further, Once, Sources
  <1>6. Further(come[N], root) \in [Sources -> Int]
        /\ Further(come[N], root) = [s \in Sources |-> Further(come[N], root)[s]]
    <2>1. come[N] \in [Sources -> Int]
        BY <1>2, <1>4
    <2>2. \A s \in Sources : OfParents(Plus(come[N]), Active, s) \in Int
        BY <1>1, <1>5, <2>1, OfParentsLaws
    <2>3. QED
        BY <2>2 DEF Further
  <1> HIDE DEF N, High, Plus
  <1>7. \A s \in Sources : Further(come[N], root)[s] = come[N][s]
    <2> DEFINE X == {s \in Sources : \A n \in 0 .. N :
                        High(s) <= n => Further(come[n], root)[s] = come[n][s]}
    <2>1. ASSUME NEW s \in Sources, \A i \in Into(Active, s) : i[1] \in X
          PROVE  s \in X
      <3>1. ASSUME NEW n \in 0 .. N, High(s) <= n
            PROVE  Further(come[n], root)[s] = come[n][s]
        <4>1. come[n] \in [Sources -> Int]
            BY <1>4
        <4>2. \A i \in Into(Active, s) : High(i[1]) <= n - 1 /\ High(i[1]) \in Nat
          <5>1. ASSUME NEW i \in Into(Active, s)
                PROVE  High(i[1]) <= n - 1 /\ High(i[1]) \in Nat
            <6>1. High(i[1]) < High(s) /\ High(i[1]) \in 0 .. N
                  /\ High(s) \in 0 .. N
                BY <1>2, <1>3
            <6>2. QED
                BY <1>2, <3>1, <6>1
          <5>2. QED
              BY <5>1
        <4>3. CASE n = 0
          <5>1. Into(Active, s) = {}
              BY <4>2, <4>3
          <5>2. Further(come[n], root)[s] = 0
            <6>1. OfParents(Plus(come[n]), Active, s) = 0
                BY <1>1, <5>1, OfParentsZero
            <6>2. QED
                BY <1>5, <4>1, <6>1
          <5>3. QED
              BY <1>4, <4>3, <5>2
        <4>4. CASE n # 0
          <5>1. n \in 1 .. N /\ n - 1 \in 0 .. N
              BY <1>2, <4>4
          <5>2. come[n - 1] \in [Sources -> Int]
                /\ come[n] = Further(come[n - 1], root)
              BY <1>4, <5>1
          <5>3. \A i \in Into(Active, s) :
                    Plus(come[n])[i[1]] = Plus(come[n - 1])[i[1]]
            <6>1. ASSUME NEW i \in Into(Active, s)
                  PROVE  come[n][i[1]] = come[n - 1][i[1]]
                BY <2>1, <4>2, <5>1, <5>2
            <6>2. QED
                BY <1>3, <6>1 DEF Plus
          <5>4. OfParents(Plus(come[n]), Active, s) =
                    OfParents(Plus(come[n - 1]), Active, s)
              BY <1>1, <1>5, <5>2, <5>3, OfParentsSame
          <5>5. QED
              BY <1>5, <4>1, <5>2, <5>4
        <4>5. QED
            BY <4>3, <4>4
      <3>2. QED
          BY <3>1
    <2> HIDE DEF X
    <2>2. \A s \in Sources : s \in X
        BY <1>1, <2>1, InductOnTree
    <2>3. \A s \in Sources :
              High(s) <= N => Further(come[N], root)[s] = come[N][s]
        BY <1>2, <2>2 DEF X
    <2>4. QED
        BY <1>2, <2>3
  <1>8. Further(come[N], root) = come[N]
    <2>1. come[N] = [s \in Sources |-> come[N][s]]
        BY <1>2, <1>4
    <2>2. QED
        BY <1>6, <1>7, <2>1
  <1>9. \A s \in Sources \ Below(root, Active) : come[N][s] = 0
    <2> DEFINE Far == Sources \ Below(root, Active)
               M == {n \in 0 .. N : \A s \in Far : come[n][s] = 0}
    <2>1. \A s \in Far : \A i \in Into(Active, s) : i[1] \in Far /\ i[1] # root
      <3>1. ASSUME NEW s \in Far, NEW i \in Into(Active, s)
            PROVE  i[1] \in Far /\ i[1] # root
        <4>1. \A e \in Active : e[1] \in Scenes
            BY <1>1, SceneAssumption
        <4>2. i \in Active /\ i[2] = s /\ i[1] \in Sources
            BY <1>3
        <4>3. i[1] # root
          <5>1. i[1] = root => s \in Children({root}, Active)
              BY <4>2 DEF Children
          <5>2. QED
              BY <4>1, <5>1, BelowLaws
        <4>4. i[1] \notin Below(root, Active)
          <5>1. i[1] \in Below(root, Active) =>
                    s \in Children(Below(root, Active), Active)
              BY <4>2 DEF Children
          <5>2. QED
              BY <4>1, <5>1, BelowLaws
        <4>5. QED
            BY <4>2, <4>3, <4>4
      <3>2. QED
          BY <3>1
    <2>2. Far \subseteq Sources
        OBVIOUS
    <2> HIDE DEF Far
    <2>3. 0 \in M
        BY <1>2, <1>4, <2>2
    <2>4. ASSUME NEW n \in 0 + 1 .. N, n - 1 \in M PROVE n \in M
      <3>1. n \in 1 .. N /\ n - 1 \in 0 .. N /\ n \in 0 .. N
          BY <1>2
      <3>2. come[n - 1] \in [Sources -> Int]
            /\ come[n] = Further(come[n - 1], root)
          BY <1>4, <3>1
      <3>3. ASSUME NEW s \in Far PROVE come[n][s] = 0
        <4>1. \A i \in Into(Active, s) : Plus(come[n - 1])[i[1]] = 0
            BY <1>3, <2>1, <2>4, <3>2 DEF Plus, Once
        <4>2. OfParents(Plus(come[n - 1]), Active, s) = 0
            BY <1>1, <4>1, OfParentsZero
        <4>3. QED
            BY <1>5, <2>2, <3>2, <4>2
      <3>4. QED
          BY <3>1, <3>3
    <2> HIDE DEF M
    <2>5. \A n \in 0 .. N : n \in M
        BY <1>2, <2>3, <2>4, Induct
    <2>6. N \in M
        BY <1>2, <2>5
    <2>7. QED
        BY <2>6 DEF M, Far
  <1>10. come[N] \in [Sources -> Int]
      BY <1>2, <1>4
  <1>11. QED
      BY <1>4, <1>8, <1>9, <1>10

-----------------------------------------------------------------------------
(* Items: what the user wants and what the audio thread has still to do     *)

\* The actions that hide the item.
Hides(actions) == {k \in DOMAIN actions : ~actions[k]}

\* How many of the actions hide.
LEMMA HidesLaws ==
  ASSUME NEW q \in Seq(BOOLEAN)
  PROVE  /\ Cardinality(Hides(q)) \in Nat
         /\ Cardinality(Hides(<<>>)) = 0
         /\ Cardinality(Hides(<<TRUE>>)) = 0
         /\ \A b \in BOOLEAN :
                /\ Cardinality(Hides(Append(q, b))) =
                       Cardinality(Hides(q)) + Once(~b)
                /\ Append(q, b) # <<>>
                /\ Append(q, b)[Len(Append(q, b))] = b
  <1>1. IsFiniteSet(Hides(q)) /\ Cardinality(Hides(q)) \in Nat
    <2>1. Hides(q) \subseteq 1 .. Len(q)
        BY DEF Hides
    <2>2. IsFiniteSet(1 .. Len(q))
        BY FS_Interval
    <2>3. QED
        BY <2>1, <2>2, FS_Subset, FS_CardinalityType
  <1>2. Hides(<<>>) = {} /\ Hides(<<TRUE>>) = {}
    <2>1. DOMAIN <<>> = {} /\ DOMAIN <<TRUE>> = {1} /\ <<TRUE>>[1] = TRUE
        OBVIOUS
    <2>2. Hides(<<>>) = {}
        BY <2>1 DEF Hides
    <2>3. ASSUME NEW k \in Hides(<<TRUE>>) PROVE FALSE
        BY <2>1, Zenon DEF Hides
    <2>4. QED
        BY <2>2, <2>3
  <1>3. ASSUME NEW b \in BOOLEAN
        PROVE  Cardinality(Hides(Append(q, b))) =
                   Cardinality(Hides(q)) + Once(~b)
    <2>1. Hides(Append(q, b)) =
              Hides(q) \cup (IF b THEN {} ELSE {Len(q) + 1})
      <3>1. /\ DOMAIN Append(q, b) = DOMAIN q \cup {Len(q) + 1}
            /\ \A k \in DOMAIN q : Append(q, b)[k] = q[k]
            /\ Append(q, b)[Len(q) + 1] = b
          OBVIOUS
      <3>2. QED
          BY <3>1 DEF Hides
    <2>2. Len(q) + 1 \notin Hides(q)
        BY DEF Hides
    <2>3. CASE b
        BY <1>1, <2>1, <2>3 DEF Once
    <2>4. CASE ~b
      <3>1. Cardinality(Hides(q) \cup {Len(q) + 1}) = Cardinality(Hides(q)) + 1
          BY <1>1, <2>2, FS_AddElement
      <3>2. QED
          BY <2>1, <2>4, <3>1 DEF Once
    <2>5. QED
        BY <2>3, <2>4
  <1>4. \A b \in BOOLEAN : /\ Append(q, b) # <<>>
                             /\ Append(q, b)[Len(Append(q, b))] = b
      OBVIOUS
  <1>5. QED
      BY <1>1, <1>2, <1>3, <1>4, FS_EmptySet

\* The actions that are due and the others.
LEMMA HidesSplit ==
  ASSUME NEW q \in Seq(BOOLEAN), NEW n \in 1 .. Len(q)
  PROVE  LET due  == SubSeq(q, 1, n)
             hide == Cardinality({k \in 1 .. n : ~due[k]})
             left == SubSeq(q, n + 1, Len(q))
         IN  /\ hide \in Nat /\ left \in Seq(BOOLEAN)
             /\ Cardinality(Hides(q)) = hide + Cardinality(Hides(left))
             /\ due[n] = q[n]
             /\ left = <<>> => n = Len(q)
             /\ left # <<>> => left[Len(left)] = q[Len(q)]
  <1> DEFINE due  == SubSeq(q, 1, n)
             left == SubSeq(q, n + 1, Len(q))
             A == {k \in 1 .. n : ~due[k]}
             B == {k \in n + 1 .. Len(q) : ~q[k]}
  <1>1. /\ Len(q) \in Nat /\ left \in Seq(BOOLEAN) /\ Len(left) = Len(q) - n
        /\ \A k \in 1 .. n : due[k] = q[k]
        /\ \A k \in 1 .. Len(q) - n : left[k] = q[n + k]
      OBVIOUS
  <1>2. Hides(q) = A \cup B /\ A \cap B = {}
    <2>1. 1 .. Len(q) = (1 .. n) \cup (n + 1 .. Len(q))
          /\ (1 .. n) \cap (n + 1 .. Len(q)) = {}
        BY <1>1
    <2>2. DOMAIN q = 1 .. Len(q)
        OBVIOUS
    <2> HIDE DEF due
    <2>3. QED
        BY <1>1, <2>1, <2>2 DEF Hides
  <1>3. Hides(left) = {k \in 1 .. Len(q) - n : ~q[n + k]}
    <2>1. DOMAIN left = 1 .. Len(q) - n
        BY <1>1
    <2> HIDE DEF left
    <2>2. QED
        BY <1>1, <2>1 DEF Hides
  <1> HIDE DEF due, left
  <1>4. /\ IsFiniteSet(A) /\ Cardinality(A) \in Nat
        /\ IsFiniteSet(B) /\ Cardinality(B) \in Nat
    <2>1. IsFiniteSet(1 .. n) /\ IsFiniteSet(n + 1 .. Len(q))
        BY <1>1, FS_Interval
    <2>2. A \subseteq 1 .. n /\ B \subseteq n + 1 .. Len(q)
        OBVIOUS
    <2>3. QED
        BY <2>1, <2>2, FS_Subset, FS_CardinalityType
  <1>5. Cardinality(B) = Cardinality(Hides(left))
    <2> DEFINE less == [k \in B |-> k - n]
    <2>1. less \in Bijection(B, Hides(left))
      <3>1. less \in [B -> Hides(left)]
          BY <1>1, <1>3
      <3>2. \A j, k \in B : less[j] = less[k] => j = k
          BY <1>1
      <3>3. \A t \in Hides(left) : \E k \in B : less[k] = t
        <4>1. ASSUME NEW t \in Hides(left) PROVE n + t \in B /\ less[n + t] = t
            BY <1>1, <1>3
        <4>2. QED
            BY <4>1
      <3> HIDE DEF less
      <3>4. QED
          BY <3>1, <3>2, <3>3
             DEF Bijection, Injection, Surjection, IsInjective
    <2>2. QED
        BY <1>4, <2>1, FS_Bijection DEF ExistsBijection
  <1>6. Cardinality(A \cup B) = Cardinality(A) + Cardinality(B)
    <2>1. Cardinality(A \cup B) =
              Cardinality(A) + Cardinality(B) - Cardinality(A \cap B)
        BY <1>4, FS_Union
    <2>2. Cardinality(A \cap B) = 0
        BY <1>2, FS_EmptySet
    <2>3. QED
        BY <1>4, <2>1, <2>2
  <1>7. /\ left = <<>> => n = Len(q)
        /\ left # <<>> => left[Len(left)] = q[Len(q)]
    <2>1. left = <<>> => Len(left) = 0
        OBVIOUS
    <2>2. ASSUME left # <<>> PROVE left[Len(left)] = q[Len(q)]
      <3>1. Len(left) # 0
          BY <1>1, <2>2
      <3>2. Len(left) \in 1 .. Len(q) - n
          BY <1>1, <3>1
      <3>3. n + Len(left) = Len(q)
          BY <1>1
      <3>4. QED
          BY <1>1, <3>2, <3>3
    <2>3. QED
        BY <1>1, <2>1, <2>2
  <1>8. /\ Cardinality(A) \in Nat /\ left \in Seq(BOOLEAN)
        /\ Cardinality(Hides(q)) = Cardinality(A) + Cardinality(Hides(left))
        /\ due[n] = q[n]
      BY <1>1, <1>2, <1>4, <1>5, <1>6
  <1>9. QED
      BY <1>7, <1>8 DEF due, left

\* The last action is what the user wants to see.
ItemMatches(item, count) ==
    /\ item.active_refs = Once(item.user_visible)
           + Cardinality(Hides(item.actions)) + count
    /\ item.user_visible = IF item.actions = <<>> THEN item.visible
                           ELSE item.actions[Len(item.actions)]

\* How often the audio thread has still to uncount an item.
ToUncount(i) == IF audio.item = i THEN audio.count ELSE 0

HiderCounts ==
    /\ audio.at \in {"idle", "deref", "remove"} /\ audio.count \in Nat
    /\ audio.at = "idle" => audio.count = 0
    /\ audio.at = "deref" => audio.count > 0
    /\ audio.at # "idle" => audio.item \in Pairs

ActionsInv ==
    /\ HiderCounts
    /\ \A i \in DOMAIN items : ItemMatches(items[i], ToUncount(i))

\* A change of one item, that the audio thread is not about.
LEMMA ItemMatchChanged ==
  ASSUME ActionsInv, NEW i \in DOMAIN items, NEW item, HiderCounts',
         items' = [items EXCEPT ![i] = item],
         ItemMatches(item, ToUncount(i)'),
         \A j \in DOMAIN items \ {i} : ToUncount(j)' = ToUncount(j)
  PROVE  ActionsInv'
  <1>1. ASSUME NEW j \in DOMAIN items'
        PROVE  ItemMatches(items[j], ToUncount(j))'
    <2>1. CASE j = i
      <3>1. items'[j] = item
          BY <2>1
      <3>2. QED
          BY <2>1, <3>1 DEF ItemMatches, Hides, Once
    <2>2. CASE j # i
      <3>1. /\ j \in DOMAIN items /\ items'[j] = items[j]
            /\ ToUncount(j)' = ToUncount(j)
          BY <2>2
      <3>2. ItemMatches(items[j], ToUncount(j))
          BY <3>1 DEF ActionsInv
      <3>3. QED
          BY <3>1, <3>2 DEF ItemMatches, Hides, Once
    <2>3. QED
        BY <2>1, <2>2
  <1>2. QED
      BY <1>1 DEF ActionsInv

\* Items that are taken out.
LEMMA FewerItemsMatch ==
  ASSUME ActionsInv, NEW i, UNCHANGED audio,
         items' = [j \in DOMAIN items \ {i} |-> items[j]]
  PROVE  ActionsInv'
  <1>1. ASSUME NEW j \in DOMAIN items'
        PROVE  ItemMatches(items[j], ToUncount(j))'
    <2>1. j \in DOMAIN items /\ items'[j] = items[j]
        OBVIOUS
    <2>2. ItemMatches(items[j], ToUncount(j))
        BY <2>1 DEF ActionsInv
    <2>3. ToUncount(j)' = ToUncount(j)
        BY DEF ToUncount
    <2>4. QED
        BY <2>1, <2>2, <2>3 DEF ItemMatches, Hides, Once
  <1>2. QED
      BY <1>1 DEF ActionsInv, HiderCounts

\* Nothing happens to the items.
LEMMA SameItemsMatch ==
  ASSUME ActionsInv, UNCHANGED <<items, audio>>
  PROVE  ActionsInv'
  <1>1. ASSUME NEW j \in DOMAIN items'
        PROVE  ItemMatches(items[j], ToUncount(j))'
    <2>1. ItemMatches(items[j], ToUncount(j))
        BY DEF ActionsInv
    <2>2. ToUncount(j)' = ToUncount(j)
        BY DEF ToUncount
    <2>3. QED
        BY <2>1, <2>2 DEF ItemMatches, Hides, Once
  <1>2. QED
      BY <1>1 DEF ActionsInv, HiderCounts

\* The audio thread hides items that have audio only.
LEMMA NotHidden ==
  ASSUME HiderTyped, ActionsInv, NEW i, ~HasAudio(i[2])
  PROVE  ToUncount(i) = 0
  BY DEF HiderTyped, ActionsInv, HiderCounts, ToUncount

\* obs_scene_add
LEMMA AddItemMatches ==
  ASSUME SceneInv, ActionsInv, NEW i \in Pairs, AddItem(i)
  PROVE  ActionsInv'
  <1> DEFINE item == [active_refs |-> 1, user_visible |-> TRUE,
                      visible |-> ~HasAudio(i[2]),
                      actions |-> IF HasAudio(i[2]) THEN <<TRUE>> ELSE <<>>]
  <1>1. /\ items' = [j \in DOMAIN items \cup {i} |->
                        IF j # i THEN items[j] ELSE item]
        /\ UNCHANGED audio /\ ~Locked({i[1]})
      BY DEF AddItem, sceneAudioVars
  <1>2. ToUncount(i) = 0
      BY <1>1 DEF Locked, ActionsInv, HiderCounts, ToUncount
  <1>3. ItemMatches(item, 0)
    <2>1. /\ Cardinality(Hides(<<>>)) = 0 /\ Cardinality(Hides(<<TRUE>>)) = 0
      <3>1. <<>> \in Seq(BOOLEAN)
          OBVIOUS
      <3>2. QED
          BY <3>1, HidesLaws
    <2>2. <<TRUE>> # <<>> /\ <<TRUE>>[Len(<<TRUE>>)] = TRUE
        OBVIOUS
    <2>3. /\ item.active_refs = 1 /\ item.user_visible = TRUE
          /\ item.visible = ~HasAudio(i[2])
          /\ item.actions = IF HasAudio(i[2]) THEN <<TRUE>> ELSE <<>>
        BY Zenon
    <2> HIDE DEF item
    <2>4. Cardinality(Hides(item.actions)) = 0
        BY <2>1, <2>3, Zenon
    <2>5. Once(item.user_visible) = 1
        BY <2>3, Zenon DEF Once
    <2>6. item.active_refs = Once(item.user_visible)
              + Cardinality(Hides(item.actions)) + 0
        BY <2>3, <2>4, <2>5
    <2>7. item.user_visible = IF item.actions = <<>> THEN item.visible
                              ELSE item.actions[Len(item.actions)]
        BY <2>2, <2>3, Zenon
    <2>8. QED
        BY <2>6, <2>7, Zenon DEF ItemMatches
  <1> HIDE DEF item
  <1>4. ASSUME NEW j \in DOMAIN items'
        PROVE  ItemMatches(items[j], ToUncount(j))'
    <2>1. ToUncount(j)' = ToUncount(j)
        BY <1>1 DEF ToUncount
    <2>2. CASE j = i
      <3>1. items'[j] = item
          BY <1>1, <2>2
      <3>2. QED
          BY <1>2, <1>3, <2>1, <2>2, <3>1 DEF ItemMatches, Hides, Once
    <2>3. CASE j # i
      <3>1. j \in DOMAIN items /\ items'[j] = items[j]
          BY <1>1, <2>3
      <3>2. ItemMatches(items[j], ToUncount(j))
          BY <3>1 DEF ActionsInv
      <3>3. QED
          BY <2>1, <3>1, <3>2 DEF ItemMatches, Hides, Once
    <2>4. QED
        BY <2>2, <2>3
  <1>5. QED
      BY <1>1, <1>4 DEF ActionsInv, HiderCounts

\* obs_sceneitem_set_visible(true): with audio, it is counted once more.
LEMMA ShowItemMatches ==
  ASSUME SceneInv, ActionsInv, NEW i \in Pairs, ShowItem(i)
  PROVE  ActionsInv'
  <1> DEFINE old == items[i]
             item == [old EXCEPT
                         !.active_refs = IF HasAudio(i[2]) THEN @ + 1 ELSE 1,
                         !.user_visible = TRUE,
                         !.visible = @ \/ ~HasAudio(i[2]),
                         !.actions = IF HasAudio(i[2]) THEN Append(@, TRUE)
                                     ELSE <<>>]
  <1>1. /\ i \in DOMAIN items /\ ~old.user_visible /\ UNCHANGED audio
        /\ items' = [items EXCEPT ![i] = item]
    <2>1. i \in DOMAIN items /\ ~old.user_visible /\ UNCHANGED audio
        BY DEF ShowItem, sceneAudioVars
    <2>2. items' = [items EXCEPT ![i] = item]
        BY <2>1 DEF ShowItem, SceneInv, ItemsTyped
    <2>3. QED
        BY <2>1, <2>2
  <1>2. /\ ItemTyped(i, old) /\ ItemMatches(old, ToUncount(i))
        /\ ToUncount(i) \in Nat /\ ItemsTyped
      BY <1>1 DEF SceneInv, ItemsTyped, ActionsInv, HiderCounts, ToUncount
  <1>3. /\ old = [active_refs |-> old.active_refs, visible |-> old.visible,
                  user_visible |-> old.user_visible, actions |-> old.actions]
        /\ old.active_refs \in Int /\ old.actions \in Seq(BOOLEAN)
      BY <1>2 DEF ItemTyped
  <1> HIDE DEF old
  <1>4. /\ item.active_refs = IF HasAudio(i[2]) THEN old.active_refs + 1 ELSE 1
        /\ item.user_visible = TRUE
        /\ item.visible = (old.visible \/ ~HasAudio(i[2]))
        /\ item.actions = IF HasAudio(i[2]) THEN Append(old.actions, TRUE)
                          ELSE <<>>
      BY <1>3, Zenon
  <1> HIDE DEF item
  <1>5. ItemMatches(item, ToUncount(i))
    <2>1. CASE HasAudio(i[2])
      <3> DEFINE more == Append(old.actions, TRUE)
      <3>1. more # <<>> /\ more[Len(more)] = TRUE
        <4>1. TRUE \in BOOLEAN
            OBVIOUS
        <4>2. QED
            BY <1>3, <4>1, HidesLaws, Zenon
      <3>2. /\ Cardinality(Hides(more)) = Cardinality(Hides(old.actions))
            /\ Cardinality(Hides(old.actions)) \in Nat
        <4>1. Once(~TRUE) = 0
            BY DEF Once
        <4>2. /\ Cardinality(Hides(more)) =
                     Cardinality(Hides(old.actions)) + Once(~TRUE)
              /\ Cardinality(Hides(old.actions)) \in Nat
            BY <1>3, HidesLaws
        <4> HIDE DEF more
        <4>3. QED
            BY <4>1, <4>2
      <3> HIDE DEF more
      <3>3. old.active_refs = Cardinality(Hides(old.actions)) + ToUncount(i)
          BY <1>1, <1>2, <3>2 DEF ItemMatches, Once
      <3>4. item.actions = more /\ item.active_refs = old.active_refs + 1
          BY <1>4, <2>1 DEF more
      <3>5. item.active_refs = 1 + Cardinality(Hides(item.actions)) + ToUncount(i)
          BY <1>2, <3>2, <3>3, <3>4
      <3>6. item.user_visible = IF item.actions = <<>> THEN item.visible
                                ELSE item.actions[Len(item.actions)]
          BY <1>4, <3>1, <3>4
      <3>7. Once(item.user_visible) = 1
          BY <1>4 DEF Once
      <3>8. QED
          BY <3>5, <3>6, <3>7 DEF ItemMatches
    <2>2. CASE ~HasAudio(i[2])
      <3>1. ToUncount(i) = 0
          BY <2>2, NotHidden DEF SceneInv
      <3>2. Cardinality(Hides(<<>>)) = 0
          BY <1>3, HidesLaws
      <3>3. item.active_refs = 1 /\ item.actions = <<>>
          BY <1>4, <2>2
      <3>4. item.user_visible = IF item.actions = <<>> THEN item.visible
                                ELSE item.actions[Len(item.actions)]
          BY <1>4, <2>2, Zenon
      <3>5. Once(item.user_visible) = 1
          BY <1>4 DEF Once
      <3>6. item.active_refs = Once(item.user_visible)
                + Cardinality(Hides(item.actions)) + ToUncount(i)
          BY <3>1, <3>2, <3>3, <3>5
      <3>7. QED
          BY <3>4, <3>6, Zenon DEF ItemMatches
    <2>3. QED
        BY <2>1, <2>2
  <1>6. HiderCounts' /\ \A j : ToUncount(j)' = ToUncount(j)
      BY <1>1 DEF ActionsInv, HiderCounts, ToUncount
  <1>7. QED
      BY <1>1, <1>5, <1>6, ItemMatchChanged

\* obs_sceneitem_set_visible(false): with audio, it is uncounted later.
LEMMA HideItemMatches ==
  ASSUME SceneInv, ActionsInv, NEW i \in Pairs, HideItem(i)
  PROVE  ActionsInv'
  <1> DEFINE old == items[i]
             more == Append(old.actions, FALSE)
             now == [old EXCEPT !.user_visible = FALSE, !.actions = more]
             gone == [active_refs |-> 0, visible |-> FALSE,
                      user_visible |-> FALSE, actions |-> <<>>]
  <1>1. /\ i \in DOMAIN items /\ old.user_visible /\ UNCHANGED audio
        /\ items' = [items EXCEPT ![i] = IF HasAudio(i[2]) THEN now ELSE gone]
    <2>1. i \in DOMAIN items /\ old.user_visible /\ UNCHANGED audio
        BY DEF HideItem, sceneAudioVars
    <2>2. CASE HasAudio(i[2])
      <3>1. items' = [items EXCEPT ![i] = now]
          BY <2>1, <2>2 DEF HideItem, SceneInv, ItemsTyped
      <3> HIDE DEF now, gone
      <3>2. QED
          BY <2>1, <2>2, <3>1
    <2>3. CASE ~HasAudio(i[2])
      <3>1. items' = [items EXCEPT ![i] = gone]
          BY <2>3 DEF HideItem, Hide
      <3> HIDE DEF now, gone
      <3>2. QED
          BY <2>1, <2>3, <3>1
    <2>4. QED
        BY <2>2, <2>3
  <1>2. /\ ItemTyped(i, old) /\ ItemMatches(old, ToUncount(i))
        /\ ToUncount(i) \in Nat
      BY <1>1 DEF SceneInv, ItemsTyped, ActionsInv, HiderCounts, ToUncount
  <1>3. /\ old = [active_refs |-> old.active_refs, visible |-> old.visible,
                  user_visible |-> old.user_visible, actions |-> old.actions]
        /\ old.active_refs \in Int /\ old.actions \in Seq(BOOLEAN)
        /\ old.user_visible \in BOOLEAN
      BY <1>2 DEF ItemTyped
  <1>4. HiderCounts' /\ \A j : ToUncount(j)' = ToUncount(j)
      BY <1>1 DEF ActionsInv, HiderCounts, ToUncount
  <1> HIDE DEF old
  <1>5. CASE HasAudio(i[2])
    <2>1. /\ now.active_refs = old.active_refs /\ now.user_visible = FALSE
          /\ now.actions = more
        BY <1>3, Zenon
    <2>2. /\ Cardinality(Hides(more)) =
                 Cardinality(Hides(old.actions)) + Once(~FALSE)
          /\ Cardinality(Hides(old.actions)) \in Nat
          /\ more # <<>> /\ more[Len(more)] = FALSE
      <3>1. FALSE \in BOOLEAN
          OBVIOUS
      <3>2. QED
          BY <1>3, <3>1, HidesLaws, Zenon
    <2>3. Once(~FALSE) = 1 /\ Once(FALSE) = 0 /\ Once(old.user_visible) = 1
        BY <1>1 DEF Once
    <2>4. old.active_refs = 1 + Cardinality(Hides(old.actions)) + ToUncount(i)
        BY <1>2, <2>3 DEF ItemMatches
    <2> HIDE DEF more, now
    <2>5. now.active_refs = Once(now.user_visible)
              + Cardinality(Hides(now.actions)) + ToUncount(i)
      <3>1. Once(now.user_visible) = 0
          BY <2>1, <2>3, Zenon
      <3>2. QED
          BY <1>2, <2>1, <2>2, <2>3, <2>4, <3>1
    <2>6. now.user_visible = IF now.actions = <<>> THEN now.visible
                             ELSE now.actions[Len(now.actions)]
        BY <2>1, <2>2, Zenon
    <2>7. ItemMatches(now, ToUncount(i))
        BY <2>5, <2>6, Zenon DEF ItemMatches
    <2>8. QED
        BY <1>1, <1>4, <1>5, <2>7, ItemMatchChanged
  <1>6. CASE ~HasAudio(i[2])
    <2>1. ToUncount(i) = 0
        BY <1>6, NotHidden DEF SceneInv
    <2>2. Cardinality(Hides(<<>>)) = 0
        BY <1>3, HidesLaws
    <2>3. /\ gone.active_refs = 0 /\ gone.user_visible = FALSE
          /\ gone.actions = <<>> /\ gone.visible = FALSE
        BY Zenon
    <2> HIDE DEF gone
    <2>4. gone.active_refs = Once(gone.user_visible)
              + Cardinality(Hides(gone.actions)) + ToUncount(i)
      <3>1. Once(gone.user_visible) = 0
          BY <2>3, Zenon DEF Once
      <3>2. QED
          BY <2>1, <2>2, <2>3, <3>1
    <2>5. gone.user_visible = IF gone.actions = <<>> THEN gone.visible
                              ELSE gone.actions[Len(gone.actions)]
        BY <2>3, Zenon
    <2>6. ItemMatches(gone, ToUncount(i))
        BY <2>4, <2>5, Zenon DEF ItemMatches
    <2>7. QED
        BY <1>1, <1>4, <1>6, <2>6, ItemMatchChanged
  <1>7. QED
      BY <1>5, <1>6

\* apply_scene_item_audio_actions: what is due is seen, and what hides is left
\* to be uncounted.
LEMMA ApplyMatches ==
  ASSUME SceneInv, ActionsInv, NEW i \in Pairs, NEW n \in Nat,
         ApplyActions(i, n)
  PROVE  ActionsInv'
  <1> DEFINE old == items[i]
             due == SubSeq(old.actions, 1, n)
             left == SubSeq(old.actions, n + 1, Len(old.actions))
             hide == Cardinality({k \in 1 .. n : ~due[k]})
             now == [old EXCEPT !.visible = due[n], !.actions = left]
  <1>1. /\ i \in DOMAIN items /\ n \in 1 .. Len(old.actions)
        /\ audio.at = "idle"
        /\ audio' = IF hide = 0 THEN NoItem
                    ELSE [at |-> "deref", item |-> i, count |-> hide]
      BY DEF ApplyActions
  <1>2. items' = [items EXCEPT ![i] = now]
      BY <1>1 DEF ApplyActions, SceneInv, ItemsTyped
  <1>3. ItemTyped(i, old) /\ ItemMatches(old, 0)
      BY <1>1 DEF SceneInv, ItemsTyped, ActionsInv, HiderCounts, ToUncount
  <1>4. /\ old = [active_refs |-> old.active_refs, visible |-> old.visible,
                  user_visible |-> old.user_visible, actions |-> old.actions]
        /\ old.active_refs \in Int /\ old.actions \in Seq(BOOLEAN)
        /\ old.user_visible \in BOOLEAN
      BY <1>3 DEF ItemTyped
  <1> HIDE DEF old
  <1>5. /\ hide \in Nat /\ left \in Seq(BOOLEAN)
        /\ Cardinality(Hides(old.actions)) = hide + Cardinality(Hides(left))
        /\ due[n] = old.actions[n]
        /\ left = <<>> => n = Len(old.actions)
        /\ left # <<>> => left[Len(left)] = old.actions[Len(old.actions)]
      BY <1>1, <1>4, HidesSplit
  <1>6. /\ now.active_refs = old.active_refs
        /\ now.user_visible = old.user_visible
        /\ now.visible = due[n] /\ now.actions = left
      BY <1>4, Zenon
  <1> HIDE DEF due, left, hide, now
  <1>7. HiderCounts' /\ ToUncount(i)' = hide
        /\ \A j \in DOMAIN items \ {i} : ToUncount(j)' = ToUncount(j)
    <2>1. \A j : ToUncount(j) = 0
        BY <1>1 DEF ActionsInv, HiderCounts, ToUncount
    <2>2. CASE hide = 0
      <3>1. audio'.at = "idle" /\ audio'.count = 0
          BY <1>1, <2>2 DEF NoItem
      <3>2. QED
          BY <2>1, <2>2, <3>1 DEF HiderCounts, ToUncount
    <2>3. CASE hide # 0
      <3>1. audio'.at = "deref" /\ audio'.count = hide /\ audio'.item = i
          BY <1>1, <2>3
      <3>2. QED
          BY <1>5, <2>1, <2>3, <3>1 DEF HiderCounts, ToUncount
    <2>4. QED
        BY <2>2, <2>3
  <1>8. Cardinality(Hides(left)) \in Nat /\ Cardinality(Hides(old.actions)) \in Nat
      BY <1>4, <1>5, HidesLaws
  <1>9. ItemMatches(now, hide)
    <2>1. Once(now.user_visible) = Once(old.user_visible)
          /\ Once(old.user_visible) \in Nat
        BY <1>4, <1>6 DEF Once
    <2>2. old.active_refs = Once(old.user_visible)
              + Cardinality(Hides(old.actions)) + 0
        BY <1>3 DEF ItemMatches
    <2>3. now.active_refs = Once(now.user_visible)
              + Cardinality(Hides(now.actions)) + hide
        BY <1>5, <1>6, <1>8, <2>1, <2>2
    <2>4. old.user_visible = old.actions[Len(old.actions)]
      <3>1. old.actions # <<>>
          BY <1>1
      <3>2. QED
          BY <1>3, <3>1, Zenon DEF ItemMatches
    <2>5. now.user_visible = IF now.actions = <<>> THEN now.visible
                             ELSE now.actions[Len(now.actions)]
        BY <1>5, <1>6, <2>4, Zenon
    <2>6. QED
        BY <2>3, <2>5, Zenon DEF ItemMatches
  <1>10. ItemMatches(now, ToUncount(i)')
      BY <1>7, <1>9
  <1>11. QED
      BY <1>1, <1>2, <1>7, <1>10, ItemMatchChanged

\* set_visibility in the audio thread: one count less, and one less to be taken.
LEMMA DerefMatches ==
  ASSUME SceneInv, ActionsInv, Deref
  PROVE  ActionsInv' /\ items[audio.item].active_refs > 0
  <1> SUFFICES ASSUME NEW i, i = audio.item
               PROVE  ActionsInv' /\ items[i].active_refs > 0
      OBVIOUS
  <1> DEFINE old == items[i]
             left == old.active_refs - 1
             now == [old EXCEPT !.active_refs = left]
  <1>1. /\ i \in DOMAIN items /\ audio.at = "deref"
        /\ audio' = IF left # 0 /\ audio.count = 1 THEN NoItem
                    ELSE [audio EXCEPT
                             !.at = IF left = 0 THEN "remove" ELSE "deref",
                             !.count = @ - 1]
      BY DEF Deref
  <1>2. items' = [items EXCEPT ![i] = now]
      BY <1>1 DEF Deref, SceneInv, ItemsTyped
  <1>3. /\ ItemTyped(i, old) /\ ItemMatches(old, audio.count)
        /\ audio.count \in Nat /\ audio.count > 0 /\ i \in Pairs
      BY <1>1 DEF SceneInv, ItemsTyped, ActionsInv, HiderCounts, ToUncount
  <1>4. /\ old = [active_refs |-> old.active_refs, visible |-> old.visible,
                  user_visible |-> old.user_visible, actions |-> old.actions]
        /\ old.active_refs \in Int /\ old.actions \in Seq(BOOLEAN)
        /\ old.user_visible \in BOOLEAN
      BY <1>3 DEF ItemTyped
  <1>5. /\ old.active_refs = Once(old.user_visible)
               + Cardinality(Hides(old.actions)) + audio.count
        /\ Cardinality(Hides(old.actions)) \in Nat
        /\ Once(old.user_visible) \in Nat
      BY <1>3, <1>4, HidesLaws DEF ItemMatches, Once
  <1>6. old.active_refs > 0 /\ left \in Nat /\ left >= audio.count - 1
      BY <1>3, <1>5
  <1>7. /\ audio.at = "deref" /\ audio =
               [at |-> audio.at, item |-> audio.item, count |-> audio.count]
      BY <1>1 DEF SceneInv, HiderTyped
  <1>8. /\ audio'.count = audio.count - 1
        /\ \/ audio'.at = "idle" /\ audio'.count = 0
           \/ audio'.at = "remove" /\ audio'.item = i
           \/ audio'.at = "deref" /\ audio'.item = i /\ audio'.count > 0
    <2>1. CASE left # 0 /\ audio.count = 1
        BY <1>1, <2>1 DEF NoItem
    <2>2. CASE ~(left # 0 /\ audio.count = 1)
      <3>1. audio' = [at |-> IF left = 0 THEN "remove" ELSE "deref",
                      item |-> i, count |-> audio.count - 1]
          BY <1>1, <1>7, <2>2
      <3>2. left = 0 \/ audio.count - 1 > 0
          BY <1>3, <2>2
      <3>3. QED
          BY <3>1, <3>2
    <2>3. QED
        BY <2>1, <2>2
  <1>9. /\ now.active_refs = left /\ now.user_visible = old.user_visible
        /\ now.visible = old.visible /\ now.actions = old.actions
    <2> HIDE DEF old, left
    <2>1. QED
        BY <1>4, Zenon
  <1> HIDE DEF now
  <1>10. HiderCounts' /\ ToUncount(i)' = audio.count - 1
         /\ \A j \in DOMAIN items \ {i} : ToUncount(j)' = ToUncount(j)
    <2>1. audio.count - 1 \in Nat
        BY <1>3
    <2>2. HiderCounts'
        BY <1>3, <1>8, <2>1 DEF HiderCounts
    <2>3. \A j \in DOMAIN items \ {i} : ToUncount(j) = 0
        BY DEF ToUncount
    <2>4. /\ ToUncount(i)' = audio.count - 1
          /\ \A j \in DOMAIN items \ {i} : ToUncount(j)' = 0
      <3>1. CASE audio'.count = 0
          BY <1>8, <3>1 DEF ToUncount
      <3>2. CASE audio'.item = i
          BY <1>8, <3>2 DEF ToUncount
      <3>3. QED
          BY <1>8, <3>1, <3>2
    <2>5. QED
        BY <2>2, <2>3, <2>4
  <1>11. ItemMatches(now, audio.count - 1)
    <2> HIDE DEF old
    <2>1. now.active_refs = Once(now.user_visible)
              + Cardinality(Hides(now.actions)) + (audio.count - 1)
        BY <1>3, <1>4, <1>5, <1>9
    <2>2. now.user_visible = IF now.actions = <<>> THEN now.visible
                             ELSE now.actions[Len(now.actions)]
        BY <1>3, <1>9, Zenon DEF ItemMatches
    <2>3. QED
        BY <2>1, <2>2, Zenon DEF ItemMatches
  <1>12. ItemMatches(now, ToUncount(i)')
      BY <1>10, <1>11
  <1>13. ActionsInv'
    <2>1. i \in DOMAIN items
        BY <1>1
    <2> HIDE DEF old, left
    <2>2. QED
        BY <1>2, <1>10, <1>12, <2>1, ItemMatchChanged
  <1>14. QED
      BY <1>6, <1>13

\* At first no action waits.
LEMMA InitActionsInv ==
  SceneInit => ActionsInv
  <1> SUFFICES ASSUME SceneInit PROVE ActionsInv
      OBVIOUS
  <1>1. PICK l \in Loaded :
          items = [i \in DOMAIN l |->
                      [active_refs |-> Once(l[i]), visible |-> l[i],
                       user_visible |-> l[i], actions |-> <<>>]]
      BY DEF SceneInit
  <1>2. HiderCounts /\ \A i : ToUncount(i) = 0
      BY DEF SceneInit, HiderCounts, NoItem, ToUncount
  <1>3. ASSUME NEW i \in DOMAIN items PROVE ItemMatches(items[i], 0)
    <2>1. /\ items[i].active_refs = Once(l[i]) /\ items[i].visible = l[i]
          /\ items[i].user_visible = l[i] /\ items[i].actions = <<>>
        BY <1>1
    <2>2. Cardinality(Hides(<<>>)) = 0
      <3>1. <<>> \in Seq(BOOLEAN)
          OBVIOUS
      <3>2. QED
          BY <3>1, HidesLaws
    <2>3. Once(l[i]) = Once(l[i]) + Cardinality(Hides(<<>>)) + 0
        BY <2>2 DEF Once
    <2>4. QED
        BY <2>1, <2>3, Zenon DEF ItemMatches
  <1>4. QED
      BY <1>2, <1>3 DEF ActionsInv

\* Every step keeps what the counts of the items stand for.
LEMMA NextActionsInv ==
  SceneInv /\ ActionsInv /\ [SceneNext]_sceneVars => ActionsInv'
  <1> SUFFICES ASSUME SceneInv, ActionsInv, [SceneNext]_sceneVars
               PROVE  ActionsInv'
      OBVIOUS
  <1>1. ASSUME NEW i, Detach(i), UNCHANGED audio PROVE ActionsInv'
    <2>1. items' = [j \in DOMAIN items \ {i} |-> items[j]]
        BY <1>1 DEF Detach
    <2>2. QED
        BY <1>1, <2>1, FewerItemsMatch
  <1>2. CASE UNCHANGED sceneVars
      BY <1>2, SameItemsMatch DEF sceneVars, sceneAudioVars
  <1>3. CASE FrontendStep
    <2>1. ASSUME NEW v \in DOMAIN views, NEW s \in Scenes \cup {NoScene},
                 ChangeView(v, s)
          PROVE  ActionsInv'
        BY <2>1, SameItemsMatch DEF ChangeView, sceneAudioVars
    <2>2. ASSUME NEW i \in Pairs, AddItem(i) PROVE ActionsInv'
        BY <2>2, AddItemMatches
    <2>3. ASSUME NEW i \in Pairs, ShowItem(i) PROVE ActionsInv'
        BY <2>3, ShowItemMatches
    <2>4. ASSUME NEW i \in Pairs, HideItem(i) PROVE ActionsInv'
        BY <2>4, HideItemMatches
    <2>5. ASSUME NEW i \in Pairs, RemoveItem(i) PROVE ActionsInv'
        BY <1>1, <2>5 DEF RemoveItem, sceneAudioVars
    <2>6. ASSUME NEW s \in Inputs, RemoveSource(s) PROVE ActionsInv'
        BY <2>6, SameItemsMatch DEF RemoveSource, sceneAudioVars
    <2>7. QED
        BY <1>3, <2>1, <2>2, <2>3, <2>4, <2>5, <2>6 DEF FrontendStep
  <1>4. CASE CallStep
      BY <1>4, SameItemsMatch
         DEF CallStep, CountSource, CountTree, sceneAudioVars
  <1>5. CASE ApplyStep
    <2>1. PICK i \in Pairs, n \in 1 .. MaxChanges : ApplyActions(i, n)
        BY <1>5 DEF ApplyStep
    <2>2. n \in Nat
        BY SceneAssumption
    <2>3. QED
        BY <2>1, <2>2, ApplyMatches
  <1>6. CASE Deref
      BY <1>6, DerefMatches
  <1>7. CASE BuildOrder \/ \E s \in Scenes : LeaveScene(s)
      BY <1>7, SameItemsMatch DEF BuildOrder, LeaveScene
  <1>8. CASE RemoveHidden
    <2>1. /\ audio.at = "remove" /\ UNCHANGED items
          /\ audio' = IF audio.count = 0 THEN NoItem
                      ELSE [audio EXCEPT !.at = "deref"]
        BY <1>8 DEF RemoveHidden
    <2>2. /\ audio = [at |-> audio.at, item |-> audio.item,
                      count |-> audio.count]
          /\ audio.count \in Nat /\ audio.item \in Pairs
        BY <2>1 DEF SceneInv, HiderTyped, ActionsInv, HiderCounts
    <2>3. HiderCounts' /\ \A j : ToUncount(j)' = ToUncount(j)
      <3>1. CASE audio.count = 0
        <4>1. audio'.at = "idle" /\ audio'.count = 0
            BY <2>1, <3>1 DEF NoItem
        <4>2. QED
            BY <3>1, <4>1 DEF HiderCounts, ToUncount
      <3>2. CASE audio.count # 0
        <4>1. /\ audio'.at = "deref" /\ audio'.count = audio.count
              /\ audio'.item = audio.item
            BY <2>1, <2>2, <3>2
        <4>2. QED
            BY <2>2, <3>2, <4>1 DEF HiderCounts, ToUncount
      <3>3. QED
          BY <3>1, <3>2
    <2>4. ASSUME NEW j \in DOMAIN items'
          PROVE  ItemMatches(items[j], ToUncount(j))'
      <3>1. ItemMatches(items[j], ToUncount(j))
          BY <2>1 DEF ActionsInv
      <3>2. QED
          BY <2>1, <2>3, <3>1 DEF ItemMatches, Hides, Once
    <2>5. QED
        BY <2>3, <2>4 DEF ActionsInv
  <1>9. ASSUME NEW i \in Pairs, RenderRemoves(i) PROVE ActionsInv'
      BY <1>1, <1>9 DEF RenderRemoves, sceneAudioVars
  <1>10. QED
      BY <1>2, <1>3, <1>4, <1>5, <1>6, <1>7, <1>8, <1>9
         DEF SceneNext, AudioStep

\* The counts of the items match what the user wants to see and what waits for
\* the audio thread, for any scenes, sources and items and whatever coincides.
THEOREM ItemCountsMatch ==
  SceneSpec => []ActionsMatch
  <1>1. SceneInv /\ ActionsInv => ActionsMatch
    <2>1. ASSUME ActionsInv, NEW i \in DOMAIN items
          PROVE  LET item  == items[i]
                     hides == {k \in DOMAIN item.actions : ~item.actions[k]}
                 IN  /\ item.active_refs =
                            Once(item.user_visible) + Cardinality(hides)
                            + IF audio.item = i THEN audio.count ELSE 0
                     /\ item.actions = <<>> =>
                            item.visible = item.user_visible
      <3>1. ItemMatches(items[i], ToUncount(i))
          BY <2>1 DEF ActionsInv
      <3>2. QED
          BY <3>1, Zenon DEF ItemMatches, Hides, ToUncount
    <2>2. QED
        BY <2>1 DEF ActionsMatch
  <1>2. SceneInit => SceneInv /\ ActionsInv
      BY SceneInitInv, InitActionsInv
  <1>3. SceneInv /\ ActionsInv /\ [SceneNext]_sceneVars =>
            (SceneInv /\ ActionsInv)'
      BY SceneNextInv, NextActionsInv
  <1>4. QED
      BY <1>1, <1>2, <1>3, PTL DEF SceneSpec

-----------------------------------------------------------------------------
(* Counts that balance                                                      *)

\* The root, and how often the walk comes to each source.
Paths(root) == [s \in Sources |-> Visits(root)[s] + Once(s = root)]

\* Counting a tree.
LEMMA PathsLaws ==
  ASSUME ItemsTyped, NoActiveCycle, NEW root
  PROVE  /\ Visits(root) \in [Sources -> Int]
         /\ Paths(root) \in [Sources -> Int]
         /\ \A s \in Sources :
                /\ Visits(root)[s] = OfParents(Paths(root), Active, s)
                /\ Paths(root)[s] = Visits(root)[s] + Once(s = root)
                /\ s # root /\ s \notin Below(root, Active) =>
                       Paths(root)[s] = 0
         /\ \A refs, n : Count(refs, root, n) =
                [s \in Sources |-> refs[s] + n * Paths(root)[s]]
  <1>1. /\ Visits(root) \in [Sources -> Int]
        /\ Visits(root) = Further(Visits(root), root)
        /\ \A s \in Sources \ Below(root, Active) : Visits(root)[s] = 0
      BY VisitsLaws
  <1>2. \A s \in Sources : Visits(root)[s] = OfParents(Paths(root), Active, s)
      BY <1>1, Zenon DEF Further, Paths
  <1>3. Paths(root) \in [Sources -> Int]
      BY <1>1 DEF Paths, Once
  <1>4. \A s \in Sources :
            /\ Paths(root)[s] = Visits(root)[s] + Once(s = root)
            /\ s # root /\ s \notin Below(root, Active) => Paths(root)[s] = 0
      BY <1>1 DEF Paths, Once
  <1>5. \A refs, n : Count(refs, root, n) =
            [s \in Sources |-> refs[s] + n * Paths(root)[s]]
      BY DEF Count, Paths
  <1>6. QED
      BY <1>1, <1>2, <1>3, <1>4, <1>5

\* Each source has what it is owed and what its parents have, one for each edge
\* and one for each edge that is late, whose item is no longer active.
Balanced(refs, owed, edges, late) ==
    \A s \in Sources :
        refs[s] = owed[s] + OfParents(refs, edges, s) + OfParents(refs, late, s)

\* A tree that is counted k times, which does not come to the scene of an edge
\* that is late: its root is owed k more.
LEMMA TreeCounted ==
  ASSUME ItemsTyped, NoActiveCycle, NEW root, NEW k \in Int,
         NEW refs \in [Sources -> Int], NEW owed \in [Sources -> Int],
         NEW late, late \subseteq Pairs, Balanced(refs, owed, Active, late),
         \A l \in late : l[1] # root /\ l[1] \notin Below(root, Active),
         NEW more, more = [s \in Sources |-> refs[s] + k * Paths(root)[s]]
  PROVE  /\ more \in [Sources -> Int]
         /\ \A s \in Sources :
                more[s] = owed[s] + k * Once(s = root)
                    + OfParents(more, Active, s) + OfParents(more, late, s)
         /\ \A s \in Sources : s # root /\ s \notin Below(root, Active) =>
                more[s] = refs[s]
  <1> DEFINE P == Paths(root)
  <1>1. /\ P \in [Sources -> Int]
        /\ \A s \in Sources :
               /\ OfParents(P, Active, s) = Visits(root)[s]
               /\ Visits(root)[s] \in Int
               /\ P[s] = Visits(root)[s] + Once(s = root)
               /\ s # root /\ s \notin Below(root, Active) => P[s] = 0
      BY PathsLaws
  <1>2. Active \subseteq Pairs /\ Scenes \subseteq Sources
      BY DEF Active, ItemsTyped, Sources
  <1> HIDE DEF P
  <1>3. /\ more \in [Sources -> Int]
        /\ \A s \in Sources : more[s] = refs[s] + k * P[s]
    <2>1. \A s \in Sources : refs[s] + k * P[s] \in Int
        BY <1>1
    <2>2. more = [s \in Sources |-> refs[s] + k * P[s]]
        BY DEF P
    <2>3. QED
        BY <2>1, <2>2
  <1>4. \A t \in Scenes : /\ refs[t] \in Int /\ P[t] \in Int
                          /\ more[t] = refs[t] + k * P[t]
      BY <1>1, <1>2, <1>3
  <1>5. ASSUME NEW s \in Sources
        PROVE  more[s] = owed[s] + k * Once(s = root)
                   + OfParents(more, Active, s) + OfParents(more, late, s)
    <2> DEFINE a == OfParents(refs, Active, s)
               b == OfParents(more, Active, s)
               c == OfParents(refs, late, s)
               d == OfParents(more, late, s)
               v == Visits(root)[s]
               o == Once(s = root)
    <2>1. b = a + k * OfParents(P, Active, s)
      <3>1. AddsUp(refs, k, P, more)
          BY <1>4 DEF AddsUp
      <3> HIDE DEF v, o, c, d
      <3>2. QED
          BY <1>2, <3>1, OfParentsLinear
    <2>2. d = c
      <3>1. \A i \in Into(late, s) : more[i[1]] = refs[i[1]]
        <4>1. ASSUME NEW i \in Into(late, s) PROVE more[i[1]] = refs[i[1]]
          <5>1. i \in late /\ i[1] \in Scenes /\ i[1] \in Sources
              BY <1>2, IntoFinite DEF Into
          <5>2. P[i[1]] = 0
              BY <1>1, <5>1
          <5>3. k * 0 = 0 /\ refs[i[1]] \in Int
              BY <1>4, <5>1
          <5>4. more[i[1]] = refs[i[1]] + k * 0
              BY <1>4, <5>1, <5>2
          <5>5. QED
              BY <5>3, <5>4
        <4>2. QED
            BY <4>1
      <3>2. \A t \in Scenes : refs[t] \in Int
          BY <1>4
      <3> HIDE DEF v, o, a, b
      <3>3. QED
          BY <3>1, <3>2, OfParentsSame
    <2>3. a \in Int /\ c \in Int
        BY <1>2, <1>4, OfParentsLaws
    <2>4. refs[s] = owed[s] + a + c
        BY DEF Balanced
    <2>5. /\ more[s] = refs[s] + k * P[s] /\ P[s] = v + o
          /\ OfParents(P, Active, s) = v /\ v \in Int
        BY <1>1, <1>3
    <2>6. o \in Int /\ owed[s] \in Int /\ refs[s] \in Int
        BY DEF Once
    <2> HIDE DEF a, b, c, d, v, o
    <2>7. b = a + k * v /\ k * (v + o) = k * v + k * o
          /\ k * v \in Int /\ k * o \in Int
        BY <2>1, <2>5, <2>6
    <2> DEFINE kv == k * v
               ko == k * o
    <2> HIDE DEF kv, ko
    <2>8. more[s] = refs[s] + (kv + ko) /\ b = a + kv /\ kv \in Int /\ ko \in Int
        BY <2>5, <2>7 DEF kv, ko
    <2>9. more[s] = owed[s] + ko + b + d
        BY <2>2, <2>3, <2>4, <2>6, <2>8
    <2>10. QED
        BY <2>9 DEF ko, o, b, d
  <1>6. ASSUME NEW s \in Sources, s # root, s \notin Below(root, Active)
        PROVE  more[s] = refs[s]
      BY <1>1, <1>3, <1>6
  <1>7. QED
      BY <1>3, <1>5, <1>6

\* Of two that balance the one that is owed less has less, and none that is owed
\* nothing negative.
LEMMA LessIsLess ==
  ASSUME NEW edges, edges \subseteq Pairs, NEW late, late \subseteq Pairs,
         Acyclic(edges \cup late),
         NEW a \in [Sources -> Int], NEW b \in [Sources -> Int],
         NEW f \in [Sources -> Int], NEW g \in [Sources -> Int],
         Balanced(f, a, edges, late), Balanced(g, b, edges, late),
         \A s \in Sources : 0 <= a[s] /\ a[s] <= b[s]
  PROVE  \A s \in Sources : 0 <= f[s] /\ f[s] <= g[s]
  <1> DEFINE all == edges \cup late
             X == {s \in Sources : 0 <= f[s] /\ f[s] <= g[s]}
             h == [t \in Scenes |-> g[t] - f[t]]
  <1>1. Scenes \subseteq Sources /\ all \subseteq Pairs
      BY DEF Sources
  <1>2. \A t \in Scenes : /\ f[t] \in Int /\ g[t] \in Int /\ h[t] \in Int
                          /\ g[t] = f[t] + 1 * h[t] /\ h[t] = g[t] - f[t]
      BY <1>1
  <1> HIDE DEF h
  <1>3. ASSUME NEW some, some \subseteq Pairs, NEW s,
               \A i \in Into(some, s) : i[1] \in X
        PROVE  /\ 0 <= OfParents(f, some, s)
               /\ OfParents(f, some, s) <= OfParents(g, some, s)
               /\ OfParents(f, some, s) \in Int /\ OfParents(g, some, s) \in Int
    <2>1. \A i \in Into(some, s) : f[i[1]] >= 0 /\ h[i[1]] >= 0
      <3>1. ASSUME NEW i \in Into(some, s)
            PROVE  f[i[1]] >= 0 /\ h[i[1]] >= 0
        <4>1. i[1] \in Scenes /\ i[1] \in X
            BY <1>3, IntoFinite
        <4>2. QED
            BY <1>2, <4>1
      <3>2. QED
          BY <3>1
    <2> DEFINE ff == OfParents(f, some, s)
               gg == OfParents(g, some, s)
               hh == OfParents(h, some, s)
    <2>2. ff \in Nat
        BY <1>2, <1>3, <2>1, OfParentsLaws
    <2>3. hh \in Nat
        BY <1>2, <1>3, <2>1, OfParentsLaws
    <2>4. 1 \in Int
        OBVIOUS
    <2>5. gg = ff + 1 * hh
        BY <1>2, <1>3, <2>4, OfParentsLinear DEF AddsUp
    <2> HIDE DEF ff, gg, hh
    <2>6. 0 <= ff /\ ff <= gg /\ ff \in Int /\ gg \in Int
        BY <2>2, <2>3, <2>5
    <2>7. QED
        BY <2>6 DEF ff, gg
  <1>4. ASSUME NEW s \in Sources, \A i \in Into(all, s) : i[1] \in X
        PROVE  s \in X
    <2>1. /\ \A i \in Into(edges, s) : i[1] \in X
          /\ \A i \in Into(late, s) : i[1] \in X
        BY <1>4 DEF Into
    <2> HIDE DEF X
    <2> DEFINE fe == OfParents(f, edges, s)
               ge == OfParents(g, edges, s)
               fl == OfParents(f, late, s)
               gl == OfParents(g, late, s)
    <2>2. 0 <= fe /\ fe <= ge /\ fe \in Int /\ ge \in Int
        BY <1>3, <2>1
    <2>3. 0 <= fl /\ fl <= gl /\ fl \in Int /\ gl \in Int
        BY <1>3, <2>1
    <2>4. f[s] = a[s] + fe + fl /\ g[s] = b[s] + ge + gl
        BY DEF Balanced
    <2>5. a[s] \in Int /\ b[s] \in Int /\ 0 <= a[s] /\ a[s] <= b[s]
        OBVIOUS
    <2> HIDE DEF fe, ge, fl, gl
    <2>6. 0 <= f[s] /\ f[s] <= g[s]
        BY <2>2, <2>3, <2>4, <2>5
    <2>7. QED
        BY <2>6 DEF X
  <1> HIDE DEF X
  <1>5. \A s \in Sources : s \in X
      BY <1>1, <1>4, InductOnTree
  <1>6. QED
      BY <1>5 DEF X

-----------------------------------------------------------------------------
(* Counts: the inductive invariant                                          *)

Kinds == {"show", "activate"}
RefsOf(kind) == IF kind = "show" THEN show_refs ELSE activate_refs

\* In how many views that a kind of count is about a source is.
InViews(kind, s) ==
    Once(views.main = s)
        + (IF kind = "show" THEN Once(views.preview = s) ELSE 0)

\* Whether a call for a source is to be made.
ToCount(kind, delta, s) ==
    \E k \in DOMAIN calls : calls[k] = Call(kind, delta, s)

\* The views that are counted: those that are not yet left, and not those that
\* are not yet entered.
Owed(kind) ==
    [s \in Sources |->
        InViews(kind, s) - Once(ToCount(kind, 1, s)) + Once(ToCount(kind, -1, s))]

\* The counts when the tree of a source that is counted is counted too.
Walking == calls # <<>> /\ Head(calls).at = "walk"

Whole(kind) ==
    IF Walking /\ Head(calls).refs = kind
    THEN [s \in Sources |-> RefsOf(kind)[s]
              + Head(calls).delta * Visits(Head(calls).source)[s]]
    ELSE RefsOf(kind)

\* The item that is no longer active and whose source is not yet uncounted.
Late == IF audio.at = "remove" THEN {audio.item} ELSE {}

CountsTyped ==
    /\ views \in [{"main", "preview"} -> Scenes \cup {NoScene}]
    /\ show_refs \in [Sources -> Int] /\ activate_refs \in [Sources -> Int]

CallType == [refs : Kinds, delta : {-1, 1}, source : Scenes,
             at : {"count", "walk"}]

\* No call is made twice; while a tree is counted the audio thread is idle; what
\* is to be counted is in a view.
CallsTyped ==
    /\ calls \in Seq(CallType)
    /\ \A k \in DOMAIN calls : k > 1 => calls[k].at = "count"
    /\ \A j, k \in DOMAIN calls :
           j # k => \/ calls[j].refs # calls[k].refs
                    \/ calls[j].delta # calls[k].delta
                    \/ calls[j].source # calls[k].source
    /\ Walking => audio.at = "idle"
    /\ \A kind \in Kinds, s \in Sources :
           ToCount(kind, 1, s) => InViews(kind, s) >= 1

\* The item that the audio thread hides would not close a cycle.
HiderApart == \A l \in Late : l[1] \notin Below(l[2], Active)

CountsBalance ==
    \A kind \in Kinds : Balanced(Whole(kind), Owed(kind), Active, Late)

\* Nothing is counted of a change that is made while the audio thread hides.
OwedLess ==
    calls = <<>> \/ audio.at # "idle" =>
        \A s \in Sources : Owed("activate")[s] <= Owed("show")[s]

CountsInv ==
    CountsTyped /\ CallsTyped /\ HiderApart /\ CountsBalance /\ OwedLess

-----------------------------------------------------------------------------
(* Counts: what follows from the invariant                                  *)

\* Below with fewer edges is less.
LEMMA BelowMonotone ==
  ASSUME NEW edges, edges \subseteq Pairs, NEW fewer, fewer \subseteq edges,
         NEW s
  PROVE  Below(s, fewer) \subseteq Below(s, edges)
  <1>1. /\ \A e \in edges : e[1] \in Scenes
        /\ \A e \in fewer : e[1] \in Scenes
      BY SceneAssumption
  <1>2. \A X : Children(X, fewer) \subseteq Children(X, edges)
      BY DEF Children
  <1>3. /\ Children({s}, fewer) \subseteq Below(s, edges)
        /\ Children(Below(s, edges), fewer) \subseteq Below(s, edges)
      BY <1>1, <1>2, BelowLaws
  <1>4. QED
      BY <1>1, <1>3, BelowLaws

\* The scene of an active item is not below its source.
LEMMA ActiveApart ==
  ASSUME ItemsTyped, NoActiveCycle, NEW i \in Active
  PROVE  i \in Pairs /\ i[1] # i[2] /\ i[1] \notin Below(i[2], Active)
  <1>1. /\ \A e \in Active : e[1] \in Scenes
        /\ i \in Pairs /\ i[1] \in Scenes /\ i[1] # i[2]
      BY PairsAreEdges DEF Active, ItemsTyped
  <1>2. i[1] \notin Below(i[1], Active)
      BY <1>1 DEF NoActiveCycle, Acyclic, Below
  <1>3. i[2] \in Below(i[1], Active)
    <2>1. i[2] \in Children({i[1]}, Active)
        BY DEF Children
    <2>2. QED
        BY <1>1, <2>1, BelowLaws
  <1>4. Below(i[2], Active) \subseteq Below(i[1], Active)
    <2> DEFINE B == Below(i[1], Active)
    <2>1. Children(B, Active) \subseteq B
        BY <1>1, BelowLaws
    <2>2. Children({i[2]}, Active) \subseteq Children(B, Active)
        BY <1>3 DEF Children
    <2> HIDE DEF B
    <2>3. Children({i[2]}, Active) \subseteq B
        BY <2>1, <2>2
    <2>4. Below(i[2], Active) \subseteq B
        BY <1>1, <2>1, <2>3, BelowLaws
    <2>5. QED
        BY <2>4 DEF B
  <1>5. QED
      BY <1>1, <1>2, <1>4

\* A scene whose mutex the audio thread holds is not counted from above.
LEMMA NotLocked ==
  ASSUME ItemsTyped, HiderCounts, NEW c, ~Locked(Reach({c}, Active)),
         NEW l \in Late
  PROVE  l \in Pairs /\ l[1] # c /\ l[1] \notin Below(c, Active)
  <1>1. audio.at = "remove" /\ l = audio.item /\ l \in Pairs
      BY DEF Late, HiderCounts
  <1>2. l[1] \notin Reach({c}, Active)
      BY <1>1 DEF Locked
  <1>3. \A e \in Active : e[1] \in Scenes
      BY PairsAreEdges
  <1> DEFINE R == Reach({c}, Active)
  <1>4. c \in R /\ Children(R, Active) \subseteq R
      BY <1>3, ReachClosed
  <1>5. Below(c, Active) \subseteq R
    <2>1. Children({c}, Active) \subseteq Children(R, Active)
        BY <1>4 DEF Children
    <2> HIDE DEF R
    <2>2. Children({c}, Active) \subseteq R
        BY <1>4, <2>1
    <2>3. QED
        BY <1>3, <1>4, <2>2, BelowLaws
  <1>6. QED
      BY <1>1, <1>2, <1>4, <1>5

\* With the edge that is late there is no cycle either.
LEMMA LateCloses ==
  ASSUME ItemsTyped, NoActiveCycle, HiderCounts, HiderApart
  PROVE  Late \subseteq Pairs /\ Acyclic(Active \cup Late)
  <1>1. Active \subseteq Pairs /\ \A e \in Active : e[1] \in Scenes
      BY PairsAreEdges DEF Active, ItemsTyped
  <1>2. CASE audio.at # "remove"
    <2>1. Late = {} /\ Active \cup Late = Active
        BY <1>2 DEF Late
    <2>2. QED
        BY <2>1 DEF NoActiveCycle
  <1>3. CASE audio.at = "remove"
    <2>1. Late = {audio.item} /\ audio.item \in Pairs
        BY <1>3 DEF Late, HiderCounts
    <2>2. audio.item[1] \notin Below(audio.item[2], Active)
        BY <2>1 DEF HiderApart
    <2>3. audio.item[1] \in Scenes /\ audio.item[1] # audio.item[2]
        BY <2>1, PairsAreEdges
    <2>4. Acyclic(Active \cup {audio.item})
        BY <1>1, <2>2, <2>3, OneMoreEdge DEF NoActiveCycle
    <2>5. QED
        BY <2>1, <2>4
  <1>4. QED
      BY <1>2, <1>3

\* A source is in at most as many views as are counted.
LEMMA OwedLaws ==
  ASSUME CallsTyped, NEW kind \in Kinds
  PROVE  /\ Owed(kind) \in [Sources -> Int]
         /\ \A s \in Sources :
                /\ Owed(kind)[s] = InViews(kind, s) - Once(ToCount(kind, 1, s))
                                       + Once(ToCount(kind, -1, s))
                /\ Owed(kind)[s] >= 0 /\ InViews(kind, s) \in Nat
                /\ ToCount(kind, -1, s) => Owed(kind)[s] >= 1
  <1>1. \A s \in Sources : InViews(kind, s) \in Nat
      BY DEF InViews, Once
  <1>2. \A s \in Sources :
            /\ Owed(kind)[s] = InViews(kind, s) - Once(ToCount(kind, 1, s))
                                   + Once(ToCount(kind, -1, s))
      BY DEF Owed
  <1>3. Owed(kind) \in [Sources -> Int]
      BY <1>1 DEF Owed, Once
  <1>4. \A s \in Sources : ToCount(kind, 1, s) => InViews(kind, s) >= 1
      BY DEF CallsTyped
  <1>5. ASSUME NEW s \in Sources
        PROVE  /\ Owed(kind)[s] >= 0
               /\ ToCount(kind, -1, s) => Owed(kind)[s] >= 1
    <2>1. InViews(kind, s) - Once(ToCount(kind, 1, s)) >= 0
          /\ Once(ToCount(kind, 1, s)) \in Int
        BY <1>1, <1>4 DEF Once
    <2>2. Once(ToCount(kind, -1, s)) \in Nat
          /\ (ToCount(kind, -1, s) => Once(ToCount(kind, -1, s)) = 1)
        BY DEF Once
    <2>3. InViews(kind, s) \in Int
        BY <1>1
    <2>4. QED
        BY <1>2, <2>1, <2>2, <2>3
  <1>6. QED
      BY <1>1, <1>2, <1>3, <1>5

\* When no tree is being counted, no count is negative, and when nothing of a
\* change is counted, no more activations than showings are.
LEMMA CountsOrdered ==
  ASSUME SceneInv, HiderCounts, CountsInv, ~Walking
  PROVE  /\ \A kind \in Kinds :
                /\ RefsOf(kind) \in [Sources -> Int]
                /\ Balanced(RefsOf(kind), Owed(kind), Active, Late)
                /\ \A s \in Sources : 0 <= RefsOf(kind)[s]
         /\ calls = <<>> \/ audio.at # "idle" =>
                \A s \in Sources : activate_refs[s] <= show_refs[s]
  <1>1. /\ ItemsTyped /\ NoActiveCycle /\ CountsTyped /\ CallsTyped
        /\ HiderApart /\ CountsBalance /\ OwedLess
      BY DEF SceneInv, CountsInv
  <1>2. Active \subseteq Pairs /\ Late \subseteq Pairs /\ Acyclic(Active \cup Late)
      BY <1>1, LateCloses DEF Active, ItemsTyped
  <1>3. \A kind \in Kinds :
            /\ RefsOf(kind) \in [Sources -> Int]
            /\ Balanced(RefsOf(kind), Owed(kind), Active, Late)
            /\ Owed(kind) \in [Sources -> Int]
            /\ \A s \in Sources : 0 <= Owed(kind)[s] /\ Owed(kind)[s] <= Owed(kind)[s]
    <2>1. ASSUME NEW kind \in Kinds
          PROVE  /\ RefsOf(kind) \in [Sources -> Int]
                 /\ Balanced(RefsOf(kind), Owed(kind), Active, Late)
                 /\ Owed(kind) \in [Sources -> Int]
                 /\ \A s \in Sources :
                        0 <= Owed(kind)[s] /\ Owed(kind)[s] <= Owed(kind)[s]
      <3>1. RefsOf(kind) \in [Sources -> Int]
          BY <1>1 DEF RefsOf, CountsTyped
      <3>2. Whole(kind) = RefsOf(kind)
          BY DEF Whole
      <3>3. Balanced(RefsOf(kind), Owed(kind), Active, Late)
          BY <1>1, <3>2 DEF CountsBalance
      <3>4. /\ Owed(kind) \in [Sources -> Int]
            /\ \A s \in Sources : Owed(kind)[s] >= 0
          BY <1>1, OwedLaws
      <3>5. QED
          BY <3>1, <3>3, <3>4
    <2>2. QED
        BY <2>1
  <1>4. ASSUME NEW kind \in Kinds PROVE \A s \in Sources : 0 <= RefsOf(kind)[s]
      BY <1>2, <1>3, LessIsLess
  <1>5. ASSUME calls = <<>> \/ audio.at # "idle"
        PROVE  \A s \in Sources : activate_refs[s] <= show_refs[s]
    <2>1. "show" \in Kinds /\ "activate" \in Kinds
        BY DEF Kinds
    <2>2. RefsOf("show") = show_refs /\ RefsOf("activate") = activate_refs
        BY DEF RefsOf
    <2>3. \A s \in Sources : /\ 0 <= Owed("activate")[s]
                             /\ Owed("activate")[s] <= Owed("show")[s]
        BY <1>1, <1>3, <1>5, <2>1 DEF OwedLess
    <2>4. /\ show_refs \in [Sources -> Int] /\ activate_refs \in [Sources -> Int]
          /\ Owed("show") \in [Sources -> Int]
          /\ Owed("activate") \in [Sources -> Int]
          /\ Balanced(show_refs, Owed("show"), Active, Late)
          /\ Balanced(activate_refs, Owed("activate"), Active, Late)
        BY <1>3, <2>1, <2>2
    <2>5. \A s \in Sources :
              0 <= activate_refs[s] /\ activate_refs[s] <= show_refs[s]
        BY <1>2, <2>3, <2>4, LessIsLess
    <2>6. QED
        BY <2>5
  <1>6. QED
      BY <1>3, <1>4, <1>5

\* What a parent passes on is what it has, and of its child no less is counted.
LEMMA PassedOn ==
  ASSUME SceneInv, HiderCounts, CountsInv, ~Walking,
         calls = <<>> \/ audio.at # "idle", NEW i \in Active \cup Late
  PROVE  /\ i \in Pairs /\ i[1] \in Sources /\ i[2] \in Sources
         /\ \A kind \in Kinds :
                /\ RefsOf(kind)[i[1]] >= 0
                /\ RefsOf(kind)[i[1]] <= RefsOf(kind)[i[2]]
         /\ activate_refs[i[1]] <= show_refs[i[1]]
  <1>1. Active \subseteq Pairs /\ Late \subseteq Pairs
      BY LateCloses DEF Active, ItemsTyped, SceneInv, CountsInv
  <1>2. i \in Pairs /\ i[1] \in Sources /\ i[2] \in Sources
      BY <1>1, SceneAssumption DEF Sources
  <1>3. ASSUME NEW kind \in Kinds
        PROVE  /\ RefsOf(kind)[i[1]] >= 0
               /\ RefsOf(kind)[i[1]] <= RefsOf(kind)[i[2]]
    <2> DEFINE f == RefsOf(kind)
               o == Owed(kind)[i[2]]
               a == OfParents(f, Active, i[2])
               l == OfParents(f, Late, i[2])
    <2>1. /\ f \in [Sources -> Int] /\ \A s \in Sources : 0 <= f[s]
          /\ Balanced(f, Owed(kind), Active, Late)
        BY CountsOrdered
    <2>2. o \in Int /\ o >= 0
        BY <1>2, OwedLaws DEF CountsInv
    <2> HIDE DEF f, o
    <2>3. /\ \A t \in Scenes : f[t] \in Int /\ f[t] >= 0
          /\ f[i[1]] \in Int /\ f[i[2]] \in Int
        BY <1>2, <2>1 DEF Sources
    <2>4. f[i[2]] = o + a + l
        BY <1>2, <2>1 DEF Balanced, o
    <2>5. a \in Nat /\ (i \in Active => f[i[1]] <= a)
      <3>1. \A e \in Into(Active, i[2]) : f[e[1]] >= 0
          BY <1>1, <2>3, IntoFinite
      <3>2. i \in Active => i \in Into(Active, i[2])
          BY DEF Into
      <3>3. QED
          BY <1>1, <2>3, <3>1, <3>2, OfParentsLaws
    <2>6. l \in Nat /\ (i \in Late => f[i[1]] <= l)
      <3>1. \A e \in Into(Late, i[2]) : f[e[1]] >= 0
          BY <1>1, <2>3, IntoFinite
      <3>2. i \in Late => i \in Into(Late, i[2])
          BY DEF Into
      <3>3. QED
          BY <1>1, <2>3, <3>1, <3>2, OfParentsLaws
    <2> HIDE DEF a, l
    <2>7. f[i[1]] <= f[i[2]]
        BY <2>2, <2>3, <2>4, <2>5, <2>6
    <2>8. f[i[1]] >= 0
        BY <1>2, <2>1, <2>3
    <2>9. QED
        BY <2>7, <2>8 DEF f
  <1>4. activate_refs[i[1]] <= show_refs[i[1]]
      BY <1>2, CountsOrdered
  <1>5. QED
      BY <1>2, <1>3, <1>4

\* The larger and the smaller of two numbers.
LEMMA MaxMinOfTwo ==
  ASSUME NEW a \in Int, NEW b \in Int
  PROVE  /\ a <= b => Max({a, b}) = b /\ Min({a, b}) = a
         /\ b <= a => Max({a, b}) = a /\ Min({a, b}) = b
  <1>1. /\ \E x \in {a, b} : \A y \in {a, b} : x >= y
        /\ \E x \in {a, b} : \A y \in {a, b} : x =< y
    <2>1. CASE a <= b
        BY <2>1
    <2>2. CASE b <= a
        BY <2>2
    <2>3. QED
        BY <2>1, <2>2
  <1>2. Max({a, b}) \in {a, b} /\ \A y \in {a, b} : Max({a, b}) >= y
      BY <1>1, Zenon DEF Max
  <1>3. Min({a, b}) \in {a, b} /\ \A y \in {a, b} : Min({a, b}) =< y
      BY <1>1, Zenon DEF Min
  <1> DEFINE x == Max({a, b})
             z == Min({a, b})
  <1>4. (x = a \/ x = b) /\ x >= a /\ x >= b
      BY <1>2
  <1>5. (z = a \/ z = b) /\ z =< a /\ z =< b
      BY <1>3
  <1> HIDE DEF x, z
  <1>6. /\ a <= b => x = b /\ z = a
        /\ b <= a => x = a /\ z = b
      BY <1>4, <1>5
  <1>7. QED
      BY <1>6 DEF x, z

\* When there is no call what is owed is the views.
LEMMA NoCallsOwed ==
  ASSUME calls = <<>>
  PROVE  ~Walking /\ \A kind \in Kinds :
             Owed(kind) = [s \in Sources |-> InViews(kind, s)]
  <1>1. ASSUME NEW kind \in Kinds
        PROVE  Owed(kind) = [s \in Sources |-> InViews(kind, s)]
    <2>1. \A delta, s : ~ToCount(kind, delta, s)
        BY DEF ToCount
    <2>2. \A delta, s : Once(ToCount(kind, delta, s)) = 0
        BY <2>1, Zenon DEF Once
    <2>3. \A s \in Sources : InViews(kind, s) \in Int
        BY DEF InViews, Once
    <2>4. QED
        BY <2>2, <2>3 DEF Owed
  <1>2. QED
      BY <1>1 DEF Walking

\* A change that makes no call and takes none back.
LEMMA OwedKept ==
  ASSUME UNCHANGED <<views, calls>>
  PROVE  /\ Walking' = Walking
         /\ \A kind \in Kinds :
                /\ Owed(kind)' = Owed(kind)
                /\ \A s : InViews(kind, s)' = InViews(kind, s)
                /\ \A delta, s : ToCount(kind, delta, s)' =
                                     ToCount(kind, delta, s)
  <1>1. Walking' = Walking
      BY DEF Walking
  <1>2. ASSUME NEW kind \in Kinds
        PROVE  /\ \A s : InViews(kind, s)' = InViews(kind, s)
               /\ \A delta, s : ToCount(kind, delta, s)' =
                                    ToCount(kind, delta, s)
      BY DEF InViews, ToCount, Call, Once
  <1>3. ASSUME NEW kind \in Kinds PROVE Owed(kind)' = Owed(kind)
      BY DEF Owed, InViews, ToCount, Call, Once
  <1>4. QED
      BY <1>1, <1>2, <1>3

\* Such a change keeps the invariant when the counts still balance.
LEMMA CountsKept ==
  ASSUME CountsInv, ~Walking, UNCHANGED <<views, calls>>,
         calls = <<>> \/ audio.at # "idle",
         show_refs' \in [Sources -> Int], activate_refs' \in [Sources -> Int],
         HiderApart',
         \A kind \in Kinds :
             Balanced(RefsOf(kind)', Owed(kind), Active', Late')
  PROVE  CountsInv'
  <1>1. CountsTyped'
      BY DEF CountsInv, CountsTyped
  <1>2. ~Walking' /\ \A kind \in Kinds : Owed(kind)' = Owed(kind)
      BY OwedKept
  <1>3. CallsTyped'
    <2>1. ASSUME NEW kind \in Kinds, NEW s \in Sources, ToCount(kind, 1, s)'
          PROVE  InViews(kind, s)' >= 1
      <3>1. ToCount(kind, 1, s)
          BY <2>1, OwedKept
      <3>2. InViews(kind, s) >= 1
          BY <3>1 DEF CountsInv, CallsTyped
      <3>3. InViews(kind, s)' = InViews(kind, s)
          BY OwedKept
      <3>4. QED
          BY <3>2, <3>3
    <2>2. QED
        BY <1>2, <2>1 DEF CountsInv, CallsTyped
  <1>4. CountsBalance'
    <2>1. \A kind \in Kinds : Whole(kind)' = RefsOf(kind)'
        BY <1>2 DEF Whole
    <2>2. QED
        BY <1>2, <2>1 DEF CountsBalance
  <1>5. OwedLess'
    <2>1. \A s \in Sources : Owed("activate")[s] <= Owed("show")[s]
        BY DEF CountsInv, OwedLess
    <2>2. "show" \in Kinds /\ "activate" \in Kinds
        BY DEF Kinds
    <2>3. QED
        BY <1>2, <2>1, <2>2 DEF OwedLess
  <1>6. QED
      BY <1>1, <1>3, <1>4, <1>5 DEF CountsInv

\* Nothing happens to the counts, the views and the active items.
LEMMA CountsSame ==
  ASSUME CountsInv, UNCHANGED <<views, shownVars, calls, audio>>,
         UNCHANGED Active, UNCHANGED items \/ ~Walking
  PROVE  CountsInv'
  <1>1. UNCHANGED <<show_refs, activate_refs>>
      BY DEF shownVars
  <1>2. CountsTyped'
      BY <1>1 DEF CountsInv, CountsTyped
  <1>3. Walking' = Walking /\ \A kind \in Kinds : Owed(kind)' = Owed(kind)
      BY OwedKept
  <1>4. CallsTyped'
    <2>1. ASSUME NEW kind \in Kinds, NEW s \in Sources, ToCount(kind, 1, s)'
          PROVE  InViews(kind, s)' >= 1
      <3>1. ToCount(kind, 1, s)
          BY <2>1, OwedKept
      <3>2. InViews(kind, s) >= 1
          BY <3>1 DEF CountsInv, CallsTyped
      <3>3. InViews(kind, s)' = InViews(kind, s)
          BY OwedKept
      <3>4. QED
          BY <3>2, <3>3
    <2>2. QED
        BY <1>3, <2>1 DEF CountsInv, CallsTyped
  <1>5. HiderApart' /\ Late' = Late
    <2>1. Late' = Late
        BY DEF Late
    <2>2. QED
        BY <2>1 DEF CountsInv, HiderApart
  <1>6. CountsBalance'
    <2>1. \A root : Visits(root)' = Visits(root)
        BY DEF Visits
    <2>2. \A kind \in Kinds : Whole(kind)' = Whole(kind)
        BY <1>1, <1>3, <2>1 DEF Whole, RefsOf
    <2>3. QED
        BY <1>3, <1>5, <2>2 DEF CountsInv, CountsBalance
  <1>7. OwedLess'
    <2>1. "show" \in Kinds /\ "activate" \in Kinds
        BY DEF Kinds
    <2>2. QED
        BY <1>3, <2>1 DEF CountsInv, OwedLess
  <1>8. QED
      BY <1>2, <1>4, <1>5, <1>6, <1>7 DEF CountsInv

\* The scene of an item that may be added is not below its source.
LEMMA AddedApart ==
  ASSUME ItemsTyped, NEW i \in Pairs, MayAdd(i[1], i[2])
  PROVE  i[1] \notin Below(i[2], Active)
  <1>1. \A e \in Active : e[1] \in Scenes
      BY PairsAreEdges
  <1> DEFINE first == Children({i[2]}, DOMAIN items)
  <1>2. FullTree(i[2]) = Reach(first, Active)
    <2>1. {e[2] : e \in {x \in DOMAIN items : x[1] = i[2]}} = first
        BY DEF Children
    <2>2. QED
        BY <2>1 DEF FullTree
  <1>3. Children({i[2]}, Active) \subseteq first
      BY DEF Children, Active
  <1> HIDE DEF first
  <1>4. /\ first \subseteq FullTree(i[2])
        /\ Children(FullTree(i[2]), Active) \subseteq FullTree(i[2])
      BY <1>1, <1>2, ReachClosed
  <1>5. Below(i[2], Active) \subseteq FullTree(i[2])
    <2>1. Children({i[2]}, Active) \subseteq FullTree(i[2])
        BY <1>3, <1>4
    <2>2. QED
        BY <1>1, <1>4, <2>1, BelowLaws
  <1>6. QED
      BY <1>5 DEF MayAdd

\* Below a source there is, with an edge more, at most what is below the end of
\* that edge too.
LEMMA BelowOneMore ==
  ASSUME NEW edges, edges \subseteq Pairs, NEW i \in Pairs, NEW s
  PROVE  Below(s, edges \cup {i}) \subseteq
             Below(s, edges) \cup {i[2]} \cup Below(i[2], edges)
  <1> DEFINE more == edges \cup {i}
             S == Below(s, edges)
             B == Below(i[2], edges)
             X == S \cup {i[2]} \cup B
  <1>1. /\ \A e \in edges : e[1] \in Scenes
        /\ \A e \in more : e[1] \in Scenes
      BY SceneAssumption
  <1>2. /\ Children({s}, edges) \subseteq S /\ Children(S, edges) \subseteq S
        /\ Children({i[2]}, edges) \subseteq B /\ Children(B, edges) \subseteq B
      BY <1>1, BelowLaws
  <1>3. \A Y : Children(Y, more) \subseteq Children(Y, edges) \cup {i[2]}
      BY DEF Children
  <1>4. Children(X, edges) \subseteq X
    <2>1. Children(X, edges) = Children(S, edges)
              \cup Children({i[2]}, edges) \cup Children(B, edges)
        BY DEF Children
    <2> HIDE DEF S, B
    <2>2. QED
        BY <1>2, <2>1
  <1> HIDE DEF S, B
  <1>5. Children({s}, more) \subseteq X /\ Children(X, more) \subseteq X
      BY <1>2, <1>3, <1>4
  <1> HIDE DEF X, more
  <1>6. Below(s, more) \subseteq X
      BY <1>1, <1>5, BelowLaws
  <1>7. QED
      BY <1>6 DEF X, more, S, B

\* A tree that is counted as often as the scene that its root is put into or
\* taken out of: the item is counted or not, be it active or late.
LEMMA EdgeCounted ==
  ASSUME ItemsTyped, NoActiveCycle, NEW i \in Pairs,
         i[1] \notin Below(i[2], Active),
         NEW refs \in [Sources -> Int], NEW owed \in [Sources -> Int],
         NEW late, late \subseteq Pairs, Balanced(refs, owed, Active, late),
         \A l \in late : l[1] # i[2] /\ l[1] \notin Below(i[2], Active)
  PROVE  LET more == Count(refs, i[2], refs[i[1]])
             less == Count(refs, i[2], -refs[i[1]])
         IN  /\ more \in [Sources -> Int] /\ less \in [Sources -> Int]
             /\ i \notin Active => Balanced(more, owed, Active \cup {i}, late)
             /\ i \in Active => Balanced(less, owed, Active \ {i}, late)
             /\ late = {i} => Balanced(less, owed, Active, {})
  <1> DEFINE p == i[1]
             c == i[2]
             more == Count(refs, c, refs[p])
             less == Count(refs, c, -refs[p])
             less1 == Active \ {i}
  <1>1. /\ p \in Scenes /\ p \in Sources /\ c \in Sources /\ p # c
        /\ Active \subseteq Pairs /\ less1 \subseteq Pairs
        /\ Scenes \subseteq Sources
      BY SceneAssumption DEF Sources, Active, ItemsTyped
  <1>2. refs[p] \in Int /\ -refs[p] \in Int
      BY <1>1
  <1> DEFINE n == refs[p]
  <1>3. \A k : Count(refs, c, k) = [s \in Sources |-> refs[s] + k * Paths(c)[s]]
      BY PathsLaws
  <1>4. ASSUME NEW k \in Int, NEW now, now = Count(refs, c, k)
        PROVE  /\ now \in [Sources -> Int] /\ now[p] = n
               /\ \A s \in Sources :
                      now[s] = owed[s] + k * Once(s = c)
                          + OfParents(now, Active, s) + OfParents(now, late, s)
               /\ \A t \in Scenes : now[t] \in Int
    <2>1. now = [s \in Sources |-> refs[s] + k * Paths(c)[s]]
        BY <1>3, <1>4
    <2>2. \A l \in late : l[1] # c /\ l[1] \notin Below(c, Active)
        OBVIOUS
    <2>3. p \notin Below(c, Active)
        OBVIOUS
    <2> HIDE DEF p, c
    <2>4. /\ now \in [Sources -> Int]
          /\ \A s \in Sources :
                 now[s] = owed[s] + k * Once(s = c)
                     + OfParents(now, Active, s) + OfParents(now, late, s)
          /\ \A s \in Sources : s # c /\ s \notin Below(c, Active) =>
                 now[s] = refs[s]
        BY <2>1, <2>2, TreeCounted
    <2>5. QED
        BY <1>1, <2>3, <2>4
  <1>5. more \in [Sources -> Int] /\ less \in [Sources -> Int]
      BY <1>2, <1>4
  <1>6. ASSUME NEW s \in Sources, NEW now, \A t \in Scenes : now[t] \in Int
        PROVE  /\ OfParents(now, Active, s) \in Int
               /\ OfParents(now, less1, s) \in Int
               /\ OfParents(now, late, s) \in Int
               /\ OfParents(now, {}, s) = 0
               /\ OfParents(now, {i}, s) = IF c = s THEN now[p] ELSE 0
    <2>1. /\ OfParents(now, Active, s) \in Int
          /\ OfParents(now, less1, s) \in Int
          /\ OfParents(now, late, s) \in Int
        BY <1>1, <1>6, OfParentsLaws
    <2>2. OfParents(now, {}, s) = 0
      <3>1. Into({}, s) = {}
          BY DEF Into
      <3>2. QED
          BY <1>6, <3>1, OfParentsLaws
    <2>3. OfParents(now, {i}, s) = IF c = s THEN now[p] ELSE 0
      <3>1. OfParents(now, {i}, s) = OfParents(now, {}, s) + FromItem(now, i, s)
        <4>1. {} \subseteq Pairs /\ i \notin {} /\ {i} = {} \cup {i}
            OBVIOUS
        <4>2. Numbers(now)
            BY <1>6 DEF Numbers
        <4>3. QED
            BY <4>1, <4>2, OfParentsMore
      <3>2. FromItem(now, i, s) = IF i[2] = s THEN now[i[1]] ELSE 0
          BY DEF FromItem
      <3>3. now[p] \in Int
          BY <1>1, <1>6
      <3>4. QED
          BY <2>2, <3>1, <3>2, <3>3
    <2>4. QED
        BY <2>1, <2>2, <2>3
  <1>7. ASSUME i \notin Active
        PROVE  Balanced(more, owed, Active \cup {i}, late)
    <2>1. ASSUME NEW s \in Sources
          PROVE  more[s] = owed[s] + OfParents(more, Active \cup {i}, s)
                     + OfParents(more, late, s)
      <3>1. /\ more[p] = n /\ \A t \in Scenes : more[t] \in Int
            /\ more[s] = owed[s] + n * Once(s = c)
                   + OfParents(more, Active, s) + OfParents(more, late, s)
          BY <1>2, <1>4
      <3> HIDE DEF more
      <3>2. OfParents(more, Active \cup {i}, s) =
                OfParents(more, Active, s) + (IF i[2] = s THEN more[i[1]] ELSE 0)
        <4>1. Numbers(more)
            BY <3>1 DEF Numbers
        <4>2. OfParents(more, Active \cup {i}, s) =
                  OfParents(more, Active, s) + FromItem(more, i, s)
            BY <1>1, <1>7, <4>1, OfParentsMore
        <4>3. QED
            BY <4>2, Zenon DEF FromItem
      <3>3. OfParents(more, Active, s) \in Int /\ OfParents(more, late, s) \in Int
          BY <1>6, <3>1
      <3> DEFINE a == OfParents(more, Active, s)
                 b == OfParents(more, Active \cup {i}, s)
                 l == OfParents(more, late, s)
                 o == owed[s]
      <3>4. CASE s = c
        <4>1. n * Once(s = c) = n
            BY <1>2, <3>4 DEF Once
        <4>2. b = a + n
            BY <3>1, <3>2, <3>4
        <4>3. o \in Int
            OBVIOUS
        <4> HIDE DEF a, b, l, o
        <4>4. more[s] = o + n + a + l
            BY <3>1, <4>1 DEF o, a, l
        <4>5. n \in Int /\ a \in Int /\ l \in Int
            BY <1>2, <3>3 DEF a, l
        <4> HIDE DEF n
        <4>6. more[s] = o + b + l
            BY <4>2, <4>3, <4>4, <4>5
        <4>7. QED
            BY <4>6 DEF o, b, l
      <3>5. CASE s # c
        <4>1. n * Once(s = c) = 0
            BY <1>2, <3>5 DEF Once
        <4>2. b = a
            BY <3>2, <3>3, <3>5
        <4>3. o \in Int
            OBVIOUS
        <4> HIDE DEF a, b, l, o
        <4>4. more[s] = o + 0 + a + l
            BY <3>1, <4>1 DEF o, a, l
        <4>5. a \in Int /\ l \in Int
            BY <3>3 DEF a, l
        <4>6. more[s] = o + b + l
            BY <4>2, <4>3, <4>4, <4>5
        <4>7. QED
            BY <4>6 DEF o, b, l
      <3>6. QED
          BY <3>4, <3>5
    <2>2. QED
        BY <2>1 DEF Balanced
  <1>8. ASSUME NEW s \in Sources
        PROVE  /\ \A t \in Scenes : less[t] \in Int
               /\ less[p] = n
               /\ s = c => less[s] = owed[s] + (-n)
                      + OfParents(less, Active, s) + OfParents(less, late, s)
               /\ s # c => less[s] = owed[s] + 0
                      + OfParents(less, Active, s) + OfParents(less, late, s)
    <2>1. /\ less[p] = n /\ \A t \in Scenes : less[t] \in Int
          /\ less[s] = owed[s] + (-n) * Once(s = c)
                 + OfParents(less, Active, s) + OfParents(less, late, s)
        BY <1>2, <1>4
    <2>2. s = c => (-n) * Once(s = c) = -n
        BY <1>2 DEF Once
    <2>3. s # c => (-n) * Once(s = c) = 0
        BY <1>2 DEF Once
    <2> HIDE DEF less, n, c, p
    <2>4. QED
        BY <2>1, <2>2, <2>3
  <1>9. ASSUME i \in Active PROVE Balanced(less, owed, less1, late)
    <2>1. ASSUME NEW s \in Sources
          PROVE  less[s] = owed[s] + OfParents(less, less1, s)
                     + OfParents(less, late, s)
      <3> DEFINE a == OfParents(less, Active, s)
                 b == OfParents(less, less1, s)
                 l == OfParents(less, late, s)
                 o == owed[s]
      <3> HIDE DEF less
      <3>1. less1 \cup {i} = Active /\ i \notin less1
          BY <1>9
      <3>2. a = b + (IF i[2] = s THEN less[i[1]] ELSE 0)
        <4>1. Numbers(less)
            BY <1>8 DEF Numbers
        <4>2. a = b + FromItem(less, i, s)
            BY <1>1, <3>1, <4>1, OfParentsMore
        <4>3. QED
            BY <4>2, Zenon DEF FromItem
      <3>3. a \in Int /\ b \in Int /\ l \in Int /\ o \in Int
          BY <1>6, <1>8
      <3>4. /\ s = c => a = b + n /\ less[s] = o + (-n) + a + l
            /\ s # c => a = b + 0 /\ less[s] = o + 0 + a + l
          BY <1>8, <3>2
      <3>5. n \in Int
          BY <1>2
      <3> HIDE DEF a, b, l, o, n, c
      <3>6. less[s] = o + b + l
          BY <3>3, <3>4, <3>5
      <3>7. QED
          BY <3>6 DEF o, b, l
    <2>2. QED
        BY <2>1 DEF Balanced
  <1>10. ASSUME late = {i} PROVE Balanced(less, owed, Active, {})
    <2>1. ASSUME NEW s \in Sources
          PROVE  less[s] = owed[s] + OfParents(less, Active, s)
                     + OfParents(less, {}, s)
      <3> DEFINE a == OfParents(less, Active, s)
                 z == OfParents(less, {}, s)
                 l == OfParents(less, late, s)
                 o == owed[s]
      <3> HIDE DEF less
      <3>1. /\ z = 0 /\ l = IF c = s THEN less[p] ELSE 0
          BY <1>6, <1>8, <1>10
      <3>2. a \in Int /\ l \in Int /\ o \in Int
          BY <1>6, <1>8
      <3>3. /\ s = c => l = n /\ less[s] = o + (-n) + a + l
            /\ s # c => l = 0 /\ less[s] = o + 0 + a + l
          BY <1>8, <3>1
      <3>4. n \in Int
          BY <1>2
      <3> HIDE DEF a, z, l, o, n, c
      <3>5. less[s] = o + a + z
          BY <3>1, <3>2, <3>3, <3>4
      <3>6. QED
          BY <3>5 DEF o, a, z
    <2>2. QED
        BY <2>1 DEF Balanced
  <1>11. QED
      BY <1>5, <1>7, <1>9, <1>10

-----------------------------------------------------------------------------
(* Counts: every step keeps the balance                                     *)

\* What a parent passes on is what it has.
LEMMA ShownIsHad ==
  ASSUME SceneInv, HiderCounts, CountsInv, ~Walking,
         calls = <<>> \/ audio.at # "idle", NEW p \in Sources
  PROVE  /\ Shown(p) = show_refs[p] /\ ShownMain(p) = activate_refs[p]
         /\ show_refs[p] \in Int /\ 0 <= show_refs[p]
         /\ activate_refs[p] \in Int /\ 0 <= activate_refs[p]
  <1> DEFINE x == show_refs[p]
             y == activate_refs[p]
  <1>1. "show" \in Kinds /\ "activate" \in Kinds
      BY DEF Kinds
  <1>2. RefsOf("show") = show_refs /\ RefsOf("activate") = activate_refs
      BY DEF RefsOf
  <1>3. /\ show_refs \in [Sources -> Int] /\ activate_refs \in [Sources -> Int]
        /\ 0 <= x /\ 0 <= y /\ y <= x
      BY <1>1, <1>2, CountsOrdered
  <1>4. x \in Int /\ y \in Int
      BY <1>3
  <1> HIDE DEF x, y
  <1>5. Max({0, x}) = x /\ Max({0, y}) = y /\ Min({x, y}) = y
    <2>1. 0 \in Int
        OBVIOUS
    <2>2. /\ 0 <= x => Max({0, x}) = x
          /\ 0 <= y => Max({0, y}) = y
          /\ y <= x => Min({x, y}) = y
        BY <1>4, <2>1, MaxMinOfTwo
    <2>3. QED
        BY <1>3, <2>2
  <1>6. QED
      BY <1>3, <1>4, <1>5 DEF Shown, ShownMain, x, y

\* What may be added to a parent is counted as often as the parent is.
LEMMA EdgeAdded ==
  ASSUME SceneInv, HiderCounts, CountsInv, calls = <<>>,
         NEW i \in Pairs, i \notin Active, MayAdd(i[1], i[2]),
         AddActiveChild(i[1], i[2]), Active' = Active \cup {i},
         UNCHANGED <<views, calls, audio>>
  PROVE  CountsInv'
  <1>1. /\ ItemsTyped /\ NoActiveCycle /\ ~Walking /\ i[1] \in Sources
        /\ Active \subseteq Pairs /\ Late \subseteq Pairs
      BY NoCallsOwed, LateCloses, SceneAssumption
         DEF SceneInv, CountsInv, Sources, Active, ItemsTyped
  <1>2. i[1] \notin Below(i[2], Active)
      BY <1>1, AddedApart
  <1>3. \A l \in Late : l[1] # i[2] /\ l[1] \notin Below(i[2], Active)
      BY <1>1, NotLocked DEF AddActiveChild
  <1>4. /\ show_refs' = Count(show_refs, i[2], show_refs[i[1]])
        /\ activate_refs' = Count(activate_refs, i[2], activate_refs[i[1]])
      BY <1>1, ShownIsHad DEF AddActiveChild
  <1>5. ASSUME NEW kind \in Kinds
        PROVE  /\ RefsOf(kind)' \in [Sources -> Int]
               /\ Balanced(RefsOf(kind)', Owed(kind), Active', Late)
    <2> DEFINE f == RefsOf(kind)
               o == Owed(kind)
    <2>1. f \in [Sources -> Int] /\ Balanced(f, o, Active, Late)
        BY <1>1, CountsOrdered
    <2>2. o \in [Sources -> Int]
        BY OwedLaws DEF CountsInv
    <2>3. RefsOf(kind)' = Count(f, i[2], f[i[1]])
        BY <1>4 DEF RefsOf
    <2> HIDE DEF f, o
    <2>4. /\ Count(f, i[2], f[i[1]]) \in [Sources -> Int]
          /\ Balanced(Count(f, i[2], f[i[1]]), o, Active \cup {i}, Late)
        BY <1>1, <1>2, <1>3, <2>1, <2>2, EdgeCounted
    <2>5. QED
        BY <2>3, <2>4 DEF o
  <1>6. show_refs' \in [Sources -> Int] /\ activate_refs' \in [Sources -> Int]
    <2>1. "show" \in Kinds /\ "activate" \in Kinds
        BY DEF Kinds
    <2>2. /\ RefsOf("show")' = show_refs'
          /\ RefsOf("activate")' = activate_refs'
        BY DEF RefsOf
    <2>3. QED
        BY <1>5, <2>1, <2>2
  <1>7. Late' = Late
      BY DEF Late
  <1>8. HiderApart'
    <2>1. ASSUME NEW l \in Late PROVE l[1] \notin Below(l[2], Active \cup {i})
      <3>1. l[1] \notin Below(l[2], Active)
          BY DEF CountsInv, HiderApart
      <3>2. QED
          BY <1>1, <1>3, <3>1, BelowOneMore
    <2>2. QED
        BY <1>7, <2>1 DEF HiderApart
  <1>9. QED
      BY <1>1, <1>5, <1>6, <1>7, <1>8, CountsKept

\* Of what is no longer counted no more is taken away than there is.
LEMMA TakenAway ==
  ASSUME SceneInv, HiderCounts, CountsInv, ~Walking,
         calls = <<>> \/ audio.at # "idle", NEW i \in Active \cup Late,
         RemoveActiveChild(i[1], i[2])
  PROVE  /\ show_refs' = Count(show_refs, i[2], -show_refs[i[1]])
         /\ activate_refs' = Count(activate_refs, i[2], -activate_refs[i[1]])
  <1> DEFINE p == i[1]
             c == i[2]
  <1>1. p \in Sources /\ c \in Sources
      BY PassedOn
  <1>2. /\ Shown(p) = show_refs[p] /\ ShownMain(p) = activate_refs[p]
        /\ show_refs[p] \in Int /\ activate_refs[p] \in Int
        /\ show_refs[c] \in Int /\ 0 <= show_refs[c]
        /\ activate_refs[c] \in Int /\ 0 <= activate_refs[c]
      BY <1>1, ShownIsHad
  <1>3. show_refs[p] <= show_refs[c] /\ activate_refs[p] <= activate_refs[c]
    <2>1. "show" \in Kinds /\ "activate" \in Kinds
        BY DEF Kinds
    <2>2. RefsOf("show") = show_refs /\ RefsOf("activate") = activate_refs
        BY DEF RefsOf
    <2>3. QED
        BY <2>1, <2>2, PassedOn
  <1>4. ASSUME NEW x \in Int, NEW y \in Int, 0 <= y, x <= y
        PROVE  Min({x, Max({0, y})}) = x
    <2>1. 0 \in Int
        OBVIOUS
    <2>2. 0 <= y => Max({0, y}) = y
        BY <2>1, MaxMinOfTwo
    <2>3. x <= y => Min({x, y}) = x
        BY MaxMinOfTwo
    <2>4. QED
        BY <1>4, <2>2, <2>3
  <1> HIDE DEF p, c
  <1>5. /\ Min({show_refs[p], Max({0, show_refs[c]})}) = show_refs[p]
        /\ Min({activate_refs[p], Max({0, activate_refs[c]})}) =
               activate_refs[p]
      BY <1>2, <1>3, <1>4
  <1>6. RemoveActiveChild(p, c)
      BY DEF p, c
  <1>7. /\ show_refs' = Count(show_refs, c, -show_refs[p])
        /\ activate_refs' = Count(activate_refs, c, -activate_refs[p])
      BY <1>2, <1>5, <1>6 DEF RemoveActiveChild
  <1>8. QED
      BY <1>7 DEF p, c

\* What is taken out of its parent is counted less as often as the parent is.
LEMMA EdgeRemoved ==
  ASSUME SceneInv, HiderCounts, CountsInv, calls = <<>>, NEW i \in Active,
         RemoveActiveChild(i[1], i[2]), Active' = Active \ {i},
         UNCHANGED <<views, calls, audio>>
  PROVE  CountsInv'
  <1>1. /\ ItemsTyped /\ NoActiveCycle /\ ~Walking /\ i \in Pairs
        /\ Active \subseteq Pairs /\ Late \subseteq Pairs
        /\ i[1] \notin Below(i[2], Active)
      BY NoCallsOwed, LateCloses, ActiveApart
         DEF SceneInv, CountsInv, Active, ItemsTyped
  <1>2. \A l \in Late : l[1] # i[2] /\ l[1] \notin Below(i[2], Active)
      BY <1>1, NotLocked DEF RemoveActiveChild
  <1>3. /\ show_refs' = Count(show_refs, i[2], -show_refs[i[1]])
        /\ activate_refs' = Count(activate_refs, i[2], -activate_refs[i[1]])
      BY <1>1, TakenAway
  <1>4. ASSUME NEW kind \in Kinds
        PROVE  /\ RefsOf(kind)' \in [Sources -> Int]
               /\ Balanced(RefsOf(kind)', Owed(kind), Active', Late)
    <2> DEFINE f == RefsOf(kind)
               o == Owed(kind)
    <2>1. f \in [Sources -> Int] /\ Balanced(f, o, Active, Late)
        BY <1>1, CountsOrdered
    <2>2. o \in [Sources -> Int]
        BY OwedLaws DEF CountsInv
    <2>3. RefsOf(kind)' = Count(f, i[2], -f[i[1]])
        BY <1>3 DEF RefsOf
    <2> HIDE DEF f, o
    <2>4. /\ Count(f, i[2], -f[i[1]]) \in [Sources -> Int]
          /\ Balanced(Count(f, i[2], -f[i[1]]), o, Active \ {i}, Late)
        BY <1>1, <1>2, <2>1, <2>2, EdgeCounted
    <2>5. QED
        BY <2>3, <2>4 DEF o
  <1>5. show_refs' \in [Sources -> Int] /\ activate_refs' \in [Sources -> Int]
    <2>1. "show" \in Kinds /\ "activate" \in Kinds
        BY DEF Kinds
    <2>2. /\ RefsOf("show")' = show_refs'
          /\ RefsOf("activate")' = activate_refs'
        BY DEF RefsOf
    <2>3. QED
        BY <1>4, <2>1, <2>2
  <1>6. Late' = Late
      BY DEF Late
  <1>7. HiderApart'
    <2>1. ASSUME NEW l \in Late PROVE l[1] \notin Below(l[2], Active \ {i})
      <3>1. l[1] \notin Below(l[2], Active)
          BY DEF CountsInv, HiderApart
      <3>2. Below(l[2], Active \ {i}) \subseteq Below(l[2], Active)
          BY <1>1, BelowMonotone
      <3>3. QED
          BY <3>1, <3>2
    <2>2. QED
        BY <1>6, <2>1 DEF HiderApart
  <1>8. QED
      BY <1>1, <1>4, <1>5, <1>6, <1>7, CountsKept

\* An item that is no longer active is late: nothing else changes.
LEMMA EdgeLate ==
  ASSUME ItemsTyped, NEW i \in Active,
         NEW f \in [Sources -> Int], NEW o \in [Sources -> Int],
         Balanced(f, o, Active, {})
  PROVE  Balanced(f, o, Active \ {i}, {i})
  <1> DEFINE less == Active \ {i}
  <1>1. /\ Active \subseteq Pairs /\ less \subseteq Pairs /\ i \in Pairs
        /\ Active = less \cup {i} /\ i \notin less
        /\ {} \subseteq Pairs /\ i \notin {} /\ {i} = {} \cup {i}
      BY DEF Active, ItemsTyped
  <1>2. Numbers(f) /\ \A t \in Scenes : f[t] \in Int
      BY DEF Numbers, Sources
  <1> HIDE DEF less
  <1>3. ASSUME NEW s \in Sources
        PROVE  f[s] = o[s] + OfParents(f, less, s) + OfParents(f, {i}, s)
    <2> DEFINE a == OfParents(f, Active, s)
               z == OfParents(f, {}, s)
               b == OfParents(f, less, s)
               l == OfParents(f, {i}, s)
               n == FromItem(f, i, s)
    <2>1. a = b + n /\ l = z + n
        BY <1>1, <1>2, OfParentsMore
    <2>2. a \in Int /\ z \in Int /\ b \in Int /\ l \in Int
        BY <1>1, <1>2, OfParentsLaws
    <2>3. n \in Int
        BY <1>2, <1>1, SceneAssumption DEF FromItem
    <2>4. f[s] = o[s] + a + z /\ o[s] \in Int
        BY DEF Balanced
    <2> HIDE DEF a, z, b, l, n
    <2>5. f[s] = o[s] + b + l
        BY <2>1, <2>2, <2>3, <2>4
    <2>6. QED
        BY <2>5 DEF b, l
  <1>4. QED
      BY <1>3 DEF Balanced, less

\* The audio thread uncounts an item once.
LEMMA DerefBalances ==
  ASSUME SceneInv, ActionsInv, CountsInv, Deref
  PROVE  CountsInv'
  <1> DEFINE i == audio.item
             left == items[i].active_refs - 1
  <1>1. /\ audio.at = "deref" /\ i \in DOMAIN items
        /\ items' = [items EXCEPT ![i] = [@ EXCEPT !.active_refs = left]]
        /\ UNCHANGED <<views, show_refs, activate_refs, calls>>
        /\ left # 0 => Late' = {}
        /\ left = 0 => Late' = {i}
        /\ Late = {}
    <2>1. /\ audio.at = "deref" /\ i \in DOMAIN items
          /\ items' = [items EXCEPT ![i] = [@ EXCEPT !.active_refs = left]]
          /\ UNCHANGED <<views, show_refs, activate_refs, calls>>
        BY DEF Deref, shownVars
    <2>2. audio' = IF left # 0 /\ audio.count = 1 THEN NoItem
                   ELSE [audio EXCEPT
                            !.at = IF left = 0 THEN "remove" ELSE "deref",
                            !.count = @ - 1]
        BY DEF Deref
    <2>3. audio = [at |-> audio.at, item |-> audio.item, count |-> audio.count]
        BY DEF SceneInv, HiderTyped
    <2> HIDE DEF left
    <2>4. /\ left # 0 => audio'.at # "remove"
          /\ left = 0 => audio'.at = "remove" /\ audio'.item = audio.item
        BY <2>2, <2>3 DEF NoItem
    <2>5. QED
        BY <2>1, <2>4 DEF Late
  <1>2. items[i].active_refs > 0
      BY DerefMatches
  <1>3. /\ ItemsTyped /\ NoActiveCycle /\ HiderCounts
        /\ ~Walking /\ audio.at # "idle" /\ i \in Active
      BY <1>1, <1>2
         DEF SceneInv, ActionsInv, CountsInv, CallsTyped, Active
  <1>4. items[i].active_refs \in Int /\ left >= 0
      BY <1>1, <1>2, <1>3 DEF ItemsTyped, ItemTyped
  <1>5. /\ DOMAIN items' = DOMAIN items
        /\ items'[i].active_refs = left
        /\ \A j \in DOMAIN items \ {i} : items'[j] = items[j]
    <2>1. items[i] = [active_refs |-> items[i].active_refs,
                      visible |-> items[i].visible,
                      user_visible |-> items[i].user_visible,
                      actions |-> items[i].actions]
        BY <1>1, <1>3 DEF ItemsTyped, ItemTyped
    <2>2. [items[i] EXCEPT !.active_refs = left].active_refs = left
      <3> HIDE DEF left, i
      <3>1. QED
          BY <2>1
    <2>3. items = [j \in DOMAIN items |-> items[j]]
        BY <1>3 DEF ItemsTyped
    <2>4. items'[i] = [items[i] EXCEPT !.active_refs = left]
        BY <1>1, <2>3
    <2>5. QED
        BY <1>1, <2>2, <2>3, <2>4
  <1>6. Active' = IF left = 0 THEN Active \ {i} ELSE Active
    <2>1. i \in DOMAIN items /\ i \in Active
        BY <1>1, <1>3
    <2> HIDE DEF left, i
    <2>2. /\ Active' = {j \in DOMAIN items' : items'[j].active_refs > 0}
          /\ Active = {j \in DOMAIN items : items[j].active_refs > 0}
        BY DEF Active
    <2>3. \A j : j # i => (j \in Active' <=> j \in Active)
        BY <1>5, <2>1, <2>2
    <2>4. i \in Active' <=> left > 0
        BY <1>5, <2>1, <2>2
    <2>5. left \in Int
        BY <1>4 DEF left
    <2>6. QED
        BY <1>4, <2>1, <2>3, <2>4, <2>5
  <1>7. ASSUME NEW kind \in Kinds
        PROVE  Balanced(RefsOf(kind)', Owed(kind), Active', Late')
    <2> DEFINE f == RefsOf(kind)
               o == Owed(kind)
    <2>1. f \in [Sources -> Int] /\ Balanced(f, o, Active, {})
        BY <1>1, <1>3, CountsOrdered
    <2>2. o \in [Sources -> Int]
        BY OwedLaws DEF CountsInv
    <2>3. RefsOf(kind)' = f
        BY <1>1 DEF RefsOf
    <2> HIDE DEF f, o
    <2>4. Balanced(f, o, Active \ {i}, {i})
        BY <1>3, <2>1, <2>2, EdgeLate
    <2>5. CASE left = 0
        BY <1>1, <1>6, <2>3, <2>4, <2>5 DEF o
    <2>6. CASE left # 0
        BY <1>1, <1>6, <2>1, <2>3, <2>6 DEF o
    <2>7. QED
        BY <2>5, <2>6
  <1>8. HiderApart'
    <2>1. CASE left # 0
        BY <1>1, <2>1 DEF HiderApart
    <2>2. CASE left = 0
      <3>1. i[1] \notin Below(i[2], Active)
          BY <1>3, ActiveApart
      <3>2. Below(i[2], Active \ {i}) \subseteq Below(i[2], Active)
          BY <1>3, BelowMonotone DEF Active, ItemsTyped
      <3>3. i[1] \notin Below(i[2], Active \ {i})
          BY <3>1, <3>2
      <3>4. Active' = Active \ {i} /\ Late' = {i}
          BY <1>1, <1>6, <2>2
      <3> HIDE DEF i
      <3>5. \A l \in Late' : l[1] \notin Below(l[2], Active')
          BY <3>3, <3>4
      <3>6. QED
          BY <3>5 DEF HiderApart
    <2>3. QED
        BY <2>1, <2>2
  <1>9. show_refs' \in [Sources -> Int] /\ activate_refs' \in [Sources -> Int]
      BY <1>1 DEF CountsInv, CountsTyped
  <1>10. UNCHANGED <<views, calls>>
      BY <1>1
  <1> HIDE DEF i, left
  <1>11. QED
      BY <1>3, <1>7, <1>8, <1>9, <1>10, CountsKept

\* The source of an item that is no longer active is counted less.
LEMMA RemoveHiddenBalances ==
  ASSUME SceneInv, HiderCounts, CountsInv, RemoveHidden
  PROVE  CountsInv'
  <1> DEFINE i == audio.item
  <1>1. /\ audio.at = "remove" /\ Late = {i} /\ i \in Pairs
        /\ RemoveActiveChild(i[1], i[2])
        /\ UNCHANGED <<views, items, calls>>
      BY DEF RemoveHidden, Late, HiderCounts
  <1>2. Late' = {}
    <2>1. audio = [at |-> audio.at, item |-> audio.item, count |-> audio.count]
        BY DEF SceneInv, HiderTyped
    <2>2. audio'.at # "remove"
        BY <2>1 DEF RemoveHidden, NoItem
    <2>3. QED
        BY <2>2 DEF Late
  <1>3. /\ ItemsTyped /\ NoActiveCycle /\ ~Walking /\ audio.at # "idle"
        /\ Active \subseteq Pairs /\ Active' = Active
        /\ i[1] \notin Below(i[2], Active) /\ i[1] # i[2]
      BY <1>1, SceneAssumption
         DEF SceneInv, CountsInv, CallsTyped, HiderApart, Active, ItemsTyped
  <1>4. /\ show_refs' = Count(show_refs, i[2], -show_refs[i[1]])
        /\ activate_refs' = Count(activate_refs, i[2], -activate_refs[i[1]])
      BY <1>1, <1>3, TakenAway
  <1>5. ASSUME NEW kind \in Kinds
        PROVE  /\ RefsOf(kind)' \in [Sources -> Int]
               /\ Balanced(RefsOf(kind)', Owed(kind), Active', Late')
    <2> DEFINE f == RefsOf(kind)
               o == Owed(kind)
    <2>1. f \in [Sources -> Int] /\ Balanced(f, o, Active, Late)
        BY <1>3, CountsOrdered
    <2>2. o \in [Sources -> Int]
        BY OwedLaws DEF CountsInv
    <2>3. RefsOf(kind)' = Count(f, i[2], -f[i[1]])
        BY <1>4 DEF RefsOf
    <2>4. Late \subseteq Pairs /\ \A l \in Late : l = i
        BY <1>1
    <2> HIDE DEF f, o, i
    <2>5. /\ Count(f, i[2], -f[i[1]]) \in [Sources -> Int]
          /\ Late = {i} => Balanced(Count(f, i[2], -f[i[1]]), o, Active, {})
        BY <1>1, <1>3, <2>1, <2>2, <2>4, EdgeCounted
    <2>6. QED
        BY <1>1, <1>2, <1>3, <2>3, <2>5 DEF o
  <1>6. show_refs' \in [Sources -> Int] /\ activate_refs' \in [Sources -> Int]
    <2>1. "show" \in Kinds /\ "activate" \in Kinds
        BY DEF Kinds
    <2>2. /\ RefsOf("show")' = show_refs'
          /\ RefsOf("activate")' = activate_refs'
        BY DEF RefsOf
    <2>3. QED
        BY <1>5, <2>1, <2>2
  <1>7. HiderApart'
      BY <1>2 DEF HiderApart
  <1>8. UNCHANGED <<views, calls>>
      BY <1>1
  <1> HIDE DEF i
  <1>9. QED
      BY <1>3, <1>5, <1>6, <1>7, <1>8, CountsKept

\* Actions are applied while no view changes; no item becomes active by it.
LEMMA ApplyBalances ==
  ASSUME "gap" \notin SceneRaces, SceneInv, CountsInv,
         NEW i, NEW n, ApplyActions(i, n)
  PROVE  CountsInv'
  <1>1. /\ calls = <<>> /\ audio.at = "idle" /\ i \in DOMAIN items
        /\ items' = [items EXCEPT
                        ![i].visible = SubSeq(items[i].actions, 1, n)[n],
                        ![i].actions = SubSeq(@, n + 1, Len(@))]
        /\ UNCHANGED <<views, show_refs, activate_refs, calls>>
        /\ audio'.at # "remove"
      BY DEF ApplyActions, shownVars, NoItem
  <1>2. Late = {} /\ Late' = {}
      BY <1>1 DEF Late
  <1>3. Active' = Active
    <2>1. /\ DOMAIN items' = DOMAIN items
          /\ \A j \in DOMAIN items :
                 items'[j].active_refs = items[j].active_refs
      <3>1. items = [j \in DOMAIN items |-> items[j]]
          BY DEF SceneInv, ItemsTyped
      <3>2. items[i] = [active_refs |-> items[i].active_refs,
                        visible |-> items[i].visible,
                        user_visible |-> items[i].user_visible,
                        actions |-> items[i].actions]
          BY <1>1 DEF SceneInv, ItemsTyped, ItemTyped
      <3> DEFINE shown == SubSeq(items[i].actions, 1, n)[n]
                 after == SubSeq(items[i].actions, n + 1, Len(items[i].actions))
                 item == [items[i] EXCEPT !.visible = shown, !.actions = after]
      <3>3. items' = [items EXCEPT ![i] = item]
          BY <1>1, <3>1, <3>2
      <3>4. item.active_refs = items[i].active_refs
        <4> HIDE DEF shown, after
        <4>1. QED
            BY <3>2
      <3> HIDE DEF item
      <3>5. QED
          BY <1>1, <3>1, <3>3, <3>4
    <2>2. QED
        BY <2>1 DEF Active
  <1>4. ~Walking
      BY <1>1, NoCallsOwed
  <1>5. \A kind \in Kinds : Balanced(RefsOf(kind)', Owed(kind), Active', Late')
    <2>1. ASSUME NEW kind \in Kinds
          PROVE  Balanced(RefsOf(kind), Owed(kind), Active, Late)
        BY <1>4, Zenon DEF CountsInv, CountsBalance, Whole
    <2>2. \A kind \in Kinds : RefsOf(kind)' = RefsOf(kind)
        BY <1>1 DEF RefsOf
    <2>3. QED
        BY <1>2, <1>3, <2>1, <2>2
  <1>6. HiderApart'
      BY <1>2 DEF HiderApart
  <1>7. show_refs' \in [Sources -> Int] /\ activate_refs' \in [Sources -> Int]
      BY <1>1 DEF CountsInv, CountsTyped
  <1>8. UNCHANGED <<views, calls>>
      BY <1>1
  <1>9. QED
      BY <1>1, <1>4, <1>5, <1>6, <1>7, <1>8, CountsKept

\* An item that is shown no longer is uncounted if it was counted.
LEMMA UncountBalances ==
  ASSUME SceneInv, HiderCounts, CountsInv, calls = <<>>,
         NEW i \in DOMAIN items, Uncount(i), Active' = Active \ {i},
         UNCHANGED <<views, calls, audio>>
  PROVE  CountsInv'
  <1>1. CASE items[i].active_refs > 0
    <2>1. i \in Active
        BY <1>1 DEF Active
    <2>2. RemoveActiveChild(i[1], i[2])
        BY <1>1 DEF Uncount
    <2>3. QED
        BY <2>1, <2>2, EdgeRemoved
  <1>2. CASE ~(items[i].active_refs > 0)
    <2>1. i \notin Active
        BY <1>2 DEF Active
    <2>2. Active' = Active /\ UNCHANGED shownVars /\ ~Walking
        BY <1>2, <2>1, NoCallsOwed DEF Uncount
    <2>3. QED
        BY <2>2, CountsSame
  <1>3. QED
      BY <1>1, <1>2

\* set_visibility(false), detach_sceneitem
LEMMA DetachBalances ==
  ASSUME SceneInv, HiderCounts, CountsInv, calls = <<>>,
         NEW i \in DOMAIN items, Detach(i), UNCHANGED <<views, calls, audio>>
  PROVE  CountsInv'
  <1>1. items' = [j \in DOMAIN items \ {i} |-> items[j]] /\ Uncount(i)
      BY DEF Detach
  <1>2. Active' = Active \ {i}
    <2>1. /\ Active' = {j \in DOMAIN items' : items'[j].active_refs > 0}
          /\ Active = {j \in DOMAIN items : items[j].active_refs > 0}
        BY DEF Active
    <2>2. /\ DOMAIN items' = DOMAIN items \ {i}
          /\ \A j \in DOMAIN items \ {i} : items'[j] = items[j]
        BY <1>1
    <2>3. QED
        BY <2>1, <2>2
  <1>3. QED
      BY <1>1, <1>2, UncountBalances

\* One item is changed, so that it is active or not.
LEMMA ActiveChanged ==
  ASSUME ItemsTyped, NEW i \in DOMAIN items, NEW item,
         items' = [items EXCEPT ![i] = item]
  PROVE  Active' = IF item.active_refs > 0 THEN Active \cup {i}
                   ELSE Active \ {i}
  <1>1. /\ Active' = {j \in DOMAIN items' : items'[j].active_refs > 0}
        /\ Active = {j \in DOMAIN items : items[j].active_refs > 0}
      BY DEF Active
  <1>2. /\ DOMAIN items' = DOMAIN items /\ items'[i] = item
        /\ \A j \in DOMAIN items \ {i} : items'[j] = items[j]
      BY DEF ItemsTyped
  <1>3. QED
      BY <1>1, <1>2

\* obs_scene_add
LEMMA AddItemBalances ==
  ASSUME SceneInv, HiderCounts, CountsInv, NEW i \in Pairs, AddItem(i)
  PROVE  CountsInv'
  <1> DEFINE item == [active_refs |-> 1, user_visible |-> TRUE,
                      visible |-> ~HasAudio(i[2]),
                      actions |-> IF HasAudio(i[2]) THEN <<TRUE>> ELSE <<>>]
  <1>1. /\ i \notin DOMAIN items /\ calls = <<>> /\ MayAdd(i[1], i[2])
        /\ AddActiveChild(i[1], i[2]) /\ UNCHANGED <<views, calls, audio>>
        /\ items' = [j \in DOMAIN items \cup {i} |->
                        IF j # i THEN items[j] ELSE item]
      BY DEF AddItem, sceneAudioVars
  <1>2. item.active_refs = 1
      OBVIOUS
  <1> HIDE DEF item
  <1>3. Active' = Active \cup {i} /\ i \notin Active
    <2>1. /\ Active' = {j \in DOMAIN items' : items'[j].active_refs > 0}
          /\ Active = {j \in DOMAIN items : items[j].active_refs > 0}
        BY DEF Active
    <2>2. /\ DOMAIN items' = DOMAIN items \cup {i}
          /\ \A j \in DOMAIN items : items'[j] = items[j]
          /\ items'[i] = item
        BY <1>1
    <2>3. QED
        BY <1>1, <1>2, <2>1, <2>2
  <1>4. QED
      BY <1>1, <1>3, EdgeAdded

\* obs_sceneitem_set_visible(true)
LEMMA ShowItemBalances ==
  ASSUME SceneInv, HiderCounts, CountsInv, NEW i \in Pairs, ShowItem(i)
  PROVE  CountsInv'
  <1> DEFINE
        refs == IF HasAudio(i[2]) THEN items[i].active_refs + 1 ELSE 1
        shown == items[i].visible \/ ~HasAudio(i[2])
        acts == IF HasAudio(i[2]) THEN Append(items[i].actions, TRUE) ELSE <<>>
        item == [items[i] EXCEPT !.active_refs = refs, !.user_visible = TRUE,
                                 !.visible = shown, !.actions = acts]
  <1>1. /\ i \in DOMAIN items /\ calls = <<>>
        /\ UNCHANGED <<views, calls, audio>>
        /\ items[i].active_refs = 0 =>
               MayAdd(i[1], i[2]) /\ AddActiveChild(i[1], i[2])
        /\ items[i].active_refs # 0 => UNCHANGED shownVars
      BY DEF ShowItem, sceneAudioVars
  <1>2. /\ ItemsTyped /\ ItemTyped(i, items[i])
        /\ items = [j \in DOMAIN items |-> items[j]]
      BY <1>1 DEF SceneInv, ItemsTyped
  <1>3. /\ items[i].active_refs \in Int
        /\ ~HasAudio(i[2]) => items[i].active_refs >= 0
      BY <1>2 DEF ItemTyped
  <1>4. items[i] = [active_refs |-> items[i].active_refs,
                    visible |-> items[i].visible,
                    user_visible |-> items[i].user_visible,
                    actions |-> items[i].actions]
      BY <1>2 DEF ItemTyped
  <1>5. items' = [items EXCEPT ![i] = item]
    <2>1. items' = [items EXCEPT
                       ![i].active_refs =
                           IF HasAudio(i[2]) THEN @ + 1 ELSE 1,
                       ![i].user_visible = TRUE,
                       ![i].visible = @ \/ ~HasAudio(i[2]),
                       ![i].actions = IF HasAudio(i[2]) THEN Append(@, TRUE)
                                                        ELSE <<>>]
        BY DEF ShowItem
    <2>2. QED
        BY <1>1, <1>2, <1>4, <2>1, Zenon
  <1>6. item.active_refs = refs
    <2> HIDE DEF refs, shown, acts
    <2>1. QED
        BY <1>4
  <1>7. refs > 0 <=> items[i].active_refs = 0 \/ items[i].active_refs > 0
      BY <1>3
  <1> HIDE DEF item, refs
  <1>8. Active' = IF refs > 0 THEN Active \cup {i} ELSE Active \ {i}
      BY <1>1, <1>2, <1>5, <1>6, ActiveChanged
  <1>9. i \in Active <=> items[i].active_refs > 0
      BY <1>1 DEF Active
  <1>10. CASE items[i].active_refs = 0
    <2>1. i \notin Active /\ Active' = Active \cup {i}
        BY <1>7, <1>8, <1>9, <1>10
    <2>2. QED
        BY <1>1, <1>10, <2>1, EdgeAdded
  <1>11. CASE items[i].active_refs # 0
    <2>1. Active' = Active
      <3>1. CASE i \in Active
          BY <1>7, <1>8, <1>9, <3>1
      <3>2. CASE i \notin Active
          BY <1>7, <1>8, <1>9, <1>11, <3>2
      <3>3. QED
          BY <3>1, <3>2
    <2>2. UNCHANGED shownVars /\ ~Walking
        BY <1>1, <1>11, NoCallsOwed
    <2>3. QED
        BY <1>1, <2>1, <2>2, CountsSame
  <1>12. QED
      BY <1>10, <1>11

\* obs_sceneitem_set_visible(false)
LEMMA HideItemBalances ==
  ASSUME SceneInv, HiderCounts, CountsInv, NEW i \in Pairs, HideItem(i)
  PROVE  CountsInv'
  <1>1. /\ i \in DOMAIN items /\ calls = <<>>
        /\ UNCHANGED <<views, calls, audio>>
      BY DEF HideItem, sceneAudioVars
  <1>2. /\ ItemsTyped /\ ItemTyped(i, items[i])
        /\ items = [j \in DOMAIN items |-> items[j]]
      BY <1>1 DEF SceneInv, ItemsTyped
  <1>3. CASE HasAudio(i[2])
    <2> DEFINE acts == Append(items[i].actions, FALSE)
               item == [items[i] EXCEPT !.user_visible = FALSE,
                                        !.actions = acts]
    <2>1. items[i] = [active_refs |-> items[i].active_refs,
                      visible |-> items[i].visible,
                      user_visible |-> items[i].user_visible,
                      actions |-> items[i].actions]
        BY <1>2 DEF ItemTyped
    <2>2. items' = [items EXCEPT ![i] = item]
      <3>1. items' = [items EXCEPT ![i].user_visible = FALSE,
                                   ![i].actions = Append(@, FALSE)]
          BY <1>3 DEF HideItem
      <3>2. QED
          BY <1>1, <1>2, <2>1, <3>1, Zenon
    <2>3. item.active_refs = items[i].active_refs
      <3> HIDE DEF acts
      <3>1. QED
          BY <2>1
    <2> HIDE DEF item
    <2>4. Active' = Active
      <3>1. Active' = IF item.active_refs > 0 THEN Active \cup {i}
                      ELSE Active \ {i}
          BY <1>1, <1>2, <2>2, ActiveChanged
      <3>2. i \in Active <=> items[i].active_refs > 0
          BY <1>1 DEF Active
      <3>3. QED
          BY <2>3, <3>1, <3>2
    <2>5. UNCHANGED shownVars /\ ~Walking
        BY <1>1, <1>3, NoCallsOwed DEF HideItem
    <2>6. QED
        BY <1>1, <2>4, <2>5, CountsSame
  <1>4. CASE ~HasAudio(i[2])
    <2> DEFINE item == [active_refs |-> 0, visible |-> FALSE,
                        user_visible |-> FALSE, actions |-> <<>>]
    <2>1. items' = [items EXCEPT ![i] = item] /\ Uncount(i)
        BY <1>4 DEF HideItem, Hide
    <2>2. item.active_refs = 0
        OBVIOUS
    <2> HIDE DEF item
    <2>3. Active' = Active \ {i}
      <3>1. Active' = IF item.active_refs > 0 THEN Active \cup {i}
                      ELSE Active \ {i}
          BY <1>1, <1>2, <2>1, ActiveChanged
      <3>2. ~(item.active_refs > 0)
          BY <2>2
      <3>3. QED
          BY <3>1, <3>2
    <2>4. QED
        BY <1>1, <2>1, <2>3, UncountBalances
  <1>5. QED
      BY <1>3, <1>4

\* obs_sceneitem_remove; scene_video_render
LEMMA RemovedBalances ==
  ASSUME "gap" \notin SceneRaces, SceneInv, HiderCounts, CountsInv,
         NEW i \in Pairs, RemoveItem(i) \/ RenderRemoves(i)
  PROVE  CountsInv'
  <1>1. /\ i \in DOMAIN items /\ calls = <<>> /\ Detach(i)
        /\ UNCHANGED <<views, calls, audio>>
      BY DEF RemoveItem, RenderRemoves, sceneAudioVars
  <1>2. QED
      BY <1>1, DetachBalances

\* What has nothing to do with the counts.
LEMMA OthersBalance ==
  ASSUME CountsInv,
         \/ \E s \in Inputs : RemoveSource(s)
         \/ BuildOrder \/ \E s \in Scenes : LeaveScene(s)
         \/ UNCHANGED sceneVars
  PROVE  CountsInv'
  <1>1. UNCHANGED <<views, shownVars, items, calls, audio>>
      BY DEF RemoveSource, BuildOrder, LeaveScene, sceneVars, sceneAudioVars
  <1>2. Active' = Active
      BY <1>1 DEF Active
  <1>3. QED
      BY <1>1, <1>2, CountsSame

\* What a call is about.
LEMMA CallLaws ==
  /\ \A kind, delta, s :
         /\ Call(kind, delta, s).refs = kind /\ Call(kind, delta, s).delta = delta
         /\ Call(kind, delta, s).source = s /\ Call(kind, delta, s).at = "count"
         /\ kind \in Kinds /\ delta \in {-1, 1} /\ s \in Scenes =>
                Call(kind, delta, s) \in CallType
  /\ \A c \in CallType :
         /\ c.refs \in Kinds /\ c.delta \in {-1, 1} /\ c.source \in Scenes
         /\ c.at = "count" => c = Call(c.refs, c.delta, c.source)
  BY DEF Call, CallType

\* What is to be counted is counted as far as its source: the first call is then
\* at its walk.
LEMMA CallWalks ==
  ASSUME CallsTyped, calls # <<>>, Head(calls).at = "count", UNCHANGED views,
         audio'.at = "idle",
         calls' = [calls EXCEPT ![1].at = "walk"]
  PROVE  /\ CallsTyped' /\ Walking'
         /\ Head(calls') = [Head(calls) EXCEPT !.at = "walk"]
         /\ \A kind, delta, s :
                ToCount(kind, delta, s)' <=>
                    /\ ToCount(kind, delta, s)
                    /\ \/ kind # Head(calls).refs \/ delta # Head(calls).delta
                       \/ s # Head(calls).source
  <1> DEFINE call == calls[1]
             walk == [call EXCEPT !.at = "walk"]
  <1>1. /\ calls \in Seq(CallType) /\ 1 \in DOMAIN calls
        /\ Head(calls) = call /\ call \in CallType /\ call.at = "count"
      BY DEF CallsTyped
  <1>2. /\ calls' \in Seq(CallType) /\ DOMAIN calls' = DOMAIN calls
        /\ calls'[1] = walk /\ Head(calls') = walk /\ calls' # <<>>
        /\ \A k \in DOMAIN calls : k # 1 => calls'[k] = calls[k]
    <2>1. walk \in CallType
        BY <1>1 DEF CallType
    <2>2. calls' = [calls EXCEPT ![1] = walk]
        OBVIOUS
    <2> HIDE DEF walk
    <2>3. QED
        BY <1>1, <2>1, <2>2
  <1>3. /\ walk.refs = call.refs /\ walk.delta = call.delta
        /\ walk.source = call.source /\ walk.at = "walk"
      BY <1>1 DEF CallType
  <1>4. call = Call(call.refs, call.delta, call.source)
      BY <1>1, CallLaws
  <1> HIDE DEF walk, call
  <1>5. Walking'
      BY <1>2, <1>3 DEF Walking
  <1>6. \A k \in DOMAIN calls : /\ calls'[k].refs = calls[k].refs
                                /\ calls'[k].delta = calls[k].delta
                                /\ calls'[k].source = calls[k].source
      BY <1>2, <1>3 DEF call
  <1>7. \A j, k \in DOMAIN calls :
            j # k => \/ calls[j].refs # calls[k].refs
                     \/ calls[j].delta # calls[k].delta
                     \/ calls[j].source # calls[k].source
      BY DEF CallsTyped
  <1>8. ASSUME NEW kind, NEW delta, NEW s
        PROVE  ToCount(kind, delta, s)' <=>
                   /\ ToCount(kind, delta, s)
                   /\ kind # call.refs \/ delta # call.delta \/ s # call.source
    <2> DEFINE c == Call(kind, delta, s)
    <2>1. c.refs = kind /\ c.delta = delta /\ c.source = s /\ c.at = "count"
        BY CallLaws
    <2>2. /\ ToCount(kind, delta, s) <=> \E k \in DOMAIN calls : calls[k] = c
          /\ ToCount(kind, delta, s)' <=> \E k \in DOMAIN calls' : calls'[k] = c
        BY DEF ToCount, Call
    <2> HIDE DEF c
    <2>3. ASSUME ToCount(kind, delta, s)'
          PROVE  /\ ToCount(kind, delta, s)
                 /\ kind # call.refs \/ delta # call.delta \/ s # call.source
      <3>1. PICK k \in DOMAIN calls : calls'[k] = c
          BY <1>2, <2>2, <2>3
      <3>2. k # 1 /\ calls[k] = c
          BY <1>2, <1>3, <2>1, <3>1
      <3>3. QED
          BY <1>1, <1>7, <2>1, <2>2, <3>2 DEF call
    <2>4. ASSUME ToCount(kind, delta, s),
                 kind # call.refs \/ delta # call.delta \/ s # call.source
          PROVE  ToCount(kind, delta, s)'
      <3>1. PICK k \in DOMAIN calls : calls[k] = c
          BY <2>2, <2>4
      <3>2. k # 1
          BY <2>1, <2>4, <3>1 DEF call
      <3>3. QED
          BY <1>2, <2>2, <3>1, <3>2
    <2>5. QED
        BY <2>3, <2>4
  <1>9. CallsTyped'
    <2>1. \A k \in DOMAIN calls' : k > 1 => calls'[k].at = "count"
      <3>1. \A k \in DOMAIN calls : k > 1 => calls[k].at = "count"
          BY DEF CallsTyped
      <3>2. \A k \in DOMAIN calls : k \in Nat
          BY <1>1
      <3>3. QED
          BY <1>2, <3>1, <3>2
    <2>2. \A j, k \in DOMAIN calls' :
              j # k => \/ calls'[j].refs # calls'[k].refs
                       \/ calls'[j].delta # calls'[k].delta
                       \/ calls'[j].source # calls'[k].source
        BY <1>2, <1>6, <1>7
    <2>3. ASSUME NEW kind \in Kinds, NEW s \in Sources, ToCount(kind, 1, s)'
          PROVE  InViews(kind, s)' >= 1
      <3>1. InViews(kind, s) >= 1
          BY <1>8, <2>3 DEF CallsTyped
      <3>2. InViews(kind, s)' = InViews(kind, s)
          BY DEF InViews, Once
      <3>3. QED
          BY <3>1, <3>2
    <2>4. QED
        BY <1>2, <2>1, <2>2, <2>3 DEF CallsTyped
  <1>10. QED
      BY <1>1, <1>2, <1>5, <1>8, <1>9 DEF walk

\* When the walk is over the first call is done.
LEMMA CallDone ==
  ASSUME CallsTyped, Walking, UNCHANGED views, calls' = Tail(calls)
  PROVE  /\ CallsTyped' /\ ~Walking'
         /\ \A kind, delta, s :
                ToCount(kind, delta, s)' <=> ToCount(kind, delta, s)
  <1>1. /\ calls \in Seq(CallType) /\ calls # <<>> /\ 1 \in DOMAIN calls
        /\ Head(calls) = calls[1] /\ calls[1].at = "walk"
      BY DEF CallsTyped, Walking
  <1>2. /\ calls' \in Seq(CallType) /\ DOMAIN calls' = 1 .. Len(calls) - 1
        /\ \A k \in DOMAIN calls' :
               k + 1 \in DOMAIN calls /\ k + 1 > 1 /\ calls'[k] = calls[k + 1]
        /\ \A k \in DOMAIN calls : k # 1 =>
               k - 1 \in DOMAIN calls' /\ calls'[k - 1] = calls[k]
      BY <1>1
  <1>3. \A k \in DOMAIN calls' : calls'[k].at = "count"
      BY <1>2 DEF CallsTyped
  <1>4. ~Walking'
    <2>1. calls' # <<>> => Head(calls') = calls'[1] /\ 1 \in DOMAIN calls'
        BY <1>2
    <2>2. calls' # <<>> => Head(calls').at = "count"
        BY <1>3, <2>1
    <2>3. QED
        BY <2>2 DEF Walking
  <1>5. ASSUME NEW kind, NEW delta, NEW s
        PROVE  ToCount(kind, delta, s)' <=> ToCount(kind, delta, s)
    <2> DEFINE c == Call(kind, delta, s)
    <2>1. c.at = "count"
        BY CallLaws
    <2>2. /\ ToCount(kind, delta, s) <=> \E k \in DOMAIN calls : calls[k] = c
          /\ ToCount(kind, delta, s)' <=> \E k \in DOMAIN calls' : calls'[k] = c
        BY DEF ToCount, Call
    <2> HIDE DEF c
    <2>3. \A k \in DOMAIN calls : calls[k] = c => k # 1
        BY <1>1, <2>1
    <2>4. QED
        BY <1>2, <2>2, <2>3
  <1>6. CallsTyped'
    <2>1. \A j, k \in DOMAIN calls' :
              j # k => \/ calls'[j].refs # calls'[k].refs
                       \/ calls'[j].delta # calls'[k].delta
                       \/ calls'[j].source # calls'[k].source
      <3>1. ASSUME NEW j \in DOMAIN calls', NEW k \in DOMAIN calls', j # k
            PROVE  \/ calls'[j].refs # calls'[k].refs
                   \/ calls'[j].delta # calls'[k].delta
                   \/ calls'[j].source # calls'[k].source
        <4>1. /\ j + 1 \in DOMAIN calls /\ k + 1 \in DOMAIN calls
              /\ j + 1 # k + 1
              /\ calls'[j] = calls[j + 1] /\ calls'[k] = calls[k + 1]
            BY <1>2, <3>1
        <4>2. QED
            BY <4>1 DEF CallsTyped
      <3>2. QED
          BY <3>1
    <2>2. ASSUME NEW kind \in Kinds, NEW s \in Sources, ToCount(kind, 1, s)'
          PROVE  InViews(kind, s)' >= 1
      <3>1. InViews(kind, s) >= 1
          BY <1>5, <2>2 DEF CallsTyped
      <3>2. InViews(kind, s)' = InViews(kind, s)
          BY DEF InViews, Once
      <3>3. QED
          BY <3>1, <3>2
    <2>3. QED
        BY <1>2, <1>3, <1>4, <2>1, <2>2 DEF CallsTyped
  <1>7. QED
      BY <1>4, <1>5, <1>6

\* What is to be taken back was counted.
LEMMA TakenBackWasCounted ==
  ASSUME SceneInv, HiderCounts, CountsInv, ~Walking, audio.at = "idle",
         NEW kind \in Kinds, NEW s \in Sources, ToCount(kind, -1, s)
  PROVE  RefsOf(kind)[s] \in Int /\ RefsOf(kind)[s] >= 1
  <1> DEFINE f == RefsOf(kind)
             o == Owed(kind)[s]
             a == OfParents(f, Active, s)
             l == OfParents(f, {}, s)
  <1>1. Late = {} /\ Active \subseteq Pairs
      BY DEF Late, SceneInv, ItemsTyped, Active
  <1>2. /\ f \in [Sources -> Int] /\ \A t \in Sources : 0 <= f[t]
        /\ Balanced(f, Owed(kind), Active, {})
      BY <1>1, CountsOrdered
  <1>3. o \in Int /\ o >= 1
      BY OwedLaws DEF CountsInv
  <1> HIDE DEF f, o
  <1>4. \A t \in Scenes : f[t] \in Int /\ f[t] >= 0
      BY <1>2 DEF Sources
  <1>5. f[s] = o + a + l
      BY <1>2 DEF Balanced, o
  <1>6. a \in Nat
    <2>1. \A e \in Into(Active, s) : f[e[1]] >= 0
        BY <1>1, <1>4, IntoFinite
    <2>2. QED
        BY <1>1, <1>4, <2>1, OfParentsLaws
  <1>7. l = 0
    <2>1. Into({}, s) = {} /\ {} \subseteq Pairs
        BY DEF Into
    <2>2. QED
        BY <1>4, <2>1, OfParentsLaws
  <1> HIDE DEF a, l
  <1>8. f[s] \in Int /\ f[s] >= 1
      BY <1>3, <1>5, <1>6, <1>7
  <1>9. QED
      BY <1>8 DEF f

\* The count of the source of a call.
LEMMA CountSourceBalances ==
  ASSUME "gap" \notin SceneRaces, SceneInv, HiderCounts, CountsInv, CountSource
  PROVE  CountsInv'
  <1> DEFINE call == Head(calls)
  <1>1. /\ calls # <<>> /\ call.at = "count" /\ audio.at = "idle"
        /\ UNCHANGED <<views, items, audio>>
        /\ call \in CallType /\ ~Walking
      BY DEF CountSource, sceneAudioVars, Walking, CountsInv, CallsTyped
  <1>2. PICK kind \in Kinds, delta \in {-1, 1}, root \in Scenes :
            call.refs = kind /\ call.delta = delta /\ call.source = root
      BY <1>1, CallLaws
  <1> root \in Sources
      BY DEF Sources
  <1> DEFINE refs == RefsOf(kind)
  <1>3. call = Call(kind, delta, root)
      BY <1>1, <1>2, CallLaws
  <1>4. ToCount(kind, delta, root)
    <2>1. 1 \in DOMAIN calls /\ calls[1] = call
        BY <1>1 DEF CountsInv, CallsTyped
    <2>2. QED
        BY <1>3, <2>1, Zenon DEF ToCount
  <1>5. \A k \in Kinds : RefsOf(k) \in [Sources -> Int]
      BY DEF RefsOf, CountsInv, CountsTyped
  <1>6. ~(delta < 0 /\ refs[root] =< 0)
    <2>1. CASE delta = 1
        BY <2>1
    <2>2. CASE delta = -1
      <3>1. refs[root] \in Int /\ refs[root] >= 1
          BY <1>1, <1>2, <1>4, <2>2, TakenBackWasCounted
      <3>2. QED
          BY <3>1
    <2>3. QED
        BY <1>2, <2>1, <2>2
  <1>7. /\ calls' = [calls EXCEPT ![1].at = "walk"]
        /\ RefsOf(kind)' = [refs EXCEPT ![root] = @ + delta]
        /\ \A k \in Kinds : k # kind => RefsOf(k)' = RefsOf(k)
    <2>1. /\ refs = IF kind = "show" THEN show_refs ELSE activate_refs
          /\ kind = "show" \/ kind = "activate"
        BY <1>2 DEF RefsOf, Kinds
    <2>2. /\ calls' = [calls EXCEPT ![1].at = "walk"]
          /\ kind = "show" => /\ show_refs' = [refs EXCEPT ![root] = @ + delta]
                              /\ UNCHANGED activate_refs
          /\ kind # "show" =>
                 /\ activate_refs' = [refs EXCEPT ![root] = @ + delta]
                 /\ UNCHANGED show_refs
        BY <1>2, <1>6, <2>1 DEF CountSource
    <2> HIDE DEF refs
    <2>3. ASSUME NEW k \in Kinds
          PROVE  /\ k = kind => RefsOf(k)' = [refs EXCEPT ![root] = @ + delta]
                 /\ k # kind => RefsOf(k)' = RefsOf(k)
        BY <2>1, <2>2 DEF RefsOf, Kinds
    <2>4. RefsOf(kind)' = [refs EXCEPT ![root] = @ + delta]
      <3>1. CASE kind = "show"
          BY <2>2, <3>1 DEF RefsOf
      <3>2. CASE kind # "show"
          BY <2>1, <2>2, <3>2 DEF RefsOf
      <3>3. QED
          BY <3>1, <3>2
    <2>5. QED
        BY <2>2, <2>3, <2>4
  <1>8. /\ CallsTyped' /\ Walking'
        /\ Head(calls') = [call EXCEPT !.at = "walk"]
        /\ \A k, d, s : ToCount(k, d, s)' <=>
               /\ ToCount(k, d, s)
               /\ k # kind \/ d # delta \/ s # root
      BY <1>1, <1>2, <1>7, CallWalks DEF CountsInv
  <1>9. /\ Head(calls').refs = kind /\ Head(calls').delta = delta
        /\ Head(calls').source = root
      BY <1>1, <1>2, <1>8 DEF CallType
  <1>10. /\ Active' = Active /\ Late = {} /\ Late' = {}
         /\ \A r : Visits(r)' = Visits(r)
      BY <1>1 DEF Active, Late, Visits
  <1> HIDE DEF call, refs
  <1>11. ASSUME NEW k \in Kinds, NEW s \in Sources
         PROVE  Owed(k)'[s] =
                    IF k = kind THEN Owed(k)[s] + delta * Once(s = root)
                    ELSE Owed(k)[s]
    <2> DEFINE v == InViews(k, s)
               p == Once(ToCount(k, 1, s))
               m == Once(ToCount(k, -1, s))
               pp == Once(ToCount(k, 1, s)')
               mm == Once(ToCount(k, -1, s)')
    <2>1. Owed(k)[s] = v - p + m /\ v \in Int
        BY OwedLaws DEF CountsInv
    <2>2. Owed(k)'[s] = v - pp + mm
      <3>1. Owed(k)' = [t \in Sources |-> InViews(k, t)' - Once(ToCount(k, 1, t)')
                            + Once(ToCount(k, -1, t)')]
          BY DEF Owed, Once
      <3>2. InViews(k, s)' = v
          BY <1>1 DEF InViews, Once
      <3>3. QED
          BY <3>1, <3>2
    <2>3. p \in Int /\ m \in Int /\ pp \in Int /\ mm \in Int
        BY DEF Once
    <2>4. CASE k = kind /\ s = root /\ delta = 1
      <3>1. p = 1 /\ pp = 0 /\ mm = m
        <4>1. ToCount(k, 1, s) /\ ~(ToCount(k, 1, s)')
            BY <1>4, <1>8, <2>4
        <4>2. ToCount(k, -1, s)' <=> ToCount(k, -1, s)
            BY <1>8, <2>4
        <4>3. QED
            BY <4>1, <4>2 DEF Once
      <3>2. delta * Once(s = root) = 1
          BY <2>4 DEF Once
      <3> HIDE DEF v, p, m, pp, mm
      <3>3. QED
          BY <2>1, <2>2, <2>3, <2>4, <3>1, <3>2
    <2>5. CASE k = kind /\ s = root /\ delta = -1
      <3>1. m = 1 /\ mm = 0 /\ pp = p
        <4>1. ToCount(k, -1, s) /\ ~(ToCount(k, -1, s)')
            BY <1>4, <1>8, <2>5
        <4>2. ToCount(k, 1, s)' <=> ToCount(k, 1, s)
            BY <1>8, <2>5
        <4>3. QED
            BY <4>1, <4>2 DEF Once
      <3>2. delta * Once(s = root) = -1
          BY <2>5 DEF Once
      <3> HIDE DEF v, p, m, pp, mm
      <3>3. QED
          BY <2>1, <2>2, <2>3, <2>5, <3>1, <3>2
    <2>6. CASE k # kind \/ s # root
      <3>1. pp = p /\ mm = m
        <4>1. /\ ToCount(k, 1, s)' <=> ToCount(k, 1, s)
              /\ ToCount(k, -1, s)' <=> ToCount(k, -1, s)
            BY <1>8, <2>6
        <4>2. QED
            BY <4>1 DEF Once
      <3>2. s # root => delta * Once(s = root) = 0
          BY <1>2 DEF Once
      <3>3. Owed(k)[s] \in Int
          BY <2>1, <2>3
      <3>4. Owed(k)'[s] = Owed(k)[s]
          BY <2>1, <2>2, <3>1
      <3> HIDE DEF v, p, m, pp, mm
      <3>5. QED
          BY <2>6, <3>2, <3>3, <3>4
    <2>7. QED
        BY <1>2, <2>4, <2>5, <2>6
  <1>12. ASSUME NEW k \in Kinds
         PROVE  Balanced(Whole(k), Owed(k), Active, Late)'
    <2> DEFINE f == RefsOf(k)
               o == Owed(k)
    <2>1. f \in [Sources -> Int] /\ Balanced(f, o, Active, {})
        BY <1>1, <1>10, CountsOrdered
    <2>2. o \in [Sources -> Int]
        BY OwedLaws DEF CountsInv
    <2>3. CASE k # kind
      <3>1. Whole(k)' = f
          BY <1>7, <1>9, <2>3 DEF Whole
      <3>2. \A s \in Sources : Owed(k)'[s] = o[s]
          BY <1>11, <2>3
      <3> HIDE DEF f, o
      <3>3. QED
          BY <1>10, <2>1, <3>1, <3>2 DEF Balanced
    <2>4. CASE k = kind
      <3> DEFINE more == [s \in Sources |-> f[s] + delta * Paths(root)[s]]
      <3>1. Whole(k)' = more
        <4>1. Whole(k)' = [s \in Sources |-> RefsOf(k)'[s]
                               + delta * Visits(root)[s]]
            BY <1>8, <1>9, <1>10, <2>4 DEF Whole
        <4>2. ASSUME NEW s \in Sources
              PROVE  RefsOf(k)'[s] + delta * Visits(root)[s] =
                         f[s] + delta * Paths(root)[s]
          <5> DEFINE v == Visits(root)[s]
                     w == f[s]
          <5>1. /\ v \in Int /\ w \in Int
                /\ Paths(root)[s] = v + Once(s = root)
              BY <2>1, PathsLaws DEF SceneInv
          <5>2. RefsOf(k)'[s] = IF s = root THEN w + delta ELSE w
              BY <1>2, <1>7, <2>1, <2>4 DEF refs
          <5> HIDE DEF v, w, f
          <5>3. CASE delta = 1
              BY <5>1, <5>2, <5>3 DEF Once, v, w
          <5>4. CASE delta = -1
              BY <5>1, <5>2, <5>4 DEF Once, v, w
          <5>5. QED
              BY <1>2, <5>3, <5>4
        <4>3. QED
            BY <4>1, <4>2
      <3>2. \A s \in Sources :
                more[s] = o[s] + delta * Once(s = root)
                    + OfParents(more, Active, s) + OfParents(more, {}, s)
        <4>1. delta \in Int /\ {} \subseteq Pairs /\ ItemsTyped /\ NoActiveCycle
            BY <1>2 DEF SceneInv
        <4>2. \A e \in {} : e[1] # root /\ e[1] \notin Below(root, Active)
            OBVIOUS
        <4> HIDE DEF f, o
        <4>3. QED
            BY <2>1, <2>2, <4>1, <4>2, TreeCounted
      <3>3. \A s \in Sources : Owed(k)'[s] = o[s] + delta * Once(s = root)
          BY <1>11, <2>4
      <3> HIDE DEF more, o
      <3>4. QED
          BY <1>10, <3>1, <3>2, <3>3 DEF Balanced
    <2>5. QED
        BY <2>3, <2>4
  <1>13. CountsTyped'
    <2>1. ASSUME NEW k \in Kinds PROVE RefsOf(k)' \in [Sources -> Int]
      <3>1. [refs EXCEPT ![root] = @ + delta] \in [Sources -> Int]
          BY <1>2, <1>5 DEF refs
      <3>2. QED
          BY <1>5, <1>7, <3>1
    <2>2. "show" \in Kinds /\ "activate" \in Kinds
        BY DEF Kinds
    <2>3. /\ RefsOf("show")' = show_refs'
          /\ RefsOf("activate")' = activate_refs'
        BY DEF RefsOf
    <2>4. QED
        BY <1>1, <2>1, <2>2, <2>3 DEF CountsInv, CountsTyped
  <1>14. OwedLess'
      BY <1>1, <1>8 DEF OwedLess, Walking
  <1>15. HiderApart'
      BY <1>10 DEF HiderApart
  <1>16. QED
      BY <1>8, <1>12, <1>13, <1>14, <1>15 DEF CountsInv, CountsBalance

\* The counts of what is below the source of a call.
LEMMA CountTreeBalances ==
  ASSUME SceneInv, CountsInv, CountTree
  PROVE  CountsInv'
  <1> DEFINE call == Head(calls)
             kind == call.refs
             delta == call.delta
             root == call.source
  <1>1. /\ Walking /\ audio.at = "idle" /\ calls' = Tail(calls)
        /\ UNCHANGED <<views, items, audio>>
        /\ call \in CallType
      BY DEF CountTree, sceneAudioVars, Walking, CountsInv, CallsTyped
  <1>2. kind \in Kinds /\ delta \in {-1, 1}
      BY <1>1, CallLaws
  <1>3. /\ CallsTyped' /\ ~Walking'
        /\ \A k, d, s : ToCount(k, d, s)' <=> ToCount(k, d, s)
      BY <1>1, CallDone DEF CountsInv
  <1>4. Active' = Active /\ Late = {} /\ Late' = {}
      BY <1>1 DEF Active, Late
  <1>5. \A k \in Kinds : RefsOf(k) \in [Sources -> Int]
      BY DEF RefsOf, CountsInv, CountsTyped
  <1>6. \A k \in Kinds : /\ Whole(k)' = RefsOf(k)' /\ RefsOf(k)' = Whole(k)
                         /\ Whole(k) \in [Sources -> Int]
    <2> DEFINE Changed(refs) ==
            [s \in Sources |-> refs[s] + delta * Visits(root)[s]]
    <2>1. /\ kind = "show" => /\ show_refs' = Changed(show_refs)
                              /\ UNCHANGED activate_refs
          /\ kind # "show" => /\ activate_refs' = Changed(activate_refs)
                              /\ UNCHANGED show_refs
        BY DEF CountTree
    <2>2. \A k \in Kinds :
              Whole(k) = IF kind = k THEN Changed(RefsOf(k)) ELSE RefsOf(k)
        BY <1>1 DEF Whole
    <2>3. \A k \in Kinds : Changed(RefsOf(k)) \in [Sources -> Int]
        BY <1>2, <1>5, VisitsLaws DEF SceneInv
    <2> HIDE DEF Changed
    <2>4. ASSUME NEW k \in Kinds PROVE RefsOf(k)' = Whole(k)
        BY <1>2, <2>1, <2>2 DEF RefsOf, Kinds
    <2>5. \A k \in Kinds : Whole(k)' = RefsOf(k)'
        BY <1>3 DEF Whole
    <2>6. QED
        BY <1>5, <2>2, <2>3, <2>4, <2>5
  <1> HIDE DEF call, kind, delta, root
  <1>7. ASSUME NEW k \in Kinds
        PROVE  /\ Owed(k)' = Owed(k)
               /\ \A s \in Sources : /\ InViews(k, s)' = InViews(k, s)
                                     /\ InViews(k, s) \in Nat
    <2>1. \A s \in Sources : /\ InViews(k, s)' = InViews(k, s)
                             /\ InViews(k, s) \in Nat
        BY <1>1 DEF InViews, Once
    <2>2. Owed(k)' = [t \in Sources |-> InViews(k, t)' - Once(ToCount(k, 1, t)')
                          + Once(ToCount(k, -1, t)')]
        BY DEF Owed, Once
    <2>3. \A d, s : Once(ToCount(k, d, s)') = Once(ToCount(k, d, s))
        BY <1>3, Zenon DEF Once
    <2>4. Owed(k) = [t \in Sources |-> InViews(k, t) - Once(ToCount(k, 1, t))
                         + Once(ToCount(k, -1, t))]
        BY DEF Owed
    <2>5. QED
        BY <2>1, <2>2, <2>3, <2>4
  <1>8. CountsBalance'
    <2>1. ASSUME NEW k \in Kinds
          PROVE  Balanced(Whole(k), Owed(k), Active, Late)'
      <3>1. Balanced(Whole(k), Owed(k), Active, {})
          BY <1>4 DEF CountsInv, CountsBalance
      <3>2. Whole(k)' = Whole(k)
          BY <1>6
      <3>3. QED
          BY <1>4, <1>7, <3>1, <3>2 DEF Balanced
    <2>2. QED
        BY <2>1 DEF CountsBalance
  <1>9. CountsTyped'
    <2>1. "show" \in Kinds /\ "activate" \in Kinds
        BY DEF Kinds
    <2>2. /\ RefsOf("show")' = show_refs'
          /\ RefsOf("activate")' = activate_refs'
        BY DEF RefsOf
    <2>3. show_refs' \in [Sources -> Int] /\ activate_refs' \in [Sources -> Int]
        BY <1>6, <2>1, <2>2
    <2>4. QED
        BY <1>1, <2>3 DEF CountsInv, CountsTyped
  <1>10. OwedLess'
    <2>1. ASSUME calls' = <<>>, NEW s \in Sources
          PROVE  Owed("activate")'[s] <= Owed("show")'[s]
      <3>1. ASSUME NEW k \in Kinds PROVE Owed(k)'[s] = InViews(k, s)
        <4>1. \A d : ~(ToCount(k, d, s)')
            BY <2>1 DEF ToCount
        <4>2. \A d : ~ToCount(k, d, s)
            BY <1>3, <4>1
        <4>3. Once(ToCount(k, 1, s)) = 0 /\ Once(ToCount(k, -1, s)) = 0
            BY <4>2 DEF Once
        <4>4. Owed(k)[s] = InViews(k, s) - Once(ToCount(k, 1, s))
                               + Once(ToCount(k, -1, s))
            BY OwedLaws DEF CountsInv
        <4>5. QED
            BY <1>7, <4>3, <4>4
      <3>2. InViews("activate", s) <= InViews("show", s)
          BY DEF InViews, Once
      <3>3. QED
          BY <3>1, <3>2 DEF Kinds
    <2>2. audio'.at = "idle"
        BY <1>1
    <2>3. QED
        BY <2>1, <2>2 DEF OwedLess
  <1>11. HiderApart'
      BY <1>4 DEF HiderApart
  <1>12. QED
      BY <1>3, <1>8, <1>9, <1>10, <1>11 DEF CountsInv

\* Which calls a view is about.
About(kind, view) == kind = "show" \/ view = "main"

\* Calls that are still to be made, none of them twice.
Fresh(q) ==
    /\ q \in Seq(CallType) /\ \A k \in DOMAIN q : q[k].at = "count"
    /\ \A j, k \in DOMAIN q :
           j # k => \/ q[j].refs # q[k].refs \/ q[j].delta # q[k].delta
                    \/ q[j].source # q[k].source

\* The calls for a source that enters or leaves a view.
LEMMA CallsForView ==
  ASSUME NEW view \in {"main", "preview"}, NEW delta \in {-1, 1},
         NEW source \in Scenes \cup {NoScene},
         NEW q, q = CallsFor(view, delta, source)
  PROVE  /\ Fresh(q) /\ (source # NoScene => q # <<>>)
         /\ \A k \in DOMAIN q : q[k].delta = delta /\ q[k].source = source
         /\ \A kind \in Kinds : \A d, s :
                (\E k \in DOMAIN q : q[k] = Call(kind, d, s)) <=>
                    /\ About(kind, view) /\ s # NoScene
                    /\ d = delta /\ s = source
  <1> DEFINE a == Call("show", delta, source)
             b == Call("activate", delta, source)
  <1>1. /\ a.refs = "show" /\ a.delta = delta /\ a.source = source
        /\ b.refs = "activate" /\ b.delta = delta /\ b.source = source
        /\ a.at = "count" /\ b.at = "count"
      BY CallLaws
  <1>2. source # NoScene => a \in CallType /\ b \in CallType
      BY CallLaws DEF Kinds
  <1>3. q = IF source = NoScene THEN <<>>
            ELSE IF view = "preview" THEN <<a>> ELSE <<a, b>>
      BY DEF CallsFor
  <1>4. ASSUME NEW kind \in Kinds, NEW d, NEW s
        PROVE  LET e == Call(kind, d, s)
               IN  /\ a = e <=> kind = "show" /\ d = delta /\ s = source
                   /\ b = e <=> kind # "show" /\ d = delta /\ s = source
    <2>1. kind = "show" \/ kind = "activate"
        BY DEF Kinds
    <2>2. QED
        BY <2>1 DEF Call
  <1> HIDE DEF a, b
  <1>5. CASE source = NoScene
    <2>1. q = <<>> /\ DOMAIN q = {}
        BY <1>3, <1>5
    <2>2. QED
        BY <1>5, <2>1 DEF Fresh
  <1>6. CASE source # NoScene /\ view = "preview"
    <2>1. q = <<a>> /\ q \in Seq(CallType) /\ DOMAIN q = {1} /\ q[1] = a
        BY <1>2, <1>3, <1>6
    <2>2. Fresh(q)
        BY <1>1, <2>1 DEF Fresh
    <2>3. q # <<>>
        BY <2>1
    <2>4. QED
        BY <1>1, <1>4, <1>6, <2>1, <2>2, <2>3 DEF About
  <1>7. CASE source # NoScene /\ view = "main"
    <2>1. /\ q = <<a, b>> /\ q \in Seq(CallType) /\ DOMAIN q = {1, 2}
          /\ q[1] = a /\ q[2] = b
        BY <1>2, <1>3, <1>7
    <2>2. Fresh(q)
        BY <1>1, <2>1 DEF Fresh
    <2>3. q # <<>>
        BY <2>1
    <2>4. QED
        BY <1>1, <1>4, <1>7, <2>1, <2>2, <2>3 DEF About
  <1>8. QED
      BY <1>5, <1>6, <1>7

\* The calls when one source enters a view and another leaves it.
AreOfChange(r, view, new, old) ==
    /\ Fresh(r) /\ r # <<>>
    /\ \A kind \in Kinds : \A d, s :
           (\E k \in DOMAIN r : r[k] = Call(kind, d, s)) <=>
               /\ About(kind, view) /\ s # NoScene
               /\ \/ d = 1 /\ s = new
                  \/ d = -1 /\ s = old

\* First those of the source that enters, then those of the one that leaves.
LEMMA CallsOfChange ==
  ASSUME NEW view \in {"main", "preview"}, NEW new \in Scenes \cup {NoScene},
         NEW old \in Scenes \cup {NoScene}, new # old,
         NEW r, r = CallsFor(view, 1, new) \o CallsFor(view, -1, old)
  PROVE  AreOfChange(r, view, new, old)
  <1> DEFINE p == CallsFor(view, 1, new)
             q == CallsFor(view, -1, old)
             n == Len(p)
  <1>1. /\ Fresh(p) /\ (new # NoScene => p # <<>>)
        /\ \A k \in DOMAIN p : p[k].delta = 1
        /\ \A kind \in Kinds : \A d, s :
               (\E k \in DOMAIN p : p[k] = Call(kind, d, s)) <=>
                   /\ About(kind, view) /\ s # NoScene /\ d = 1 /\ s = new
      BY CallsForView
  <1>2. /\ Fresh(q) /\ (old # NoScene => q # <<>>)
        /\ \A k \in DOMAIN q : q[k].delta = -1
        /\ \A kind \in Kinds : \A d, s :
               (\E k \in DOMAIN q : q[k] = Call(kind, d, s)) <=>
                   /\ About(kind, view) /\ s # NoScene /\ d = -1 /\ s = old
      BY CallsForView
  <1> HIDE DEF p, q
  <1>3. p \in Seq(CallType) /\ q \in Seq(CallType) /\ r = p \o q
      BY <1>1, <1>2 DEF Fresh, p, q
  <1>4. /\ r \in Seq(CallType) /\ n \in Nat /\ DOMAIN r \subseteq Nat
        /\ \A k \in DOMAIN r : \/ k \in DOMAIN p /\ r[k] = p[k]
                               \/ k > n /\ k - n \in DOMAIN q /\ r[k] = q[k - n]
        /\ \A k \in DOMAIN p : k \in DOMAIN r /\ r[k] = p[k]
        /\ \A k \in DOMAIN q : k + n \in DOMAIN r /\ r[k + n] = q[k]
    <2> DEFINE m == Len(q)
    <2>1. /\ r \in Seq(CallType) /\ Len(r) = n + m
          /\ \A k \in 1 .. n + m :
                 r[k] = IF k <= n THEN p[k] ELSE q[k - n]
        BY <1>3, ConcatProperties
    <2>2. /\ n \in Nat /\ m \in Nat
          /\ DOMAIN p = 1 .. n /\ DOMAIN q = 1 .. m
        BY <1>3
    <2> HIDE DEF n, m
    <2>3. DOMAIN r = 1 .. n + m
        BY <2>1
    <2>4. \A k \in 1 .. m : r[k + n] = q[k]
      <3>1. ASSUME NEW k \in 1 .. m PROVE r[k + n] = q[k]
        <4>1. k + n \in 1 .. n + m /\ ~(k + n <= n) /\ (k + n) - n = k
            BY <2>2
        <4>2. QED
            BY <2>1, <4>1
      <3>2. QED
          BY <3>1
    <2>5. ASSUME NEW k \in DOMAIN r
          PROVE  \/ k \in DOMAIN p /\ r[k] = p[k]
                 \/ k > n /\ k - n \in DOMAIN q /\ r[k] = q[k - n]
        BY <2>1, <2>2, <2>3
    <2>6. \A k \in DOMAIN p : k \in DOMAIN r /\ r[k] = p[k]
        BY <2>1, <2>2, <2>3
    <2>7. \A k \in DOMAIN q : k + n \in DOMAIN r /\ r[k + n] = q[k]
        BY <2>2, <2>3, <2>4
    <2>8. DOMAIN r \subseteq Nat
        BY <2>3
    <2>9. QED
        BY <2>1, <2>2, <2>5, <2>6, <2>7, <2>8
  <1>5. r # <<>>
      BY <1>1, <1>2, <1>3
  <1>6. Fresh(r)
    <2>1. \A k \in DOMAIN r : r[k].at = "count"
      <3>1. /\ \A k \in DOMAIN p : p[k].at = "count"
            /\ \A k \in DOMAIN q : q[k].at = "count"
          BY <1>1, <1>2 DEF Fresh
      <3>2. QED
          BY <1>4, <3>1
    <2>2. ASSUME NEW j \in DOMAIN r, NEW k \in DOMAIN r, j # k
          PROVE  \/ r[j].refs # r[k].refs \/ r[j].delta # r[k].delta
                 \/ r[j].source # r[k].source
      <3>1. CASE j \in DOMAIN p /\ r[j] = p[j] /\ k \in DOMAIN p /\ r[k] = p[k]
          BY <1>1, <2>2, <3>1 DEF Fresh
      <3>2. CASE /\ j > n /\ j - n \in DOMAIN q /\ r[j] = q[j - n]
                 /\ k > n /\ k - n \in DOMAIN q /\ r[k] = q[k - n]
        <4>1. j - n # k - n
            BY <1>4, <2>2
        <4>2. QED
            BY <1>2, <3>2, <4>1 DEF Fresh
      <3>3. CASE /\ j \in DOMAIN p /\ r[j] = p[j]
                 /\ k - n \in DOMAIN q /\ r[k] = q[k - n]
        <4>1. r[j].delta = 1 /\ r[k].delta = -1
            BY <1>1, <1>2, <3>3
        <4>2. QED
            BY <4>1
      <3>4. CASE /\ k \in DOMAIN p /\ r[k] = p[k]
                 /\ j - n \in DOMAIN q /\ r[j] = q[j - n]
        <4>1. r[k].delta = 1 /\ r[j].delta = -1
            BY <1>1, <1>2, <3>4
        <4>2. QED
            BY <4>1
      <3>5. QED
          BY <1>4, <3>1, <3>2, <3>3, <3>4
    <2>3. QED
        BY <1>4, <2>1, <2>2 DEF Fresh
  <1>7. ASSUME NEW e
        PROVE  (\E k \in DOMAIN r : r[k] = e) <=>
                   \/ \E k \in DOMAIN p : p[k] = e
                   \/ \E k \in DOMAIN q : q[k] = e
    <2>1. ASSUME NEW k \in DOMAIN r, r[k] = e
          PROVE  \/ \E x \in DOMAIN p : p[x] = e
                 \/ \E x \in DOMAIN q : q[x] = e
        BY <1>4, <2>1
    <2>2. ASSUME NEW k \in DOMAIN p, p[k] = e
          PROVE  \E x \in DOMAIN r : r[x] = e
        BY <1>4, <2>2
    <2>3. ASSUME NEW k \in DOMAIN q, q[k] = e
          PROVE  \E x \in DOMAIN r : r[x] = e
      <3>1. k + n \in DOMAIN r /\ r[k + n] = e
          BY <1>4, <2>3
      <3>2. QED
          BY <3>1
    <2>4. QED
        BY <2>1, <2>2, <2>3
  <1>8. ASSUME NEW kind \in Kinds, NEW d, NEW s
        PROVE  (\E k \in DOMAIN r : r[k] = Call(kind, d, s)) <=>
                   /\ About(kind, view) /\ s # NoScene
                   /\ \/ d = 1 /\ s = new
                      \/ d = -1 /\ s = old
    <2>1. /\ (\E k \in DOMAIN p : p[k] = Call(kind, d, s)) <=>
                 /\ About(kind, view) /\ s # NoScene /\ d = 1 /\ s = new
          /\ (\E k \in DOMAIN q : q[k] = Call(kind, d, s)) <=>
                 /\ About(kind, view) /\ s # NoScene /\ d = -1 /\ s = old
        BY <1>1, <1>2
    <2>2. QED
        BY <1>7, <2>1, Zenon
  <1>9. QED
      BY <1>5, <1>6, <1>8 DEF AreOfChange

\* A view is changed: nothing is counted by that alone.
LEMMA ChangeViewBalances ==
  ASSUME CountsInv, NEW view \in DOMAIN views,
         NEW new \in Scenes \cup {NoScene}, ChangeView(view, new)
  PROVE  CountsInv'
  <1>1. PICK old \in Scenes \cup {NoScene} : old = views[view]
      BY DEF CountsInv, CountsTyped
  <1>2. /\ calls = <<>> /\ new # old /\ views' = [views EXCEPT ![view] = new]
        /\ calls' = CallsFor(view, 1, new) \o CallsFor(view, -1, old)
        /\ UNCHANGED <<show_refs, activate_refs, items, audio>>
        /\ view \in {"main", "preview"}
        /\ views \in [{"main", "preview"} -> Scenes \cup {NoScene}]
      BY <1>1 DEF ChangeView, shownVars, sceneAudioVars, CountsInv, CountsTyped
  <1>3. /\ calls' \in Seq(CallType) /\ calls' # <<>>
        /\ \A k \in DOMAIN calls' : calls'[k].at = "count"
        /\ \A j, k \in DOMAIN calls' :
               j # k => \/ calls'[j].refs # calls'[k].refs
                        \/ calls'[j].delta # calls'[k].delta
                        \/ calls'[j].source # calls'[k].source
        /\ \A kind \in Kinds : \A delta, s :
               ToCount(kind, delta, s)' <=>
                   /\ About(kind, view) /\ s # NoScene
                   /\ \/ delta = 1 /\ s = new
                      \/ delta = -1 /\ s = old
    <2>1. PICK r : r = calls'
        OBVIOUS
    <2>2. /\ r = CallsFor(view, 1, new) \o CallsFor(view, -1, old)
          /\ view \in {"main", "preview"} /\ new # old
        BY <1>2, <2>1
    <2>3. AreOfChange(r, view, new, old)
        BY <2>2, CallsOfChange
    <2>4. ASSUME NEW kind \in Kinds, NEW delta, NEW s
          PROVE  (\E k \in DOMAIN r : r[k] = Call(kind, delta, s)) <=>
                     /\ About(kind, view) /\ s # NoScene
                     /\ \/ delta = 1 /\ s = new
                        \/ delta = -1 /\ s = old
        BY <2>3 DEF AreOfChange
    <2>5. \A kind, delta, s : ToCount(kind, delta, s)' <=>
              \E k \in DOMAIN r : r[k] = Call(kind, delta, s)
        BY <2>1 DEF ToCount, Call
    <2>6. QED
        BY <2>1, <2>3, <2>4, <2>5 DEF AreOfChange, Fresh
  <1>4. ~Walking /\ ~Walking'
    <2>1. Head(calls').at = "count"
        BY <1>3
    <2>2. QED
        BY <1>2, <2>1, NoCallsOwed DEF Walking
  <1>5. /\ CountsTyped'
        /\ views'.main = IF view = "main" THEN new ELSE views.main
        /\ views'.preview = IF view = "preview" THEN new ELSE views.preview
        /\ old = IF view = "main" THEN views.main ELSE views.preview
      BY <1>1, <1>2 DEF CountsInv, CountsTyped
  <1>6. ASSUME NEW kind \in Kinds, NEW s \in Sources
        PROVE  /\ Owed(kind)'[s] = Owed(kind)[s]
               /\ ToCount(kind, 1, s)' => InViews(kind, s)' >= 1
    <2>1. Owed(kind)[s] = InViews(kind, s) /\ s # NoScene
        BY <1>2, NoCallsOwed, SceneAssumption DEF Sources
    <2>2. Owed(kind)'[s] = InViews(kind, s)' - Once(ToCount(kind, 1, s)')
                               + Once(ToCount(kind, -1, s)')
      <3>1. Owed(kind)' = [t \in Sources |->
                InViews(kind, t)' - Once(ToCount(kind, 1, t)')
                    + Once(ToCount(kind, -1, t)')]
          BY DEF Owed, Once
      <3>2. QED
          BY <3>1
    <2>3. /\ ToCount(kind, 1, s)' <=> About(kind, view) /\ s = new
          /\ ToCount(kind, -1, s)' <=> About(kind, view) /\ s = old
        BY <1>3, <2>1
    <2>4. /\ InViews(kind, s) = Once(views.main = s)
                 + (IF kind = "show" THEN Once(views.preview = s) ELSE 0)
          /\ InViews(kind, s)' = Once(views'.main = s)
                 + (IF kind = "show" THEN Once(views'.preview = s) ELSE 0)
        BY DEF InViews, Once
    <2>5. /\ Once(ToCount(kind, 1, s)') =
                 IF About(kind, view) /\ s = new THEN 1 ELSE 0
          /\ Once(ToCount(kind, -1, s)') =
                 IF About(kind, view) /\ s = old THEN 1 ELSE 0
        BY <2>3 DEF Once
    <2>6. CASE view = "main"
        BY <1>5, <2>1, <2>2, <2>3, <2>4, <2>5, <2>6 DEF About, Once
    <2>7. CASE view = "preview"
        BY <1>5, <2>1, <2>2, <2>3, <2>4, <2>5, <2>7 DEF About, Once
    <2>8. QED
        BY <1>2, <2>6, <2>7
  <1>7. CallsTyped'
    <2>1. \A k \in DOMAIN calls' : k > 1 => calls'[k].at = "count"
        BY <1>3
    <2>2. QED
        BY <1>3, <1>4, <1>6, <2>1 DEF CallsTyped
  <1>8. Late' = Late /\ Active' = Active
      BY <1>2 DEF Late, Active
  <1>9. CountsBalance'
    <2>1. ASSUME NEW kind \in Kinds
          PROVE  Balanced(Whole(kind), Owed(kind), Active, Late)'
      <3>1. Balanced(RefsOf(kind), Owed(kind), Active, Late)
          BY <1>4, Zenon DEF CountsInv, CountsBalance, Whole
      <3>2. Whole(kind)' = RefsOf(kind)
          BY <1>2, <1>4 DEF Whole, RefsOf
      <3>3. QED
          BY <1>6, <1>8, <3>1, <3>2 DEF Balanced
    <2>2. QED
        BY <2>1 DEF CountsBalance
  <1>10. HiderApart'
      BY <1>8 DEF CountsInv, HiderApart
  <1>11. OwedLess'
    <2>1. \A s \in Sources : Owed("activate")[s] <= Owed("show")[s]
        BY <1>2 DEF CountsInv, OwedLess
    <2>2. "show" \in Kinds /\ "activate" \in Kinds
        BY DEF Kinds
    <2>3. QED
        BY <1>6, <2>1, <2>2 DEF OwedLess
  <1>12. QED
      BY <1>5, <1>7, <1>9, <1>10, <1>11 DEF CountsInv

\* At first there is nothing in the views.
LEMMA InitCountsInv ==
  SceneInit => CountsInv
  <1> SUFFICES ASSUME SceneInit PROVE CountsInv
      OBVIOUS
  <1>1. /\ views = [main |-> NoScene, preview |-> NoScene]
        /\ show_refs = [s \in Sources |-> 0] /\ activate_refs = show_refs
        /\ calls = <<>> /\ audio.at = "idle"
      BY DEF SceneInit, NoItem
  <1>2. SceneInv
      BY SceneInitInv
  <1>3. CountsTyped
      BY <1>1 DEF CountsTyped
  <1>4. /\ ~Walking
        /\ \A kind \in Kinds : Owed(kind) = [s \in Sources |-> InViews(kind, s)]
      BY <1>1, NoCallsOwed
  <1>5. ASSUME NEW s \in Sources, NEW kind \in Kinds
        PROVE  InViews(kind, s) = 0
    <2>1. views.main # s /\ views.preview # s
        BY <1>1, SceneAssumption DEF Sources
    <2>2. QED
        BY <2>1 DEF InViews, Once
  <1>6. CallsTyped
      BY <1>1, <1>4 DEF CallsTyped, ToCount
  <1>7. Late = {} /\ Active \subseteq Pairs
      BY <1>1, <1>2 DEF Late, Active, SceneInv, ItemsTyped
  <1>8. CountsBalance
    <2>1. ASSUME NEW kind \in Kinds, NEW s \in Sources
          PROVE  Whole(kind)[s] = Owed(kind)[s]
                     + OfParents(Whole(kind), Active, s)
                     + OfParents(Whole(kind), Late, s)
      <3> DEFINE f == Whole(kind)
      <3>1. f = [t \in Sources |-> 0]
          BY <1>1, <1>4 DEF Whole, RefsOf
      <3>2. \A t \in Scenes : f[t] = 0
          BY <3>1 DEF Sources
      <3>3. f[s] = 0 /\ Owed(kind)[s] = 0
          BY <1>4, <1>5, <3>1
      <3> HIDE DEF f
      <3>4. OfParents(f, Active, s) = 0
        <4>1. \A i \in Into(Active, s) : f[i[1]] = 0
            BY <1>7, <3>2, IntoFinite
        <4>2. QED
            BY <1>7, <4>1, OfParentsZero
      <3>5. OfParents(f, Late, s) = 0
        <4>1. \A i \in Into(Late, s) : f[i[1]] = 0
            BY <1>7 DEF Into
        <4>2. QED
            BY <1>7, <4>1, OfParentsZero
      <3>6. f[s] = Owed(kind)[s] + OfParents(f, Active, s)
                       + OfParents(f, Late, s)
          BY <3>3, <3>4, <3>5
      <3>7. QED
          BY <3>6 DEF f
    <2>2. QED
        BY <2>1 DEF CountsBalance, Balanced
  <1>9. HiderApart /\ OwedLess
      BY <1>4, <1>5, <1>7 DEF HiderApart, OwedLess, Kinds
  <1>10. QED
      BY <1>3, <1>6, <1>8, <1>9 DEF CountsInv

\* Every step keeps the counts in balance.
LEMMA NextCountsInv ==
  ASSUME "gap" \notin SceneRaces
  PROVE  SceneInv /\ ActionsInv /\ CountsInv /\ [SceneNext]_sceneVars =>
             CountsInv'
  <1> SUFFICES ASSUME SceneInv, ActionsInv, CountsInv, [SceneNext]_sceneVars
               PROVE  CountsInv'
      OBVIOUS
  <1>1. HiderCounts
      BY DEF ActionsInv
  <1>2. CASE UNCHANGED sceneVars
      BY <1>2, OthersBalance
  <1>3. CASE FrontendStep
    <2>1. ASSUME NEW v \in DOMAIN views, NEW s \in Scenes \cup {NoScene},
                 ChangeView(v, s)
          PROVE  CountsInv'
        BY <2>1, ChangeViewBalances
    <2>2. ASSUME NEW i \in Pairs, AddItem(i) PROVE CountsInv'
        BY <1>1, <2>2, AddItemBalances
    <2>3. ASSUME NEW i \in Pairs, ShowItem(i) PROVE CountsInv'
        BY <1>1, <2>3, ShowItemBalances
    <2>4. ASSUME NEW i \in Pairs, HideItem(i) PROVE CountsInv'
        BY <1>1, <2>4, HideItemBalances
    <2>5. ASSUME NEW i \in Pairs, RemoveItem(i) PROVE CountsInv'
        BY <1>1, <2>5, RemovedBalances
    <2>6. ASSUME NEW s \in Inputs, RemoveSource(s) PROVE CountsInv'
        BY <2>6, OthersBalance
    <2>7. QED
        BY <1>3, <2>1, <2>2, <2>3, <2>4, <2>5, <2>6 DEF FrontendStep
  <1>4. CASE CallStep
      BY <1>1, <1>4, CountSourceBalances, CountTreeBalances DEF CallStep
  <1>5. CASE ApplyStep
      BY <1>5, ApplyBalances DEF ApplyStep
  <1>6. CASE Deref
      BY <1>6, DerefBalances
  <1>7. CASE RemoveHidden
      BY <1>1, <1>7, RemoveHiddenBalances
  <1>8. CASE BuildOrder \/ \E s \in Scenes : LeaveScene(s)
      BY <1>8, OthersBalance
  <1>9. ASSUME NEW i \in Pairs, RenderRemoves(i) PROVE CountsInv'
      BY <1>1, <1>9, RemovedBalances
  <1>10. QED
      BY <1>2, <1>3, <1>4, <1>5, <1>6, <1>7, <1>8, <1>9
         DEF SceneNext, AudioStep

\* Between the calls of the frontend and the hiding of the audio thread, each
\* source is shown and active once for every view it is in and for every time
\* that a scene is in which it is an active item, for any scenes, sources and
\* items, unless the audio thread hides while a tree is being counted.
THEOREM CountsMatch ==
  ASSUME "gap" \notin SceneRaces
  PROVE  SceneSpec => []RefsMatch
  <1>1. SceneInv /\ CountsInv /\ ActionsMatch => RefsMatch
    <2>1. ASSUME SceneInv, CountsInv, calls = <<>>, audio.at # "remove",
                 NEW kind \in Kinds, NEW s \in Sources
          PROVE  RefsOf(kind)[s] =
                     InViews(kind, s) + OfParents(RefsOf(kind), Active, s)
      <3> DEFINE f == RefsOf(kind)
                 a == OfParents(f, Active, s)
                 l == OfParents(f, {}, s)
      <3>1. Late = {} /\ Active \subseteq Pairs
          BY <2>1 DEF Late, Active, SceneInv, ItemsTyped
      <3>2. Whole(kind) = f /\ Owed(kind)[s] = InViews(kind, s)
          BY <2>1, NoCallsOwed DEF Whole
      <3>3. Balanced(f, Owed(kind), Active, {})
          BY <2>1, <3>1, <3>2 DEF CountsInv, CountsBalance
      <3>4. f \in [Sources -> Int]
          BY <2>1 DEF RefsOf, CountsInv, CountsTyped
      <3> HIDE DEF f
      <3>5. \A t \in Scenes : f[t] \in Int
          BY <3>4 DEF Sources
      <3>6. a \in Int /\ l = 0
        <4>1. Into({}, s) = {} /\ {} \subseteq Pairs
            BY DEF Into
        <4>2. QED
            BY <3>1, <3>5, <4>1, OfParentsLaws
      <3>7. f[s] = InViews(kind, s) + a + l
          BY <3>2, <3>3 DEF Balanced
      <3>8. InViews(kind, s) \in Int
          BY DEF InViews, Once
      <3> HIDE DEF a, l
      <3>9. f[s] = InViews(kind, s) + a
          BY <3>6, <3>7, <3>8
      <3>10. QED
          BY <3>9 DEF f, a
    <2>2. ASSUME SceneInv, CountsInv, calls = <<>>, audio.at # "remove",
                 NEW s \in Sources
          PROVE  /\ show_refs[s] =
                        Once(views.main = s) + Once(views.preview = s)
                        + OfParents(show_refs, Active, s)
                 /\ activate_refs[s] = Once(views.main = s)
                        + OfParents(activate_refs, Active, s)
      <3>1. "show" \in Kinds /\ "activate" \in Kinds
          BY DEF Kinds
      <3>2. RefsOf("show") = show_refs /\ RefsOf("activate") = activate_refs
          BY DEF RefsOf
      <3>3. /\ InViews("show", s) =
                   Once(views.main = s) + Once(views.preview = s)
            /\ InViews("activate", s) = Once(views.main = s)
          BY DEF InViews, Once
      <3>4. QED
          BY <2>1, <2>2, <3>1, <3>2, <3>3
    <2>3. QED
        BY <2>2 DEF RefsMatch
  <1>2. SceneInit => SceneInv /\ ActionsInv /\ CountsInv
      BY SceneInitInv, InitActionsInv, InitCountsInv
  <1>3. SceneInv /\ ActionsInv /\ CountsInv /\ [SceneNext]_sceneVars =>
            (SceneInv /\ ActionsInv /\ CountsInv)'
      BY SceneNextInv, NextActionsInv, NextCountsInv
  <1>4. QED
      BY <1>1, <1>2, <1>3, ItemCountsMatch, PTL DEF SceneSpec

-----------------------------------------------------------------------------
(* The types of the scenes                                                  *)

SceneTyped ==
    /\ CountsTyped /\ calls \in Seq(CallType)
    /\ removed \subseteq Inputs /\ order \subseteq Scenes /\ changes \in Nat

\* Counting a tree any number of times gives numbers.
LEMMA CountTyped ==
  ASSUME ItemsTyped, NoActiveCycle, NEW refs \in [Sources -> Int], NEW s,
         NEW n \in Int
  PROVE  Count(refs, s, n) \in [Sources -> Int]
  <1>1. Count(refs, s, n) = [t \in Sources |-> refs[t] + n * Paths(s)[t]]
      BY PathsLaws
  <1>2. \A t \in Sources : refs[t] + n * Paths(s)[t] \in Int
      BY PathsLaws
  <1>3. QED
      BY <1>1, <1>2

\* A child that is put below a parent, or taken away from it.
LEMMA ChildTyped ==
  ASSUME ItemsTyped, NoActiveCycle, CountsTyped, NEW p \in Sources,
         NEW c \in Sources, AddActiveChild(p, c) \/ RemoveActiveChild(p, c)
  PROVE  show_refs' \in [Sources -> Int] /\ activate_refs' \in [Sources -> Int]
  <1>1. ASSUME NEW x \in Int, NEW y \in Int
        PROVE  Max({x, y}) \in Int /\ Min({x, y}) \in Int
    <2>1. x <= y \/ y <= x
        OBVIOUS
    <2>2. QED
        BY <2>1, MaxMinOfTwo
  <1>2. /\ show_refs \in [Sources -> Int] /\ activate_refs \in [Sources -> Int]
        /\ show_refs[p] \in Int /\ activate_refs[p] \in Int
        /\ show_refs[c] \in Int /\ activate_refs[c] \in Int
      BY DEF CountsTyped
  <1>3. /\ Max({0, show_refs[p]}) \in Int /\ Max({0, activate_refs[p]}) \in Int
        /\ Max({0, show_refs[c]}) \in Int /\ Max({0, activate_refs[c]}) \in Int
    <2>1. 0 \in Int
        OBVIOUS
    <2>2. QED
        BY <1>1, <1>2, <2>1
  <1>4. Shown(p) \in Int /\ ShownMain(p) \in Int
    <2>1. Shown(p) \in Int
        BY <1>3 DEF Shown
    <2>2. QED
        BY <1>1, <1>3, <2>1 DEF ShownMain
  <1>5. CASE AddActiveChild(p, c)
      BY <1>2, <1>4, <1>5, CountTyped DEF AddActiveChild
  <1>6. CASE RemoveActiveChild(p, c)
    <2> DEFINE n == Min({Shown(p), Max({0, show_refs[c]})})
               m == Min({ShownMain(p), Max({0, activate_refs[c]})})
    <2>1. n \in Int /\ m \in Int
        BY <1>1, <1>3, <1>4
    <2>2. /\ show_refs' = Count(show_refs, c, -n)
          /\ activate_refs' = Count(activate_refs, c, -m)
        BY <1>6 DEF RemoveActiveChild
    <2> HIDE DEF n, m
    <2>3. -n \in Int /\ -m \in Int
        BY <2>1
    <2>4. QED
        BY <1>2, <2>2, <2>3, CountTyped
  <1>7. QED
      BY <1>5, <1>6

\* An item that is there, and one that is taken out.
LEMMA UncountTyped ==
  ASSUME ItemsTyped, NoActiveCycle, CountsTyped, NEW i \in Pairs, Uncount(i)
  PROVE  show_refs' \in [Sources -> Int] /\ activate_refs' \in [Sources -> Int]
  <1>1. i[1] \in Sources /\ i[2] \in Sources
      BY SceneAssumption DEF Sources
  <1>2. CASE items[i].active_refs > 0
      BY <1>1, <1>2, ChildTyped DEF Uncount
  <1>3. CASE ~(items[i].active_refs > 0)
      BY <1>3 DEF Uncount, shownVars, CountsTyped
  <1>4. QED
      BY <1>2, <1>3

\* The calls of the frontend.
LEMMA FrontendTyped ==
  ASSUME SceneInv, SceneTyped, FrontendStep
  PROVE  SceneTyped'
  <1>1. /\ ItemsTyped /\ NoActiveCycle /\ CountsTyped
        /\ show_refs \in [Sources -> Int] /\ activate_refs \in [Sources -> Int]
        /\ \A i \in Pairs : i[1] \in Sources /\ i[2] \in Sources
      BY SceneAssumption DEF SceneInv, SceneTyped, CountsTyped, Sources
  <1>2. ASSUME NEW v \in DOMAIN views, NEW s \in Scenes \cup {NoScene},
               ChangeView(v, s)
        PROVE  SceneTyped'
    <2>1. PICK old \in Scenes \cup {NoScene} : old = views[v]
        BY <1>1 DEF CountsTyped
    <2>2. PICK r : r = calls'
        OBVIOUS
    <2>3. /\ r = CallsFor(v, 1, s) \o CallsFor(v, -1, old) /\ s # old
          /\ v \in {"main", "preview"}
          /\ views' = [views EXCEPT ![v] = s]
          /\ views \in [{"main", "preview"} -> Scenes \cup {NoScene}]
        BY <1>1, <1>2, <2>1, <2>2 DEF ChangeView, CountsTyped
    <2>4. AreOfChange(r, v, s, old)
        BY <2>3, CallsOfChange
    <2>5. calls' \in Seq(CallType)
        BY <2>2, <2>4 DEF AreOfChange, Fresh
    <2>6. CountsTyped'
        BY <1>1, <1>2, <2>3 DEF ChangeView, CountsTyped, shownVars
    <2>7. QED
        BY <1>2, <2>5, <2>6 DEF ChangeView, SceneTyped, sceneAudioVars
  <1>3. ASSUME NEW i \in Pairs,
               AddItem(i) \/ ShowItem(i) \/ HideItem(i) \/ RemoveItem(i)
        PROVE  SceneTyped'
    <2>1. /\ UNCHANGED <<views, calls, removed, order>>
          /\ changes' = changes - 1 /\ changes > 0
        BY <1>3 DEF AddItem, ShowItem, HideItem, RemoveItem, sceneAudioVars
    <2>2. \/ AddActiveChild(i[1], i[2]) \/ Uncount(i)
          \/ UNCHANGED <<show_refs, activate_refs>>
        BY <1>3 DEF AddItem, ShowItem, HideItem, RemoveItem, Hide, Detach,
                    shownVars
    <2>3. /\ show_refs' \in [Sources -> Int]
          /\ activate_refs' \in [Sources -> Int]
        BY <1>1, <2>2, ChildTyped, UncountTyped
    <2>4. QED
        BY <2>1, <2>3 DEF SceneTyped, CountsTyped
  <1>4. ASSUME NEW s \in Inputs, RemoveSource(s) PROVE SceneTyped'
      BY <1>4
         DEF RemoveSource, SceneTyped, CountsTyped, shownVars, sceneAudioVars
  <1>5. QED
      BY <1>2, <1>3, <1>4 DEF FrontendStep

\* What a change of the views counts.
LEMMA CallStepTyped ==
  ASSUME SceneInv, SceneTyped, CallStep
  PROVE  SceneTyped'
  <1> DEFINE call == Head(calls)
  <1>1. /\ calls # <<>> /\ call \in CallType /\ call = calls[1]
        /\ calls \in Seq(CallType) /\ 1 \in DOMAIN calls
        /\ UNCHANGED <<views, removed, order, changes>>
      BY DEF CallStep, CountSource, CountTree, SceneTyped, sceneAudioVars
  <1>2. /\ show_refs \in [Sources -> Int] /\ activate_refs \in [Sources -> Int]
        /\ call.delta \in Int /\ call.source \in Sources
        /\ Visits(call.source) \in [Sources -> Int]
    <2>1. call.delta \in Int /\ call.source \in Sources
        BY <1>1 DEF CallType, Sources
    <2>2. Visits(call.source) \in [Sources -> Int]
        BY VisitsLaws DEF SceneInv
    <2>3. QED
        BY <2>1, <2>2 DEF SceneTyped, CountsTyped
  <1>3. calls' \in Seq(CallType)
    <2>1. calls' = Tail(calls) \/ calls' = [calls EXCEPT ![1].at = "walk"]
        BY DEF CallStep, CountSource, CountTree
    <2>2. [calls EXCEPT ![1].at = "walk"] \in Seq(CallType)
      <3> DEFINE walk == [call EXCEPT !.at = "walk"]
      <3>1. walk \in CallType
          BY <1>1 DEF CallType
      <3>2. [calls EXCEPT ![1].at = "walk"] = [calls EXCEPT ![1] = walk]
          BY <1>1
      <3> HIDE DEF walk
      <3>3. QED
          BY <1>1, <3>1, <3>2
    <2>3. Tail(calls) \in Seq(CallType)
        BY <1>1
    <2>4. QED
        BY <2>1, <2>2, <2>3
  <1>4. show_refs' \in [Sources -> Int] /\ activate_refs' \in [Sources -> Int]
    <2> DEFINE One(refs) == [refs EXCEPT ![call.source] = @ + call.delta]
               All(refs) == [s \in Sources |->
                                refs[s] + call.delta * Visits(call.source)[s]]
    <2>1. ASSUME NEW refs \in [Sources -> Int]
          PROVE  One(refs) \in [Sources -> Int] /\ All(refs) \in [Sources -> Int]
      <3>1. \A s \in Sources : refs[s] + call.delta * Visits(call.source)[s] \in Int
          BY <1>2
      <3>2. One(refs) \in [Sources -> Int]
          BY <1>2
      <3>3. QED
          BY <3>1, <3>2
    <2>2. /\ \/ show_refs' = show_refs \/ show_refs' = One(show_refs)
             \/ show_refs' = All(show_refs)
          /\ \/ activate_refs' = activate_refs
             \/ activate_refs' = One(activate_refs)
             \/ activate_refs' = All(activate_refs)
        BY DEF CallStep, CountSource, CountTree, shownVars
    <2> HIDE DEF One, All
    <2>3. QED
        BY <1>2, <2>1, <2>2
  <1>5. QED
      BY <1>1, <1>3, <1>4 DEF SceneTyped, CountsTyped

\* Every step keeps the types.
LEMMA NextSceneTyped ==
  SceneInv /\ ActionsInv /\ SceneTyped /\ [SceneNext]_sceneVars => SceneTyped'
  <1> SUFFICES ASSUME SceneInv, ActionsInv, SceneTyped, [SceneNext]_sceneVars
               PROVE  SceneTyped'
      OBVIOUS
  <1>1. ASSUME UNCHANGED <<views, show_refs, activate_refs, calls, removed,
                           changes>>,
               order' \subseteq Scenes
        PROVE  SceneTyped'
      BY <1>1 DEF SceneTyped, CountsTyped
  <1>2. CASE \/ UNCHANGED sceneVars \/ ApplyStep \/ Deref \/ BuildOrder
             \/ \E s \in Scenes : LeaveScene(s)
    <2>1. /\ UNCHANGED <<views, show_refs, activate_refs, calls, removed,
                         changes>>
          /\ order' \subseteq Scenes
        BY <1>2 DEF ApplyStep, ApplyActions, Deref, BuildOrder, LeaveScene,
                    sceneVars, shownVars, sceneAudioVars, SceneTyped
    <2>2. QED
        BY <1>1, <2>1
  <1>3. CASE FrontendStep \/ CallStep
      BY <1>3, FrontendTyped, CallStepTyped
  <1>4. CASE RemoveHidden \/ \E i \in Pairs : RenderRemoves(i)
    <2>1. /\ \/ \E i \in Pairs : Uncount(i)
             \/ RemoveActiveChild(audio.item[1], audio.item[2])
          /\ UNCHANGED <<views, calls, removed, order, changes>>
        BY <1>4 DEF RemoveHidden, RenderRemoves, Detach, sceneAudioVars
    <2>2. /\ show_refs' \in [Sources -> Int]
          /\ activate_refs' \in [Sources -> Int]
      <3>1. ItemsTyped /\ NoActiveCycle /\ CountsTyped
          BY DEF SceneInv, SceneTyped
      <3>2. CASE \E i \in Pairs : Uncount(i)
          BY <3>1, <3>2, UncountTyped
      <3>3. CASE RemoveHidden
        <4>1. audio.item \in Pairs
            BY <3>3 DEF RemoveHidden, ActionsInv, HiderCounts
        <4>2. audio.item[1] \in Sources /\ audio.item[2] \in Sources
            BY <4>1, SceneAssumption DEF Sources
        <4>3. QED
            BY <3>1, <3>3, <4>2, ChildTyped DEF RemoveHidden
      <3>4. QED
          BY <1>4, <3>2, <3>3 DEF RenderRemoves, Detach
    <2>3. QED
        BY <2>1, <2>2 DEF SceneTyped, CountsTyped
  <1>5. QED
      BY <1>2, <1>3, <1>4 DEF SceneNext, AudioStep

\* The scenes keep their types whatever coincides; that no item is counted less
\* than never follows from what its count stands for.
THEOREM ScenesAreTyped ==
  SceneSpec => []SceneTypeOK
  <1>1. SceneInv /\ ActionsInv /\ SceneTyped => SceneTypeOK
    <2>1. ASSUME SceneInv, ActionsInv, NEW i \in DOMAIN items
          PROVE  items[i] \in ItemType
      <3>1. /\ items[i] \in [active_refs : Int, visible : BOOLEAN,
                             user_visible : BOOLEAN, actions : Seq(BOOLEAN)]
            /\ ItemMatches(items[i], ToUncount(i))
          BY <2>1 DEF SceneInv, ItemsTyped, ItemTyped, ActionsInv
      <3>2. /\ ToUncount(i) \in Nat
            /\ Cardinality(Hides(items[i].actions)) \in Nat
            /\ Once(items[i].user_visible) \in Nat
          BY <2>1, <3>1, HidesLaws DEF ActionsInv, HiderCounts, ToUncount, Once
      <3>3. items[i].active_refs \in Nat
          BY <3>1, <3>2 DEF ItemMatches
      <3>4. QED
          BY <3>1, <3>3 DEF ItemType
    <2>2. QED
        BY <2>1 DEF SceneTypeOK, SceneTyped, CountsTyped, SceneInv, ItemsTyped,
                    ActionsInv, HiderCounts
  <1>2. SceneInit => SceneInv /\ ActionsInv /\ SceneTyped
    <2>1. SceneInit => SceneTyped
      <3>1. ASSUME SceneInit PROVE SceneTyped
        <4>1. CountsTyped
            BY <3>1, InitCountsInv DEF CountsInv
        <4>2. <<>> \in Seq(CallType)
            OBVIOUS
        <4>3. QED
            BY <3>1, <4>1, <4>2, SceneAssumption DEF SceneInit, SceneTyped
      <3>2. QED
          BY <3>1
    <2>2. QED
        BY <2>1, SceneInitInv, InitActionsInv
  <1>3. SceneInv /\ ActionsInv /\ SceneTyped /\ [SceneNext]_sceneVars =>
            (SceneInv /\ ActionsInv /\ SceneTyped)'
      BY SceneNextInv, NextActionsInv, NextSceneTyped
  <1>4. QED
      BY <1>1, <1>2, <1>3, PTL DEF SceneSpec
================================================================================
