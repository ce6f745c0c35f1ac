----------------------------- MODULE SourceRefs -----------------------------
(***************************************************************************)
(* Who holds a source, and who frees it: the counts of obs-internal.h, the  *)
(* references and the destruction of libobs/obs-source.c, the search by     *)
(* name and the output channel of obs.c, the walks of the graphics thread   *)
(* (tick_sources) and of the audio thread (audio_callback) over their lists *)
(* of sources.  One source: its memory, and that of its control block.  A   *)
(* count of references is one less than the references there are.           *)
(* An operator whose comment says it is faulty is used by no action.        *)
(***************************************************************************)
EXTENDS Integers, FiniteSets

CONSTANTS
    Users,      \* threads that call libobs
    MaxHeld,    \* bound: references a user holds at a time
    RefRaces    \* what may coincide, see below

(* "revive": the audio thread walks its list between the moment the count    *)
(* reached -1 and the moment the source has left that list.  Left out, the   *)
(* audio thread comes before or after.                                       *)
ASSUME SourceRefsAssumption ==
    /\ IsFiniteSet(Users) /\ {"audio", "graphics", "none"} \cap Users = {}
    /\ MaxHeld \in Nat /\ RefRaces \subseteq {"revive"}

VARIABLES
    source_refs, weak_refs,    \* struct obs_weak_ref
    listed, audio_listed,      \* in obs->data's two lists of sources
    sources_mutex,             \* the thread that holds it, or "none"
    audio_sources_mutex,
    channel,                   \* the output channel has the source
    freed, control_freed,
    thread,  \* where each thread is
    seen,    \* owners, in obs_weak_ref_get_ref
    held,    \* the references each thread has
    weak     \* the weak references each thread has

memVars   == <<freed, control_freed>>
listVars  == <<listed, audio_listed>>
lockVars  == <<sources_mutex, audio_sources_mutex>>
countVars == <<source_refs, weak_refs>>
refVars   == <<countVars, listVars, lockVars, channel, memVars, thread, seen,
               held, weak>>

Threads == Users \cup {"audio", "graphics"}

\* The user that created the source holds it.
RefInit ==
    \E u \in Users :
        /\ source_refs = 0 /\ weak_refs = 0
        /\ listed = TRUE /\ audio_listed = TRUE
        /\ sources_mutex = "none" /\ audio_sources_mutex = "none"
        /\ channel = FALSE /\ freed = FALSE /\ control_freed = FALSE
        /\ thread = [t \in Threads |-> "idle"] /\ seen = [t \in Threads |-> 0]
        /\ held = [t \in Threads |-> IF t = u THEN 1 ELSE 0]
        /\ weak = [t \in Threads |-> FALSE]

Goes(t, from, to) == thread[t] = from /\ thread' = [thread EXCEPT ![t] = to]

-----------------------------------------------------------------------------
(* Counted references                                                       *)

\* obs_source_addref, by somebody who holds a reference.
Addref(u) ==
    /\ thread[u] = "idle" /\ held[u] \in 1 .. (MaxHeld - 1)
    /\ source_refs' = source_refs + 1
    /\ held' = [held EXCEPT ![u] = @ + 1]
    /\ UNCHANGED <<weak_refs, listVars, lockVars, channel, memVars, thread,
                   seen, weak>>

\* Faulty: the reference that is given up last does not free the source.
ReleaseTooLate(t) ==
    /\ thread[t] = "idle" /\ held[t] > 0
    /\ source_refs' = source_refs - 1
    /\ held' = [held EXCEPT ![t] = @ - 1]
    /\ thread' = [thread EXCEPT ![t] = IF source_refs = -1 THEN "destroy" ELSE @]
    /\ UNCHANGED <<weak_refs, listVars, lockVars, channel, memVars, seen, weak>>

\* obs_source_release
ReleaseRef(t) ==
    /\ thread[t] = "idle" /\ held[t] > 0
    /\ source_refs' = source_refs - 1
    /\ held' = [held EXCEPT ![t] = @ - 1]
    /\ thread' = [thread EXCEPT ![t] = IF source_refs = 0 THEN "destroy" ELSE @]
    /\ UNCHANGED <<weak_refs, listVars, lockVars, channel, memVars, seen, weak>>

\* obs_source_destroy, with the two lists it leaves.
LeaveAudioList(t) ==
    /\ audio_sources_mutex = "none"
    /\ Goes(t, "destroy", "unlist")
    /\ audio_listed' = FALSE
    /\ UNCHANGED <<countVars, listed, lockVars, channel, memVars, seen, held,
                   weak>>

\* obs_context_data_remove
LeaveList(t) ==
    /\ sources_mutex = "none"
    /\ Goes(t, "unlist", "free")
    /\ listed' = FALSE
    /\ UNCHANGED <<countVars, audio_listed, lockVars, channel, memVars, seen,
                   held, weak>>

FreeSource(t) ==
    /\ Goes(t, "free", "release_control")
    /\ freed' = TRUE
    /\ UNCHANGED <<countVars, listVars, lockVars, channel, control_freed, seen,
                   held, weak>>

\* obs_weak_source_release: the strong references have one of the weak ones.
ReleaseWeak ==
    /\ weak_refs' = weak_refs - 1
    /\ control_freed' = (control_freed \/ weak_refs = 0)

ReleaseControl(t) ==
    /\ Goes(t, "release_control", "idle")
    /\ ReleaseWeak
    /\ UNCHANGED <<source_refs, listVars, lockVars, channel, freed, seen, held,
                   weak>>

-----------------------------------------------------------------------------
(* Weak references and the search by name                                   *)

\* Faulty: the weak reference is not counted.
GetWeakUncounted(u) ==
    /\ thread[u] = "idle" /\ held[u] > 0 /\ ~weak[u]
    /\ weak' = [weak EXCEPT ![u] = TRUE]
    /\ UNCHANGED <<countVars, listVars, lockVars, channel, memVars, thread,
                   seen, held>>

\* obs_source_get_weak_source
GetWeak(u) ==
    /\ thread[u] = "idle" /\ held[u] > 0 /\ ~weak[u]
    /\ weak_refs' = weak_refs + 1
    /\ weak' = [weak EXCEPT ![u] = TRUE]
    /\ UNCHANGED <<source_refs, listVars, lockVars, channel, memVars, thread,
                   seen, held>>

DropWeak(u) ==
    /\ thread[u] = "idle" /\ weak[u]
    /\ ReleaseWeak
    /\ weak' = [weak EXCEPT ![u] = FALSE]
    /\ UNCHANGED <<source_refs, listVars, lockVars, channel, freed, thread,
                   seen, held>>

\* obs_weak_ref_get_ref begins with a look at the count.
Look(u, then) ==
    /\ seen' = [seen EXCEPT ![u] = source_refs]
    /\ thread' = [thread EXCEPT ![u] = IF source_refs > -1 THEN then ELSE "idle"]

\* obs_weak_source_get_source
GetSource(u) ==
    /\ thread[u] = "idle" /\ weak[u] /\ held[u] < MaxHeld
    /\ Look(u, "swap")
    /\ UNCHANGED <<countVars, listVars, lockVars, channel, memVars, held, weak>>

\* get_context_by_name with sources_mutex: a source that is listed is found.
FindByName(u) ==
    /\ thread[u] = "idle" /\ held[u] < MaxHeld
    /\ sources_mutex = "none" /\ listed
    /\ sources_mutex' = u
    /\ thread' = [thread EXCEPT ![u] = "found"]
    /\ UNCHANGED <<countVars, listVars, audio_sources_mutex, channel, memVars,
                   seen, held, weak>>

GetFound(u) ==
    /\ thread[u] = "found"
    /\ Look(u, "swap")
    /\ sources_mutex' = IF source_refs > -1 THEN u ELSE "none"
    /\ UNCHANGED <<countVars, listVars, audio_sources_mutex, channel, memVars,
                   held, weak>>

Unlocked(u) == IF sources_mutex = u THEN "none" ELSE sources_mutex

\* os_atomic_compare_swap_long, and another try when it fails.
Swap(u) ==
    /\ thread[u] = "swap"
    /\ IF source_refs = seen[u]
       THEN /\ source_refs' = source_refs + 1
            /\ held' = [held EXCEPT ![u] = @ + 1]
            /\ thread' = [thread EXCEPT ![u] = "idle"]
            /\ UNCHANGED seen
       ELSE Look(u, "swap") /\ UNCHANGED <<source_refs, held>>
    /\ sources_mutex' = IF thread'[u] = "idle" THEN Unlocked(u) ELSE sources_mutex
    /\ UNCHANGED <<weak_refs, listVars, audio_sources_mutex, channel, memVars,
                   weak>>

-----------------------------------------------------------------------------
(* The output channel, whose mutex the steps here are under                 *)

\* obs_set_output_source with the source ...
SetChannel(u) ==
    /\ thread[u] = "idle" /\ held[u] > 0 /\ ~channel
    /\ source_refs' = source_refs + 1
    /\ channel' = TRUE
    /\ UNCHANGED <<weak_refs, listVars, lockVars, memVars, thread, seen, held,
                   weak>>

\* ... and with another one: the caller has the reference of the channel now.
ClearChannel(u) ==
    /\ thread[u] = "idle" /\ channel /\ held[u] < MaxHeld
    /\ channel' = FALSE
    /\ held' = [held EXCEPT ![u] = @ + 1]
    /\ UNCHANGED <<countVars, listVars, lockVars, memVars, thread, seen, weak>>

-----------------------------------------------------------------------------
(* The walks                                                                *)

\* tick_sources: the graphics thread keeps sources_mutex.
TickSources ==
    /\ sources_mutex = "none" /\ listed
    /\ Goes("graphics", "idle", "walk")
    /\ sources_mutex' = "graphics"
    /\ UNCHANGED <<countVars, listVars, audio_sources_mutex, channel, memVars,
                   seen, held, weak>>

TickDone ==
    /\ Goes("graphics", "walk", "idle")
    /\ sources_mutex' = "none"
    /\ UNCHANGED <<countVars, listVars, audio_sources_mutex, channel, memVars,
                   seen, held, weak>>

\* obs_get_output_source, for the root nodes.
AudioGetsChannel ==
    /\ thread["audio"] = "idle" /\ held["audio"] = 0 /\ channel
    /\ source_refs' = source_refs + 1
    /\ held' = [held EXCEPT !["audio"] = 1]
    /\ UNCHANGED <<weak_refs, listVars, lockVars, channel, memVars, thread,
                   seen, weak>>

\* audio_callback takes audio_sources_mutex and calls push_audio_tree, which
\* uses obs_source_addref, for a source it does not have yet.
AudioWalks ==
    /\ "revive" \in RefRaces \/ source_refs > -1
    /\ audio_sources_mutex = "none" /\ audio_listed /\ held["audio"] = 0
    /\ Goes("audio", "idle", "walk")
    /\ audio_sources_mutex' = "audio"
    /\ source_refs' = source_refs + 1
    /\ held' = [held EXCEPT !["audio"] = 1]
    /\ UNCHANGED <<weak_refs, listVars, sources_mutex, channel, memVars, seen,
                   weak>>

\* The walk is over; the sources are rendered before they are released.
AudioWalked ==
    /\ Goes("audio", "walk", "idle")
    /\ audio_sources_mutex' = "none"
    /\ UNCHANGED <<countVars, listVars, sources_mutex, channel, memVars, seen,
                   held, weak>>

-----------------------------------------------------------------------------

Destroy(t) ==
    LeaveAudioList(t) \/ LeaveList(t) \/ FreeSource(t) \/ ReleaseControl(t)

SourceCall(u) ==
    \/ Addref(u) \/ GetWeak(u) \/ DropWeak(u) \/ GetSource(u) \/ FindByName(u)
    \/ SetChannel(u) \/ ClearChannel(u)

GetRef(u) == GetFound(u) \/ Swap(u)

RefNext ==
    \/ \E u \in Users : SourceCall(u) \/ GetRef(u)
    \/ \E t \in Users \cup {"audio"} : ReleaseRef(t) \/ Destroy(t)
    \/ TickSources \/ TickDone
    \/ AudioGetsChannel \/ AudioWalks \/ AudioWalked

\* Calls return and the walks end; nobody has to make a call.
RefFairness ==
    /\ \A t \in Users \cup {"audio"} : SF_refVars(Destroy(t))
    /\ \A u \in Users : WF_refVars(GetRef(u))
    /\ WF_refVars(TickDone) /\ WF_refVars(AudioWalked)
    /\ WF_refVars(ReleaseRef("audio"))

RefSpec == RefInit /\ [][RefNext]_refVars /\ RefFairness

-----------------------------------------------------------------------------
(* Properties                                                               *)

RefTypeOK ==
    /\ {source_refs, weak_refs} \subseteq Int
    /\ {listed, audio_listed, channel, freed, control_freed} \subseteq BOOLEAN
    /\ {sources_mutex, audio_sources_mutex} \subseteq Threads \cup {"none"}
    /\ thread \in [Threads -> {"idle", "destroy", "unlist", "free",
                               "release_control", "found", "swap", "walk"}]
    /\ seen \in [Threads -> Int] /\ held \in [Threads -> Nat]
    /\ weak \in [Threads -> BOOLEAN]

Destroying == {t \in Threads : thread[t] \in {"destroy", "unlist", "free"}}
Releasing == {t \in Threads : thread[t] = "release_control"}

\* "When the last reference is released, the source is destroyed" (obs.h,
\* obs_source_addref): not before, by one thread only, and not under one that
\* searches or walks a list it is in, however a search by name, a weak
\* reference and the channel meet the last release.
HeldIsAlive ==
    /\ channel \/ (\E t \in Threads : held[t] > 0) => ~freed /\ Destroying = {}
    /\ Cardinality(Destroying \cup Releasing) <= 1
    /\ (\E t \in Threads : thread[t] \in {"found", "walk"}) => ~freed

\* The control block outlives the source and everybody who looks at its count.
ControlAlive ==
    /\ ~freed \/ Releasing # {} => ~control_freed
    /\ (\E t \in Threads : weak[t] \/ thread[t] \in {"found", "swap"})
           => ~control_freed

\* Both, for the two blocks of memory that are freed one after the other.
NothingFreedInUse == HeldIsAlive /\ ControlAlive

\* A source nobody holds any more is freed, whoever has the mutexes it needs.
LastReleaseFrees == source_refs = -1 ~> freed
=============================================================================
