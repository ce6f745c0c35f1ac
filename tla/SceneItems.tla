------------------------------- MODULE SceneItems ------------------------------
(***************************************************************************)
(* The items of scenes (obs-scene.c) and the counts that say which sources   *)
(* are shown and active (obs-source.c): the frontend's thread puts scenes    *)
(* into the main view and the preview and adds, hides and removes items; an  *)
(* item with audio is hidden by the audio thread, when the time of its       *)
(* hiding has come; the graphics thread takes out items of removed sources.  *)
(* An operator whose comment says it is faulty is used by no action.         *)
(***************************************************************************)
EXTENDS Integers, Sequences, FiniteSetsExt

CONSTANTS
    Scenes, Inputs,   \* the sources: scenes, which have audio, and others
    AudioInputs,      \* those of the others that have audio
    Pairs,            \* the items there may be: scene and source
    Loaded,           \* what is loaded: items, and whether they are visible
    MaxChanges,       \* bound: calls of the frontend
    SceneRaces        \* what may coincide, see below

NoScene == "none"

\* "gap": the audio thread hides an item while obs_source_activate or
\* obs_source_deactivate is between the count of a source and its children's;
\* "render": the graphics thread takes out an item that the audio thread hides.
ASSUME SceneAssumption ==
    /\ IsFiniteSet(Scenes) /\ Scenes \cap Inputs = {}
    /\ NoScene \notin Scenes \cup Inputs
    /\ AudioInputs \subseteq Inputs
    /\ Pairs \subseteq Scenes \X (Scenes \cup Inputs)
    /\ \A i \in Pairs : i[1] # i[2]
    /\ \A l \in Loaded :
           DOMAIN l \subseteq Pairs /\ \A i \in DOMAIN l : l[i] \in BOOLEAN
    /\ MaxChanges \in Nat /\ SceneRaces \subseteq {"gap", "render"}

Sources == Scenes \cup Inputs

VARIABLES
    views,      \* the scene in the main view and the one in the preview
    show_refs, activate_refs,
    items,      \* struct obs_scene_item of the items there are
    removed,    \* the sources that are marked as removed
    calls,      \* what is left of a change of the views: see ChangeView
    order,      \* the scenes the audio thread has still to render
    audio,      \* an item it hides: at "deref", "remove", or "idle"
    changes

shownVars == <<show_refs, activate_refs>>
sceneAudioVars == <<order, audio>>
sceneVars ==
    <<views, shownVars, items, removed, calls, sceneAudioVars, changes>>

HasAudio(source) == source \in Scenes \cup AudioInputs

Once(b) == IF b THEN 1 ELSE 0

NoItem == [at |-> "idle", item |-> <<>>, count |-> 0]

\* scene_load_item: every item is added, and hidden if it was.
SceneInit ==
    /\ views = [main |-> NoScene, preview |-> NoScene]
    /\ show_refs = [s \in Sources |-> 0] /\ activate_refs = show_refs
    /\ \E l \in Loaded :
           items = [i \in DOMAIN l |->
                       [active_refs |-> Once(l[i]), visible |-> l[i],
                        user_visible |-> l[i], actions |-> <<>>]]
    /\ removed = {}
    /\ calls = <<>> /\ order = {} /\ audio = NoItem
    /\ changes = MaxChanges

-----------------------------------------------------------------------------
(* The tree of active items                                                 *)

Active == {i \in DOMAIN items : items[i].active_refs > 0}

\* What can be reached from the roots.
Reach(roots, edges) ==
    LET near[n \in 0 .. Cardinality(Scenes)] ==
            IF n = 0 THEN roots
            ELSE LET before == near[n - 1]
                 IN  before \cup {i[2] : i \in {e \in edges : e[1] \in before}}
    IN  near[Cardinality(Scenes)]

\* No scene is below itself.
Acyclic(edges) ==
    \A s \in Scenes :
        s \notin Reach({i[2] : i \in {e \in edges : e[1] = s}}, edges)

\* scene_load_item adds with obs_scene_add, which tests what MayAdd says.
ASSUME LoadedAssumption ==
    \A l \in Loaded : Acyclic({i \in DOMAIN l : l[i]})

\* What the parents of a source have together, one for each item.
OfParents(refs, edges, source) ==
    SumFunctionOnSet([i \in Pairs |-> refs[i[1]]],
                     {i \in edges : i[2] = source})

\* obs_source_enum_active_tree: how often the walk comes to each source, by way
\* of the root itself and of what it has come to in fewer steps.
Visits(root) ==
    LET come[n \in 0 .. Cardinality(Scenes)] ==
            IF n = 0 THEN [s \in Sources |-> 0]
            ELSE LET past == [s \in Sources |-> come[n - 1][s] + Once(s = root)]
                 IN  [s \in Sources |-> OfParents(past, Active, s)]
    IN  come[Cardinality(Scenes)]

\* obs_source_enum_full_tree: all children of the root, of the others only the
\* active ones.
FullTree(root) ==
    Reach({i[2] : i \in {e \in DOMAIN items : e[1] = root}}, Active)

\* Whether the audio thread holds the mutex of one of these scenes.
Locked(scenes) == audio.at # "idle" /\ audio.item[1] \in scenes

Count(refs, source, n) ==
    [s \in Sources |-> refs[s] + n * (Visits(source)[s] + Once(s = source))]

\* The number of activations that a parent passes on, of the main view's among
\* them.
Shown(parent) == Max({0, show_refs[parent]})
ShownMain(parent) == Min({Shown(parent), Max({0, activate_refs[parent]})})

\* Faulty: only what the parent is itself is not added to it.
MayAddBelow(parent, child) == parent # child

\* obs_source_add_active_child, unless the parent is below the child.
MayAdd(parent, child) == parent # child /\ parent \notin FullTree(child)

AddActiveChild(parent, child) ==
    /\ ~Locked(Reach({child}, Active))
    /\ show_refs' = Count(show_refs, child, Shown(parent))
    /\ activate_refs' = Count(activate_refs, child, ShownMain(parent))

\* obs_source_remove_active_child: no count of the child falls below zero.
RemoveActiveChild(parent, child) ==
    LET AtMost(n, refs) == Min({n, Max({0, refs[child]})})
    IN  /\ ~Locked(Reach({child}, Active))
        /\ show_refs' = Count(show_refs, child,
                              -AtMost(Shown(parent), show_refs))
        /\ activate_refs' = Count(activate_refs, child,
                                  -AtMost(ShownMain(parent), activate_refs))

-----------------------------------------------------------------------------
(* The views                                                                *)

Call(refs, delta, source) ==
    [refs |-> refs, delta |-> delta, source |-> source, at |-> "count"]

\* obs_source_activate, obs_source_deactivate
CallsFor(view, delta, source) ==
    IF source = NoScene THEN <<>>
    ELSE IF view = "preview" THEN <<Call("show", delta, source)>>
    ELSE <<Call("show", delta, source), Call("activate", delta, source)>>

\* obs_set_output_source; obs_source_inc_showing and obs_source_dec_showing for
\* the preview: first the new source is activated, then the one before is not.
ChangeView(view, source) ==
    /\ calls = <<>> /\ changes > 0 /\ changes' = changes - 1
    /\ source # views[view]
    /\ views' = [views EXCEPT ![view] = source]
    /\ calls' = CallsFor(view, 1, source) \o CallsFor(view, -1, views[view])
    /\ UNCHANGED <<shownVars, items, removed, sceneAudioVars>>

\* The count of the source itself; what is not counted is not taken back.
CountSource ==
    /\ calls # <<>> /\ Head(calls).at = "count"
    /\ "gap" \in SceneRaces \/ audio.at = "idle"
    /\ LET call == Head(calls)
           refs == IF call.refs = "show" THEN show_refs ELSE activate_refs
           Changed(r) == [refs EXCEPT ![call.source] = @ + call.delta]
       IN  IF call.delta < 0 /\ refs[call.source] =< 0
           THEN calls' = Tail(calls) /\ UNCHANGED shownVars
           ELSE /\ calls' = [calls EXCEPT ![1].at = "walk"]
                /\ IF call.refs = "show"
                   THEN show_refs' = Changed(refs) /\ UNCHANGED activate_refs
                   ELSE activate_refs' = Changed(refs) /\ UNCHANGED show_refs
    /\ UNCHANGED <<views, items, removed, sceneAudioVars, changes>>

\* show_tree, hide_tree, activate_tree, deactivate_tree
CountTree ==
    /\ calls # <<>> /\ Head(calls).at = "walk" /\ calls' = Tail(calls)
    /\ ~Locked(Reach({Head(calls).source}, Active))
    /\ LET call == Head(calls)
           Changed(refs) ==
               [s \in Sources |-> refs[s] + call.delta * Visits(call.source)[s]]
       IN  IF call.refs = "show"
           THEN show_refs' = Changed(show_refs) /\ UNCHANGED activate_refs
           ELSE activate_refs' = Changed(activate_refs) /\ UNCHANGED show_refs
    /\ UNCHANGED <<views, items, removed, sceneAudioVars, changes>>

-----------------------------------------------------------------------------
(* The items                                                                *)

\* The child of an item that is hidden at once is counted no longer.
Uncount(i) ==
    IF items[i].active_refs > 0 THEN RemoveActiveChild(i[1], i[2])
                                ELSE UNCHANGED shownVars

\* set_visibility(false)
Hide(i) ==
    /\ items' = [items EXCEPT ![i] = [active_refs |-> 0, visible |-> FALSE,
                                     user_visible |-> FALSE, actions |-> <<>>]]
    /\ Uncount(i)

\* set_visibility(false), detach_sceneitem
Detach(i) ==
    /\ items' = [j \in DOMAIN items \ {i} |-> items[j]]
    /\ Uncount(i)

\* obs_scene_add
AddItem(i) ==
    /\ calls = <<>> /\ changes > 0 /\ changes' = changes - 1
    /\ i \notin DOMAIN items /\ i[2] \notin removed
    /\ MayAdd(i[1], i[2])
    /\ ~Locked({i[1]}) /\ AddActiveChild(i[1], i[2])
    /\ items' = [j \in DOMAIN items \cup {i} |->
                    IF j # i THEN items[j]
                    ELSE [active_refs |-> 1, user_visible |-> TRUE,
                          visible |-> ~HasAudio(i[2]),
                          actions |-> IF HasAudio(i[2]) THEN <<TRUE>>
                                                        ELSE <<>>]]
    /\ UNCHANGED <<views, removed, calls, sceneAudioVars>>

\* Faulty: an item that is still counted, because the audio thread has not come
\* to its hiding, is not counted again.
ShowCounted(i) ==
    /\ calls = <<>> /\ changes > 0 /\ changes' = changes - 1
    /\ i \in DOMAIN items /\ ~items[i].user_visible
    /\ items[i].active_refs = 0 => MayAdd(i[1], i[2])
    /\ IF items[i].active_refs = 0 THEN AddActiveChild(i[1], i[2])
       ELSE UNCHANGED shownVars
    /\ items' = [items EXCEPT
                    ![i].active_refs = 1, ![i].user_visible = TRUE,
                    ![i].visible = @ \/ ~HasAudio(i[2]),
                    ![i].actions = IF HasAudio(i[2]) THEN Append(@, TRUE)
                                                     ELSE <<>>]
    /\ UNCHANGED <<views, removed, calls, sceneAudioVars>>

\* obs_sceneitem_set_visible(true)
ShowItem(i) ==
    /\ calls = <<>> /\ changes > 0 /\ changes' = changes - 1
    /\ i \in DOMAIN items /\ ~items[i].user_visible
    /\ items[i].active_refs = 0 => MayAdd(i[1], i[2])
    /\ IF items[i].active_refs = 0 THEN AddActiveChild(i[1], i[2])
       ELSE UNCHANGED shownVars
    /\ items' = [items EXCEPT
                    ![i].active_refs = IF HasAudio(i[2]) THEN @ + 1 ELSE 1,
                    ![i].user_visible = TRUE,
                    ![i].visible = @ \/ ~HasAudio(i[2]),
                    ![i].actions = IF HasAudio(i[2]) THEN Append(@, TRUE)
                                                     ELSE <<>>]
    /\ UNCHANGED <<views, removed, calls, sceneAudioVars>>

\* obs_sceneitem_set_visible(false): an item with audio is counted until the
\* audio thread has come to the action.
HideItem(i) ==
    /\ calls = <<>> /\ changes > 0 /\ changes' = changes - 1
    /\ i \in DOMAIN items /\ items[i].user_visible
    /\ IF HasAudio(i[2])
       THEN /\ items' = [items EXCEPT ![i].user_visible = FALSE,
                                      ![i].actions = Append(@, FALSE)]
            /\ UNCHANGED shownVars
       ELSE Hide(i)
    /\ UNCHANGED <<views, removed, calls, sceneAudioVars>>

\* obs_sceneitem_remove
RemoveItem(i) ==
    /\ calls = <<>> /\ changes > 0 /\ changes' = changes - 1
    /\ i \in DOMAIN items /\ ~Locked({i[1]})
    /\ Detach(i)
    /\ UNCHANGED <<views, removed, calls, sceneAudioVars>>

\* obs_source_remove
RemoveSource(s) ==
    /\ calls = <<>> /\ changes > 0 /\ changes' = changes - 1
    /\ s \in Inputs \ removed /\ removed' = removed \cup {s}
    /\ UNCHANGED <<views, shownVars, items, calls, sceneAudioVars>>

Displayed == Reach({views.main, views.preview},
                   {i \in DOMAIN items : items[i].user_visible})

\* scene_video_render: it has the video's mutex of the scene only.
RenderRemoves(i) ==
    /\ i \in DOMAIN items /\ i[2] \in removed /\ i[1] \in Displayed
    /\ calls = <<>> \/ "gap" \in SceneRaces
    /\ audio.item # i \/ "render" \in SceneRaces
    /\ Detach(i)
    /\ UNCHANGED <<views, removed, calls, sceneAudioVars, changes>>

-----------------------------------------------------------------------------
(* The audio thread                                                         *)

\* Faulty: the scenes below the one in the main view are left out.
BuildRoots ==
    /\ order = {} /\ audio.at = "idle"
    /\ order' = {views.main} \cap Scenes
    /\ order' # {}
    /\ UNCHANGED <<views, shownVars, items, removed, calls, audio, changes>>

\* audio_callback: the scenes in the main view and below it are rendered.
BuildOrder ==
    /\ order = {} /\ audio.at = "idle"
    /\ order' = Reach({views.main}, Active) \cap Scenes
    /\ order' # {}
    /\ UNCHANGED <<views, shownVars, items, removed, calls, audio, changes>>

\* Faulty: each action that is due uncounts the item.
ApplyShows(i, n) ==
    /\ i \in DOMAIN items /\ i[1] \in order /\ audio.at = "idle"
    /\ calls = <<>> \/ "gap" \in SceneRaces
    /\ n \in 1 .. Len(items[i].actions)
    /\ items' = [items EXCEPT ![i].visible = items[i].actions[n],
                             ![i].actions = SubSeq(@, n + 1, Len(@))]
    /\ audio' = [at |-> "deref", item |-> i, count |-> n]
    /\ UNCHANGED <<views, shownVars, removed, calls, order, changes>>

\* apply_scene_item_audio_actions: the actions whose time has come.
ApplyActions(i, n) ==
    /\ i \in DOMAIN items /\ i[1] \in order /\ audio.at = "idle"
    /\ calls = <<>> \/ "gap" \in SceneRaces
    /\ n \in 1 .. Len(items[i].actions)
    /\ LET due  == SubSeq(items[i].actions, 1, n)
           hide == Cardinality({k \in 1 .. n : ~due[k]})
       IN  /\ items' = [items EXCEPT ![i].visible = due[n],
                                     ![i].actions = SubSeq(@, n + 1, Len(@))]
           /\ audio' = IF hide = 0 THEN NoItem
                       ELSE [at |-> "deref", item |-> i, count |-> hide]
    /\ UNCHANGED <<views, shownVars, removed, calls, order, changes>>

\* An item that was taken out has no parent: the program would crash.
Deref ==
    /\ audio.at = "deref" /\ audio.item \in DOMAIN items
    /\ LET i    == audio.item
           left == items[i].active_refs - 1
       IN  /\ items' = [items EXCEPT ![i].active_refs = left]
           /\ audio' = IF left # 0 /\ audio.count = 1 THEN NoItem
                       ELSE [audio EXCEPT
                                !.at = IF left = 0 THEN "remove" ELSE "deref",
                                !.count = @ - 1]
    /\ UNCHANGED <<views, shownVars, removed, calls, order, changes>>

RemoveHidden ==
    /\ audio.at = "remove" /\ audio.item \in DOMAIN items
    /\ RemoveActiveChild(audio.item[1], audio.item[2])
    /\ audio' = IF audio.count = 0 THEN NoItem
                ELSE [audio EXCEPT !.at = "deref"]
    /\ UNCHANGED <<views, items, removed, calls, order, changes>>

\* scene_audio_render is at its end.
LeaveScene(s) ==
    /\ s \in order /\ audio.at = "idle" /\ order' = order \ {s}
    /\ UNCHANGED <<views, shownVars, items, removed, calls, audio, changes>>

-----------------------------------------------------------------------------

FrontendStep ==
    \/ \E v \in DOMAIN views, s \in Scenes \cup {NoScene} : ChangeView(v, s)
    \/ \E i \in Pairs :
           AddItem(i) \/ ShowItem(i) \/ HideItem(i) \/ RemoveItem(i)
    \/ \E s \in Inputs : RemoveSource(s)

CallStep  == CountSource \/ CountTree
ApplyStep == \E i \in Pairs, n \in 1 .. MaxChanges : ApplyActions(i, n)
AudioStep ==
    BuildOrder \/ Deref \/ RemoveHidden \/ \E s \in Scenes : LeaveScene(s)

SceneNext ==
    \/ FrontendStep \/ CallStep \/ ApplyStep \/ AudioStep
    \/ \E i \in Pairs : RenderRemoves(i)

\* A call of the frontend ends, the audio thread renders again and again, and
\* the time of an action comes while it does.
SceneFairness ==
    /\ WF_sceneVars(CallStep) /\ WF_sceneVars(AudioStep)
    /\ SF_sceneVars(ApplyStep)

SceneSpec == SceneInit /\ [][SceneNext]_sceneVars /\ SceneFairness

-----------------------------------------------------------------------------
(* Properties                                                               *)

ItemType == [active_refs : Nat, visible : BOOLEAN, user_visible : BOOLEAN,
             actions : Seq(BOOLEAN)]

SceneTypeOK ==
    /\ DOMAIN views = {"main", "preview"}
    /\ \A v \in DOMAIN views : views[v] \in Scenes \cup {NoScene}
    /\ show_refs \in [Sources -> Int] /\ activate_refs \in [Sources -> Int]
    /\ DOMAIN items \subseteq Pairs
    /\ \A i \in DOMAIN items : items[i] \in ItemType
    /\ removed \subseteq Inputs /\ order \subseteq Scenes
    /\ audio.at \in {"idle", "deref", "remove"}
    /\ changes \in Nat

\* An item is counted for its being visible and for each time it was hidden and
\* the audio thread has not come to it; when it has come to all of them, what is
\* heard is what the user wants to see.
ActionsMatch ==
    \A i \in DOMAIN items :
        LET item  == items[i]
            hides == {k \in DOMAIN item.actions : ~item.actions[k]}
        IN  /\ item.active_refs = Once(item.user_visible) + Cardinality(hides)
                      + IF audio.item = i THEN audio.count ELSE 0
            /\ item.actions = <<>> => item.visible = item.user_visible

\* However items are added, hidden, shown again before the audio thread has come
\* to it and removed, below scenes that enter and leave the views: a source is
\* shown once for every view it is in and for every time that a scene is shown
\* in which it is an active item, and it is active for the main view alike.
RefsMatch ==
    /\ ActionsMatch
    /\ calls = <<>> /\ audio.at # "remove" =>
        \A s \in Sources :
            /\ show_refs[s] =
                   Once(views.main = s) + Once(views.preview = s)
                   + OfParents(show_refs, Active, s)
            /\ activate_refs[s] =
                   Once(views.main = s) + OfParents(activate_refs, Active, s)

\* "Failed to add source to scene due to infinite source recursion"
\* (obs-scene.c:1377): although the test looks at active items only, below the
\* first level, no scene becomes an active part of itself, not by adding items
\* and not by showing hidden ones.
NoActiveCycle == Acyclic(Active)

\* obs_source_showing
Showing(s) == show_refs[s] # 0

\* "Returns true if currently displayed somewhere (active or not), false if not"
\* (obs.h:862): the counts come to say so when the frontend has done its last
\* change, though items with audio are hidden later than the user hides them; as
\* long as the preview has no scene of its own, because the audio thread never
\* comes to the items of a scene that is in the preview only.
QuietShowingIsDisplayed ==
    LET Stale == \E s \in Sources : Showing(s) /\ s \notin Displayed
        Alone == views.preview \in {NoScene, views.main}
    IN  Stale /\ Alone ~> ~Stale \/ ~Alone
================================================================================
