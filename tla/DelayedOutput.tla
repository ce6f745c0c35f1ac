---------------------------- MODULE DelayedOutput ----------------------------
(***************************************************************************)
(* A stream with a delay: libobs/obs-output-delay.c and the parts of        *)
(* libobs/obs-output.c that test delay_active.  The encoders run from the    *)
(* start of the delay to its end; their packets wait in delay_data together  *)
(* with the commands START and STOP, and whoever delivers a packet carries   *)
(* out what has become old enough.  Time is not counted: the packet that is  *)
(* delivered is never old enough, any earlier entry may be.  Connecting,      *)
(* sending and closing the connection are one thread, "stream"; StreamOutput  *)
(* has the threads of the RTMP output in detail.  The frontend does not start *)
(* an output that is delayed (window-basic-main.cpp:4451), nor does the model.*)
(* An operator whose comment says it is faulty is used by no action.        *)
(***************************************************************************)
EXTENDS Naturals, SequencesExt

CONSTANTS
    Encoders,     \* the encoder threads of the output
    Retries,      \* reconnect_retry_max
    MaxEntries,   \* bound: entries of delay_data
    MaxLosses,    \* bound: connections that break
    MaxRuns,      \* bound: calls of obs_output_start
    DelayRaces    \* what may coincide, see below

(* "connect": the stop is forced while a connection is being made;            *)
(* "begin": a connection is begun while the stop is forced;                   *)
(* "order": a command becomes old enough while another encoder's thread still *)
(* carries out the one before it.                                             *)
ASSUME DelayedOutputAssumption ==
    /\ {Retries, MaxEntries, MaxLosses, MaxRuns} \subseteq Nat
    /\ "user" \notin Encoders
    /\ DelayRaces \subseteq {"connect", "begin", "order"}

VARIABLES
    \* struct obs_output
    delay_data, delay_active, delay_capturing, delay_restart_refs,
    delay_preserve,    \* OBS_OUTPUT_DELAY_PRESERVE in delay_cur_flags
    output_active, output_data_active, output_reconnecting, output_retries,
    output_stopped,    \* stopping_event
    hooked,            \* the encoders process_delay is attached to
    at,                \* where the user's thread and the encoders' threads are
    stream,            \* "none", "connecting", "streaming"
    stream_stop,       \* the stream's stop_event
    ender, reconnecter,    \* the end-of-capture and the reconnect thread
    runs, losses,
    stopped_by_force   \* history: no start since the last forced stop ended

delayVars == <<delay_data, delay_active, delay_capturing, delay_restart_refs>>
phaseVars == <<output_active, output_data_active, output_reconnecting,
               output_retries>>
connectionVars == <<stream, stream_stop>>
helperVars == <<ender, reconnecter>>
boundVars == <<runs, losses, stopped_by_force, delay_preserve>>
delayedVars == <<delayVars, phaseVars, output_stopped, hooked, at,
                 connectionVars, helperVars, boundVars>>

User == "user"
Callers == {User} \cup Encoders

DelayedInit ==
    /\ delay_data = <<>> /\ delay_active = FALSE /\ delay_capturing = FALSE
    /\ delay_restart_refs = 0 /\ delay_preserve = FALSE
    /\ output_active = FALSE /\ output_data_active = FALSE
    /\ output_reconnecting = FALSE /\ output_retries = 0
    /\ output_stopped = TRUE /\ hooked = {}
    /\ at = [c \in Callers |-> "idle"]
    /\ stream = "none" /\ stream_stop = FALSE
    /\ ender = "none" /\ reconnecter = "none"
    /\ runs = 0 /\ losses = 0 /\ stopped_by_force = FALSE

Moves(c, from, to) == at[c] = from /\ at' = [at EXCEPT ![c] = to]
Lower(n) == IF n = 0 THEN 0 ELSE n - 1

-----------------------------------------------------------------------------
(* Operations of obs-output.c                                               *)

DelayedCapture == output_active /\ output_data_active

\* end_data_capture_thread is created.
DetachIf(ending) ==
    IF ending
    THEN ender = "none" /\ ender' = "unhook" /\ output_data_active' = FALSE
    ELSE UNCHANGED <<ender, output_data_active>>

\* obs_output_end_data_capture_internal, with delay_active and
\* delay_restart_refs as they are then: a capture that is to begin again keeps
\* its encoders.
EndCapture(signal, is_delayed, refs) ==
    LET again == DelayedCapture /\ is_delayed /\ refs > 0
    IN  /\ delay_active' = (is_delayed /\ (~DelayedCapture \/ again))
        /\ delay_capturing' = (delay_capturing /\ ~(DelayedCapture /\ is_delayed))
        /\ delay_restart_refs' = refs
        /\ output_stopped' = (output_stopped \/ again
                                 \/ (~DelayedCapture /\ signal))
        /\ DetachIf(DelayedCapture /\ ~again)

\* Faulty: the retries are counted and the count is not looked at.
ReconnectForever(refs) ==
    LET tried == IF output_reconnecting THEN output_retries ELSE 0
    IN  /\ EndCapture(FALSE, delay_active, refs)
        /\ output_reconnecting' = TRUE /\ output_retries' = tried + 1
        /\ reconnecter = "none" /\ reconnecter' = "wait"

\* output_reconnect and the end of the capture before it.
Reconnect(refs) ==
    LET tried == IF output_reconnecting THEN output_retries ELSE 0
    IN  /\ tried < Retries
        /\ EndCapture(FALSE, delay_active, refs)
        /\ output_reconnecting' = TRUE /\ output_retries' = tried + 1
        /\ reconnecter = "none" /\ reconnecter' = "wait"

\* The retries are used up: the capture is ended twice, first as one that begins
\* again.
AbandonDelayed(refs) ==
    /\ output_reconnecting /\ output_retries >= Retries
    /\ delay_active' = FALSE
    /\ delay_capturing' = (delay_capturing /\ ~(DelayedCapture /\ delay_active))
    /\ delay_restart_refs' = refs
    /\ output_stopped' = TRUE
    /\ DetachIf(DelayedCapture)
    /\ output_reconnecting' = FALSE
    /\ UNCHANGED <<output_retries, reconnecter>>

\* obs_output_signal_stop
Report(code) ==
    IF \/ output_reconnecting /\ code # "success"
       \/ Retries # 0 /\ code = "disconnected"
    THEN LET refs == IF delay_active THEN delay_restart_refs + 1
                     ELSE delay_restart_refs
         IN  Reconnect(refs) \/ AbandonDelayed(refs)
    ELSE /\ EndCapture(TRUE, FALSE, delay_restart_refs)
         /\ UNCHANGED <<output_reconnecting, output_retries, reconnecter>>

\* Faulty: the start stays counted.
ActuallyStartCounted ==
    /\ output_stopped
    /\ stream' = "connecting"
    /\ UNCHANGED delay_restart_refs

\* obs_output_actual_start, with the stream's start.
ActuallyStart ==
    /\ output_stopped
    /\ stream' = "connecting"
    /\ delay_restart_refs' = Lower(delay_restart_refs)

-----------------------------------------------------------------------------
(* obs_output_delay_start                                                   *)

\* The output is at rest: the capture begins, and with it the delay.
StartDelay ==
    /\ at[User] = "idle" /\ runs < MaxRuns /\ runs' = runs + 1
    /\ ~output_active /\ ~output_reconnecting /\ ender = "none"
    /\ delay_data' = Append(delay_data, "start")
    /\ delay_restart_refs' = delay_restart_refs + 1
    /\ delay_active' = TRUE /\ hooked' = Encoders /\ delay_preserve' \in BOOLEAN
    /\ output_active' = TRUE /\ output_data_active' = TRUE
    /\ stopped_by_force' = FALSE
    /\ UNCHANGED <<delay_capturing, output_reconnecting, output_retries,
                   output_stopped, at, connectionVars, helperVars, losses>>

-----------------------------------------------------------------------------
(* obs_output_stop and obs_output_force_stop                                *)

\* obs_output_delay_stop, once for a start: what comes after it is forced.
StopDelayed ==
    /\ at[User] = "idle" /\ output_active /\ ~output_reconnecting
    /\ ~Contains(delay_data, "stop") /\ Len(delay_data) < MaxEntries
    /\ delay_data' = Append(delay_data, "stop")
    /\ UNCHANGED <<delay_active, delay_capturing, delay_restart_refs,
                   phaseVars, output_stopped, hooked, at, connectionVars,
                   helperVars, boundVars>>

\* obs_output_force_stop, also by obs_output_stop while it reconnects.
ForceStopDelayed ==
    /\ output_active \/ output_reconnecting
    /\ \/ "connect" \in DelayRaces
       \/ stream # "connecting" /\ \A e \in Encoders : at[e] # "start"
    /\ Moves(User, "idle", "join")
    /\ UNCHANGED <<delayVars, phaseVars, output_stopped, hooked,
                   connectionVars, helperVars, boundVars>>

\* obs_output_actual_stop up to the join of the reconnect thread.
ActuallyStop(c) ==
    /\ at[c] = "join"
    /\ \/ /\ c # User /\ ~output_stopped
          /\ at' = [at EXCEPT ![c] = "pop"]
          /\ UNCHANGED output_stopped
       \/ /\ c = User \/ output_stopped
          /\ at' = [at EXCEPT ![c] =
                        IF output_reconnecting /\ reconnecter # "none"
                        THEN "joining" ELSE "stop"]
          /\ output_stopped' = FALSE
    /\ UNCHANGED <<delayVars, phaseVars, hooked, connectionVars, helperVars,
                   boundVars>>

Joined(c) ==
    /\ reconnecter = "none"
    /\ Moves(c, "joining", "stop")
    /\ UNCHANGED <<delayVars, phaseVars, output_stopped, hooked,
                   connectionVars, helperVars, boundVars>>

Returned(c) == IF c = User THEN "idle" ELSE "pop"

\* A forced stop ends the delay at once, and the stream if there is one.
EndDelay ==
    /\ delay_active
    /\ Moves(User, "stop", IF delay_capturing THEN "halt" ELSE "idle")
    /\ delay_active' = FALSE /\ delay_capturing' = FALSE
    /\ output_stopped' = TRUE
    /\ DetachIf(DelayedCapture)
    /\ stopped_by_force' = ~delay_capturing
    /\ UNCHANGED <<delay_data, delay_restart_refs, output_active,
                   output_reconnecting, output_retries, hooked, connectionVars,
                   reconnecter, runs, losses, delay_preserve>>

CallStop(c) ==
    /\ c # User \/ ~delay_active
    /\ Moves(c, "stop", "halt")
    /\ UNCHANGED <<delayVars, phaseVars, output_stopped, hooked,
                   connectionVars, helperVars, boundVars>>

\* The stream's stop: it joins the thread that connects, and either tells the
\* thread that sends or reports the end itself.
HaltStream(c) ==
    /\ stream # "connecting"
    /\ Moves(c, "halt", Returned(c))
    /\ \/ stream = "streaming" /\ stream_stop' = TRUE
          /\ UNCHANGED <<delayVars, phaseVars, output_stopped, helperVars>>
       \/ stream = "none" /\ Report("success")
          /\ UNCHANGED <<delay_data, output_active, stream_stop>>
    /\ stopped_by_force' = (stopped_by_force \/ c = User)
    /\ UNCHANGED <<hooked, stream, runs, losses, delay_preserve>>

-----------------------------------------------------------------------------
(* The encoders' threads                                                    *)

MayConnect == "begin" \in DelayRaces \/ (delay_active /\ at[User] = "idle")

\* process_delay queues the packet, and carries out what is old enough.
ProcessDelay(e) ==
    /\ e \in hooked
    /\ Moves(e, "idle", "pop")
    /\ delay_data' = IF Len(delay_data) < MaxEntries
                     THEN Append(delay_data, "packet") ELSE delay_data
    /\ UNCHANGED <<delay_active, delay_capturing, delay_restart_refs,
                   phaseVars, output_stopped, hooked, connectionVars,
                   helperVars, boundVars>>

\* A delay that is to be preserved stands still while the output reconnects.
MayPop ==
    /\ Len(delay_data) > 1 /\ ~(delay_preserve /\ output_reconnecting)
    /\ Head(delay_data) = "start" => MayConnect
    /\ \/ Head(delay_data) = "packet" \/ "order" \in DelayRaces
       \/ \A e \in Encoders : at[e] \in {"idle", "pop"}

\* pop_packet and process_delay_data
PopPacket(e) ==
    /\ MayPop
    /\ Moves(e, "pop", CASE Head(delay_data) = "packet" -> "pop"
                         [] Head(delay_data) = "start"  -> "start"
                         [] Head(delay_data) = "stop"   -> "join")
    /\ delay_data' = Tail(delay_data)
    /\ UNCHANGED <<delay_active, delay_capturing, delay_restart_refs,
                   phaseVars, output_stopped, hooked, connectionVars,
                   helperVars, boundVars>>

\* Nothing else is old enough; the delay is shorter than MaxEntries entries.
Delivered(e) ==
    /\ Len(delay_data) < MaxEntries \/ ~MayPop
    /\ Moves(e, "pop", "idle")
    /\ UNCHANGED <<delayVars, phaseVars, output_stopped, hooked,
                   connectionVars, helperVars, boundVars>>

DelayedStart(e) ==
    /\ Moves(e, "start", "pop")
    /\ ActuallyStart
    /\ UNCHANGED <<delay_data, delay_active, delay_capturing, phaseVars,
                   output_stopped, hooked, stream_stop, helperVars, boundVars>>

-----------------------------------------------------------------------------
(* The stream                                                               *)

StreamFails ==
    /\ stream = "connecting" /\ stream' = "none"
    /\ Report("error")
    /\ UNCHANGED <<delay_data, output_active, hooked, at, stream_stop,
                   boundVars>>

\* obs_output_begin_data_capture: with the delay it is begin_delayed_capture,
\* without it the capture and a new delay begin.
StreamConnects ==
    /\ stream = "connecting" /\ stream' = "streaming"
    /\ \/ /\ delay_active /\ ~delay_capturing
          /\ delay_capturing' = TRUE /\ output_reconnecting' = FALSE
          /\ UNCHANGED <<delay_active, output_active, output_data_active,
                         hooked>>
       \/ /\ ~delay_active /\ ~output_active
          /\ delay_active' = TRUE /\ hooked' = Encoders
          /\ output_active' = TRUE /\ output_data_active' = TRUE
          /\ output_reconnecting' = FALSE
          /\ UNCHANGED delay_capturing
       \/ /\ IF delay_active THEN delay_capturing ELSE output_active
          /\ UNCHANGED <<delay_active, delay_capturing, output_active,
                         output_data_active, output_reconnecting, hooked>>
    /\ UNCHANGED <<delay_data, delay_restart_refs, output_retries, at,
                   output_stopped, stream_stop, helperVars, boundVars>>

StreamLost ==
    /\ stream = "streaming" /\ ~stream_stop /\ stream' = "none"
    /\ losses < MaxLosses /\ losses' = losses + 1
    /\ Report("disconnected")
    /\ UNCHANGED <<delay_data, output_active, hooked, at, stream_stop, runs,
                   stopped_by_force, delay_preserve>>

StreamStops ==
    /\ stream = "streaming" /\ stream_stop
    /\ stream' = "none" /\ stream_stop' = FALSE
    /\ EndCapture(TRUE, delay_active, delay_restart_refs)
    /\ UNCHANGED <<delay_data, output_active, output_reconnecting,
                   output_retries, hooked, at, reconnecter, boundVars>>

-----------------------------------------------------------------------------
(* The end-of-capture thread and the reconnect thread                       *)

\* obs_encoder_stop waits for the encoder's callbacks.
Detach(e) ==
    /\ ender = "unhook" /\ e \in hooked /\ at[e] = "idle"
    /\ hooked' = hooked \ {e}
    /\ UNCHANGED <<delayVars, phaseVars, output_stopped, at, connectionVars,
                   helperVars, boundVars>>

\* obs_output_cleanup_delay and the end.
EndDelayedCapture ==
    /\ ender = "unhook" /\ ender' = "none"
    /\ hooked = {}
    /\ delay_data' = <<>> /\ delay_restart_refs' = 0
    /\ output_active' = FALSE /\ output_stopped' = TRUE
    /\ UNCHANGED <<delay_active, delay_capturing, output_data_active,
                   output_reconnecting, output_retries, hooked, at,
                   connectionVars, reconnecter, boundVars>>

NobodyStops == \A c \in Callers : at[c] \notin {"joining", "stop", "halt"}

\* The delay runs out and no call that stops the output is under way.
ReconnectStarts ==
    /\ reconnecter = "wait" /\ NobodyStops /\ MayConnect
    /\ reconnecter' = "none"
    /\ ActuallyStart
    /\ UNCHANGED <<delay_data, delay_active, delay_capturing, phaseVars,
                   output_stopped, hooked, at, stream_stop, ender, boundVars>>

\* reconnect_stop_event is signalled.
ReconnectCancelled ==
    /\ reconnecter = "wait" /\ \E c \in Callers : at[c] = "joining"
    /\ reconnecter' = "none" /\ output_reconnecting' = FALSE
    /\ UNCHANGED <<delayVars, output_active, output_data_active,
                   output_retries, output_stopped, hooked, at, connectionVars,
                   ender, boundVars>>

-----------------------------------------------------------------------------

Call(c) == ActuallyStop(c) \/ Joined(c) \/ CallStop(c) \/ HaltStream(c)
EncoderStep(e) == PopPacket(e) \/ Delivered(e) \/ DelayedStart(e)

DelayedNext ==
    \/ StartDelay \/ StopDelayed \/ ForceStopDelayed \/ EndDelay
    \/ \E c \in Callers : Call(c)
    \/ \E e \in Encoders : ProcessDelay(e) \/ EncoderStep(e) \/ Detach(e)
    \/ StreamFails \/ StreamConnects \/ StreamLost \/ StreamStops
    \/ EndDelayedCapture \/ ReconnectStarts \/ ReconnectCancelled

\* Calls return, an entry is old enough one day, a connection is made or fails.
DelayedFairness ==
    /\ WF_delayedVars(EndDelay)
    /\ \A c \in Callers : WF_delayedVars(Call(c))
    /\ \A e \in Encoders : /\ WF_delayedVars(ProcessDelay(e))
                           /\ WF_delayedVars(EncoderStep(e))
                           /\ SF_delayedVars(PopPacket(e))
                           /\ SF_delayedVars(Detach(e))
    /\ WF_delayedVars(StreamFails \/ StreamConnects)
    /\ WF_delayedVars(StreamStops)
    /\ WF_delayedVars(EndDelayedCapture)
    /\ WF_delayedVars(ReconnectStarts) /\ WF_delayedVars(ReconnectCancelled)

DelayedSpec == DelayedInit /\ [][DelayedNext]_delayedVars /\ DelayedFairness

-----------------------------------------------------------------------------
(* Properties                                                               *)

DelayedTypeOK ==
    /\ delay_data \in Seq({"start", "stop", "packet"})
    /\ {delay_active, delay_capturing, output_active, output_data_active,
        output_reconnecting, output_stopped, stream_stop, stopped_by_force,
        delay_preserve}
           \subseteq BOOLEAN
    /\ hooked \subseteq Encoders
    /\ {delay_restart_refs, runs, losses} \subseteq Nat
    /\ output_retries \in 0 .. Retries
    /\ at \in [Callers -> {"idle", "pop", "start", "join", "joining", "stop",
                            "halt"}]
    /\ stream \in {"none", "connecting", "streaming"}
    /\ ender \in {"none", "unhook"} /\ reconnecter \in {"none", "wait"}

\* The starts that are still to come: in the queue, taken out of it, or by the
\* reconnect thread.
StartsToCome ==
    Cardinality({i \in DOMAIN delay_data : delay_data[i] = "start"})
  + Cardinality({e \in Encoders : at[e] = "start"})
  + (IF reconnecter = "wait" THEN 1 ELSE 0)

\* While the delay lasts, delay_restart_refs counts the starts that are still to
\* come.  One too few and the end of one stream throws away the next start with
\* the queue; one too many and the encoders of an output that was stopped run on.
RefsCountStarts ==
    delay_active /\ NobodyStops => delay_restart_refs = StartsToCome

AtRestDelayed == ~output_active /\ ~output_reconnecting

\* "Forces the output to stop" (obs.h:1437): once it has, and until the next
\* start, the output does not come back.
ForceStopIsFinal ==
    [][stopped_by_force /\ stopped_by_force' /\ AtRestDelayed
           => ~output_active']_delayedVars

\* A stop that is queued takes effect, though the connection breaks or is being
\* made when its time has come.
DelayedStopStops == Contains(delay_data, "stop") ~> ~output_active
=============================================================================
