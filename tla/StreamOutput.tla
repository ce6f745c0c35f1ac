----------------------------- MODULE StreamOutput -----------------------------
(***************************************************************************)
(* The life of a streaming output: obs_output_start, obs_output_stop, the   *)
(* end-of-capture thread and the reconnect thread of libobs/obs-output.c    *)
(* (no stream delay), driving the connect and the send thread of            *)
(* plugins/obs-outputs/rtmp-stream.c.  Five threads share flags and events  *)
(* and no lock; a step is what a thread does between two of the points at   *)
(* which another thread can tell the difference.  Packets, stop codes and   *)
(* the connection itself are not modelled, nor a connection that breaks     *)
(* while init_send writes the meta data, after it created the send thread.  *)
(* An operator whose comment says it is faulty is used by no action.        *)
(***************************************************************************)
EXTENDS Naturals

CONSTANTS
    RetryMax,   \* reconnect_retry_max
    MaxStarts,  \* bound: calls of obs_output_start
    Races       \* what may coincide: the sets `races' may be

(* What another thread has to do within a few instructions for it to matter  *)
(* is a race.  A member of races may happen, one that is left out may not:   *)
(* "close": the send thread ends while a call that stops the output runs;    *)
(* "retry": the reconnect delay runs out while obs_output_stop runs;         *)
(* "end": stopping the encoders outlasts the reconnect delay;                *)
(* "init": the encoders fail to initialize for a reconnect.                  *)
ASSUME StreamOutputAssumption ==
    /\ RetryMax \in Nat /\ MaxStarts \in Nat
    /\ Races \subseteq SUBSET {"close", "retry", "end", "init"}

VARIABLES
    \* struct obs_output
    active, data_active, end_thread_active, stopping_event,
    reconnecting, reconnect_thread_active, reconnect_stop_event,
    reconnect_retries,
    \* struct rtmp_stream
    connecting, stream_active, stop_event,
    encoders,    \* whether the output's callbacks are attached to the encoders
    \* where each thread is; "none" when there is no such thread
    user, connect, send, end, reconnect,
    forced,      \* actual_stop's argument force, for which ts is 0
    starts,
    races,       \* what may coincide in this behaviour
    signal       \* history: the last signal the frontend received

captureVars == <<active, data_active, end_thread_active, encoders, end>>
retryVars   == <<reconnecting, reconnect_stop_event, reconnect_retries>>
streamVars  == <<connecting, stream_active, stop_event>>
userVars    == <<user, forced, starts>>
vars == <<captureVars, stopping_event, retryVars, reconnect_thread_active,
          streamVars, userVars, connect, send, reconnect, races, signal>>

\* obs_output_create signals stopping_event.
Init ==
    /\ active = FALSE /\ data_active = FALSE /\ end_thread_active = FALSE
    /\ stopping_event = TRUE
    /\ reconnecting = FALSE /\ reconnect_thread_active = FALSE
    /\ reconnect_stop_event = FALSE /\ reconnect_retries = 0
    /\ connecting = FALSE /\ stream_active = FALSE /\ stop_event = FALSE
    /\ encoders = FALSE
    /\ user = "idle" /\ connect = "none" /\ send = "none" /\ end = "none"
    /\ reconnect = "none"
    /\ forced = FALSE /\ starts = 0 /\ signal = "none" /\ races \in Races

\* No thread is in the last few instructions of its work.  The network, the
\* reconnect delay of two seconds and the user are slower than those.
Settled ==
    /\ connect # "tail"
    /\ send \notin {"lost", "close", "tail"}
    /\ reconnect \notin {"created", "check", "tail"}
    /\ "end" \in races \/ end = "none"

-----------------------------------------------------------------------------
(* Operations of obs-output.c that several threads call                     *)

\* The first half of obs_output_end_data_capture_internal: an active capture
\* is handed to a new end-of-capture thread, after the previous one was joined.
Capturing == active /\ data_active

StopCapture ==
    IF Capturing
    THEN /\ end_thread_active => end = "none"
         /\ data_active' = FALSE /\ end_thread_active' = TRUE
         /\ end' = "unhook"
         /\ UNCHANGED <<active, encoders>>
    ELSE UNCHANGED captureVars

\* obs_output_end_data_capture: the frontend is told in any case; when there
\* was nothing to end, nobody else will signal stopping_event.
EndDataCapture ==
    /\ StopCapture
    /\ stopping_event' = (stopping_event \/ ~Capturing)
    /\ signal' = "stop"

\* output_reconnect, after the capture was ended without telling the frontend.
Retries == IF reconnecting THEN reconnect_retries ELSE 0

\* Faulty: the retries are counted and not limited.
RetryForever ==
    /\ StopCapture
    /\ reconnecting' = TRUE
    /\ reconnect_stop_event' = (reconnecting /\ reconnect_stop_event)
    /\ reconnect_retries' = Retries + 1
    /\ reconnect = "none" /\ reconnect' = "created"
    /\ signal' = "reconnect"
    /\ UNCHANGED stopping_event

Retry ==
    /\ Retries < RetryMax
    /\ StopCapture
    /\ reconnecting' = TRUE
    /\ reconnect_stop_event' = (reconnecting /\ reconnect_stop_event)
    /\ reconnect_retries' = Retries + 1
    /\ reconnect = "none" /\ reconnect' = "created"
    /\ signal' = "reconnect"
    /\ UNCHANGED stopping_event

GiveUp ==
    /\ Retries >= RetryMax
    /\ StopCapture
    /\ stopping_event' = TRUE
    /\ reconnecting' = FALSE
    /\ reconnect_retries' = Retries
    /\ signal' = "stop"
    /\ UNCHANGED <<reconnect_stop_event, reconnect>>

CanReconnect(code) ==
    \/ reconnecting /\ code # "success"
    \/ RetryMax # 0 /\ code = "disconnected"

\* obs_output_signal_stop
SignalStop(code) ==
    \/ CanReconnect(code) /\ (Retry \/ GiveUp)
    \/ /\ ~CanReconnect(code)
       /\ EndDataCapture
       /\ UNCHANGED <<retryVars, reconnect>>

\* obs_output_actual_start with rtmp_stream_start: no start while a capture is
\* active; otherwise the previous end-of-capture thread is joined and the
\* connect thread is created.
ActualStart(started) ==
    /\ stopping_event
    /\ \/ /\ active
          /\ ~started
          /\ UNCHANGED <<connecting, connect>>
       \/ /\ ~active
          /\ end_thread_active => end = "none"
          /\ \/ /\ started
                /\ connecting' = TRUE /\ connect' = "connecting"
             \/ /\ "init" \in races /\ ~started
                /\ UNCHANGED <<connecting, connect>>

-----------------------------------------------------------------------------
(* The frontend's thread                                                    *)

\* OBSBasic::StartStreaming; its button is disabled until the last attempt has
\* been reported to have stopped.
Start ==
    /\ user = "idle" /\ starts < MaxStarts
    /\ ~active /\ ~reconnecting /\ signal \in {"none", "stop"}
    /\ Settled /\ connect = "none"
    /\ user' = "start" /\ starts' = starts + 1
    /\ UNCHANGED <<captureVars, stopping_event, retryVars,
                   reconnect_thread_active, streamVars, forced, connect, send,
                   reconnect, races, signal>>

\* obs_output_start
StartOutput ==
    /\ user = "start" /\ user' = "idle"
    /\ \E started \in BOOLEAN :
          /\ ActualStart(started)
          /\ signal' = IF started THEN "starting" ELSE signal
    /\ UNCHANGED <<captureVars, stopping_event, retryVars,
                   reconnect_thread_active, stream_active, stop_event, forced,
                   starts, send, reconnect, races>>

\* A call that stops the output may be made now.
MayStop ==
    /\ user = "idle"
    /\ "close" \in races \/ (Settled /\ end = "none")
    /\ "retry" \in races \/ reconnect # "start"

\* obs_output_force_stop, at any time; one such call while a stop is under way
\* is enough.
ForceStop ==
    /\ MayStop
    /\ ~(forced /\ stop_event)
    /\ user' = "stop" /\ forced' = TRUE
    /\ signal' = IF stopping_event THEN "stopping" ELSE signal
    /\ UNCHANGED <<captureVars, stopping_event, retryVars, starts,
                   reconnect_thread_active, streamVars, connect, send,
                   reconnect, races>>

\* obs_output_stop; while reconnecting it calls obs_output_force_stop.
Stop ==
    /\ MayStop
    /\ active /\ ~reconnecting /\ stopping_event
    /\ user' = "stop" /\ forced' = FALSE
    /\ signal' = "stopping"
    /\ UNCHANGED <<captureVars, stopping_event, retryVars, starts,
                   reconnect_thread_active, streamVars, connect, send,
                   reconnect, races>>

\* obs_output_actual_stop up to the join of the reconnect thread.
ActualStop ==
    /\ user = "stop"
    /\ IF ~stopping_event /\ ~forced
       THEN user' = "idle" /\ UNCHANGED <<stopping_event, reconnect_stop_event>>
       ELSE /\ stopping_event' = FALSE
            /\ reconnect_stop_event' = (reconnect_stop_event \/ reconnecting)
            /\ user' = IF reconnecting /\ reconnect_thread_active
                       THEN "join_reconnect" ELSE "info_stop"
    /\ UNCHANGED <<captureVars, reconnecting, reconnect_retries, starts,
                   forced, reconnect_thread_active, streamVars, connect, send,
                   reconnect, races, signal>>

JoinReconnect ==
    /\ user = "join_reconnect" /\ reconnect = "none"
    /\ user' = "info_stop"
    /\ UNCHANGED <<captureVars, stopping_event, retryVars, streamVars, starts,
                   reconnect_thread_active, forced, connect, send, reconnect,
                   races, signal>>

\* Faulty: the connect thread is not waited for.
StreamStopUnjoined ==
    /\ user = "info_stop"
    /\ user' = IF stop_event /\ ~forced THEN "idle" ELSE "halt"
    /\ UNCHANGED <<captureVars, stopping_event, retryVars, streamVars, starts,
                   reconnect_thread_active, forced, connect, send, reconnect,
                   races, signal>>

\* rtmp_stream_stop up to the join of the connect thread; a second stop that
\* is not forced is ignored.
StreamStop ==
    /\ user = "info_stop"
    /\ user' = IF stop_event /\ ~forced THEN "idle"
               ELSE IF connecting THEN "join_connect" ELSE "halt"
    /\ UNCHANGED <<captureVars, stopping_event, retryVars, streamVars, starts,
                   reconnect_thread_active, forced, connect, send, reconnect,
                   races, signal>>

JoinConnect ==
    /\ user = "join_connect" /\ connect = "none"
    /\ user' = "halt"
    /\ UNCHANGED <<captureVars, stopping_event, retryVars, streamVars, starts,
                   reconnect_thread_active, forced, connect, send, reconnect,
                   races, signal>>

\* The rest of rtmp_stream_stop.
Halt ==
    /\ user = "halt" /\ user' = "idle"
    /\ \/ /\ stream_active
          /\ stop_event' = TRUE
          /\ UNCHANGED <<captureVars, stopping_event, retryVars, reconnect, signal>>
       \/ /\ ~stream_active
          /\ SignalStop("success")
          /\ UNCHANGED stop_event
    /\ UNCHANGED <<connecting, stream_active, starts, reconnect_thread_active,
                   forced, connect, send, races>>

-----------------------------------------------------------------------------
(* The connect thread of rtmp-stream.c                                      *)

\* init_connect joins a send thread that is about to stop.
Connecting ==
    connect = "connecting" /\ Settled /\ (stop_event => send = "none")

ConnectFails ==
    /\ Connecting
    /\ SignalStop("error")
    /\ connect' = "tail"
    /\ UNCHANGED <<reconnect_thread_active, streamVars, userVars, send, races>>

\* init_send: the send thread is created before the capture begins.
ConnectSucceeds ==
    /\ Connecting
    /\ stream_active' = TRUE
    /\ send' = "streaming"
    /\ connect' = "begin"
    /\ UNCHANGED <<captureVars, stopping_event, retryVars, connecting,
                   stop_event, reconnect_thread_active, userVars, reconnect,
                   races, signal>>

\* obs_output_begin_data_capture up to hook_data_capture.
BeginDataCapture ==
    /\ connect = "begin"
    /\ IF active
       THEN connect' = "tail" /\ UNCHANGED <<data_active, encoders>>
       ELSE connect' = "activate" /\ data_active' = TRUE /\ encoders' = TRUE
    /\ UNCHANGED <<active, end_thread_active, end, stopping_event, retryVars,
                   reconnect_thread_active, streamVars, userVars, send,
                   reconnect, races, signal>>

\* The rest of obs_output_begin_data_capture.
Activate ==
    /\ connect = "activate" /\ connect' = "tail"
    /\ active' = TRUE
    /\ signal' = IF reconnecting THEN "reconnect_success" ELSE "start"
    /\ reconnecting' = FALSE
    /\ UNCHANGED <<data_active, end_thread_active, encoders, end,
                   stopping_event, reconnect_stop_event, reconnect_retries,
                   streamVars, reconnect_thread_active, userVars, send,
                   reconnect, races>>

ConnectEnds ==
    /\ connect = "tail" /\ connect' = "none"
    /\ connecting' = FALSE
    /\ UNCHANGED <<captureVars, stopping_event, retryVars, stream_active,
                   stop_event, reconnect_thread_active, userVars, send,
                   reconnect, races, signal>>

-----------------------------------------------------------------------------
(* The send thread of rtmp-stream.c                                         *)

\* The loop ends: the connection broke, or the stop was noticed.
SendLoopEnds ==
    /\ send = "streaming"
    /\ stop_event \/ (active /\ Settled)
    /\ "close" \in races \/ user = "idle"
    /\ send' = "lost"
    /\ UNCHANGED <<captureVars, stopping_event, retryVars, streamVars,
                   userVars, reconnect_thread_active, connect, reconnect,
                   races, signal>>

\* A loop that was not told to stop has lost its connection.
SendReports ==
    /\ send = "lost" /\ send' = "close"
    /\ \/ ~stop_event /\ SignalStop("disconnected")
       \/ stop_event /\ EndDataCapture /\ UNCHANGED <<retryVars, reconnect>>
    /\ UNCHANGED <<streamVars, reconnect_thread_active, userVars, connect,
                   races>>

ResetStopEvent ==
    /\ send = "close" /\ send' = "tail"
    /\ stop_event' = FALSE
    /\ UNCHANGED <<captureVars, stopping_event, retryVars, connecting,
                   stream_active, reconnect_thread_active, userVars, connect,
                   reconnect, races, signal>>

SendEnds ==
    /\ send = "tail" /\ send' = "none"
    /\ stream_active' = FALSE
    /\ UNCHANGED <<captureVars, stopping_event, retryVars, connecting,
                   stop_event, reconnect_thread_active, userVars, connect,
                   reconnect, races, signal>>

-----------------------------------------------------------------------------
(* end_data_capture_thread                                                  *)

Unhook ==
    /\ end = "unhook" /\ end' = "deactivate"
    /\ encoders' = FALSE
    /\ UNCHANGED <<active, data_active, end_thread_active, stopping_event,
                   retryVars, reconnect_thread_active, streamVars, userVars,
                   connect, send, reconnect, races, signal>>

Deactivate ==
    /\ end = "deactivate" /\ end' = "tail"
    /\ active' = FALSE
    /\ UNCHANGED <<data_active, end_thread_active, encoders, stopping_event,
                   retryVars, reconnect_thread_active, streamVars, userVars,
                   connect, send, reconnect, races, signal>>

\* Faulty: nobody who waits for the end of the capture is told.
CaptureEndedUnsignalled ==
    /\ end = "tail" /\ end' = "none"
    /\ end_thread_active' = FALSE
    /\ UNCHANGED <<active, data_active, encoders, stopping_event, retryVars,
                   reconnect_thread_active, streamVars, userVars, connect,
                   send, reconnect, races, signal>>

CaptureEnded ==
    /\ end = "tail" /\ end' = "none"
    /\ stopping_event' = TRUE
    /\ end_thread_active' = FALSE
    /\ UNCHANGED <<active, data_active, encoders, retryVars,
                   reconnect_thread_active, streamVars, userVars, connect,
                   send, reconnect, races, signal>>

-----------------------------------------------------------------------------
(* reconnect_thread                                                         *)

reconnectFrame == <<captureVars, stopping_event, reconnect_stop_event,
                    reconnect_retries, stream_active, stop_event, userVars,
                    send, races, signal>>

ReconnectWaits ==
    /\ reconnect = "created" /\ reconnect' = "wait"
    /\ reconnect_thread_active' = TRUE
    /\ UNCHANGED <<reconnectFrame, reconnecting, connecting, connect>>

\* os_event_timedwait: the delay is over, or a stop was asked for.
ReconnectWakes ==
    /\ reconnect = "wait"
    /\ \/ reconnect_stop_event /\ reconnect' = "check"
       \/ /\ ~reconnect_stop_event /\ Settled
          /\ "retry" \in races \/ user = "idle"
          /\ reconnect' = "start"
    /\ UNCHANGED <<reconnectFrame, reconnecting, reconnect_thread_active,
                   connecting, connect>>

\* The result of obs_output_actual_start is not looked at.
ReconnectStarts ==
    /\ reconnect = "start" /\ reconnect' = "check"
    /\ \E started \in BOOLEAN : ActualStart(started)
    /\ UNCHANGED <<reconnectFrame, reconnecting, reconnect_thread_active>>

\* Faulty: the thread is detached and the flag left as it is in any case.
ReconnectDetaches ==
    /\ reconnect = "check" /\ reconnect' = "tail"
    /\ UNCHANGED <<reconnectFrame, reconnecting, reconnect_thread_active,
                   connecting, connect>>

ReconnectChecks ==
    /\ reconnect = "check" /\ reconnect' = "tail"
    /\ reconnecting' = (reconnecting /\ ~reconnect_stop_event)
    /\ UNCHANGED <<reconnectFrame, reconnect_thread_active, connecting, connect>>

ReconnectEnds ==
    /\ reconnect = "tail" /\ reconnect' = "none"
    /\ reconnect_thread_active' = FALSE
    /\ UNCHANGED <<reconnectFrame, reconnecting, connecting, connect>>

-----------------------------------------------------------------------------

StopCall == ActualStop \/ JoinReconnect \/ StreamStop \/ JoinConnect \/ Halt

ConnectThread ==
    \/ ConnectFails \/ ConnectSucceeds \/ BeginDataCapture \/ Activate
    \/ ConnectEnds

SendThread == SendLoopEnds \/ SendReports \/ ResetStopEvent \/ SendEnds

EndThread == Unhook \/ Deactivate \/ CaptureEnded

ReconnectThread ==
    \/ ReconnectWaits \/ ReconnectWakes \/ ReconnectStarts \/ ReconnectChecks
    \/ ReconnectEnds

Next ==
    \/ Start \/ StartOutput \/ Stop \/ ForceStop \/ StopCall
    \/ ConnectThread \/ SendThread \/ EndThread \/ ReconnectThread

\* Every call that was made and every thread that was created runs on; a
\* connection attempt succeeds or fails.  A connection need not break, and
\* nobody has to start or stop the output.
Fairness ==
    /\ WF_vars(StartOutput) /\ WF_vars(StopCall)
    /\ WF_vars(ConnectThread) /\ WF_vars(EndThread) /\ WF_vars(ReconnectThread)
    /\ WF_vars(SendThread /\ (stop_event \/ send # "streaming"))

Spec == Init /\ [][Next]_vars /\ Fairness

-----------------------------------------------------------------------------
(* Properties                                                               *)

\* The flags are booleans, the retries stay within reconnect_retry_max, and a
\* thread is at one of the points its code has.
TypeOK ==
    /\ {active, data_active, end_thread_active, stopping_event, reconnecting,
        reconnect_thread_active, reconnect_stop_event, connecting,
        stream_active, stop_event, encoders, forced} \subseteq BOOLEAN
    /\ reconnect_retries \in 0 .. RetryMax /\ starts \in 0 .. MaxStarts
    /\ user \in {"idle", "start", "stop", "join_reconnect", "info_stop",
                 "join_connect", "halt"}
    /\ connect \in {"none", "connecting", "begin", "activate", "tail"}
    /\ send \in {"none", "streaming", "lost", "close", "tail"}
    /\ end \in {"none", "unhook", "deactivate", "tail"}
    /\ reconnect \in {"none", "created", "wait", "start", "check", "tail"}
    /\ signal \in {"none", "starting", "start", "stopping", "stop", "reconnect",
                   "reconnect_success"}

\* A capture attaches the output's callbacks to the encoders only after those
\* of the last capture were taken off, whichever thread ended it and however
\* soon the next connection was made: obs_output_begin_data_capture tests
\* nothing but the flag active.
HookedOnce == connect = "begin" /\ ~active => ~encoders

Resting ==
    /\ user = "idle" /\ connect = "none" /\ send \in {"none", "streaming"}
    /\ end = "none" /\ reconnect = "none"

\* When every thread has finished what it was doing the flags of the output,
\* those of the stream and the callbacks agree, and nobody who waits for
\* stopping_event from now on waits for ever.
AtRest ==
    /\ HookedOnce
    /\ Resting => /\ active = encoders /\ active = data_active
                  /\ active = stream_active /\ active = (send = "streaming")
                  /\ stopping_event \/ stop_event
                  /\ ~connecting

\* Once the frontend was told "stop", what it hears next answers a call of its
\* own: no thread that was left behind starts or reconnects the stream.
StopIsFinal ==
    [][signal = "stop" /\ signal' # "stop"
           => signal' \in {"starting", "stopping"}]_vars

\* ~obs_output_active
Inactive == ~active /\ ~reconnecting

\* "Stops the output." (obs.h, obs_output_stop): after a call that stops the
\* output it neither streams nor reconnects, at some later time.
StopStops == user = "stop" ~> Inactive

\* An interrupted stream is connected again or given up.
ReconnectSettles == races = {} /\ reconnecting ~> ~reconnecting

\* It does as long as no two threads meet within a few instructions, and so ends
\* every reconnect; and nobody waits for stopping_event for ever in
\* obs_output_actual_start, though the end of a capture is slow and encoders
\* fail: only a reconnect delay that runs out while a stop runs can cause that.
QuietCallsReturn ==
    /\ ReconnectSettles
    /\ races = {} /\ user = "stop" ~> Inactive
    /\ "retry" \notin races /\ (user = "start" \/ reconnect = "start")
           ~> user # "start" /\ reconnect # "start"
=============================================================================
