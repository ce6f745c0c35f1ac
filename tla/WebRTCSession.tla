--------------------------- MODULE WebRTCSession ---------------------------
(***************************************************************************)
(* A WebRTC output: WebRTCStream.cpp with the Janus callbacks              *)
(* (janus-stream.cpp), its websocket client (JanusWebsocketClientImpl.cpp) *)
(* and what libobs (obs-output.c, raw output) and the stream button do.    *)
(*                                                                         *)
(* Threads: the user interface, the client's network thread (ws), its      *)
(* keep-alive thread, the signaling thread of the peer connection and the  *)
(* thread of libobs that ends a capture.                                   *)
(***************************************************************************)
EXTENDS Naturals

CONSTANTS
    MaxSessions,  \* bound on the calls that start the output
    Faults,       \* which steps of the negotiation may fail: "offer", "local",
                  \* "remote"
    RtcRaces      \* see MayStart and Disconnect

ASSUME WebRTCAssumption ==
    /\ MaxSessions \in Nat
    /\ Faults \subseteq {"offer", "local", "remote"}
    /\ RtcRaces \subseteq {"impatient", "close"}

VARIABLES
    rtc_active, rtc_data_active, hooked,          \* libobs
    rtc_end, rtc_stopping_event,
    button,                                       \* the user interface
    pc, peer_open, client, refs,                  \* WebRTCStream's objects
    ws, stopped, keepalive, is_running, offered,  \* the websocket client
    rtc_user, stop, sig, rtc_starts               \* callers

rtcCaptureVars == <<rtc_active, rtc_data_active, hooked, rtc_end,
                    rtc_stopping_event, button>>
objectVars == <<pc, peer_open, client>>
clientVars == <<ws, stopped, keepalive, is_running, offered>>
callVars   == <<rtc_user, sig, rtc_starts>>
rtcVars == <<rtcCaptureVars, objectVars, clientVars, callVars, refs, stop>>

Callers == {"user", "signaling"}

\* The points at which the network thread waits for its peer, and those at
\* which the connection is open.
Waiting == {"connecting", "login", "attach", "logged", "streaming"}
Open    == {"login", "attach", "log", "logged", "answer", "begin", "activate",
            "streaming"}

\* janus_stream_create
RtcInit ==
    /\ rtc_active = FALSE /\ rtc_data_active = FALSE /\ hooked = FALSE
    /\ rtc_end = "none" /\ rtc_stopping_event = TRUE /\ button = "start"
    /\ pc = FALSE /\ peer_open = FALSE /\ client = FALSE /\ refs = 1
    /\ ws = "none" /\ stopped = FALSE /\ keepalive = FALSE
    /\ is_running = FALSE /\ offered = FALSE
    /\ rtc_user = "idle" /\ stop = [c \in Callers |-> "out"] /\ sig = "idle"
    /\ rtc_starts = 0

-----------------------------------------------------------------------------
(* obs-output.c: the end of a capture of raw frames                         *)

\* obs_output_end_data_capture; obs_output_signal_stop does the same, for the
\* codes used here never lead to a reconnect.
RtcEndDataCapture ==
    /\ button' = "start"
    /\ IF rtc_active /\ rtc_data_active
       THEN /\ rtc_end = "none"
            /\ rtc_data_active' = FALSE /\ rtc_end' = "unhook"
            /\ UNCHANGED rtc_stopping_event
       ELSE /\ rtc_stopping_event' = TRUE
            /\ UNCHANGED <<rtc_data_active, rtc_end>>
    /\ UNCHANGED <<rtc_active, hooked>>

RtcUnhook ==
    /\ rtc_end = "unhook" /\ rtc_end' = "deactivate"
    /\ hooked' = FALSE
    /\ UNCHANGED <<rtc_active, rtc_data_active, rtc_stopping_event, button,
                   objectVars, clientVars, callVars, refs, stop>>

RtcDeactivate ==
    /\ rtc_end = "deactivate" /\ rtc_end' = "none"
    /\ rtc_active' = FALSE /\ rtc_stopping_event' = TRUE
    /\ UNCHANGED <<rtc_data_active, hooked, button, objectVars, clientVars,
                   callVars, refs, stop>>

-----------------------------------------------------------------------------
(* WebRTCStream::stop, called by the user's thread and by OnFailure         *)

stopFrame == <<callVars, refs>>

\* Faulty: the peer connection is dropped but not closed.
StopCheckUnclosed(c) ==
    /\ stop[c] = "check"
    /\ IF pc
       THEN /\ pc' = FALSE
            /\ stop' = [stop EXCEPT ![c] = IF client THEN "keepalive" ELSE "end"]
            /\ is_running' = FALSE
       ELSE stop' = [stop EXCEPT ![c] = "out"] /\ UNCHANGED <<pc, is_running>>
    /\ UNCHANGED <<rtcCaptureVars, peer_open, client, ws, stopped, keepalive,
                   offered, stopFrame>>

\* Without a peer connection there is nothing to do.
StopCheck(c) ==
    /\ stop[c] = "check"
    /\ stop' = [stop EXCEPT ![c] = IF pc THEN "close" ELSE "out"]
    /\ pc' = FALSE
    /\ UNCHANGED <<rtcCaptureVars, peer_open, client, clientVars, stopFrame>>

\* Close is carried out by the signaling thread while its caller waits.
\* disconnect begins with the keep-alive thread.
StopClose(c) ==
    /\ stop[c] = "close"
    /\ c = "user" => sig = "idle"
    /\ peer_open' = FALSE
    /\ is_running' = (is_running /\ ~client)
    /\ stop' = [stop EXCEPT ![c] = IF client THEN "keepalive" ELSE "end"]
    /\ UNCHANGED <<rtcCaptureVars, pc, client, ws, stopped, keepalive, offered,
                   stopFrame>>

\* This may take two seconds, the period of the keep-alive thread.
JoinKeepAlive(c) ==
    /\ stop[c] = "keepalive" /\ ~keepalive
    /\ stop' = [stop EXCEPT ![c] = "disconnect"]
    /\ UNCHANGED <<rtcCaptureVars, objectVars, clientVars, stopFrame>>

\* Faulty: the network loop is not stopped.
DisconnectUnstopped(c) ==
    /\ stop[c] = "disconnect"
    /\ stop' = [stop EXCEPT ![c] = IF ws \in Open THEN "join" ELSE "delete"]
    /\ UNCHANGED <<rtcCaptureVars, objectVars, clientVars, stopFrame>>

\* On a connection that is not open, close throws; stop and join are skipped
\* and the exception is swallowed.
Disconnect(c) ==
    /\ stop[c] = "disconnect"
    /\ "close" \in RtcRaces \/ ws \notin {"closing", "tail"}
    /\ IF ws \in Open
       THEN stopped' = TRUE /\ stop' = [stop EXCEPT ![c] = "join"]
       ELSE UNCHANGED stopped /\ stop' = [stop EXCEPT ![c] = "delete"]
    /\ UNCHANGED <<rtcCaptureVars, objectVars, ws, keepalive, is_running,
                   offered, stopFrame>>

JoinThread(c) ==
    /\ stop[c] = "join" /\ ws = "ended"
    /\ stop' = [stop EXCEPT ![c] = "delete"]
    /\ UNCHANGED <<rtcCaptureVars, objectVars, clientVars, stopFrame>>

\* WebsocketClient has no virtual destructor: nothing but the memory goes.
DeleteClient(c) ==
    /\ stop[c] = "delete"
    /\ client' = FALSE
    /\ stop' = [stop EXCEPT ![c] = "end"]
    /\ UNCHANGED <<rtcCaptureVars, pc, peer_open, clientVars, stopFrame>>

\* Faulty: the output is not told.
StopEndSilent(c) ==
    /\ stop[c] = "end"
    /\ stop' = [stop EXCEPT ![c] = "out"]
    /\ UNCHANGED <<rtcCaptureVars, objectVars, clientVars, stopFrame>>

StopEnd(c) ==
    /\ stop[c] = "end"
    /\ RtcEndDataCapture
    /\ stop' = [stop EXCEPT ![c] = "out"]
    /\ UNCHANGED <<objectVars, clientVars, stopFrame>>

StopSteps(c) ==
    \/ StopCheck(c) \/ StopClose(c) \/ JoinKeepAlive(c) \/ Disconnect(c)
    \/ JoinThread(c) \/ DeleteClient(c) \/ StopEnd(c)

-----------------------------------------------------------------------------
(* The user                                                                 *)

\* The button may say "start" while a connection is made (StopEnd during a
\* start).  Only an impatient user presses it then.  A description is created
\* or set before any user presses it.
MayStart ==
    /\ rtc_user = "idle" /\ button = "start" /\ ~rtc_active
    /\ sig \in {"idle", "failure"}
    /\ "impatient" \in RtcRaces \/ ws \in {"none", "ended"}

\* OBSBasic::StartStreaming
RtcStart ==
    /\ MayStart /\ rtc_starts < MaxSessions
    /\ rtc_user' = "start" /\ button' = "connecting"
    /\ rtc_starts' = rtc_starts + 1
    /\ UNCHANGED <<rtc_active, rtc_data_active, hooked, rtc_end,
                   rtc_stopping_event, objectVars, clientVars, sig, refs,
                   stop>>

\* obs_output_actual_start, janus_stream_start and WebRTCStream::start, which
\* may find the settings unusable, up to its call of stop.
StreamStart ==
    /\ rtc_user = "start" /\ rtc_stopping_event
    /\ refs' = refs + 1
    /\ \/ rtc_user' = "idle" /\ button' = "start" /\ UNCHANGED stop
       \/ /\ rtc_user' = "setup" /\ stop' = [stop EXCEPT !["user"] = "check"]
          /\ UNCHANGED button
    /\ UNCHANGED <<rtc_active, rtc_data_active, hooked, rtc_end,
                   rtc_stopping_event, objectVars, clientVars, sig,
                   rtc_starts>>

\* The peer connection is made by the signaling thread, for which start waits.
Setup ==
    /\ rtc_user = "setup" /\ stop["user"] = "out" /\ sig = "idle"
    /\ pc' = TRUE /\ peer_open' = TRUE /\ client' = TRUE
    /\ stopped' = FALSE /\ offered' = FALSE /\ ws' = "none"
    /\ rtc_user' = "connect"
    /\ UNCHANGED <<rtcCaptureVars, keepalive, is_running, sig, rtc_starts,
                   refs, stop>>

\* CreatePeerConnection or AddStream fails.
SetupFails ==
    /\ rtc_user = "setup" /\ stop["user"] = "out" /\ sig = "idle"
    /\ \E made \in BOOLEAN : pc' = made /\ peer_open' = made
    /\ offered' = FALSE
    /\ rtc_user' = "idle" /\ button' = "start"
    /\ UNCHANGED <<rtc_active, rtc_data_active, hooked, rtc_end,
                   rtc_stopping_event, client, ws, stopped, keepalive,
                   is_running, sig, rtc_starts, refs, stop>>

\* From here on the user's thread is not the only one.
RtcConnect ==
    /\ rtc_user = "connect" /\ rtc_user' = "idle"
    /\ ws' = "connecting"
    /\ UNCHANGED <<rtcCaptureVars, objectVars, stopped, keepalive, is_running,
                   offered, sig, rtc_starts, refs, stop>>

\* An unusable address: the peer connection and the client stay.
RtcConnectFails ==
    /\ rtc_user = "connect" /\ rtc_user' = "idle"
    /\ RtcEndDataCapture
    /\ UNCHANGED <<objectVars, clientVars, sig, rtc_starts, refs, stop>>

\* obs_output_stop up to WebRTCStream::stop.  A second press, which would force
\* the stop, is not modelled.
RtcStop ==
    /\ rtc_user = "idle" /\ button = "stop"
    /\ rtc_active /\ rtc_stopping_event
    /\ rtc_stopping_event' = FALSE /\ button' = "stopping"
    /\ rtc_user' = "stop" /\ stop' = [stop EXCEPT !["user"] = "check"]
    /\ UNCHANGED <<rtc_active, rtc_data_active, hooked, rtc_end, objectVars,
                   clientVars, sig, rtc_starts, refs>>

\* The rest of janus_stream_stop.
RtcStreamStop ==
    /\ rtc_user = "stop" /\ stop["user"] = "out"
    /\ refs' = refs - 1
    /\ rtc_user' = "idle"
    /\ UNCHANGED <<rtcCaptureVars, objectVars, clientVars, sig, rtc_starts,
                   stop>>

-----------------------------------------------------------------------------
(* The network thread of the client                                         *)

networkFrame == <<objectVars, rtc_user, rtc_starts, refs, stop, stopped>>

\* A message of the server, and the handler as far as it does no more than
\* answer it.
Message(from, to) ==
    /\ ws = from /\ ~stopped /\ ws' = to
    /\ UNCHANGED <<rtcCaptureVars, networkFrame, keepalive, is_running,
                   offered, sig>>

Connected == Message("connecting", "login")

\* The first "success" starts the keep-alive thread.
Attached ==
    /\ ws = "login" /\ ~stopped /\ ws' = "attach"
    /\ keepalive' = TRUE /\ is_running' = TRUE
    /\ UNCHANGED <<rtcCaptureVars, networkFrame, offered, sig>>

\* The second one calls onLogged.
Joined == Message("attach", "log")

\* onLogged; CreateOffer is carried out by the signaling thread.
Logged ==
    /\ ws = "log" /\ pc /\ sig = "idle"
    /\ ws' = "logged" /\ sig' = "offer"
    /\ UNCHANGED <<rtcCaptureVars, networkFrame, keepalive, is_running,
                   offered>>

\* The answer takes longer than the local description.
Answered == offered /\ sig # "local" /\ Message("logged", "answer")

\* onOpened
Opened ==
    /\ ws = "answer" /\ pc /\ sig = "idle"
    /\ ws' = "begin" /\ sig' = "remote"
    /\ UNCHANGED <<rtcCaptureVars, networkFrame, keepalive, is_running,
                   offered>>

\* obs_output_begin_data_capture up to hook_data_capture.
RtcBeginDataCapture ==
    /\ ws = "begin"
    /\ IF rtc_active
       THEN ws' = "streaming" /\ UNCHANGED <<rtc_data_active, hooked>>
       ELSE ws' = "activate" /\ rtc_data_active' = TRUE /\ hooked' = TRUE
    /\ UNCHANGED <<rtc_active, rtc_end, rtc_stopping_event, button,
                   networkFrame, keepalive, is_running, offered, sig>>

RtcActivate ==
    /\ ws = "activate" /\ ws' = "streaming"
    /\ rtc_active' = TRUE /\ button' = "stop"
    /\ UNCHANGED <<rtc_data_active, hooked, rtc_end, rtc_stopping_event,
                   networkFrame, keepalive, is_running, offered, sig>>

\* The connection cannot be made, or breaks.
ConnectionLost ==
    /\ ws \in Waiting /\ ~stopped /\ ws' = "closing"
    /\ UNCHANGED <<rtcCaptureVars, networkFrame, keepalive, is_running,
                   offered, sig>>

\* onDisconnected
Disconnected ==
    /\ ws = "closing" /\ ws' = "tail"
    /\ RtcEndDataCapture
    /\ UNCHANGED <<networkFrame, keepalive, is_running, offered, sig>>

ThreadEnds ==
    /\ ws = "tail" \/ (ws \in Waiting /\ stopped)
    /\ ws' = "ended"
    /\ UNCHANGED <<rtcCaptureVars, networkFrame, keepalive, is_running,
                   offered, sig>>

KeepAliveEnds ==
    /\ keepalive /\ ~is_running
    /\ keepalive' = FALSE
    /\ UNCHANGED <<rtcCaptureVars, networkFrame, ws, is_running, offered, sig>>

-----------------------------------------------------------------------------
(* The signaling thread                                                     *)

\* OnSuccess(desc); from now on OnIceCandidate may come as well.
OfferCreated ==
    /\ sig = "offer" /\ pc /\ client
    /\ offered' = TRUE /\ sig' = "local"
    /\ UNCHANGED <<rtcCaptureVars, networkFrame, ws, keepalive, is_running>>

\* OnSuccess()
DescriptionSet ==
    /\ sig \in {"local", "remote"} /\ sig' = "idle"
    /\ UNCHANGED <<rtcCaptureVars, networkFrame, ws, keepalive, is_running,
                   offered>>

\* OnFailure up to its call of stop.
Failed ==
    /\ sig \in Faults
    /\ sig' = "failure" /\ stop' = [stop EXCEPT !["signaling"] = "check"]
    /\ UNCHANGED <<rtcCaptureVars, objectVars, clientVars, rtc_user,
                   rtc_starts, refs>>

FailureReported ==
    /\ sig = "failure" /\ stop["signaling"] = "out"
    /\ RtcEndDataCapture
    /\ sig' = "idle"
    /\ UNCHANGED <<objectVars, clientVars, rtc_user, rtc_starts, refs, stop>>

-----------------------------------------------------------------------------

UserCall ==
    \/ StreamStart \/ Setup \/ SetupFails \/ RtcConnect \/ RtcConnectFails
    \/ RtcStreamStop \/ StopSteps("user")

\* What the network decides, and when.
Network == Connected \/ Attached \/ Joined \/ Answered \/ ConnectionLost

Handlers ==
    \/ Logged \/ Opened \/ RtcBeginDataCapture \/ RtcActivate \/ Disconnected
    \/ ThreadEnds

Signaling ==
    \/ OfferCreated \/ DescriptionSet \/ Failed \/ FailureReported
    \/ StopSteps("signaling")

RtcEndThread == RtcUnhook \/ RtcDeactivate

RtcNext ==
    \/ RtcStart \/ RtcStop \/ UserCall \/ Network \/ Handlers
    \/ KeepAliveEnds \/ Signaling \/ RtcEndThread

\* Every call and every thread runs on; the network and the user need not do
\* anything.
RtcFairness ==
    /\ WF_rtcVars(UserCall) /\ WF_rtcVars(Handlers) /\ WF_rtcVars(KeepAliveEnds)
    /\ WF_rtcVars(Signaling) /\ WF_rtcVars(RtcEndThread)

RtcSpec == RtcInit /\ [][RtcNext]_rtcVars /\ RtcFairness

-----------------------------------------------------------------------------
(* Properties                                                               *)

\* Every thread is at a point its code has, and references are counted.
RtcTypeOK ==
    /\ {rtc_active, rtc_data_active, hooked, rtc_stopping_event, pc, peer_open,
        client, stopped, keepalive, is_running, offered} \subseteq BOOLEAN
    /\ rtc_end \in {"none", "unhook", "deactivate"}
    /\ button \in {"start", "connecting", "stop", "stopping"}
    /\ ws \in Waiting \cup Open \cup {"none", "closing", "tail", "ended"}
    /\ rtc_user \in {"idle", "start", "setup", "connect", "stop"}
    /\ sig \in {"idle", "offer", "local", "remote", "failure"}
    /\ stop \in [Callers -> {"out", "check", "close", "keepalive", "disconnect",
                             "join", "delete", "end"}]
    /\ rtc_starts \in 0 .. MaxSessions /\ refs \in 0 .. MaxSessions + 1

\* The client's memory is released only after both threads that work on it
\* have ended: stop disconnects it first, and has disconnect wait.
ClientAlone == ~client => ws \in {"none", "ended"} /\ ~keepalive

\* Callbacks that come from the client, from the peer connection and from the
\* video and audio threads find what they use without a test: the stream
\* itself, its peer connection (onLogged, onOpened) and its client
\* (OnSuccess, OnIceCandidate); and the client is not gone while they come.
CallbacksFindObjects ==
    /\ ClientAlone
    /\ ws \in {"log", "answer"} => pc
    /\ sig = "offer" => pc /\ client
    /\ peer_open /\ offered => client
    /\ ws \notin {"none", "ended"} \/ hooked => refs > 0

RtcResting ==
    /\ rtc_user = "idle" /\ sig = "idle" /\ rtc_end = "none"
    /\ ~(keepalive /\ ~is_running)
    /\ ws \in {"none", "ended"} \cup (Waiting \ {"connecting"})

\* Whoever ended the session, and in whatever order the user, the server and
\* a failing peer connection did: when all of them are done frames arrive
\* exactly while a connection streams them, the button says so, and the next
\* start does not wait for ever.
RtcAtRest ==
    RtcResting =>
        /\ rtc_active = hooked /\ rtc_active = rtc_data_active
        /\ rtc_active = (ws = "streaming") /\ rtc_active = (button = "stop")
        /\ rtc_stopping_event

\* A user's stop ends the capture, though a failing peer connection may be
\* ending the session at the same time.  A start gets its turn: stopping_event
\* comes, and the signaling thread is free at some time to make the peer
\* connection.  And OnFailure returns, which runs on that thread, for which
\* others wait, and itself waits for the client's threads.
RtcCallsReturn ==
    /\ rtc_user = "stop" ~> ~rtc_active
    /\ rtc_user \in {"start", "setup"} ~> rtc_user = "idle"
    /\ sig = "failure" ~> sig = "idle"
=============================================================================
