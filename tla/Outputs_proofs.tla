----------------------------- MODULE Outputs_proofs -----------------------------
(***************************************************************************)
(* Proofs about the two kinds of outputs.                                   *)
(* StreamOutput, for every number of retries and of starts, and for every   *)
(* set of coincidences but one: the send thread does not end while a call   *)
(* that stops the output runs.  Then the flags agree at rest, and a stream  *)
(* that has stopped stays stopped.                                          *)
(* WebRTCSession, for any number of sessions, where a session that has to   *)
(* be given up fails in its offer or in its remote description, nobody      *)
(* presses "start" while a connection is made, and the client is not told   *)
(* to disconnect while its close handler runs.  Then a callback finds the   *)
(* objects it uses, and a session that is over has left nothing half done.  *)
(***************************************************************************)
EXTENDS StreamOutput, WebRTCSession, TLAPS

-----------------------------------------------------------------------------
(* StreamOutput: the inductive invariant                                   *)

\* A flag that says whether there is a thread says so.
FlagsFollowThreads ==
    /\ connecting <=> connect # "none"
    /\ stream_active <=> send # "none"
    /\ end_thread_active <=> end # "none"
    /\ reconnect_thread_active <=> reconnect \notin {"none", "created"}

\* The output captures from the end of begin_data_capture until the
\* end-of-capture thread has deactivated it, and the callbacks are attached
\* a little longer than data_active says.
CaptureFollowsThreads ==
    /\ active <=> \/ end \in {"unhook", "deactivate"}
                  \/ /\ send \in {"streaming", "lost"}
                     /\ connect \notin {"begin", "activate"}
    /\ encoders <=> connect = "activate" \/ (active /\ end # "deactivate")
    /\ data_active <=> connect = "activate" \/ (active /\ end = "none")

\* Which threads there can be at the same time, and where.
InStop == {"stop", "join_reconnect", "info_stop", "join_connect", "halt"}

ThreadsApart ==
    /\ user \in InStop => send \in {"none", "streaming"} /\ end = "none"
    /\ user = "start" => connect = "none" /\ send = "none" /\ reconnect = "none"
    /\ user = "halt" => connect = "none"
    /\ connect # "none" => send \in {"none", "streaming"} /\ end = "none"
    /\ connect = "connecting" =>
          send = "none" /\ reconnect \in {"none", "check", "tail"}
    /\ connect \in {"begin", "activate"} => send = "streaming"
    /\ send \in {"streaming", "lost"} => reconnect = "none" /\ end = "none"
    /\ send \in {"lost", "close", "tail"} => user = "idle"
    /\ reconnect \in {"created", "wait", "start"} =>
          connect \in {"none", "tail"}
    /\ reconnect = "start" => connect = "none" /\ send = "none"

\* A stop that is past its join leaves no reconnect that could go on.
ReconnectFollowsStop ==
    /\ reconnect \in {"created", "wait", "start", "check"} => reconnecting
    /\ user \in InStop \ {"stop"} /\ reconnecting => reconnect_stop_event
    /\ user \in {"info_stop", "join_connect", "halt"} => reconnect # "start"

\* Who waits for stopping_event will be told: by the call that stops, by the
\* send thread that was told to stop, or by the end of the capture.
StopIsAnswered ==
    /\ user = "stop" /\ ~forced => stopping_event
    /\ stop_event => send \in {"streaming", "lost", "close"} /\ connect = "none"
    /\ user \notin InStop => stopping_event \/ stop_event \/ end # "none"
    /\ send = "close" => stopping_event \/ end # "none"

\* When the frontend is told "stop" nothing is left that starts the stream.
NothingLeftToStart ==
    signal = "stop" =>
        /\ connect \in {"none", "tail"} /\ send \notin {"streaming", "lost"}
        /\ reconnect # "start"
        /\ reconnect \in {"created", "wait"} => reconnect_stop_event

OutputInv ==
    /\ TypeOK /\ races \in Races
    /\ FlagsFollowThreads /\ CaptureFollowsThreads /\ ThreadsApart
    /\ ReconnectFollowsStop /\ StopIsAnswered /\ NothingLeftToStart

-----------------------------------------------------------------------------
(* The steps keep the invariant                                             *)

\* What obs_output_signal_stop leaves behind, whatever its code.
LEMMA SignalStopTyped ==
  ASSUME TypeOK, NEW code, SignalStop(code)
  PROVE  /\ reconnect_retries' \in 0 .. RetryMax
         /\ reconnecting' \in BOOLEAN /\ reconnect_stop_event' \in BOOLEAN
         /\ active' \in BOOLEAN /\ data_active' \in BOOLEAN
         /\ end_thread_active' \in BOOLEAN /\ encoders' \in BOOLEAN
         /\ stopping_event' \in BOOLEAN
         /\ end' \in {"none", "unhook", "deactivate", "tail"}
         /\ signal' \in {"stop", "reconnect"}
         /\ reconnect' \in {reconnect, "created"}
  <1>1. reconnect_retries' \in 0 .. RetryMax
    <2>1. Retries \in 0 .. RetryMax
        BY StreamOutputAssumption DEF TypeOK, Retries
    <2>2. CASE Retry
        BY <2>1, <2>2, StreamOutputAssumption DEF Retry
    <2>3. CASE GiveUp
        BY <2>1, <2>3 DEF GiveUp
    <2>4. QED
        BY <2>2, <2>3 DEF SignalStop, TypeOK, retryVars
  <1>2. reconnecting' \in BOOLEAN /\ reconnect_stop_event' \in BOOLEAN
      BY DEF TypeOK, SignalStop, Retry, GiveUp, retryVars
  <1>3. /\ active' \in BOOLEAN /\ data_active' \in BOOLEAN
        /\ end_thread_active' \in BOOLEAN /\ encoders' \in BOOLEAN
        /\ stopping_event' \in BOOLEAN
        /\ end' \in {"none", "unhook", "deactivate", "tail"}
      BY DEF TypeOK, SignalStop, Retry, GiveUp, EndDataCapture, StopCapture,
             Capturing, captureVars
  <1>4. /\ signal' \in {"stop", "reconnect"}
        /\ reconnect' \in {reconnect, "created"}
      BY DEF SignalStop, Retry, GiveUp, EndDataCapture
  <1>5. QED
      BY <1>1, <1>2, <1>3, <1>4

\* A stop that finds no send thread finds no capture either: it tells the
\* frontend and whoever waits, and leaves no thread but a reconnect thread
\* that was told to end.
LEMMA HaltAtRest ==
  ASSUME OutputInv, user = "halt", ~stream_active, SignalStop("success")
  PROVE  /\ connect = "none" /\ send = "none" /\ reconnect' # "start"
         /\ reconnect' \in {"created", "wait"} => reconnect_stop_event'
         /\ stopping_event' /\ ~stop_event /\ end' = "none"
  <1>1. connect = "none" /\ send = "none" /\ end = "none" /\ ~Capturing
      BY DEF OutputInv, TypeOK, ThreadsApart, FlagsFollowThreads,
             CaptureFollowsThreads, InStop, Capturing
  <1>2. EndDataCapture /\ UNCHANGED retryVars /\ UNCHANGED reconnect
      BY DEF SignalStop, CanReconnect
  <1>3. stopping_event' /\ end' = "none"
      BY <1>1, <1>2 DEF EndDataCapture, StopCapture, captureVars
  <1>4. /\ reconnect # "start" /\ ~stop_event
        /\ reconnect \in {"created", "wait"} => reconnect_stop_event
      BY <1>1 DEF OutputInv, ReconnectFollowsStop, StopIsAnswered, InStop
  <1>5. QED
      BY <1>1, <1>2, <1>3, <1>4 DEF retryVars

\* Every step keeps the flags booleans and the retries within their limit: a
\* retry is counted only while it is below it.
LEMMA TypeKept ==
  ASSUME "close" \notin races, OutputInv, Next
  PROVE  TypeOK'
  <1> USE StreamOutputAssumption DEF OutputInv, TypeOK, ThreadsApart, InStop,
        captureVars, retryVars, streamVars, userVars
  <1>1. CASE Start
      BY <1>1, SMTT(30) DEF Start, Settled
  <1>2. CASE StartOutput
      BY <1>2, ZenonT(30) DEF StartOutput, ActualStart
  <1>3. CASE Stop
      BY <1>3, ZenonT(30) DEF Stop, MayStop, Settled
  <1>4. CASE ForceStop
      BY <1>4, SMTT(30) DEF ForceStop, MayStop, Settled
  <1>5. CASE ActualStop
      BY <1>5, ZenonT(30) DEF ActualStop
  <1>6. CASE JoinReconnect
      BY <1>6, SMTT(30) DEF JoinReconnect
  <1>7. CASE StreamStop
      BY <1>7, SMTT(30) DEF StreamStop
  <1>8. CASE JoinConnect
      BY <1>8, SMTT(30) DEF JoinConnect
  <1>9. CASE Halt
      BY <1>9, ZenonT(30)
         DEF Halt, SignalStop, EndDataCapture, StopCapture, Capturing,
        Retry, Retries, GiveUp, CanReconnect
  <1>10. CASE ConnectFails
      <2>1. SignalStop("error")
          BY <1>10, SMTT(30) DEF ConnectFails
      <2>2. QED
          BY <1>10, <2>1, SignalStopTyped DEF ConnectFails
  <1>11. CASE ConnectSucceeds
      BY <1>11, SMTT(30) DEF ConnectSucceeds, Connecting, Settled
  <1>12. CASE BeginDataCapture
      BY <1>12, ZenonT(60) DEF BeginDataCapture
  <1>13. CASE Activate
      BY <1>13, ZenonT(30) DEF Activate
  <1>14. CASE ConnectEnds
      BY <1>14, ZenonT(30) DEF ConnectEnds
  <1>15. CASE SendLoopEnds
      BY <1>15, SMTT(30) DEF SendLoopEnds, Settled
  <1>16. CASE SendReports
      <2>1. CASE ~stop_event
          BY <1>16, <2>1, SignalStopTyped DEF SendReports
      <2>2. CASE stop_event
          BY <1>16, <2>2, ZenonT(30)
             DEF SendReports, EndDataCapture, StopCapture, Capturing
      <2>3. QED
          BY <2>1, <2>2
  <1>17. CASE ResetStopEvent
      BY <1>17, ZenonT(30) DEF ResetStopEvent
  <1>18. CASE SendEnds
      BY <1>18, ZenonT(30) DEF SendEnds
  <1>19. CASE Unhook
      BY <1>19, ZenonT(30) DEF Unhook
  <1>20. CASE Deactivate
      BY <1>20, ZenonT(30) DEF Deactivate
  <1>21. CASE CaptureEnded
      BY <1>21, ZenonT(30) DEF CaptureEnded
  <1>22. CASE ReconnectWaits
      BY <1>22, SMTT(30) DEF ReconnectWaits, reconnectFrame
  <1>23. CASE ReconnectWakes
      BY <1>23, SMTT(30) DEF ReconnectWakes, Settled, reconnectFrame
  <1>24. CASE ReconnectStarts
      BY <1>24, ZenonT(30) DEF ReconnectStarts, ActualStart, reconnectFrame
  <1>25. CASE ReconnectChecks
      BY <1>25, SMTT(30) DEF ReconnectChecks, reconnectFrame
  <1>26. CASE ReconnectEnds
      BY <1>26, ZenonT(30) DEF ReconnectEnds, reconnectFrame
  <1>27. QED
      BY <1>1, <1>2, <1>3, <1>4, <1>5, <1>6, <1>7, <1>8, <1>9, <1>10, <1>11,
         <1>12, <1>13, <1>14, <1>15, <1>16, <1>17, <1>18, <1>19, <1>20, <1>21,
         <1>22, <1>23, <1>24, <1>25, <1>26 DEF Next, StopCall, ConnectThread,
         SendThread, EndThread, ReconnectThread

\* A flag is set and cleared where its thread is created and ends.
LEMMA FlagsKept ==
  ASSUME "close" \notin races, OutputInv, Next
  PROVE  FlagsFollowThreads'
  <1> USE DEF OutputInv, FlagsFollowThreads, InStop, captureVars, retryVars,
        streamVars, userVars
  <1>1. CASE Start  BY <1>1 DEF Start, Settled
  <1>2. CASE StartOutput  BY <1>2 DEF StartOutput, ActualStart
  <1>3. CASE Stop  BY <1>3 DEF Stop, MayStop, Settled
  <1>4. CASE ForceStop  BY <1>4 DEF ForceStop, MayStop, Settled
  <1>5. CASE ActualStop  BY <1>5 DEF ActualStop
  <1>6. CASE JoinReconnect  BY <1>6 DEF JoinReconnect
  <1>7. CASE StreamStop  BY <1>7 DEF StreamStop
  <1>8. CASE JoinConnect  BY <1>8 DEF JoinConnect
  <1>9. CASE Halt
      BY <1>9 DEF Halt, SignalStop, EndDataCapture, StopCapture, Capturing,
        Retry, Retries, GiveUp, CanReconnect
  <1>10. CASE ConnectFails
      BY <1>10 DEF ConnectFails, Connecting, Settled, SignalStop,
        EndDataCapture, StopCapture, Capturing, Retry, Retries, GiveUp,
        CanReconnect
  <1>11. CASE ConnectSucceeds
      BY <1>11 DEF ConnectSucceeds, Connecting, Settled
  <1>12. CASE BeginDataCapture  BY <1>12 DEF BeginDataCapture
  <1>13. CASE Activate  BY <1>13 DEF Activate
  <1>14. CASE ConnectEnds  BY <1>14 DEF ConnectEnds
  <1>15. CASE SendLoopEnds  BY <1>15 DEF SendLoopEnds, Settled
  <1>16. CASE SendReports
      BY <1>16 DEF SendReports, SignalStop, EndDataCapture, StopCapture,
        Capturing, Retry, Retries, GiveUp, CanReconnect
  <1>17. CASE ResetStopEvent  BY <1>17 DEF ResetStopEvent
  <1>18. CASE SendEnds  BY <1>18 DEF SendEnds
  <1>19. CASE Unhook  BY <1>19 DEF Unhook
  <1>20. CASE Deactivate  BY <1>20 DEF Deactivate
  <1>21. CASE CaptureEnded  BY <1>21 DEF CaptureEnded
  <1>22. CASE ReconnectWaits  BY <1>22 DEF ReconnectWaits, reconnectFrame
  <1>23. CASE ReconnectWakes
      BY <1>23 DEF ReconnectWakes, Settled, reconnectFrame
  <1>24. CASE ReconnectStarts
      BY <1>24 DEF ReconnectStarts, ActualStart, reconnectFrame
  <1>25. CASE ReconnectChecks  BY <1>25 DEF ReconnectChecks, reconnectFrame
  <1>26. CASE ReconnectEnds  BY <1>26 DEF ReconnectEnds, reconnectFrame
  <1>27. QED
      BY <1>1, <1>2, <1>3, <1>4, <1>5, <1>6, <1>7, <1>8, <1>9, <1>10, <1>11,
         <1>12, <1>13, <1>14, <1>15, <1>16, <1>17, <1>18, <1>19, <1>20, <1>21,
         <1>22, <1>23, <1>24, <1>25, <1>26 DEF Next, StopCall, ConnectThread,
         SendThread, EndThread, ReconnectThread

\* A capture that is ended has its thread at once, and one that begins finds
\* no such thread.
LEMMA CaptureKept ==
  ASSUME "close" \notin races, OutputInv, Next
  PROVE  CaptureFollowsThreads'
  <1> USE DEF OutputInv, CaptureFollowsThreads, ThreadsApart, InStop,
        captureVars, retryVars, streamVars, userVars
  <1>1. CASE Start  BY <1>1 DEF Start, Settled
  <1>2. CASE StartOutput  BY <1>2 DEF StartOutput, ActualStart
  <1>3. CASE Stop  BY <1>3 DEF Stop, MayStop, Settled
  <1>4. CASE ForceStop  BY <1>4 DEF ForceStop, MayStop, Settled
  <1>5. CASE ActualStop  BY <1>5 DEF ActualStop
  <1>6. CASE JoinReconnect  BY <1>6 DEF JoinReconnect
  <1>7. CASE StreamStop  BY <1>7 DEF StreamStop
  <1>8. CASE JoinConnect  BY <1>8 DEF JoinConnect
  <1>9. CASE Halt
      BY <1>9 DEF Halt, SignalStop, EndDataCapture, StopCapture, Capturing,
        Retry, Retries, GiveUp, CanReconnect
  <1>10. CASE ConnectFails
      BY <1>10 DEF ConnectFails, Connecting, Settled, SignalStop,
        EndDataCapture, StopCapture, Capturing, Retry, Retries, GiveUp,
        CanReconnect
  <1>11. CASE ConnectSucceeds
      BY <1>11 DEF ConnectSucceeds, Connecting, Settled
  <1>12. CASE BeginDataCapture  BY <1>12 DEF BeginDataCapture
  <1>13. CASE Activate  BY <1>13 DEF Activate
  <1>14. CASE ConnectEnds  BY <1>14 DEF ConnectEnds
  <1>15. CASE SendLoopEnds  BY <1>15 DEF SendLoopEnds, Settled
  <1>16. CASE SendReports
      BY <1>16 DEF SendReports, SignalStop, EndDataCapture, StopCapture,
        Capturing, Retry, Retries, GiveUp, CanReconnect
  <1>17. CASE ResetStopEvent  BY <1>17 DEF ResetStopEvent
  <1>18. CASE SendEnds  BY <1>18 DEF SendEnds
  <1>19. CASE Unhook  BY <1>19 DEF Unhook
  <1>20. CASE Deactivate  BY <1>20 DEF Deactivate
  <1>21. CASE CaptureEnded  BY <1>21 DEF CaptureEnded
  <1>22. CASE ReconnectWaits  BY <1>22 DEF ReconnectWaits, reconnectFrame
  <1>23. CASE ReconnectWakes
      BY <1>23 DEF ReconnectWakes, Settled, reconnectFrame
  <1>24. CASE ReconnectStarts
      BY <1>24 DEF ReconnectStarts, ActualStart, reconnectFrame
  <1>25. CASE ReconnectChecks  BY <1>25 DEF ReconnectChecks, reconnectFrame
  <1>26. CASE ReconnectEnds  BY <1>26 DEF ReconnectEnds, reconnectFrame
  <1>27. QED
      BY <1>1, <1>2, <1>3, <1>4, <1>5, <1>6, <1>7, <1>8, <1>9, <1>10, <1>11,
         <1>12, <1>13, <1>14, <1>15, <1>16, <1>17, <1>18, <1>19, <1>20, <1>21,
         <1>22, <1>23, <1>24, <1>25, <1>26 DEF Next, StopCall, ConnectThread,
         SendThread, EndThread, ReconnectThread

\* No step creates a thread beside one it must not meet.  A connection is made
\* only when no send thread is in its tail, a reconnect begins only when the
\* send thread has reported, and a stop begins only when none does.
LEMMA ApartKept ==
  ASSUME "close" \notin races, OutputInv, Next
  PROVE  ThreadsApart'
  <1> USE DEF OutputInv, TypeOK, FlagsFollowThreads, CaptureFollowsThreads,
        ThreadsApart, ReconnectFollowsStop, StopIsAnswered, InStop,
        captureVars, retryVars, streamVars, userVars
  <1>1. CASE Start  BY <1>1 DEF Start, Settled
  <1>2. CASE StartOutput  BY <1>2 DEF StartOutput, ActualStart
  <1>3. CASE Stop  BY <1>3 DEF Stop, MayStop, Settled
  <1>4. CASE ForceStop  BY <1>4 DEF ForceStop, MayStop, Settled
  <1>5. CASE ActualStop  BY <1>5 DEF ActualStop
  <1>6. CASE JoinReconnect  BY <1>6 DEF JoinReconnect
  <1>7. CASE StreamStop  BY <1>7 DEF StreamStop
  <1>8. CASE JoinConnect  BY <1>8 DEF JoinConnect
  <1>9. CASE Halt
      BY <1>9 DEF Halt, SignalStop, EndDataCapture, StopCapture, Capturing,
        Retry, Retries, GiveUp, CanReconnect
  <1>10. CASE ConnectFails
      BY <1>10 DEF ConnectFails, Connecting, Settled, SignalStop,
        EndDataCapture, StopCapture, Capturing, Retry, Retries, GiveUp,
        CanReconnect
  <1>11. CASE ConnectSucceeds
      BY <1>11 DEF ConnectSucceeds, Connecting, Settled
  <1>12. CASE BeginDataCapture  BY <1>12 DEF BeginDataCapture
  <1>13. CASE Activate  BY <1>13 DEF Activate
  <1>14. CASE ConnectEnds  BY <1>14 DEF ConnectEnds
  <1>15. CASE SendLoopEnds  BY <1>15 DEF SendLoopEnds, Settled
  <1>16. CASE SendReports
      BY <1>16 DEF SendReports, SignalStop, EndDataCapture, StopCapture,
        Capturing, Retry, Retries, GiveUp, CanReconnect
  <1>17. CASE ResetStopEvent  BY <1>17 DEF ResetStopEvent
  <1>18. CASE SendEnds  BY <1>18 DEF SendEnds
  <1>19. CASE Unhook  BY <1>19 DEF Unhook
  <1>20. CASE Deactivate  BY <1>20 DEF Deactivate
  <1>21. CASE CaptureEnded  BY <1>21 DEF CaptureEnded
  <1>22. CASE ReconnectWaits  BY <1>22 DEF ReconnectWaits, reconnectFrame
  <1>23. CASE ReconnectWakes
      BY <1>23 DEF ReconnectWakes, Settled, reconnectFrame
  <1>24. CASE ReconnectStarts
      BY <1>24 DEF ReconnectStarts, ActualStart, reconnectFrame
  <1>25. CASE ReconnectChecks  BY <1>25 DEF ReconnectChecks, reconnectFrame
  <1>26. CASE ReconnectEnds  BY <1>26 DEF ReconnectEnds, reconnectFrame
  <1>27. QED
      BY <1>1, <1>2, <1>3, <1>4, <1>5, <1>6, <1>7, <1>8, <1>9, <1>10, <1>11,
         <1>12, <1>13, <1>14, <1>15, <1>16, <1>17, <1>18, <1>19, <1>20, <1>21,
         <1>22, <1>23, <1>24, <1>25, <1>26 DEF Next, StopCall, ConnectThread,
         SendThread, EndThread, ReconnectThread

\* The reconnect thread goes on only while the output is reconnecting, and a
\* stop signals its event before it joins the thread.
LEMMA ReconnectKept ==
  ASSUME "close" \notin races, OutputInv, Next
  PROVE  ReconnectFollowsStop'
  <1> USE DEF OutputInv, TypeOK, FlagsFollowThreads, ThreadsApart,
        ReconnectFollowsStop, InStop, captureVars, retryVars, streamVars,
        userVars
  <1>1. CASE Start  BY <1>1 DEF Start, Settled
  <1>2. CASE StartOutput  BY <1>2 DEF StartOutput, ActualStart
  <1>3. CASE Stop  BY <1>3 DEF Stop, MayStop, Settled
  <1>4. CASE ForceStop  BY <1>4 DEF ForceStop, MayStop, Settled
  <1>5. CASE ActualStop  BY <1>5 DEF ActualStop
  <1>6. CASE JoinReconnect  BY <1>6 DEF JoinReconnect
  <1>7. CASE StreamStop  BY <1>7 DEF StreamStop
  <1>8. CASE JoinConnect  BY <1>8 DEF JoinConnect
  <1>9. CASE Halt
      BY <1>9 DEF Halt, SignalStop, EndDataCapture, StopCapture, Capturing,
        Retry, Retries, GiveUp, CanReconnect
  <1>10. CASE ConnectFails
      BY <1>10 DEF ConnectFails, Connecting, Settled, SignalStop,
        EndDataCapture, StopCapture, Capturing, Retry, Retries, GiveUp,
        CanReconnect
  <1>11. CASE ConnectSucceeds
      BY <1>11 DEF ConnectSucceeds, Connecting, Settled
  <1>12. CASE BeginDataCapture  BY <1>12 DEF BeginDataCapture
  <1>13. CASE Activate  BY <1>13 DEF Activate
  <1>14. CASE ConnectEnds  BY <1>14 DEF ConnectEnds
  <1>15. CASE SendLoopEnds  BY <1>15 DEF SendLoopEnds, Settled
  <1>16. CASE SendReports
      BY <1>16 DEF SendReports, SignalStop, EndDataCapture, StopCapture,
        Capturing, Retry, Retries, GiveUp, CanReconnect
  <1>17. CASE ResetStopEvent  BY <1>17 DEF ResetStopEvent
  <1>18. CASE SendEnds  BY <1>18 DEF SendEnds
  <1>19. CASE Unhook  BY <1>19 DEF Unhook
  <1>20. CASE Deactivate  BY <1>20 DEF Deactivate
  <1>21. CASE CaptureEnded  BY <1>21 DEF CaptureEnded
  <1>22. CASE ReconnectWaits  BY <1>22 DEF ReconnectWaits, reconnectFrame
  <1>23. CASE ReconnectWakes
      BY <1>23 DEF ReconnectWakes, Settled, reconnectFrame
  <1>24. CASE ReconnectStarts
      BY <1>24 DEF ReconnectStarts, ActualStart, reconnectFrame
  <1>25. CASE ReconnectChecks  BY <1>25 DEF ReconnectChecks, reconnectFrame
  <1>26. CASE ReconnectEnds  BY <1>26 DEF ReconnectEnds, reconnectFrame
  <1>27. QED
      BY <1>1, <1>2, <1>3, <1>4, <1>5, <1>6, <1>7, <1>8, <1>9, <1>10, <1>11,
         <1>12, <1>13, <1>14, <1>15, <1>16, <1>17, <1>18, <1>19, <1>20, <1>21,
         <1>22, <1>23, <1>24, <1>25, <1>26 DEF Next, StopCall, ConnectThread,
         SendThread, EndThread, ReconnectThread

\* A step that clears stopping_event belongs to a call that stops the output,
\* and the call returns when it has told the send thread or ended the capture.
LEMMA AnswerKept ==
  ASSUME "close" \notin races, OutputInv, Next
  PROVE  StopIsAnswered'
  <1> USE DEF OutputInv, TypeOK, FlagsFollowThreads, ThreadsApart,
        StopIsAnswered, InStop, captureVars, retryVars, streamVars, userVars
  <1>1. CASE Start  BY <1>1 DEF Start, Settled
  <1>2. CASE StartOutput  BY <1>2 DEF StartOutput, ActualStart
  <1>3. CASE Stop  BY <1>3 DEF Stop, MayStop, Settled
  <1>4. CASE ForceStop  BY <1>4 DEF ForceStop, MayStop, Settled
  <1>5. CASE ActualStop  BY <1>5 DEF ActualStop
  <1>6. CASE JoinReconnect  BY <1>6 DEF JoinReconnect
  <1>7. CASE StreamStop  BY <1>7 DEF StreamStop
  <1>8. CASE JoinConnect  BY <1>8 DEF JoinConnect
  <1>9. CASE Halt
      <2>1. CASE stream_active
          BY <1>9, <2>1 DEF Halt
      <2>2. CASE ~stream_active
          BY <1>9, <2>2, HaltAtRest DEF Halt
      <2>3. QED
          BY <2>1, <2>2
  <1>10. CASE ConnectFails
      BY <1>10 DEF ConnectFails, Connecting, Settled, SignalStop,
        EndDataCapture, StopCapture, Capturing, Retry, Retries, GiveUp,
        CanReconnect
  <1>11. CASE ConnectSucceeds
      BY <1>11 DEF ConnectSucceeds, Connecting, Settled
  <1>12. CASE BeginDataCapture  BY <1>12 DEF BeginDataCapture
  <1>13. CASE Activate  BY <1>13 DEF Activate
  <1>14. CASE ConnectEnds  BY <1>14 DEF ConnectEnds
  <1>15. CASE SendLoopEnds  BY <1>15 DEF SendLoopEnds, Settled
  <1>16. CASE SendReports
      BY <1>16 DEF SendReports, SignalStop, EndDataCapture, StopCapture,
        Capturing, Retry, Retries, GiveUp, CanReconnect
  <1>17. CASE ResetStopEvent  BY <1>17 DEF ResetStopEvent
  <1>18. CASE SendEnds  BY <1>18 DEF SendEnds
  <1>19. CASE Unhook  BY <1>19 DEF Unhook
  <1>20. CASE Deactivate  BY <1>20 DEF Deactivate
  <1>21. CASE CaptureEnded  BY <1>21 DEF CaptureEnded
  <1>22. CASE ReconnectWaits  BY <1>22 DEF ReconnectWaits, reconnectFrame
  <1>23. CASE ReconnectWakes
      BY <1>23 DEF ReconnectWakes, Settled, reconnectFrame
  <1>24. CASE ReconnectStarts
      BY <1>24 DEF ReconnectStarts, ActualStart, reconnectFrame
  <1>25. CASE ReconnectChecks  BY <1>25 DEF ReconnectChecks, reconnectFrame
  <1>26. CASE ReconnectEnds  BY <1>26 DEF ReconnectEnds, reconnectFrame
  <1>27. QED
      BY <1>1, <1>2, <1>3, <1>4, <1>5, <1>6, <1>7, <1>8, <1>9, <1>10, <1>11,
         <1>12, <1>13, <1>14, <1>15, <1>16, <1>17, <1>18, <1>19, <1>20, <1>21,
         <1>22, <1>23, <1>24, <1>25, <1>26 DEF Next, StopCall, ConnectThread,
         SendThread, EndThread, ReconnectThread

\* The frontend is told "stop" only by the last thread that could go on.
LEMMA NothingKept ==
  ASSUME "close" \notin races, OutputInv, Next
  PROVE  NothingLeftToStart'
  <1> USE DEF OutputInv, ThreadsApart, NothingLeftToStart, InStop, captureVars,
        retryVars, streamVars, userVars
  <1>1. CASE Start  BY <1>1 DEF Start, Settled
  <1>2. CASE StartOutput  BY <1>2 DEF StartOutput, ActualStart
  <1>3. CASE Stop  BY <1>3 DEF Stop, MayStop, Settled
  <1>4. CASE ForceStop  BY <1>4 DEF ForceStop, MayStop, Settled
  <1>5. CASE ActualStop  BY <1>5 DEF ActualStop
  <1>6. CASE JoinReconnect  BY <1>6 DEF JoinReconnect
  <1>7. CASE StreamStop  BY <1>7 DEF StreamStop
  <1>8. CASE JoinConnect  BY <1>8 DEF JoinConnect
  <1>9. CASE Halt
      <2>1. CASE stream_active
          BY <1>9, <2>1 DEF Halt
      <2>2. CASE ~stream_active
          BY <1>9, <2>2, HaltAtRest DEF Halt
      <2>3. QED
          BY <2>1, <2>2
  <1>10. CASE ConnectFails
      BY <1>10 DEF ConnectFails, Connecting, Settled, SignalStop,
        EndDataCapture, StopCapture, Capturing, Retry, Retries, GiveUp,
        CanReconnect
  <1>11. CASE ConnectSucceeds
      BY <1>11 DEF ConnectSucceeds, Connecting, Settled
  <1>12. CASE BeginDataCapture  BY <1>12 DEF BeginDataCapture
  <1>13. CASE Activate  BY <1>13 DEF Activate
  <1>14. CASE ConnectEnds  BY <1>14 DEF ConnectEnds
  <1>15. CASE SendLoopEnds  BY <1>15 DEF SendLoopEnds, Settled
  <1>16. CASE SendReports
      BY <1>16 DEF SendReports, SignalStop, EndDataCapture, StopCapture,
        Capturing, Retry, Retries, GiveUp, CanReconnect
  <1>17. CASE ResetStopEvent  BY <1>17 DEF ResetStopEvent
  <1>18. CASE SendEnds  BY <1>18 DEF SendEnds
  <1>19. CASE Unhook  BY <1>19 DEF Unhook
  <1>20. CASE Deactivate  BY <1>20 DEF Deactivate
  <1>21. CASE CaptureEnded  BY <1>21 DEF CaptureEnded
  <1>22. CASE ReconnectWaits  BY <1>22 DEF ReconnectWaits, reconnectFrame
  <1>23. CASE ReconnectWakes
      BY <1>23 DEF ReconnectWakes, Settled, reconnectFrame
  <1>24. CASE ReconnectStarts
      BY <1>24 DEF ReconnectStarts, ActualStart, reconnectFrame
  <1>25. CASE ReconnectChecks  BY <1>25 DEF ReconnectChecks, reconnectFrame
  <1>26. CASE ReconnectEnds  BY <1>26 DEF ReconnectEnds, reconnectFrame
  <1>27. QED
      BY <1>1, <1>2, <1>3, <1>4, <1>5, <1>6, <1>7, <1>8, <1>9, <1>10, <1>11,
         <1>12, <1>13, <1>14, <1>15, <1>16, <1>17, <1>18, <1>19, <1>20, <1>21,
         <1>22, <1>23, <1>24, <1>25, <1>26 DEF Next, StopCall, ConnectThread,
         SendThread, EndThread, ReconnectThread

\* What may coincide is chosen once.
LEMMA RacesKept ==
  ASSUME [Next]_vars
  PROVE  races' = races
  <1>1. CASE Start \/ StartOutput \/ Stop \/ ForceStop
      BY <1>1 DEF Start, StartOutput, Stop, ForceStop
  <1>2. CASE StopCall
      BY <1>2 DEF StopCall, ActualStop, JoinReconnect, StreamStop, JoinConnect,
                  Halt
  <1>3. CASE ConnectThread
      BY <1>3 DEF ConnectThread, ConnectFails, ConnectSucceeds,
                  BeginDataCapture, Activate, ConnectEnds
  <1>4. CASE SendThread
      BY <1>4 DEF SendThread, SendLoopEnds, SendReports, ResetStopEvent,
                  SendEnds
  <1>5. CASE EndThread
      BY <1>5 DEF EndThread, Unhook, Deactivate, CaptureEnded
  <1>6. CASE ReconnectThread
      BY <1>6 DEF ReconnectThread, ReconnectWaits, ReconnectWakes,
                  ReconnectStarts, ReconnectChecks, ReconnectEnds,
                  reconnectFrame
  <1>7. CASE UNCHANGED vars
      BY <1>7 DEF vars
  <1>8. QED
      BY <1>1, <1>2, <1>3, <1>4, <1>5, <1>6, <1>7 DEF Next

-----------------------------------------------------------------------------
(* The theorems                                                             *)

\* An output that was created has no thread, and stopping_event is signalled.
LEMMA InitOutputInv == Init => OutputInv
  <1>1. SUFFICES ASSUME Init PROVE OutputInv
      OBVIOUS
  <1>2. TypeOK /\ races \in Races
    <2>1. reconnect_retries \in 0 .. RetryMax /\ starts \in 0 .. MaxStarts
        BY <1>1, StreamOutputAssumption DEF Init
    <2>2. QED
        BY <1>1, <2>1 DEF Init, TypeOK
  <1>3. FlagsFollowThreads /\ CaptureFollowsThreads /\ ThreadsApart
      BY <1>1 DEF Init, FlagsFollowThreads, CaptureFollowsThreads, ThreadsApart,
                  InStop
  <1>4. ReconnectFollowsStop /\ StopIsAnswered /\ NothingLeftToStart
      BY <1>1 DEF Init, ReconnectFollowsStop, StopIsAnswered,
                  NothingLeftToStart, InStop
  <1>5. QED
      BY <1>2, <1>3, <1>4 DEF OutputInv

\* The invariant is inductive where the send thread does not end during a call
\* that stops the output.
LEMMA NextOutputInv ==
  ASSUME "close" \notin races, OutputInv, [Next]_vars
  PROVE  OutputInv'
  <1>1. CASE Next
    <2>1. races' \in Races
        BY RacesKept DEF OutputInv
    <2>2. QED
        BY <1>1, <2>1, TypeKept, FlagsKept, CaptureKept, ApartKept,
           ReconnectKept, AnswerKept, NothingKept DEF OutputInv
  <1>2. CASE UNCHANGED vars
    <2>1. TypeOK' /\ (races \in Races)'
        BY <1>2 DEF OutputInv, TypeOK, vars, captureVars, retryVars,
                    streamVars, userVars
    <2>2. FlagsFollowThreads' /\ CaptureFollowsThreads' /\ ThreadsApart'
        BY <1>2 DEF OutputInv, FlagsFollowThreads, CaptureFollowsThreads,
                    ThreadsApart, InStop, vars, captureVars, streamVars,
                    userVars
    <2>3. ReconnectFollowsStop' /\ StopIsAnswered' /\ NothingLeftToStart'
        BY <1>2 DEF OutputInv, ReconnectFollowsStop, StopIsAnswered,
                    NothingLeftToStart, InStop, vars, captureVars, retryVars,
                    streamVars, userVars
    <2>4. QED
        BY <2>1, <2>2, <2>3 DEF OutputInv
  <1>3. QED
      BY <1>1, <1>2

\* The invariant holds in every behaviour in which the send thread does not
\* end during a call that stops the output.
THEOREM OutputInvHolds ==
  ASSUME \A r \in Races : "close" \notin r
  PROVE  Spec => []OutputInv
  <1>1. OutputInv => "close" \notin races
      BY DEF OutputInv
  <1>2. OutputInv /\ [Next]_vars => OutputInv'
      BY <1>1, NextOutputInv
  <1>3. QED
      BY InitOutputInv, <1>2, PTL DEF Spec

\* The flags of the output and of the stream, the callbacks and the threads
\* agree whenever every thread has finished what it was doing, a capture never
\* finds the callbacks of the last one attached, and nobody waits for
\* stopping_event for ever.
THEOREM FlagsAgreeAtRest ==
  ASSUME \A r \in Races : "close" \notin r
  PROVE  Spec => []AtRest
  <1>1. OutputInv => HookedOnce
      BY DEF OutputInv, ThreadsApart, CaptureFollowsThreads, HookedOnce
  <1>2. OutputInv /\ Resting => ~connecting /\ (stopping_event \/ stop_event)
      BY DEF OutputInv, FlagsFollowThreads, StopIsAnswered, InStop, Resting
  <1>3. OutputInv /\ Resting =>
          /\ active = encoders /\ active = data_active
          /\ active = stream_active /\ active = (send = "streaming")
      BY DEF OutputInv, TypeOK, FlagsFollowThreads, CaptureFollowsThreads,
             Resting
  <1>4. OutputInv => AtRest
      BY <1>1, <1>2, <1>3 DEF AtRest
  <1>5. QED
      BY <1>4, OutputInvHolds, PTL

\* After the frontend was told "stop" it hears of nothing but what it asked for
\* itself: no thread is left that starts or reconnects the stream.
THEOREM StoppedStaysStopped ==
  ASSUME \A r \in Races : "close" \notin r
  PROVE  Spec => StopIsFinal
  <1> DEFINE Answers == signal = "stop" /\ signal' # "stop"
                           => signal' \in {"starting", "stopping"}
  <1>1. ASSUME OutputInv, Next PROVE Answers
    <2>1. CASE Start \/ StartOutput \/ Stop \/ ForceStop
        BY <2>1 DEF Start, StartOutput, Stop, ForceStop
    <2>2. CASE Halt
        BY <1>1, <2>2 DEF Halt, SignalStop, CanReconnect, EndDataCapture
    <2>3. CASE StopCall /\ ~Halt
        BY <2>3 DEF StopCall, ActualStop, JoinReconnect, StreamStop, JoinConnect
    <2>4. CASE ConnectThread
      <3>1. signal = "stop" => connect \in {"none", "tail"}
          BY <1>1 DEF OutputInv, NothingLeftToStart
      <3>2. QED
          BY <2>4, <3>1 DEF ConnectThread, ConnectFails, Connecting,
             ConnectSucceeds, BeginDataCapture, Activate, ConnectEnds
    <2>5. CASE SendThread
      <3>1. signal = "stop" => send # "lost"
          BY <1>1 DEF OutputInv, NothingLeftToStart
      <3>2. QED
          BY <2>5, <3>1 DEF SendThread, SendLoopEnds, SendReports,
             ResetStopEvent, SendEnds
    <2>6. CASE EndThread
        BY <2>6 DEF EndThread, Unhook, Deactivate, CaptureEnded
    <2>7. CASE ReconnectThread
        BY <2>7 DEF ReconnectThread, ReconnectWaits, ReconnectWakes,
           ReconnectStarts, ReconnectChecks, ReconnectEnds, reconnectFrame
    <2>8. QED
        BY <1>1, <2>1, <2>2, <2>3, <2>4, <2>5, <2>6, <2>7 DEF Next
  <1>2. OutputInv /\ [Next]_vars => [Answers]_vars
      BY <1>1
  <1>3. QED
      BY <1>2, OutputInvHolds, PTL DEF Spec, StopIsFinal


-----------------------------------------------------------------------------
(* WebRTCSession: the inductive invariant                                  *)

\* The network thread before the session streams, and when there is none.
Starting == {"connecting", "login", "attach", "log", "logged", "answer",
             "begin", "activate"}
Over == {"none", "ended"}

\* A caller of WebRTCStream::stop that has taken the peer connection.
StopPoints == {"out", "check", "close", "keepalive", "disconnect", "join",
               "delete", "end"}
Past == StopPoints \ {"out", "check"}
PastCheck(c) == stop[c] \in Past

\* RtcTypeOK in three parts.
FlagsTyped ==
    /\ rtc_active \in BOOLEAN /\ rtc_data_active \in BOOLEAN
    /\ hooked \in BOOLEAN /\ rtc_stopping_event \in BOOLEAN
    /\ pc \in BOOLEAN /\ peer_open \in BOOLEAN /\ client \in BOOLEAN
    /\ stopped \in BOOLEAN /\ keepalive \in BOOLEAN
    /\ is_running \in BOOLEAN /\ offered \in BOOLEAN

PointsTyped ==
    /\ rtc_end \in {"none", "unhook", "deactivate"}
    /\ button \in {"start", "connecting", "stop", "stopping"}
    /\ ws \in Starting \cup Over \cup {"streaming", "closing", "tail"}
    /\ rtc_user \in {"idle", "start", "setup", "connect", "stop"}
    /\ sig \in {"idle", "offer", "local", "remote", "failure"}
    /\ stop \in [Callers -> StopPoints]

CountsTyped ==
    rtc_starts \in 0 .. MaxSessions /\ refs \in 0 .. MaxSessions + 1

\* The peer connection is taken by one caller of stop only, which has it to
\* itself until the next start.
CallersApart ==
    /\ stop["user"] # "out" => rtc_user \in {"setup", "stop"}
    /\ stop["signaling"] # "out" => sig = "failure"
    /\ ~(PastCheck("user") /\ PastCheck("signaling"))
    /\ \A c \in Callers : PastCheck(c) => ~pc
    /\ rtc_user = "setup" /\ stop["user"] # "check" => ~pc

\* A user starts when no connection is left, and stops one that streams.
UserFollowsSession ==
    /\ rtc_user \in {"start", "setup"} =>
          ws \in Over /\ sig \in {"idle", "failure"}
    /\ rtc_user = "connect" => ws = "none" /\ sig = "idle" /\ client
    /\ rtc_user = "stop" =>
          ws \in {"streaming", "closing", "tail", "ended"} /\ button # "stop"
    /\ rtc_user \in {"start", "setup", "connect"} => ~rtc_active
    /\ rtc_user \in {"setup", "connect"} => rtc_stopping_event

\* How far the network thread can be while the signaling thread works for it,
\* and that no offer is answered before it was made.
SignalingFollowsSession ==
    /\ sig \in {"offer", "local"} =>
          /\ ws \in {"logged", "closing", "tail", "ended"}
          /\ rtc_user = "idle" /\ ~rtc_active /\ pc /\ client
    /\ sig = "offer" \/ rtc_user = "connect" => ~offered
    /\ ws \in {"connecting", "login", "attach", "log"} => ~offered
    /\ sig = "remote" =>
          ws \in {"begin", "activate", "streaming", "closing", "tail", "ended"}
    /\ sig = "failure" =>
          /\ ws \in {"logged", "begin", "activate", "streaming", "closing",
                     "tail", "ended"}
          /\ ws = "logged" => ~offered
          /\ stop["signaling"] # "check" => ~pc

\* The client is there until somebody who stops the session has closed the peer
\* connection and waited for both of the client's threads.
ClientFollowsStop ==
    /\ ClientAlone
    /\ client => pc \/ \E c \in Callers : stop[c] \in Past \ {"end"}
    /\ peer_open /\ offered => client
    /\ \A c \in Callers :
          /\ PastCheck(c) /\ stop[c] # "close" => ~peer_open
          /\ stop[c] \in {"disconnect", "join", "delete", "end"} => ~keepalive
          /\ stop[c] \in {"delete", "end"} => ws \in Over
    /\ stopped => ws = "ended" \/ \E c \in Callers : stop[c] = "join"

\* Raw frames are captured from the end of the negotiation; a capture whose
\* connection is gone has somebody who will end it.
CaptureFollowsSession ==
    /\ rtc_end # "none" => rtc_active
    /\ rtc_data_active <=> ws = "activate" \/ (rtc_active /\ rtc_end = "none")
    /\ hooked <=> rtc_data_active \/ rtc_end = "unhook"
    /\ ws \in Starting => ~rtc_active /\ rtc_stopping_event
    /\ rtc_active /\ rtc_end = "none" =>
          \/ ws \in {"streaming", "closing"}
          \/ \E c \in Callers : stop[c] \in {"join", "delete", "end"}
    /\ ws = "streaming" /\ ~rtc_data_active => PastCheck("user")

\* The button knows of the capture, and whoever waits for stopping_event has
\* somebody who will signal it.
ButtonFollowsCapture ==
    /\ button = "stop" => rtc_active /\ rtc_data_active
    /\ rtc_active /\ rtc_data_active =>
          button = IF rtc_stopping_event THEN "stop" ELSE "stopping"
    /\ ~rtc_stopping_event =>
          \/ rtc_end # "none"
          \/ \E c \in Callers : PastCheck(c)
          \/ stop["user"] = "check" /\ pc

\* A session has a reference of its own, which only its stop gives back.
RefsFollowSession ==
    /\ refs >= 1 /\ refs <= rtc_starts + 1
    /\ rtc_user = "start" => refs <= rtc_starts
    /\ rtc_user \in {"setup", "connect", "stop"} \/ ws \in Starting
           \/ button = "stop"
       => refs >= 2

RtcInv ==
    /\ FlagsTyped /\ PointsTyped /\ CountsTyped
    /\ CallersApart /\ UserFollowsSession /\ SignalingFollowsSession
    /\ ClientFollowsStop /\ CaptureFollowsSession /\ ButtonFollowsCapture
    /\ RefsFollowSession

-----------------------------------------------------------------------------
(* The steps keep the invariant                                              *)

\* Every step leaves the flags of output, stream and client booleans.
LEMMA RtcFlagsKept ==
  ASSUME RtcRaces = {}, "local" \notin Faults, RtcInv, RtcNext
  PROVE  FlagsTyped'
  <1> USE DEF RtcInv, FlagsTyped, PastCheck, StopPoints, Past, Starting, Over,
        Callers, rtcCaptureVars, objectVars, clientVars, callVars, stopFrame,
        networkFrame
  <1>1. CASE RtcStart
      BY <1>1, SMTT(30) DEF RtcStart, MayStart
  <1>2. CASE StreamStart
      BY <1>2, SMTT(30) DEF StreamStart
  <1>3. CASE Setup
      BY <1>3, ZenonT(30) DEF Setup
  <1>4. CASE SetupFails
      BY <1>4, ZenonT(30) DEF SetupFails
  <1>5. CASE RtcConnect
      BY <1>5, SMTT(30) DEF RtcConnect
  <1>6. CASE RtcConnectFails
      BY <1>6, ZenonT(30) DEF RtcConnectFails, RtcEndDataCapture
  <1>7. CASE RtcStop
      BY <1>7, ZenonT(30) DEF RtcStop
  <1>8. CASE RtcStreamStop
      BY <1>8, SMTT(30) DEF RtcStreamStop
  <1>9. ASSUME NEW c \in Callers, StopCheck(c) PROVE FlagsTyped'
      BY <1>9, ZenonT(30) DEF StopCheck
  <1>10. ASSUME NEW c \in Callers, StopClose(c) PROVE FlagsTyped'
      BY <1>10, ZenonT(30) DEF StopClose
  <1>11. ASSUME NEW c \in Callers, JoinKeepAlive(c) PROVE FlagsTyped'
      BY <1>11, SMTT(30) DEF JoinKeepAlive
  <1>12. ASSUME NEW c \in Callers, Disconnect(c) PROVE FlagsTyped'
      BY <1>12, ZenonT(30) DEF Disconnect, Open
  <1>13. ASSUME NEW c \in Callers, JoinThread(c) PROVE FlagsTyped'
      BY <1>13, SMTT(30) DEF JoinThread
  <1>14. ASSUME NEW c \in Callers, DeleteClient(c) PROVE FlagsTyped'
      BY <1>14, ZenonT(30) DEF DeleteClient
  <1>15. ASSUME NEW c \in Callers, StopEnd(c) PROVE FlagsTyped'
      BY <1>15, ZenonT(30) DEF StopEnd, RtcEndDataCapture
  <1>16. CASE Connected \/ Joined \/ Answered
      BY <1>16, SMTT(30) DEF Connected, Joined, Answered, Message
  <1>17. CASE Attached
      BY <1>17, SMTT(30) DEF Attached
  <1>18. CASE Logged
      BY <1>18, SMTT(30) DEF Logged
  <1>19. CASE Opened
      BY <1>19, SMTT(30) DEF Opened
  <1>20. CASE RtcBeginDataCapture
      BY <1>20, ZenonT(30) DEF RtcBeginDataCapture
  <1>21. CASE RtcActivate
      BY <1>21, SMTT(30) DEF RtcActivate
  <1>22. CASE ConnectionLost
      BY <1>22, SMTT(30) DEF ConnectionLost, Waiting
  <1>23. CASE Disconnected
      BY <1>23, ZenonT(30) DEF Disconnected, RtcEndDataCapture
  <1>24. CASE ThreadEnds
      BY <1>24, SMTT(30) DEF ThreadEnds, Waiting
  <1>25. CASE KeepAliveEnds
      BY <1>25, ZenonT(30) DEF KeepAliveEnds
  <1>26. CASE OfferCreated
      BY <1>26, SMTT(30) DEF OfferCreated
  <1>27. CASE DescriptionSet
      BY <1>27, SMTT(30) DEF DescriptionSet
  <1>28. CASE Failed
      BY <1>28, WebRTCAssumption, SMTT(30) DEF Failed
  <1>29. CASE FailureReported
      BY <1>29, ZenonT(30) DEF FailureReported, RtcEndDataCapture
  <1>30. CASE RtcUnhook \/ RtcDeactivate
      BY <1>30, ZenonT(30) DEF RtcUnhook, RtcDeactivate
  <1>31. QED
      BY <1>1, <1>2, <1>3, <1>4, <1>5, <1>6, <1>7, <1>8, <1>9, <1>10, <1>11,
         <1>12, <1>13, <1>14, <1>15, <1>16, <1>17, <1>18, <1>19, <1>20, <1>21,
         <1>22, <1>23, <1>24, <1>25, <1>26, <1>27, <1>28, <1>29, <1>30 DEF
         RtcNext, UserCall, Network, Handlers, Signaling, RtcEndThread,
         StopSteps

\* Every step takes a thread from one point of its code to another.
LEMMA PointsKept ==
  ASSUME RtcRaces = {}, "local" \notin Faults, RtcInv, RtcNext
  PROVE  PointsTyped'
  <1> USE DEF RtcInv, PointsTyped, PastCheck, StopPoints, Past, Starting, Over,
        Callers, rtcCaptureVars, objectVars, clientVars, callVars, stopFrame,
        networkFrame
  <1>1. CASE RtcStart  BY <1>1 DEF RtcStart, MayStart
  <1>2. CASE StreamStart  BY <1>2 DEF StreamStart
  <1>3. CASE Setup  BY <1>3 DEF Setup
  <1>4. CASE SetupFails  BY <1>4 DEF SetupFails
  <1>5. CASE RtcConnect  BY <1>5 DEF RtcConnect
  <1>6. CASE RtcConnectFails  BY <1>6 DEF RtcConnectFails, RtcEndDataCapture
  <1>7. CASE RtcStop  BY <1>7 DEF RtcStop
  <1>8. CASE RtcStreamStop  BY <1>8 DEF RtcStreamStop
  <1>9. ASSUME NEW c \in Callers, StopCheck(c) PROVE PointsTyped'
      BY <1>9 DEF StopCheck
  <1>10. ASSUME NEW c \in Callers, StopClose(c) PROVE PointsTyped'
      BY <1>10 DEF StopClose
  <1>11. ASSUME NEW c \in Callers, JoinKeepAlive(c) PROVE PointsTyped'
      BY <1>11 DEF JoinKeepAlive
  <1>12. ASSUME NEW c \in Callers, Disconnect(c) PROVE PointsTyped'
      BY <1>12 DEF Disconnect, Open
  <1>13. ASSUME NEW c \in Callers, JoinThread(c) PROVE PointsTyped'
      BY <1>13 DEF JoinThread
  <1>14. ASSUME NEW c \in Callers, DeleteClient(c) PROVE PointsTyped'
      BY <1>14 DEF DeleteClient
  <1>15. ASSUME NEW c \in Callers, StopEnd(c) PROVE PointsTyped'
      BY <1>15 DEF StopEnd, RtcEndDataCapture
  <1>16. CASE Connected \/ Joined \/ Answered
      BY <1>16 DEF Connected, Joined, Answered, Message
  <1>17. CASE Attached  BY <1>17 DEF Attached
  <1>18. CASE Logged  BY <1>18 DEF Logged
  <1>19. CASE Opened  BY <1>19 DEF Opened
  <1>20. CASE RtcBeginDataCapture  BY <1>20 DEF RtcBeginDataCapture
  <1>21. CASE RtcActivate  BY <1>21 DEF RtcActivate
  <1>22. CASE ConnectionLost  BY <1>22 DEF ConnectionLost, Waiting
  <1>23. CASE Disconnected  BY <1>23 DEF Disconnected, RtcEndDataCapture
  <1>24. CASE ThreadEnds  BY <1>24 DEF ThreadEnds, Waiting
  <1>25. CASE KeepAliveEnds  BY <1>25 DEF KeepAliveEnds
  <1>26. CASE OfferCreated  BY <1>26 DEF OfferCreated
  <1>27. CASE DescriptionSet  BY <1>27 DEF DescriptionSet
  <1>28. CASE Failed  BY <1>28, WebRTCAssumption DEF Failed
  <1>29. CASE FailureReported  BY <1>29 DEF FailureReported, RtcEndDataCapture
  <1>30. CASE RtcUnhook \/ RtcDeactivate
      BY <1>30 DEF RtcUnhook, RtcDeactivate
  <1>31. QED
      BY <1>1, <1>2, <1>3, <1>4, <1>5, <1>6, <1>7, <1>8, <1>9, <1>10, <1>11,
         <1>12, <1>13, <1>14, <1>15, <1>16, <1>17, <1>18, <1>19, <1>20, <1>21,
         <1>22, <1>23, <1>24, <1>25, <1>26, <1>27, <1>28, <1>29, <1>30 DEF
         RtcNext, UserCall, Network, Handlers, Signaling, RtcEndThread,
         StopSteps

\* A reference is taken once for a start, and given back only by a stop, which
\* has one.
LEMMA CountsKept ==
  ASSUME RtcRaces = {}, "local" \notin Faults, RtcInv, RtcNext
  PROVE  CountsTyped'
  <1> USE WebRTCAssumption DEF RtcInv, CountsTyped, RefsFollowSession,
        PastCheck, StopPoints, Past, Starting, Over, Callers, rtcCaptureVars,
        objectVars, clientVars, callVars, stopFrame, networkFrame
  <1>1. CASE RtcStart  BY <1>1 DEF RtcStart, MayStart
  <1>2. CASE StreamStart  BY <1>2 DEF StreamStart
  <1>3. CASE Setup  BY <1>3 DEF Setup
  <1>4. CASE SetupFails  BY <1>4 DEF SetupFails
  <1>5. CASE RtcConnect  BY <1>5 DEF RtcConnect
  <1>6. CASE RtcConnectFails  BY <1>6 DEF RtcConnectFails, RtcEndDataCapture
  <1>7. CASE RtcStop  BY <1>7 DEF RtcStop
  <1>8. CASE RtcStreamStop  BY <1>8 DEF RtcStreamStop
  <1>9. ASSUME NEW c \in Callers, StopCheck(c) PROVE CountsTyped'
      BY <1>9 DEF StopCheck
  <1>10. ASSUME NEW c \in Callers, StopClose(c) PROVE CountsTyped'
      BY <1>10 DEF StopClose
  <1>11. ASSUME NEW c \in Callers, JoinKeepAlive(c) PROVE CountsTyped'
      BY <1>11 DEF JoinKeepAlive
  <1>12. ASSUME NEW c \in Callers, Disconnect(c) PROVE CountsTyped'
      BY <1>12 DEF Disconnect, Open
  <1>13. ASSUME NEW c \in Callers, JoinThread(c) PROVE CountsTyped'
      BY <1>13 DEF JoinThread
  <1>14. ASSUME NEW c \in Callers, DeleteClient(c) PROVE CountsTyped'
      BY <1>14 DEF DeleteClient
  <1>15. ASSUME NEW c \in Callers, StopEnd(c) PROVE CountsTyped'
      BY <1>15 DEF StopEnd, RtcEndDataCapture
  <1>16. CASE Connected \/ Joined \/ Answered
      BY <1>16 DEF Connected, Joined, Answered, Message
  <1>17. CASE Attached  BY <1>17 DEF Attached
  <1>18. CASE Logged  BY <1>18 DEF Logged
  <1>19. CASE Opened  BY <1>19 DEF Opened
  <1>20. CASE RtcBeginDataCapture  BY <1>20 DEF RtcBeginDataCapture
  <1>21. CASE RtcActivate  BY <1>21 DEF RtcActivate
  <1>22. CASE ConnectionLost  BY <1>22 DEF ConnectionLost, Waiting
  <1>23. CASE Disconnected  BY <1>23 DEF Disconnected, RtcEndDataCapture
  <1>24. CASE ThreadEnds  BY <1>24 DEF ThreadEnds, Waiting
  <1>25. CASE KeepAliveEnds  BY <1>25 DEF KeepAliveEnds
  <1>26. CASE OfferCreated  BY <1>26 DEF OfferCreated
  <1>27. CASE DescriptionSet  BY <1>27 DEF DescriptionSet
  <1>28. CASE Failed  BY <1>28, WebRTCAssumption DEF Failed
  <1>29. CASE FailureReported  BY <1>29 DEF FailureReported, RtcEndDataCapture
  <1>30. CASE RtcUnhook \/ RtcDeactivate
      BY <1>30 DEF RtcUnhook, RtcDeactivate
  <1>31. QED
      BY <1>1, <1>2, <1>3, <1>4, <1>5, <1>6, <1>7, <1>8, <1>9, <1>10, <1>11,
         <1>12, <1>13, <1>14, <1>15, <1>16, <1>17, <1>18, <1>19, <1>20, <1>21,
         <1>22, <1>23, <1>24, <1>25, <1>26, <1>27, <1>28, <1>29, <1>30 DEF
         RtcNext, UserCall, Network, Handlers, Signaling, RtcEndThread,
         StopSteps

\* The one who finds the peer connection takes it at once, and it is made again
\* only when the signaling thread is idle and the user's stop has returned.
LEMMA CallersKept ==
  ASSUME RtcRaces = {}, "local" \notin Faults, RtcInv, RtcNext
  PROVE  CallersApart'
  <1> USE DEF RtcInv, PointsTyped, CallersApart, PastCheck, StopPoints, Past,
        Starting, Over, Callers, rtcCaptureVars, objectVars, clientVars,
        callVars, stopFrame, networkFrame
  <1>1. CASE RtcStart  BY <1>1 DEF RtcStart, MayStart
  <1>2. CASE StreamStart  BY <1>2 DEF StreamStart
  <1>3. CASE Setup  BY <1>3 DEF Setup
  <1>4. CASE SetupFails  BY <1>4 DEF SetupFails
  <1>5. CASE RtcConnect  BY <1>5 DEF RtcConnect
  <1>6. CASE RtcConnectFails  BY <1>6 DEF RtcConnectFails, RtcEndDataCapture
  <1>7. CASE RtcStop  BY <1>7 DEF RtcStop
  <1>8. CASE RtcStreamStop  BY <1>8 DEF RtcStreamStop
  <1>9. ASSUME NEW c \in Callers, StopCheck(c) PROVE CallersApart'
      BY <1>9 DEF StopCheck
  <1>10. ASSUME NEW c \in Callers, StopClose(c) PROVE CallersApart'
      BY <1>10 DEF StopClose
  <1>11. ASSUME NEW c \in Callers, JoinKeepAlive(c) PROVE CallersApart'
      BY <1>11 DEF JoinKeepAlive
  <1>12. ASSUME NEW c \in Callers, Disconnect(c) PROVE CallersApart'
      BY <1>12 DEF Disconnect, Open
  <1>13. ASSUME NEW c \in Callers, JoinThread(c) PROVE CallersApart'
      BY <1>13 DEF JoinThread
  <1>14. ASSUME NEW c \in Callers, DeleteClient(c) PROVE CallersApart'
      BY <1>14 DEF DeleteClient
  <1>15. ASSUME NEW c \in Callers, StopEnd(c) PROVE CallersApart'
      BY <1>15 DEF StopEnd, RtcEndDataCapture
  <1>16. CASE Connected \/ Joined \/ Answered
      BY <1>16 DEF Connected, Joined, Answered, Message
  <1>17. CASE Attached  BY <1>17 DEF Attached
  <1>18. CASE Logged  BY <1>18 DEF Logged
  <1>19. CASE Opened  BY <1>19 DEF Opened
  <1>20. CASE RtcBeginDataCapture  BY <1>20 DEF RtcBeginDataCapture
  <1>21. CASE RtcActivate  BY <1>21 DEF RtcActivate
  <1>22. CASE ConnectionLost  BY <1>22 DEF ConnectionLost, Waiting
  <1>23. CASE Disconnected  BY <1>23 DEF Disconnected, RtcEndDataCapture
  <1>24. CASE ThreadEnds  BY <1>24 DEF ThreadEnds, Waiting
  <1>25. CASE KeepAliveEnds  BY <1>25 DEF KeepAliveEnds
  <1>26. CASE OfferCreated  BY <1>26 DEF OfferCreated
  <1>27. CASE DescriptionSet  BY <1>27 DEF DescriptionSet
  <1>28. CASE Failed  BY <1>28, WebRTCAssumption DEF Failed
  <1>29. CASE FailureReported  BY <1>29 DEF FailureReported, RtcEndDataCapture
  <1>30. CASE RtcUnhook \/ RtcDeactivate
      BY <1>30 DEF RtcUnhook, RtcDeactivate
  <1>31. QED
      BY <1>1, <1>2, <1>3, <1>4, <1>5, <1>6, <1>7, <1>8, <1>9, <1>10, <1>11,
         <1>12, <1>13, <1>14, <1>15, <1>16, <1>17, <1>18, <1>19, <1>20, <1>21,
         <1>22, <1>23, <1>24, <1>25, <1>26, <1>27, <1>28, <1>29, <1>30 DEF
         RtcNext, UserCall, Network, Handlers, Signaling, RtcEndThread,
         StopSteps

\* While a user starts nothing else can begin a session, and none streams.
LEMMA UserKept ==
  ASSUME RtcRaces = {}, "local" \notin Faults, RtcInv, RtcNext
  PROVE  UserFollowsSession'
  <1> USE DEF RtcInv, CallersApart, UserFollowsSession,
        SignalingFollowsSession, CaptureFollowsSession, ButtonFollowsCapture,
        PastCheck, StopPoints, Past, Starting, Over, Callers, rtcCaptureVars,
        objectVars, clientVars, callVars, stopFrame, networkFrame
  <1>1. CASE RtcStart  BY <1>1 DEF RtcStart, MayStart
  <1>2. CASE StreamStart  BY <1>2 DEF StreamStart
  <1>3. CASE Setup  BY <1>3 DEF Setup
  <1>4. CASE SetupFails  BY <1>4 DEF SetupFails
  <1>5. CASE RtcConnect  BY <1>5 DEF RtcConnect
  <1>6. CASE RtcConnectFails  BY <1>6 DEF RtcConnectFails, RtcEndDataCapture
  <1>7. CASE RtcStop  BY <1>7 DEF RtcStop
  <1>8. CASE RtcStreamStop  BY <1>8 DEF RtcStreamStop
  <1>9. ASSUME NEW c \in Callers, StopCheck(c) PROVE UserFollowsSession'
      BY <1>9 DEF StopCheck
  <1>10. ASSUME NEW c \in Callers, StopClose(c) PROVE UserFollowsSession'
      BY <1>10 DEF StopClose
  <1>11. ASSUME NEW c \in Callers, JoinKeepAlive(c) PROVE UserFollowsSession'
      BY <1>11 DEF JoinKeepAlive
  <1>12. ASSUME NEW c \in Callers, Disconnect(c) PROVE UserFollowsSession'
      BY <1>12 DEF Disconnect, Open
  <1>13. ASSUME NEW c \in Callers, JoinThread(c) PROVE UserFollowsSession'
      BY <1>13 DEF JoinThread
  <1>14. ASSUME NEW c \in Callers, DeleteClient(c) PROVE UserFollowsSession'
      BY <1>14 DEF DeleteClient
  <1>15. ASSUME NEW c \in Callers, StopEnd(c) PROVE UserFollowsSession'
      BY <1>15 DEF StopEnd, RtcEndDataCapture
  <1>16. CASE Connected \/ Joined \/ Answered
      BY <1>16 DEF Connected, Joined, Answered, Message
  <1>17. CASE Attached  BY <1>17 DEF Attached
  <1>18. CASE Logged  BY <1>18 DEF Logged
  <1>19. CASE Opened  BY <1>19 DEF Opened
  <1>20. CASE RtcBeginDataCapture  BY <1>20 DEF RtcBeginDataCapture
  <1>21. CASE RtcActivate  BY <1>21 DEF RtcActivate
  <1>22. CASE ConnectionLost  BY <1>22 DEF ConnectionLost, Waiting
  <1>23. CASE Disconnected  BY <1>23 DEF Disconnected, RtcEndDataCapture
  <1>24. CASE ThreadEnds  BY <1>24 DEF ThreadEnds, Waiting
  <1>25. CASE KeepAliveEnds  BY <1>25 DEF KeepAliveEnds
  <1>26. CASE OfferCreated  BY <1>26 DEF OfferCreated
  <1>27. CASE DescriptionSet  BY <1>27 DEF DescriptionSet
  <1>28. CASE Failed  BY <1>28, WebRTCAssumption DEF Failed
  <1>29. CASE FailureReported  BY <1>29 DEF FailureReported, RtcEndDataCapture
  <1>30. CASE RtcUnhook \/ RtcDeactivate
      BY <1>30 DEF RtcUnhook, RtcDeactivate
  <1>31. QED
      BY <1>1, <1>2, <1>3, <1>4, <1>5, <1>6, <1>7, <1>8, <1>9, <1>10, <1>11,
         <1>12, <1>13, <1>14, <1>15, <1>16, <1>17, <1>18, <1>19, <1>20, <1>21,
         <1>22, <1>23, <1>24, <1>25, <1>26, <1>27, <1>28, <1>29, <1>30 DEF
         RtcNext, UserCall, Network, Handlers, Signaling, RtcEndThread,
         StopSteps

\* The network thread hands over a description only while it has the peer
\* connection, and no stop that could take it begins before it is set.
LEMMA SignalingKept ==
  ASSUME RtcRaces = {}, "local" \notin Faults, RtcInv, RtcNext
  PROVE  SignalingFollowsSession'
  <1> USE DEF RtcInv, PointsTyped, CallersApart, UserFollowsSession,
        SignalingFollowsSession, ClientFollowsStop, ClientAlone,
        CaptureFollowsSession, PastCheck, StopPoints, Past, Starting, Over,
        Callers, rtcCaptureVars, objectVars, clientVars, callVars, stopFrame,
        networkFrame
  <1>1. CASE RtcStart  BY <1>1 DEF RtcStart, MayStart
  <1>2. CASE StreamStart  BY <1>2 DEF StreamStart
  <1>3. CASE Setup  BY <1>3 DEF Setup
  <1>4. CASE SetupFails  BY <1>4 DEF SetupFails
  <1>5. CASE RtcConnect  BY <1>5 DEF RtcConnect
  <1>6. CASE RtcConnectFails  BY <1>6 DEF RtcConnectFails, RtcEndDataCapture
  <1>7. CASE RtcStop  BY <1>7 DEF RtcStop
  <1>8. CASE RtcStreamStop  BY <1>8 DEF RtcStreamStop
  <1>9. ASSUME NEW c \in Callers, StopCheck(c) PROVE SignalingFollowsSession'
      BY <1>9 DEF StopCheck
  <1>10. ASSUME NEW c \in Callers, StopClose(c) PROVE SignalingFollowsSession'
      BY <1>10 DEF StopClose
  <1>11. ASSUME NEW c \in Callers, JoinKeepAlive(c)
        PROVE  SignalingFollowsSession'
      BY <1>11 DEF JoinKeepAlive
  <1>12. ASSUME NEW c \in Callers, Disconnect(c) PROVE SignalingFollowsSession'
      BY <1>12 DEF Disconnect, Open
  <1>13. ASSUME NEW c \in Callers, JoinThread(c) PROVE SignalingFollowsSession'
      BY <1>13 DEF JoinThread
  <1>14. ASSUME NEW c \in Callers, DeleteClient(c)
        PROVE  SignalingFollowsSession'
      BY <1>14 DEF DeleteClient
  <1>15. ASSUME NEW c \in Callers, StopEnd(c) PROVE SignalingFollowsSession'
      BY <1>15 DEF StopEnd, RtcEndDataCapture
  <1>16. CASE Connected \/ Joined \/ Answered
      BY <1>16 DEF Connected, Joined, Answered, Message
  <1>17. CASE Attached  BY <1>17 DEF Attached
  <1>18. CASE Logged  BY <1>18 DEF Logged
  <1>19. CASE Opened  BY <1>19 DEF Opened
  <1>20. CASE RtcBeginDataCapture  BY <1>20 DEF RtcBeginDataCapture
  <1>21. CASE RtcActivate  BY <1>21 DEF RtcActivate
  <1>22. CASE ConnectionLost  BY <1>22 DEF ConnectionLost, Waiting
  <1>23. CASE Disconnected  BY <1>23 DEF Disconnected, RtcEndDataCapture
  <1>24. CASE ThreadEnds  BY <1>24 DEF ThreadEnds, Waiting
  <1>25. CASE KeepAliveEnds  BY <1>25 DEF KeepAliveEnds
  <1>26. CASE OfferCreated  BY <1>26 DEF OfferCreated
  <1>27. CASE DescriptionSet  BY <1>27 DEF DescriptionSet
  <1>28. CASE Failed  BY <1>28, WebRTCAssumption DEF Failed
  <1>29. CASE FailureReported  BY <1>29 DEF FailureReported, RtcEndDataCapture
  <1>30. CASE RtcUnhook \/ RtcDeactivate
      BY <1>30 DEF RtcUnhook, RtcDeactivate
  <1>31. QED
      BY <1>1, <1>2, <1>3, <1>4, <1>5, <1>6, <1>7, <1>8, <1>9, <1>10, <1>11,
         <1>12, <1>13, <1>14, <1>15, <1>16, <1>17, <1>18, <1>19, <1>20, <1>21,
         <1>22, <1>23, <1>24, <1>25, <1>26, <1>27, <1>28, <1>29, <1>30 DEF
         RtcNext, UserCall, Network, Handlers, Signaling, RtcEndThread,
         StopSteps

\* A stop takes the client's threads away before the client: the keep-alive
\* thread is joined, and the network thread is stopped and joined or was over.
LEMMA ClientKept ==
  ASSUME RtcRaces = {}, "local" \notin Faults, RtcInv, RtcNext
  PROVE  ClientFollowsStop'
  <1> USE DEF RtcInv, PointsTyped, CallersApart, UserFollowsSession,
        SignalingFollowsSession, ClientFollowsStop, ClientAlone, PastCheck,
        StopPoints, Past, Starting, Over, Callers, rtcCaptureVars, objectVars,
        clientVars, callVars, stopFrame, networkFrame
  <1>1. CASE RtcStart  BY <1>1 DEF RtcStart, MayStart
  <1>2. CASE StreamStart  BY <1>2 DEF StreamStart
  <1>3. CASE Setup  BY <1>3 DEF Setup
  <1>4. CASE SetupFails  BY <1>4 DEF SetupFails
  <1>5. CASE RtcConnect  BY <1>5 DEF RtcConnect
  <1>6. CASE RtcConnectFails  BY <1>6 DEF RtcConnectFails, RtcEndDataCapture
  <1>7. CASE RtcStop  BY <1>7 DEF RtcStop
  <1>8. CASE RtcStreamStop  BY <1>8 DEF RtcStreamStop
  <1>9. ASSUME NEW c \in Callers, StopCheck(c) PROVE ClientFollowsStop'
      BY <1>9 DEF StopCheck
  <1>10. ASSUME NEW c \in Callers, StopClose(c) PROVE ClientFollowsStop'
      BY <1>10 DEF StopClose
  <1>11. ASSUME NEW c \in Callers, JoinKeepAlive(c) PROVE ClientFollowsStop'
      BY <1>11 DEF JoinKeepAlive
  <1>12. ASSUME NEW c \in Callers, Disconnect(c) PROVE ClientFollowsStop'
      BY <1>12 DEF Disconnect, Open
  <1>13. ASSUME NEW c \in Callers, JoinThread(c) PROVE ClientFollowsStop'
      BY <1>13 DEF JoinThread
  <1>14. ASSUME NEW c \in Callers, DeleteClient(c) PROVE ClientFollowsStop'
      BY <1>14 DEF DeleteClient
  <1>15. ASSUME NEW c \in Callers, StopEnd(c) PROVE ClientFollowsStop'
      BY <1>15 DEF StopEnd, RtcEndDataCapture
  <1>16. CASE Connected \/ Joined \/ Answered
      BY <1>16 DEF Connected, Joined, Answered, Message
  <1>17. CASE Attached  BY <1>17 DEF Attached
  <1>18. CASE Logged  BY <1>18 DEF Logged
  <1>19. CASE Opened  BY <1>19 DEF Opened
  <1>20. CASE RtcBeginDataCapture  BY <1>20 DEF RtcBeginDataCapture
  <1>21. CASE RtcActivate  BY <1>21 DEF RtcActivate
  <1>22. CASE ConnectionLost  BY <1>22 DEF ConnectionLost, Waiting
  <1>23. CASE Disconnected  BY <1>23 DEF Disconnected, RtcEndDataCapture
  <1>24. CASE ThreadEnds  BY <1>24 DEF ThreadEnds, Waiting
  <1>25. CASE KeepAliveEnds  BY <1>25 DEF KeepAliveEnds
  <1>26. CASE OfferCreated  BY <1>26 DEF OfferCreated
  <1>27. CASE DescriptionSet  BY <1>27 DEF DescriptionSet
  <1>28. CASE Failed  BY <1>28, WebRTCAssumption DEF Failed
  <1>29. CASE FailureReported  BY <1>29 DEF FailureReported, RtcEndDataCapture
  <1>30. CASE RtcUnhook \/ RtcDeactivate
      BY <1>30 DEF RtcUnhook, RtcDeactivate
  <1>31. QED
      BY <1>1, <1>2, <1>3, <1>4, <1>5, <1>6, <1>7, <1>8, <1>9, <1>10, <1>11,
         <1>12, <1>13, <1>14, <1>15, <1>16, <1>17, <1>18, <1>19, <1>20, <1>21,
         <1>22, <1>23, <1>24, <1>25, <1>26, <1>27, <1>28, <1>29, <1>30 DEF
         RtcNext, UserCall, Network, Handlers, Signaling, RtcEndThread,
         StopSteps

\* A capture begins only in a session of its own, and every end of a session
\* ends it: one that breaks, one that is stopped, and one that fails.
LEMMA RtcCaptureKept ==
  ASSUME RtcRaces = {}, "local" \notin Faults, RtcInv, RtcNext
  PROVE  CaptureFollowsSession'
  <1> USE DEF RtcInv, PointsTyped, CallersApart, UserFollowsSession,
        SignalingFollowsSession, ClientFollowsStop, ClientAlone,
        CaptureFollowsSession, PastCheck, StopPoints, Past, Starting, Over,
        Callers, rtcCaptureVars, objectVars, clientVars, callVars, stopFrame,
        networkFrame
  <1>1. CASE RtcStart  BY <1>1 DEF RtcStart, MayStart
  <1>2. CASE StreamStart  BY <1>2 DEF StreamStart
  <1>3. CASE Setup  BY <1>3 DEF Setup
  <1>4. CASE SetupFails  BY <1>4 DEF SetupFails
  <1>5. CASE RtcConnect  BY <1>5 DEF RtcConnect
  <1>6. CASE RtcConnectFails  BY <1>6 DEF RtcConnectFails, RtcEndDataCapture
  <1>7. CASE RtcStop  BY <1>7 DEF RtcStop
  <1>8. CASE RtcStreamStop  BY <1>8 DEF RtcStreamStop
  <1>9. ASSUME NEW c \in Callers, StopCheck(c) PROVE CaptureFollowsSession'
      BY <1>9 DEF StopCheck
  <1>10. ASSUME NEW c \in Callers, StopClose(c) PROVE CaptureFollowsSession'
      BY <1>10 DEF StopClose
  <1>11. ASSUME NEW c \in Callers, JoinKeepAlive(c)
        PROVE  CaptureFollowsSession'
      BY <1>11 DEF JoinKeepAlive
  <1>12. ASSUME NEW c \in Callers, Disconnect(c) PROVE CaptureFollowsSession'
      BY <1>12 DEF Disconnect, Open
  <1>13. ASSUME NEW c \in Callers, JoinThread(c) PROVE CaptureFollowsSession'
      BY <1>13 DEF JoinThread
  <1>14. ASSUME NEW c \in Callers, DeleteClient(c) PROVE CaptureFollowsSession'
      BY <1>14 DEF DeleteClient
  <1>15. ASSUME NEW c \in Callers, StopEnd(c) PROVE CaptureFollowsSession'
      BY <1>15 DEF StopEnd, RtcEndDataCapture
  <1>16. CASE Connected \/ Joined \/ Answered
      BY <1>16 DEF Connected, Joined, Answered, Message
  <1>17. CASE Attached  BY <1>17 DEF Attached
  <1>18. CASE Logged  BY <1>18 DEF Logged
  <1>19. CASE Opened  BY <1>19 DEF Opened
  <1>20. CASE RtcBeginDataCapture  BY <1>20 DEF RtcBeginDataCapture
  <1>21. CASE RtcActivate  BY <1>21 DEF RtcActivate
  <1>22. CASE ConnectionLost  BY <1>22 DEF ConnectionLost, Waiting
  <1>23. CASE Disconnected  BY <1>23 DEF Disconnected, RtcEndDataCapture
  <1>24. CASE ThreadEnds  BY <1>24 DEF ThreadEnds, Waiting
  <1>25. CASE KeepAliveEnds  BY <1>25 DEF KeepAliveEnds
  <1>26. CASE OfferCreated  BY <1>26 DEF OfferCreated
  <1>27. CASE DescriptionSet  BY <1>27 DEF DescriptionSet
  <1>28. CASE Failed  BY <1>28, WebRTCAssumption DEF Failed
  <1>29. CASE FailureReported  BY <1>29 DEF FailureReported, RtcEndDataCapture
  <1>30. CASE RtcUnhook \/ RtcDeactivate
      BY <1>30 DEF RtcUnhook, RtcDeactivate
  <1>31. QED
      BY <1>1, <1>2, <1>3, <1>4, <1>5, <1>6, <1>7, <1>8, <1>9, <1>10, <1>11,
         <1>12, <1>13, <1>14, <1>15, <1>16, <1>17, <1>18, <1>19, <1>20, <1>21,
         <1>22, <1>23, <1>24, <1>25, <1>26, <1>27, <1>28, <1>29, <1>30 DEF
         RtcNext, UserCall, Network, Handlers, Signaling, RtcEndThread,
         StopSteps

\* The step that ends a capture changes the button, and the one that clears
\* stopping_event finds a capture that somebody will end.
LEMMA ButtonKept ==
  ASSUME RtcRaces = {}, "local" \notin Faults, RtcInv, RtcNext
  PROVE  ButtonFollowsCapture'
  <1> USE DEF RtcInv, PointsTyped, CallersApart, UserFollowsSession,
        ClientFollowsStop, ClientAlone, CaptureFollowsSession,
        ButtonFollowsCapture, PastCheck, StopPoints, Past, Starting, Over,
        Callers, rtcCaptureVars, objectVars, clientVars, callVars, stopFrame,
        networkFrame
  <1>1. CASE RtcStart  BY <1>1 DEF RtcStart, MayStart
  <1>2. CASE StreamStart  BY <1>2 DEF StreamStart
  <1>3. CASE Setup  BY <1>3 DEF Setup
  <1>4. CASE SetupFails  BY <1>4 DEF SetupFails
  <1>5. CASE RtcConnect  BY <1>5 DEF RtcConnect
  <1>6. CASE RtcConnectFails  BY <1>6 DEF RtcConnectFails, RtcEndDataCapture
  <1>7. CASE RtcStop  BY <1>7 DEF RtcStop
  <1>8. CASE RtcStreamStop  BY <1>8 DEF RtcStreamStop
  <1>9. ASSUME NEW c \in Callers, StopCheck(c) PROVE ButtonFollowsCapture'
      BY <1>9 DEF StopCheck
  <1>10. ASSUME NEW c \in Callers, StopClose(c) PROVE ButtonFollowsCapture'
      BY <1>10 DEF StopClose
  <1>11. ASSUME NEW c \in Callers, JoinKeepAlive(c) PROVE ButtonFollowsCapture'
      BY <1>11 DEF JoinKeepAlive
  <1>12. ASSUME NEW c \in Callers, Disconnect(c) PROVE ButtonFollowsCapture'
      BY <1>12 DEF Disconnect, Open
  <1>13. ASSUME NEW c \in Callers, JoinThread(c) PROVE ButtonFollowsCapture'
      BY <1>13 DEF JoinThread
  <1>14. ASSUME NEW c \in Callers, DeleteClient(c) PROVE ButtonFollowsCapture'
      BY <1>14 DEF DeleteClient
  <1>15. ASSUME NEW c \in Callers, StopEnd(c) PROVE ButtonFollowsCapture'
      BY <1>15 DEF StopEnd, RtcEndDataCapture
  <1>16. CASE Connected \/ Joined \/ Answered
      BY <1>16 DEF Connected, Joined, Answered, Message
  <1>17. CASE Attached  BY <1>17 DEF Attached
  <1>18. CASE Logged  BY <1>18 DEF Logged
  <1>19. CASE Opened  BY <1>19 DEF Opened
  <1>20. CASE RtcBeginDataCapture  BY <1>20 DEF RtcBeginDataCapture
  <1>21. CASE RtcActivate  BY <1>21 DEF RtcActivate
  <1>22. CASE ConnectionLost  BY <1>22 DEF ConnectionLost, Waiting
  <1>23. CASE Disconnected  BY <1>23 DEF Disconnected, RtcEndDataCapture
  <1>24. CASE ThreadEnds  BY <1>24 DEF ThreadEnds, Waiting
  <1>25. CASE KeepAliveEnds  BY <1>25 DEF KeepAliveEnds
  <1>26. CASE OfferCreated  BY <1>26 DEF OfferCreated
  <1>27. CASE DescriptionSet  BY <1>27 DEF DescriptionSet
  <1>28. CASE Failed  BY <1>28, WebRTCAssumption DEF Failed
  <1>29. CASE FailureReported  BY <1>29 DEF FailureReported, RtcEndDataCapture
  <1>30. CASE RtcUnhook \/ RtcDeactivate
      BY <1>30 DEF RtcUnhook, RtcDeactivate
  <1>31. QED
      BY <1>1, <1>2, <1>3, <1>4, <1>5, <1>6, <1>7, <1>8, <1>9, <1>10, <1>11,
         <1>12, <1>13, <1>14, <1>15, <1>16, <1>17, <1>18, <1>19, <1>20, <1>21,
         <1>22, <1>23, <1>24, <1>25, <1>26, <1>27, <1>28, <1>29, <1>30 DEF
         RtcNext, UserCall, Network, Handlers, Signaling, RtcEndThread,
         StopSteps

\* The button says "stop" once for a session, so no stop gives back a reference
\* of another session.
LEMMA RefsKept ==
  ASSUME RtcRaces = {}, "local" \notin Faults, RtcInv, RtcNext
  PROVE  RefsFollowSession'
  <1> USE DEF RtcInv, CountsTyped, UserFollowsSession, RefsFollowSession,
        PastCheck, StopPoints, Past, Starting, Over, Callers, rtcCaptureVars,
        objectVars, clientVars, callVars, stopFrame, networkFrame
  <1>1. CASE RtcStart  BY <1>1 DEF RtcStart, MayStart
  <1>2. CASE StreamStart  BY <1>2 DEF StreamStart
  <1>3. CASE Setup  BY <1>3 DEF Setup
  <1>4. CASE SetupFails  BY <1>4 DEF SetupFails
  <1>5. CASE RtcConnect  BY <1>5 DEF RtcConnect
  <1>6. CASE RtcConnectFails  BY <1>6 DEF RtcConnectFails, RtcEndDataCapture
  <1>7. CASE RtcStop  BY <1>7 DEF RtcStop
  <1>8. CASE RtcStreamStop  BY <1>8 DEF RtcStreamStop
  <1>9. ASSUME NEW c \in Callers, StopCheck(c) PROVE RefsFollowSession'
      BY <1>9 DEF StopCheck
  <1>10. ASSUME NEW c \in Callers, StopClose(c) PROVE RefsFollowSession'
      BY <1>10 DEF StopClose
  <1>11. ASSUME NEW c \in Callers, JoinKeepAlive(c) PROVE RefsFollowSession'
      BY <1>11 DEF JoinKeepAlive
  <1>12. ASSUME NEW c \in Callers, Disconnect(c) PROVE RefsFollowSession'
      BY <1>12 DEF Disconnect, Open
  <1>13. ASSUME NEW c \in Callers, JoinThread(c) PROVE RefsFollowSession'
      BY <1>13 DEF JoinThread
  <1>14. ASSUME NEW c \in Callers, DeleteClient(c) PROVE RefsFollowSession'
      BY <1>14 DEF DeleteClient
  <1>15. ASSUME NEW c \in Callers, StopEnd(c) PROVE RefsFollowSession'
      BY <1>15 DEF StopEnd, RtcEndDataCapture
  <1>16. CASE Connected \/ Joined \/ Answered
      BY <1>16 DEF Connected, Joined, Answered, Message
  <1>17. CASE Attached  BY <1>17 DEF Attached
  <1>18. CASE Logged  BY <1>18 DEF Logged
  <1>19. CASE Opened  BY <1>19 DEF Opened
  <1>20. CASE RtcBeginDataCapture  BY <1>20 DEF RtcBeginDataCapture
  <1>21. CASE RtcActivate  BY <1>21 DEF RtcActivate
  <1>22. CASE ConnectionLost  BY <1>22 DEF ConnectionLost, Waiting
  <1>23. CASE Disconnected  BY <1>23 DEF Disconnected, RtcEndDataCapture
  <1>24. CASE ThreadEnds  BY <1>24 DEF ThreadEnds, Waiting
  <1>25. CASE KeepAliveEnds  BY <1>25 DEF KeepAliveEnds
  <1>26. CASE OfferCreated  BY <1>26 DEF OfferCreated
  <1>27. CASE DescriptionSet  BY <1>27 DEF DescriptionSet
  <1>28. CASE Failed  BY <1>28, WebRTCAssumption DEF Failed
  <1>29. CASE FailureReported  BY <1>29 DEF FailureReported, RtcEndDataCapture
  <1>30. CASE RtcUnhook \/ RtcDeactivate
      BY <1>30 DEF RtcUnhook, RtcDeactivate
  <1>31. QED
      BY <1>1, <1>2, <1>3, <1>4, <1>5, <1>6, <1>7, <1>8, <1>9, <1>10, <1>11,
         <1>12, <1>13, <1>14, <1>15, <1>16, <1>17, <1>18, <1>19, <1>20, <1>21,
         <1>22, <1>23, <1>24, <1>25, <1>26, <1>27, <1>28, <1>29, <1>30 DEF
         RtcNext, UserCall, Network, Handlers, Signaling, RtcEndThread,
         StopSteps

-----------------------------------------------------------------------------
(* The theorems                                                              *)

\* A stream that was created has no session.
LEMMA InitRtcInv == RtcInit => RtcInv
  <1>1. SUFFICES ASSUME RtcInit PROVE RtcInv
      OBVIOUS
  <1> USE DEF RtcInit, Starting, Over, Past, PastCheck, StopPoints, Callers
  <1>2. FlagsTyped /\ PointsTyped
      BY <1>1 DEF FlagsTyped, PointsTyped
  <1>3. CountsTyped /\ RefsFollowSession
      BY <1>1, WebRTCAssumption DEF CountsTyped, RefsFollowSession
  <1>4. CallersApart /\ UserFollowsSession /\ SignalingFollowsSession
      BY <1>1 DEF CallersApart, UserFollowsSession, SignalingFollowsSession
  <1>5. ClientFollowsStop /\ CaptureFollowsSession /\ ButtonFollowsCapture
      BY <1>1 DEF ClientFollowsStop, ClientAlone, CaptureFollowsSession,
                  ButtonFollowsCapture
  <1>6. QED
      BY <1>2, <1>3, <1>4, <1>5 DEF RtcInv

\* The invariant is inductive.
LEMMA NextRtcInv ==
  ASSUME RtcRaces = {}, "local" \notin Faults, RtcInv, [RtcNext]_rtcVars
  PROVE  RtcInv'
  <1>1. CASE RtcNext
      BY <1>1, RtcFlagsKept, PointsKept, CountsKept, CallersKept, UserKept,
         SignalingKept, ClientKept, RtcCaptureKept, ButtonKept, RefsKept
         DEF RtcInv
  <1>2. CASE UNCHANGED rtcVars
    <2> USE <1>2 DEF RtcInv, rtcVars, rtcCaptureVars, objectVars, clientVars,
          callVars, PastCheck
    <2>1. FlagsTyped' /\ PointsTyped' /\ CountsTyped'
        BY DEF FlagsTyped, PointsTyped, CountsTyped
    <2>2. CallersApart' /\ UserFollowsSession' /\ SignalingFollowsSession'
        BY DEF CallersApart, UserFollowsSession, SignalingFollowsSession
    <2>3. ClientFollowsStop' /\ CaptureFollowsSession' /\ ButtonFollowsCapture'
        BY DEF ClientFollowsStop, ClientAlone, CaptureFollowsSession,
               ButtonFollowsCapture
    <2>4. RefsFollowSession'
        BY DEF RefsFollowSession
    <2>5. QED
        BY <2>1, <2>2, <2>3, <2>4
  <1>3. QED
      BY <1>1, <1>2

\* The invariant holds in every behaviour without the coincidences of RtcRaces
\* and without a local description that fails.
THEOREM RtcInvHolds ==
  ASSUME RtcRaces = {}, "local" \notin Faults
  PROVE  RtcSpec => []RtcInv
  <1>1. RtcInv /\ [RtcNext]_rtcVars => RtcInv'
      BY NextRtcInv
  <1>2. QED
      BY InitRtcInv, <1>1, PTL DEF RtcSpec

\* Every thread stays at a point its code has, and no reference is given back
\* that was not taken.
THEOREM SessionTyped ==
  ASSUME RtcRaces = {}, "local" \notin Faults
  PROVE  RtcSpec => []RtcTypeOK
  <1>1. RtcInv => RtcTypeOK
      BY DEF RtcInv, FlagsTyped, PointsTyped, CountsTyped, RtcTypeOK,
             StopPoints, Starting, Over, Waiting, Open
  <1>2. QED
      BY <1>1, RtcInvHolds, PTL

\* A callback of the websocket client finds the peer connection, a callback of
\* the peer connection finds the client, and neither the client nor the stream
\* is freed under a thread that works on it.
THEOREM CallbacksAreSafe ==
  ASSUME RtcRaces = {}, "local" \notin Faults
  PROVE  RtcSpec => []CallbacksFindObjects
  <1>1. ASSUME RtcInv PROVE CallbacksFindObjects
    <2>1. ClientAlone /\ (peer_open /\ offered => client)
        BY <1>1 DEF RtcInv, ClientFollowsStop
    <2>2. ASSUME ws \in {"log", "answer"} PROVE pc
      <3>1. client
          BY <2>1, <2>2 DEF ClientAlone
      <3>2. stop["user"] = "out" /\ stop["signaling"] = "out"
          BY <1>1, <2>2 DEF RtcInv, CallersApart, UserFollowsSession,
                            SignalingFollowsSession, Over
      <3>3. QED
          BY <1>1, <3>1, <3>2 DEF RtcInv, ClientFollowsStop, Past, Callers
    <2>3. sig = "offer" => pc /\ client
        BY <1>1 DEF RtcInv, SignalingFollowsSession
    <2>4. refs > 0
        BY <1>1 DEF RtcInv, RefsFollowSession, CountsTyped
    <2>5. QED
        BY <2>1, <2>2, <2>3, <2>4 DEF CallbacksFindObjects
  <1>2. QED
      BY <1>1, RtcInvHolds, PTL

\* When every thread is done the capture, the connection and the button agree,
\* and the next start does not wait for ever.
THEOREM SessionsEndWhole ==
  ASSUME RtcRaces = {}, "local" \notin Faults
  PROVE  RtcSpec => []RtcAtRest
  <1>1. ASSUME RtcInv, RtcResting PROVE RtcAtRest
    <2>1. \A c \in Callers : stop[c] = "out"
        BY <1>1 DEF RtcInv, CallersApart, RtcResting, Callers
    <2>2. rtc_end = "none" /\ ws \notin {"activate", "closing"}
        BY <1>1 DEF RtcResting, Waiting
    <2>3. rtc_active = hooked /\ rtc_active = rtc_data_active
        BY <1>1, <2>2 DEF RtcInv, FlagsTyped, CaptureFollowsSession
    <2>4. rtc_active = (ws = "streaming")
        BY <1>1, <2>1, <2>2, <2>3
           DEF RtcInv, FlagsTyped, CaptureFollowsSession, PastCheck, Past,
               Callers
    <2>5. rtc_stopping_event
        BY <1>1, <2>1, <2>2
           DEF RtcInv, ButtonFollowsCapture, PastCheck, Past, Callers
    <2>6. rtc_active = (button = "stop")
        BY <1>1, <2>3, <2>5 DEF RtcInv, FlagsTyped, ButtonFollowsCapture
    <2>7. QED
        BY <2>3, <2>4, <2>5, <2>6 DEF RtcAtRest
  <1>2. RtcInv => RtcAtRest
      BY <1>1 DEF RtcAtRest
  <1>3. QED
      BY <1>2, RtcInvHolds, PTL

=============================================================================
