------------------------------ MODULE RtmpQueue ------------------------------
(***************************************************************************)
(* The send queue of plugins/obs-outputs/rtmp-stream.c: rtmp_stream_data    *)
(* puts the packets of the interleaver into it and drops frames when the    *)
(* network is too slow, the send thread takes them out, rtmp_stream_stop    *)
(* ends that thread at once or when it has sent what was encoded so far.    *)
(* Every packet takes one unit of time: its dts counts the packets.  The    *)
(* interleaver calls rtmp_stream_data under its mutex, so there is one      *)
(* producer.  Headers and meta data, the data that is sent, the windows     *)
(* socket loop and a stop before the connection stands are not modelled.    *)
(* An operator whose comment says it is faulty is used by no action.        *)
(***************************************************************************)
EXTENDS Naturals, Sequences, FiniteSetsExt

CONSTANTS
    Group,          \* the packets from one keyframe to the next, by priority
    DropThreshold, PframeDropThreshold,     \* in packets
    MaxPackets,     \* bound: packets that are made
    Drain,          \* bound: packets made after that while a stop waits
    MaxConnections  \* bound: connections made

\* The priorities of obs-avc.h are nal_ref_idc: a keyframe, a frame others
\* are predicted from, such a frame between two of those, any other frame.
HIGHEST == 3
HIGH == 2
LOW == 1
DISPOSABLE == 0
Audio == 4      \* ranks above every frame: it is not dropped

ASSUME RtmpQueueAssumption ==
    /\ Group \in Seq(DISPOSABLE .. Audio) /\ Group # <<>>
    /\ Group[1] = HIGHEST
    /\ DropThreshold \in Nat /\ PframeDropThreshold \in Nat
    /\ PframeDropThreshold > DropThreshold
    /\ MaxPackets \in Nat /\ Drain \in Nat /\ MaxConnections \in Nat

VARIABLES
    \* struct rtmp_stream
    packets, send_sem, min_priority, last_dts, disconnected, rtmp_active,
    rtmp_stop_event, stop_ts,
    data,        \* rtmp_stream_data: where it is and the packet it was given
    sender,      \* the send thread: where it is and the packet it has taken
    capture,     \* the encoders' packets reach rtmp_stream_data
    encoder,     \* the next packet of the group, the frames it may refer to
    made,        \* packets made so far, the current time
    connections,
    sent         \* history: the frames sent over this connection

queueVars == <<packets, min_priority, last_dts>>
stopVars  == <<rtmp_stop_event, stop_ts>>
encoderVars == <<capture, encoder, made>>
rtmpVars  == <<queueVars, send_sem, disconnected, rtmp_active, stopVars, data,
               sender, encoderVars, connections, sent>>

Nothing == [kind |-> Audio, dts |-> 0, refs |-> {}]
At(place) == [at |-> place, packet |-> Nothing]
With(place, p) == [at |-> place, packet |-> p]
NoFrames == [next |-> 1, anchor |-> 0, low |-> 0]

RtmpInit ==
    /\ packets = <<>> /\ send_sem = 0 /\ min_priority = 0 /\ last_dts = 0
    /\ disconnected = FALSE /\ rtmp_active = FALSE
    /\ rtmp_stop_event = FALSE /\ stop_ts = 0
    /\ data = At("idle") /\ sender = At("none")
    /\ capture = FALSE /\ encoder = NoFrames /\ made = 0
    /\ connections = 0 /\ sent = {}

-----------------------------------------------------------------------------
(* The encoders                                                             *)

\* A frame of priority LOW or higher is predicted from the last one of HIGH or
\* HIGHEST, a disposable one also from the last one of LOW after that.
References(kind) ==
    CASE kind \in {HIGHEST, Audio} -> {}
      [] kind \in {HIGH, LOW}      -> {encoder.anchor}
      [] kind = DISPOSABLE         -> {encoder.anchor, encoder.low} \ {0}

NextFrames(kind, dts) ==
    [next   |-> IF encoder.next = Len(Group) THEN 1 ELSE encoder.next + 1,
     anchor |-> IF kind \in {HIGH, HIGHEST} THEN dts ELSE encoder.anchor,
     low    |-> CASE kind = LOW -> dts
                  [] kind \in {HIGH, HIGHEST} -> 0
                  [] OTHER -> encoder.low]

-----------------------------------------------------------------------------
(* rtmp_stream_data, called by the interleaver                              *)

\* The tests before the lock.
StreamData ==
    /\ capture /\ data.at = "idle"
    /\ made < MaxPackets \/ (rtmp_stop_event /\ made < MaxPackets + Drain)
    /\ made' = made + 1
    /\ LET kind == Group[encoder.next]
           p == [kind |-> kind, dts |-> made + 1, refs |-> References(kind)]
       IN  /\ encoder' = NextFrames(kind, made + 1)
           /\ data' = IF disconnected \/ ~rtmp_active THEN data
                      ELSE With("lock", p)
    /\ UNCHANGED <<queueVars, send_sem, disconnected, rtmp_active, stopVars,
                   sender, capture, connections, sent>>

\* What drop_frames copies to the new queue up to each packet of the old one.
KeptUpTo(queue, highest_priority) ==
    LET kept[i \in 0 .. Len(queue)] ==
            IF i = 0 THEN <<>>
            ELSE IF queue[i].kind >= highest_priority
                 THEN Append(kept[i - 1], queue[i])
                 ELSE kept[i - 1]
    IN  kept

Kept(queue, highest_priority) == KeptUpTo(queue, highest_priority)[Len(queue)]

\* Faulty: only the frames that are in the queue are dropped.
DropQueuedFrames(queue, highest_priority) ==
    [queue EXCEPT !.packets = Kept(@, highest_priority)]

\* drop_frames: frames below a priority leave the queue, and those that follow
\* are dropped up to the first one of that priority.
DropFrames(queue, highest_priority) ==
    [packets |-> Kept(queue.packets, highest_priority),
     min_priority |-> IF queue.min_priority < highest_priority
                      THEN highest_priority ELSE queue.min_priority]

Droppable(queue) == {i \in DOMAIN queue : queue[i].kind < HIGHEST}

\* The time from the first frame that may be dropped to the last that was added.
BufferDuration(queue) == last_dts - queue[Min(Droppable(queue))].dts

\* Faulty: frames that others refer to are never dropped.
CheckToDropBFrames(queue, pframes) ==
    IF /\ Len(queue.packets) >= 5 /\ Droppable(queue.packets) # {}
       /\ BufferDuration(queue.packets) > DropThreshold
    THEN DropFrames(queue, HIGH)
    ELSE queue

\* check_to_drop_frames
CheckToDropFrames(queue, pframes) ==
    IF /\ Len(queue.packets) >= 5 /\ Droppable(queue.packets) # {}
       /\ BufferDuration(queue.packets)
              > (IF pframes THEN PframeDropThreshold ELSE DropThreshold)
    THEN DropFrames(queue, IF pframes THEN HIGHEST ELSE HIGH)
    ELSE queue

\* add_video_packet
AddVideoPacket(p) ==
    LET queue == CheckToDropFrames(CheckToDropFrames(
                     [packets |-> packets, min_priority |-> min_priority],
                     FALSE), TRUE)
    IN  IF p.kind < queue.min_priority
        THEN /\ packets' = queue.packets
             /\ min_priority' = queue.min_priority
             /\ data' = At("idle")
             /\ UNCHANGED last_dts
        ELSE /\ packets' = Append(queue.packets, p)
             /\ min_priority' = 0
             /\ last_dts' = p.dts
             /\ data' = At("post")

AddAudioPacket(p) ==
    /\ packets' = Append(packets, p)
    /\ data' = At("post")
    /\ UNCHANGED <<min_priority, last_dts>>

\* What rtmp_stream_data does under packets_mutex.
AddPacket ==
    /\ data.at = "lock"
    /\ \/ /\ disconnected
          /\ data' = At("idle") /\ UNCHANGED queueVars
       \/ ~disconnected /\ data.packet.kind # Audio /\ AddVideoPacket(data.packet)
       \/ ~disconnected /\ data.packet.kind = Audio /\ AddAudioPacket(data.packet)
    /\ UNCHANGED <<send_sem, disconnected, rtmp_active, stopVars, sender,
                   encoderVars, connections, sent>>

\* Faulty: a send thread that has packets left is not woken.
PostWhenOne ==
    /\ data.at = "post" /\ data' = At("idle")
    /\ send_sem' = IF Len(packets) = 1 THEN send_sem + 1 ELSE send_sem
    /\ UNCHANGED <<queueVars, disconnected, rtmp_active, stopVars, sender,
                   encoderVars, connections, sent>>

Post ==
    /\ data.at = "post" /\ data' = At("idle")
    /\ send_sem' = send_sem + 1
    /\ UNCHANGED <<queueVars, disconnected, rtmp_active, stopVars, sender,
                   encoderVars, connections, sent>>

-----------------------------------------------------------------------------
(* send_thread                                                              *)

\* os_sem_wait, and the test for a stop at once.
Wake ==
    /\ sender.at = "wait" /\ send_sem > 0
    /\ send_sem' = send_sem - 1
    /\ sender' = IF rtmp_stop_event /\ stop_ts = 0 THEN At("ending")
                 ELSE At("awake")
    /\ UNCHANGED <<queueVars, disconnected, rtmp_active, stopVars, data,
                   encoderVars, connections, sent>>

\* get_next_packet; the queue may be empty, frames were dropped.
GetNextPacket ==
    /\ sender.at = "awake"
    /\ sender' = IF packets = <<>> THEN At("wait")
                 ELSE With("taken", Head(packets))
    /\ packets' = IF packets = <<>> THEN packets ELSE Tail(packets)
    /\ UNCHANGED <<min_priority, last_dts, send_sem, disconnected, rtmp_active,
                   stopVars, data, encoderVars, connections, sent>>

\* Faulty: only a frame ends the stream, and frames can all be dropped.
CanShutdownAtFrame(p) ==
    rtmp_stop_event /\ p.kind # Audio /\ p.dts >= stop_ts

\* The test of can_shutdown_stream without its timeout of 30 seconds.
CanShutdown(p) == rtmp_stop_event /\ p.dts >= stop_ts

\* The timeout is a second way to the end of a stream that is stopping.
Shutdown ==
    /\ sender.at = "taken" /\ rtmp_stop_event
    /\ sender' = At("ending")
    /\ UNCHANGED <<queueVars, send_sem, disconnected, rtmp_active, stopVars,
                   data, encoderVars, connections, sent>>

SendPacket ==
    /\ sender.at = "taken" /\ ~CanShutdown(sender.packet)
    /\ \/ /\ sender' = At("wait")
          /\ sent' = sent \cup {sender.packet.dts}
          /\ UNCHANGED disconnected
       \/ /\ sender' = At("ending")
          /\ disconnected' = TRUE
          /\ UNCHANGED sent
    /\ UNCHANGED <<queueVars, send_sem, rtmp_active, stopVars, data,
                   encoderVars, connections>>

\* obs_output_signal_stop or obs_output_end_data_capture: the output is told,
\* another thread takes the callbacks from the encoders.
ReportEnd ==
    /\ sender.at = "ending" /\ sender' = At("free")
    /\ UNCHANGED <<queueVars, send_sem, disconnected, rtmp_active, stopVars,
                   data, encoderVars, connections, sent>>

FreePackets ==
    /\ sender.at = "free" /\ sender' = At("close")
    /\ packets' = <<>>
    /\ UNCHANGED <<min_priority, last_dts, send_sem, disconnected, rtmp_active,
                   stopVars, data, encoderVars, connections, sent>>

EndSending ==
    /\ sender.at = "close" /\ sender' = At("none")
    /\ rtmp_stop_event' = FALSE
    /\ rtmp_active' = FALSE
    /\ UNCHANGED <<queueVars, send_sem, disconnected, stop_ts, data,
                   encoderVars, connections, sent>>

-----------------------------------------------------------------------------
(* The output                                                               *)

\* end_data_capture_thread, which waits for a callback that runs.
CaptureEnds ==
    /\ capture /\ sender.at \in {"free", "close", "none"} /\ data.at = "idle"
    /\ capture' = FALSE
    /\ UNCHANGED <<queueVars, send_sem, disconnected, rtmp_active, stopVars,
                   data, sender, encoder, made, connections, sent>>

\* init_connect and init_send, at least two seconds after the last connection
\* broke.  A capture begins with a keyframe.
Connect ==
    /\ sender.at = "none" /\ ~capture /\ connections < MaxConnections
    /\ connections' = connections + 1
    /\ packets' = <<>> /\ min_priority' = 0 /\ send_sem' = 0
    /\ disconnected' = FALSE /\ rtmp_active' = TRUE
    /\ sender' = At("wait") /\ capture' = TRUE
    /\ encoder' = NoFrames /\ sent' = {}
    /\ UNCHANGED <<last_dts, stopVars, data, made>>

\* rtmp_stream_stop while the connection is active: now (ts = 0), or after
\* what has been encoded up to now; the latter only once.
RtmpStop(ts) ==
    /\ rtmp_active /\ sender.at # "close"
    /\ ~(rtmp_stop_event /\ ts # 0)
    /\ stop_ts' = ts
    /\ rtmp_stop_event' = TRUE
    /\ send_sem' = IF ts = 0 THEN send_sem + 1 ELSE send_sem
    /\ UNCHANGED <<queueVars, disconnected, rtmp_active, data, sender,
                   encoderVars, connections, sent>>

\* One stop at once is enough.
RtmpStops ==
    \/ made < MaxPackets /\ RtmpStop(made + 1)
    \/ ~(rtmp_stop_event /\ stop_ts = 0) /\ RtmpStop(0)

-----------------------------------------------------------------------------

RtmpData == StreamData \/ AddPacket \/ Post

RtmpSend ==
    \/ Wake \/ GetNextPacket \/ Shutdown \/ SendPacket \/ ReportEnd
    \/ FreePackets \/ EndSending

RtmpNext == RtmpData \/ RtmpSend \/ CaptureEnds \/ Connect \/ RtmpStops

\* The encoders go on, a packet is sent or the connection breaks, and the
\* callbacks are taken off; nobody has to connect or to stop.
RtmpFairness ==
    WF_rtmpVars(RtmpData) /\ WF_rtmpVars(RtmpSend) /\ WF_rtmpVars(CaptureEnds)

RtmpSpec == RtmpInit /\ [][RtmpNext]_rtmpVars /\ RtmpFairness

-----------------------------------------------------------------------------
(* Properties                                                               *)

PacketType == [kind : 0 .. Audio, dts : Nat, refs : SUBSET Nat]

\* The queue holds packets, the threads are where their code can be.
RtmpTypeOK ==
    /\ packets \in Seq(PacketType)
    /\ {send_sem, last_dts, stop_ts, made, connections} \subseteq Nat
    /\ min_priority \in {0, HIGH, HIGHEST}
    /\ {disconnected, rtmp_active, rtmp_stop_event, capture} \subseteq BOOLEAN
    /\ data.at \in {"idle", "lock", "post"} /\ data.packet \in PacketType
    /\ sender.at \in {"none", "wait", "awake", "taken", "ending", "free", "close"}
    /\ sender.packet \in PacketType
    /\ sent \subseteq Nat

\* However long the network is stuck and whatever drop_frames and
\* add_video_packet drop meanwhile, a frame that is sent never refers to one
\* that was not.
SentIsDecodable == sender.at = "taken" => sender.packet.refs \subseteq sent

\* The send thread never sleeps over a packet: those in the queue are no more
\* than the times send_sem lets it go on, although they are added under the
\* mutex and posted after it, and drop_frames takes packets out and no posts.
PacketsHaveWakeups ==
    sender.at \in {"wait", "awake", "taken"} =>
        Len(packets) <= send_sem + (IF data.at = "post" THEN 1 ELSE 0)
                                 + (IF sender.at = "awake" THEN 1 ELSE 0)

\* The longest time from one frame of HIGH or HIGHEST to the next.
Gap ==
    LET frames == {i \in 1 .. 2 * Len(Group) :
                      (Group \o Group)[i] \in {HIGH, HIGHEST}}
    IN  Max({Min({j \in frames : j > i}) - i : i \in frames \ {Max(frames)}})

\* A network that is too slow delays the frames by no more than the threshold
\* of p-frames and the time up to the next frame that is kept, unless that
\* threshold is shorter than what four packets hold: check_to_drop_frames lets
\* a queue of fewer than five be.
BacklogBounded ==
    Len(packets) >= 5 /\ Droppable(packets) # {} =>
        BufferDuration(packets) <= PframeDropThreshold + Gap

\* A stop ends the send thread, also when frames are dropped all the time.
StopEndsSending == rtmp_stop_event ~> sender.at = "none"
=============================================================================
