# Models of the broadcaster's media pipeline

TLA+ models of the parts of the Evercast broadcaster (a fork of OBS Studio)
that carry its own logic: how a rendered picture, a frame of a camera and the
samples of a source get to the encoders, how outputs share those, how encoded
packets become one stream, wait in a delay and in the send queue, how a
streaming output is started, interrupted, reconnected and stopped, which sources
count as shown, and when a source is freed. TLC checks the models on small
instances; TLAPS proves most of their safety properties for every instance
(section 5).

`PROJECT.json` maps every definition to its lines and lists runs, hazards and
theorems. All paths below are relative to the repository (`src/` there).

## 1. The system

### Components

| Component | State | Operations | What makes it correct |
|---|---|---|---|
| Graphics thread (`libobs/obs-video.c`, set up by `obs.c`) | rings of `NUM_TEXTURES` textures per stage with their validity flags, `cur_texture`, `mapped_surface`, `vframe_info_buffer`, `video_time` | one loop: tick sources, `output_frame` (render, scale, convert, stage, download), `video_sleep`; `obs_reset_video` | a picture leaves with the time of its rendering; the time line has no hole |
| Frame cache (`libobs/media-io/video-io.c`) | ring of cached frames with `timestamp`, `count`, `skipped`; `available_frames`, `first_added`, `last_added`; semaphore; list of inputs | `lock_frame`/`unlock_frame` by the graphics thread, the video thread's `video_output_cur_frame`, `connect`, `disconnect`, `stop` | every interval is played once and in order; no slot is read while it is written; `stop` returns |
| Encoders (`libobs/obs-encoder.c`) | list of callbacks, `initialized`, `active`, `start_ts`, paired encoder, audio input buffer | initialize, pair, start, stop; receive raw data, encode, pass packets on to each output's callback | first packet a keyframe; audio starts with its paired video; an output that captures gets packets |
| Interleaver (`libobs/obs-output.c`) | buffer of packets by time, `received_*`, offsets, highest time stamps | `interleave_packets` from several encoder threads | packets leave by time stamp; streams start at zero, with a keyframe, together |
| Output life cycle (`libobs/obs-output.c`) | `active`, `data_active`, `reconnecting`, `stopping_event`, `reconnect_stop_event`, retry counter, handles of two threads | start, stop, force stop, begin and end of capture, reconnect, destroy | a stop stops; a start returns; a broken stream reconnects or is given up; callbacks are attached once |
| Stream delay (`libobs/obs-output-delay.c`) | queue of packets, starts and stops with times; `delay_active`, `delay_capturing`, `delay_restart_refs` | push, pop when due, preserve on reconnect | order kept, each start and stop takes effect once |
| RTMP output (`plugins/obs-outputs/rtmp-stream.c`) | `connecting`, `active`, `stop_event`, queue of packets, `min_priority`, connect and send threads | start, stop, connect, send, drop frames | no thread left behind; dropped frames never leave a reference to them |
| WebRTC outputs (`WebRTCStream.cpp`, `janus-`, `millicast-`, `spankchain-stream.cpp`) and websocket clients (`plugins/websocket-client`) | peer connection, client, reference count, session and handle, keep-alive thread | start, stop, signalling callbacks in the order login, offer, answer; media callbacks | no callback after the client was deleted; references balance; a failed login ends the output |
| Audio core (`obs-audio.c`, `audio-io.c`) | sources' buffers, `buffering_wait_ticks`, `total_buffering_ticks` | mix one tick, add buffering, skip late sources | time line of ticks without hole; buffering bounded |
| Sources (`obs-source.c`, deinterlace, transitions) | asynchronous frames and their cache, filters, references, activation counters | output frame, choose frame for a time, release | a frame in use is not recycled |
| Scenes (`obs-scene.c`) and views | items with `active_refs`, `visible`, `user_visible` and the actions of items with audio; two mutexes; the scene of each view | add, show, hide, remove; put a scene into a view; render pictures and audio | `show_refs` and `activate_refs` of the sources match views and items; no scene below itself; what is hidden is soon not shown |
| References (`obs-internal.h`) | strong and weak counts | addref, release, get a strong from a weak one | freed once, never used afterwards |
| Signals (`callback/signal.c`) | callbacks with removal flags, `signalling` | connect, disconnect (also from a callback), signal | each live callback called once |
| Replay buffer (`plugins/obs-ffmpeg/obs-ffmpeg-mux.c`) | packets with their size, first time and number of keyframes; flags; the array that is being written | start, stop, collect and purge, save, write in a thread | a replay begins with a keyframe and has no hole; a capture keeps its own packets only |
| Frontend (`UI/`) | buttons, scenes, profiles | starts and stops outputs from signals | only allows start when inactive |
| Everything else | hotkeys, services, modules, data, properties, utilities, graphics back ends, capture, encoder and filter plugins, vendored code | | see section 7 |

### How they interact

The graphics thread renders and calls `video_output_lock_frame` /
`unlock_frame`. The video thread wakes on the semaphore and calls every
connected input under `input_mutex`: `receive_video` of the encoders or the raw
callback of an output (the WebRTC outputs). The audio thread feeds the audio
encoders. Encoder callbacks run `interleave_packets` under the output's
`interleaved_mutex`, which passes packets to the output's `encoded_packet`; the
RTMP output queues them for its send thread. An output tells libobs of a lost
connection with `obs_output_signal_stop`, from its own thread; libobs ends the
capture in a thread of its own (encoders are stopped there) and starts a
reconnect thread. The frontend calls start and stop and listens to signals.

### What is hard

* the video thread uses a slot between two critical sections, without the lock;
* pictures and time stamps are paired by their position in separate queues;
* packets of different streams arrive from different threads in any order and
  begin at different times;
* start, stop and reconnect share flags and events among five threads and have
  no lock; two of these threads wait for each other;
* a stop may come before, during and after connecting, while a retry waits, and
  while it is itself an entry of the delay's queue;
* two outputs share encoders, which the first one initializes and the last one
  shuts down;
* the audio thread inserts ticks for a late source while the sources' threads
  fill and reset the buffers it counts;
* an item with audio is hidden by the audio thread, some time after the user hid
  it, while others show it again, remove it or take its scene away;
* a frame or a source is counted by several threads, of which some look at it
  without a reference.

## 2. Modules

| Module | Models | Role |
|---|---|---|
| `VideoIO` | `media-io/video-io.c` | detailed specification, properties, inductive invariant |
| `FrameStream` | what the cache promises | abstract specification, refined by `VideoIO` |
| `VideoIO_proofs`, `Interleave_proofs` | | theorems about the module of that name |
| `Outputs_proofs` | | theorems about `StreamOutput` and `WebRTCSession` |
| `Frames_proofs` | | theorems about `RenderLoop` and `AsyncFrames` |
| `Encoding_proofs` | | theorems about `EncoderPairing` |
| `Sources_proofs` | | theorems about `SourceRefs` and `SceneItems` |
| `Transport_proofs` | | theorems about `RtmpQueue` and `DelayedOutput` |
| `Media_proofs` | | theorems about `AudioBuffering`, `ReplayBuffer` and `Signals` |
| `RenderLoop` | `obs-video.c`, init, free and reset of `obs.c` | specification and properties |
| `AsyncFrames` | asynchronous frames: `obs-source.c`, `obs-source-deinterlace.c`, the asynchronous delay filter | specification and properties |
| `AudioBuffering` | `obs-audio.c` and the audio buffers of `obs-source.c` | specification and properties |
| `EncoderPairing` | `obs-encoder.c` and what `obs-output.c` does with encoders | specification and properties |
| `Interleave` | the interleaver of `obs-output.c` | specification and properties |
| `DelayedOutput` | `obs-output-delay.c` and what of `obs-output.c` tests `delay_active` | specification and properties |
| `RtmpQueue` | the send queue and send thread of `rtmp-stream.c` | specification and properties |
| `StreamOutput` | life cycle of `obs-output.c` with the threads of `rtmp-stream.c` | specification and properties |
| `WebRTCSession` | `WebRTCStream.cpp`, `janus-stream.cpp` and the Janus client, with what `obs-output.c` and the stream button do for a raw output | specification and properties |
| `SourceRefs` | references, lists and destruction of a source | specification and properties |
| `SceneItems` | items of scenes: `obs-scene.c`; showing and activating: `obs-source.c` | specification and properties |
| `Signals` | the callbacks of a signal handler: `callback/signal.c` | specification and properties |
| `ReplayBuffer` | the replay buffer of `obs-ffmpeg-mux.c` | specification and properties |
| `MCVideoIO`, `MCInterleave`, `MCStreamOutput`, `MCEncoders`, `MCScenes` | | values of constants for TLC |
| `MCMedia`, `MCTransport`, `MCOutputs` | | one specification of several components for TLC |

A module of the last row extends several components. Each behaviour is a
behaviour of one of them, chosen by `part` in the initial state; the others
stay as they were created. A component at rest satisfies its safety properties,
and since nobody has called it, no step of it is fair and no request of it is
pending: the run answers the same questions as one run per component would. The
components it puts together share no state in the models.

Each module also holds faulty variants of some of its operators. A comment says
so; no action uses them. They are there to show that a property notices the
slip they stand for.

Where the code relies on some threads being faster than others, a guard says so,
and a constant lists the assumptions that a behaviour lifts (`Races`,
`RtcRaces`, `AsyncRaces`, `RefRaces`, `DelayRaces`, `SignalRaces`,
`SceneRaces`, `Mishaps`). Sections 3 and 6 say what holds without which
assumption.

### VideoIO

Time is counted in frame intervals. `TakeSlot` and `CoalesceFrame` are the two
branches of `video_output_lock_frame`; `UnlockFrame` is the unlock.
`Wake`, `Enter`, `Callbacks`, `Commit`, `StoreSkipped`, `LoadTotal`,
`StoreTotal` are the video thread between the points where it takes or gives up
a lock: the slot is chosen in `Enter`, read in `Callbacks` under `input_mutex`
only, and given back or repeated in `Commit`. The statistics are loaded and
stored in separate steps because their increments race with the reset in
`Connect`. `Connect` may fail for an input that needs a scaler.
`render = "writing"` is the time between lock and unlock.

### RenderLoop

A picture is named by the time at which it was rendered. One `OutputFrame` step
is `output_frame`: the four stages work on `cur_texture` and its predecessor,
then the staged picture is downloaded (`NotReady`, `MapFails`, `Emit`).
`VideoSleep` queues the time stamp. `ResetVideo` is `obs_reset_video`, which
joins the thread at the head of its loop; `obs_free_video` clears the rings, so
the model starts fresh. `NumTextures` is 2 as in the code.
`TimestampsKeepPace` says that pictures and time stamps drift apart by the
failed downloads only; `FramesTile` is what `VideoIO` relies on.

### AsyncFrames

`refs` is the count of each frame, `async_cache` the list with `used` and
`unused_count`, `async_frames` the queue. The capture thread's
`obs_source_output_video` is `CacheVideo` (with the overflow, the clean-up and
the choice of a frame, under `async_mutex`), the copy outside the mutex,
`CopyDone` and `QueueFrame`. The graphics thread's tick is `AsyncTick` under the
mutex, then `ReadForSize` and `SizeRead` outside it; drawing is `GetFrame`,
`FilterFrame` and `ReleaseFrame`. The asynchronous delay filter keeps frames
(`FilterFrame`) and lets them go (`FreeDelayed`). Time stamps are left out: any
frame of the queue can be the one that is due, which is more than the code
allows. `AsyncRaces` with `"resize"` lets the capture thread run between
`ReadForSize` and `SizeRead`.

### AudioBuffering

One unit of time is a nanosecond of a very slow clock: a frame takes
`FrameTime`, a tick `AUDIO_OUTPUT_FRAMES` frames. The audio thread's
`audio_callback` is four steps, `Render`, `Buffer`, `Mix`, `DiscardAudio`, and
the sources' threads (`PushBack`, `Place` for time stamps that jump) come in
between, because the code takes each source's `audio_buf_mutex` anew in every
one of them. `AddBuffering` is the whole of `add_audio_buffering` with its
rounding and its limit, `Kept`, `Stopped`, `Ignored`, `AfterLate`, `AfterTick`
are the cases of discarding. `Remainders` are the distances from whole frames
that late time stamps may have. When a source is late by less than a frame no
tick is inserted and `new_ts.end` stays unset: `AddBuffering` then gives the
tick an `end` of 0 or of now, and the rest of the callback, `AfterTick` with the
wrap of `total_floats` included, goes on with that.

### EncoderPairing

The record of an encoder has the fields of `struct obs_encoder` that decide
when it encodes; `input` is the time that its `audio_input_buffer` covers. An
output goes through `InitializeEncoders`, `PairEncoders`, `Connected`, one
`StartEncoder` per encoder (audio first), `EndCapturing` and, for each encoder,
`LockInit`, `EraseCallback` and `DisconnectEncoder`: the points where
`obs_encoder_stop` holds `init_mutex` and waits for `callbacks_mutex` and for a
callback that runs. `VideoFrame` calls `receive_video` of all active encoders,
`AudioArrives` and `BufferAudio` are `receive_audio` before and after it looks
at its pair's `start_ts`, which the video thread writes without a lock.
`EncodeFails` and `FullStop` are an encoder that fails.

| `mishap` | What may happen |
|---|---|
| `"none"` | an output starts or stops only while the other one rests, or captures and its encoders have begun |
| `"meanwhile"` | at any time |
| `"failed"` | a connection fails after the encoders were initialized |
| `"error"` | an encoder fails to encode |

`MaxSkew` is how far the two media threads are apart in time stamps: both follow
the system clock.

### Interleave

`VideoPacket` and `AudioPacket` are the encoders calling `interleave_packets`;
the whole function is one step, as it holds `interleaved_mutex`. The order in
which audio and video arrive is unconstrained: they come from different
threads, and the audio delay may grow at any time. Audio tracks are fed by one
thread, so their packets come in the order of their system times.
`BeginCapture` ends a capture and begins the next one while another output
keeps the encoders running, so that the encoders' counters go on. Time stamps
are in one unit for all streams: the conversion of `dts` into microseconds is
the identity only because of that choice, the offsets are applied as in
`apply_interleaved_packet_offset`. `SetReceived` keeps the code's order of
conclusions and of taking them back. `beginning` says when each track begins
and how far decoding and presentation of the video are apart (`reorder`).

### DelayedOutput

`delay_data` holds packets and the commands START and STOP; time is not counted:
the packet that is delivered is never due, any earlier entry may be.
`ProcessDelay` pushes, `PopPacket` takes out an entry and carries it out on the
encoder's thread, `Delivered` ends the call. `StartDelay`, `StopDelayed`,
`ForceStopDelayed` are the user's calls; the parts of `obs-output.c` that behave
differently under a delay (`EndCapture`, `Reconnect`, `AbandonDelayed`,
`ActuallyStop`, `EndDelay`, `StreamConnects`) are modelled in full, the stream
as one thread, because `StreamOutput` has its threads. A restart while the delay
still runs is left out: the frontend refuses it (`window-basic-main.cpp:4451`).

| Member of `DelayRaces` | What may coincide |
|---|---|
| `"connect"` | the stop is forced while a connection is being made |
| `"begin"` | a connection is begun while the stop is forced |
| `"order"` | a command becomes due while another encoder's thread carries out the one before |

### RtmpQueue

Every packet takes one unit of time. `rtmp_stream_data` is `StreamData` (the
test of `disconnected` and `active`, outside the mutex), `AddPacket` with
`AddVideoPacket`, `CheckToDropFrames`, `DropFrames` under it, and `Post` after
it. The loop of `drop_frames` is the recursive function `KeptUpTo`, which says
what it has copied after each packet. The send thread is `Wake`,
`GetNextPacket`, `Shutdown` or `SendPacket`, and its end. `Group` is the
sequence of priorities between keyframes and `refs` the frames a frame may be
predicted from (`References`). The network may stand still for as long as it
likes.

### StreamOutput

The state of five threads: the frontend's call (`user`), connect and send
threads of the RTMP output, end-of-capture thread and reconnect thread of
libobs. `SignalStop`, `EndDataCapture`, `StopCapture`, `ActualStart` are
functions several of them call. `signal` is what the frontend heard last; it
may start a stream only if that is "stop" (`OBSBasic::StartStreaming`, whose
button is disabled until then), and may stop it at any time.

The code relies on threads being much faster than the network, the reconnect
delay of two seconds and the user. The model makes this explicit: `Settled`
says that no thread is within the last few instructions of its work, and the
variable `races`, which is one of the sets in `Races` and never changes, lists
what may coincide nevertheless:

| Member | What may coincide |
|---|---|
| `"close"` | the send thread ends while a stopping call runs |
| `"retry"` | the reconnect delay runs out while a stopping call runs |
| `"end"` | stopping the encoders takes longer than the reconnect delay |
| `"init"` | encoders fail to initialize for a reconnect |

The start signal is sent in the step that creates the connect thread, that is,
before that thread can report anything. Not modelled here: stream delay,
destroying the output, a connection that breaks while `init_send` writes the
meta data (the send thread then exists already), failures of `pthread_create`,
and `init_connect` finding no service, which
`obs_output_can_begin_data_capture` has excluded.

### WebRTCSession

`pc` and `client` are the pointers of `WebRTCStream`, `peer_open` says that the
peer connection object was not closed, `refs` counts the references to the
stream. `ws` is the point of the client's network thread: the login with its
two answers (`login`, `attach`), the two handlers that call into the peer
connection (`log`, `answer`), the wait for the answer (`logged`), the begin of
the capture, `streaming`, and the close handler (`closing`, `tail`).
`WebRTCStream::stop` has a position per caller, because the user's thread and,
in `OnFailure`, the signaling thread run it side by side. A call of the peer
connection from another thread is carried out by the signaling thread: its
caller waits until `sig = "idle"`. Operators that have a counterpart in
`StreamOutput` begin with `Rtc`.

`Disconnect` has the case that the vendored websocket library makes:
`connection::close` fails unless the connection is open, the throwing overload
throws, and `JanusWebsocketClientImpl::disconnect` then skips its join.
`WebsocketClient` has no virtual destructor, so `delete(client)` releases the
memory and neither detaches nor joins a thread.

Timing assumptions, each of them a guard that says so: the network and the user
are slower than a pending result of the signaling thread; the check of the
pointer and its release in `stop`, and the check and the reset of
`stopping_event` in `obs_output_stop`, are one step. `RtcRaces` lifts two
others:

| Member | What may coincide |
|---|---|
| `"impatient"` | the user presses "start" while a connection is made |
| `"close"` | the server closes the connection while the client is told to disconnect |

`Faults` lists the results of the negotiation that may be failures. Not
modelled: destroying the output, a second press of "stop" (a forced stop, which
releases one more reference if the first stop has not ended the capture), frames
and thumbnails, the other two clients (SpankChain's differs by having no
keep-alive thread, Millicast's by detaching its thread, see the hazards), and a
message box that runs an event loop inside a start.

### SourceRefs

One source with its control block (`source_refs`, `weak_refs`), its membership
in the two lists of `obs->data`, one output channel, users, the graphics thread
that walks the list of sources and the audio thread that walks its own.
`ReleaseRef` lets the count fall; the thread that brings it to -1 goes through
`LeaveAudioList`, `LeaveList`, `FreeSource` and `ReleaseControl`. `Look` and
`Swap` are the load and the compare-and-swap of `obs_weak_ref_get_ref`, which
`GetSource`, `FindByName` and `TickSources` use. `RefRaces` with `"revive"` lets
the audio thread walk its list while the source is on its way out of it.

### SceneItems

`show_refs` and `activate_refs` are those of every source; `items` has the
fields of `struct obs_scene_item` that decide what is counted, where `actions`
are the values of `audio_actions` in order, without their times. `ChangeView` is
`obs_set_output_source` for the main view, `obs_source_inc_showing` and
`obs_source_dec_showing` for the preview; `calls` holds what is left of it:
`CountSource` counts the source itself, `CountTree` is the walk over what is
active below it (`Visits`, with multiplicities, from what the parents of each
source have together: `OfParents`), which waits for the mutexes of the scenes on
its way (`Locked`). `Loaded` are the collections that a start may
find: their visible items have no cycle (`Acyclic`). `AddItem`, `ShowItem`,
`HideItem`, `RemoveItem` and `RemoveSource` are the frontend's calls, each one
step; `RenderRemoves` is what `scene_video_render` does to items of removed
sources. The audio thread collects the scenes below the main view
(`BuildOrder`), applies the actions that are due in them (`ApplyActions`), and
then, without the mutex of the actions but with that of the scene, uncounts the
item once for each hiding (`Deref`, `RemoveHidden`). A transition in the main
view is left out.

| Member of `SceneRaces` | What may coincide |
|---|---|
| `"gap"` | another thread changes the tree between `CountSource` and `CountTree` |
| `"render"` | the graphics thread takes out an item that the audio thread hides |

### Signals

One signal of one handler. `signal_handler_signal` is `BeginSignal`,
`CallSignal` and `Return` for each callback, `EndSignal`, which removes what was
marked, then `BeginGlobal`, `CallGlobal` and `EndGlobal`. Callbacks run under
the recursive mutex of their array and may call everything else. `deliveries`
holds what each thread has on its stack, `current` the thread-local pointers,
`wanted` and `due` what ought to be connected and called.

| Member of `SignalRaces` | What callbacks may do |
|---|---|
| `"nested"` | cause the signal that they were called for |
| `"reconnect"` | connect again what is marked for removal |
| `"global"` | as a global callback, disconnect one or connect itself |
| `"grow"` | connect one, so that the array moves, and then take themselves off |

### ReplayBuffer

`ReplayData` is `replay_buffer_data` for one packet of an encoder, under the
interleaver's mutex: `AddPacketToBuffer` with the loops of `replay_buffer_purge`
(`PurgeUntil`, `Purge`, `PurgeFront`), then `SaveIfDue`, which turns the buffer
into the array that `replay_buffer_mux_thread` writes (`InsertPacket` sorts it
by the new time stamps). The packet that a stop waits for tells libobs of the
end and, in a step of its own, `DeactivateReplayBuffer`, clears flags and
buffer. `ReplayStart`, `ReplayStop`, `ReplayHotkey` are the user's calls. A time
stamp (`dts`) counts from the begin of a capture, `sys` is the system's time;
packets come `MaxLatency` behind the clock at most. A group of pictures and a
packet fit in the buffer: a smaller one makes `purge` look for a keyframe past
the end.

Nothing is held back: a capture may begin while `deactivate_replay_buffer` is
still to clear its flags, a save and a forced stop may come while the capture
ends, and a file that cannot be written ends the capture with the buffer full.
`spoilt` notes that one of these left something for the next capture, and
`clean` that the capture there is began with nothing left for it and with all
flags cleared. `ReplayFresh` and `ReplayPlayable` are about captures that began
clean; that the one after a spoilt one is clean again is part of what they check.

## 3. Runs

| Run | Question | Instance |
|---|---|---|
| `video_io` | Is any interval lost, repeated, torn or out of order? Does the cache implement `FrameStream`? Is `IndInv` an invariant? Is every interval played, does `video_output_stop` return (`EveryIntervalPlayed`)? | 3 slots, 5 intervals, lag up to 2, one plain and one scaled input; 151,448 states |
| `outputs` | RTMP and WebRTC output: do flags, threads, callbacks and button agree at rest, does a stopped stream stay stopped, does everybody who waits go on? A source: is it freed by its last release, once, under nobody? | `RetryMax` 2, 3 starts, `races` none, `{end, init}` or `{retry, end, init}`; 3 sessions, failures of the offer and of the remote description; 2 users with at most 2 references each; 48,585 states |
| `transport` | Send queue: is what is sent decodable, is the backlog bounded, does a stop end the thread? Delay: do the references count the starts, does a queued stop take effect? | a group of 7 packets of all priorities, thresholds 3 and 5, 11 packets and 3 while it drains, 1 connection; 2 encoders, 1 retry, 3 entries, 1 lost connection, 1 run; 153,871 states |
| `media` | Pictures and time stamps, start and order of packets, frames of a device, late audio, shared encoders, delivery of signals, saved replays | see below; 1,418,728 states |
| `scenes` | Do the counts of showing and activating match views and items? Can a scene become part of itself? Is what was hidden soon not shown? | 3 scenes inside each other and an item that would close the circle, a source with audio in the innermost and one without in the outermost, loaded with the items visible or with an inner scene hidden; 4 calls; 214,929 states |
| `interleave_bframes`, `interleave_keyframe`, `interleave_tracks` | three comments of `obs-output.c` that the code does not keep (section 6) | 1 or 2 tracks, 1 capture |
| `stream_output_retry` | "Stops the output." under one race (section 6) | `races` is `{retry}` |
| `source_refs_revive` | Is a source that somebody holds alive? (section 6) | race revive, 2 users |
| `delayed_force` | Does a forced stop of a delayed output last? (section 6) | race connect, 1 encoder |
| `encoders_failed` | Does an output that captures get packets after another one could not connect? (section 6) | mishap failed, 2 starts |

The instances of `media`: `Interleave` with two tracks that begin apart, or
apart and with B-frames, 7 video and 4 audio packets, 2 captures; `RenderLoop`
with 2 textures, 10 intervals, lags up to 2, 2 failed downloads, both
conversions and any number of resets; `AsyncFrames` with 4 frames, a cache
that overflows at 2, a clean-up after 2, one frame in the filter;
`AudioBuffering` with 2 sources, ticks of two frames, at most 2 ticks of
buffering, lateness up to 3 frames and a third, 3 ticks, 2 jumps; `EncoderPairing` with 2
starts of two outputs that share the audio, or the video while the second one
has another track, media up to time 10, and, with a single start, a connection
or an encoder that fails; `Signals` with 2 threads, 3 callbacks, 2 global ones
and 6 calls; `ReplayBuffer` with groups of one or two frames, limits of 6 in
size and 5 in time or of 4 in time alone, 9 packets, 3 captures, 1 save and 1
file that cannot be written.

Why the bounds are enough. Three slots let a slot be the oldest, the newest,
both or neither, and five intervals fill the ring, fold a frame into it while it
is played, drain it and wrap it. Two textures are the code's number, and ten
intervals pass the pipeline of at most four iterations several times with lags.
Video frames of two and audio packets of three units make every relative phase
occur; a pair of captures shows what the first leaves behind. Two retries
distinguish first, last and too many; three starts let a start follow a stop
that followed a reconnect. Three WebRTC sessions let one be refused or fail, the
next clean up after it and the third meet what both left behind. Eleven packets
of the group pass both thresholds and reach the next keyframe with the priority
raised; three more let a stop wait for its turn. Three entries of the delay are
a stop between two packets, or a start behind a stop. Four frames are one shown,
one queued, one in the filter and one being copied. Lateness of three frames is
more than a tick and, twice, more than the limit of the buffering. Two starts
let the encoders be shared, taken over, or used again after they were shut down;
time 9 leaves each capture longer than a pair needs to begin (`Patience`). Two
references per user are one to keep and one to give to the channel or to release
at the same time as the other user. Six calls connect two callbacks, signal, and
let them take off themselves or each other and connect a third. Four calls put a
scene into a view and hide, show and hide again what is below it, or build the
circle of scenes from hidden items and try to close it. Nine packets fill the
replay buffer past both limits and leave the three keyframes from which on it is
purged; a second capture meets what the first left behind, and the third one is
clean again.

Deadlock checking is off: the models have bounds, and the program may stop or
rest.

## 4. Fairness

`VideoIO`: weak fairness of the two threads and of a caller inside
`pthread_join`. They are loops that block only on the semaphore and on mutexes
held for a bounded time. Nobody has to connect, disconnect or stop.
`StreamOutput`: weak fairness of every call under way and of every thread that
was created; a connection attempt ends (the socket has time limits), but a
connection need not break, and nobody has to start or stop. The send thread has
to leave its loop only once `stop_event` is set, which wakes it.
`WebRTCSession`: weak fairness of every call under way, of the handlers, of the
signaling, keep-alive and end-of-capture threads; nothing is assumed of the
network and of the user.
`RtmpQueue` (`RtmpFairness`): the encoders go on making packets as long as the
capture lasts, the send thread goes on (a packet is sent or the connection
breaks: the socket has a time limit), and the capture ends after it was told to;
nobody has to connect or to stop.
`DelayedOutput` (`DelayedFairness`): the encoders deliver and carry out what is
due; strong fairness where an entry is due or a mutex is free again and again.
A connection attempt ends, nobody has to stop.
`SourceRefs` (`RefFairness`): a call that has begun and a walk that has begun
end; strong fairness for the mutexes that a destruction has to take.
`SceneItems` (`SceneFairness`): a call that changes a view ends, and the audio
thread goes on; strong fairness for the actions, because their time comes while
the audio thread renders again and again.
`RenderLoop`, `AsyncFrames`, `AudioBuffering`, `EncoderPairing`, `Interleave`,
`Signals` and `ReplayBuffer` have safety properties only.
`QuietCapturedIsEncoded` states the liveness of encoders as a bound: `Patience`
on the media's clock.

## 5. What is proved

The theorems hold for every value of the constants that the module's `ASSUME`
allows. Where a model lifts timing assumptions by a constant (`Races` and its
like), a theorem names the ones it needs as a hypothesis, so that a reader sees
what the code relies on; section 6 says what happens without. Each module of
proofs defines the inductive invariant first, as a conjunction of named parts,
and has one lemma for each action, or for each part.

| Theorems | For every | As long as |
|---|---|---|
| `VideoIO`: `NoTornFrameEver`, `SlotsTileTimeAlways`, `WakeupsMatchSlotsAlways`, `EveryIntervalOnceAlways`, `Refinement` | cache size, lag, clock, set of inputs | |
| `RenderLoop`: `PicturesKeepTheirTime`, `FramesLeaveNoHole` | number of textures from two on, lag, number of failed downloads | |
| `AsyncFrames`: `AsyncTyped`, `FramesStayIntact` | number of frames, length of queue and filter, time a frame may stay unused | `AsyncRaces` is empty |
| `EncoderPairing`: `PairingIsTyped`, `PacketsAreInTime` (`PacketsCarryTheirTime`), `CapturedIsEncodedSoon` (`QuietCapturedIsEncoded`) | encoders, ways to share them, periods, skew of the two threads, number of starts | the last two: `mishap` is `"none"`; they say so themselves |
| `Interleave`: `InterleaveTyped`, `StreamsStartAlways` (`StreamsStart`), `PacketsLeaveInOrder` (`MonotonicInOrder`) | number of tracks, times they begin at, durations of frames and packets, reordering, number of packets and captures | |
| `StreamOutput`: `FlagsAgreeAtRest` (`AtRest`), `StoppedStaysStopped` (`StopIsFinal`) | number of retries and starts, all of `"retry"`, `"end"`, `"init"` | no member of `Races` has `"close"` |
| `WebRTCSession`: `SessionTyped`, `CallbacksAreSafe`, `SessionsEndWhole` | number of sessions, failed offers and remote descriptions | `RtcRaces` is empty, `Faults` has no `"local"` |
| `SourceRefs`: `SourceSafety` (`NothingFreedInUse`), `LastReleaseIsFinal` | finite set of users, number of references they hold | `RefRaces` has no `"revive"` |
| `RtmpQueue`: `QueueTypedHolds`, `SentDecodable`, `WakeupsSuffice`, `BacklogIsBounded` (`BacklogBounded`) | group of priorities that begins with a keyframe, thresholds, number of packets and connections | the last one: `PframeDropThreshold` is at least three times `Gap` |
| `AudioBuffering`: `AudioTypes`, `TicksAlwaysFollow` (`TicksFollow`), `LateSourcesAreBuffered` (`LateSourceBuffered`) | set of sources, frame time, size of a tick, limits, time of the beginning, distances of time stamps from whole frames | |
| `ReplayBuffer`: `CapturesAreFresh` (`ReplayFresh`), `ReplayIsAccounted` (`ReplayAccounted`) | durations, size of a keyframe, settings, groups of pictures, number of packets, captures, requests and failures | the first one says so itself: the capture began clean |
| `Signals`: `SignalsDelivered` (`DeliveredOnce`) | set of threads, callbacks of the signal and global ones, number of calls and of deliveries | `SignalRaces` is empty |
| `SceneItems`: `ScenesAreTyped` (`SceneTypeOK`), `ScenesStayAcyclic` (`NoActiveCycle`), `ItemCountsMatch` (`ActionsMatch`), `CountsMatch` (`RefsMatch`) | finite set of scenes, sources, items, collections without a cycle, number of changes | the last one: `SceneRaces` has no `"gap"` |
| `DelayedOutput`: `DelayTypedHolds`, `StartsAreCounted` (`RefsCountStarts`), `ForcedStopStays` (`ForceStopIsFinal`) | set of encoders, retries, losses, runs, length of the queue | `DelayRaces` is empty |

`PROJECT.json` lists all of them with the properties they state.

### The inductive invariants

* `VideoIO` (`IndInv`). That a new frame never goes into the slot being played
  follows only if the queued slots run from `first_added` to `last_added`
  without a hole (`QueueShape`) and the video thread works on the oldest of them
  (`ThreadHoldsSlot`); that it works on a slot at all needs one wake-up per slot
  (`WakeupsMatchSlots`); that slots continue the time line needs that none
  reaches past the clock (`SlotsBehindClock`) and that counts stay above the
  skipped intervals (`SkipsWithinCount`). `SeenIsCurrent` ties the inputs to the
  time line and carries `EveryIntervalOnce`. The refinement mapping is `Shown`,
  the interval that the video thread plays next. Arithmetic modulo the ring is
  confined to lemmas about `Succ` and `Ahead`.
* `RenderLoop` (`RenderInv`). The time stamps that wait say what every stage of
  the pipeline has (`TimesAreStages`, with `Rendered(k)` the time of the picture
  that the k-th stage has made last), and a stage has made its picture exactly
  in the iterations in which it was its turn (`StagesInStep`); without that a
  failed download could not be told from a stage that has nothing yet. The times
  that wait tile the time line (`TimesTile`, `TimesAscend`), up to what was
  emitted (`EmittedInTime`).
* `AsyncFrames` (`AsyncInv`). The count of each frame is the number of places
  that have it (`RefsCounted`): queue, filter, the frame shown, the previous
  one, the one being copied. That needs that none is twice in a queue or in two
  of them (`HeldOnce`), that each thread's place says which frame it has
  (`PointsHold`), and that the cache has exactly the frames that are in use
  marked (`CacheFollows`).
* `EncoderPairing` (`PairingInv`). Whatever goes wrong, an output that works its
  way through its encoders has a next one (`HasNext`) and the samples of an
  encoder are an interval (`Sampled`). While nothing goes wrong (`QuietInv`), of
  the two outputs one is settled (`OneMoves`), so that an encoder is not taken
  over by one while the other is about to shut it down; who has a callback on an
  encoder and for whom it has its data is then exact (`CallbackOn`, `Wanted`).
  Pairs are mutual until one half is shut down, and then the other half is about
  to be (`AudioPairs`, `VideoPairs`, `Widowed`). Audio that waits holds the
  samples from its first block on (`WaitsWith`), and what is cut off at the
  video's `start_ts` leaves an interval that begins there (`Underway`): that is
  why the count of the packets agrees with what was encoded. The clocks are not
  far apart (`ClockRuns`), and from the moment an output captures its video
  begins within a skew and a frame and its audio a block later (`BeginsSince`),
  which gives `Patience`. That sum was first written as twice the larger of the
  two steps, which is the same number for the values that TLC uses and too small
  for others; the proof failed there.
* `Interleave` (`InterleaveInv`). The buffer is looked at as the set of packets in
  it; `Sorted` puts them one after the other, strictly within a source. While a
  capture waits for its streams (`Waiting`), what is in the buffer is as the
  encoders made it (`Unmoved`) and of no track a packet is missing in between
  (`Unbroken`); a source is missing or a track ends before the video begins.
  Once it has begun, a packet comes before the next one of its source (`Moved`),
  and a source that has sent nothing has its packet at time 0 in the buffer
  (`FirstsAtZero`). No track is ahead of another by more than the packet it made
  last (`InStep`). How late the last track begins depends on what pruning leaves:
  after `prune_premature_packets` a source is missing, so the capture waits; and
  the successor of the audio dropped by `discard_to_idx` is less than a packet
  after the video. `StreamsStart` was first written with a video frame as the
  only bound; the proof failed there, and TLC then found the counterexample (frames
  of 3, packets of 7, tracks that begin at 9 and 8). What the sorting after the
  start yields is shown by induction on the buffer.
* `Interleave`, the order of the packets (`OrderInv`). Before the start the
  highest audio time stamp is that of the last packet of some track
  (`HighestSoFar`), and audio begins at whole packets (`Whole`); so the offsets of
  the tracks are whole packets, and `start_gap` is how far they are apart
  (`BegunAt`). From then on neither the highest time stamps nor the audio that
  waits are past what any track makes next (`Level`), and nothing that waits or is
  still to come is before the packet sent last (`Past`). What is less than a
  packet too late would break that; it cannot be, because all of it is counted in
  whole packets (`Multiples`, `NotAfter`). `HighestNotAfter` is where
  `CloseTogether` is needed: the highest time stamp is moved by the first track's
  offset. The property was first written without it; the proof stops at this
  lemma, and TLC then found both counterexamples of section 6.
* `StreamOutput` (`OutputInv`). Flags say whether their threads exist
  (`FlagsFollowThreads`), the capture is on between two places of the threads
  (`CaptureFollowsThreads`), and of the threads at most certain pairs run
  (`ThreadsApart`). `ReconnectFollowsStop` and `StopIsAnswered` are about what
  a stop has seen; `NothingLeftToStart` is what makes a stop final.
* `WebRTCSession` (`RtcInv`). Of the callers of `stop` only one is past the check
  of the pointer (`CallersApart`); user's, signaling and network thread are
  where the session allows (`UserFollowsSession`, `SignalingFollowsSession`,
  `ClientFollowsStop`, `CaptureFollowsSession`); the button knows of the capture
  (`ButtonFollowsCapture`), and the references are at least those that somebody
  will give back (`RefsFollowSession`).
* `SourceRefs` (`RefInv`). `source_refs` is one less than the number of
  references that threads and channel hold, the same for the weak ones
  (`RefsCounted`, `WeakCounted`; the threads are finitely many, so this is a
  cardinality). One thread at most is between the last release and the end of
  the destruction (`DestroyedOnce`); who found the source in a list did so while
  it was alive or will see that it is not (`ListedIsAlive`, `SwapSawReference`).
* `RtmpQueue` (`QueueInv`). A packet that waits refers to frames that were sent
  or wait before it with at least its own priority (`LineDecodable`), so that
  dropping a priority drops whoever depends on it. The same holds for the packet
  that `rtmp_stream_data` was given (`NextDecodable`) and for those the encoder
  will make next (`EncoderDecodable`), as long as `min_priority` lets them in:
  the last one is why a new keyframe resets `min_priority` and nothing else
  does. What `drop_frames` leaves (`Kept`: the same packets in order without the
  ones below the priority) is shown by induction on its loop.
* `RtmpQueue`, the time that waits (`BacklogInv`). Of the group only the next
  position is known; `InGroup` says where the last frame that others refer to is
  in it, which bounds the packets made since by `Gap`. From the first frame that
  may be dropped on, every frame is followed by one that dropping leaves there,
  within a gap (`Spaced`), or it is still to come (`QuietSince`). A queue of five
  that is left with such frames does not exceed the threshold (`CheckedLast`);
  but `check_to_drop_frames` does not look at a shorter one, and four packets may
  hold four gaps (`FourGaps`). So the theorem needs the threshold to be three gaps
  or more. The property was first stated for all thresholds; the proof stopped
  there, and TLC found a counterexample with `Gap` 2 and a threshold of 5, and
  none with 6 (394,363 states). The plugin's 900 ms are enough for any
  stream with a reference frame at least every 300 ms.
* `AudioBuffering` (`AudioInv`). The ticks in the buffer follow each other up to
  `audio_time` (`TicksInRow`), the one that is worked on is the first of them
  (`TickIsFirst`), the wait lasts no longer than there are ticks (`WaitEnds`),
  and what is mixed has its audio (`MixedHaveAudio`). The rounding of
  `add_audio_buffering` is arithmetic on products of variables; each such step
  is a lemma of its own. When a source is late by less than a frame the tick
  has an end that nobody has set (section 6). The invariant therefore says of
  the end only that it is a time, and what needs it to be a tick after the start
  (`BeginsInTick`, the last part of `TicksFollow`) asks for it.
* `ReplayBuffer` (`ReplayInv`). What the buffer holds is accounted for
  (`Counted`), also in the middle of a purge, and fitted when the last packet
  was added (`WithinLimits`). The loops of `replay_buffer_purge` end with a
  buffer that is empty or does not exceed the limit, because each purge takes at
  least one packet (`PurgeUntilTyped`), and the second loop does not undo the
  first because a purge never adds to the size. A capture that began clean has
  its own packets and requests only (`CaptureIsOwn`); one that has ended leaves
  nothing unless it is noted in `spoilt` (`NothingLeft`). The limits are those of
  the last packet added: they hold once the capture has added one
  (`WithinLimits`), since a buffer that a failed file left may exceed those of
  the next capture.
* `Signals` (`SignalInv`). A thread is in one delivery at most, and its
  thread-local pointers are those of the callback it is in (`Fine`, `Going`); who
  walks an array has its mutex alone. What is connected is in the array once,
  and nothing is marked there unless somebody walks it (`Intact`). What a
  delivery has called is what comes before its position, except for what is
  marked (`Follows`): that is what `signalling` and `remove` are for, since no
  element before the position moves as long as the array is walked. A global
  callback is counted exactly while it is called (`IsCounted`), so
  `signal_handler_disconnect_global`, which compares whole elements, finds any
  other one. One lemma (`StepKeeps`) says what of all this a step of one thread
  must leave to the others.
* `SceneItems` (`SceneInv`). The count of an item without audio is never
  negative and such an item has no actions (`ItemsTyped`, `HiderTyped`): only
  then does showing a hidden item always go through the test of
  `obs_source_add_active_child`. That test walks the full tree of the child,
  which is the least set that no active item leaves (`ReachClosed`, which counts
  the scenes that each step finds, and `ReachLeast`); an edge that passes the
  test closes no cycle (`OneMoreEdge`). It is assumed of a loaded collection that
  its visible items have no cycle (`LoadedAssumption`): `scene_load_item` adds
  each of them with `obs_scene_add`.
* `SceneItems`, the counts of items (`ActionsInv`). An item is counted for its
  being visible, for each hiding that waits and for each that the audio thread
  has taken out of the queue and not yet carried out; what the user wants is the
  last value that waits (`ItemMatches`). This needs no exclusion of anything.
* `SceneItems`, the counts of sources (`CountsInv`). Each source has what the
  views owe it and what its parents have, one for each active item and one for
  the item that the audio thread has made inactive and not yet uncounted
  (`Balanced`, `Late`); while a tree is being counted this is said of the counts
  as they will be (`Whole`), and a view that is being changed owes what it owed
  until the source that enters or leaves is counted (`Owed`). The walk over a
  tree has the balance it must have (`PathsLaws`, `TreeCounted`), because it
  comes to a source as often as to its parents together (`VisitsLaws`): after as
  many steps as there are scenes nothing new is found, since a scene has more
  scenes above it than its parents have (`AboveParents`). The code bounds by zero
  what it takes away and by the showings what it activates; that these bounds
  never bite follows from the balance by induction down the tree
  (`CountsOrdered`, `PassedOn`, `TakenAway`). Sums are taken apart by one item at
  a time, in any order (`SumAnyFirst`).
* `DelayedOutput` (`DelayInv`). `delay_restart_refs` is the number of starts that
  are queued, being carried out or waited for, and of those there is at most one
  (`OneStart`, `StartsCounted`); the callbacks are attached exactly while some
  encoder may still deliver (`Attached`); a stream that is over has been told so
  or will be (`StreamEnds`). `Encoders` never has the name of the user's thread.

### What stays with TLC

* Liveness (`EveryIntervalPlayed`, `QuietCallsReturn` with `ReconnectSettles`,
  `RtcCallsReturn`, `StopEndsSending`, `DelayedStopStops`, `LastReleaseFrees`,
  `QuietShowingIsDisplayed`): out of the prover's reach.
* `ReplayPlayable` (the insertion of saved packets by time stamp), and the
  properties of the composed runs as such: `OutputsTypeOK`, `TransportTypeOK` and
  `MediaTypeOK` join the types of components, which are proved one by one, but
  for `ReplayTypeOK`: `ReplayInv` types the variables its proofs read and leaves
  the muxing of a saved file to TLC.

### How recursion is treated

The models use recursive functions only. Where a proof needs what one computes,
a lemma says that the function exists and what every value satisfies; it is
shown by induction over a set of numbers (`Induct`: a least counterexample
exists because `<` is well-founded on the naturals), since the induction
theorems of the library take an operator. `TotalIsSum`, `ReachWalk`, `WithoutIs`
and the lemmas about the loops of `drop_frames` and of the purges come about this
way, and so do the sums of `SceneItems` (`InductOnSets`, `SumExists`) and the
walk over its tree (`InductOnTree`).

`TypeOK`, `SkipsWithinCount` and `WakeupsMatchSlots` of `VideoIO` are conjuncts
of `IndInv` and are checked with it.

## 6. Where code and comments differ

* `interleave_bframes`: `send_interleaved` says its rule "ensures that the
  timestamps are monotonic" (`obs-output.c:1017`). With B-frames it does not:
  video is moved by the first packet's `pts`, `highest_video_ts` by its `dts`.
* `interleave_keyframe`: "if first video frame is not a keyframe, discard until
  received" (`obs-output.c:1396`). Pruning a premature keyframe leaves the
  frames after it in the buffer.
* `interleave_tracks`: a premature first video packet is pruned
  (`obs-output.c:1178`), but `max_diff` is computed and `diff` is tested, so
  only the last track counts.
* `stream_output_retry`: `obs_output_stop` "Stops the output." (`obs.h:1411`).
  If the reconnect delay runs out between the reset of `stopping_event` and the
  join, stop and reconnect thread wait for each other.
* `source_refs_revive`: "When the last reference is released, the source is
  destroyed." (`obs.h:729`). The audio thread may take a new reference, without
  a test, from the moment the count is -1 until the source has left its list.
* `delayed_force`: `obs_output_force_stop` "Forces the output to stop. Usually
  only used with delay." (`obs.h:1437`). While the stream connects, the delayed
  output is ended and the stream is not told; it comes back when it connects.
* `encoders_failed`: `obs_output_begin_data_capture` "Begins data capture from
  media/encoders." (`obs.h:1602`). After a stream that could not connect, its
  video encoder stays paired with its audio encoder. A recording with that video
  and another audio track captures and never gets a video packet.

Seen in the models and not among the runs:

* `StreamOutput`: with `"init"` a stop and a reconnect may not settle: a failed
  start in the reconnect thread leaves `reconnecting` set for good; with `"end"`
  they may not either, which is why `ReconnectSettles` and the first half of
  `QuietCallsReturn` are about behaviours without races. Its second half, that
  starts return, holds with both. With `"close"` a request to stop can be lost, or
  left over for the next connection; `StopIsFinal` and `AtRest` then fail.
  `HookedOnce` holds under all four (25,436 states).
* `Interleave`: packets leave in order (`MonotonicInOrder`) only when the tracks
  begin close together (`CloseTogether`). `highest_audio_ts` is one number for
  all tracks and is moved by the first track's offset (`obs-output.c:1319`),
  while each packet is moved by its own track's. With tracks that begin 8 apart
  and packets of 7, or with three tracks that begin at 0, 2 and 5, video is sent
  on the strength of one track before a packet of another that is due earlier.
  `pair_encoders` pairs one track's encoder with the video and no other, so
  nothing makes the other tracks begin with it.
* Three comments in `WebRTCStream.cpp` (368, 411, 419) say of
  `obs_output_signal_stop` "this will call stop on main thread". No code does:
  peer connection, client and keep-alive thread stay until the next start.
* `WebRTCSession`: a failure of the local description (`Faults` with `"local"`)
  lets the answer find a peer connection that is gone; `"close"` deletes the
  client in its close handler. `CallbacksFindObjects` then fails, also with
  `"impatient"`: `start` calls `stop` "just in case" (`WebRTCStream.cpp:164`),
  which disconnects the client and waits ("If sswe have to wait",
  `JanusWebsocketClientImpl.cpp:335`) before it deletes it; while the connection
  is being made, `disconnect` neither stops nor waits. An attempt that failed,
  followed by two presses of a button that says "start" each time, gets there.
* `SceneItems`: "Returns true if currently displayed somewhere (active or not),
  false if not" (`obs.h:862`, `obs_source_showing`). An item with audio that is
  hidden in a scene that only the preview has stays counted, because the audio
  thread comes to scenes below the main view only (`obs-audio.c:396`): its source
  says it is showing for as long as the preview has the scene.
  `QuietShowingIsDisplayed` without `Alone` then fails (found with 3 calls).
  With `"gap"` a source that is removed while its scene leaves the view stays
  counted, and `RefsMatch` fails; with `"render"` the audio thread uses
  `item->parent` of an item that was taken out, where it is NULL.
* `DelayedOutput`: with `"order"` and two encoders, each encoder's thread waits
  for what the other one carries out. `delay_capturing` stays true when a
  connection breaks and nobody retries; the next start is then not signalled.
* `AudioBuffering`: a source that is late by less than a frame rounds to no tick.
  `add_audio_buffering` then inserts nothing although "if a source has gone
  backward in time, buffer" (`obs-audio.c:432`), and hands its caller a
  `new_ts.end` that was never set. `LateSourceBuffered` therefore allows less
  than a frame, and `TicksFollow` says that no sample is mixed twice only for a
  tick whose end was set: without that condition it fails (the source that was
  mixed continues at the wrong end, which leaves a hole or repeats samples).
* `AsyncFrames`: with `"resize"` the graphics thread reads a frame that the
  capture thread has freed; `FramesIntact` then fails.
* `EncoderPairing`: with `"meanwhile"` an output that stops shuts down encoders
  that another one, which is connecting, has found initialized;
  `obs_encoder_start` then returns without a word (`obs-encoder.c:457`) and the
  output captures nothing. `CapturedIsEncoded` and, with the mishap lifted from
  it, `PacketsCarryTheirTime` fail. With `"error"` the encoder stays
  `initialized` without data and is of no use until it is destroyed, and
  `full_stop`, which holds `callbacks_mutex`, and `obs_encoder_stop`, which holds
  `init_mutex`, can wait for each other.
* `Signals`: a callback that causes its own signal clears `signalling` for the
  delivery that called it, whose array is then changed under it, and
  `current_signal_cb`, so it cannot take itself off (`"nested"`). Connecting
  what was disconnected during a delivery finds the marked entry and is lost
  with it (`"reconnect"`). `signal_handler_disconnect_global` compares whole
  elements, `signaling` included (`signal.c:365`), so it never finds a callback
  that is running, and its `if (cb->signaling)` is not reached (`"global"`).
  `DeliveredOnce` then fails.
* `ReplayBuffer`: after a file that could not be written the buffer keeps its
  packets, and the next capture continues with them although its time stamps
  begin anew. Flags that are cleared after the end was told to libobs may be
  those of the next capture or of the next stop, and a save or a forced stop that
  comes while a capture ends is left for the next one. The run has all of this;
  `ReplayFresh` without `clean` fails.

## 7. Not modelled

Drawing, mixing, encoding, muxing and scaling transform data and have no
control of their own worth a state machine. Capture plugins, platform layers,
audio monitoring and graphics back ends are calls of operating system APIs.
The window code of the frontend appears only as the calls it makes. Vendored
and generated code is left out. `ftl-stream.c` has the thread structure of
`rtmp-stream.c`. Hotkeys and services have state of their own and are left for
later. Most of the repository's lines belong to these parts, so the map covers a
small share of them.

The components are modelled side by side and not as one system. What one relies
on in another is stated where it is used: `VideoIO` on `FramesTile` of
`RenderLoop`, `Interleave` on packets that carry the system's time
(`PacketsCarryTheirTime` of `EncoderPairing`), `RtmpQueue` on packets that come
in order.

## 8. Plan

1. `StreamOutput` extended by destroying an output and by the meta data failure;
   `WebRTCSession` by destroying the output and by the Millicast client.
2. `VideoPipeline`: `RenderLoop` and `VideoIO` side by side, with resets and
   connecting inputs (the check of `video_output_active` in `obs_reset_video`).
3. `SceneItems` extended by transitions, which show two scenes at a time, and by
   steps within the calls about items.

Theorem to add: `ReplayPlayable` of `ReplayBuffer`. No module uses RECURSIVE
operators.
