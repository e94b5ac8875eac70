# A verification of Chromium's `media/`

The repository is the `media/` directory of Chromium: demuxers, decoders,
renderers, the pipeline that connects them, audio devices, capture, casting.
This directory holds TLA+ models of its playback core, of its Media Source
demuxer and of a cast video stream, the TLC configurations that check them on
small instances, and TLAPS proofs of theorems about them.
Source paths are relative to `src/`.

Contents: [1 The system](#1-the-system), [2 Plan](#2-plan),
[3 The modules](#3-the-modules-and-the-code), [4 The runs](#4-the-runs),
[5 Fairness](#5-fairness), [6 Proofs](#6-proofs),
[7 Disagreements](#7-where-code-and-comments-disagree),
[8 Not modelled](#8-what-is-not-modelled).

## 1. The system

### Inventory

The playback core, from the media element down. "Hard" is what a unit test
hardly reaches; the lines are in the `hazards` of `PROJECT.json`.

| component | state | operations | hard | what makes it correct |
|---|---|---|---|---|
| **PipelineController** `filters/pipeline_controller.cc` | `state_`, flags and times of pending requests, `waiting_for_seek_` | Start, Seek, Suspend, Resume, track changes, Stop; completions; `Dispatch()` after each | reentrant callbacks, requests that overtake one another, cancelled seeks | never takes the pipeline for where it is not; one operation at a time; the last request wins; seeks are reported on arrival |
| **PipelineImpl** `base/pipeline_impl.cc`, `base/serial_runner.cc` | main-thread half: callbacks, times, `is_suspended_`; media-thread half: `state_`, `status_`, demuxer, renderer, shared media time, the series under way | Start, Seek, Suspend, Resume, Stop, rate, track changes, GetMediaTime | two threads, two queues, weak pointers, blocking Stop(), errors in the middle of a series | every operation answered once; Stop() a barrier; rate and track changes not lost; time does not go back |
| **RendererImpl** `renderers/renderer_impl.cc` | `state_`, two buffering states, ended, playing, pending track changes, `time_ticking_`, the deferred underflow | Initialize, SetCdm, StartPlayingFrom, Flush, SetPlaybackRate, track changes; reports of the two renderers | reports posted before a flush or a track change, suppressed and deferred underflows, errors during restarts | knows what its children have; plays exactly when both have enough; ends when both have; answers all |
| **Audio/VideoRendererImpl** `renderers/*_renderer_impl.cc` | state, buffering, end of stream, sink, algorithm | Initialize, Flush, StartPlaying, Render | device thread against media thread | clock never goes back; underflow and end reported once |
| **DecoderStream** `filters/decoder_stream.cc` | `state_`, pending reads, decodes and buffers, outputs, fallback buffers | Initialize, Read, Reset; completions of demuxer, decoder, selector | five asynchronous activities at once, any of which fails, is reset or overtaken | every output once, in order, then the end; the decoder's contract |
| **DecoderSelector** `filters/decoder_selector.cc` | decoders left, decrypting stream | SelectDecoder | part of the fallback | ends with a decoder or none |
| **DecryptingDemuxerStream** `filters/decrypting_demuxer_stream.cc` | `state_`, pending buffer, key_added flag | Read, Reset | a key added while a decryption is pending | no read waits for a key that is there |
| **ChunkDemuxer** and its streams `filters/chunk_demuxer.cc` | `state_`, `seek_cb_`, `cancel_next_seek_`, the sources, each stream's mode and pending read | StartWaitingForSeek, CancelPendingSeek, Seek, Read, appends, removals, eviction, MarkEndOfStream, RemoveId, Shutdown | two threads and a lock: a seek is announced and cancelled on one and made on the other | a seek or a read is held back only for lack of data; no check fails |
| **SourceBufferStream** and its ranges `filters/source_buffer_*.cc` | ranges, next positions, track buffer, the append sequence | Append, Remove, GarbageCollectIfNeeded, Seek, GetNextBuffer | surgery on the range that is read or appended to | what is given can be decoded; room is there when promised |
| **FrameProcessor** `filters/frame_processor.cc` | timestamp offset, append window, group state | ProcessFrames | frame by frame arithmetic | groups start where told |
| **Audio output** `audio/` | device, controller and dispatcher states, shared memory ring | authorization, play, pause, device change, pooling | IPC and timers that race | never plays on an unauthorized device; streams and proxies agree |
| **Cast** `cast/`: FrameSender, RtpSender, PacedSender; FrameReceiver, Framer, CastMessageBuilder | frames in flight, stored and paced packets, duplicates; packets received, last frame released, acknowledged frame | encode, send, ack, resend, kickstart; insert, release, skip, report | loss, repetition, reordering of packets and acknowledgements, late frames | every frame acknowledged in the end; nothing given up that is needed; only decodable frames emitted |

Also in the repository: FFmpeg demuxer and decoders, parsers, `gpu/`,
`capture/`, `cdm/`, `mojo/`, `blink/`, `muxers/`, `remoting/`, `midi/`,
`learning/` and tools. `PROJECT.json` lists each with the reason why it is
(not) modelled.

### How the core interacts

```
 WebMediaPlayerImpl (blink/)          main thread: reentrant calls and callbacks
        |  Seek, Suspend, Resume, ...        ^ seeked_cb, suspended_cb, error_cb
 PipelineController  --StartWaitingForSeek/CancelPendingSeek-->  Demuxer
        |  Start, Seek, Suspend, Resume      ^ one completion per call
 PipelineImpl       (main thread) ==tasks==> RendererWrapper (media thread)
                                                  |  SerialRunner
                                       Demuxer <--+--> RendererImpl
                                          |               |  Flush, StartPlaying
                                          |        AudioRendererImpl, VideoRendererImpl
                                          |               |  Read, Reset
                                          +---reads--- DecoderStream -- decoders, CDM
```

Calls go down as method calls or posted tasks, completions come up as bound
callbacks, posted tasks or weak-pointer tasks that may vanish. Nothing is
persisted and nothing crosses a network in the core, so that crashes and lost
messages enter only as destruction, errors and cancelled callbacks. The page's
appends, removals and evictions reach `ChunkDemuxer` on the main thread while
the pipeline seeks and the renderer reads on the media thread, all under one
lock. Casting is where a network comes in: packets one way, cast messages
(RTCP) the other, both over UDP.

## 2. Plan

In order of importance; **done** is on disk.

1. **done** `Pipeline`: abstract specification of the contract of
   `base/pipeline.h`; both sides of it are shown to implement their half.
2. **done** `PipelineController` implements the client's half: checked, and
   all its safety **proved**.
3. **done** `PipelineImpl` implements the pipeline's half: checked, and all its
   safety **proved**.
4. **done** `RendererImpl` over abstract children: checked, and its safety
   **proved**. `DecoderStream` over an abstract
   decoder, demuxer and selector: checked; its types, and for one request at a
   time all its safety (the order and the end of the outputs, the decoder's
   contract, that errors last) **proved**.
5. **done** `SourceBufferStream` as operators on sequences of frames, and
   `ChunkDemuxer` over it with its two threads: checked.
6. **done** `CastStreaming`, sender and receiver over a lossy network: checked,
   and its safety **proved**.
7. A module composing `PipelineController` and `PipelineImpl` over their common
   `phase`, so that the assumptions each makes of the other are discharged.
8. `AudioRendererImpl` with the device thread, replacing the abstract audio
   child; an abstract `Renderer` contract that `RendererImpl` implements.
9. `DecryptingDemuxerStream`; an abstract `DemuxerStream` contract (reads
    answered in order, aborted by a reset) that it and `ChunkDemuxer`
    implement and `DecoderStream` assumes.
10. `FrameProcessor`; `AudioOutputController` and `AudioOutputDevice`.

Runs stay few: one per question, each a few minutes at most. Proofs are
about modules without `RECURSIVE` operators, which is all but
`SourceBufferStream` and `ChunkDemuxer`.

## 3. The modules and the code

Conventions. A variable holding a record has the members of one class under
their names in the source. An action is one handler, executed to its end, or
to the client callback it ends in. Inputs are chosen by `\E`. A handler that
calls others is an operator from the state it finds to the state it leaves
(`Become(Handler(Now))`). Operators under a comment that begins "Defect:" are
not part of the specification: each is a plausible mistake in one definition,
which a run must detect when the definition is replaced.

### `Pipeline`

One variable, `phase`: where a pipeline is as its client may know. Operations
are allowed from `stopped`, `playing` and `suspended` only; each is answered by
one completion or error; after an error there is only `Stop()`. A completion
callback may make the next call before it returns, hence `Complete` may go on
to `Calls(p)`.

### `PipelineController`

* `ctl`: the members. `stack`: the client callbacks that are running, since
  the client may call back from them. `env`: the pipeline's phase, what the
  demuxer was told of the seek under way, where the last seek landed and
  whether there is data, the track change that is owed, and the time the client
  last asked to seek to (`asked`). `wanted`: history for the properties.
* One operator per branch of `Dispatch()`, tried in its order. A branch that
  runs a callback pushes it; what the code does after the callback is the
  action `ReturnFrom...`.
* Which calls are possible in which callback is read off
  `WebMediaPlayerImpl` (`MayRequest`, `MaySetSuspendState`, `MaySwitchVideo`).
  `OnError()` stops the player, always (`StopOnError`).
* A cancelled seek is answered with PIPELINE_OK, with or without data
  (`Answered`): `ChunkDemuxer` and `FFmpegDemuxer` differ.
* A track change completion already posted when the player is stopped arrives
  later (`leftover`), even in the next session, since the controller binds it
  to its own weak pointer.
* Left out: setters that only forward.

### `PipelineImpl`

* `main` and `media` are the two halves, `mediaQ` and `mainQ` the task queues.
  A call is checked and posted in one step of the main thread; `MediaTask` and
  `MainTask` run the head of a queue.
* `media.series` is a `SerialRunner`: functions to run, the one running, the
  completion. `Completes` is the answer of demuxer or renderer; an error ends
  the series.
* Tasks to the main thread vanish with `Stop()` (weak pointer) and none is
  posted until the next `Start()` (`linked`). On the media thread what a
  destroyed demuxer, renderer or series would still have answered becomes a
  task that does nothing (`Cancelled`). `Stop()` blocks the main thread
  (`stopping`; no other main-thread action is enabled) until the media thread
  has run the stop task.
* The media time: `pos` is the renderer's, `last_media_time` and `seek_time`
  the clamp, `suspend_timestamp` the shared one. `shown` is history.
* The client obeys module `Pipeline`, as `PipelineController` does (proved).
* Left out: `SetCdm()`, `SetVolume()`, statistics and forwarded
  notifications, the text renderer.

### `RendererImpl`

* `r`: the members. `child`: the audio and the video renderer: their state
  machine, buffering state, end, and of the video renderer whether time
  progresses, the sink runs and frames are queued. `tasks`: posted to the media
  thread, a FIFO as `SequencedTaskRunner` is; a child's own tasks are bound to a
  weak pointer and run as nothing once it is destroyed (`Cancelled`).
* `OnBufferingStateChange()` is modelled with every branch: reports suppressed
  by a track change, the deferral of a video underflow and the four places
  that cancel it, pause, and restart.
* A child's callbacks are posted, with one exception: after a decode error
  while it flushes, the audio renderer runs the callback of the flush at once,
  with its own `lock_` held. If `RendererImpl` then calls it back, as it does
  for an audio track change, the media thread waits for itself: the child's
  state is `hung` (`OnAudioFlushedLocked`), and nothing happens any more
  (`Hangs`). If it only goes on with the video, or fails, all is well.
* Left out: media times (only "ticking" and the rate 0 or 1 matter to the
  control), volume, `underflow_disabled_for_testing_`. The client has one
  operation or track change under way at a time, as `PipelineController`
  guarantees. The audio renderer's `kFlushed` and the completion of its reset
  are one step. `MaxTasks` bounds what a child may post ahead.

### `DecoderStream`

* `ds`, `sel`: the members of `DecoderStream` and of its `DecoderSelector`.
  `dec`: the requests the decoder has and the outputs it holds. `demux`: the
  position of the demuxer stream, the pending read and whether it aborts
  (a seek is due). `client`: outputs got since the last `Reset()`.
* Buffers are numbered, an output bears its buffer's number: order, loss and
  repetition are visible, contents are not.
* A decoder is asynchronous, answers requests in order, may hold outputs back
  until it has more input or is flushed, and may fail any request. Left out:
  several outputs per buffer, durations, statistics, frames dropped by the
  traits or by `skip_prepare_until_timestamp_`, an invalid new config. A
  `Read()` from within a read callback equals one right after it.
  `kFallbackAfterDecodeError` is on. The client does not read past the end.
* `Lossless` qualifies `InOrder` and `EndIsReal`: a decoder that fails in the
  flush before a config change, with nothing output yet, loses its buffers,
  which the comments of `OnBufferReady()` accept.

### `SourceBufferStream`

`SourceBufferStream<SourceBufferRangeByDts>` for one video track, without
variables: every operation is an operator from the stream it finds to the
stream it leaves.

* A stream is a record of the class's members. A range is its frames, its
  start, the index of the next frame to read (0 unless it is the selected
  range), and whether it is the one for the next append. Iterators that the
  code must keep valid while it splits, truncates, merges and deletes ranges
  thus become fields that have to be moved along.
* A frame is `[t, key, gop]`: what it depends on is the number of its key
  frame. All frames last two units and have the same size; a microsecond, which
  the code adds here and there, is the unit between. A removal may thus start
  or end inside a frame.
* `ok` becomes false when a CHECK or DCHECK of the code would fail. Two are not
  in it: `DCHECK(CanSeekTo())`, which fails (section 7), and
  `DCHECK(bytes_freed >= bytes_to_free)` at a pending seek, which fails when
  the request is for more than the buffer holds; the result is then `fits =
  FALSE` either way.
* Buffering by decode time is the default (`kMseBufferByPts` is off). On frames
  decoded in the order of presentation, as here, the two agree.

### `ChunkDemuxer`

* `state`, `seek_cb`, `cancel_next_seek`, `ids`: the demuxer. `stream_state`,
  `read_cb`, `buffer`: its streams. One action per call, since each holds the
  demuxer's lock throughout; an append completes a pending read and a pending
  seek in the same step.
* `target`, `pending`, `waiting`, `pipe`, `seek_posted`, `done_posted`: the
  player. The main thread announces a seek (`StartWaitingForSeek`) and posts it;
  another seek meanwhile cancels it (`CancelPendingSeek`), once; the media
  thread aborts reads, flushes and calls `Seek()`. So a cancellation may fall
  before or after the seek it is for.
* The page asks for room (`EvictCodedFrames`), then appends as many frames as
  were granted, in a group of its own or going on with the last; removes, ends
  and reopens the stream, reports errors, removes sources. A group that starts
  less than a frame's length after the one before is left out, so that
  `MaxInterbufferDistance` is a constant.
* `orphaned` marks the one way in which a seek is known to hang (section 7).

### `CastStreaming`

* `s`, `paced`: `FrameSender` with the packets `RtpSender` stores, and the
  pacer's list. `air`, `feedback`: the network, sets, so that order is free.
  `r`: `FrameReceiver`, `Framer` and `CastMessageBuilder`. `spent`: bounds.
* The network loses and repeats packets and cast messages, within the `faults`
  of the stream, and reorders them at will. A frame that cannot be decrypted is a
  fault, too. `kMaxUnackedFrames` is the `window` of the stream; 120 in the code.
* `OnReceivedCastMessage` is the whole of `OnReceivedCastFeedback()` and the
  resending in the transport: duplicates are counted and kick the sender at the
  counts the code has, acknowledged frames leave storage and pacer.
* `EmitAvailableEncodedFrames()` is a loop with an early return, a skip and a
  wait; each turn is an action, and no other step comes between turns
  (`r.emitting`), as they run in one task. `r.start`, history, is the key frame
  the receiver started at.
* Time is a choice: a frame is late or early, a report is due or not, whenever
  the code could find it so.
* Frame ids keep their width (the code expands the 8 bits it sends).
  `received_later_frames`, never filled, and the slow-down of
  acknowledgements, whose flag is set from it, are dead code and left out.

The `MC...` modules name the set-ups to be checked; the other constants are in
the `.cfg` files. Where a module has a constant `Setups` (`Streams` in
`CastStreaming`), the variable `setup` (`stream`) holds the one chosen by
`Init` for good: one run covers several kinds of media, and what each may do.

## 4. The runs

`tlc -workers 2 -config <cfg> <module>`. Deadlock checking is off everywhere:
the client may fall silent at any time, and the bounds on its calls run out,
so that behaviours that stop are legitimate; that nothing stops which should
not is what the liveness properties say.

| run | cfg | set-ups and bounds | shows |
|---|---|---|---|
| `controller` | `MCPipelineController` | 5 client calls, times 0..2, all media kinds and start types | agreement with the pipeline, contract, order of requests, reports; every seek reported |
| `pipeline` | `MCPipelineImpl` | 2 starts, 3 calls, 2 errors, one time; or 1 start at time 1, 3 calls, times 0..3 | contract, no lost operation or track change; Stop() is a barrier; all answered; media time goes back only by a seek |
| `renderer` | `MCRendererImpl` | audio and video, both tracks change, 5 calls, 1 error; or video only, encrypted, 6 calls, 1 error | buffering known, clock only with audio, video moves with time, end real |
| `renderer_live` | `MCRendererImplLive` | encrypted, audio track changes, 5 calls (one is SetCdm), 1 error | waits for data; everything answered; resumes |
| `decoder` | `MCDecoderStream` | one at a time: 4 buffers, 3 decoders, 2 failures, 2 config changes; encrypted: 3 buffers, 2 decoders, 2 resets, 2 failures, 1 config change; two at a time: 4 buffers, prepared outputs, 1 reset, 2 config changes | outputs in order and complete, end last, decoder contract, errors final, all callbacks run |
| `mse` | `MCChunkDemuxer` | one stream: 4 appends of up to 2 frames at times 0, 2, 4 and on, 1 removal, 1 seek; two streams: 2 appends, 2 seeks, and one each of removal, end, error, removed source, shutdown; room for 4 frames | what is given can be decoded, reads and seeks wait only for data, seeks start where asked, memory is bounded, the code's checks hold |
| `cast` | `MCCastStreaming` | 2 frames of 2 and 1 packets and a picture loss; 2 frames, 2 reports on the way; 3 frames, windows of 2 and 3; 1 fault | nothing needed is given up, loss does not corrupt, all is acknowledged |
| `controller_elided_seek` | `MCPipelineControllerElided` | static media, 5 calls | **violated** `ElisionKeepsData`, see 7 |
| `renderer_stuck` | `MCRendererImplStuck` | as `renderer` with both, no error | **violated** `PlaysWhenReady`, see 7 |
| `renderer_lock` | `MCRendererImplLock` | as `renderer_live` | **violated** `LockIsFree`, see 7 |
| `decoder_false_end` | `MCDecoderStreamFalseEnd` | 2 requests at a time, 1 failure | **violated** `EndIsReal`, see 7 |
| `mse_seeks_back` | `MCChunkDemuxerSeeksBack` | as `mse` | **violated** `NeverSeeksBack`, see 7 |

Why the bounds are enough. *Controller*: an operation under way, one that
cancels it, one pending behind it, one from a callback and a `Start()` are five
calls; three times distinguish the time left, the time asked and zero.
*Pipeline*: two sessions are needed for what survives a `Stop()`; in each, one
operation under way with an error, a stop or another call racing it. *Renderer*:
a start, a rate change and two track changes, or a flush between them, are the
longest sequences its flags remember; two queued tasks let a report wait behind
another child's. *Decoder*: buffers before, in and after a fallback; three
decoders so that a fallback itself falls back; two resets so that one meets what
the other left. *Media Source*: four appends make two ranges, a third that
joins or overwrites them, and one more with the position in what was removed;
room for four frames makes the third append evict; two streams are needed for a
seek that waits for one of them, two seeks for a cancellation before and after
the seek. *Cast*: three frames are a key frame, one that depends on it and, with a
window of two, one beyond the window; with a window of three a later key frame
may overtake all before it, and the receiver start there. One fault anywhere
reaches each branch of the recovery. The
violations in 7 were found within these bounds, which shows that the
interesting cases do happen.

Every property has in `PROJECT.json` a mutant: a defect of one definition under
which the run reports that property violated.

Where a passing run restricts its constants or a property excepts something, it
is because the code does not have the property without: `PlayingHasData`
excludes static media (`controller_elided_seek`); `TimeWaitsForData` and
`EventuallyPlays` need that the video track is not changed (`renderer_stuck`
and 7); `VideoMovesWithTime` is of media without audio; the parallel decoder
has no decode errors (`decoder_false_end`), and decoding one at a time in the
clear no resets (`NothingStale` in 7). `LastRequestObeyed` excludes a
`Resume()` during a track change of a suspended pipeline, `SeekedReportsArrival`
the seeked callback of a start that ends suspended. `OutputIsDecodable` lets a
stream go back to a key frame once the page has removed frames
(`mse_seeks_back`), `SeekWaitsForData` excepts `orphaned`, `ReadsWaitForData`
excepts the step that only makes room, and `LossNeverCorrupts` the successors
of frames that were skipped or not decrypted (`OnlyDecodable` in 7), or that the
receiver held already when the first packet of a key frame set it there: they are
before that key frame and count as decodable from then on (`framer.cc:39`).
`Answered` of `RendererImpl` excepts a track change during which the media
thread hangs (`renderer_lock`), and `EventuallyAcked` a stream whose first key
frame, the one the receiver starts at, it skipped as late (`StartSkipped`; why,
`SkippedForTheNext` in 7 tells).

## 5. Fairness

All fairness is weak fairness of steps that are already due, in a definition
of its own in each module (`AnswersCome`, `CallsReturn`, `ThreadsRun`,
`TasksRun`, `BothEndsRun`).

* `PipelineController`: the pipeline answers (`Answer`, justified by `Answered`
  of `PipelineImpl`) and callbacks return (`Return`). Clients are free.
* `PipelineImpl`: posted tasks run on both threads, `Stop()` wakes when
  signalled, demuxer and renderer answer what the series asked. That the
  renderer ends, breaks or finishes a track change is not assumed.
* `RendererImpl`: posted tasks and the delayed task run; each child's decoder
  initializes, resets, delivers enough data or the end, and the end of what is
  queued is rendered while time progresses. Not assumed: calls, underflows,
  errors, single frames; nor anything of a media thread that hangs.
* `DecoderStream`: selection, initialization, requests, resets, reads,
  preparation and flush outputs are answered: the contracts of the interfaces.
  A decoder need not output before it is flushed. Not assumed: that the client
  reads, or that a decoder succeeds.
* `CastStreaming` (`BothEndsRun`): the timers of both ends fire (`ResendCheck`,
  `SendNextCastMessage`, the wait for the playout time), the pacer sends what it
  has, the client asks for frames, and packets and messages that are not lost
  arrive. Losses are bounded by the `faults` of the stream: without a bound no
  protocol delivers. Not assumed: that frames are encoded. (None of these steps
  comes between the turns of the receiver's loop, which are at most as many as
  there are frames held.)
* `ChunkDemuxer` states no fairness: nothing obliges a page to append. That
  nothing waits without need is said by the safety properties
  `SeekWaitsForData` and `ReadsWaitForData` instead.

## 6. Proofs

`tlapm` (SMT, Zenon, LS4) checks the proof modules, which hold for every value
of the constants that satisfies the assumption named in the module of the
component: `MaxTime`, `MaxCalls`, `MaxTasks`, the bounds in `Setups` and the sizes,
windows and bounds in `Streams` are any natural numbers. So nothing below depends on how many
calls, errors, sessions, frames or faults there are; the runs check the same
formulas on the set-ups of section 4. The assumptions restrict no more than the
type of the constants; TLC evaluates them in the runs.

| module | theorems (what they state) |
|---|---|
| `PipelineControllerProofs` | `TypeCorrect` (`TypeOK`), `AgreementHolds` (`Agreement`), `ContractRespected` (`ContractHolds`, the refinement of `Pipeline`) |
| `PipelineControllerRequestProofs` | `NoSeekLosesItsData` (`PlayingHasData`), `LastRequestWins` (`LastRequestObeyed`), `ReportsAreTrue` (`SeekedReportsArrival`) |
| `PipelineImplProofs` | `TypeCorrect`, `NoOperationIsLost` (`NoLostOperation`), `NoTrackChangeIsLost` (`TrackChangeNotLost`), `CallsAreExpected` (`CallsFindTheirState`), `StopEndsAll` (`StopIsBarrier`), `ImplementsPipeline` (`ContractKept`, the refinement of `Pipeline`), `TimeGoesForward` (`MediaTimeGoesForward`) |
| `RendererImplProofs` | `TypeCorrect`, `ClockRunsWithAudio` (`ClockNeedsAudio`), `BufferingStatesAreKnown` (`BufferingKnown`), `TimeWaits` (`TimeWaitsForData`), `TheEndIsReal` (`EndedIsReal`), `VideoKeepsMoving` (`VideoMovesWithTime`) |
| `DecoderStreamProofs` | `TypeCorrect`; for one request at a time `ContractIsKept` (`DecoderContract`) and `ErrorStays` (`ErrorIsFinal`) |
| `DecoderStreamOrderProofs` | for one request at a time `OutputsAreInOrder` (`InOrder`) and `TheEndIsReal` (`EndIsReal`) |
| `CastStreamingProofs` | `TypeCorrect`, `WantedFramesAreStored` (`StoredUntilReceived`), `LossIsHarmless` (`LossNeverCorrupts`) |
| `TaskQueues` | lemmas on queues for `PipelineImplProofs` and `RendererImplProofs`: what appending a task, taking the first, or cancelling some makes of "has one of these", "has at most one", "these before those" and "this is the last of these" |

None of the properties is inductive by itself. Each component has one inductive
invariant, `IInv`, which `RInv` (the controller's requests), `VideoMoves` (the
renderer's video) and `OrderInv` (the decoder stream's outputs) extend; a lemma
for each action says that the action keeps it, and the theorems follow from it.

**`PipelineController`.** A callback that returns uncovers what is below it on
the call stack. `StackShape` says that there may only be `seeked_cb`,
`suspended_cb` and `resumed_cb` below the top, and that `before_resume_cb` on top
means `RESUMING`: `IInv == TypeOK /\ Agreement /\ StackShape`. `DispatchType`,
`Push` and `DispatchAgrees` show that one pass of `Dispatch()` keeps each part;
for the refinement `DispatchCalls` shows that it makes at most one call, of a
pipeline that is ready for it. `Pipeline` has no fairness, so that `PTL`
concludes.

*Its requests.* `PlayingHasData` and `LastRequestObeyed` speak of the controller
at rest. `RInv` says what holds of it on the way there: where live media has no
data, a seek is under way or pending (`DataKept`); where the requests so far lead
is where the client asked to go (`Headed`); the pipeline is, or is about to be,
suspended or playing as was asked last (`Obeyed`); and either a callback is on the
stack after which `Dispatch()` runs, or nothing is pending that it could begin
(`Dispatched`).

**`PipelineImpl`.** `Typed`; `MediaFits`, what the media thread owns in each of
its states and how far its series has come; `OneOperation`, there is at most one
operation among both queues and the series, and where it is tells the state of
the media thread; `Sessions`, the stages of a `Stop()` and what outlives it; and
while the client has an operation to wait for or is at rest, not failed and not
stopped (`Working`): `Awaited`, what it awaits is what the media thread does,
`Answers`, there is an answer on its way, or an error, and `Clock`, no time still to be
reported is below the one shown. Each step moves the operation from one place to
another; the lemmas `Posted`, `Taken`, `Told` and `Heard` say what posting and
running a task changes, by the lemmas of `TaskQueues`.

**`RendererImpl`.** `IInv` is `Lives` or, after the destructor, `Gone`. `Lives` is
typing, bounds and `Fits`: the clock (`ClockFits`); the order of each child's
tasks (`InTurn`); and for each state of the renderer what its children do then
(`Begins`, `Initializes`, `Rests`, `Plays`, `Flushes`). The heart of it is
`Known`: the *last* report of a child in the queue, or if there is none the one
handled last, is its buffering state, the deferral of a video underflow apart.
After an error `Fits` requires the clock and the type only, as in the code
nothing else is kept. Since the handlers are operators from state to state, the
proof is about them and not about actions: `BufferingFits`, `FlushOver`,
`ChangeGoesOn` and others say that a handler leads from a state that fits to one
that does. `EndedIsReal` is an action property: the lemmas named `...Count`
follow `client.ended` through every handler and show that only
`RunEndedCallbackIfNeeded()` raises it, in a state whose ends are real by `EndFits`.

*The video.* `VideoMovesWithTime` speaks of a renderer at rest and says nothing of
how it gets there. `VideoMoves` does: with time going on and no audio, a video
renderer that has enough has started its sink, or is over, or RendererImpl
believes (`r.buffering_state`), or a report on its way says, that it has nothing
(`Sinks`). Then the HAVE_ENOUGH that follows ends a wait and `StartPlayback()`
starts the sink, which needs frames (`Framed`) and that no track change is
pending: one that is finds the video renderer empty until it plays again
(`Emptied`). By `Known` the last two cases are over when the queue is empty. The
lemmas named `...Moves` take `VideoMoves` through every handler beside `IInv`.

**`DecoderStream`.** `Fits`: the requests are counted (`Counts`); a read is pending
where the members say so and never while the decoder is flushed (`Reading`); a
`Reset()` has cleared the outputs, and resets first the DecryptingDemuxerStream,
then the decoder, neither while the decoder is replaced (`Resetting`); while one
is selected or initialized there are no requests, and a read still pending is
of a decoder that has put out nothing (`Selecting`); and there is a decoder
wherever one is called (`HasDecoder`). For one request at a time `OneByOne` adds
that a read is pending only when the decoder has no request and nothing is left
to be decoded again. That is what fails with two: a fallback then meets a read,
and the contract and the finality of errors are broken (section 7, and the
table below it). `setup.requests = 1` is therefore a hypothesis of every theorem
but `TypeCorrect`; it is the default of `GetMaxDecodeRequests()`. Handlers are operators from state to
state, so that the proof has a lemma for each operator and one for each action.

*Its outputs.* `InOrder` and `EndIsReal` speak of what the client has; `OrderInv`
says where everything else is. `Data` collects the places a buffer can be in:
with the client, ready, being prepared, held by the decoder, kept to be decoded
again, still with the demuxer. `Sound` of it is that the queues rise, each
precedes the next and all precede the demuxer's next buffer (`Ordered`); that
what was given to a decoder that has put out nothing is kept, and is forgotten
with its first output (`Keeps`); that the end of the stream is decoded last
(`EndsLast`); and that the client waits only for what is not there (`Waits`).
`Full` is that nothing is lost: what is put out has no gap (`NoGap`), all that
the demuxer has handed out is put out or to come (`AllThere`), and the end is
told when all has been given (`AllGiven`). `Full` cannot hold after a decoder
failed in the flush before a config change; `Cautious`, no flush without a change,
shows that `Lossless` excludes that. `OrderInv` adds `IInv`, as only that tells
when a handler runs. The proof has two layers: what may happen to the buffers
(given, decoded, prepared, kept, decoded again) as lemmas about `Data`, and for each
handler that it is made of these (`Goes`). A failure in a flush keeps `Sound`
only, and is a case of its own.

**`CastStreaming`.** `SenderBooks`, the sender stores exactly what is not
acknowledged and not superseded; `NetworkBooks`, what is on the network was sent;
`ReceiverBooks`, the receiver holds what was sent and not yet acknowledged;
`Order`, it has emitted in order and stands where it has released a frame or
where it started. The frames are numbers, so that "the oldest decodable frame"
needs a least element (`LeastNatural`, from the well-foundedness of `<`).

A few leaves carry a longer time limit (`ZenonT(60)`, `SMTT(30)`): they instantiate many
conjuncts, or update records of many fields.

Only model-checked:

* Liveness (`SeekIsAnswered`, `Answered`, `EventuallyPlays`, `EventuallyAcked`): it
  needs `ENABLED`, which this prover does not support.
* `ChunkDemuxer` and `SourceBufferStream`, whose surgery of ranges is recursive
  over data.
* `DecoderStream` with two requests at a time: `InOrder`, `EndIsReal`,
  `DecoderContract` and `ErrorIsFinal` are checked without failures (the third set-up of `decoder`);
  with them they are not all true, see section 7.

## 7. Where code and comments disagree

Five have a run of their own and are the `findings` of `PROJECT.json`:

* `controller_elided_seek`: `Seek(t1)`, `Seek(t2)`, `Seek(t1)` on static media.
  The second tells the demuxer to give the first up, the third is elided
  because `seek_time_` is still `t1` (`pipeline_controller.cc:79`).
* `renderer_stuck`: a video underflow deferred during an audio track change
  leaves `video_buffering_state_` at HAVE_ENOUGH; after a video track change
  both renderers have enough and the clock is never started again
  (`renderer_impl.cc:702`).
* `decoder_false_end`: a fallback while the end of the stream is being decoded
  leaves `decoding_eos_` set, and the first buffer decoded again is taken for
  the end (`decoder_stream.cc:526`).
* `mse_seeks_back`: a stream that lost its position finds a later key frame,
  and then seeks in the first range within the fudge room of that key frame's
  time. If a removal has left a gap of one frame, that is the range before the
  gap, and the stream gives again what it has given
  (`source_buffer_stream.cc:2101`).
* `renderer_lock`: `DecodedAudioReady()` holds `lock_` while it handles a decode
  error, and in `kFlushing` runs `flush_cb_` there and then
  (`audio_renderer_impl.cc:1105`); only `ResetDecoderDone()` posts it. For an
  audio track change the callback leads to `StartPlaying()`, which waits for the
  lock that its own thread holds (`:332`), or to `Initialize()`, whose
  `CHECK(lock_.Try())` fails (`:365`). The track change is never answered.

Others were met while modelling. The modules state what the source says; TLC
refutes each on the set-up named.

| property | module | refuted on | what the code does |
|---|---|---|---|
| `TimeUpdateReported` | `PipelineController` | `controller` | the rewind of a stream on resume sets `pending_time_updated_` only; nothing runs `seeked_cb_` (`pipeline_controller.cc:206`) |
| `SeekedOnlyOnArrival` | `PipelineController` | `controller` | a start that ends suspended reports a seek that is still pending (`:287`) |
| `ResumeNeverIgnored` | `PipelineController` | `controller` | Resume() during a track change of a suspended pipeline is dropped (`:103`) |
| `SuspendTimeOnlyIfSuspended` | `PipelineImpl` | `pipeline` | `suspend_timestamp` survives Stop() (`pipeline_impl.cc:296`) |
| `StartsUnended` | `PipelineImpl` | `pipeline` | `renderer_ended_` survives Stop(): DCHECK at `:241` |
| `EndsWithoutError` | `PipelineImpl` | `pipeline` | after an error the renderer may still end: DCHECK at `:808` |
| `DeferredUnderflowCleared` | `RendererImpl` | `renderer` | a flush finds the deferral pending: DCHECK at `renderer_impl.cc:512` |
| `RestartGuardsError` | `RendererImpl` | `renderer` | a restart proceeds in STATE_ERROR (`:620`) |
| `EndedReportedOnce` | `RendererImpl` | `renderer` | for video, `audio_ended_` is tested (`:850`) |
| `AudioUnderflowTold` | `RendererImpl` | `renderer` | an audio underflow during a video track change is kept quiet (`:746`) |
| `VideoMovesWithTime`, of media with audio | `RendererImpl` | `renderer` | rate 0 and back during a deferred underflow leaves the sink stopped |
| `OnlyDecodable` | `CastStreaming` | `cast` | a frame skipped because it is late counts as released, and the frame after it, which refers to it, is emitted as the next one (`frame_receiver.cc:230`, `framer.cc:126`); `framer.h:46` promises "a complete and decodable frame" |
| `SkippedForTheNext` | `CastStreaming` | `cast` | frames 2 (dependent) and 3 (key) overtake key frame 1: the framer starts at 3 and sets the last released frame to 2 (`framer.cc:39`), which it holds and now counts as decodable, so that 3 may be skipped as late (`frame_receiver.cc:229`), and 2 goes with it. Nothing is acknowledged, and what comes of the frames sent so far is too old: with its window full, the sender waits for ever |
| `NothingStale` | `DecoderStream` | `WithResets`, not encrypted | Reset() during a fallback keeps the old buffers (`decoder_stream.cc:850`) |
| `DecoderContract` | `DecoderStream` | `decoder_false_end` | a read pending since before a fallback overfills the decoder: DCHECK at `:447` |
| `PreparedInTime` | `DecoderStream` | `Parallel` | no decoder after a config change, an output still being prepared |
| `ErrorIsFinal` | `DecoderStream` | `WithResets`, two requests at a time | Reset() in error with a read pending ends in STATE_NORMAL (`:250`) |

In the Media Source demuxer, seen in the model, without a property of their own:

* An append of frames that no range takes (they follow a removed key frame)
  returns early and clears `deleted_buffers` (`source_buffer_stream.cc:405`):
  when it has overwritten the frames at the play position and nothing has been
  given yet, the position is lost. `Remove()` seeks again in the same case, as
  its comment at line 537 says, "to prevent stall".
* `RemoveId()` does not run `seek_cb_` when the source it removes was the last
  one waited for (`chunk_demuxer.cc:722`); the seek ends with the next append,
  the end of the stream or a cancellation (`orphaned`).
* A removal inside the last frame of a range may split it with nothing removed
  between the two parts. The reader stops at the end of the first although the
  time is buffered without a gap; a later garbage collection may join them again
  and does not complete the pending read.

## 8. What is not modelled

* Real time, media data, codecs, parsers, hardware and platform APIs: data and
  external behaviour without control that a model of this size would show.
* `ReportMetadata()` writes `suspend_timestamp` without the lock the comment at
  `base/pipeline_impl.cc:83` asks for (`:983`). `GetMediaTime()` may read it
  during a start. The model has the value before and after; a torn read, on a
  32-bit build, it has not.
* `received_config_change_during_reinit_` is never reset in the code, and the
  model keeps that. When no decoder is left, `Reset()` may call a null
  `decoder_` (the case of `ErrorIsFinal` above); the model enters the state and
  does not crash.
* Of the Media Source demuxer: initialization, `FrameProcessor` (timestamps,
  append window), durations, config changes, audio splices and preroll, text and
  disabled tracks, garbage collection under memory pressure (off by default),
  buffering by presentation time (off by default), suspension of the player.
* Of casting: encoders, congestion control, the arithmetic of RTCP times and of
  truncated frame ids, audio. The pacer's refusal to resend what it has just
  sent appears as a loss.
* Renderer, decoder stream and pipeline are not composed with one another: each
  is checked against the contract of its neighbour. Point 7 of the plan begins
  with the top of the stack.
* Components that are planned, and those that will not be modelled, are listed
  in `PROJECT.json` with the reason.
