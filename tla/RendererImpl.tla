----------------------------- MODULE RendererImpl -----------------------------
(***************************************************************************)
(* media::RendererImpl (renderers/renderer_impl.cc): plays the streams of a *)
(* MediaResource in step, through an audio renderer and a video renderer     *)
(* that share one clock.  It lives on the media thread.  Its renderers work  *)
(* asynchronously: what they report (buffering states, ended, errors, the    *)
(* end of an initialization or of a flush) is posted to the same thread,     *)
(* `tasks', and may be overtaken by what the client or the other renderer    *)
(* does meanwhile.                                                           *)
(*                                                                          *)
(* `child' is what RendererImpl can tell of AudioRendererImpl and            *)
(* VideoRendererImpl: their state machines, their own buffering states and   *)
(* the posted notifications, with the decoded data abstracted to whether     *)
(* there are frames and whether the end of stream has been received.         *)
(*                                                                          *)
(* The client is PipelineImpl driven by PipelineController: one operation at *)
(* a time.  Media times, volume, statistics and the switches for tests are   *)
(* left out.                                                                 *)
(***************************************************************************)
EXTENDS Integers, Sequences, FiniteSetsExt

CONSTANTS
  Setups,       \* the media and bounds that are tried, of type Setup
  MaxTasks      \* bound on the tasks that may be waiting when a renderer posts

Types == {"audio", "video"}

(* streams: the types that have a stream.  encrypted: HasEncryptedStream().  *)
(* changing: the types whose track the client changes.  The others bound the *)
(* calls of the client after Initialize() and the errors of the renderers.   *)
Setup == [ streams : (SUBSET Types) \ {{}}, encrypted : BOOLEAN,
           changing : SUBSET Types, calls : Nat, errors : Nat ]

ASSUME RendererAssumption ==
  /\ \A choice \in Setups : choice \in Setup /\ choice.changing \subseteq choice.streams
  /\ MaxTasks \in Nat

VARIABLES
  setup,    \* one of Setups
  r,        \* members of RendererImpl
  child,    \* the audio renderer and the video renderer
  tasks,    \* tasks posted to the media thread
  client,   \* what the client awaits and has been told
  spent     \* what has been used of the bounds

vars == <<r, child, tasks, client, spent>>

(* has: audio_renderer_, video_renderer_ are set.  deferred:                 *)
(* deferred_video_underflow_cb_ is cancelled, waits for its time or has run. *)
Buffering == {"HAVE_NOTHING", "HAVE_ENOUGH"}
Members ==
  [ state : {"UNINITIALIZED", "INIT_PENDING_CDM", "INITIALIZING", "FLUSHED",
             "PLAYING", "FLUSHING", "ERROR", "destroyed"},
    init_cb : BOOLEAN, flush_cb : BOOLEAN, cdm_context : BOOLEAN,
    has             : [Types -> BOOLEAN],
    buffering_state : [Types -> Buffering],
    ended           : [Types -> BOOLEAN],
    playing         : [Types -> BOOLEAN],
    pending_track_change : [Types -> BOOLEAN],
    time_ticking    : BOOLEAN,
    playback_rate   : {0, 1},
    deferred        : {"cancelled", "waiting", "run"} ]

(* hung: the media thread is in the renderer and wants lock_, which it has   *)
(* taken itself further up its stack.                                        *)
(* then: what the callback of Initialize() or Flush() does.  eos, ended:     *)
(* received_ and rendered_end_of_stream_.  progressing, sink, frames:        *)
(* time_progressing_, sink_started_ and frames_queued() of the video         *)
(* renderer (the sink of the audio renderer plays when time ticks).          *)
Child ==
  [ state : {"none", "kUninitialized", "kInitializing", "kFlushing", "kFlushed",
             "kPlaying", "hung"},
    then  : {"InitializeDone", "FlushDone", "Restart", "Reinitialize"},
    buffering_state : Buffering,
    eos : BOOLEAN, ended : BOOLEAN,
    progressing : BOOLEAN, sink : BOOLEAN, frames : BOOLEAN ]

Task(f, t, arg) == [f |-> f, type |-> t, arg |-> arg]
Tasks ==
  [f : {"BufferingStateChange"}, type : Types, arg : Buffering]
  \cup [f : {"InitializeDone", "Reinitialized"}, type : Types, arg : {"ok", "error"}]
  \cup [f : {"Ended", "Error", "Flushed", "HaveNothing", "Cancelled"}, type : Types,
           arg : {"none"}]
  \cup [f : {"ClientFlushed"}, type : {"video"}, arg : {"none"}]

(* op: the operation whose completion the client awaits, or where it is.     *)
(* told: the last buffering state it was told.  ended: how often OnEnded()   *)
(* has run since it started the renderer.  error: it was told of an error.   *)
Client ==
  [ op : {"created", "initializing", "failed", "flushed", "started", "flushing",
          "changing", "gone"},
    told : Buffering, ended : 0 .. 2, error : BOOLEAN ]

TypeOK ==
  /\ r \in Members
  /\ child \in [Types -> Child]
  /\ tasks \in Seq(Tasks)
  /\ client \in Client
  /\ spent \in [calls : 0 .. setup.calls, errors : 0 .. setup.errors]

NewChild ==
  [ state |-> "kUninitialized", then |-> "InitializeDone",
    buffering_state |-> "HAVE_NOTHING", eos |-> FALSE, ended |-> FALSE,
    progressing |-> FALSE, sink |-> FALSE, frames |-> FALSE ]

Init ==
  /\ setup \in Setups
  /\ r = [ state |-> "UNINITIALIZED", init_cb |-> FALSE, flush_cb |-> FALSE,
           cdm_context |-> FALSE,
           has |-> [t \in Types |-> TRUE],
           buffering_state |-> [t \in Types |-> "HAVE_NOTHING"],
           ended |-> [t \in Types |-> FALSE],
           playing |-> [t \in Types |-> FALSE],
           pending_track_change |-> [t \in Types |-> FALSE],
           time_ticking |-> FALSE, playback_rate |-> 0,
           deferred |-> "cancelled" ]
  /\ child = [t \in Types |-> NewChild]
  /\ tasks = << >>
  /\ client = [op |-> "created", told |-> "HAVE_NOTHING", ended |-> 0, error |-> FALSE]
  /\ spent = [calls |-> 0, errors |-> 0]

(* A handler maps the state it finds to the state it leaves.                 *)
Now == [r |-> r, child |-> child, tasks |-> tasks, client |-> client]
Become(s) == r' = s.r /\ child' = s.child /\ tasks' = s.tasks /\ client' = s.client

Post(s, task) == [s EXCEPT !.tasks = Append(@, task)]

(**************************************************************************)
(*                      The clock and the two renderers                     *)
(**************************************************************************)

(* Defect: One renderer with enough data suffices to play. *)
WaitingForEnoughData_All(s) ==
  /\ s.r.state = "PLAYING"
  /\ \A t \in Types : s.r.has[t] => s.r.buffering_state[t] # "HAVE_ENOUGH"

WaitingForEnoughData(s) ==
  /\ s.r.state = "PLAYING"
  /\ \E t \in Types : s.r.has[t] /\ s.r.buffering_state[t] # "HAVE_ENOUGH"

PlaybackHasEnded(s) == \A t \in Types : s.r.has[t] => s.r.ended[t]

(* VideoRendererImpl::OnTimeProgressing(), OnTimeStopped().  The frames left *)
(* when it has underflowed are dropped with the sink.                        *)
OnTimeProgressing(s) ==
  [s EXCEPT !.child["video"].progressing = TRUE,
            !.child["video"].sink = @ \/ (/\ ~s.child["video"].ended
                                         /\ s.child["video"].frames)]

OnTimeStopped(s) ==
  [s EXCEPT !.child["video"].progressing = FALSE,
            !.child["video"].sink = FALSE,
            !.child["video"].frames =
               @ /\ ~(/\ s.child["video"].sink
                      /\ s.child["video"].buffering_state = "HAVE_NOTHING")]

PausePlayback(s) ==
  LET stopped == [s EXCEPT !.r.time_ticking = FALSE]
  IN  IF s.r.playback_rate > 0 /\ s.r.has["video"] THEN OnTimeStopped(stopped)
                                                   ELSE stopped

(* Defect: The video is told that time progresses only when the clock starts. *)
StartPlayback_OnlyFromRest(s) ==
  LET ticking == [s EXCEPT !.r.time_ticking = TRUE, !.r.playing["audio"] = TRUE]
  IN  IF s.r.time_ticking THEN s
      ELSE IF s.r.playback_rate > 0 /\ s.r.has["video"]
      THEN OnTimeProgressing([ticking EXCEPT !.r.playing["video"] = TRUE])
      ELSE ticking

StartPlayback(s) ==
  LET ticking == IF s.r.time_ticking THEN s
                 ELSE [s EXCEPT !.r.time_ticking = TRUE, !.r.playing["audio"] = TRUE]
  IN  IF s.r.playback_rate > 0 /\ s.r.has["video"]
      THEN OnTimeProgressing([ticking EXCEPT !.r.playing["video"] = TRUE])
      ELSE ticking

(* AudioRendererImpl::StartPlaying(), VideoRendererImpl::StartPlayingFrom(). *)
StartChild(s, t) == [s EXCEPT !.child[t].state = "kPlaying"]

(* AudioRendererImpl::Flush() only marks the renderer, VideoRendererImpl's   *)
(* stops the sink and drops what it has at once.                             *)
FlushChild(s, t, then) ==
  LET flushing == [s EXCEPT !.child[t] = [@ EXCEPT !.state = "kFlushing", !.then = then]]
      emptied  == [flushing EXCEPT !.child[t] =
                     [@ EXCEPT !.buffering_state = "HAVE_NOTHING", !.eos = FALSE,
                               !.ended = FALSE, !.sink = FALSE, !.frames = FALSE]]
  IN  IF t = "audio" THEN flushing
      ELSE IF s.child[t].buffering_state = "HAVE_NOTHING" THEN emptied
      ELSE Post(emptied, Task("BufferingStateChange", t, "HAVE_NOTHING"))

InitializeChild(s, t, then) ==
  [s EXCEPT !.child[t] = [@ EXCEPT !.state = "kInitializing", !.then = then]]

(* What the renderer has posted itself is bound to it and does nothing when  *)
(* it is gone.                                                               *)
OwnTasks(t) == {task \in Tasks : task.type = t /\ task.f \notin
                  {"InitializeDone", "Reinitialized", "Flushed", "ClientFlushed"}}

DestroyChild(s, t) ==
  [s EXCEPT !.child[t] = [NewChild EXCEPT !.state = "none"],
            !.r.has[t] = FALSE,
            !.tasks = [i \in DOMAIN @ |-> IF @[i] \in OwnTasks(t)
                                            THEN Task("Cancelled", t, "none") ELSE @[i]]]

(**************************************************************************)
(*                            Initialization                                *)
(**************************************************************************)
FinishInitialization(s, status) ==
  [s EXCEPT !.r.init_cb = FALSE,
            !.client.op = IF status = "ok" THEN "flushed" ELSE "failed",
            !.client.error = @ \/ status # "ok"]

(* InitializeAudioRenderer(), InitializeVideoRenderer().                     *)
InitializeRenderer(s, t) ==
  IF t \in setup.streams THEN InitializeChild(s, t, "InitializeDone")
  ELSE Post(DestroyChild(s, t), Task("InitializeDone", t, "ok"))

Begin(s) == InitializeRenderer([s EXCEPT !.r.state = "INITIALIZING"], "audio")

Initialize ==
  /\ r.state = "UNINITIALIZED"
  /\ LET s == [Now EXCEPT !.r.init_cb = TRUE, !.client.op = "initializing"]
     IN  IF setup.encrypted /\ ~r.cdm_context
         THEN Become([s EXCEPT !.r.state = "INIT_PENDING_CDM"])
         ELSE Become(Begin(s))
  /\ UNCHANGED spent

SetCdm ==
  /\ r.state # "destroyed" /\ ~r.cdm_context
  /\ LET s == [Now EXCEPT !.r.cdm_context = TRUE]
     IN  IF r.state = "INIT_PENDING_CDM" THEN Become(Begin(s)) ELSE Become(s)
  /\ UNCHANGED spent

OnAudioRendererInitializeDone(s, status) ==
  IF s.r.state # "INITIALIZING" THEN DestroyChild(s, "audio")
  ELSE IF status # "ok" THEN FinishInitialization(s, status)
  ELSE InitializeRenderer(s, "video")

OnVideoRendererInitializeDone(s, status) ==
  IF s.r.state # "INITIALIZING" THEN DestroyChild(DestroyChild(s, "audio"), "video")
  ELSE IF status # "ok" THEN FinishInitialization(s, status)
  ELSE FinishInitialization([s EXCEPT !.r.state = "FLUSHED"], "ok")

(**************************************************************************)
(*                         Errors and the end                               *)
(**************************************************************************)
FinishFlush(s) == [s EXCEPT !.r.flush_cb = FALSE, !.client.op = "flushed"]

OnError(s) ==
  LET failed == [s EXCEPT !.r.state = "ERROR"]
      told   == [failed EXCEPT !.client.error = TRUE]
  IN  IF s.r.state = "ERROR" THEN s
      ELSE IF s.r.init_cb THEN FinishInitialization(failed, "error")
      ELSE IF s.r.flush_cb THEN FinishFlush(told)
      ELSE told

Twice(n) == IF n < 2 THEN n + 1 ELSE n

RunEndedCallbackIfNeeded(s) ==
  IF ~PlaybackHasEnded(s) THEN s
  ELSE [(IF s.r.time_ticking THEN PausePlayback(s) ELSE s)
          EXCEPT !.client.ended = Twice(@)]

OnRendererEnded(s, t) ==
  LET ended == [s EXCEPT !.r.ended[t] = TRUE]
  IN  IF s.r.state # "PLAYING" \/ (s.r.ended["audio"] /\ PlaybackHasEnded(s)) THEN s
      ELSE RunEndedCallbackIfNeeded(IF t = "audio" THEN ended ELSE OnTimeStopped(ended))

(**************************************************************************)
(*                     Flushing and changing tracks                         *)
(**************************************************************************)

OnVideoRendererFlushDone(s) ==
  IF s.r.state = "ERROR" THEN s
  ELSE FinishFlush([s EXCEPT !.r.ended["video"] = FALSE, !.r.playing["video"] = FALSE,
                             !.r.state = "FLUSHED"])

FlushVideoRenderer(s) ==
  IF s.r.has["video"] /\ s.r.playing["video"] THEN FlushChild(s, "video", "FlushDone")
                                              ELSE OnVideoRendererFlushDone(s)

OnAudioRendererFlushDone(s) ==
  IF s.r.state = "ERROR" THEN s
  ELSE FlushVideoRenderer([s EXCEPT !.r.ended["audio"] = FALSE,
                                    !.r.playing["audio"] = FALSE])

FlushInternal(s) ==
  LET paused == IF s.r.time_ticking THEN PausePlayback(s) ELSE s
  IN  IF s.r.has["audio"] /\ s.r.playing["audio"] THEN FlushChild(paused, "audio", "FlushDone")
                                                  ELSE OnAudioRendererFlushDone(paused)

ChangeCompleted(s) == [s EXCEPT !.client.op = "started"]

(* Defect: The restart of a renderer leaves its track change pending. *)
RestartRenderer_KeepsPending(s, t) ==
  ChangeCompleted(IF s.r.state = "FLUSHED" THEN s
                  ELSE StartChild([s EXCEPT !.r.playing[t] = TRUE], t))

(* RestartAudioRenderer(), RestartVideoRenderer().                           *)
RestartRenderer(s, t) ==
  ChangeCompleted(
    IF s.r.state = "FLUSHED" THEN s
    ELSE StartChild([s EXCEPT !.r.playing[t] = TRUE,
                              !.r.pending_track_change[t] = FALSE], t))

ReinitializeRenderer(s, t) ==
  InitializeChild(IF t = "audio" THEN s ELSE OnTimeStopped(s), t, "Reinitialize")

(* Defect: A track change that fails is not answered. *)
OnRendererReinitialized_Silent(s, t, status) ==
  IF status = "ok" THEN RestartRenderer(s, t) ELSE OnError(s)

OnRendererReinitialized(s, t, status) ==
  IF status = "ok" THEN RestartRenderer(s, t) ELSE OnError(ChangeCompleted(s))

(* Defect: A stream that had ended stays so after its track has been changed. *)
CleanUpTrackChange_KeepsEnded(s, t) == [s EXCEPT !.r.playing[t] = FALSE]

CleanUpTrackChange(s, t) ==
  LET alive == \E u \in Types : s.r.has[u] /\ ~s.r.ended[u]
  IN  [s EXCEPT !.r.playing[t] = FALSE, !.r.ended[t] = @ /\ ~alive]

(* The callback handed to the Flush() of a renderer.                         *)
OnChildFlushed(s, t) ==
  LET then == s.child[t].then
  IN  IF then = "FlushDone"
      THEN IF t = "audio" THEN OnAudioRendererFlushDone(s) ELSE OnVideoRendererFlushDone(s)
      ELSE IF then = "Restart" THEN RestartRenderer(CleanUpTrackChange(s, t), t)
      ELSE ReinitializeRenderer(CleanUpTrackChange(s, t), t)

(* OnSelectedVideoTracksChanged(), OnEnabledAudioTracksChanged(): to no      *)
(* track, the current one or another one.                                    *)
TracksChanged(s, t, track) ==
  LET pending == [s EXCEPT !.r.pending_track_change[t] = TRUE, !.client.op = "changing"]
      paused  == IF t = "audio" /\ s.r.playing[t] THEN PausePlayback(pending) ELSE pending
  IN  IF track = "none" /\ ~s.r.playing[t] THEN s
      ELSE FlushChild(paused, t, IF track = "other" THEN "Reinitialize" ELSE "Restart")

(**************************************************************************)
(*                              Buffering                                   *)
(**************************************************************************)
Tell(s, buffering) == [s EXCEPT !.client.told = buffering]

AwaitsVideo(s, t) == s.r.has["audio"] /\ t = "video" /\ s.r.state = "PLAYING"

DefersUnderflow(s, t, new) ==
  /\ AwaitsVideo(s, t) /\ new = "HAVE_NOTHING" /\ s.r.deferred = "cancelled"
  /\ \A u \in Types : s.r.buffering_state[u] = "HAVE_ENOUGH"

(* Defect: A HAVE_ENOUGH of the video does not cancel the deferred underflow. *)
CancelDeferred_AudioOnly(s, t, new) ==
  IF s.r.deferred # "cancelled" /\ t = "audio" /\ new = "HAVE_NOTHING"
  THEN [s EXCEPT !.r.deferred = "cancelled", !.r.buffering_state["video"] = "HAVE_NOTHING"]
  ELSE s

(* What becomes of an underflow of the video deferred before.                *)
CancelDeferred(s, t, new) ==
  IF AwaitsVideo(s, t) THEN [s EXCEPT !.r.deferred = "cancelled"]
  ELSE IF s.r.deferred # "cancelled" /\ t = "audio" /\ new = "HAVE_NOTHING"
  THEN [s EXCEPT !.r.deferred = "cancelled", !.r.buffering_state["video"] = "HAVE_NOTHING"]
  ELSE s

(* Defect: A preroll in the middle of a track change starts the playback. *)
OnBufferingStateChange_StartsAnyway(s, t, new) ==
  LET set(w)  == [w EXCEPT !.r.buffering_state[t] = new]
      now     == set(CancelDeferred(s, t, new))
      waited  == WaitingForEnoughData(s)
      waiting == WaitingForEnoughData(now)
  IN  IF new = "HAVE_NOTHING" /\ s.r.pending_track_change[t] THEN set(s)
      ELSE IF DefersUnderflow(s, t, new) THEN [s EXCEPT !.r.deferred = "waiting"]
      ELSE IF ~waited /\ waiting THEN Tell(PausePlayback(now), "HAVE_NOTHING")
      ELSE IF waited /\ ~waiting THEN Tell(StartPlayback(now), "HAVE_ENOUGH")
      ELSE now

OnBufferingStateChange(s, t, new) ==
  LET set(w)  == [w EXCEPT !.r.buffering_state[t] = new]
      now     == set(CancelDeferred(s, t, new))
      waited  == WaitingForEnoughData(s)
      waiting == WaitingForEnoughData(now)
  IN  IF new = "HAVE_NOTHING" /\ s.r.pending_track_change[t] THEN set(s)
      ELSE IF DefersUnderflow(s, t, new) THEN [s EXCEPT !.r.deferred = "waiting"]
      ELSE IF ~waited /\ waiting THEN Tell(PausePlayback(now), "HAVE_NOTHING")
      ELSE IF waited /\ ~waiting /\ \A u \in Types : ~s.r.pending_track_change[u]
      THEN Tell(StartPlayback(now), "HAVE_ENOUGH")
      ELSE now

(* video_underflow_threshold_ has passed.                                    *)
DeferredUnderflow ==
  /\ r.deferred = "waiting"
  /\ Become(OnBufferingStateChange([Now EXCEPT !.r.deferred = "run"],
                                   "video", "HAVE_NOTHING"))
  /\ UNCHANGED spent

(**************************************************************************)
(*                        The calls of the client                           *)
(**************************************************************************)
Spend(what) == spent[what] < setup[what] /\ spent' = [spent EXCEPT ![what] = @ + 1]

MayCall(op) == client.op = op /\ Spend("calls")

StartPlayingFrom ==
  /\ MayCall("flushed")
  /\ LET started == [Now EXCEPT !.client.op = "started", !.client.ended = 0]
         played  == [started EXCEPT !.r.state = "PLAYING",
                      !.r.playing = [t \in Types |-> @[t] \/ r.has[t]],
                      !.child = [t \in Types |->
                                   IF r.has[t] THEN [@[t] EXCEPT !.state = "kPlaying"]
                                               ELSE @[t]]]
     IN  Become(IF r.state = "FLUSHED" THEN played ELSE started)

Flush ==
  /\ MayCall("started") \/ MayCall("flushed")
  /\ LET s == [Now EXCEPT !.client.op = "flushing"]
     IN  CASE r.state = "FLUSHED" ->
                Become(Post([s EXCEPT !.r.flush_cb = TRUE],
                            Task("ClientFlushed", "video", "none")))
           [] r.state = "PLAYING" ->
                Become(FlushInternal([s EXCEPT !.r.flush_cb = TRUE, !.r.state = "FLUSHING"]))
           [] OTHER -> Become(s)

SetPlaybackRate(rate) ==
  /\ client.op \in {"flushed", "started", "changing"} /\ Spend("calls")
  /\ rate # r.playback_rate /\ r.state \in {"PLAYING", "FLUSHED"}
  /\ LET s == [Now EXCEPT !.r.playback_rate = rate]
     IN  Become(IF ~r.time_ticking \/ ~r.has["video"] THEN s
                ELSE IF rate > 0 THEN OnTimeProgressing(s) ELSE OnTimeStopped(s))

(* The client may not yet know of an error when it changes tracks, but never *)
(* does so once it has been told.                                            *)
ChangeTracks(t, track) ==
  /\ MayCall("started") /\ ~client.error
  /\ Become(TracksChanged(Now, t, track))

(* ~RendererImpl(). *)
Destroy ==
  /\ client.op \notin {"created", "gone"} /\ Spend("calls")
  /\ r' = [r EXCEPT !.state = "destroyed", !.init_cb = FALSE, !.flush_cb = FALSE,
                    !.has = [t \in Types |-> FALSE], !.time_ticking = FALSE,
                    !.deferred = "cancelled"]
  /\ child' = [t \in Types |-> [NewChild EXCEPT !.state = "none"]]
  /\ tasks' = << >>
  /\ client' = [client EXCEPT !.op = "gone"]

(**************************************************************************)
(*                     What the two renderers do                            *)
(**************************************************************************)
CanPost == Len(tasks) < MaxTasks

Is(t, state) == child[t].state = state

(* Defect: The status of the decoder is not handed on. *)
DecoderInitialized_NoStatus(t, status) ==
  /\ Is(t, "kInitializing")
  /\ status = "error" => Spend("errors")
  /\ status = "ok" => UNCHANGED spent
  /\ LET f == IF child[t].then = "InitializeDone" THEN "InitializeDone" ELSE "Reinitialized"
     IN  Become(Post([Now EXCEPT !.child[t].state = "kFlushed"], Task(f, t, "none")))

DecoderInitialized(t, status) ==
  /\ Is(t, "kInitializing")
  /\ status = "error" => Spend("errors")
  /\ status = "ok" => UNCHANGED spent
  /\ LET f == IF child[t].then = "InitializeDone" THEN "InitializeDone" ELSE "Reinitialized"
     IN  Become(Post([Now EXCEPT !.child[t].state =
                        IF status = "ok" THEN "kFlushed" ELSE "kUninitialized"],
                     Task(f, t, status)))

(* The clock moves and asks this renderer for data.                          *)
Rendering(t) ==
  IF t = "audio" THEN r.time_ticking /\ r.playback_rate > 0 ELSE child[t].sink

(* DecodedAudioReady(), FrameReady(): a frame that is not enough, ...        *)
FrameArrives ==
  /\ Is("video", "kPlaying")
  /\ child["video"].buffering_state = "HAVE_NOTHING" /\ ~child["video"].frames
  /\ Become([Now EXCEPT !.child["video"].frames = TRUE])
  /\ UNCHANGED spent

(* ... one that is, or the end of the stream.  A video renderer left without *)
(* frames by the end of the stream reports that it has ended first.          *)
Enough(t, eos) ==
  /\ Is(t, "kPlaying") /\ child[t].buffering_state = "HAVE_NOTHING" /\ CanPost
  /\ LET over   == t = "video" /\ eos /\ ~child[t].frames
         filled == [Now EXCEPT !.child[t] =
                      [@ EXCEPT !.buffering_state = "HAVE_ENOUGH", !.eos = eos,
                                !.ended = over,
                                !.frames = t = "video" /\ (child[t].frames \/ ~eos)]]
         done   == IF over THEN Post(filled, Task("Ended", t, "none")) ELSE filled
     IN  Become(Post(done, Task("BufferingStateChange", t, "HAVE_ENOUGH")))
  /\ UNCHANGED spent

EndOfStream(t) ==
  /\ Is(t, "kPlaying") /\ child[t].buffering_state = "HAVE_ENOUGH" /\ ~child[t].eos
  /\ Become([Now EXCEPT !.child[t].eos = TRUE])
  /\ UNCHANGED spent

(* Render(): all that there was has been played.                             *)
RendersTheEnd(t) ==
  /\ Is(t, "kPlaying") /\ Rendering(t) /\ child[t].eos /\ ~child[t].ended /\ CanPost
  /\ Become(Post([Now EXCEPT !.child[t].ended = TRUE], Task("Ended", t, "none")))
  /\ UNCHANGED spent

(* Render() finds nothing to play.  The video renderer posts the change to   *)
(* itself.                                                                   *)
Underflows(t) ==
  /\ Is(t, "kPlaying") /\ Rendering(t) /\ CanPost
  /\ child[t].buffering_state = "HAVE_ENOUGH" /\ ~child[t].eos
  /\ IF t = "audio"
     THEN Become(Post([Now EXCEPT !.child[t].buffering_state = "HAVE_NOTHING"],
                      Task("BufferingStateChange", t, "HAVE_NOTHING")))
     ELSE /\ \A i \in DOMAIN tasks : tasks[i] # Task("HaveNothing", t, "none")
          /\ Become(Post(Now, Task("HaveNothing", t, "none")))
  /\ UNCHANGED spent

(* The decoder of a renderer being flushed has been reset, a task of its     *)
(* own.                                                                      *)
DecoderReset(t) ==
  /\ Is(t, "kFlushing")
  /\ LET reset   == [Now EXCEPT !.child[t] =
                       [@ EXCEPT !.state = "kFlushed", !.eos = FALSE, !.ended = FALSE,
                                 !.buffering_state = "HAVE_NOTHING"]]
         nothing == Task("BufferingStateChange", t, "HAVE_NOTHING")
         told    == IF child[t].buffering_state = "HAVE_NOTHING" THEN reset
                                                                ELSE Post(reset, nothing)
     IN  Become(Post(told, Task("Flushed", t, "none")))
  /\ UNCHANGED spent

(* OnRenderError() of the audio sink at any time, or a decoder error, which  *)
(* the audio renderer, when it plays, reports at once.                       *)
Fails(t) ==
  /\ Is(t, "kPlaying") \/ (t = "audio" /\ child[t].state \in {"kFlushed", "kFlushing"})
  /\ CanPost /\ Spend("errors")
  /\ \/ Become(Post(Now, Task("Error", t, "none")))
     \/ t = "audio" /\ Is(t, "kPlaying") /\ Become(OnError(Now))

(* The callback handed to the Flush() of the audio renderer, which runs it   *)
(* with lock_ held.  After a track change it calls the renderer back and     *)
(* does not return: StartPlaying() waits for lock_ for ever, Initialize()    *)
(* fails its CHECK(lock_.Try()).                                             *)
OnAudioFlushedLocked(s) ==
  LET returned == OnChildFlushed(s, "audio")
  IN  IF s.child["audio"].then = "FlushDone" THEN returned
      ELSE [returned EXCEPT !.child["audio"].state = "hung", !.client.op = s.client.op]

(* The audio decoder fails while it is flushed: HandleAbortedRead...() skips *)
(* the reset, so that the buffering state stays, and finishes the flush, all *)
(* under the lock that DecodedAudioReady() has taken.                        *)
FailsFlushing ==
  /\ Is("audio", "kFlushing") /\ Spend("errors")
  /\ Become(OnAudioFlushedLocked(
               OnError([Now EXCEPT !.child["audio"].state = "kFlushed"])))

(* VideoRendererImpl::TransitionToHaveNothing(), unless frames have come.    *)
TransitionToHaveNothing(s) ==
  IF s.child["video"].buffering_state = "HAVE_NOTHING" \/ s.child["video"].eos THEN {s}
  ELSE { s, Post([s EXCEPT !.child["video"].buffering_state = "HAVE_NOTHING"],
                 Task("BufferingStateChange", "video", "HAVE_NOTHING")) }

(**************************************************************************)
(*                        The tasks of the thread                           *)
(**************************************************************************)
Outcomes(s, task) ==
  CASE task.f = "InitializeDone" ->
         {IF task.type = "audio" THEN OnAudioRendererInitializeDone(s, task.arg)
                                 ELSE OnVideoRendererInitializeDone(s, task.arg)}
    [] task.f = "Reinitialized" -> {OnRendererReinitialized(s, task.type, task.arg)}
    [] task.f = "BufferingStateChange" -> {OnBufferingStateChange(s, task.type, task.arg)}
    [] task.f = "HaveNothing" -> TransitionToHaveNothing(s)
    [] task.f = "Ended" -> {OnRendererEnded(s, task.type)}
    [] task.f = "Error" -> {OnError(s)}
    [] task.f = "Flushed" -> {OnChildFlushed(s, task.type)}
    [] task.f = "ClientFlushed" -> {FinishFlush(s)}
    [] task.f = "Cancelled" -> {s}

RunTask ==
  /\ tasks # << >>
  /\ \E s \in Outcomes([Now EXCEPT !.tasks = Tail(tasks)], Head(tasks)) : Become(s)
  /\ UNCHANGED spent

Calls ==
  \/ Initialize \/ SetCdm \/ StartPlayingFrom \/ Flush \/ Destroy
  \/ \E rate \in {0, 1} : SetPlaybackRate(rate)
  \/ \E t \in setup.changing, track \in {"none", "current", "other"} : ChangeTracks(t, track)

Renders(t) ==
  \/ \E status \in {"ok", "error"} : DecoderInitialized(t, status)
  \/ \E eos \in BOOLEAN : Enough(t, eos)
  \/ EndOfStream(t) \/ RendersTheEnd(t) \/ Underflows(t) \/ DecoderReset(t) \/ Fails(t)

Steps ==
  \/ Calls
  \/ \E t \in Types : Renders(t)
  \/ FrameArrives \/ FailsFlushing
  \/ DeferredUnderflow
  \/ RunTask

(* The media thread is stuck in the audio renderer.                          *)
Hangs == Is("audio", "hung")

(* Everything runs on the media thread or waits for it.                      *)
Next == ~Hangs /\ Steps /\ UNCHANGED setup

(* The tasks of the thread run, the timer fires and the decoders answer;     *)
(* nothing obliges the client, and nothing has to fail or underflow.         *)
TasksRun ==
  /\ WF_vars(~Hangs /\ RunTask) /\ WF_vars(~Hangs /\ DeferredUnderflow)
  /\ \A t \in Types :
       /\ WF_vars(~Hangs /\ \E status \in {"ok", "error"} : DecoderInitialized(t, status))
       /\ WF_vars(~Hangs /\ DecoderReset(t))
       /\ WF_vars(~Hangs /\ \E eos \in BOOLEAN : Enough(t, eos))
       /\ WF_vars(~Hangs /\ RendersTheEnd(t))

Spec ==
  /\ Init
  /\ [][Next]_<<vars, setup>>
  /\ TasksRun

(**************************************************************************)
(*                              Properties                                  *)
(**************************************************************************)
Playing == r.state = "PLAYING" /\ \A t \in Types : ~r.pending_track_change[t]

(* The last buffering state of a renderer still to be delivered, or the one  *)
(* delivered.                                                                *)
Undelivered(t) ==
  {i \in DOMAIN tasks : tasks[i].f = "BufferingStateChange" /\ tasks[i].type = t}
Believed(t) == IF Undelivered(t) = {} THEN r.buffering_state[t]
                                      ELSE tasks[Max(Undelivered(t))].arg

(* Once what the renderers have posted is delivered, RendererImpl knows      *)
(* their buffering states, whatever it has suppressed, deferred or cancelled *)
(* meanwhile (OnBufferingStateChange(), FlushInternal() and the restarts):   *)
(* it never waits for a HAVE_ENOUGH that has gone by.  Only an underflow of  *)
(* the video may be kept back by deferred_video_underflow_cb_.  (While it    *)
(* flushes, the deferred underflow may run late; the flush makes up for it.) *)
BufferingKnown ==
  r.state \in {"FLUSHED", "PLAYING"} =>
    \A t \in Types : r.has[t] =>
      \/ Believed(t) = child[t].buffering_state
      \/ t = "video" /\ r.deferred = "waiting" /\ Believed(t) = "HAVE_ENOUGH"

(* The clock is stopped before the audio renderer is flushed and stays so    *)
(* until it plays again: StartPlayback() cannot run in the middle of a track *)
(* change or of a flush (the CHECK(!sink_playing_) of AudioRendererImpl::    *)
(* Initialize(), and the DCHECK_EQ(state_, kPlaying) of StartRendering and   *)
(* StopRendering).                                                           *)
ClockNeedsAudio ==
  r.time_ticking /\ r.has["audio"] => child["audio"].state = "kPlaying"

(* Once both renderers have enough and all they posted has been handled,     *)
(* playback goes on, unless it has ended: no interleaving of underflows,     *)
(* deferrals and track changes leaves it paused with nothing to resume it    *)
(* (StartPlayback() from OnBufferingStateChange()).  This is of playbacks     *)
(* whose audio track changes; changing the video track too breaks it.        *)
PlaysWhenReady ==
  /\ Playing /\ tasks = << >>
  /\ \A t \in Types : r.has[t] => child[t].buffering_state = "HAVE_ENOUGH"
  => r.time_ticking \/ PlaybackHasEnded(Now)

(* Time does not go on without data, once the underflow is known and not     *)
(* deferred, as long as no video track is changed, which keeps the underflow *)
(* it causes quiet (PausePlayback() from OnBufferingStateChange()).          *)
TimeWaitsForData ==
  Playing /\ r.time_ticking =>
    \A t \in Types : r.has[t] => r.buffering_state[t] = "HAVE_ENOUGH"

(* The client is told that playback has ended only when every renderer has   *)
(* rendered the end of its stream, or is being restarted with another track: *)
(* no `ended' of before a flush or a track change counts for what is played  *)
(* after (OnRendererEnded(), CleanUpTrackChange()).                          *)
EndedIsReal ==
  [][client'.ended # client.ended /\ client'.ended > 0 =>
       \A t \in Types : r.has[t] => child[t].ended \/ r.pending_track_change[t]]_vars

(* Every operation of the client is answered: Initialize(), Flush() and a    *)
(* track change, across errors of either renderer; an Initialize() waiting   *)
(* for a CDM once there is one, and a Flush() unless there has been an error *)
(* (after one it is ignored).  The exception is an audio decoder that fails  *)
(* in the flush of a track change: the thread hangs (LockIsFree).            *)
Answered ==
  /\ client.op = "initializing" /\ r.state # "INIT_PENDING_CDM"
       ~> client.op # "initializing"
  /\ client.op = "flushing" ~> client.op # "flushing" \/ client.error
  /\ client.op = "changing" ~> client.op # "changing" \/ Hangs

(* Left alone, a renderer that was started plays, plays again after every    *)
(* underflow or track change, and does not stop before the end.              *)
EventuallyPlays ==
  <>[](client.op = "started" /\ ~client.error)
    => []<>(r.time_ticking \/ PlaybackHasEnded(Now))

(**************************************************************************)
(*                    What the source says, and does not do                 *)
(**************************************************************************)
(* audio_renderer_impl.cc:360: "failing to acquire the lock would indicate a *)
(* race with the rendering thread, which should not be active at this time." *)
(* So the media thread finds the lock of the audio renderer free, or held by *)
(* another thread for a while, and never by itself: the CHECK(lock_.Try())   *)
(* of Initialize() and the AutoLock of StartPlaying(), when a track change   *)
(* goes on in the callback of its flush.                                     *)
LockIsFree == ~Hangs

(* renderer_impl.cc:510: "If we had a deferred video renderer underflow      *)
(* prior to the flush, it should have been cleared by the audio renderer     *)
(* changing to BUFFERING_HAVE_NOTHING."                                      *)
DeferredUnderflowCleared ==
  [][r.state = "FLUSHING" /\ r.has["audio"] /\ r.playing["audio"] /\ ~r'.playing["audio"]
       => r.deferred = "cancelled"]_vars

(* renderer_impl.cc:380: "error events from it may happen at any time and    *)
(* all future calls must guard against STATE_ERROR."                         *)
RestartGuardsError ==
  [][r.state = "ERROR" => \A t \in Types : ~(r.pending_track_change[t]
                                            /\ ~r'.pending_track_change[t])]_vars

(* renderer_impl.cc:849: "If all streams are ended, do not propagate a       *)
(* redundant ended event."                                                   *)
EndedReportedOnce == client.ended < 2

(* renderer_impl.cc:697: "Don't pass up a nothing event if it was triggered  *)
(* by a track change."  So one that was not is passed up.                    *)
AudioUnderflowTold ==
  Playing /\ tasks = << >> /\ r.has["audio"] /\ r.time_ticking
    => child["audio"].buffering_state = "HAVE_ENOUGH"

(* video_renderer_impl.cc:427: "If we have no frames queued, there is a      *)
(* pending buffering state change in flight and we should ignore the start   *)
(* attempt."  So once that has arrived the video moves with the time: when     *)
(* there is no audio, for whose sake the underflows of the video are deferred. *)
VideoMovesWithTime ==
  /\ Playing /\ tasks = << >> /\ r.time_ticking /\ r.playback_rate > 0
  /\ ~r.has["audio"] /\ child["video"].buffering_state = "HAVE_ENOUGH"
  => child["video"].sink \/ child["video"].ended
=============================================================================
