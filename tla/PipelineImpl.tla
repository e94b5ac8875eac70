----------------------------- MODULE PipelineImpl -----------------------------
(***************************************************************************)
(* media::PipelineImpl (base/pipeline_impl.cc): the pipeline that plays a    *)
(* Demuxer through a Renderer.  It is one object on two threads.  The half   *)
(* on the main thread (PipelineImpl, variable `main') takes the calls of the *)
(* client and runs its callbacks; the half on the media thread               *)
(* (RendererWrapper, variable `media') drives the demuxer and the renderer.  *)
(* They talk by posting tasks, `mediaQ' and `mainQ', and share the media     *)
(* time.  What runs on the media thread in several asynchronous steps is a   *)
(* SerialRunner (base/serial_runner.cc), `media.series'.                     *)
(*                                                                          *)
(* The tasks posted to the main thread are bound to a weak pointer to the    *)
(* PipelineImpl: they vanish when Stop() invalidates it, and the media       *)
(* thread can post no more until Start() hands it another.  Those of a       *)
(* series are bound to its SerialRunner, and do nothing ("Cancelled") when   *)
(* it is gone.                                                               *)
(*                                                                          *)
(* The client is one that keeps the contract of module Pipeline (module      *)
(* PipelineController is), the Demuxer and the Renderer are external.        *)
(***************************************************************************)
EXTENDS Integers, Sequences, FiniteSets

CONSTANTS
  StartTypes,   \* the start types the client uses
  Setups        \* the media and bounds that are tried, of type Setup

(* time: the media times are 0 .. time.  start: what                         *)
(* Demuxer::GetStartTime() returns.  The others bound the calls of Start(),  *)
(* the other calls of the client and the errors of demuxer and renderer.     *)
Setup == [time : Nat, start : Nat, starts : Nat, calls : Nat, errors : Nat]

ASSUME PipelineAssumption ==
  /\ \A choice \in Setups : choice \in Setup /\ choice.start <= choice.time
  /\ StartTypes \subseteq {"kNormal", "kSuspendAfterMetadata"}

VARIABLES
  setup,    \* one of Setups
  main,     \* members of PipelineImpl
  media,    \* members of RendererWrapper, and the objects it owns or drives
  mediaQ,   \* tasks posted to the media thread
  mainQ,    \* tasks posted to the main thread
  spent     \* what has been used of the bounds

vars == <<main, media, mediaQ, mainQ, spent>>

MaxTime == setup.time
StartTime == setup.start

Times == 0 .. MaxTime
NoTimestamp == MaxTime + 1
Timestamps == Times \cup {NoTimestamp}

AtLeastStart(time) == IF time < StartTime THEN StartTime ELSE time

States == { "kCreated", "kStarting", "kSeeking", "kPlaying", "kStopping",
            "kStopped", "kSuspending", "kSuspended", "kResuming" }

(* seek_cb: the operation whose seek_cb_ is set.  stopping: the thread waits *)
(* in Stop().  failed: it runs the client's error callback.  switching: the  *)
(* client awaits the end of a track change.  shown: history, the time last   *)
(* returned by GetMediaTime() since the client last moved it.                *)
MainMembers ==
  [ client       : BOOLEAN,
    seek_cb      : {"none", "starting", "starting_suspendable", "seeking",
                    "resuming"},
    suspend_cb   : BOOLEAN,
    is_suspended : BOOLEAN,
    seek_time    : Timestamps,
    last_media_time : Times,
    stopping     : BOOLEAN,
    failed       : BOOLEAN,
    switching    : BOOLEAN,
    shown        : Times ]

Functions == {"InitializeDemuxer", "ReportMetadata", "InitializeRenderer",
              "Flush", "DemuxerSeek"}

(* todo: bound_fns_.  running: the one whose completion is awaited.  done:   *)
(* done_cb_, with the time bound to it.                                      *)
NoSeries == [todo |-> << >>, running |-> "none", done |-> "none", time |-> 0]
Series == [ todo : Seq(Functions), running : Functions \cup {"none"},
            done : {"none", "CompleteSeek", "CompleteSuspend"}, time : Times ]

(* ok: status_ is PIPELINE_OK.  renderer: new until it is initialized, ended *)
(* once it has reported the end of what it plays.  track: the renderer holds *)
(* the completion of a track change.  pos: how far the renderer has played,  *)
(* from: where it was started.  start_type: the one bound to ReportMetadata. *)
(* linked: weak_pipeline_ is valid.  signaled: the waiter of Stop() is.      *)
MediaMembers ==
  [ state    : States,
    ok       : BOOLEAN,
    demuxer  : BOOLEAN,
    renderer : {"none", "new", "idle", "playing", "ended"},
    renderer_rate : {0, 1},
    playback_rate : {0, 1},
    renderer_ended : BOOLEAN,
    track    : BOOLEAN,
    suspend_timestamp : Timestamps,
    series   : Series,
    pos      : Times,
    from     : Times,
    start_type : {"kNormal", "kSuspendAfterMetadata"},
    linked   : BOOLEAN,
    signaled : BOOLEAN ]

MediaTasks == { "Start", "StartSuspendable", "Stop", "Seek", "Suspend", "Resume",
                "SetPlaybackRate", "TrackChange", "OnPipelineError",
                "NextOk", "NextError", "FromDemuxer", "StopCb", "Cancelled" }
MainTasks == { "OnError", "OnEnded", "OnMetadata", "OnSeekDone",
               "OnSeekDoneSuspended", "OnSuspendDone", "TrackChanged" }

TypeOK ==
  /\ main \in MainMembers
  /\ media \in MediaMembers
  /\ mediaQ \in Seq([task : MediaTasks, arg : Times \cup {0, 1}])
  /\ mainQ \in Seq(MainTasks)
  /\ spent \in [ starts : 0 .. setup.starts, calls : 0 .. setup.calls,
                 errors : 0 .. setup.errors ]

Init ==
  /\ setup \in Setups
  /\ main = [ client |-> FALSE, seek_cb |-> "none", suspend_cb |-> FALSE,
              is_suspended |-> FALSE, seek_time |-> NoTimestamp,
              last_media_time |-> 0, stopping |-> FALSE, failed |-> FALSE,
              switching |-> FALSE, shown |-> 0 ]
  /\ media = [ state |-> "kCreated", ok |-> TRUE, demuxer |-> FALSE,
               renderer |-> "none", renderer_rate |-> 0, playback_rate |-> 0,
               renderer_ended |-> FALSE, track |-> FALSE,
               suspend_timestamp |-> NoTimestamp, series |-> NoSeries,
               pos |-> 0, from |-> 0, start_type |-> "kNormal",
               linked |-> FALSE, signaled |-> FALSE ]
  /\ mediaQ = << >> /\ mainQ = << >>
  /\ spent = [starts |-> 0, calls |-> 0, errors |-> 0]

(* Where the pipeline is in its contract with the client, as the members on  *)
(* the main thread tell it.                                                  *)
Phase ==
  IF ~main.client             THEN "stopped"
  ELSE IF main.failed         THEN "failed"
  ELSE IF main.seek_cb # "none" THEN main.seek_cb
  ELSE IF main.suspend_cb     THEN "suspending"
  ELSE IF main.is_suspended   THEN "suspended"
  ELSE "playing"

(**************************************************************************)
(*                 Main thread: the calls of the client                     *)
(**************************************************************************)
MainFree == ~main.stopping /\ ~main.failed

Post(task, arg) == mediaQ' = Append(mediaQ, [task |-> task, arg |-> arg])

(* The client does not start an operation while the tracks are switched.    *)
MayCall(phase) == MainFree /\ Phase = phase /\ ~main.switching

Spend(what) == spent[what] < setup[what] /\ spent' = [spent EXCEPT ![what] = @ + 1]

(* PipelineImpl::Start(). *)
Start(type) ==
  /\ MainFree /\ Phase = "stopped"
  /\ Spend("starts")
  /\ main' = [main EXCEPT !.client = TRUE,
                !.seek_cb = IF type = "kNormal" THEN "starting"
                                                ELSE "starting_suspendable",
                !.last_media_time = 0, !.seek_time = NoTimestamp, !.shown = 0]
  /\ Post(IF type = "kNormal" THEN "Start" ELSE "StartSuspendable", 0)
  /\ UNCHANGED <<media, mainQ>>

(* PipelineImpl::Seek(). *)
Seek(time) ==
  /\ MayCall("playing")
  /\ Spend("calls")
  /\ main' = [main EXCEPT !.seek_cb = "seeking", !.seek_time = time,
                          !.last_media_time = 0, !.shown = 0]
  /\ Post("Seek", time)
  /\ UNCHANGED <<media, mainQ>>

(* PipelineImpl::Suspend(). *)
Suspend ==
  /\ MayCall("playing")
  /\ Spend("calls")
  /\ main' = [main EXCEPT !.suspend_cb = TRUE]
  /\ Post("Suspend", 0)
  /\ UNCHANGED <<media, mainQ>>

(* PipelineImpl::Resume(). *)
Resume(time) ==
  /\ MayCall("suspended")
  /\ Spend("calls")
  /\ main' = [main EXCEPT !.seek_cb = "resuming", !.seek_time = time,
                          !.last_media_time = 0, !.shown = 0]
  /\ Post("Resume", time)
  /\ UNCHANGED <<media, mainQ>>

(* PipelineImpl::SetPlaybackRate(), whether the pipeline is running or not. *)
SetPlaybackRate(rate) ==
  /\ MainFree
  /\ Spend("calls")
  /\ Post("SetPlaybackRate", rate)
  /\ UNCHANGED <<main, media, mainQ>>

(* OnEnabledAudioTracksChanged() and OnSelectedVideoTrackChanged(). *)
ChangeTracks ==
  /\ MainFree /\ Phase \in {"playing", "suspended"} /\ ~main.switching
  /\ Spend("calls")
  /\ main' = [main EXCEPT !.switching = TRUE]
  /\ Post("TrackChange", 0)
  /\ UNCHANGED <<media, mainQ>>

(* The times the Renderer may give: an AudioClock may go back a little by    *)
(* spurious delay values, not before where it started.                      *)
RendererTimes == { t \in {media.pos, media.pos - 1} : media.from <= t }

(* Defect: what is tested is whether there is a renderer. *)
SharedTimes_IfNoRenderer ==
  IF media.renderer # "none" THEN RendererTimes ELSE {media.suspend_timestamp}

(* RendererWrapper::GetMediaTime(), on the main thread. *)
SharedTimes ==
  IF media.suspend_timestamp # NoTimestamp THEN {media.suspend_timestamp}
  ELSE IF media.renderer # "none" THEN RendererTimes
  ELSE {0}

(* Defect: the time is not clamped. *)
GetMediaTime_Unclamped ==
  /\ MainFree
  /\ IF main.seek_time # NoTimestamp
       THEN main' = [main EXCEPT !.shown = main.seek_time]
       ELSE \E t \in SharedTimes :
              main' = [main EXCEPT !.last_media_time = t, !.shown = t]
  /\ UNCHANGED <<media, mediaQ, mainQ, spent>>

(* PipelineImpl::GetMediaTime(). *)
GetMediaTime ==
  /\ MainFree
  /\ IF main.seek_time # NoTimestamp
       THEN main' = [main EXCEPT !.shown = main.seek_time]
       ELSE \E t \in SharedTimes :
              LET now == IF t < main.last_media_time
                           THEN main.last_media_time ELSE t
              IN  main' = [main EXCEPT !.last_media_time = now, !.shown = now]
  /\ UNCHANGED <<media, mediaQ, mainQ, spent>>

(* PipelineImpl::Stop() as far as waiter.Wait().  The client may stop a      *)
(* pipeline at any time, and must when it is told of an error.               *)
Stop ==
  /\ main.client /\ ~main.stopping
  /\ main' = [main EXCEPT !.stopping = TRUE]
  /\ media' = [media EXCEPT !.signaled = FALSE]
  /\ Post("Stop", 0)
  /\ UNCHANGED <<mainQ, spent>>

(* ... and what follows it.  Only the completion of a track change is not    *)
(* bound to the weak pointer.                                                *)
StopReturns ==
  /\ main.stopping /\ media.signaled
  /\ main' = [main EXCEPT !.client = FALSE, !.seek_cb = "none",
                          !.suspend_cb = FALSE, !.stopping = FALSE,
                          !.failed = FALSE, !.switching = FALSE]
  /\ media' = [media EXCEPT !.linked = FALSE]
  /\ LET left == {i \in DOMAIN mainQ : mainQ[i] = "TrackChanged"}
     IN mainQ' = [i \in 1 .. Cardinality(left) |-> "TrackChanged"]
  /\ UNCHANGED <<mediaQ, spent>>

(**************************************************************************)
(*                 Main thread: tasks posted by the media thread            *)
(**************************************************************************)
NextMainTask(task) == MainFree /\ mainQ # << >> /\ Head(mainQ) = task

(* PipelineImpl::OnError(), by whichever callback: the client is told. *)
OnError ==
  /\ NextMainTask("OnError")
  /\ main' = IF main.seek_cb # "none"
               THEN [main EXCEPT !.seek_cb = "none", !.failed = TRUE]
             ELSE IF main.suspend_cb
               THEN [main EXCEPT !.suspend_cb = FALSE, !.failed = TRUE]
             ELSE [main EXCEPT !.failed = TRUE]

(* PipelineImpl::OnSeekDone(is_suspended). *)
OnSeekDone(is_suspended) ==
  /\ NextMainTask(IF is_suspended THEN "OnSeekDoneSuspended" ELSE "OnSeekDone")
  /\ main' = [main EXCEPT !.seek_time = NoTimestamp, !.seek_cb = "none",
                          !.is_suspended = is_suspended]

(* PipelineImpl::OnSuspendDone(). *)
OnSuspendDone ==
  /\ NextMainTask("OnSuspendDone")
  /\ main' = [main EXCEPT !.is_suspended = TRUE, !.suspend_cb = FALSE]

(* OnEnded() and OnMetadata(), which the client is told of. *)
Notify ==
  /\ NextMainTask("OnEnded") \/ NextMainTask("OnMetadata")
  /\ UNCHANGED main

TrackChanged ==
  /\ NextMainTask("TrackChanged")
  /\ main' = [main EXCEPT !.switching = FALSE]

MainTask ==
  /\ OnError \/ (\E b \in BOOLEAN : OnSeekDone(b)) \/ OnSuspendDone
     \/ Notify \/ TrackChanged
  /\ mainQ' = Tail(mainQ)
  /\ UNCHANGED <<media, mediaQ, spent>>

(**************************************************************************)
(*                 Media thread: RendererWrapper                            *)
(* The operators take the members m to what a handler makes of them; told   *)
(* lists the tasks it posts to the main thread.                             *)
(**************************************************************************)
Report(m, told) == mainQ' = IF m.linked THEN mainQ \o told ELSE mainQ

(* pending_callbacks_.reset(): the series is cancelled where it stands, its *)
(* weak pointers with it.                                                   *)
WithoutSeries(q) ==
  [i \in DOMAIN q |-> IF q[i].task \in {"NextOk", "NextError"}
                        THEN [q[i] EXCEPT !.task = "Cancelled"] ELSE q[i]]

(* DestroyRenderer(): a track change it was busy with is never completed.   *)
WithoutRenderer(m) ==
  [m EXCEPT !.renderer = "none", !.renderer_rate = 0, !.track = FALSE]

(* Defect: errors are reported in any state. *)
Failed_InAnyState(m) ==
  IF m.ok THEN [m |-> [m EXCEPT !.ok = FALSE], told |-> <<"OnError">>]
          ELSE [m |-> m, told |-> << >>]

(* OnPipelineError(). *)
Failed(m) ==
  IF m.ok /\ m.state \notin {"kStopping", "kStopped", "kSuspending", "kSuspended"}
    THEN [m |-> [m EXCEPT !.ok = FALSE], told |-> <<"OnError">>]
    ELSE [m |-> m, told |-> << >>]

Fail(m) == media' = Failed(m).m /\ Report(m, Failed(m).told)

(* The first function of a series runs on the stack of its creator, the     *)
(* done_cb of an empty one from a task.                                     *)
RunSeries(m, fns, done, time) ==
  [m EXCEPT !.series = [todo |-> IF fns = << >> THEN fns ELSE Tail(fns),
                        running |-> IF fns = << >> THEN "none" ELSE Head(fns),
                        done |-> done, time |-> time]]

(* RendererWrapper::Start().  The weak pointer is of the session at hand. *)
MediaStart(type) ==
  /\ media' = RunSeries([media EXCEPT !.state = "kStarting", !.demuxer = TRUE,
                           !.renderer = "new", !.linked = TRUE,
                           !.pos = 0, !.from = 0, !.start_type = type],
                <<"InitializeDemuxer", "ReportMetadata", "InitializeRenderer">>,
                "CompleteSeek", 0)
  /\ mediaQ' = Tail(mediaQ)
  /\ UNCHANGED mainQ

(* What RendererWrapper::Stop() leaves of the members: renderer_ended_ and  *)
(* the suspend_timestamp are not reset.                                     *)
Stopped(m) == [WithoutRenderer(m) EXCEPT !.series = NoSeries, !.demuxer = FALSE,
                 !.state = "kStopped", !.ok = TRUE]

(* Defect: the waiter is signalled without a task. *)
MediaStop_SignalsNow ==
  /\ media' = [Stopped(media) EXCEPT !.signaled = TRUE]
  /\ \E posted \in {<< >>, <<[task |-> "FromDemuxer", arg |-> 0]>>} :
       mediaQ' = WithoutSeries(Tail(mediaQ)) \o posted
  /\ UNCHANGED mainQ

(* Defect: the status is not reset. *)
MediaStop_KeepsStatus ==
  /\ media' = [Stopped(media) EXCEPT !.ok = media.ok]
  /\ \E posted \in {<< >>, <<[task |-> "FromDemuxer", arg |-> 0]>>} :
       mediaQ' = WithoutSeries(Tail(mediaQ)) \o posted
                   \o <<[task |-> "StopCb", arg |-> 0]>>
  /\ UNCHANGED mainQ

(* RendererWrapper::Stop().  Demuxer::Stop() may post tasks of its own; the *)
(* callback that signals the waiter is posted behind them.                  *)
MediaStop ==
  /\ media' = Stopped(media)
  /\ \E posted \in {<< >>, <<[task |-> "FromDemuxer", arg |-> 0]>>} :
       mediaQ' = WithoutSeries(Tail(mediaQ)) \o posted
                   \o <<[task |-> "StopCb", arg |-> 0]>>
  /\ UNCHANGED mainQ

RunStopCb ==
  /\ media' = [media EXCEPT !.signaled = TRUE]
  /\ mediaQ' = Tail(mediaQ)
  /\ UNCHANGED mainQ

(* RendererWrapper::Seek(); Flush() runs at once, the demuxer is sought     *)
(* when it is done.                                                         *)
MediaSeek(time) ==
  LET to == AtLeastStart(time)
  IN  /\ mediaQ' = Tail(mediaQ)
      /\ IF media.state # "kPlaying" THEN Fail(media)
         ELSE /\ media' = RunSeries([media EXCEPT !.state = "kSeeking",
                                       !.renderer_ended = FALSE,
                                       !.renderer = "idle"],
                            <<"Flush", "DemuxerSeek">>, "CompleteSeek", to)
              /\ UNCHANGED mainQ

(* Defect: an empty series does not run its done_cb. *)
MediaSuspend_NothingToRun ==
  IF media.state # "kPlaying" THEN Fail(media) /\ mediaQ' = Tail(mediaQ)
  ELSE /\ \E now \in RendererTimes :
            media' = RunSeries([media EXCEPT !.state = "kSuspending",
                                  !.renderer_rate = 0,
                                  !.suspend_timestamp = now],
                       << >>, "CompleteSuspend", 0)
       /\ mediaQ' = Tail(mediaQ)
       /\ UNCHANGED mainQ

(* RendererWrapper::Suspend(): the renderer is stopped first, so that the   *)
(* time recorded is the one it stopped at.                                  *)
MediaSuspend ==
  IF media.state # "kPlaying" THEN Fail(media) /\ mediaQ' = Tail(mediaQ)
  ELSE /\ \E now \in RendererTimes :
            media' = RunSeries([media EXCEPT !.state = "kSuspending",
                                  !.renderer_rate = 0,
                                  !.suspend_timestamp = now],
                       << >>, "CompleteSuspend", 0)
       /\ mediaQ' = Append(Tail(mediaQ), [task |-> "NextOk", arg |-> 0])
       /\ UNCHANGED mainQ

(* RendererWrapper::Resume(), with the renderer the client made. *)
MediaResume(time) ==
  LET to == AtLeastStart(time)
  IN  /\ mediaQ' = Tail(mediaQ)
      /\ IF media.state # "kSuspended" THEN Fail(media)
         ELSE /\ media' = RunSeries([media EXCEPT !.state = "kResuming",
                                       !.renderer = "new",
                                       !.pos = 0, !.from = 0,
                                       !.renderer_ended = FALSE],
                            <<"DemuxerSeek", "InitializeRenderer">>,
                            "CompleteSeek", to)
              /\ UNCHANGED mainQ

(* RendererWrapper::SetPlaybackRate(). *)
MediaSetPlaybackRate(rate) ==
  /\ media' = [media EXCEPT !.playback_rate = rate,
                 !.renderer_rate = IF media.state = "kPlaying" THEN rate ELSE @]
  /\ mediaQ' = Tail(mediaQ)
  /\ UNCHANGED mainQ

(* Defect: a change that finds no renderer is dropped. *)
MediaTrackChange_Drops ==
  /\ mediaQ' = Tail(mediaQ)
  /\ media' = [media EXCEPT !.track = media.renderer # "none"]
  /\ UNCHANGED mainQ

(* RendererWrapper::On...Changed() and OnDemuxerCompletedTrackChange(): the  *)
(* renderer, if there is one, completes the change when it has restarted.    *)
MediaTrackChange ==
  /\ mediaQ' = Tail(mediaQ)
  /\ IF media.state \in {"kCreated", "kStopping", "kStopped"}
        \/ media.renderer = "none"
       THEN /\ mainQ' = Append(mainQ, "TrackChanged")
            /\ UNCHANGED media
       ELSE /\ media' = [media EXCEPT !.track = TRUE]
            /\ UNCHANGED mainQ

(* OnPipelineError(), a task of its own: the error of a renderer or demuxer. *)
MediaError ==
  /\ Fail(media)
  /\ mediaQ' = Tail(mediaQ)

(**************************************************************************)
(* SerialRunner::RunNextInSeries(status), and what it runs.                 *)

(* CompleteSeek() with PIPELINE_OK. *)
CompleteSeek(m) ==
  LET to == AtLeastStart(m.series.time)
  IN  [m EXCEPT !.series = NoSeries, !.renderer = "playing",
                !.pos = to, !.from = to, !.suspend_timestamp = NoTimestamp,
                !.renderer_rate = m.playback_rate, !.state = "kPlaying"]

(* CompleteSuspend(), whatever the status. *)
CompleteSuspend(m) ==
  [WithoutRenderer(m) EXCEPT !.series = NoSeries, !.state = "kSuspended"]

RunDone(status) ==
  /\ mediaQ' = Tail(mediaQ)
  /\ IF media.series.done = "CompleteSuspend"
       THEN /\ media' = CompleteSuspend(media)
            /\ Report(media, <<"OnSuspendDone">>)
     ELSE IF status = "NextOk"
       THEN /\ media' = CompleteSeek(media)
            /\ Report(media, <<"OnSeekDone">>)
     ELSE Fail([media EXCEPT !.series = NoSeries])

(* Defect: the series goes on although the pipeline is suspended. *)
ReportMetadata_KeepsSeries ==
  IF media.start_type = "kNormal"
    THEN /\ media' = [media EXCEPT !.series.todo = Tail(@)]
         /\ mediaQ' = Append(Tail(mediaQ), [task |-> "NextOk", arg |-> 0])
         /\ Report(media, <<"OnMetadata">>)
    ELSE /\ media' = [media EXCEPT !.series.todo = Tail(@),
                        !.suspend_timestamp = StartTime, !.state = "kSuspended"]
         /\ mediaQ' = Append(Tail(mediaQ), [task |-> "NextOk", arg |-> 0])
         /\ Report(media, <<"OnMetadata", "OnSeekDoneSuspended">>)

(* ReportMetadata(): a start that is to end suspended ends here. *)
ReportMetadata ==
  IF media.start_type = "kNormal"
    THEN /\ media' = [media EXCEPT !.series.todo = Tail(@)]
         /\ mediaQ' = Append(Tail(mediaQ), [task |-> "NextOk", arg |-> 0])
         /\ Report(media, <<"OnMetadata">>)
    ELSE /\ media' = [WithoutRenderer(media) EXCEPT !.series = NoSeries,
                        !.suspend_timestamp = StartTime, !.state = "kSuspended",
                        !.pos = StartTime, !.from = StartTime]
         /\ mediaQ' = Tail(mediaQ)
         /\ Report(media, <<"OnMetadata", "OnSeekDoneSuspended">>)

RunNextInSeries(status) ==
  IF media.series.todo = << >> \/ status = "NextError" THEN RunDone(status)
  ELSE IF Head(media.series.todo) = "ReportMetadata" THEN ReportMetadata
  ELSE /\ media' = [media EXCEPT !.series.running = Head(media.series.todo),
                                 !.series.todo = Tail(@),
                      !.renderer = IF Head(media.series.todo) =
                                      "InitializeRenderer" THEN "idle" ELSE @]
       /\ mediaQ' = Tail(mediaQ)
       /\ UNCHANGED mainQ

MediaTask ==
  /\ mediaQ # << >>
  /\ LET head == Head(mediaQ)
     IN  \/ head.task = "Start" /\ MediaStart("kNormal")
         \/ head.task = "StartSuspendable" /\ MediaStart("kSuspendAfterMetadata")
         \/ head.task = "Stop" /\ MediaStop
         \/ head.task = "StopCb" /\ RunStopCb
         \/ head.task = "Seek" /\ MediaSeek(head.arg)
         \/ head.task = "Suspend" /\ MediaSuspend
         \/ head.task = "Resume" /\ MediaResume(head.arg)
         \/ head.task = "SetPlaybackRate" /\ MediaSetPlaybackRate(head.arg)
         \/ head.task = "TrackChange" /\ MediaTrackChange
         \/ head.task = "OnPipelineError" /\ MediaError
         \/ head.task \in {"NextOk", "NextError"} /\ RunNextInSeries(head.task)
         \/ /\ head.task \in {"FromDemuxer", "Cancelled"}
            /\ mediaQ' = Tail(mediaQ)
            /\ UNCHANGED <<media, mainQ>>
  /\ UNCHANGED <<main, spent>>

(**************************************************************************)
(*                 The demuxer and the renderer                             *)
(**************************************************************************)
(* What a series has called completes: RunOnTaskRunner() posts the next.     *)
(* Flush() cannot fail.                                                      *)
Completes(status) ==
  /\ media.series.running # "none"
  /\ status = "NextError" => media.series.running # "Flush"
  /\ IF status = "NextError" THEN Spend("errors") ELSE UNCHANGED spent
  /\ media' = [media EXCEPT !.series.running = "none"]
  /\ Post(status, 0)
  /\ UNCHANGED <<main, mainQ>>

(* RendererClient::OnError() of a renderer that was initialized, or          *)
(* DemuxerHost::OnDemuxerError(), from any thread: both post a task.         *)
Breaks ==
  /\ media.demuxer \/ media.renderer \notin {"none", "new"}
  /\ Spend("errors")
  /\ Post("OnPipelineError", 0)
  /\ UNCHANGED <<main, media, mainQ>>

(* RendererWrapper::OnEnded() and CheckPlaybackEnded(). *)
OnEnded ==
  /\ media.renderer = "playing" /\ media.renderer_rate # 0
  /\ media' = [media EXCEPT !.renderer = "ended",
                 !.renderer_ended = @ \/ media.state = "kPlaying"]
  /\ IF media.state = "kPlaying" THEN Report(media, <<"OnEnded">>)
                                 ELSE UNCHANGED mainQ
  /\ UNCHANGED <<main, mediaQ, spent>>

Play ==
  /\ media.renderer = "playing" /\ media.renderer_rate # 0
  /\ media.pos < MaxTime
  /\ media' = [media EXCEPT !.pos = @ + 1]
  /\ UNCHANGED <<main, mediaQ, mainQ, spent>>

(* The renderer has restarted with the new tracks. *)
TracksSwitched ==
  /\ media.track
  /\ media' = [media EXCEPT !.track = FALSE]
  /\ mainQ' = Append(mainQ, "TrackChanged")
  /\ UNCHANGED <<main, mediaQ, spent>>

(**************************************************************************)
Call ==
  \/ \E type \in StartTypes : Start(type)
  \/ \E time \in Times : Seek(time) \/ Resume(time)
  \/ Suspend
  \/ \E rate \in {0, 1} : SetPlaybackRate(rate)
  \/ ChangeTracks
  \/ GetMediaTime
  \/ Stop

External == \/ \E status \in {"NextOk", "NextError"} : Completes(status)
            \/ Breaks \/ OnEnded \/ Play \/ TracksSwitched

Next ==
  /\ Call \/ StopReturns \/ MainTask \/ MediaTask \/ External
  /\ UNCHANGED setup

(* Both threads run the tasks posted to them, Stop() wakes when it is       *)
(* signalled, and the demuxer and the renderer answer what a series asks of *)
(* them.  Nothing makes the client call, or the renderer reach the end.     *)
ThreadsRun ==
  /\ WF_vars(MainTask) /\ WF_vars(MediaTask) /\ WF_vars(StopReturns)
  /\ WF_vars(\E status \in {"NextOk", "NextError"} : Completes(status))

Spec ==
  /\ Init
  /\ [][Next]_<<vars, setup>>
  /\ ThreadsRun

(**************************************************************************)
(*                              PROPERTIES                                  *)
(**************************************************************************)
(* The pipeline keeps its half of the contract: what the client is told, by  *)
(* seek_cb_, suspend_cb_ and OnError(), is the answer to what it asked, once,*)
(* and no error comes while the pipeline is suspended or after Stop().       *)
Contract == INSTANCE Pipeline WITH phase <- Phase
ContractKept == Contract!Spec

InQ(q, tasks) == \E i \in 1 .. Len(q) : q[i] \in tasks
InMediaQ(tasks) == \E i \in 1 .. Len(mediaQ) : mediaQ[i].task \in tasks

(* An operation the client awaits is never lost between the two threads, the *)
(* series and the error path: it is on its way to the media thread, being    *)
(* carried out there, or its answer is on its way back.                      *)
OnItsWay ==
  \/ InMediaQ({"Start", "StartSuspendable", "Seek", "Suspend", "Resume"})
  \/ media.series.running # "none"
  \/ InMediaQ({"NextOk", "NextError"})
  \/ InQ(mainQ, {"OnError", "OnSeekDone", "OnSeekDoneSuspended",
                 "OnSuspendDone"})

NoLostOperation ==
  MainFree /\ (main.seek_cb # "none" \/ main.suspend_cb) => OnItsWay

(* Nor is the completion of a track change, which only Stop() cancels.       *)
TrackChangeNotLost ==
  MainFree /\ main.switching =>
    media.track \/ InMediaQ({"TrackChange"}) \/ InQ(mainQ, {"TrackChanged"})

(* The media thread is where the client takes it to be when a call arrives   *)
(* there: the DCHECKs of Start(), Seek(), Suspend() and Resume() on state_   *)
(* hold, and no series is under way.                                         *)
CallsFindTheirState ==
  mediaQ # << >> =>
    LET task == Head(mediaQ).task
    IN  /\ task \in {"Start", "StartSuspendable"} =>
             /\ media.state \in {"kCreated", "kStopped"}
             /\ ~media.demuxer /\ media.renderer = "none"
        /\ task \in {"Seek", "Suspend"} => media.state = "kPlaying"
        /\ task = "Resume" => media.state = "kSuspended"
        /\ task \in {"Start", "StartSuspendable", "Seek", "Suspend", "Resume"} =>
             media.series = NoSeries
        /\ task = "Stop" => media.state \notin {"kStopping", "kStopped"}

(* Stop() is a barrier: when it has returned, so that the client may destroy *)
(* the demuxer, nothing on the media thread refers to it any more, neither a *)
(* member nor a task that is still queued.                                   *)
StopIsBarrier ==
  ~main.client =>
    /\ ~media.demuxer /\ media.renderer = "none" /\ media.series = NoSeries
    /\ ~InMediaQ(MediaTasks \ {"SetPlaybackRate", "TrackChange"})

(* "This prevents higher level clients from seeing time go backwards": while *)
(* the pipeline runs only Seek() and Resume() take the media time back.      *)
MediaTimeGoesForward ==
  [][ main.client /\ main'.client /\ main'.shown < main.shown =>
        main'.seek_cb # main.seek_cb /\ main'.seek_cb # "none" ]_vars

(* Every operation is answered, and Stop() returns. *)
Answered ==
  (main.seek_cb # "none" \/ main.suspend_cb \/ main.stopping)
    ~> (main.seek_cb = "none" /\ ~main.suspend_cb /\ ~main.stopping)

(* The comment on suspend_timestamp: "The media timestamp to return while    *)
(* the pipeline is suspended.  Otherwise set to kNoTimestamp."               *)
SuspendTimeOnlyIfSuspended ==
  media.suspend_timestamp # NoTimestamp =>
    media.state \in {"kSuspending", "kSuspended", "kResuming"}

(* The DCHECK of RendererWrapper::Start(): the end of playback that the last *)
(* session reported is forgotten when the next one starts.                   *)
StartsUnended ==
  mediaQ # << >> /\ Head(mediaQ).task \in {"Start", "StartSuspendable"} =>
    ~media.renderer_ended

(* The DCHECK of CheckPlaybackEnded(): the end of playback is reported only  *)
(* while status_ is PIPELINE_OK.                                             *)
EndsWithoutError ==
  [][ media'.renderer_ended /\ ~media.renderer_ended => media.ok ]_vars
=============================================================================
