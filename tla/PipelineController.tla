------------------------- MODULE PipelineController -------------------------
(***************************************************************************)
(* media::PipelineController (filters/pipeline_controller.cc): the object   *)
(* that turns the calls of a media element (seek, suspend, resume, switch   *)
(* tracks, in any order and at any time) into the one-at-a-time calls that  *)
(* a media::Pipeline accepts.                                               *)
(*                                                                          *)
(* The controller runs on the main thread only.  What is hard is reentrancy *)
(* (its callbacks may call it back in the middle of a handler), operations  *)
(* that are overtaken by later requests while the pipeline is busy, and the *)
(* cancellation of a seek the demuxer is waiting for.  A handler runs in    *)
(* one step up to the callback it ends in or returns from; the variable     *)
(* `stack' holds the client callbacks that are on the call stack.           *)
(*                                                                          *)
(* The environment is the Pipeline of the contract in module Pipeline, the  *)
(* Demuxer, and WebMediaPlayerImpl (blink/webmediaplayer_impl.cc), whose    *)
(* choice of the next call is nondeterministic.                             *)
(***************************************************************************)
EXTENDS Naturals, Sequences

CONSTANTS
  MaxTime,      \* the media times are 0 .. MaxTime
  Streaming,    \* the is_streaming arguments the client may pass to Start()
  Static,       \* the is_static arguments it may pass
  StartTypes,   \* the StartTypes the client may pass to Start()
  MaxCalls      \* bound on the calls the client makes of its own accord

ASSUME ControllerAssumption ==
  /\ MaxTime \in Nat
  /\ MaxCalls \in Nat
  /\ Streaming \subseteq BOOLEAN
  /\ Static \subseteq BOOLEAN
  /\ StartTypes \subseteq {"kNormal", "kSuspendAfterMetadata"}

Times == 0 .. MaxTime

VARIABLES
  ctl,       \* the members of the PipelineController
  stack,     \* client callbacks being run, innermost first
  env,       \* the Pipeline and the Demuxer, as the controller drives them
  wanted,    \* history: what Suspend() and Resume() asked for last since Stop()
  calls      \* calls the client has made, bounded by MaxCalls

vars == <<ctl, stack, env, wanted, calls>>

NoRequest == MaxTime + 1     \* the value of env.asked before any Seek()

States == { "STOPPED", "STARTING", "PLAYING", "SEEKING", "SUSPENDING",
            "SUSPENDED", "RESUMING", "SWITCHING_TRACKS" }

Callbacks == { "seeked_cb", "suspended_cb", "before_resume_cb", "resumed_cb",
               "error_cb" }

Members ==
  [ state                   : States,
    pending_seek            : BOOLEAN,
    pending_suspend         : BOOLEAN,
    pending_resume          : BOOLEAN,
    pending_audio_track     : BOOLEAN,
    pending_video_track     : BOOLEAN,
    pending_seeked_cb       : BOOLEAN,
    pending_seek_except_start : BOOLEAN,
    pending_time_updated    : BOOLEAN,
    pending_startup         : BOOLEAN,
    waiting_for_seek        : BOOLEAN,
    is_streaming            : BOOLEAN,
    is_static               : BOOLEAN,
    seek_time               : Times,
    pending_seek_time       : Times ]

Phases == { "stopped", "starting", "starting_suspendable", "playing", "seeking",
            "suspending", "suspended", "resuming", "failed" }

TrackChanges == {"none", "PLAYING", "SUSPENDED"}

(* phase: the pipeline, as its contract (module Pipeline) sees it.          *)
(* demuxer: what it was told of the seek under way, by StartWaitingForSeek()*)
(* and CancelPendingSeek().  landed: history, where the last seek ended and *)
(* whether the demuxer has data there.  switching: the track change whose   *)
(* completion the pipeline owes, named by the state it returns to;          *)
(* leftover: one that a stopped session had posted to the main loop.        *)
(* asked: history, where the client expects to be, which is the time of its *)
(* last Seek() since Stop() and, from when the pipeline has gone there,     *)
(* wherever playback has taken it.                                          *)
Environment ==
  [ phase     : Phases,
    demuxer   : {"idle", "expecting", "cancelled"},
    landed    : [time : Times, live : BOOLEAN],
    switching : TrackChanges,
    leftover  : TrackChanges,
    asked     : Times \cup {NoRequest} ]

TypeOK ==
  /\ ctl \in Members
  /\ stack \in Seq(Callbacks)
  /\ env \in Environment
  /\ wanted \in {"none", "suspend", "resume", "resume_while_switching"}
  /\ calls \in 0 .. MaxCalls

Init ==
  /\ ctl = [ state |-> "STOPPED", pending_seek |-> FALSE,
             pending_suspend |-> FALSE, pending_resume |-> FALSE,
             pending_audio_track |-> FALSE, pending_video_track |-> FALSE,
             pending_seeked_cb |-> FALSE, pending_seek_except_start |-> FALSE,
             pending_time_updated |-> FALSE, pending_startup |-> FALSE,
             waiting_for_seek |-> FALSE, is_streaming |-> FALSE, is_static |-> TRUE,
             seek_time |-> 0, pending_seek_time |-> 0 ]
  /\ stack = << >>
  /\ env = [ phase |-> "stopped", demuxer |-> "idle",
             landed |-> [time |-> 0, live |-> TRUE],
             switching |-> "none", leftover |-> "none",
             asked |-> NoRequest ]
  /\ wanted = "none"
  /\ calls = 0

(**************************************************************************)
(* PipelineController::Dispatch(), from the member values c and the          *)
(* environment e, on a call stack k of client callbacks.  One operator per   *)
(* branch, tried in the order of Dispatch() at the end.                      *)

Pending(c) == c.pending_seek \/ c.pending_suspend
              \/ c.pending_audio_track \/ c.pending_video_track

WantsSuspend(c) == c.pending_suspend /\ c.state = "PLAYING"

WantsResume(c) == c.pending_resume /\ c.state = "SUSPENDED"

WantsCancel(c) == Pending(c) /\ c.waiting_for_seek

WantsTrackSwitch(c) == /\ c.pending_audio_track \/ c.pending_video_track
                       /\ c.state \in {"PLAYING", "SUSPENDED"}

(* Defect: a seek is not held back until the pipeline is PLAYING. *)
WantsSeek_AnyState(c) == c.pending_seek /\ c.state \in {"PLAYING", "SUSPENDED"}

WantsSeek(c) == c.pending_seek /\ c.state = "PLAYING"

WantsSeekedCb(c) == /\ c.pending_seeked_cb
                    /\ \/ c.state = "PLAYING"
                       \/ c.state = "SUSPENDED" /\ c.pending_startup

DispatchSuspend(c, e, k) ==
  /\ ctl' = [c EXCEPT !.pending_suspend = FALSE, !.state = "SUSPENDING"]
  /\ env' = [e EXCEPT !.phase = "suspending"]
  /\ stack' = k

(* Defect: the pending seek is dropped instead of merged into the resume. *)
DispatchResume_IgnoresSeek(c, e, k) ==
  \E now \in e.landed.time .. MaxTime :
    /\ ctl' = [c EXCEPT !.seek_time = now,
                        !.pending_seek = FALSE,
                        !.waiting_for_seek = TRUE,
                        !.pending_resume = FALSE,
                        !.state = "RESUMING"]
    /\ env' = [e EXCEPT !.demuxer = "expecting"]
    /\ stack' = <<"before_resume_cb">> \o k

(* The time to resume at is that of the pending seek, else the media time   *)
(* (which has advanced from where the last seek landed); a stream resumes   *)
(* at zero.  pipeline_->Resume() comes after before_resume_cb_ has run.     *)
DispatchResume(c, e, k) ==
  \E now \in e.landed.time .. MaxTime :
    LET wish   == IF c.pending_seek THEN c.pending_seek_time ELSE now
        rewind == c.is_streaming /\ wish # 0
    IN  /\ ctl' = [c EXCEPT !.seek_time = IF rewind THEN 0 ELSE wish,
                            !.pending_seek = FALSE,
                            !.pending_time_updated = @ \/ rewind,
                            !.waiting_for_seek = TRUE,
                            !.pending_resume = FALSE,
                            !.state = "RESUMING"]
        /\ env' = [e EXCEPT !.demuxer = "expecting",
                            !.asked = IF c.pending_seek \/ @ # e.landed.time
                                        THEN @ ELSE now]
        /\ stack' = <<"before_resume_cb">> \o k

(* Defects that a run must detect: the flag is left set, the abandoned seek *)
(* is not made pending again.                                               *)
DispatchCancel_KeepsWaiting(c, e, k) ==
  /\ ctl' = [c EXCEPT !.pending_seek_time = IF c.pending_seek THEN @
                                            ELSE c.seek_time,
                      !.pending_seek = TRUE]
  /\ env' = [e EXCEPT !.demuxer = "cancelled"]
  /\ stack' = k

DispatchCancel_ForgetsSeek(c, e, k) ==
  /\ ctl' = [c EXCEPT !.waiting_for_seek = FALSE]
  /\ env' = [e EXCEPT !.demuxer = "cancelled"]
  /\ stack' = k

(* The seek that is abandoned becomes a pending one unless a newer is. *)
DispatchCancel(c, e, k) ==
  /\ ctl' = [c EXCEPT !.pending_seek_time = IF c.pending_seek THEN @
                                            ELSE c.seek_time,
                      !.pending_seek = TRUE,
                      !.waiting_for_seek = FALSE]
  /\ env' = [e EXCEPT !.demuxer = "cancelled"]
  /\ stack' = k

(* Audio before video; the callback carries the state to return to. *)
DispatchTrackSwitch(c, e, k) ==
  /\ ctl' = [c EXCEPT !.pending_audio_track = FALSE,
                      !.pending_video_track = @ /\ c.pending_audio_track,
                      !.state = "SWITCHING_TRACKS"]
  /\ env' = [e EXCEPT !.switching = c.state]
  /\ stack' = k

DispatchSeek(c, e, k) ==
  /\ ctl' = [c EXCEPT !.seek_time = c.pending_seek_time,
                      !.waiting_for_seek = TRUE,
                      !.pending_seek = FALSE,
                      !.state = "SEEKING"]
  /\ env' = [e EXCEPT !.demuxer = "expecting", !.phase = "seeking"]
  /\ stack' = k

DispatchSeekedCb(c, e, k) ==
  /\ ctl' = [c EXCEPT !.pending_startup = FALSE,
                      !.pending_seeked_cb = FALSE,
                      !.pending_seek_except_start = FALSE,
                      !.pending_time_updated = FALSE]
  /\ stack' = <<"seeked_cb">> \o k
  /\ env' = e

DispatchNothing(c, e, k) ==
  /\ ctl' = c
  /\ stack' = k
  /\ env' = e

Dispatch(c, e, k) ==
  IF WantsSuspend(c)          THEN DispatchSuspend(c, e, k)
  ELSE IF WantsResume(c)      THEN DispatchResume(c, e, k)
  ELSE IF WantsCancel(c)      THEN DispatchCancel(c, e, k)
  ELSE IF WantsTrackSwitch(c) THEN DispatchTrackSwitch(c, e, k)
  ELSE IF WantsSeek(c)        THEN DispatchSeek(c, e, k)
  ELSE IF WantsSeekedCb(c)    THEN DispatchSeekedCb(c, e, k)
  ELSE DispatchNothing(c, e, k)

(**************************************************************************)
(* Calls of the client.  They come from the main loop or from a callback    *)
(* the controller is running; the callbacks of WebMediaPlayerImpl differ in *)
(* what they may call.                                                      *)

Runs(k, callback) == k # << >> /\ Head(k) = callback
Running(callback) == Runs(stack, callback)

(* OnPipelineSeeked() ends in Blink, which may ask for anything. *)
MayRequest == stack = << >> \/ Running("seeked_cb")

(* OnPipelineSuspended() may end in UpdatePlayState(), which suspends or     *)
(* resumes.                                                                  *)
MaySetSuspendState == MayRequest \/ Running("suspended_cb")

(* OnBeforePipelineResume() and OnPipelineResumed() may enable the video     *)
(* track that was disabled in the background.                                *)
MaySwitchVideo == MayRequest \/ Running("before_resume_cb")
                             \/ Running("resumed_cb")

CountCall == calls < MaxCalls /\ calls' = calls + 1

(* PipelineController::Start().  type is the StartType. *)
Start(type, is_streaming, is_static) ==
  /\ stack = << >>
  /\ ctl.state = "STOPPED"
  /\ CountCall
  /\ ctl' = [ctl EXCEPT !.pending_startup = TRUE,
                        !.pending_seeked_cb = TRUE,
                        !.is_streaming = is_streaming,
                        !.is_static = is_static,
                        !.state = "STARTING"]
  /\ env' = [env EXCEPT !.phase = IF type = "kNormal" THEN "starting"
                                                  ELSE "starting_suspendable"]
  /\ UNCHANGED <<stack, wanted>>

Elided(time) == /\ ctl.state \in {"SEEKING", "RESUMING"}
                /\ ctl.seek_time = time
                /\ ctl.is_static

(* PipelineController::Seek().  The client now expects to be at time. *)
Seek(time, time_updated) ==
  LET c == [ctl EXCEPT !.pending_time_updated = @ \/ time_updated,
                       !.pending_seeked_cb = TRUE,
                       !.pending_seek_except_start = TRUE]
      e == [env EXCEPT !.asked = time]
  IN  /\ MayRequest
      /\ CountCall
      /\ IF Elided(time)
           THEN /\ ctl' = [c EXCEPT !.pending_seek = FALSE]
                /\ env' = e
                /\ UNCHANGED stack
           ELSE Dispatch([c EXCEPT !.pending_seek_time = time,
                                   !.pending_seek = TRUE], e, stack)
      /\ UNCHANGED wanted

(* Defect: an earlier Resume() is not withdrawn. *)
Suspend_KeepsResume ==
  /\ MaySetSuspendState
  /\ CountCall
  /\ wanted' = "suspend"
  /\ IF ctl.state \in {"SUSPENDING", "SUSPENDED"}
       THEN UNCHANGED <<ctl, stack, env>>
       ELSE Dispatch([ctl EXCEPT !.pending_suspend = TRUE], env, stack)

(* PipelineController::Suspend(). *)
Suspend ==
  LET c == [ctl EXCEPT !.pending_resume = FALSE]
  IN  /\ MaySetSuspendState
      /\ CountCall
      /\ wanted' = "suspend"
      /\ IF ctl.state \in {"SUSPENDING", "SUSPENDED"}
           THEN /\ ctl' = c
                /\ UNCHANGED <<stack, env>>
           ELSE Dispatch([c EXCEPT !.pending_suspend = TRUE], env, stack)
    
(* PipelineController::Resume(). *)
Resume ==
  LET c == [ctl EXCEPT !.pending_suspend = FALSE]
  IN  /\ MaySetSuspendState
      /\ CountCall
      /\ wanted' = IF env.phase \notin {"suspending", "suspended"} THEN "none"
                   ELSE IF ctl.state = "SWITCHING_TRACKS"
                     THEN "resume_while_switching" ELSE "resume"
      /\ IF ctl.state \in {"SUSPENDING", "SUSPENDED"}
           THEN Dispatch([c EXCEPT !.pending_resume = TRUE], env, stack)
           ELSE /\ ctl' = c
                /\ UNCHANGED <<stack, env>>
    
OnEnabledAudioTracksChanged ==
  /\ MayRequest
  /\ CountCall
  /\ Dispatch([ctl EXCEPT !.pending_audio_track = TRUE], env, stack)
  /\ UNCHANGED wanted

OnSelectedVideoTrackChanged ==
  /\ MaySwitchVideo
  /\ CountCall
  /\ Dispatch([ctl EXCEPT !.pending_video_track = TRUE], env, stack)
  /\ UNCHANGED wanted

(* What PipelineController::Stop() leaves of the members: pending_startup,  *)
(* the seek times and the seek under way are not reset.                     *)
Stopped(c) == [c EXCEPT !.state = "STOPPED", !.waiting_for_seek = FALSE,
                        !.pending_seeked_cb = FALSE,
                        !.pending_seek_except_start = FALSE,
                        !.pending_time_updated = FALSE,
                        !.pending_seek = FALSE, !.pending_suspend = FALSE,
                        !.pending_resume = FALSE,
                        !.pending_audio_track = FALSE,
                        !.pending_video_track = FALSE]

(* pipeline_->Stop() cancels the completion of the operation under way.  A  *)
(* track change has its completion dropped with the renderer, or posted to  *)
(* the main loop before Stop() returns, where it outlives the session.      *)
StopNow ==
  /\ ctl' = Stopped(ctl)
  /\ \E left \in IF env.switching = "none" THEN {env.leftover}
               ELSE {env.leftover, env.switching} :
       env' = [ phase |-> "stopped", demuxer |-> "idle",
                landed |-> [time |-> 0, live |-> TRUE],
                switching |-> "none", leftover |-> left,
                asked |-> NoRequest ]
  /\ wanted' = "none"
  /\ UNCHANGED stack

(* The client stops the player ... *)
Stop == stack = << >> /\ ctl.state # "STOPPED" /\ CountCall /\ StopNow

(* ... or WebMediaPlayerImpl::OnError() does, which it does on any error. *)
StopOnError == /\ Running("error_cb") /\ ctl.state # "STOPPED"
               /\ StopNow /\ UNCHANGED calls

(**************************************************************************)
(* Tasks of the main loop: the pipeline answers.                            *)

Busy == env.phase \in { "starting", "starting_suspendable", "seeking",
                    "suspending", "resuming" }

(* Completions are delivered in the order they were posted, so those that a *)
(* stopped session left behind come before any of the session that follows. *)
Current == env.leftover = "none"

(* OnPipelineStatus(expected_state, PIPELINE_OK), the pipeline having gone  *)
(* to the phase new.  A seek of the demuxer that ends here has its data     *)
(* unless it was cancelled on the way: a demuxer answers a cancelled seek   *)
(* with PIPELINE_OK too, and one that was cancelled before it began with    *)
(* data (FFmpegDemuxer) or without (ChunkDemuxer).                          *)
MayAnswer(new) ==
  \/ new = "playing" /\ env.phase \in {"starting", "starting_suspendable",
                                       "seeking", "resuming"}
  \/ new = "suspended" /\ env.phase \in {"starting_suspendable", "suspending"}

Answered(new) ==
  IF env.phase \in {"seeking", "resuming"}
    THEN { [env EXCEPT !.phase = new, !.demuxer = "idle",
                       !.landed = [time |-> ctl.seek_time, live |-> fetched]] :
           fetched \in IF env.demuxer = "cancelled" THEN BOOLEAN ELSE {TRUE} }
    ELSE { [env EXCEPT !.phase = new] }

(* Defect: the ambiguity of PLAYING_OR_SUSPENDED is not resolved. *)
OnPipelineStatusOK_Ambiguous(new) ==
  /\ stack = << >> /\ Current /\ MayAnswer(new)
  /\ \E e \in Answered(new) :
       Dispatch([ctl EXCEPT !.state = IF env.phase = "starting_suspendable"
                                        THEN "PLAYING_OR_SUSPENDED"
                                        ELSE "PLAYING",
                            !.waiting_for_seek = FALSE], e, stack)
  /\ UNCHANGED <<wanted, calls>>

OnPipelineStatusOK(new) ==
  LET c == [ctl EXCEPT !.state = IF new = "playing" THEN "PLAYING"
                                                    ELSE "SUSPENDED",
                       !.waiting_for_seek = @ /\ env.phase = "suspending"]
  IN  /\ stack = << >> /\ Current /\ MayAnswer(new)
      /\ \E e \in Answered(new) :
           IF new = "playing" /\ env.phase # "resuming"
             THEN Dispatch(c, e, stack)
             ELSE /\ ctl' = c
                  /\ env' = e
                  /\ stack' = << IF new = "suspended" THEN "suspended_cb"
                                                      ELSE "resumed_cb" >>
      /\ UNCHANGED <<wanted, calls>>

(* OnPipelineStatus(expected_state, error), and Client::OnError() when no   *)
(* operation is under way: either runs WebMediaPlayerImpl::OnError().       *)
OnPipelineError ==
  /\ stack = << >> /\ Current
  /\ Busy \/ env.phase = "playing"
  /\ env' = [env EXCEPT !.phase = "failed"]
  /\ stack' = <<"error_cb">>
  /\ UNCHANGED <<ctl, wanted, calls>>

(* OnTrackChangeComplete(previous_state) moves the controller only if it is *)
(* in SWITCHING_TRACKS.  What a stopped session left comes first.           *)
BackFrom(previous) ==
  IF ctl.state = "SWITCHING_TRACKS" THEN [ctl EXCEPT !.state = previous] ELSE ctl

OnTrackChangeComplete ==
  /\ stack = << >>
  /\ \/ /\ Current /\ env.switching # "none"
        /\ Dispatch(BackFrom(env.switching),
                    [env EXCEPT !.switching = "none"], stack)
     \/ /\ ~Current
        /\ Dispatch(BackFrom(env.leftover),
                    [env EXCEPT !.leftover = "none"], stack)
  /\ UNCHANGED <<wanted, calls>>

(**************************************************************************)
(* A client callback returns into the controller.                           *)

(* Defect: OnPipelineStatus() relies on the callback to have dispatched. *)
ReturnFromStatusCb_NoDispatch ==
  /\ Running("suspended_cb") \/ Running("resumed_cb")
  /\ stack' = Tail(stack)
  /\ UNCHANGED <<ctl, env, wanted, calls>>

(* ... into OnPipelineStatus(), which goes on to Dispatch(). *)
ReturnFromStatusCb ==
  /\ Running("suspended_cb") \/ Running("resumed_cb")
  /\ Dispatch(ctl, env, Tail(stack))
  /\ UNCHANGED <<wanted, calls>>

(* ... into the resume branch of Dispatch(), which calls pipeline_->Resume(). *)
ReturnFromBeforeResumeCb ==
  /\ Running("before_resume_cb")
  /\ env' = [env EXCEPT !.phase = "resuming"]
  /\ stack' = Tail(stack)
  /\ UNCHANGED <<ctl, wanted, calls>>

(* ... into a handler that has nothing left to do.  OnError() has stopped    *)
(* the player by then.                                                       *)
ReturnFromLastCb ==
  /\ Running("seeked_cb") \/ (Running("error_cb") /\ ctl.state = "STOPPED")
  /\ stack' = Tail(stack)
  /\ UNCHANGED <<ctl, env, wanted, calls>>

(**************************************************************************)
Request ==
  \/ \E type \in StartTypes, is_streaming \in Streaming, is_static \in Static :
       Start(type, is_streaming, is_static)
  \/ \E time \in Times, time_updated \in BOOLEAN : Seek(time, time_updated)
  \/ Suspend
  \/ Resume
  \/ OnEnabledAudioTracksChanged
  \/ OnSelectedVideoTrackChanged
  \/ Stop

Answer == (\E new \in {"playing", "suspended"} : OnPipelineStatusOK(new))
          \/ OnTrackChangeComplete

Return == \/ ReturnFromStatusCb \/ ReturnFromBeforeResumeCb
          \/ ReturnFromLastCb \/ StopOnError

Next == Request \/ Answer \/ OnPipelineError \/ Return

(* The pipeline answers what it was asked (module PipelineImpl), and the    *)
(* client's callbacks return.  Nothing makes the client call again.         *)
CallsReturn == WF_vars(Answer) /\ WF_vars(Return)

Spec ==
  /\ Init
  /\ [][Next]_vars
  /\ CallsReturn

(**************************************************************************)
(*                              PROPERTIES                                  *)
(**************************************************************************)
(* The controller only makes calls the pipeline accepts, and the pipeline   *)
(* sees nothing but the contract of base/pipeline.h.                        *)
Contract == INSTANCE Pipeline WITH phase <- env.phase
ContractHolds == Contract!Spec

(* How the states of the controller, of the pipeline and of the demuxer go  *)
(* together: the controller never takes the pipeline to be where it is not, *)
(* in the middle of a callback either, and it waits for a seek only while   *)
(* the pipeline is about to do or doing that seek, which is what the        *)
(* DCHECK(!waiting_for_seek_) of Dispatch() rest on.                        *)
PhaseMatches(c, e, k) ==
  CASE c.state = "STOPPED"    -> e.phase = "stopped"
    [] c.state = "STARTING"   -> e.phase \in {"starting", "starting_suspendable"}
    [] c.state = "PLAYING"    -> e.phase = "playing"
    [] c.state = "SEEKING"    -> e.phase = "seeking"
    [] c.state = "SUSPENDING" -> e.phase = "suspending"
    [] c.state = "SUSPENDED"  -> e.phase = "suspended"
    [] c.state = "RESUMING"   -> e.phase = IF Runs(k, "before_resume_cb")
                                             THEN "suspended" ELSE "resuming"
    [] c.state = "SWITCHING_TRACKS" ->
         \/ e.phase = "playing" /\ e.switching = "PLAYING"
         \/ e.phase = "suspended" /\ e.switching = "SUSPENDED"

Agree(c, e, k) ==
  /\ IF e.phase = "failed" THEN Runs(k, "error_cb") /\ c.state # "STOPPED"
                           ELSE PhaseMatches(c, e, k)
  /\ c.waiting_for_seek => /\ c.state \in {"SEEKING", "RESUMING"}
                           /\ e.demuxer = "expecting"
  /\ e.switching # "none" <=> c.state = "SWITCHING_TRACKS"
  /\ e.leftover # "none" => c.state \in {"STOPPED", "STARTING"}

Agreement == Agree(ctl, env, stack)

(* A stream that is resumed at zero instead of where it was suspended has   *)
(* its time change reported at once, says the comment in Dispatch(): "we    *)
(* want to make sure that the controls get updated immediately".  So no     *)
(* report of it is outstanding when the controller is at rest.              *)
TimeUpdateReported ==
  stack = << >> /\ ctl.state = "PLAYING" => ~ctl.pending_time_updated

(* Cancelling the seek the demuxer waits for loses its data: the controller *)
(* never rests in PLAYING where the last seek was cancelled, unless the     *)
(* media is static and seeks may be elided.                                 *)
PlayingHasData ==
  stack = << >> /\ ctl.state = "PLAYING" /\ ~ctl.is_static => env.landed.live

(* "If we are already seeking to |time|, and the media is static, elide the *)
(* seek", says Seek(): then the seek under way is one that will get its     *)
(* data, and there is no exception for static media.                        *)
ElisionKeepsData ==
  stack = << >> /\ ctl.state = "PLAYING" => env.landed.live

(* seeked_cb_ reports the end of the seek that was asked for last: the      *)
(* pipeline has gone to that very time (a stream that is resumed, to zero)  *)
(* and has data there (ElisionKeepsData apart), whatever was cancelled,     *)
(* merged into a resume or preceded by a track change; if it was suspended  *)
(* there before it could report, it has resumed where playback had come to. *)
(* Only the report that a start ended suspended may leave a seek for later. *)
Reports == /\ Len(stack') >= Len(stack) /\ stack' # stack
           /\ Head(stack') = "seeked_cb"

Arrived == /\ \/ env'.landed.time = env'.asked
              \/ ctl'.is_streaming /\ env'.landed.time = 0
           /\ env'.landed.live \/ ctl'.is_static

SeekedReportsArrival ==
  [][ Reports /\ env'.asked # NoRequest =>
        Arrived \/ (ctl'.state = "SUSPENDED" /\ ctl'.pending_seek) ]_vars

(* The comment of Seek() in the header has no such exception: "|seeked_cb_| *)
(* will not be called until the later Resume() completes".                  *)
SeekedOnlyOnArrival == [][ Reports /\ env'.asked # NoRequest => Arrived ]_vars

(* Suspend() and Resume() are obeyed in the order they were called: once    *)
(* the pipeline has nothing left to answer, it is where the last of them    *)
(* wanted it, though other requests, track changes and cancelled seeks came *)
(* in between.                                                              *)
Settled == /\ stack = << >> /\ env.switching = "none"
           /\ ~Busy /\ env.phase # "stopped"

LastRequestObeyed ==
  Settled => /\ wanted = "suspend" => ctl.state = "SUSPENDED"
             /\ wanted = "resume" => ctl.state = "PLAYING"

(* The header allows Resume() to be ignored only "if |pipeline_| has not    *)
(* been suspended".                                                         *)
ResumeNeverIgnored ==
  Settled /\ wanted \in {"resume", "resume_while_switching"}
    => ctl.state = "PLAYING"

(* A seek the client asked for is eventually reported, unless the pipeline  *)
(* comes to rest suspended or the player is stopped (which clears the flag).*)
SeekIsAnswered ==
  ctl.pending_seek_except_start ~>
    \/ ~ctl.pending_seek_except_start
    \/ Settled /\ ctl.state = "SUSPENDED"
    \/ ctl.state = "STOPPED"
=============================================================================
