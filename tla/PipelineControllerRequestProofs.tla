------------------- MODULE PipelineControllerRequestProofs -------------------
(***************************************************************************)
(* What becomes of the requests a PipelineController has accepted: no seek  *)
(* of live media loses its data, Suspend() and Resume() are obeyed in the   *)
(* order they were called, and seeked_cb_ tells the truth.                  *)
(***************************************************************************)
EXTENDS PipelineControllerProofs

(* Callbacks after which OnPipelineStatus() still goes on to Dispatch().    *)
DispatchDue(k) ==
  \E i \in 1 .. Len(k) : k[i] \in {"suspended_cb", "resumed_cb"}

(* What Dispatch() leaves: nothing that could be begun is pending.          *)
Dispatched(c) == /\ c.state = "PLAYING" => ~Pending(c)
                 /\ c.state = "SUSPENDED" => ~c.pending_resume

Moving(c) == c.state \in {"SEEKING", "RESUMING"}

(* Where live media has no data, or the seek under way is cancelled, there  *)
(* is a seek to come.                                                       *)
DataKept(c, e) ==
  /\ c.state = "STOPPED" => e.landed.live
  /\ ~c.is_static => /\ ~e.landed.live => c.pending_seek \/ Moving(c)
                     /\ Moving(c) /\ ~c.waiting_for_seek => c.pending_seek

(* Where the requests so far take the pipeline.                             *)
Target(c, e) == IF c.pending_seek THEN c.pending_seek_time
                ELSE IF Moving(c) THEN c.seek_time
                ELSE e.landed.time

Headed(c, e) ==
  e.asked # NoRequest =>
    /\ c.state = "STOPPED" => c.pending_seeked_cb /\ Target(c, e) = e.asked
    /\ c.pending_seeked_cb => \/ Target(c, e) = e.asked
                              \/ c.is_streaming /\ Target(c, e) = 0

(* The pipeline is suspended or about to be; it plays or is about to.       *)
Down(c, e) == \/ c.state \in {"SUSPENDING", "SUSPENDED"}
              \/ c.state = "SWITCHING_TRACKS" /\ e.switching = "SUSPENDED"

Up(c, e) == \/ c.state \in {"RESUMING", "SEEKING", "PLAYING"}
            \/ c.state = "SWITCHING_TRACKS" /\ e.switching = "PLAYING"

Obeyed(c, e, w) ==
  /\ w = "suspend" => ~c.pending_resume /\ (c.pending_suspend \/ Down(c, e))
  /\ w = "resume" => /\ ~c.pending_suspend
                     /\ (c.pending_resume /\ Down(c, e)) \/ Up(c, e)

Kept(c, e, w) == DataKept(c, e) /\ Headed(c, e) /\ Obeyed(c, e, w)

(* PlayingHasData and LastRequestObeyed speak of the controller at rest;    *)
(* this is what holds of it on the way there.                               *)
RInv == /\ IInv
        /\ Kept(ctl, env, wanted)
        /\ DispatchDue(stack) \/ Dispatched(ctl)

(**************************************************************************)
(* Dispatch() keeps what the requests are to come to, and leaves nothing    *)
(* undone that it could begin.                                              *)
LEMMA DispatchKeeps ==
  ASSUME NEW c \in Members, NEW e \in Environment, NEW k \in Seq(Callbacks),
         NEW w, Agree(c, e, k), ~Runs(k, "error_cb"), Kept(c, e, w),
         Dispatch(c, e, k)
  PROVE  Kept(ctl', env', w) /\ Dispatched(ctl')
<1>. USE DEF Members, Environment, Kept, DataKept, Headed, Obeyed, Target,
             Moving, Down, Up, Dispatched, Pending
<1>0. c.waiting_for_seek => Moving(c)
  BY DEF Agree
<1>1. CASE WantsSuspend(c) /\ DispatchSuspend(c, e, k)
  BY <1>0, <1>1 DEF WantsSuspend, DispatchSuspend
<1>2. CASE WantsResume(c) /\ DispatchResume(c, e, k)
  <2>1. PICK now \in e.landed.time .. MaxTime :
          LET wish   == IF c.pending_seek THEN c.pending_seek_time ELSE now
              rewind == c.is_streaming /\ wish # 0
          IN  /\ ctl'.seek_time = (IF rewind THEN 0 ELSE wish)
              /\ env'.asked = (IF c.pending_seek \/ e.asked # e.landed.time
                                 THEN e.asked ELSE now)
    BY <1>2 DEF DispatchResume
  <2>2. /\ c.state = "SUSPENDED"
        /\ ctl'.state = "RESUMING" /\ ~ctl'.pending_seek /\ ctl'.waiting_for_seek
        /\ ~ctl'.pending_resume /\ ctl'.pending_suspend = c.pending_suspend
        /\ ctl'.is_static = c.is_static /\ ctl'.is_streaming = c.is_streaming
        /\ ctl'.pending_seeked_cb = c.pending_seeked_cb
        /\ env'.landed = e.landed
    BY <1>2 DEF WantsResume, DispatchResume
  <2>3. DataKept(ctl', env') /\ Dispatched(ctl')
    BY <2>2
  <2>4. Headed(ctl', env')
    BY <2>1, <2>2
  <2>5. Obeyed(ctl', env', w)
    BY <1>2, <2>2 DEF WantsResume
  <2>. QED
    BY <2>3, <2>4, <2>5
<1>3. CASE WantsCancel(c) /\ DispatchCancel(c, e, k)
  BY <1>0, <1>3 DEF WantsCancel, DispatchCancel
<1>4. CASE WantsTrackSwitch(c) /\ DispatchTrackSwitch(c, e, k)
  BY <1>0, <1>4 DEF WantsTrackSwitch, DispatchTrackSwitch
<1>5. CASE ~WantsSuspend(c) /\ WantsSeek(c) /\ DispatchSeek(c, e, k)
  BY <1>0, <1>5 DEF WantsSuspend, WantsSeek, DispatchSeek
<1>6. CASE /\ ~WantsSuspend(c) /\ ~WantsResume(c) /\ ~WantsTrackSwitch(c)
           /\ ~WantsSeek(c) /\ WantsSeekedCb(c) /\ DispatchSeekedCb(c, e, k)
  BY <1>6 DEF WantsSuspend, WantsResume, WantsTrackSwitch, WantsSeek,
              WantsSeekedCb, DispatchSeekedCb
<1>7. CASE /\ ~WantsSuspend(c) /\ ~WantsResume(c) /\ ~WantsTrackSwitch(c)
           /\ ~WantsSeek(c) /\ DispatchNothing(c, e, k)
  BY <1>7 DEF WantsSuspend, WantsResume, WantsTrackSwitch, WantsSeek,
              DispatchNothing
<1>. QED
  BY <1>1, <1>2, <1>3, <1>4, <1>5, <1>6, <1>7 DEF Dispatch

(* A step either passes through Dispatch(), with members and an environment *)
(* that keep the requests, on the stack as it is or without its innermost   *)
(* callback; or it leaves things in order itself and reports no seek.       *)
Passes ==
  \E c \in Members, e \in Environment, k \in Seq(Callbacks) :
    /\ Agree(c, e, k) /\ ~Runs(k, "error_cb")
    /\ Kept(c, e, wanted')
    /\ k = stack \/ (stack # << >> /\ k = Tail(stack))
    /\ Dispatch(c, e, k)

Rests == /\ Kept(ctl', env', wanted')
         /\ DispatchDue(stack') \/ Dispatched(ctl')
         /\ ~Reports

(* A request that only changed flags before it came to Dispatch().          *)
LEMMA RequestPasses ==
  ASSUME RInv, NEW c \in Members, NEW e \in Environment,
         c.state = ctl.state, c.waiting_for_seek = ctl.waiting_for_seek,
         e.phase = env.phase, e.demuxer = env.demuxer,
         e.switching = env.switching, e.leftover = env.leftover,
         ~Running("error_cb"), Kept(c, e, wanted'), Dispatch(c, e, stack)
  PROVE  Passes
<1>1. Agree(c, e, stack) /\ stack \in Seq(Callbacks)
  BY DEF RInv, IInv, TypeOK, Agreement, Agree, PhaseMatches
<1>. QED
  BY <1>1 DEF Passes, Running

LEMMA StopKeeps ==
  ASSUME RInv, StopNow
  PROVE  Rests
<1>1. /\ ctl'.state = "STOPPED" /\ env'.landed.live /\ env'.asked = NoRequest
      /\ wanted' = "none" /\ stack' = stack
  BY DEF StopNow, Stopped, RInv, IInv, TypeOK, Members
<1>. QED
  BY <1>1 DEF Kept, DataKept, Headed, Obeyed, Moving, Dispatched, Rests, Reports

LEMMA KeptInit == Init => RInv
<1>1. Init => Kept(ctl, env, wanted) /\ Dispatched(ctl)
  BY DEF Init, Kept, DataKept, Headed, Obeyed, Target, Moving, Dispatched
<1>. QED
  BY <1>1, InitInv DEF RInv

LEMMA StepKeeps == RInv /\ [Next]_vars => Passes \/ Rests
<1>. SUFFICES ASSUME RInv, [Next]_vars PROVE Passes \/ Rests
  OBVIOUS
<1>0. /\ ctl \in Members /\ env \in Environment /\ stack \in Seq(Callbacks)
      /\ Agree(ctl, env, stack)
      /\ stack = << >> => ~DispatchDue(stack) /\ ~Runs(stack, "before_resume_cb")
                                             /\ ~Runs(stack, "error_cb")
  BY DEF RInv, IInv, TypeOK, Agreement, DispatchDue, Runs
<1>. USE <1>0 DEF RInv, Kept
<1>1. ASSUME NEW type \in StartTypes, NEW streaming \in Streaming,
             NEW static \in Static, Start(type, streaming, static)
      PROVE  Passes \/ Rests
  <2>1. /\ ctl.state = "STOPPED" /\ ctl'.state = "STARTING"
        /\ ctl'.pending_seek = ctl.pending_seek
        /\ ctl'.pending_seek_time = ctl.pending_seek_time
        /\ ctl'.pending_seeked_cb
        /\ ctl'.pending_suspend = ctl.pending_suspend
        /\ ctl'.pending_resume = ctl.pending_resume
        /\ env'.landed = env.landed /\ env'.asked = env.asked
        /\ wanted' = wanted /\ stack' = stack
    BY <1>1 DEF Start, Members, Environment
  <2>. QED
    BY <2>1 DEF DataKept, Headed, Obeyed, Target, Moving, Up, Down, Dispatched,
                Rests, Reports
<1>2. ASSUME NEW time \in Times, NEW updated \in BOOLEAN, Seek(time, updated)
      PROVE  Passes \/ Rests
  <2>. DEFINE e == [env EXCEPT !.asked = time]
              c0 == [ctl EXCEPT !.pending_time_updated = @ \/ updated,
                                !.pending_seeked_cb = TRUE,
                                !.pending_seek_except_start = TRUE]
              c1 == [c0 EXCEPT !.pending_seek = FALSE]
              c2 == [c0 EXCEPT !.pending_seek_time = time,
                               !.pending_seek = TRUE]
  <2>0. /\ e \in Environment /\ e.asked = time /\ e.landed = env.landed
        /\ e.phase = env.phase /\ e.demuxer = env.demuxer
        /\ e.switching = env.switching /\ e.leftover = env.leftover
    BY DEF Environment
  <2>1. \A c \in {c1, c2} :
          /\ c \in Members
          /\ c.state = ctl.state /\ c.waiting_for_seek = ctl.waiting_for_seek
          /\ c.pending_suspend = ctl.pending_suspend
          /\ c.pending_resume = ctl.pending_resume
          /\ c.is_static = ctl.is_static /\ c.seek_time = ctl.seek_time
          /\ c.pending_seeked_cb
    <3>1. (ctl.pending_time_updated \/ updated) \in BOOLEAN
      OBVIOUS
    <3>2. /\ c0 \in Members
          /\ c0.state = ctl.state /\ c0.waiting_for_seek = ctl.waiting_for_seek
          /\ c0.pending_suspend = ctl.pending_suspend
          /\ c0.pending_resume = ctl.pending_resume
          /\ c0.is_static = ctl.is_static /\ c0.seek_time = ctl.seek_time
          /\ c0.pending_seeked_cb
      BY <3>1 DEF Members
    <3>. HIDE DEF c0
    <3>3. /\ c1 \in Members /\ c1.pending_seeked_cb
          /\ c1.state = ctl.state /\ c1.waiting_for_seek = ctl.waiting_for_seek
          /\ c1.pending_suspend = ctl.pending_suspend
          /\ c1.pending_resume = ctl.pending_resume
          /\ c1.is_static = ctl.is_static /\ c1.seek_time = ctl.seek_time
      BY <3>2 DEF Members
    <3>4. /\ c2 \in Members /\ c2.pending_seeked_cb
          /\ c2.state = ctl.state /\ c2.waiting_for_seek = ctl.waiting_for_seek
          /\ c2.pending_suspend = ctl.pending_suspend
          /\ c2.pending_resume = ctl.pending_resume
          /\ c2.is_static = ctl.is_static /\ c2.seek_time = ctl.seek_time
      BY <3>2 DEF Members
    <3>. HIDE DEF c1, c2
    <3>. QED
      BY <3>3, <3>4
  <2>2. ~c1.pending_seek /\ c2.pending_seek /\ c2.pending_seek_time = time
    BY DEF Members
  <2>3. ~Running("error_cb") /\ wanted' = wanted
    BY <1>2 DEF Seek, MayRequest, Running, Runs
  <2>4. \/ Dispatch(c2, e, stack)
        \/ Elided(time) /\ ctl' = c1 /\ env' = e /\ stack' = stack
    BY <1>2 DEF Seek
  <2>. HIDE DEF c0, c1, c2, e
  <2>5. Kept(c2, e, wanted)
    BY <2>0, <2>1, <2>2 DEF DataKept, Headed, Obeyed, Target, Up, Down
  <2>6. Elided(time) => Kept(c1, e, wanted) /\ Dispatched(c1)
    BY <2>0, <2>1, <2>2 DEF Elided, DataKept, Headed, Obeyed, Target, Moving,
                            Up, Down, Dispatched
  <2>. QED
    BY <2>0, <2>1, <2>3, <2>4, <2>5, <2>6, RequestPasses DEF Rests, Reports
<1>3. ASSUME Suspend PROVE Passes \/ Rests
  <2>. DEFINE c1 == [ctl EXCEPT !.pending_resume = FALSE]
              c2 == [c1 EXCEPT !.pending_suspend = TRUE]
  <2>1. \A c \in {c1, c2} :
          /\ c \in Members
          /\ c.state = ctl.state /\ c.waiting_for_seek = ctl.waiting_for_seek
          /\ c.pending_seek = ctl.pending_seek
          /\ c.pending_seek_time = ctl.pending_seek_time
          /\ c.pending_seeked_cb = ctl.pending_seeked_cb
          /\ c.is_static = ctl.is_static /\ c.seek_time = ctl.seek_time
          /\ c.is_streaming = ctl.is_streaming /\ ~c.pending_resume
    BY DEF Members
  <2>2. c2.pending_suspend
    BY DEF Members
  <2>3. ~Running("error_cb") /\ wanted' = "suspend"
    BY <1>3 DEF Suspend, MaySetSuspendState, MayRequest, Running, Runs
  <2>4. IF ctl.state \in {"SUSPENDING", "SUSPENDED"}
          THEN ctl' = c1 /\ env' = env /\ stack' = stack
          ELSE Dispatch(c2, env, stack)
    BY <1>3 DEF Suspend
  <2>. HIDE DEF c1, c2
  <2>5. \A c \in {c1, c2} : DataKept(c, env) /\ Headed(c, env)
    BY <2>1 DEF DataKept, Headed, Target, Moving
  <2>6. CASE ctl.state \in {"SUSPENDING", "SUSPENDED"}
    BY <2>1, <2>3, <2>4, <2>5, <2>6 DEF Obeyed, Down, Dispatched, Rests, Reports
  <2>7. CASE ctl.state \notin {"SUSPENDING", "SUSPENDED"}
    <3>1. Kept(c2, env, wanted')
      BY <2>1, <2>2, <2>3, <2>5 DEF Obeyed
    <3>. QED
      BY <2>1, <2>3, <2>4, <2>7, <3>1, RequestPasses
  <2>. QED
    BY <2>6, <2>7
<1>4. ASSUME Resume
      PROVE  Passes \/ Rests
  <2>. DEFINE c1 == [ctl EXCEPT !.pending_suspend = FALSE]
              c2 == [c1 EXCEPT !.pending_resume = TRUE]
  <2>1. \A c \in {c1, c2} :
          /\ c \in Members
          /\ c.state = ctl.state /\ c.waiting_for_seek = ctl.waiting_for_seek
          /\ c.pending_seek = ctl.pending_seek
          /\ c.pending_seek_time = ctl.pending_seek_time
          /\ c.pending_seeked_cb = ctl.pending_seeked_cb
          /\ c.pending_audio_track = ctl.pending_audio_track
          /\ c.pending_video_track = ctl.pending_video_track
          /\ c.is_static = ctl.is_static /\ c.seek_time = ctl.seek_time
          /\ c.is_streaming = ctl.is_streaming /\ ~c.pending_suspend
    BY DEF Members
  <2>2. c2.pending_resume /\ c1.pending_resume = ctl.pending_resume
    BY DEF Members
  <2>3. /\ ~Running("error_cb") /\ wanted' # "suspend"
        /\ wanted' = "resume" => /\ env.phase \in {"suspending", "suspended"}
                                 /\ ctl.state # "SWITCHING_TRACKS"
    BY <1>4 DEF Resume, MaySetSuspendState, MayRequest, Running, Runs
  <2>4. IF ctl.state \in {"SUSPENDING", "SUSPENDED"}
          THEN Dispatch(c2, env, stack)
          ELSE ctl' = c1 /\ env' = env /\ stack' = stack
    BY <1>4 DEF Resume
  <2>. HIDE DEF c1, c2
  <2>5. \A c \in {c1, c2} : DataKept(c, env) /\ Headed(c, env)
    BY <2>1 DEF DataKept, Headed, Target, Moving
  <2>6. CASE ctl.state \in {"SUSPENDING", "SUSPENDED"}
    <3>1. Kept(c2, env, wanted')
      BY <2>1, <2>2, <2>3, <2>5, <2>6 DEF Obeyed, Down
    <3>. QED
      BY <2>1, <2>3, <2>4, <2>6, <3>1, RequestPasses
  <2>7. CASE ctl.state \notin {"SUSPENDING", "SUSPENDED"}
    <3>1. wanted' = "resume" => ctl.state = "RESUMING"
      BY <2>3, <2>7 DEF Agree, PhaseMatches, Members, States
    <3>2. Kept(c1, env, wanted')
      BY <2>1, <2>3, <2>5, <3>1 DEF Obeyed, Up
    <3>3. Dispatched(ctl) => Dispatched(c1)
      BY <2>1, <2>2 DEF Dispatched, Pending
    <3>. QED
      BY <2>4, <2>7, <3>2, <3>3 DEF Rests, Reports
  <2>. QED
    BY <2>6, <2>7
<1>5. ASSUME OnEnabledAudioTracksChanged \/ OnSelectedVideoTrackChanged
      PROVE  Passes \/ Rests
  <2>1. PICK c \in { [ctl EXCEPT !.pending_audio_track = TRUE],
                     [ctl EXCEPT !.pending_video_track = TRUE] } :
          Dispatch(c, env, stack)
    BY <1>5 DEF OnEnabledAudioTracksChanged, OnSelectedVideoTrackChanged
  <2>2. /\ c \in Members
        /\ c.state = ctl.state /\ c.waiting_for_seek = ctl.waiting_for_seek
        /\ c.pending_seek = ctl.pending_seek
        /\ c.pending_seek_time = ctl.pending_seek_time
        /\ c.pending_seeked_cb = ctl.pending_seeked_cb
        /\ c.pending_suspend = ctl.pending_suspend
        /\ c.pending_resume = ctl.pending_resume
        /\ c.is_static = ctl.is_static /\ c.seek_time = ctl.seek_time
        /\ c.is_streaming = ctl.is_streaming
    BY <2>1 DEF Members
  <2>3. Kept(c, env, wanted)
    BY <2>2 DEF DataKept, Headed, Obeyed, Target, Moving, Up, Down
  <2>4. ~Running("error_cb") /\ wanted' = wanted
    BY <1>5 DEF OnEnabledAudioTracksChanged, OnSelectedVideoTrackChanged,
                MaySwitchVideo, MayRequest, Running, Runs
  <2>. QED
    BY <2>1, <2>2, <2>3, <2>4, RequestPasses
<1>6. ASSUME Stop \/ StopOnError
      PROVE  Passes \/ Rests
  BY <1>6, StopKeeps DEF Stop, StopOnError
<1>7. ASSUME NEW new \in {"playing", "suspended"}, OnPipelineStatusOK(new)
      PROVE  Passes \/ Rests
  <2>. DEFINE c == [ctl EXCEPT !.state = IF new = "playing" THEN "PLAYING"
                                                            ELSE "SUSPENDED",
                               !.waiting_for_seek =
                                  @ /\ env.phase = "suspending"]
  <2>1. PICK e \in Answered(new) :
          \/ Dispatch(c, e, stack)
          \/ /\ ctl' = c /\ env' = e
             /\ stack' \in {<<"suspended_cb">>, <<"resumed_cb">>}
    BY <1>7 DEF OnPipelineStatusOK
  <2>2. /\ stack = << >> /\ wanted' = wanted /\ MayAnswer(new)
        /\ env.switching = "none" /\ env.leftover = "none"
    BY <1>7 DEF OnPipelineStatusOK, MayAnswer, Current, Agree, PhaseMatches,
                Members, States
  <2>3. PhaseMatches(ctl, env, stack)
    BY <2>2 DEF Agree, MayAnswer
  <2>4. /\ e \in Environment /\ e.phase = new /\ e.asked = env.asked
        /\ e.switching = "none" /\ e.leftover = "none"
        /\ IF env.phase \in {"seeking", "resuming"}
             THEN /\ e.landed.time = ctl.seek_time
                  /\ env.demuxer # "cancelled" => e.landed.live
             ELSE e.landed = env.landed
    BY <2>1, <2>2, AnswerType DEF IInv
  <2>5. /\ c \in Members /\ c.state = (IF new = "playing" THEN "PLAYING"
                                                         ELSE "SUSPENDED")
        /\ c.pending_seek = ctl.pending_seek
        /\ c.pending_seek_time = ctl.pending_seek_time
        /\ c.pending_seeked_cb = ctl.pending_seeked_cb
        /\ c.pending_suspend = ctl.pending_suspend
        /\ c.pending_resume = ctl.pending_resume
        /\ c.is_static = ctl.is_static /\ c.seek_time = ctl.seek_time
        /\ c.is_streaming = ctl.is_streaming
    <3>1. (ctl.waiting_for_seek /\ env.phase = "suspending") \in BOOLEAN
      BY Zenon
    <3>2. (IF new = "playing" THEN "PLAYING" ELSE "SUSPENDED") \in States
      BY DEF States
    <3>. QED
      BY <3>1, <3>2 DEF Members
  <2>6. ~c.waiting_for_seek
    BY <2>2, <2>3 DEF MayAnswer, Agree, PhaseMatches, Members, States
  <2>. HIDE DEF c
  <2>7. /\ Moving(ctl) <=> env.phase \in {"seeking", "resuming"}
        /\ ctl.state # "STOPPED"
        /\ Moving(ctl) /\ env.demuxer = "cancelled" => ~ctl.waiting_for_seek
        /\ new = "playing" => ctl.state \in {"STARTING", "SEEKING", "RESUMING"}
        /\ new = "suspended" => ctl.state \in {"STARTING", "SUSPENDING"}
    BY <2>2, <2>3 DEF MayAnswer, Moving, Agree, PhaseMatches, Members, States
  <2>8. DataKept(c, e) /\ Headed(c, e)
    BY <2>4, <2>5, <2>7 DEF DataKept, Headed, Target, Moving
  <2>9. Obeyed(c, e, wanted)
    BY <2>4, <2>5, <2>7 DEF Obeyed, Up, Down
  <2>10. CASE Dispatch(c, e, stack)
    <3>1. Agree(c, e, stack)
      BY <2>2, <2>4, <2>5, <2>6 DEF Agree, PhaseMatches
    <3>. QED
      BY <2>2, <2>4, <2>5, <2>8, <2>9, <2>10, <3>1 DEF Passes
  <2>11. CASE /\ ctl' = c /\ env' = e
              /\ stack' \in {<<"suspended_cb">>, <<"resumed_cb">>}
    <3>1. DispatchDue(stack') /\ ~Reports
      BY <2>11 DEF DispatchDue, Reports
    <3>. QED
      BY <2>2, <2>8, <2>9, <2>11, <3>1 DEF Rests
  <2>. QED
    BY <2>1, <2>10, <2>11
<1>8. ASSUME OnPipelineError
      PROVE  Passes \/ Rests
  <2>1. /\ ctl' = ctl /\ wanted' = wanted /\ stack = << >>
        /\ env'.landed = env.landed /\ env'.asked = env.asked
        /\ env'.switching = env.switching /\ ~Reports
    BY <1>8 DEF OnPipelineError, Environment, Reports
  <2>. QED
    BY <2>1 DEF DataKept, Headed, Obeyed, Target, Up, Down, Rests
<1>9. ASSUME OnTrackChangeComplete
      PROVE  Passes \/ Rests
  <2>. DEFINE s == IF Current THEN env.switching ELSE env.leftover
              c == BackFrom(s)
              e == IF Current THEN [env EXCEPT !.switching = "none"]
                              ELSE [env EXCEPT !.leftover = "none"]
  <2>1. /\ s \in {"PLAYING", "SUSPENDED"} /\ Dispatch(c, e, stack)
        /\ stack = << >> /\ wanted' = wanted
    BY <1>9 DEF OnTrackChangeComplete, Current, Environment, TrackChanges
  <2>2. c \in Members /\ e \in Environment
    BY <2>1 DEF BackFrom, Members, States, Environment, TrackChanges
  <2>3. Agree(c, e, stack)
    BY <2>1 DEF BackFrom, Current, Agree, PhaseMatches, Members, Environment,
                States
  <2>4. Kept(c, e, wanted)
    BY <2>1 DEF BackFrom, Current, Agree, DataKept, Headed, Obeyed, Target,
                Moving, Up, Down, Members, Environment, States
  <2>. QED
    BY <2>1, <2>2, <2>3, <2>4 DEF Passes
<1>10. ASSUME ReturnFromStatusCb
       PROVE  Passes \/ Rests
  <2>1. /\ Tail(stack) \in Seq(Callbacks) /\ ~Runs(Tail(stack), "error_cb")
        /\ ~Runs(Tail(stack), "before_resume_cb")
    BY <1>10 DEF ReturnFromStatusCb, Running, Runs, IInv, StackShape
  <2>2. Agree(ctl, env, Tail(stack))
    BY <1>10, <2>1 DEF ReturnFromStatusCb, Running, Runs, Agree, PhaseMatches
  <2>3. /\ Dispatch(ctl, env, Tail(stack)) /\ wanted' = wanted
        /\ stack # << >>
    BY <1>10 DEF ReturnFromStatusCb, Running, Runs
  <2>. QED
    BY <2>1, <2>2, <2>3 DEF Passes
<1>11. ASSUME ReturnFromBeforeResumeCb
       PROVE  Passes \/ Rests
  <2>1. /\ ctl' = ctl /\ wanted' = wanted /\ ctl.state = "RESUMING"
        /\ env'.landed = env.landed /\ env'.asked = env.asked
        /\ env'.switching = env.switching
        /\ stack' = Tail(stack) /\ stack # << >>
    BY <1>11 DEF ReturnFromBeforeResumeCb, Environment, IInv, StackShape,
                 Running, Runs
  <2>2. ~Reports
    BY <2>1 DEF Reports
  <2>. QED
    BY <2>1, <2>2 DEF DataKept, Headed, Obeyed, Target, Up, Down, Dispatched, Rests
<1>12. ASSUME ReturnFromLastCb
       PROVE  Passes \/ Rests
  <2>1. /\ ctl' = ctl /\ env' = env /\ wanted' = wanted /\ stack # << >>
        /\ stack' = Tail(stack) /\ Head(stack) \in {"seeked_cb", "error_cb"}
    BY <1>12 DEF ReturnFromLastCb, Running, Runs
  <2>2. ASSUME DispatchDue(stack) PROVE DispatchDue(stack')
    <3>1. PICK i \in 1 .. Len(stack) : stack[i] \in {"suspended_cb", "resumed_cb"}
      BY <2>2 DEF DispatchDue
    <3>2. /\ i # 1 /\ i - 1 \in 1 .. Len(Tail(stack))
          /\ Tail(stack)[i - 1] = stack[i]
      BY <2>1, <3>1
    <3>. QED
      BY <2>1, <3>1, <3>2 DEF DispatchDue
  <2>3. ~Reports
    BY <2>1 DEF Reports
  <2>. QED
    BY <2>1, <2>2, <2>3 DEF Rests
<1>13. CASE UNCHANGED vars
  BY <1>13 DEF vars, Rests, Reports
<1>. QED
  BY <1>1, <1>2, <1>3, <1>4, <1>5, <1>6, <1>7, <1>8, <1>9, <1>10, <1>11, <1>12,
     <1>13 DEF Next, Request, Answer, Return

LEMMA KeptNext == RInv /\ [Next]_vars => RInv'
<1>. SUFFICES ASSUME RInv, [Next]_vars PROVE RInv'
  OBVIOUS
<1>1. Passes \/ Rests
  BY StepKeeps
<1>2. Passes => Kept(ctl', env', wanted') /\ Dispatched(ctl')
  BY DispatchKeeps DEF Passes
<1>. QED
  BY <1>1, <1>2, NextInv DEF RInv, Rests

(* A seek of live media that was cancelled on its way to the demuxer, by a  *)
(* newer seek, a suspension or a track change, is done again before the     *)
(* controller comes to rest in PLAYING.                                     *)
THEOREM NoSeekLosesItsData == Spec => []PlayingHasData
<1>1. RInv => PlayingHasData
  BY DEF RInv, Kept, DataKept, Moving, Dispatched, DispatchDue, Pending,
         PlayingHasData
<1>. QED
  BY <1>1, KeptInit, KeptNext, PTL DEF Spec

(* Once the pipeline owes no answer, it is suspended if Suspend() was called*)
(* last and plays if Resume() was, whatever was asked in between.           *)
THEOREM LastRequestWins == Spec => []LastRequestObeyed
<1>1. RInv => LastRequestObeyed
  <2>. SUFFICES ASSUME RInv, Settled
                PROVE  /\ wanted = "suspend" => ctl.state = "SUSPENDED"
                       /\ wanted = "resume" => ctl.state = "PLAYING"
    BY DEF LastRequestObeyed
  <2>1. ctl \in Members /\ env \in Environment /\ Agree(ctl, env, stack)
    BY DEF RInv, IInv, TypeOK, Agreement
  <2>2. ctl.state \in {"PLAYING", "SUSPENDED"}
    BY <2>1 DEF Settled, Busy, Agree, PhaseMatches, Runs, Members, States
  <2>3. Dispatched(ctl) /\ Obeyed(ctl, env, wanted)
    BY DEF RInv, Kept, Settled, DispatchDue
  <2>. QED
    BY <2>2, <2>3 DEF Dispatched, Obeyed, Up, Down, Pending
<1>. QED
  BY <1>1, KeptInit, KeptNext, PTL DEF Spec

(**************************************************************************)
(* Dispatch() runs seeked_cb_ only when nothing is left to be done before.  *)
LEMMA DispatchReports ==
  ASSUME NEW c \in Members, NEW e \in Environment, NEW k \in Seq(Callbacks),
         NEW w, Agree(c, e, k), Kept(c, e, w), Dispatch(c, e, k),
         stack' # k, Head(stack') = "seeked_cb", env'.asked # NoRequest
  PROVE  Arrived \/ (ctl'.state = "SUSPENDED" /\ ctl'.pending_seek)
<1>. USE DEF Members, Environment
<1>1. ASSUME DispatchResume(c, e, k) PROVE FALSE
  <2>1. stack' = <<"before_resume_cb">> \o k
    BY <1>1 DEF DispatchResume
  <2>2. Head(<<"before_resume_cb">> \o k) = "before_resume_cb"
    OBVIOUS
  <2>. QED
    BY <2>1, <2>2
<1>2. /\ ~WantsSuspend(c) /\ ~WantsTrackSwitch(c) /\ ~WantsSeek(c)
      /\ WantsSeekedCb(c) /\ DispatchSeekedCb(c, e, k)
  BY <1>1 DEF Dispatch, DispatchSuspend, DispatchCancel, DispatchTrackSwitch,
              DispatchSeek, DispatchNothing
<1>3. /\ ctl'.state = c.state /\ ctl'.pending_seek = c.pending_seek
      /\ ctl'.is_static = c.is_static /\ ctl'.is_streaming = c.is_streaming
      /\ env' = e /\ c.pending_seeked_cb
      /\ c.state \in {"PLAYING", "SUSPENDED"}
      /\ c.state = "PLAYING" => ~c.pending_seek
  BY <1>2 DEF DispatchSeekedCb, WantsSeekedCb, WantsSeek
<1>4. ASSUME ~c.pending_seek PROVE Arrived
  BY <1>3, <1>4 DEF Kept, DataKept, Headed, Target, Moving, Arrived
<1>. QED
  BY <1>3, <1>4

(* When seeked_cb_ is run on behalf of a Seek(), the pipeline has gone where*)
(* that Seek() wanted it (a stream that was resumed, to zero) and live media*)
(* has data there, or the seek is known to be still to come because the     *)
(* start it interrupted ended suspended.                                    *)
THEOREM ReportsAreTrue == Spec => SeekedReportsArrival
<1>. DEFINE Report == Reports /\ env'.asked # NoRequest =>
                        Arrived \/ (ctl'.state = "SUSPENDED" /\ ctl'.pending_seek)
<1>1. RInv /\ [Next]_vars => [Report]_vars
  <2>. SUFFICES ASSUME RInv, [Next]_vars, Reports, env'.asked # NoRequest
                PROVE  Arrived \/ (ctl'.state = "SUSPENDED" /\ ctl'.pending_seek)
    OBVIOUS
  <2>1. Passes
    BY StepKeeps DEF Rests
  <2>2. PICK c \in Members, e \in Environment, k \in Seq(Callbacks) :
          /\ Agree(c, e, k) /\ Kept(c, e, wanted') /\ Dispatch(c, e, k)
          /\ k = stack \/ (stack # << >> /\ k = Tail(stack))
    BY <2>1 DEF Passes
  <2>3. stack' # k /\ Head(stack') = "seeked_cb"
    BY <2>2 DEF Reports, RInv, IInv, TypeOK
  <2>. QED
    BY <2>2, <2>3, DispatchReports
<1>. QED
  BY <1>1, KeptInit, KeptNext, PTL DEF Spec, SeekedReportsArrival
=============================================================================
