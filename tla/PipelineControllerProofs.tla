---------------------- MODULE PipelineControllerProofs ----------------------
(***************************************************************************)
(* For every media duration, every number of client calls and every way of  *)
(* starting: the PipelineController keeps its members well typed, agrees    *)
(* with the pipeline and the demuxer it drives, and calls the pipeline only *)
(* as its contract allows.                                                  *)
(***************************************************************************)
EXTENDS PipelineController, TLAPS

USE ControllerAssumption DEF Times, NoRequest

(* The shape of the call stack: what waits below the innermost callback is  *)
(* one that may call the controller back; and pipeline_->Resume() is still  *)
(* to be called only while the state says so.                               *)
StackShape(c, k) ==
  /\ \A i \in 2 .. Len(k) : k[i] \in {"seeked_cb", "suspended_cb", "resumed_cb"}
  /\ Runs(k, "before_resume_cb") => c.state = "RESUMING"

(* Agreement is not inductive without the shape of the stack: the end of a  *)
(* callback must not uncover another that is still to call Resume().        *)
IInv == TypeOK /\ Agreement /\ StackShape(ctl, stack)

(**************************************************************************)
(* What one pass of Dispatch() makes of well typed values: every branch of  *)
(* it assigns well typed ones.                                              *)
LEMMA DispatchType ==
  ASSUME NEW c \in Members, NEW e \in Environment, NEW k \in Seq(Callbacks),
         Dispatch(c, e, k)
  PROVE  ctl' \in Members /\ env' \in Environment /\ stack' \in Seq(Callbacks)
<1>1. CASE DispatchSuspend(c, e, k)
  BY ZenonT(60), <1>1 DEF DispatchSuspend, Members, States, Environment, Phases
<1>0. \A b \in Callbacks : <<b>> \o k \in Seq(Callbacks)
  OBVIOUS
<1>2. CASE DispatchResume(c, e, k)
  <2>1. stack' = <<"before_resume_cb">> \o k /\ "before_resume_cb" \in Callbacks
    BY <1>2 DEF DispatchResume, Callbacks
  <2>2. e.landed.time .. MaxTime \subseteq Times /\ 0 \in Times
    BY DEF Environment
  <2>3. PICK t \in Times, b \in BOOLEAN :
          ctl' = [c EXCEPT !.seek_time = t, !.pending_seek = FALSE,
                           !.pending_time_updated = b,
                           !.waiting_for_seek = TRUE,
                           !.pending_resume = FALSE, !.state = "RESUMING"]
    BY <1>2, <2>2, Zenon DEF DispatchResume, Members
  <2>4. ctl' \in Members
    BY ZenonT(60), <2>3 DEF Members, States
  <2>5. PICK a \in Times \cup {NoRequest} :
          env' = [e EXCEPT !.demuxer = "expecting", !.asked = a]
    BY <1>2, <2>2, Zenon DEF DispatchResume, Environment
  <2>6. env' \in Environment
    BY <2>5 DEF Environment
  <2>. QED
    BY <1>0, <2>1, <2>4, <2>6
<1>3. CASE DispatchCancel(c, e, k)
  BY ZenonT(60), <1>3 DEF DispatchCancel, Members, Environment
<1>4. CASE WantsTrackSwitch(c) /\ DispatchTrackSwitch(c, e, k)
  <2>1. PICK b \in BOOLEAN :
          ctl' = [c EXCEPT !.pending_audio_track = FALSE,
                           !.pending_video_track = b,
                           !.state = "SWITCHING_TRACKS"]
    BY <1>4, Zenon DEF DispatchTrackSwitch, Members
  <2>2. ctl' \in Members
    BY ZenonT(60), <2>1 DEF Members, States
  <2>. QED
    BY <1>4, <2>2 DEF DispatchTrackSwitch, WantsTrackSwitch, Environment,
                      TrackChanges
<1>5. CASE DispatchSeek(c, e, k)
  BY ZenonT(60), <1>5 DEF DispatchSeek, Members, States, Environment, Phases
<1>6. CASE DispatchSeekedCb(c, e, k)
  <2>1. stack' = <<"seeked_cb">> \o k /\ "seeked_cb" \in Callbacks
    BY <1>6 DEF DispatchSeekedCb, Callbacks
  <2>2. ctl' \in Members /\ env' \in Environment
    BY ZenonT(60), <1>6 DEF DispatchSeekedCb, Members
  <2>. QED
    BY <1>0, <2>1, <2>2
<1>7. CASE DispatchNothing(c, e, k)
  BY <1>7 DEF DispatchNothing
<1>. QED
  BY <1>1, <1>2, <1>3, <1>4, <1>5, <1>6, <1>7 DEF Dispatch

(* Pushing a callback on a stack of callbacks that may call back keeps the  *)
(* shape of the stack.                                                      *)
LEMMA Push ==
  ASSUME NEW k \in Seq(Callbacks), NEW c, NEW d, NEW b \in Callbacks,
         StackShape(c, k), c.state # "RESUMING", ~Runs(k, "error_cb"),
         b = "before_resume_cb" => d.state = "RESUMING"
  PROVE  /\ StackShape(d, <<b>> \o k)
         /\ \A x : Runs(<<b>> \o k, x) <=> x = b
<1>. DEFINE s == <<b>> \o k
<1>1. /\ s \in Seq(Callbacks) /\ s # << >> /\ Head(s) = b
      /\ Len(s) = Len(k) + 1
      /\ \A i \in 2 .. Len(s) : s[i] = k[i - 1]
  OBVIOUS
<1>2. \A x : Runs(s, x) <=> x = b
  BY <1>1 DEF Runs
<1>3. \A i \in 1 .. Len(k) : k[i] \in {"seeked_cb", "suspended_cb", "resumed_cb"}
  <2>. SUFFICES ASSUME k # << >>
                PROVE  k[1] \in {"seeked_cb", "suspended_cb", "resumed_cb"}
    BY DEF StackShape
  <2>. QED
    BY DEF StackShape, Runs, Callbacks
<1>. QED
  BY <1>1, <1>2, <1>3 DEF StackShape

(* Dispatch() keeps the controller in agreement with what it drives.        *)
LEMMA DispatchAgrees ==
  ASSUME NEW c \in Members, NEW e \in Environment, NEW k \in Seq(Callbacks),
         Agree(c, e, k), StackShape(c, k), ~Runs(k, "error_cb"),
         Dispatch(c, e, k)
  PROVE  Agree(ctl', env', stack') /\ StackShape(ctl', stack')
<1>. USE DEF Members, Environment, States
<1>0. e.phase # "failed" /\ PhaseMatches(c, e, k)
  BY DEF Agree
<1>1. CASE WantsSuspend(c) /\ DispatchSuspend(c, e, k)
  BY <1>0, <1>1 DEF WantsSuspend, DispatchSuspend, Agree, PhaseMatches,
                    StackShape
<1>2. CASE WantsResume(c) /\ DispatchResume(c, e, k)
  <2>1. /\ ctl'.state = "RESUMING" /\ env'.demuxer = "expecting"
        /\ env'.phase = e.phase /\ env'.switching = e.switching
        /\ env'.leftover = e.leftover
        /\ stack' = <<"before_resume_cb">> \o k
        /\ c.state = "SUSPENDED"
    BY <1>2 DEF WantsResume, DispatchResume
  <2>2. StackShape(ctl', stack') /\ Runs(stack', "before_resume_cb")
    BY <2>1, Push, "before_resume_cb" \in Callbacks DEF Callbacks
  <2>. QED
    BY <1>0, <2>1, <2>2 DEF Agree, PhaseMatches
<1>3. CASE WantsCancel(c) /\ DispatchCancel(c, e, k)
  BY <1>0, <1>3 DEF WantsCancel, DispatchCancel, Agree, PhaseMatches,
                    StackShape
<1>4. CASE WantsTrackSwitch(c) /\ DispatchTrackSwitch(c, e, k)
  BY <1>0, <1>4 DEF WantsTrackSwitch, DispatchTrackSwitch, Agree,
                    PhaseMatches, StackShape
<1>5. CASE WantsSeek(c) /\ DispatchSeek(c, e, k)
  BY <1>0, <1>5 DEF WantsSeek, DispatchSeek, Agree, PhaseMatches, StackShape
<1>6. CASE WantsSeekedCb(c) /\ DispatchSeekedCb(c, e, k)
  <2>1. /\ ctl'.state = c.state /\ ctl'.waiting_for_seek = c.waiting_for_seek
        /\ env' = e /\ stack' = <<"seeked_cb">> \o k
        /\ c.state \in {"PLAYING", "SUSPENDED"}
    BY <1>6 DEF WantsSeekedCb, DispatchSeekedCb
  <2>2. StackShape(ctl', stack')
    BY <2>1, Push, "seeked_cb" \in Callbacks DEF Callbacks
  <2>. QED
    BY <1>0, <2>1, <2>2 DEF Agree, PhaseMatches
<1>7. CASE DispatchNothing(c, e, k)
  BY <1>7 DEF DispatchNothing
<1>. QED
  BY <1>1, <1>2, <1>3, <1>4, <1>5, <1>6, <1>7 DEF Dispatch

(**************************************************************************)
(* The invariant holds before anything is called, and every action keeps it.*)
LEMMA InitInv == Init => IInv
BY DEF Init, IInv, TypeOK, Agreement, Agree, PhaseMatches, StackShape, Runs,
       Members, States, Environment, Phases, TrackChanges, Callbacks

(* What the requests of the client that come to Dispatch() have in common:  *)
(* they change flags, not the state, and Dispatch() does the rest.          *)
LEMMA RequestInv ==
  ASSUME IInv, NEW c \in Members, NEW e \in Environment,
         c.state = ctl.state, c.waiting_for_seek = ctl.waiting_for_seek,
         e.phase = env.phase, e.demuxer = env.demuxer,
         e.switching = env.switching, e.leftover = env.leftover,
         ~Running("error_cb"),
         Dispatch(c, e, stack) \/ (ctl' = c /\ env' = e /\ UNCHANGED stack)
  PROVE  /\ ctl' \in Members /\ env' \in Environment /\ stack' \in Seq(Callbacks)
         /\ Agreement' /\ StackShape(ctl, stack)'
<1>1. Agree(c, e, stack) /\ StackShape(c, stack)
  BY DEF IInv, Agreement, Agree, PhaseMatches, StackShape
<1>2. CASE Dispatch(c, e, stack)
  BY <1>1, <1>2, DispatchType, DispatchAgrees
     DEF IInv, TypeOK, Agreement, Running
<1>3. CASE ctl' = c /\ env' = e /\ UNCHANGED stack
  BY <1>1, <1>3 DEF IInv, TypeOK, Agreement
<1>. QED
  BY <1>2, <1>3

(* The environment an answer of the pipeline leaves: only where the pipeline *)
(* is and, when a seek has ended, where it landed are new.                  *)
LEMMA AnswerType ==
  ASSUME TypeOK, NEW new \in {"playing", "suspended"}, NEW e \in Answered(new)
  PROVE  /\ e \in Environment /\ e.phase = new /\ e.asked = env.asked
         /\ e.switching = env.switching /\ e.leftover = env.leftover
         /\ IF env.phase \in {"seeking", "resuming"}
              THEN /\ e.landed.time = ctl.seek_time
                   /\ env.demuxer # "cancelled" => e.landed.live
              ELSE e.landed = env.landed
<1>1. ctl.seek_time \in Times /\ new \in Phases /\ env \in Environment
  BY DEF TypeOK, Members, Phases
<1>2. CASE env.phase \notin {"seeking", "resuming"}
  <2>1. e = [env EXCEPT !.phase = new]
    BY <1>2 DEF Answered
  <2>. QED
    BY <1>1, <1>2, <2>1 DEF Environment
<1>3. CASE env.phase \in {"seeking", "resuming"}
  <2>1. PICK l \in [time : Times, live : BOOLEAN] :
          /\ e = [env EXCEPT !.phase = new, !.demuxer = "idle", !.landed = l]
          /\ l.time = ctl.seek_time
          /\ env.demuxer # "cancelled" => l.live
    <3>1. PICK fetched \in IF env.demuxer = "cancelled" THEN BOOLEAN ELSE {TRUE} :
            e = [env EXCEPT !.phase = new, !.demuxer = "idle",
                    !.landed = [time |-> ctl.seek_time, live |-> fetched]]
      BY <1>3 DEF Answered
    <3>. DEFINE l == [time |-> ctl.seek_time, live |-> fetched]
    <3>2. /\ l \in [time : Times, live : BOOLEAN]
          /\ l.time = ctl.seek_time /\ l.live = fetched
          /\ env.demuxer # "cancelled" => fetched
      BY <1>1
    <3>3. e = [env EXCEPT !.phase = new, !.demuxer = "idle", !.landed = l]
      BY <3>1
    <3>. HIDE DEF l
    <3>. QED
      BY <3>2, <3>3
  <2>. QED
    BY <1>1, <1>3, <2>1 DEF Environment
<1>. QED
  BY <1>2, <1>3

(* StopNow leaves a controller that agrees with a stopped pipeline, in the  *)
(* main loop or in error_cb.                                                *)
LEMMA StopInv ==
  ASSUME IInv, stack = << >> \/ Running("error_cb"), StopNow
  PROVE  /\ ctl' \in Members /\ env' \in Environment /\ stack' \in Seq(Callbacks)
         /\ Agreement' /\ StackShape(ctl, stack)'
         /\ wanted' = "none"
<1>. USE DEF IInv, TypeOK, StopNow
<1>1. ctl' \in Members /\ ctl'.state = "STOPPED" /\ ~ctl'.waiting_for_seek
  BY ZenonT(60) DEF Stopped, Members, States
<1>2. /\ env' \in Environment /\ env'.phase = "stopped"
      /\ env'.switching = "none"
  BY DEF Environment, Phases, TrackChanges
<1>3. StackShape(ctl, stack)'
  BY <1>1 DEF StackShape, Running, Runs
<1>. QED
  BY <1>1, <1>2, <1>3 DEF Agreement, Agree, PhaseMatches

LEMMA NextInv == IInv /\ [Next]_vars => IInv'
<1>. SUFFICES ASSUME IInv, [Next]_vars PROVE IInv'
  OBVIOUS
<1>. USE DEF IInv, TypeOK
<1>. calls \in 0 .. MaxCalls
  OBVIOUS
<1>. CountCall => calls' \in 0 .. MaxCalls
  BY DEF CountCall
<1>1. ASSUME NEW type \in StartTypes, NEW streaming \in Streaming,
             NEW static \in Static, Start(type, streaming, static)
      PROVE  IInv'
  <2>0. streaming \in BOOLEAN /\ static \in BOOLEAN
    BY ControllerAssumption
  <2>1. /\ ctl' \in Members /\ ctl'.state = "STARTING"
        /\ ctl'.waiting_for_seek = ctl.waiting_for_seek
    BY ZenonT(60), <1>1, <2>0 DEF Start, Members, States
  <2>2. /\ env' \in Environment /\ env'.switching = env.switching
        /\ env'.phase \in {"starting", "starting_suspendable"}
    BY <1>1 DEF Start, Environment, Phases
  <2>3. Agreement'
    BY <1>1, <2>1, <2>2 DEF Start, Agreement, Agree, PhaseMatches, Runs
  <2>4. StackShape(ctl, stack)'
    BY <1>1 DEF Start, StackShape, Runs
  <2>. QED
    BY <1>1, <2>1, <2>2, <2>3, <2>4 DEF Start
<1>2. ASSUME NEW time \in Times, NEW updated \in BOOLEAN, Seek(time, updated)
      PROVE  IInv'
  <2>. DEFINE e == [env EXCEPT !.asked = time]
  <2>0. /\ e \in Environment
        /\ e.phase = env.phase /\ e.demuxer = env.demuxer
        /\ e.switching = env.switching /\ e.leftover = env.leftover
    BY DEF Environment
  <2>1. PICK c \in Members :
          /\ c.state = ctl.state /\ c.waiting_for_seek = ctl.waiting_for_seek
          /\ Dispatch(c, e, stack) \/ (ctl' = c /\ env' = e /\ UNCHANGED stack)
    <3>. DEFINE c0 == [ctl EXCEPT !.pending_time_updated = @ \/ updated,
                                  !.pending_seeked_cb = TRUE,
                                  !.pending_seek_except_start = TRUE]
                c1 == [c0 EXCEPT !.pending_seek = FALSE]
                c2 == [c0 EXCEPT !.pending_seek_time = time,
                                 !.pending_seek = TRUE]
    <3>0. ctl.pending_time_updated \/ updated \in BOOLEAN
      OBVIOUS
    <3>1. /\ c1 \in Members /\ c2 \in Members
          /\ c1.state = ctl.state /\ c1.waiting_for_seek = ctl.waiting_for_seek
          /\ c2.state = ctl.state /\ c2.waiting_for_seek = ctl.waiting_for_seek
      BY <3>0 DEF Members
    <3>2. \/ Dispatch(c2, e, stack)
          \/ ctl' = c1 /\ env' = e /\ UNCHANGED stack
      BY <1>2 DEF Seek
    <3>. QED
      BY <3>1, <3>2
  <2>2. ~Running("error_cb")
    BY <1>2 DEF Seek, MayRequest, Running, Runs
  <2>3. wanted' = wanted /\ CountCall
    BY <1>2 DEF Seek
  <2>. QED
    BY <2>0, <2>1, <2>2, <2>3, RequestInv
<1>3. CASE Suspend
  <2>1. PICK c \in Members :
          /\ c.state = ctl.state /\ c.waiting_for_seek = ctl.waiting_for_seek
          /\ Dispatch(c, env, stack) \/ (ctl' = c /\ env' = env /\ UNCHANGED stack)
    BY <1>3 DEF Suspend, Members
  <2>2. ~Running("error_cb")
    BY <1>3 DEF Suspend, MaySetSuspendState, MayRequest, Running, Runs
  <2>. QED
    BY <1>3, <2>1, <2>2, RequestInv DEF Suspend
<1>4. CASE Resume
  <2>1. PICK c \in Members :
          /\ c.state = ctl.state /\ c.waiting_for_seek = ctl.waiting_for_seek
          /\ Dispatch(c, env, stack) \/ (ctl' = c /\ env' = env /\ UNCHANGED stack)
    BY <1>4 DEF Resume, Members
  <2>2. ~Running("error_cb")
    BY <1>4 DEF Resume, MaySetSuspendState, MayRequest, Running, Runs
  <2>3. /\ CountCall
        /\ wanted' \in {"none", "resume", "resume_while_switching"}
    BY <1>4 DEF Resume
  <2>. QED
    BY <2>1, <2>2, <2>3, RequestInv
<1>5. CASE OnEnabledAudioTracksChanged
  <2>. DEFINE c == [ctl EXCEPT !.pending_audio_track = TRUE]
  <2>1. /\ c \in Members /\ c.state = ctl.state
        /\ c.waiting_for_seek = ctl.waiting_for_seek
    BY DEF Members
  <2>2. ~Running("error_cb")
    BY <1>5 DEF OnEnabledAudioTracksChanged, MayRequest, Running, Runs
  <2>. QED
    BY <1>5, <2>1, <2>2, RequestInv DEF OnEnabledAudioTracksChanged
<1>6. CASE OnSelectedVideoTrackChanged
  <2>. DEFINE c == [ctl EXCEPT !.pending_video_track = TRUE]
  <2>1. /\ c \in Members /\ c.state = ctl.state
        /\ c.waiting_for_seek = ctl.waiting_for_seek
    BY DEF Members
  <2>2. ~Running("error_cb")
    BY <1>6 DEF OnSelectedVideoTrackChanged, MaySwitchVideo, MayRequest,
                Running, Runs
  <2>. QED
    BY <1>6, <2>1, <2>2, RequestInv DEF OnSelectedVideoTrackChanged
<1>7. CASE Stop
  BY <1>7, StopInv DEF Stop
<1>8. CASE StopOnError
  BY <1>8, StopInv DEF StopOnError
<1>9. ASSUME NEW new \in {"playing", "suspended"}, OnPipelineStatusOK(new)
      PROVE  IInv'
  <2>. DEFINE c == [ctl EXCEPT !.state = IF new = "playing" THEN "PLAYING"
                                                            ELSE "SUSPENDED",
                               !.waiting_for_seek =
                                  @ /\ env.phase = "suspending"]
  <2>1. c \in Members /\ c.state = (IF new = "playing" THEN "PLAYING"
                                                      ELSE "SUSPENDED")
    <3>1. (ctl.waiting_for_seek /\ env.phase = "suspending") \in BOOLEAN
      BY Zenon
    <3>2. (IF new = "playing" THEN "PLAYING" ELSE "SUSPENDED") \in States
      BY DEF States
    <3>. QED
      BY <3>1, <3>2, ZenonT(60) DEF Members
  <2>2. ~c.waiting_for_seek
    BY <1>9 DEF OnPipelineStatusOK, MayAnswer, Agreement, Agree, PhaseMatches,
                Members, States
  <2>3. ASSUME NEW e \in Answered(new)
        PROVE  /\ e \in Environment /\ e.phase = new
               /\ e.switching = env.switching /\ e.leftover = env.leftover
    BY <2>3, AnswerType
  <2>4. stack = << >> /\ env.switching = "none" /\ env.leftover = "none"
    BY <1>9 DEF OnPipelineStatusOK, MayAnswer, Current, Agreement, Agree,
                PhaseMatches, Members, States
  <2>5. ASSUME NEW e \in Answered(new)
        PROVE  Agree(c, e, stack) /\ StackShape(c, stack)
    <3>. HIDE DEF c
    <3>1. /\ e.phase = new /\ e.switching = "none" /\ e.leftover = "none"
          /\ c.state = (IF e.phase = "playing" THEN "PLAYING" ELSE "SUSPENDED")
      BY <2>1, <2>3, <2>4, <2>5
    <3>. QED
      BY <2>2, <2>4, <3>1 DEF Agree, PhaseMatches, StackShape, Runs
  <2>6. PICK e \in Answered(new) :
          \/ Dispatch(c, e, stack)
          \/ /\ ctl' = c /\ env' = e
             /\ stack' \in {<<"suspended_cb">>, <<"resumed_cb">>}
    BY <1>9 DEF OnPipelineStatusOK
  <2>7. CASE Dispatch(c, e, stack)
    <3>1. ~Runs(stack, "error_cb")
      BY <2>4 DEF Runs
    <3>2. /\ ctl' \in Members /\ env' \in Environment
          /\ stack' \in Seq(Callbacks)
      BY <2>1, <2>3, <2>7, DispatchType
    <3>3. Agreement' /\ StackShape(ctl, stack)'
      BY <2>1, <2>3, <2>5, <2>7, <3>1, DispatchAgrees DEF Agreement
    <3>. QED
      BY <1>9, <3>2, <3>3 DEF OnPipelineStatusOK
  <2>8. CASE /\ ctl' = c /\ env' = e
             /\ stack' \in {<<"suspended_cb">>, <<"resumed_cb">>}
    <3>. HIDE DEF c
    <3>1. /\ stack' \in Seq(Callbacks) /\ StackShape(c, stack')
          /\ ~Runs(stack', "error_cb") /\ ~Runs(stack', "before_resume_cb")
      <4>1. CASE stack' = <<"suspended_cb">>
        BY <4>1 DEF StackShape, Runs, Callbacks
      <4>2. CASE stack' = <<"resumed_cb">>
        BY <4>2 DEF StackShape, Runs, Callbacks
      <4>. QED
        BY <2>8, <4>1, <4>2
    <3>2. e.phase = new /\ e.switching = "none" /\ e.leftover = "none"
      BY <2>3, <2>4
    <3>3. Agree(c, e, stack')
      BY <2>1, <2>2, <3>1, <3>2 DEF Agree, PhaseMatches
    <3>4. Agreement' /\ StackShape(ctl, stack)'
      BY <2>8, <3>1, <3>3 DEF Agreement
    <3>. QED
      BY <1>9, <2>1, <2>3, <2>8, <3>1, <3>4 DEF OnPipelineStatusOK
  <2>. QED
    BY <2>6, <2>7, <2>8
<1>10. CASE OnPipelineError
  <2>1. ctl.state # "STOPPED"
    BY <1>10 DEF OnPipelineError, Busy, Agreement, Agree, PhaseMatches
  <2>2. stack' \in Seq(Callbacks) /\ StackShape(ctl, stack)'
    BY <1>10 DEF OnPipelineError, StackShape, Runs, Callbacks
  <2>3. env' \in Environment /\ env'.phase = "failed"
    BY <1>10 DEF OnPipelineError, Environment, Phases
  <2>4. Runs(stack', "error_cb")
    BY <1>10 DEF OnPipelineError, Runs
  <2>5. Agreement'
    BY <1>10, <2>1, <2>3, <2>4 DEF OnPipelineError, Agreement, Agree, Environment
  <2>. QED
    BY <1>10, <2>2, <2>3, <2>5 DEF OnPipelineError
<1>11. CASE OnTrackChangeComplete
  <2>. DEFINE s == IF Current THEN env.switching ELSE env.leftover
              c == BackFrom(s)
              e == IF Current THEN [env EXCEPT !.switching = "none"]
                              ELSE [env EXCEPT !.leftover = "none"]
  <2>1. s \in {"PLAYING", "SUSPENDED"} /\ Dispatch(c, e, stack) /\ stack = << >>
    BY <1>11 DEF OnTrackChangeComplete, Current, Environment, TrackChanges
  <2>2. c \in Members /\ e \in Environment
    BY <2>1 DEF BackFrom, Members, States, Environment, TrackChanges
  <2>3. Agree(c, e, stack) /\ StackShape(c, stack) /\ ~Runs(stack, "error_cb")
    BY <2>1 DEF BackFrom, Current, Agreement, Agree, PhaseMatches, StackShape,
                Runs, Members, Environment, States
  <2>4. Agreement' /\ StackShape(ctl, stack)'
    BY <2>1, <2>2, <2>3, DispatchAgrees DEF Agreement
  <2>. QED
    BY <1>11, <2>1, <2>2, <2>4, DispatchType DEF OnTrackChangeComplete
<1>12. CASE ReturnFromStatusCb
  <2>1. /\ Tail(stack) \in Seq(Callbacks) /\ StackShape(ctl, Tail(stack))
        /\ ~Runs(Tail(stack), "error_cb")
        /\ ~Runs(Tail(stack), "before_resume_cb")
    BY <1>12 DEF ReturnFromStatusCb, Running, Runs, StackShape
  <2>2. Agree(ctl, env, Tail(stack))
    BY <1>12, <2>1 DEF ReturnFromStatusCb, Running, Runs, Agreement, Agree,
                       PhaseMatches
  <2>3. Dispatch(ctl, env, Tail(stack))
    BY <1>12 DEF ReturnFromStatusCb
  <2>4. Agreement' /\ StackShape(ctl, stack)'
    BY <2>1, <2>2, <2>3, DispatchAgrees DEF Agreement
  <2>. QED
    BY <1>12, <2>1, <2>3, <2>4, DispatchType DEF ReturnFromStatusCb
<1>13. CASE ReturnFromBeforeResumeCb
  <2>1. /\ stack' \in Seq(Callbacks) /\ StackShape(ctl, stack)'
        /\ ~Runs(stack', "before_resume_cb") /\ ctl' = ctl
        /\ ctl.state = "RESUMING"
    <3>1. stack # << >> /\ Head(stack) = "before_resume_cb"
      BY <1>13 DEF ReturnFromBeforeResumeCb, Running, Runs
    <3>2. Tail(stack) \in Seq(Callbacks) /\ StackShape(ctl, Tail(stack))
      BY <3>1 DEF StackShape, Runs
    <3>3. ~Runs(Tail(stack), "before_resume_cb") /\ ctl.state = "RESUMING"
      BY <3>1 DEF StackShape, Runs
    <3>. QED
      BY <1>13, <3>2, <3>3 DEF ReturnFromBeforeResumeCb
  <2>2. /\ env' \in Environment /\ env'.phase = "resuming"
        /\ env'.demuxer = env.demuxer /\ env'.switching = env.switching
        /\ env'.leftover = env.leftover
    BY <1>13 DEF ReturnFromBeforeResumeCb, Environment, Phases
  <2>3. Agreement'
    BY <2>1, <2>2 DEF Agreement, Agree, PhaseMatches
  <2>. QED
    BY <1>13, <2>1, <2>2, <2>3 DEF ReturnFromBeforeResumeCb
<1>14. CASE ReturnFromLastCb
  <2>1. /\ stack' \in Seq(Callbacks) /\ StackShape(ctl, stack)'
        /\ ~Runs(stack', "before_resume_cb") /\ ctl' = ctl /\ env' = env
        /\ ~Running("before_resume_cb")
        /\ ~Running("error_cb") \/ ctl.state = "STOPPED"
    BY <1>14 DEF ReturnFromLastCb, Running, Runs, StackShape
  <2>2. Agreement'
    BY <2>1 DEF Agreement, Agree, PhaseMatches, Running
  <2>. QED
    BY <1>14, <2>1, <2>2 DEF ReturnFromLastCb
<1>15. CASE UNCHANGED vars
  BY <1>15 DEF vars, Agreement, StackShape
<1>. QED
  BY <1>1, <1>2, <1>3, <1>4, <1>5, <1>6, <1>7, <1>8, <1>9, <1>10, <1>11, <1>12,
     <1>13, <1>14, <1>15 DEF Next, Request, Answer, Return

(* The members of the controller and what it knows of its environment stay  *)
(* well typed, in every callback and between callbacks.                     *)
THEOREM TypeCorrect == Spec => []TypeOK
<1>1. IInv => TypeOK
  BY DEF IInv
<1>. QED
  BY InitInv, NextInv, <1>1, PTL DEF Spec

(* The state_ of the controller always names the phase the pipeline is in,  *)
(* and waiting_for_seek_ is set only while a seek of the demuxer is expected*)
(* and not cancelled: the DCHECKs of Dispatch() hold.                       *)
THEOREM AgreementHolds == Spec => []Agreement
<1>1. IInv => Agreement
  BY DEF IInv
<1>. QED
  BY InitInv, NextInv, <1>1, PTL DEF Spec

(**************************************************************************)
(* What Dispatch() does to the pipeline when the state of the controller    *)
(* names its phase: nothing, or one call that the phase allows.             *)
LEMMA DispatchCalls ==
  ASSUME NEW c \in Members, NEW e \in Environment, NEW k \in Seq(Callbacks),
         ~Runs(k, "error_cb"), Agree(c, e, k), Dispatch(c, e, k)
  PROVE  env'.phase = e.phase \/ env'.phase \in Contract!Calls(e.phase)
<1>. USE DEF Environment
<1>0. PhaseMatches(c, e, k)
  BY DEF Agree
<1>1. CASE WantsSuspend(c) /\ DispatchSuspend(c, e, k)
  BY <1>0, <1>1 DEF WantsSuspend, DispatchSuspend, PhaseMatches, Contract!Calls
<1>2. CASE DispatchResume(c, e, k) \/ DispatchCancel(c, e, k)
           \/ DispatchTrackSwitch(c, e, k) \/ DispatchSeekedCb(c, e, k)
           \/ DispatchNothing(c, e, k)
  BY <1>2, ZenonT(60) DEF DispatchResume, DispatchCancel, DispatchTrackSwitch,
              DispatchSeekedCb, DispatchNothing
<1>3. CASE WantsSeek(c) /\ DispatchSeek(c, e, k)
  BY <1>0, <1>3 DEF WantsSeek, DispatchSeek, PhaseMatches, Contract!Calls
<1>. QED
  BY <1>1, <1>2, <1>3 DEF Dispatch

(* One step of the controller is one step of the contract: it makes at most *)
(* one call, on a pipeline that is ready for it, or passes on one answer.   *)
LEMMA StepImplements ==
  ASSUME IInv, [Next]_vars PROVE [Contract!Next]_(env.phase)
<1>. USE DEF IInv, TypeOK, Contract!Next
<1>0. env \in Environment /\ Agree(ctl, env, stack)
  BY DEF Agreement
<1>1. ASSUME NEW c \in Members, NEW e \in Environment,
             c.state = ctl.state, c.waiting_for_seek = ctl.waiting_for_seek,
             e.phase = env.phase, e.demuxer = env.demuxer,
             e.switching = env.switching, e.leftover = env.leftover,
             ~Running("error_cb"),
             Dispatch(c, e, stack) \/ env' = e
      PROVE  [Contract!Call]_(env.phase)
  <2>1. Agree(c, e, stack)
    BY <1>0, <1>1 DEF Agree, PhaseMatches
  <2>. QED
    BY <1>1, <2>1, DispatchCalls DEF Contract!Call, Running
<1>2. ASSUME StopNow, ctl.state # "STOPPED" PROVE Contract!Stop
  <2>1. env.phase # "stopped"
    BY <1>0, <1>2 DEF Agree, PhaseMatches, Members, States
  <2>2. env'.phase = "stopped"
    BY <1>2 DEF StopNow
  <2>. QED
    BY <2>1, <2>2 DEF Contract!Stop
<1>3. ASSUME NEW type \in StartTypes, NEW streaming \in Streaming,
             NEW static \in Static, Start(type, streaming, static)
      PROVE  Contract!Call
  BY <1>0, <1>3 DEF Start, Agree, PhaseMatches, Runs, Environment,
                    Contract!Call, Contract!Calls
<1>4. ASSUME NEW time \in Times, NEW updated \in BOOLEAN, Seek(time, updated)
      PROVE  [Contract!Call]_(env.phase)
  <2>. DEFINE e == [env EXCEPT !.asked = time]
  <2>0. /\ e \in Environment
        /\ e.phase = env.phase /\ e.demuxer = env.demuxer
        /\ e.switching = env.switching /\ e.leftover = env.leftover
    BY DEF Environment
  <2>1. PICK c \in Members :
          /\ c.state = ctl.state /\ c.waiting_for_seek = ctl.waiting_for_seek
          /\ Dispatch(c, e, stack) \/ env' = e
    <3>. DEFINE c0 == [ctl EXCEPT !.pending_time_updated = @ \/ updated,
                                  !.pending_seeked_cb = TRUE,
                                  !.pending_seek_except_start = TRUE]
                c1 == [c0 EXCEPT !.pending_seek_time = time,
                                 !.pending_seek = TRUE]
    <3>1. ctl.pending_time_updated \/ updated \in BOOLEAN
      OBVIOUS
    <3>2. /\ c1 \in Members
          /\ c1.state = ctl.state /\ c1.waiting_for_seek = ctl.waiting_for_seek
      BY <3>1 DEF Members
    <3>3. Dispatch(c1, e, stack) \/ env' = e
      BY <1>4 DEF Seek
    <3>. QED
      BY <3>2, <3>3
  <2>. QED
    BY <1>1, <1>4, <2>0, <2>1 DEF Seek, MayRequest, Running, Runs
<1>5. CASE Suspend \/ Resume
  <2>1. PICK c \in Members :
          /\ c.state = ctl.state /\ c.waiting_for_seek = ctl.waiting_for_seek
          /\ Dispatch(c, env, stack) \/ env' = env
    BY <1>5 DEF Suspend, Resume, Members
  <2>. QED
    BY <1>1, <1>5, <2>1 DEF Suspend, Resume, MaySetSuspendState, MayRequest,
                            Running, Runs
<1>6. CASE OnEnabledAudioTracksChanged \/ OnSelectedVideoTrackChanged
  <2>1. PICK c \in Members :
          /\ c.state = ctl.state /\ c.waiting_for_seek = ctl.waiting_for_seek
          /\ Dispatch(c, env, stack)
    BY <1>6 DEF OnEnabledAudioTracksChanged, OnSelectedVideoTrackChanged, Members
  <2>. QED
    BY <1>1, <1>6, <2>1 DEF OnEnabledAudioTracksChanged, MayRequest,
         OnSelectedVideoTrackChanged, MaySwitchVideo, Running, Runs
<1>7. CASE Stop \/ StopOnError
  BY <1>2, <1>7 DEF Stop, StopOnError
<1>8. ASSUME NEW new \in {"playing", "suspended"}, OnPipelineStatusOK(new)
      PROVE  [Contract!Next]_(env.phase)
  <2>1. new \in Contract!Completions(env.phase)
    BY <1>8 DEF OnPipelineStatusOK, MayAnswer, Contract!Completions
  <2>2. env'.phase = new \/ env'.phase \in Contract!Calls(new)
    <3>. DEFINE c == [ctl EXCEPT !.state = IF new = "playing" THEN "PLAYING"
                                                              ELSE "SUSPENDED",
                                 !.waiting_for_seek =
                                    @ /\ env.phase = "suspending"]
    <3>1. PICK e \in Answered(new) : \/ Dispatch(c, e, stack)
                                     \/ env' = e
      BY <1>8 DEF OnPipelineStatusOK
    <3>2. e \in Environment /\ e.phase = new
      BY <3>1, AnswerType
    <3>3. CASE Dispatch(c, e, stack)
      <4>1. WantsSuspend(c) => DispatchSuspend(c, e, stack)
        BY <3>3 DEF Dispatch
      <4>2. \/ env'.phase = e.phase
            \/ c.state = "PLAYING" /\ env'.phase \in {"suspending", "seeking"}
        BY <3>2, <3>3, ZenonT(60) DEF Dispatch, DispatchSuspend, DispatchResume,
             DispatchCancel, DispatchTrackSwitch, DispatchSeek,
             DispatchSeekedCb, DispatchNothing, WantsSuspend, WantsSeek,
             Environment
      <4>3. c.state = "PLAYING" => new = "playing"
        BY DEF Members, States
      <4>. QED
        BY <3>2, <4>2, <4>3 DEF Contract!Calls
    <3>. QED
      BY <3>1, <3>2, <3>3
  <2>. QED
    BY <2>1, <2>2 DEF Contract!Complete
<1>9. CASE OnPipelineError
  BY <1>9 DEF OnPipelineError, Busy, Environment, Contract!Error,
              Contract!Completions
<1>10. CASE OnTrackChangeComplete
  <2>. DEFINE s == IF Current THEN env.switching ELSE env.leftover
              e == IF Current THEN [env EXCEPT !.switching = "none"]
                              ELSE [env EXCEPT !.leftover = "none"]
  <2>0. ~Current => env.switching = "none"
    BY <1>0 DEF Current, Agree
  <2>1. /\ s \in {"PLAYING", "SUSPENDED"} /\ e \in Environment
        /\ Dispatch(BackFrom(s), e, stack)
        /\ e.phase = env.phase /\ e.demuxer = env.demuxer
        /\ e.switching = "none" /\ e.leftover = "none"
        /\ s = env.switching \/ (env.leftover # "none" /\ env.switching = "none")
    <3>1. s \in {"PLAYING", "SUSPENDED"} /\ Dispatch(BackFrom(s), e, stack)
      BY <1>10 DEF OnTrackChangeComplete, Current, Environment, TrackChanges
    <3>2. /\ e \in Environment /\ e.phase = env.phase
          /\ e.demuxer = env.demuxer
          /\ e.switching = "none" /\ e.leftover = "none"
      <4>1. CASE Current
        BY <1>0, <4>1 DEF Current, Environment, TrackChanges
      <4>2. CASE ~Current
        BY <1>0, <2>0, <4>2 DEF Environment, TrackChanges
      <4>. QED
        BY <4>1, <4>2
    <3>3. s = env.switching \/ (env.leftover # "none" /\ env.switching = "none")
      BY <2>0 DEF Current
    <3>. QED
      BY <3>1, <3>2, <3>3
  <2>. HIDE DEF s, e
  <2>2. stack = << >> /\ ~Runs(stack, "error_cb")
    BY <1>10 DEF OnTrackChangeComplete, Runs
  <2>3. BackFrom(s) \in Members
    BY <2>1 DEF BackFrom, Members, States
  <2>4. /\ BackFrom(s).state =
             IF ctl.state = "SWITCHING_TRACKS" THEN s ELSE ctl.state
        /\ BackFrom(s).waiting_for_seek = ctl.waiting_for_seek
    BY <2>3 DEF BackFrom, Members
  <2>5. Agree(BackFrom(s), e, stack)
    BY <1>0, <2>1, <2>2, <2>4 DEF Agree, PhaseMatches, Environment
  <2>. QED
    BY <2>1, <2>2, <2>3, <2>5, DispatchCalls DEF Contract!Call
<1>11. CASE ReturnFromStatusCb
  <2>1. /\ Tail(stack) \in Seq(Callbacks) /\ ~Runs(Tail(stack), "error_cb")
        /\ ~Runs(Tail(stack), "before_resume_cb")
        /\ ~Running("error_cb") /\ ~Running("before_resume_cb")
    BY <1>11 DEF ReturnFromStatusCb, Running, Runs, StackShape
  <2>2. Agree(ctl, env, Tail(stack))
    BY <1>0, <2>1 DEF Agree, PhaseMatches, Running
  <2>. QED
    BY <1>11, <2>1, <2>2, DispatchCalls DEF ReturnFromStatusCb, Contract!Call
<1>12. CASE ReturnFromBeforeResumeCb
  <2>1. ctl.state = "RESUMING" /\ Running("before_resume_cb")
    BY <1>12 DEF ReturnFromBeforeResumeCb, StackShape, Running
  <2>2. env.phase = "suspended"
    BY <1>0, <2>1 DEF Agree, PhaseMatches, Running, Runs
  <2>. QED
    BY <1>12, <2>2 DEF ReturnFromBeforeResumeCb, Environment, Contract!Call,
                       Contract!Calls
<1>13. CASE ReturnFromLastCb \/ UNCHANGED vars
  BY <1>13 DEF ReturnFromLastCb, vars
<1>. QED
  BY <1>3, <1>4, <1>5, <1>6, <1>7, <1>8, <1>9, <1>10, <1>11, <1>12, <1>13
     DEF Next, Request, Answer, Return

(* The controller uses the pipeline as base/pipeline.h asks: one operation  *)
(* at a time, none on a pipeline that is not ready for it, and only Stop()  *)
(* after an error.  It implements the client's half of module Pipeline.     *)
THEOREM ContractRespected == Spec => ContractHolds
<1>1. Init => Contract!Init
  BY DEF Init, Contract!Init
<1>. QED
  BY <1>1, InitInv, NextInv, StepImplements, PTL
     DEF Spec, ContractHolds, Contract!Spec
=============================================================================
