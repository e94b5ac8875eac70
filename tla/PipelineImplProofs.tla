------------------------- MODULE PipelineImplProofs -------------------------
(***************************************************************************)
(* For every media and any number of sessions, calls and errors: the media   *)
(* thread is always where the client takes it to be, no operation and no     *)
(* track change is lost between the threads, Stop() is a barrier, and the    *)
(* pipeline keeps its half of the contract.                                  *)
(***************************************************************************)
EXTENDS PipelineImpl, TaskQueues, FiniteSetTheorems

USE PipelineAssumption

Ops == {"Start", "StartSuspendable", "Seek", "Suspend", "Resume"}
Nexts == {"NextOk", "NextError"}
Tokens == Ops \cup Nexts
EndSuspended == {"OnSeekDoneSuspended", "OnSuspendDone"}
Dones == {"OnSeekDone"} \cup EndSuspended

Entry == [task : {"Seek", "Resume"}, arg : Times]
           \cup [task : {"SetPlaybackRate"}, arg : {0, 1}]
           \cup [task : MediaTasks \ {"Seek", "Resume", "SetPlaybackRate"}, arg : {0}]

Tasks == [i \in DOMAIN mediaQ |-> mediaQ[i].task]

Idle == media.state \in {"kCreated", "kStopped"}
Busy == media.series # NoSeries
Resting == main.seek_cb = "none" /\ ~main.suspend_cb
Working == main.client /\ ~main.failed /\ ~main.stopping

Typed ==
  /\ setup \in Setups
  /\ main \in MainMembers /\ media \in MediaMembers
  /\ mediaQ \in Seq(Entry) /\ mainQ \in Seq(MainTasks)
  /\ spent \in [ starts : 0 .. setup.starts, calls : 0 .. setup.calls,
                 errors : 0 .. setup.errors ]

(* The media thread by itself: what it owns in which state, and how far its *)
(* series has come.                                                         *)
SeriesFits ==
  \/ /\ media.state = "kStarting" /\ media.series.done = "CompleteSeek"
     /\ media.series.todo \in { <<"ReportMetadata", "InitializeRenderer">>,
                                <<"InitializeRenderer">>, << >> }
  \/ /\ media.state = "kSeeking" /\ media.series.done = "CompleteSeek"
     /\ media.series.todo \in { <<"DemuxerSeek">>, << >> }
  \/ /\ media.state = "kResuming" /\ media.series.done = "CompleteSeek"
     /\ media.series.todo \in { <<"InitializeRenderer">>, << >> }
  \/ /\ media.state = "kSuspending" /\ media.series.done = "CompleteSuspend"
     /\ media.series.todo = << >>

MediaFits ==
  /\ Idle => /\ media.ok /\ ~media.demuxer /\ media.renderer = "none"
             /\ ~Busy /\ ~media.track
  /\ ~Idle => media.linked
  /\ media.state # "kStopping"
  /\ media.state = "kSuspending" => media.suspend_timestamp # NoTimestamp
  /\ media.state = "kPlaying" => /\ media.suspend_timestamp = NoTimestamp
                                 /\ media.renderer \in {"playing", "ended"}
  /\ Busy => SeriesFits
  /\ media.state = "kCreated" => ~Has(Tasks, {"OnPipelineError"})

(* There is one operation at a time, and where it is tells the state.       *)
OneOperation ==
  /\ Single(Tasks, Tokens) /\ Single(mainQ, Dones)
  /\ media.series.running # "none" => ~Has(Tasks, Tokens)
  /\ Has(mainQ, Dones) => ~Has(Tasks, Tokens) /\ media.series.running = "none"
  /\ Busy <=> media.series.running # "none" \/ Has(Tasks, Nexts)
  /\ Has(Tasks, {"Start", "StartSuspendable"}) => Idle /\ ~media.linked
  /\ Has(Tasks, {"Seek", "Suspend"}) => media.state = "kPlaying"
  /\ Has(Tasks, {"Resume"}) => media.state = "kSuspended"
  /\ Has(mainQ, {"OnSeekDone"}) => media.state \in {"kPlaying", "kStopped"}
  /\ Has(mainQ, EndSuspended) => media.state \in {"kSuspended", "kStopped"}
  /\ Before(mainQ, {"OnError"}, EndSuspended)
  /\ ~media.linked => ~Has(mainQ, Dones \cup {"OnError"})

(* Stop(): its task, the one that signals it, the signal.                   *)
StopUnderWay ==
  /\ Has(Tasks, {"Stop"}) /\ ~Has(Tasks, {"StopCb"}) /\ ~media.signaled
  /\ Single(Tasks, {"Stop"}) /\ Before(Tasks, Ops, {"Stop"})

StopDone ==
  /\ ~Has(Tasks, {"Stop"}) /\ ~Has(Tasks, Tokens) /\ Idle
  /\ \/ /\ Has(Tasks, {"StopCb"}) /\ ~media.signaled /\ Single(Tasks, {"StopCb"})
        /\ Before(Tasks, MediaTasks \ {"StopCb"}, {"StopCb"})
     \/ ~Has(Tasks, MediaTasks) /\ media.signaled

Sessions ==
  /\ main.stopping => main.client /\ (StopUnderWay \/ StopDone)
  /\ ~main.stopping => ~Has(Tasks, {"Stop", "StopCb"})
  /\ Idle /\ media.linked => main.stopping /\ StopDone
  /\ main.client /\ ~media.linked => Has(Tasks, {"Start", "StartSuspendable"})
  /\ ~main.client => /\ Resting /\ ~main.failed /\ ~main.switching
                     /\ Idle /\ ~media.linked
                     /\ ~Has(Tasks, MediaTasks \ {"SetPlaybackRate"})

(* What the client awaits is what the media thread is at.                   *)
Awaited ==
  /\ main.seek_cb # "none" => ~main.suspend_cb
  /\ Has(Tasks, {"Start"}) => main.seek_cb = "starting"
  /\ Has(Tasks, {"StartSuspendable"}) => main.seek_cb = "starting_suspendable"
  /\ Has(Tasks, {"Seek"}) => main.seek_cb = "seeking"
  /\ Has(Tasks, {"Resume"}) => main.seek_cb = "resuming"
  /\ Has(Tasks, {"Suspend"}) => main.suspend_cb
  /\ Busy => /\ media.state = "kStarting" =>
                  main.seek_cb = IF media.start_type = "kNormal"
                                   THEN "starting" ELSE "starting_suspendable"
             /\ media.state = "kSeeking" => main.seek_cb = "seeking"
             /\ media.state = "kResuming" => main.seek_cb = "resuming"
             /\ media.state = "kSuspending" => main.suspend_cb
  /\ Has(mainQ, {"OnSeekDone"}) => main.seek_cb # "none"
  /\ Has(mainQ, {"OnSeekDoneSuspended"}) => main.seek_cb = "starting_suspendable"
  /\ Has(mainQ, {"OnSuspendDone"}) => main.suspend_cb

Answers ==
  /\ Resting =>
       /\ ~Has(Tasks, Tokens) /\ media.series.running = "none" /\ ~Has(mainQ, Dones)
       /\ media.state = IF main.is_suspended THEN "kSuspended" ELSE "kPlaying"
       /\ main.is_suspended => ~Has(mainQ, {"OnError"})
  /\ ~Resting => \/ Has(Tasks, Tokens) \/ media.series.running # "none"
                 \/ Has(mainQ, Dones \cup {"OnError"})
  /\ ~media.ok => Has(mainQ, {"OnError"})
  /\ main.switching =>
       /\ Resting
       /\ media.track \/ Has(Tasks, {"TrackChange"}) \/ Has(mainQ, {"TrackChanged"})

(* The media time: no time that the renderer will give, or that is recorded *)
(* while there is none, is less than the one shown.                         *)
Floor(t) == IF media.suspend_timestamp # NoTimestamp
              THEN t <= media.suspend_timestamp
              ELSE media.renderer # "none" /\ t <= media.from

Clock ==
  /\ main.seek_cb \in {"starting", "starting_suspendable"} =>
       main.seek_time = NoTimestamp /\ main.shown <= main.last_media_time
  /\ main.seek_cb \in {"seeking", "resuming"} =>
       /\ main.seek_time # NoTimestamp /\ main.shown <= main.seek_time
       /\ \A i \in DOMAIN mediaQ : mediaQ[i].task \in {"Seek", "Resume"} =>
                                     mediaQ[i].arg = main.seek_time
       /\ Busy => main.seek_time <= media.series.time
       /\ Has(mainQ, {"OnSeekDone"}) => Floor(main.seek_time)
  /\ main.seek_cb = "none" =>
       /\ main.seek_time = NoTimestamp
       /\ main.shown <= main.last_media_time \/ Floor(main.shown)

IInv == /\ Typed /\ MediaFits /\ OneOperation /\ Sessions
        /\ Working => Awaited /\ Answers /\ Clock

(**************************************************************************)
LEMMA Bounds ==
  ASSUME Typed
  PROVE  /\ MaxTime \in Nat /\ StartTime \in Nat /\ StartTime <= MaxTime
         /\ Times \subseteq Nat /\ NoTimestamp \in Nat /\ NoTimestamp \notin Times
         /\ 0 \in Times /\ StartTime \in Times
  BY DEF Typed, Setup, MaxTime, StartTime, Times, NoTimestamp

LEMMA Constants ==
  ASSUME Typed, setup' = setup
  PROVE  /\ MaxTime \in Nat /\ StartTime \in Nat /\ StartTime <= MaxTime
         /\ Times \subseteq Nat /\ NoTimestamp \in Nat /\ NoTimestamp \notin Times
         /\ 0 \in Times /\ StartTime \in Times
         /\ Times' = Times /\ NoTimestamp' = NoTimestamp /\ Timestamps' = Timestamps
         /\ Entry' = Entry /\ StartTime' = StartTime
         /\ MainMembers' = MainMembers /\ MediaMembers' = MediaMembers
  BY SMTT(30) DEF Typed, Setup, MaxTime, StartTime, Times, NoTimestamp, Timestamps, Entry,
         MainMembers, MediaMembers, Series

LEMMA TaskNames ==
  ASSUME mediaQ \in Seq(Entry)
  PROVE  /\ Tasks \in Seq(MediaTasks) /\ DOMAIN Tasks = DOMAIN mediaQ
         /\ \A T : InMediaQ(T) <=> Has(Tasks, T)
         /\ mediaQ # << >> => Tasks # << >> /\ Head(Tasks) = Head(mediaQ).task
<1>. DEFINE n == Len(mediaQ)
<1>1. n \in Nat /\ DOMAIN mediaQ = 1 .. n /\ \A i \in 1 .. n : mediaQ[i] \in Entry
  OBVIOUS
<1>2. \A e \in Entry : e.task \in MediaTasks
  BY DEF Entry, MediaTasks
<1>. HIDE DEF n
<1>3. Tasks \in [1 .. n -> MediaTasks] /\ DOMAIN Tasks = 1 .. n
  BY <1>1, <1>2 DEF Tasks
<1>4. Tasks \in Seq(MediaTasks) /\ Len(Tasks) = n
  BY <1>1, <1>3
<1>5. \A T : InMediaQ(T) <=> Has(Tasks, T)
  BY <1>1 DEF InMediaQ, Has, Tasks, n
<1>6. ASSUME mediaQ # << >> PROVE Tasks # << >> /\ Head(Tasks) = Head(mediaQ).task
  <2>1. n # 0 /\ 1 \in 1 .. n /\ Head(mediaQ) = mediaQ[1]
    BY <1>1, <1>6 DEF n
  <2>2. Head(Tasks) = Tasks[1] /\ Tasks # << >>
    BY <1>1, <1>4, <2>1
  <2>. QED
    BY <1>1, <2>1, <2>2 DEF Tasks
<1>. QED
  BY <1>1, <1>3, <1>4, <1>5, <1>6

(* A task is posted to the media thread.                                    *)
Gains(e) ==
  /\ mediaQ' \in Seq(Entry)
  /\ \A T : Has(Tasks', T) <=> Has(Tasks, T) \/ e.task \in T
  /\ \A T : Single(Tasks, T) /\ (e.task \in T => ~Has(Tasks, T)) => Single(Tasks', T)
  /\ \A A, B : Before(Tasks, A, B) /\ (e.task \in A => ~Has(Tasks, B) /\ e.task \notin B)
                 => Before(Tasks', A, B)
  /\ \A i \in DOMAIN mediaQ' :
       (i \in DOMAIN mediaQ /\ mediaQ'[i] = mediaQ[i]) \/ mediaQ'[i] = e

LEMMA Posted ==
  ASSUME Typed, NEW e \in Entry, mediaQ' = Append(mediaQ, e) PROVE Gains(e)
<1>. DEFINE q == mediaQ
            n == Len(q)
<1>1. q \in Seq(Entry) /\ n \in Nat /\ DOMAIN q = 1 .. n
  BY DEF Typed
<1>2. /\ Tasks \in Seq(MediaTasks) /\ DOMAIN Tasks = 1 .. n /\ Len(Tasks) = n
      /\ \A i \in 1 .. n : Tasks[i] = q[i].task
  BY <1>1, TaskNames DEF Tasks
<1>3. e.task \in MediaTasks
  BY DEF Entry, MediaTasks
<1>. HIDE DEF q
<1>4. /\ mediaQ' \in Seq(Entry) /\ DOMAIN mediaQ' = 1 .. n + 1
      /\ \A i \in 1 .. n : mediaQ'[i] = q[i]
      /\ mediaQ'[n + 1] = e
  BY <1>1 DEF q
<1>5. /\ DOMAIN Tasks' = 1 .. n + 1 /\ Tasks'[n + 1] = e.task
      /\ \A i \in 1 .. n : Tasks'[i] = Tasks[i]
  BY <1>1, <1>2, <1>4 DEF Tasks
<1>. HIDE DEF n
<1>5_1. Adds(Tasks, e.task, Tasks')
  BY <1>1, <1>2, <1>5 DEF Adds
<1>6. \A i \in DOMAIN mediaQ' :
        (i \in DOMAIN mediaQ /\ mediaQ'[i] = mediaQ[i]) \/ mediaQ'[i] = e
  BY <1>1, <1>4 DEF q
<1>7. /\ \A T : Has(Tasks', T) <=> Has(Tasks, T) \/ e.task \in T
      /\ \A T : Single(Tasks, T) /\ (e.task \in T => ~Has(Tasks, T)) => Single(Tasks', T)
      /\ \A A, B : Before(Tasks, A, B) /\ (e.task \in A => ~Has(Tasks, B) /\ e.task \notin B)
                     => Before(Tasks', A, B)
  BY <1>5_1, AddTask, Zenon
<1>. QED
  BY <1>4, <1>6, <1>7, Zenon DEF Gains

(* The first task of the media thread, e, is taken.                         *)
Loses(e) ==
  /\ mediaQ' \in Seq(Entry) /\ e \in Entry
  /\ \A T : Has(Tasks, T) <=> Has(Tasks', T) \/ e.task \in T
  /\ \A T : Single(Tasks, T) => Single(Tasks', T)
  /\ \A T : Single(Tasks, T) /\ e.task \in T => ~Has(Tasks', T)
  /\ \A A, B : Before(Tasks, A, B) => Before(Tasks', A, B)
  /\ \A A, B : Before(Tasks, A, B) /\ e.task \in B => ~Has(Tasks, A)
  /\ \A i \in DOMAIN mediaQ' : \E j \in DOMAIN mediaQ : mediaQ'[i] = mediaQ[j]
  /\ \E j \in DOMAIN mediaQ : e = mediaQ[j]

LEMMA Taken ==
  ASSUME Typed, mediaQ # << >>, mediaQ' = Tail(mediaQ) PROVE Loses(Head(mediaQ))
<1>. DEFINE q == mediaQ
            n == Len(q)
<1>1. q \in Seq(Entry) /\ n \in Nat /\ DOMAIN q = 1 .. n /\ n # 0 /\ q # << >>
  BY DEF Typed
<1>2. /\ Tasks \in Seq(MediaTasks) /\ DOMAIN Tasks = 1 .. n /\ Len(Tasks) = n
      /\ \A i \in 1 .. n : Tasks[i] = q[i].task
      /\ Tasks # << >> /\ Head(Tasks) = Head(mediaQ).task
  BY <1>1, TaskNames DEF Tasks
<1>. HIDE DEF q
<1>3. /\ mediaQ' \in Seq(Entry) /\ DOMAIN mediaQ' = 1 .. n - 1
      /\ \A i \in 1 .. n - 1 : mediaQ'[i] = q[i + 1]
      /\ Head(mediaQ) = q[1] /\ Head(mediaQ) \in Entry
  BY <1>1 DEF q
<1>4. DOMAIN Tasks' = 1 .. n - 1 /\ \A i \in 1 .. n - 1 : Tasks'[i] = Tasks[i + 1]
  BY <1>1, <1>2, <1>3 DEF Tasks
<1>5. \A i \in 1 .. n - 1 : i + 1 \in 1 .. n /\ mediaQ'[i] = q[i + 1]
  BY <1>1, <1>3
<1>6. 1 \in 1 .. n
  BY <1>1
<1>6_1. Takes(Tasks, Tasks[1], Tasks')
  BY <1>1, <1>2, <1>4 DEF Takes
<1>7. /\ \A T : Has(Tasks, T) <=> Has(Tasks', T) \/ Tasks[1] \in T
      /\ \A T : Single(Tasks, T) => Single(Tasks', T)
      /\ \A T : Single(Tasks, T) /\ Tasks[1] \in T => ~Has(Tasks', T)
      /\ \A A, B : Before(Tasks, A, B) => Before(Tasks', A, B)
      /\ \A A, B : Before(Tasks, A, B) /\ Tasks[1] \in B => ~Has(Tasks, A)
  BY <1>6_1, TakeTask, Zenon
<1>8. \A i \in DOMAIN mediaQ' : \E j \in DOMAIN mediaQ : mediaQ'[i] = mediaQ[j]
  BY <1>1, <1>3, <1>5 DEF q
<1>9. 1 \in DOMAIN mediaQ /\ Head(mediaQ) = mediaQ[1]
  BY <1>1, <1>3, <1>6 DEF q
<1>10. Tasks[1] = Head(mediaQ).task
  BY <1>1, <1>2, <1>3
<1>. QED
  BY <1>3, <1>7, <1>8, <1>9, <1>10, Zenon DEF Loses

(* The same for the main thread; q is its queue afterwards.                 *)
Tells(t, q) ==
  /\ q \in Seq(MainTasks)
  /\ \A T : Has(q, T) <=> Has(mainQ, T) \/ t \in T
  /\ \A T : Single(mainQ, T) /\ (t \in T => ~Has(mainQ, T)) => Single(q, T)
  /\ \A A, B : Before(mainQ, A, B) /\ (t \in A => ~Has(mainQ, B) /\ t \notin B)
                 => Before(q, A, B)

LEMMA Told ==
  ASSUME mainQ \in Seq(MainTasks), NEW t \in MainTasks, NEW q, q = Append(mainQ, t)
  PROVE  Tells(t, q)
<1>1. q \in Seq(MainTasks)
  OBVIOUS
<1>2. Adds(mainQ, t, q)
  BY AppendAdds
<1>. QED
  BY <1>1, <1>2, AddTask, Zenon DEF Tells

Hears(t) ==
  /\ mainQ' \in Seq(MainTasks)
  /\ \A T : Has(mainQ, T) <=> Has(mainQ', T) \/ t \in T
  /\ \A T : Single(mainQ, T) => Single(mainQ', T)
  /\ \A T : Single(mainQ, T) /\ t \in T => ~Has(mainQ', T)
  /\ \A A, B : Before(mainQ, A, B) => Before(mainQ', A, B)
  /\ \A A, B : Before(mainQ, A, B) /\ t \in B => ~Has(mainQ, A)

LEMMA Heard ==
  ASSUME mainQ \in Seq(MainTasks), mainQ # << >>, mainQ' = Tail(mainQ)
  PROVE  Hears(Head(mainQ))
<1>1. mainQ' \in Seq(MainTasks)
  OBVIOUS
<1>2. Takes(mainQ, Head(mainQ), mainQ')
  BY TailTakes
<1>. QED
  BY <1>1, <1>2, TakeTask, Zenon DEF Hears

LEMMA Spending ==
  ASSUME Typed, setup' = setup, UNCHANGED spent \/ \E what \in DOMAIN spent : Spend(what)
  PROVE  spent' \in [ starts : 0 .. setup'.starts, calls : 0 .. setup'.calls,
                      errors : 0 .. setup'.errors ]
<1>1. setup.starts \in Nat /\ setup.calls \in Nat /\ setup.errors \in Nat
  BY DEF Typed, Setup
<1>2. spent \in [ starts : 0 .. setup.starts, calls : 0 .. setup.calls,
                  errors : 0 .. setup.errors ]
  BY DEF Typed
<1>3. CASE UNCHANGED spent
  BY <1>2, <1>3
<1>4. ASSUME NEW what \in DOMAIN spent, Spend(what) PROVE
        spent' \in [ starts : 0 .. setup.starts, calls : 0 .. setup.calls,
                     errors : 0 .. setup.errors ]
  <2>1. what \in {"starts", "calls", "errors"}
    BY <1>2, <1>4
  <2>2. spent[what] + 1 \in 0 .. setup[what]
    BY <1>1, <1>2, <1>4, <2>1 DEF Spend
  <2>3. spent' = [spent EXCEPT ![what] = spent[what] + 1]
    BY <1>4 DEF Spend
  <2>. DEFINE n == spent[what] + 1
  <2>4. n \in 0 .. setup[what] /\ spent' = [spent EXCEPT ![what] = n]
    BY <2>2, <2>3
  <2>. HIDE DEF n
  <2>. QED
    BY <1>2, <2>1, <2>4
<1>. QED
  BY <1>3, <1>4

(**************************************************************************)
(*                  Main thread: the calls of the client                    *)
LEMMA SetPlaybackRateInv ==
  ASSUME IInv, setup' = setup, NEW rate \in {0, 1}, SetPlaybackRate(rate)
  PROVE  IInv'
<1>. DEFINE e == [task |-> "SetPlaybackRate", arg |-> rate]
<1>1. e \in Entry /\ e.task = "SetPlaybackRate"
  BY DEF Entry
<1>2. /\ main' = main /\ media' = media /\ mainQ' = mainQ
      /\ mediaQ' = Append(mediaQ, e) /\ Spend("calls") /\ ~main.stopping
  BY DEF SetPlaybackRate, Post, MainFree
<1>. HIDE DEF e
<1>3. Gains(e)
  BY <1>1, <1>2, Posted DEF IInv
<1>4. Typed'
  <2>1. spent' \in [ starts : 0 .. setup'.starts, calls : 0 .. setup'.calls,
                     errors : 0 .. setup'.errors ]
    BY <1>2, Spending DEF IInv, Typed
  <2>. QED
    BY <1>2, <1>3, <2>1, Constants DEF IInv, Typed, Gains
<1>5. MediaFits'
  BY <1>1, <1>2, <1>3, Constants DEF IInv, MediaFits, Idle, Busy, SeriesFits, Gains
<1>6. OneOperation'
  BY <1>1, <1>2, <1>3 DEF IInv, OneOperation, Tokens, Ops, Nexts, Idle, Busy, Gains
<1>7. Sessions'
  BY <1>1, <1>2, <1>3 DEF IInv, Sessions, Idle, Resting, Gains
<1>8. Working => Awaited' /\ Answers' /\ Clock'
  <2>1. Working => Awaited'
    BY <1>1, <1>2, <1>3 DEF IInv, Awaited, Busy, Gains
  <2>2. Working => Answers'
    BY <1>1, <1>2, <1>3 DEF IInv, Answers, Resting, Tokens, Ops, Nexts, Gains
  <2>3. Working => Clock'
    BY <1>1, <1>2, <1>3, Constants DEF IInv, Clock, Floor, Busy, Gains
  <2>. QED
    BY <2>1, <2>2, <2>3
<1>. QED
  BY <1>2, <1>4, <1>5, <1>6, <1>7, <1>8 DEF IInv, Working

LEMMA PhaseTells ==
  ASSUME Typed
  PROVE  /\ Phase = "stopped" <=> ~main.client
         /\ Phase = "playing" <=> main.client /\ ~main.failed /\ Resting /\ ~main.is_suspended
         /\ Phase = "suspended" <=> main.client /\ ~main.failed /\ Resting /\ main.is_suspended
         /\ Phase = "failed" <=> main.client /\ main.failed
  BY DEF Typed, MainMembers, Phase, Resting

LEMMA StartInv ==
  ASSUME IInv, setup' = setup, NEW type \in StartTypes, Start(type) PROVE IInv'
<1>. DEFINE task == IF type = "kNormal" THEN "Start" ELSE "StartSuspendable"
            cb == IF type = "kNormal" THEN "starting" ELSE "starting_suspendable"
            e == [task |-> task, arg |-> 0]
<1>1. /\ \/ task = "Start" /\ cb = "starting"
         \/ task = "StartSuspendable" /\ cb = "starting_suspendable"
      /\ e \in Entry /\ e.task = task
  BY DEF Entry, MediaTasks
<1>2. /\ main' = [main EXCEPT !.client = TRUE, !.seek_cb = cb, !.last_media_time = 0,
                              !.seek_time = NoTimestamp, !.shown = 0]
      /\ media' = media /\ mainQ' = mainQ /\ mediaQ' = Append(mediaQ, e) /\ Spend("starts")
      /\ ~main.stopping /\ ~main.failed /\ ~main.client
  BY PhaseTells DEF Start, Post, MainFree, IInv
<1>. HIDE DEF e, task, cb
<1>3. Gains(e)
  BY <1>1, <1>2, Posted DEF IInv
<1>4. /\ main' \in MainMembers
      /\ main'.client = TRUE /\ main'.seek_cb = cb /\ main'.last_media_time = 0
      /\ main'.seek_time = NoTimestamp /\ main'.shown = 0 /\ main'.stopping = FALSE
      /\ main'.failed = FALSE /\ main'.suspend_cb = FALSE /\ main'.switching = FALSE
  <2>1. main \in MainMembers /\ ~main.suspend_cb /\ ~main.switching
    BY <1>2 DEF IInv, Typed, Sessions, Resting
  <2>2. 0 \in Times /\ NoTimestamp \in Timestamps
    BY Constants DEF IInv, Timestamps
  <2>. QED
    BY <1>1, <1>2, <2>1, <2>2 DEF MainMembers
<1>5. /\ Idle /\ ~media.linked /\ ~Busy /\ media.ok /\ media.series.running = "none"
      /\ ~Has(Tasks, MediaTasks \ {"SetPlaybackRate"})
  BY <1>2 DEF IInv, Sessions, MediaFits, Busy, NoSeries
<1>6. /\ ~Has(Tasks, Tokens) /\ ~Has(Tasks, {"Stop", "StopCb"})
      /\ ~Has(mainQ, Dones \cup {"OnError"}) /\ ~Has(mainQ, Dones)
  <2>1. /\ Tokens \subseteq MediaTasks \ {"SetPlaybackRate"}
        /\ {"Stop", "StopCb"} \subseteq MediaTasks \ {"SetPlaybackRate"}
    BY DEF Tokens, Ops, Nexts, MediaTasks
  <2>2. ~Has(mainQ, Dones \cup {"OnError"})
    BY <1>5 DEF IInv, OneOperation
  <2>. QED
    BY <1>5, <2>1, <2>2, Kinds
<1>7. Typed'
  <2>1. spent' \in [ starts : 0 .. setup'.starts, calls : 0 .. setup'.calls,
                     errors : 0 .. setup'.errors ]
    BY <1>2, Spending DEF IInv, Typed
  <2>. QED
    BY <1>2, <1>3, <1>4, <2>1, Constants DEF IInv, Typed, Gains
<1>8. MediaFits'
  BY <1>1, <1>2, <1>3, Constants DEF IInv, MediaFits, Idle, Busy, SeriesFits, Gains
<1>9. OneOperation'
  BY <1>1, <1>2, <1>3, <1>5, <1>6
     DEF IInv, OneOperation, Tokens, Ops, Nexts, Idle, Busy, Gains
<1>10. Sessions'
  BY <1>1, <1>2, <1>3, <1>4, <1>5, <1>6 DEF IInv, Sessions, Idle, Resting, Gains
<1>11. Awaited'
  <2>1. \A T : T \subseteq Tokens => ~Has(Tasks, T)
    BY <1>6, Kinds
  <2>2. \A T : T \subseteq Dones => ~Has(mainQ, T)
    BY <1>6, Kinds
  <2>. QED
    BY <1>1, <1>2, <1>3, <1>4, <1>5, <2>1, <2>2
       DEF Awaited, Busy, Gains, Tokens, Ops, Dones, EndSuspended
<1>12. Answers'
  BY <1>1, <1>2, <1>3, <1>4, <1>5 DEF Answers, Resting, Tokens, Ops, Gains
<1>13. Clock'
  BY <1>1, <1>4, Constants DEF IInv, Clock
<1>. QED
  BY <1>7, <1>8, <1>9, <1>10, <1>11, <1>12, <1>13 DEF IInv

(* When the client may call, nothing is under way.                          *)
LEMMA Rest ==
  ASSUME IInv, Working, Resting
  PROVE  /\ \A T : T \subseteq Tokens => ~Has(Tasks, T)
         /\ \A T : T \subseteq Dones => ~Has(mainQ, T)
         /\ ~Has(Tasks, {"Stop", "StopCb"}) /\ ~Has(Tasks, {"Stop"}) /\ ~Has(Tasks, {"StopCb"})
         /\ ~Busy /\ media.series.running = "none"
         /\ media.state = IF main.is_suspended THEN "kSuspended" ELSE "kPlaying"
         /\ media.linked
<1>1. /\ ~Has(Tasks, Tokens) /\ ~Has(mainQ, Dones) /\ media.series.running = "none"
      /\ media.state = IF main.is_suspended THEN "kSuspended" ELSE "kPlaying"
  BY DEF IInv, Answers
<1>2. /\ ~Has(Tasks, {"Stop", "StopCb"})
      /\ {"Stop"} \subseteq {"Stop", "StopCb"} /\ {"StopCb"} \subseteq {"Stop", "StopCb"}
  BY DEF IInv, Sessions, Working
<1>3. ~Busy
  <2>1. ~Has(Tasks, Nexts)
    BY <1>1, Kinds DEF Tokens
  <2>. QED
    BY <1>1, <2>1 DEF IInv, OneOperation
<1>4. media.linked
  BY <1>1 DEF IInv, MediaFits, Idle
<1>5. \A T : T \subseteq Tokens => ~Has(Tasks, T)
  BY <1>1, Kinds
<1>6. \A T : T \subseteq Dones => ~Has(mainQ, T)
  BY <1>1, Kinds
<1>7. ~Has(Tasks, {"Stop"}) /\ ~Has(Tasks, {"StopCb"})
  BY <1>2, Kinds
<1>. QED
  BY <1>1, <1>2, <1>3, <1>4, <1>5, <1>6, <1>7

LEMMA SeekInv ==
  ASSUME IInv, setup' = setup, NEW time \in Times, Seek(time) PROVE IInv'
<1>. DEFINE e == [task |-> "Seek", arg |-> time]
<1>1. e \in Entry /\ e.task = "Seek" /\ e.arg = time
  BY DEF Entry
<1>2. /\ main' = [main EXCEPT !.seek_cb = "seeking", !.seek_time = time,
                              !.last_media_time = 0, !.shown = 0]
      /\ media' = media /\ mainQ' = mainQ /\ mediaQ' = Append(mediaQ, e) /\ Spend("calls")
      /\ Working /\ Resting /\ ~main.is_suspended /\ ~main.switching
  BY PhaseTells DEF Seek, Post, MayCall, MainFree, IInv, Working
<1>. HIDE DEF e
<1>3. Gains(e)
  BY <1>1, <1>2, Posted DEF IInv
<1>4. /\ main' \in MainMembers
      /\ main'.client = TRUE /\ main'.seek_cb = "seeking" /\ main'.last_media_time = 0
      /\ main'.seek_time = time /\ main'.shown = 0 /\ main'.stopping = FALSE
      /\ main'.failed = FALSE /\ main'.suspend_cb = FALSE /\ main'.switching = FALSE
  <2>1. main \in MainMembers /\ 0 \in Times /\ time \in Timestamps
    BY Constants DEF IInv, Typed, Timestamps
  <2>. QED
    BY <1>2, <2>1 DEF MainMembers, Working, Resting
<1>5. /\ \A T : T \subseteq Tokens => ~Has(Tasks, T)
      /\ \A T : T \subseteq Dones => ~Has(mainQ, T)
      /\ ~Has(Tasks, {"Stop", "StopCb"})
      /\ ~Busy /\ media.series.running = "none" /\ media.state = "kPlaying" /\ media.linked
  BY <1>2, Rest
<1>6. ~Has(Tasks, Tokens) /\ ~Has(mainQ, Dones)
  BY <1>5
<1>7. Typed'
  <2>1. spent' \in [ starts : 0 .. setup'.starts, calls : 0 .. setup'.calls,
                     errors : 0 .. setup'.errors ]
    BY <1>2, Spending DEF IInv, Typed
  <2>. QED
    BY <1>2, <1>3, <1>4, <2>1, Constants DEF IInv, Typed, Gains
<1>8. MediaFits'
  BY <1>1, <1>2, <1>3, Constants DEF IInv, MediaFits, Idle, Busy, SeriesFits, Gains
<1>9. OneOperation'
  BY <1>1, <1>2, <1>3, <1>5, <1>6
     DEF IInv, OneOperation, Tokens, Ops, Nexts, Idle, Busy, Gains
<1>10. Sessions'
  BY <1>1, <1>2, <1>3, <1>4, <1>5 DEF IInv, Sessions, Idle, Gains
<1>11. Awaited'
  BY <1>1, <1>2, <1>3, <1>4, <1>5
     DEF Awaited, Busy, Gains, Tokens, Ops, Dones, EndSuspended
<1>12. Answers'
  BY <1>1, <1>2, <1>3, <1>4 DEF IInv, Answers, Resting, Tokens, Ops, Gains
<1>13. Clock'
  <2>1. \A i \in DOMAIN mediaQ : mediaQ[i].task \notin {"Seek", "Resume"}
    <3>1. ~Has(Tasks, {"Seek", "Resume"})
      BY <1>5 DEF Tokens, Ops
    <3>. QED
      BY <3>1 DEF Has, Tasks
  <2>2. time \in Nat /\ time # NoTimestamp /\ NoTimestamp' = NoTimestamp
    BY Constants DEF IInv
  <2>3. ~Has(mainQ, {"OnSeekDone"})
    BY <1>5 DEF Dones
  <2>. QED
    BY <1>1, <1>2, <1>3, <1>4, <1>5, <2>1, <2>2, <2>3 DEF Clock, Gains, Busy
<1>. QED
  BY <1>7, <1>8, <1>9, <1>10, <1>11, <1>12, <1>13 DEF IInv

LEMMA ResumeInv ==
  ASSUME IInv, setup' = setup, NEW time \in Times, Resume(time) PROVE IInv'
<1>. DEFINE e == [task |-> "Resume", arg |-> time]
<1>1. e \in Entry /\ e.task = "Resume" /\ e.arg = time
  BY DEF Entry
<1>2. /\ main' = [main EXCEPT !.seek_cb = "resuming", !.seek_time = time,
                              !.last_media_time = 0, !.shown = 0]
      /\ media' = media /\ mainQ' = mainQ /\ mediaQ' = Append(mediaQ, e) /\ Spend("calls")
      /\ Working /\ Resting /\ main.is_suspended /\ ~main.switching
  BY PhaseTells DEF Resume, Post, MayCall, MainFree, IInv, Working
<1>. HIDE DEF e
<1>3. Gains(e)
  BY <1>1, <1>2, Posted DEF IInv
<1>4. /\ main' \in MainMembers
      /\ main'.client = TRUE /\ main'.seek_cb = "resuming" /\ main'.last_media_time = 0
      /\ main'.seek_time = time /\ main'.shown = 0 /\ main'.stopping = FALSE
      /\ main'.failed = FALSE /\ main'.suspend_cb = FALSE /\ main'.switching = FALSE
  <2>1. main \in MainMembers /\ 0 \in Times /\ time \in Timestamps
    BY Constants DEF IInv, Typed, Timestamps
  <2>. QED
    BY <1>2, <2>1 DEF MainMembers, Working, Resting
<1>5. /\ \A T : T \subseteq Tokens => ~Has(Tasks, T)
      /\ \A T : T \subseteq Dones => ~Has(mainQ, T)
      /\ ~Has(Tasks, {"Stop", "StopCb"})
      /\ ~Busy /\ media.series.running = "none" /\ media.state = "kSuspended" /\ media.linked
  BY <1>2, Rest
<1>6. ~Has(Tasks, Tokens) /\ ~Has(mainQ, Dones)
  BY <1>5
<1>7. Typed'
  <2>1. spent' \in [ starts : 0 .. setup'.starts, calls : 0 .. setup'.calls,
                     errors : 0 .. setup'.errors ]
    BY <1>2, Spending DEF IInv, Typed
  <2>. QED
    BY <1>2, <1>3, <1>4, <2>1, Constants DEF IInv, Typed, Gains
<1>8. MediaFits'
  BY <1>1, <1>2, <1>3, Constants DEF IInv, MediaFits, Idle, Busy, SeriesFits, Gains
<1>9. OneOperation'
  BY <1>1, <1>2, <1>3, <1>5, <1>6
     DEF IInv, OneOperation, Tokens, Ops, Nexts, Idle, Busy, Gains
<1>10. Sessions'
  BY <1>1, <1>2, <1>3, <1>4, <1>5 DEF IInv, Sessions, Idle, Gains
<1>11. Awaited'
  BY <1>1, <1>2, <1>3, <1>4, <1>5
     DEF Awaited, Busy, Gains, Tokens, Ops, Dones, EndSuspended
<1>12. Answers'
  BY <1>1, <1>2, <1>3, <1>4 DEF IInv, Answers, Resting, Tokens, Ops, Gains
<1>13. Clock'
  <2>1. \A i \in DOMAIN mediaQ : mediaQ[i].task \notin {"Seek", "Resume"}
    <3>1. ~Has(Tasks, {"Seek", "Resume"})
      BY <1>5 DEF Tokens, Ops
    <3>. QED
      BY <3>1 DEF Has, Tasks
  <2>2. time \in Nat /\ time # NoTimestamp /\ NoTimestamp' = NoTimestamp
    BY Constants DEF IInv
  <2>3. ~Has(mainQ, {"OnSeekDone"})
    BY <1>5 DEF Dones
  <2>. QED
    BY <1>1, <1>2, <1>3, <1>4, <1>5, <2>1, <2>2, <2>3 DEF Clock, Gains, Busy
<1>. QED
  BY <1>7, <1>8, <1>9, <1>10, <1>11, <1>12, <1>13 DEF IInv

LEMMA SuspendInv ==
  ASSUME IInv, setup' = setup, Suspend PROVE IInv'
<1>. DEFINE e == [task |-> "Suspend", arg |-> 0]
<1>1. e \in Entry /\ e.task = "Suspend"
  BY DEF Entry, MediaTasks
<1>2. /\ main' = [main EXCEPT !.suspend_cb = TRUE]
      /\ media' = media /\ mainQ' = mainQ /\ mediaQ' = Append(mediaQ, e) /\ Spend("calls")
      /\ Working /\ Resting /\ ~main.is_suspended /\ ~main.switching
  BY PhaseTells DEF Suspend, Post, MayCall, MainFree, IInv, Working
<1>. HIDE DEF e
<1>3. Gains(e)
  BY <1>1, <1>2, Posted DEF IInv
<1>4. /\ main' \in MainMembers
      /\ main'.client = TRUE /\ main'.seek_cb = "none"
      /\ main'.last_media_time = main.last_media_time
      /\ main'.seek_time = main.seek_time /\ main'.shown = main.shown
      /\ main'.stopping = FALSE
      /\ main'.failed = FALSE /\ main'.suspend_cb = TRUE /\ main'.switching = FALSE
  BY <1>2 DEF IInv, Typed, MainMembers, Working, Resting
<1>5. /\ \A T : T \subseteq Tokens => ~Has(Tasks, T)
      /\ \A T : T \subseteq Dones => ~Has(mainQ, T)
      /\ ~Has(Tasks, {"Stop", "StopCb"})
      /\ ~Busy /\ media.series.running = "none" /\ media.state = "kPlaying" /\ media.linked
  BY <1>2, Rest
<1>6. ~Has(Tasks, Tokens) /\ ~Has(mainQ, Dones)
  BY <1>5
<1>7. Typed'
  <2>1. spent' \in [ starts : 0 .. setup'.starts, calls : 0 .. setup'.calls,
                     errors : 0 .. setup'.errors ]
    BY <1>2, Spending DEF IInv, Typed
  <2>. QED
    BY <1>2, <1>3, <1>4, <2>1, Constants DEF IInv, Typed, Gains
<1>8. MediaFits'
  BY <1>1, <1>2, <1>3, Constants DEF IInv, MediaFits, Idle, Busy, SeriesFits, Gains
<1>9. OneOperation'
  BY <1>1, <1>2, <1>3, <1>5, <1>6
     DEF IInv, OneOperation, Tokens, Ops, Nexts, Idle, Busy, Gains
<1>10. Sessions'
  BY <1>1, <1>2, <1>3, <1>4, <1>5 DEF IInv, Sessions, Idle, Gains
<1>11. Awaited'
  BY <1>1, <1>2, <1>3, <1>4, <1>5
     DEF Awaited, Busy, Gains, Tokens, Ops, Dones, EndSuspended
<1>12. Answers'
  BY <1>1, <1>2, <1>3, <1>4 DEF IInv, Answers, Resting, Tokens, Ops, Gains
<1>13. Clock'
  BY <1>2, <1>4, Constants DEF IInv, Clock, Resting, Floor
<1>. QED
  BY <1>7, <1>8, <1>9, <1>10, <1>11, <1>12, <1>13 DEF IInv

LEMMA ChangeTracksInv ==
  ASSUME IInv, setup' = setup, ChangeTracks PROVE IInv'
<1>. DEFINE e == [task |-> "TrackChange", arg |-> 0]
<1>1. e \in Entry /\ e.task = "TrackChange"
  BY DEF Entry, MediaTasks
<1>2. /\ main' = [main EXCEPT !.switching = TRUE]
      /\ media' = media /\ mainQ' = mainQ /\ mediaQ' = Append(mediaQ, e) /\ Spend("calls")
      /\ Working /\ Resting
  BY PhaseTells DEF ChangeTracks, Post, MainFree, IInv, Working
<1>. HIDE DEF e
<1>3. Gains(e)
  BY <1>1, <1>2, Posted DEF IInv
<1>4. /\ main' \in MainMembers
      /\ main'.client = main.client /\ main'.seek_cb = main.seek_cb
      /\ main'.suspend_cb = main.suspend_cb /\ main'.is_suspended = main.is_suspended
      /\ main'.last_media_time = main.last_media_time
      /\ main'.seek_time = main.seek_time /\ main'.shown = main.shown
      /\ main'.stopping = main.stopping /\ main'.failed = main.failed
      /\ main'.switching = TRUE
  BY <1>2 DEF IInv, Typed, MainMembers
<1>5. Typed'
  <2>1. spent' \in [ starts : 0 .. setup'.starts, calls : 0 .. setup'.calls,
                     errors : 0 .. setup'.errors ]
    BY <1>2, Spending DEF IInv, Typed
  <2>. QED
    BY <1>2, <1>3, <1>4, <2>1, Constants DEF IInv, Typed, Gains
<1>6. MediaFits'
  BY <1>1, <1>2, <1>3, Constants DEF IInv, MediaFits, Idle, Busy, SeriesFits, Gains
<1>7. OneOperation'
  BY <1>1, <1>2, <1>3 DEF IInv, OneOperation, Tokens, Ops, Nexts, Idle, Busy, Gains
<1>8. Sessions'
  BY <1>1, <1>2, <1>3, <1>4 DEF IInv, Sessions, Idle, Working, Gains
<1>9. Awaited'
  BY <1>1, <1>2, <1>3, <1>4 DEF IInv, Awaited, Busy, Gains
<1>10. Answers'
  BY <1>1, <1>2, <1>3, <1>4 DEF IInv, Answers, Resting, Tokens, Ops, Nexts, Gains
<1>11. Clock'
  BY <1>1, <1>2, <1>3, <1>4, Constants DEF IInv, Clock, Floor, Busy, Gains
<1>. QED
  BY <1>5, <1>6, <1>7, <1>8, <1>9, <1>10, <1>11 DEF IInv

(* The time that is shown: the clamping of GetMediaTime() bridges what the  *)
(* clocks take back, and their floor what a seek took it to.                *)
LEMMA TimesAreAbove ==
  ASSUME IInv, NEW t \in SharedTimes
  PROVE  t \in Times /\ \A x \in Times : Floor(x) => x <= t
<1>1. /\ media.pos \in Times /\ media.from \in Times /\ media.suspend_timestamp \in Timestamps
      /\ Times \subseteq Nat /\ NoTimestamp \in Nat /\ NoTimestamp \notin Times /\ 0 \in Times
      /\ MaxTime \in Nat
  BY Bounds DEF IInv, Typed, MediaMembers
<1>2. CASE media.suspend_timestamp # NoTimestamp
  BY <1>1, <1>2 DEF SharedTimes, Floor, Timestamps
<1>3. CASE media.suspend_timestamp = NoTimestamp /\ media.renderer # "none"
  <2>1. t \in {media.pos, media.pos - 1} /\ media.from <= t
    BY <1>3 DEF SharedTimes, RendererTimes
  <2>2. t \in Times
    BY <1>1, <2>1 DEF Times
  <2>3. t \in Nat /\ media.from \in Nat
    BY <1>1, <2>2
  <2>4. ASSUME NEW x \in Times, Floor(x) PROVE x <= t
    <3>1. x \in Nat /\ x <= media.from
      BY <1>1, <1>3, <2>4 DEF Floor
    <3>. QED
      BY <2>1, <2>3, <3>1
  <2>. QED
    BY <2>2, <2>4
<1>4. CASE media.suspend_timestamp = NoTimestamp /\ media.renderer = "none"
  BY <1>1, <1>4 DEF SharedTimes, Floor
<1>. QED
  BY <1>2, <1>3, <1>4

LEMMA GetMediaTimeInv ==
  ASSUME IInv, setup' = setup, GetMediaTime
  PROVE  IInv' /\ (main.client => main.shown <= main'.shown)
<1>1. /\ media' = media /\ mainQ' = mainQ /\ mediaQ' = mediaQ /\ spent' = spent
      /\ Tasks' = Tasks /\ (main.client => Working)
  BY DEF GetMediaTime, Tasks, MainFree, Working
<1>2. /\ main.shown \in Times /\ main.last_media_time \in Times
      /\ main.seek_time \in Timestamps /\ main \in MainMembers
      /\ Times \subseteq Nat /\ NoTimestamp \in Nat /\ NoTimestamp \notin Times
      /\ NoTimestamp' = NoTimestamp
  BY Constants DEF IInv, Typed, MainMembers
<1>3. PICK last \in Times, now \in Times :
        /\ main' = [main EXCEPT !.last_media_time = last, !.shown = now]
        /\ \/ /\ main.seek_time # NoTimestamp
              /\ now = main.seek_time /\ last = main.last_media_time
           \/ /\ main.seek_time = NoTimestamp
              /\ now = last /\ main.last_media_time <= now
              /\ \A x \in Times : Floor(x) => x <= now
  <2>1. CASE main.seek_time # NoTimestamp
    <3>1. main' = [main EXCEPT !.last_media_time = main.last_media_time,
                               !.shown = main.seek_time]
      BY <1>2, <2>1 DEF GetMediaTime, MainMembers
    <3>2. main.seek_time \in Times
      BY <1>2, <2>1 DEF Timestamps
    <3>. QED
      BY <1>2, <2>1, <3>1, <3>2
  <2>2. CASE main.seek_time = NoTimestamp
    <3>1. PICK t \in SharedTimes :
            LET now == IF t < main.last_media_time THEN main.last_media_time ELSE t
            IN  main' = [main EXCEPT !.last_media_time = now, !.shown = now]
      BY <2>2 DEF GetMediaTime
    <3>. DEFINE now == IF t < main.last_media_time THEN main.last_media_time ELSE t
    <3>2. t \in Times /\ \A x \in Times : Floor(x) => x <= t
      BY TimesAreAbove
    <3>3. now \in Times /\ main.last_media_time <= now /\ t <= now
      <4>1. t \in Nat /\ main.last_media_time \in Nat
        BY <1>2, <3>2
      <4>. QED
        BY <1>2, <3>2, <4>1
    <3>4. main' = [main EXCEPT !.last_media_time = now, !.shown = now]
      BY <3>1
    <3>. HIDE DEF now
    <3>5. \A x \in Times : Floor(x) => x <= now
      BY <1>2, <3>2, <3>3
    <3>. QED
      BY <2>2, <3>3, <3>4, <3>5
  <2>. QED
    BY <2>1, <2>2
<1>4. /\ main' \in MainMembers
      /\ main'.client = main.client /\ main'.seek_cb = main.seek_cb
      /\ main'.suspend_cb = main.suspend_cb /\ main'.is_suspended = main.is_suspended
      /\ main'.seek_time = main.seek_time /\ main'.switching = main.switching
      /\ main'.stopping = main.stopping /\ main'.failed = main.failed
      /\ main'.last_media_time = last /\ main'.shown = now
  BY <1>2, <1>3 DEF MainMembers
<1>5. Typed'
  BY <1>1, <1>4, Constants DEF IInv, Typed
<1>6. MediaFits' /\ OneOperation'
  BY <1>1, Constants DEF IInv, MediaFits, Idle, Busy, SeriesFits, OneOperation
<1>7. Sessions'
  BY <1>1, <1>4 DEF IInv, Sessions, Idle, Resting, StopUnderWay, StopDone
<1>8. Working => Awaited' /\ Answers'
  BY <1>1, <1>4 DEF IInv, Awaited, Answers, Busy, Resting
<1>9. Working => Clock' /\ main.shown <= now
  <2>. SUFFICES ASSUME Working PROVE Clock' /\ main.shown <= now
    OBVIOUS
  <2>1. Clock /\ main.seek_cb \in {"none", "starting", "starting_suspendable",
                                   "seeking", "resuming"}
    BY <1>2 DEF IInv, MainMembers
  <2>2. main.seek_time # NoTimestamp <=> main.seek_cb \in {"seeking", "resuming"}
    BY <2>1 DEF Clock
  <2>3. main.shown <= now
    BY <1>2, <1>3, <2>1, <2>2 DEF Clock
  <2>4. \A x \in Times : Floor(x)' <=> Floor(x)
    BY <1>1, <1>2 DEF Floor
  <2>5. Clock'
    BY <1>1, <1>2, <1>3, <1>4, <2>1, <2>2, <2>4 DEF Clock, Busy, Timestamps
  <2>. QED
    BY <2>3, <2>5
<1>10. Working' => Working
  BY <1>4 DEF Working
<1>. QED
  BY <1>1, <1>4, <1>5, <1>6, <1>7, <1>8, <1>9, <1>10 DEF IInv

LEMMA StopInv ==
  ASSUME IInv, setup' = setup, Stop PROVE IInv'
<1>. DEFINE e == [task |-> "Stop", arg |-> 0]
<1>1. e \in Entry /\ e.task = "Stop"
  BY DEF Entry, MediaTasks
<1>2. /\ main' = [main EXCEPT !.stopping = TRUE] /\ media' = [media EXCEPT !.signaled = FALSE]
      /\ mainQ' = mainQ /\ mediaQ' = Append(mediaQ, e) /\ spent' = spent
      /\ main.client /\ ~main.stopping
  BY DEF Stop, Post
<1>. HIDE DEF e
<1>3. Gains(e)
  BY <1>1, <1>2, Posted DEF IInv
<1>4. main' \in MainMembers /\ main'.client /\ main'.stopping
  BY <1>2 DEF IInv, Typed, MainMembers
<1>5. /\ media' \in MediaMembers /\ ~media'.signaled
      /\ media'.state = media.state /\ media'.ok = media.ok /\ media'.demuxer = media.demuxer
      /\ media'.renderer = media.renderer /\ media'.track = media.track
      /\ media'.suspend_timestamp = media.suspend_timestamp
      /\ media'.series = media.series /\ media'.linked = media.linked
  BY <1>2 DEF IInv, Typed, MediaMembers
<1>6. /\ ~Has(Tasks, {"Stop"}) /\ ~Has(Tasks, {"StopCb"})
  <2>1. ~Has(Tasks, {"Stop", "StopCb"})
    BY <1>2 DEF IInv, Sessions
  <2>. QED
    BY <2>1, Kinds
<1>7. Typed'
  BY <1>2, <1>3, <1>4, <1>5, Constants DEF IInv, Typed, Gains
<1>8. MediaFits'
  BY <1>1, <1>3, <1>5, Constants DEF IInv, MediaFits, Idle, Busy, SeriesFits, Gains
<1>9. OneOperation'
  BY <1>1, <1>2, <1>3, <1>5 DEF IInv, OneOperation, Tokens, Ops, Nexts, Idle, Busy, Gains
<1>10. Sessions'
  <2>1. StopUnderWay'
    <3>1. Single(Tasks, {"Stop"}) /\ Before(Tasks, Ops, {"Stop"})
      BY <1>6, Kinds
    <3>. QED
      BY <1>1, <1>3, <1>5, <1>6, <3>1 DEF StopUnderWay, Gains, Ops
  <2>2. ~(Idle /\ media.linked)
    BY <1>2 DEF IInv, Sessions
  <2>3. ~media'.linked => Has(Tasks', {"Start", "StartSuspendable"})
    BY <1>2, <1>3, <1>5 DEF IInv, Sessions, Gains
  <2>. QED
    BY <1>4, <1>5, <2>1, <2>2, <2>3 DEF Sessions, Idle
<1>. QED
  BY <1>4, <1>7, <1>8, <1>9, <1>10 DEF IInv, Working

LEMMA StopReturnsInv ==
  ASSUME IInv, setup' = setup, StopReturns PROVE IInv'
<1>. DEFINE left == {i \in DOMAIN mainQ : mainQ[i] = "TrackChanged"}
            q == [i \in 1 .. Cardinality(left) |-> "TrackChanged"]
<1>1. /\ main' = [main EXCEPT !.client = FALSE, !.seek_cb = "none", !.suspend_cb = FALSE,
                              !.stopping = FALSE, !.failed = FALSE, !.switching = FALSE]
      /\ media' = [media EXCEPT !.linked = FALSE]
      /\ mainQ' = q /\ mediaQ' = mediaQ /\ Tasks' = Tasks /\ spent' = spent
      /\ main.stopping /\ media.signaled
  BY DEF StopReturns, Tasks
<1>2. q \in Seq(MainTasks) /\ \A i \in DOMAIN q : q[i] = "TrackChanged"
  <2>1. mainQ \in Seq(MainTasks) /\ Len(mainQ) \in Nat /\ DOMAIN mainQ = 1 .. Len(mainQ)
    BY DEF IInv, Typed
  <2>2. IsFiniteSet(left)
    <3>1. IsFiniteSet(1 .. Len(mainQ)) /\ left \subseteq 1 .. Len(mainQ)
      BY <2>1, FS_Interval
    <3>. QED
      BY <3>1, FS_Subset
  <2>. DEFINE n == Cardinality(left)
  <2>3. n \in Nat
    BY <2>2, FS_CardinalityType
  <2>. HIDE DEF n
  <2>4. [i \in 1 .. n |-> "TrackChanged"] \in Seq(MainTasks)
    BY <2>3 DEF MainTasks
  <2>. QED
    BY <2>4 DEF n
<1>. HIDE DEF q
<1>3. \A T : "TrackChanged" \notin T => ~Has(mainQ', T)
  BY <1>1, <1>2 DEF Has
<1>4. /\ ~Has(mainQ', Dones) /\ ~Has(mainQ', {"OnSeekDone"}) /\ ~Has(mainQ', EndSuspended)
      /\ ~Has(mainQ', Dones \cup {"OnError"})
  BY <1>3 DEF Dones, EndSuspended
<1>5. /\ main' \in MainMembers /\ ~main'.client /\ main'.seek_cb = "none"
      /\ ~main'.suspend_cb /\ ~main'.stopping /\ ~main'.failed /\ ~main'.switching
  BY <1>1 DEF IInv, Typed, MainMembers
<1>6. /\ media' \in MediaMembers /\ ~media'.linked
      /\ media'.state = media.state /\ media'.ok = media.ok /\ media'.demuxer = media.demuxer
      /\ media'.renderer = media.renderer /\ media'.track = media.track
      /\ media'.suspend_timestamp = media.suspend_timestamp
      /\ media'.series = media.series
  BY <1>1 DEF IInv, Typed, MediaMembers
<1>7. Idle /\ ~Has(Tasks, MediaTasks)
  BY <1>1 DEF IInv, Sessions, StopUnderWay, StopDone
<1>8. \A T : T \subseteq MediaTasks => ~Has(Tasks, T)
  BY <1>7, Kinds
<1>9. Typed'
  BY <1>1, <1>2, <1>5, <1>6, Constants DEF IInv, Typed
<1>10. MediaFits'
  BY <1>1, <1>6, <1>7 DEF IInv, MediaFits, Idle, Busy
<1>11. OneOperation'
  <2>1. /\ ~Has(Tasks, Tokens) /\ ~Has(Tasks, Nexts) /\ ~Has(Tasks, {"Start", "StartSuspendable"})
        /\ ~Has(Tasks, {"Seek", "Suspend"}) /\ ~Has(Tasks, {"Resume"})
    BY <1>8 DEF Tokens, Ops, Nexts, MediaTasks
  <2>2. Single(mainQ', Dones) /\ Before(mainQ', {"OnError"}, EndSuspended)
    BY <1>4, Kinds
  <2>. QED
    BY <1>1, <1>4, <1>6, <1>7, <2>1, <2>2 DEF IInv, OneOperation, Idle, Busy
<1>12. Sessions'
  <2>1. ~Has(Tasks, {"Stop", "StopCb"}) /\ ~Has(Tasks, MediaTasks \ {"SetPlaybackRate"})
    BY <1>8 DEF MediaTasks
  <2>. QED
    BY <1>1, <1>5, <1>6, <1>7, <2>1 DEF Sessions, Idle, Resting
<1>. QED
  BY <1>5, <1>9, <1>10, <1>11, <1>12 DEF IInv, Working

(**************************************************************************)
(*                       Main thread: the tasks                             *)
LEMMA OnErrorInv ==
  ASSUME IInv, setup' = setup, OnError,
         mainQ' = Tail(mainQ), UNCHANGED <<media, mediaQ, spent>>
  PROVE  IInv' /\ main.client /\ ~main.failed /\ ~(Resting /\ main.is_suspended)
<1>1. /\ mainQ # << >> /\ ~main.stopping /\ ~main.failed /\ Tasks' = Tasks
      /\ main' \in {[main EXCEPT !.seek_cb = "none", !.failed = TRUE],
                    [main EXCEPT !.suspend_cb = FALSE, !.failed = TRUE],
                    [main EXCEPT !.failed = TRUE]}
  BY DEF OnError, NextMainTask, MainFree, Tasks
<1>2. Hears(Head(mainQ)) /\ Head(mainQ) = "OnError"
  BY <1>1, Heard DEF IInv, Typed, OnError, NextMainTask
<1>3. /\ main' \in MainMembers /\ main'.client = main.client
      /\ main'.failed = TRUE /\ main'.stopping = main.stopping
  BY <1>1 DEF IInv, Typed, MainMembers
<1>4. Typed'
  BY <1>2, <1>3, Constants DEF IInv, Typed, Hears
<1>5. MediaFits'
  BY <1>1, Constants DEF IInv, MediaFits, Idle, Busy, SeriesFits
<1>6. OneOperation'
  BY <1>1, <1>2, Kinds DEF IInv, OneOperation, Hears, Idle, Busy
<1>7. main.client
  <2>1. Has(mainQ, {"OnError"}) /\ {"OnError"} \subseteq Dones \cup {"OnError"}
    BY <1>2 DEF Hears
  <2>2. Has(mainQ, Dones \cup {"OnError"})
    BY <2>1, Kinds
  <2>. QED
    BY <2>2 DEF IInv, OneOperation, Sessions
<1>8. Sessions'
  BY <1>1, <1>3, <1>7 DEF IInv, Sessions, Idle
<1>9. ~(Resting /\ main.is_suspended)
  <2>1. Has(mainQ, {"OnError"}) /\ Working
    BY <1>1, <1>2, <1>7 DEF Hears, Working
  <2>. QED
    BY <2>1 DEF IInv, Answers
<1>. QED
  BY <1>1, <1>3, <1>4, <1>5, <1>6, <1>7, <1>8, <1>9 DEF IInv, Working

(* The completion of a start, a seek or a resumption, as the client sees    *)
(* it: the pipeline is at rest where the media thread has taken it.         *)
LEMMA OnSeekDoneInv ==
  ASSUME IInv, setup' = setup, NEW b \in BOOLEAN, OnSeekDone(b),
         mainQ' = Tail(mainQ), UNCHANGED <<media, mediaQ, spent>>
  PROVE  IInv' /\ main.client /\ ~main.failed
         /\ main.seek_cb # "none" /\ (b => main.seek_cb = "starting_suspendable")
<1>. DEFINE t == IF b THEN "OnSeekDoneSuspended" ELSE "OnSeekDone"
<1>1. /\ mainQ # << >> /\ Head(mainQ) = t /\ Tasks' = Tasks
      /\ main' = [main EXCEPT !.seek_time = NoTimestamp, !.seek_cb = "none",
                              !.is_suspended = b]
      /\ ~main.stopping /\ ~main.failed
  BY DEF OnSeekDone, NextMainTask, MainFree, Tasks
<1>2. Hears(t) /\ t \in Dones
  BY <1>1, Heard DEF IInv, Typed, Dones, EndSuspended
<1>3. /\ main' \in MainMembers /\ main'.client = main.client /\ main'.seek_cb = "none"
      /\ main'.suspend_cb = main.suspend_cb /\ main'.is_suspended = b
      /\ main'.seek_time = NoTimestamp /\ main'.switching = main.switching
      /\ main'.last_media_time = main.last_media_time /\ main'.shown = main.shown
      /\ main'.failed = FALSE /\ main'.stopping = FALSE
  BY <1>1, Constants DEF IInv, Typed, MainMembers, Timestamps
<1>4. /\ Has(mainQ, {t}) /\ Has(mainQ, Dones) /\ ~Has(mainQ', Dones)
      /\ media.linked /\ main.client /\ Working
  <2>1. Has(mainQ, {t}) /\ Has(mainQ, Dones) /\ Dones \subseteq Dones \cup {"OnError"}
    BY <1>2 DEF Hears
  <2>2. Has(mainQ, Dones \cup {"OnError"})
    BY <2>1, Kinds
  <2>3. ~Has(mainQ', Dones)
    BY <1>2 DEF Hears, IInv, OneOperation
  <2>. QED
    BY <1>1, <2>1, <2>2, <2>3 DEF IInv, OneOperation, Sessions, Working
<1>5. /\ main.seek_cb # "none" /\ ~main.suspend_cb
      /\ b => main.seek_cb = "starting_suspendable"
  BY <1>4 DEF IInv, Awaited
<1>6. \A T : T \subseteq Dones => ~Has(mainQ', T)
  BY <1>4, Kinds
<1>7. ~Has(Tasks, Tokens) /\ media.series.running = "none" /\ ~Busy
  <2>1. ~Has(Tasks, Tokens) /\ media.series.running = "none"
    BY <1>4 DEF IInv, OneOperation
  <2>2. ~Has(Tasks, Nexts)
    BY <2>1, Kinds DEF Tokens
  <2>. QED
    BY <2>1, <2>2 DEF IInv, OneOperation
<1>8. media.state = (IF b THEN "kSuspended" ELSE "kPlaying")
  <2>1. ~(Idle /\ media.linked)
    BY <1>1 DEF IInv, Sessions
  <2>2. ASSUME b PROVE Has(mainQ, EndSuspended)
    <3>1. {t} \subseteq EndSuspended
      BY <2>2 DEF EndSuspended
    <3>. QED
      BY <1>4, <3>1, Kinds
  <2>. QED
    BY <1>4, <2>1, <2>2 DEF IInv, OneOperation, Idle
<1>9. b => ~Has(mainQ', {"OnError"})
  <2>1. b => t \in EndSuspended
    BY DEF EndSuspended
  <2>2. b => ~Has(mainQ, {"OnError"})
    BY <1>2, <2>1 DEF Hears, IInv, OneOperation
  <2>. QED
    BY <1>2, <2>2 DEF Hears
<1>10. Typed'
  BY <1>2, <1>3, Constants DEF IInv, Typed, Hears
<1>11. MediaFits'
  BY <1>1, Constants DEF IInv, MediaFits, Idle, Busy, SeriesFits
<1>12. OneOperation'
  BY <1>1, <1>2, <1>6, <1>7, Kinds DEF IInv, OneOperation, Hears, Idle, Busy, EndSuspended, Dones
<1>13. Sessions'
  BY <1>1, <1>3, <1>4 DEF IInv, Sessions, Idle
<1>14. Awaited'
  <2>1. \A T : T \subseteq Tokens => ~Has(Tasks, T)
    BY <1>7, Kinds
  <2>. QED
    BY <1>1, <1>3, <1>5, <1>6, <1>7, <2>1
       DEF Awaited, Busy, Tokens, Ops, Dones, EndSuspended
<1>15. Answers'
  <2>1. ~media.ok => Has(mainQ', {"OnError"})
    BY <1>1, <1>2, <1>4 DEF IInv, Answers, Hears
  <2>2. ~main.switching
    BY <1>4, <1>5 DEF IInv, Answers, Resting
  <2>. QED
    BY <1>1, <1>3, <1>4, <1>5, <1>7, <1>8, <1>9, <2>1, <2>2 DEF Answers, Resting
<1>16. Clock'
  <2>1. Clock /\ main.seek_cb \in {"starting", "starting_suspendable", "seeking", "resuming"}
    BY <1>4, <1>5 DEF IInv, Typed, MainMembers
  <2>2. CASE main.seek_cb \in {"starting", "starting_suspendable"}
    BY <1>3, <2>1, <2>2, Constants DEF Clock, IInv
  <2>3. CASE main.seek_cb \in {"seeking", "resuming"}
    <3>1. main.shown <= main.seek_time /\ Floor(main.seek_time)
      BY <1>4, <1>5, <2>1, <2>3 DEF Clock
    <3>2. /\ main.shown \in Nat /\ main.seek_time \in Nat
          /\ media.suspend_timestamp \in Nat /\ media.from \in Nat
      BY Bounds DEF IInv, Typed, MainMembers, MediaMembers, Timestamps
    <3>3. Floor(main.shown)
      BY <3>1, <3>2 DEF Floor
    <3>. QED
      BY <1>1, <1>3, <3>3, Constants DEF Clock, IInv, Floor
  <2>. QED
    BY <2>1, <2>2, <2>3
<1>. QED
  BY <1>1, <1>4, <1>5, <1>10, <1>11, <1>12, <1>13, <1>14, <1>15, <1>16 DEF IInv

LEMMA OnSuspendDoneInv ==
  ASSUME IInv, setup' = setup, OnSuspendDone,
         mainQ' = Tail(mainQ), UNCHANGED <<media, mediaQ, spent>>
  PROVE  IInv' /\ main.client /\ ~main.failed /\ main.seek_cb = "none" /\ main.suspend_cb
<1>. DEFINE t == "OnSuspendDone"
<1>1. /\ mainQ # << >> /\ Head(mainQ) = t /\ Tasks' = Tasks
      /\ main' = [main EXCEPT !.is_suspended = TRUE, !.suspend_cb = FALSE]
      /\ ~main.stopping /\ ~main.failed
  BY DEF OnSuspendDone, NextMainTask, MainFree, Tasks
<1>2. Hears(t) /\ t \in Dones
  BY <1>1, Heard DEF IInv, Typed, Dones, EndSuspended
<1>3. /\ main' \in MainMembers /\ main'.client = main.client
      /\ main'.seek_cb = main.seek_cb
      /\ main'.suspend_cb = FALSE /\ main'.is_suspended = TRUE
      /\ main'.seek_time = main.seek_time /\ main'.switching = main.switching
      /\ main'.last_media_time = main.last_media_time /\ main'.shown = main.shown
      /\ main'.failed = FALSE /\ main'.stopping = FALSE
  BY <1>1 DEF IInv, Typed, MainMembers
<1>4. /\ Has(mainQ, {t}) /\ Has(mainQ, Dones) /\ ~Has(mainQ', Dones)
      /\ media.linked /\ main.client /\ Working
  <2>1. Has(mainQ, {t}) /\ Has(mainQ, Dones) /\ Dones \subseteq Dones \cup {"OnError"}
    BY <1>2 DEF Hears
  <2>2. Has(mainQ, Dones \cup {"OnError"})
    BY <2>1, Kinds
  <2>3. ~Has(mainQ', Dones)
    BY <1>2 DEF Hears, IInv, OneOperation
  <2>. QED
    BY <1>1, <2>1, <2>2, <2>3 DEF IInv, OneOperation, Sessions, Working
<1>5. main.seek_cb = "none" /\ main.suspend_cb
  BY <1>4 DEF IInv, Awaited
<1>6. \A T : T \subseteq Dones => ~Has(mainQ', T)
  BY <1>4, Kinds
<1>7. ~Has(Tasks, Tokens) /\ media.series.running = "none" /\ ~Busy
  <2>1. ~Has(Tasks, Tokens) /\ media.series.running = "none"
    BY <1>4 DEF IInv, OneOperation
  <2>2. ~Has(Tasks, Nexts)
    BY <2>1, Kinds DEF Tokens
  <2>. QED
    BY <2>1, <2>2 DEF IInv, OneOperation
<1>8. media.state = "kSuspended"
  <2>1. ~(Idle /\ media.linked)
    BY <1>1 DEF IInv, Sessions
  <2>2. Has(mainQ, EndSuspended)
    <3>1. {t} \subseteq EndSuspended
      BY DEF EndSuspended
    <3>. QED
      BY <1>4, <3>1, Kinds
  <2>. QED
    BY <1>4, <2>1, <2>2 DEF IInv, OneOperation, Idle
<1>9. ~Has(mainQ', {"OnError"})
  <2>1. t \in EndSuspended
    BY DEF EndSuspended
  <2>2. ~Has(mainQ, {"OnError"})
    BY <1>2, <2>1 DEF Hears, IInv, OneOperation
  <2>. QED
    BY <1>2, <2>2 DEF Hears
<1>10. Typed'
  BY <1>2, <1>3, Constants DEF IInv, Typed, Hears
<1>11. MediaFits'
  BY <1>1, Constants DEF IInv, MediaFits, Idle, Busy, SeriesFits
<1>12. OneOperation'
  BY <1>1, <1>2, <1>6, <1>7, Kinds DEF IInv, OneOperation, Hears, Idle, Busy, EndSuspended, Dones
<1>13. Sessions'
  BY <1>1, <1>3, <1>4 DEF IInv, Sessions, Idle
<1>14. Awaited'
  <2>1. \A T : T \subseteq Tokens => ~Has(Tasks, T)
    BY <1>7, Kinds
  <2>. QED
    BY <1>1, <1>3, <1>5, <1>6, <1>7, <2>1
       DEF Awaited, Busy, Tokens, Ops, Dones, EndSuspended
<1>15. Answers'
  <2>1. ~media.ok => Has(mainQ', {"OnError"})
    BY <1>1, <1>2, <1>4 DEF IInv, Answers, Hears
  <2>2. ~main.switching
    BY <1>4, <1>5 DEF IInv, Answers, Resting
  <2>. QED
    BY <1>1, <1>3, <1>4, <1>5, <1>7, <1>8, <1>9, <2>1, <2>2 DEF Answers, Resting
<1>16. Clock'
  BY <1>1, <1>3, <1>4, <1>5, Constants DEF Clock, IInv, Floor
<1>. QED
  BY <1>1, <1>4, <1>5, <1>10, <1>11, <1>12, <1>13, <1>14, <1>15, <1>16 DEF IInv

LEMMA NotifiedInv ==
  ASSUME IInv, setup' = setup, Notify \/ TrackChanged,
         mainQ' = Tail(mainQ), UNCHANGED <<media, mediaQ, spent>>
  PROVE  IInv'
<1>. DEFINE t == Head(mainQ)
<1>1. /\ mainQ # << >> /\ Tasks' = Tasks
      /\ \/ t \in {"OnEnded", "OnMetadata"} /\ main' = main
         \/ t = "TrackChanged" /\ main' = [main EXCEPT !.switching = FALSE]
  BY DEF Notify, TrackChanged, NextMainTask, Tasks
<1>2. Hears(t) /\ t \notin Dones /\ t # "OnError"
  BY <1>1, Heard DEF IInv, Typed, Dones, EndSuspended
<1>3. /\ main' \in MainMembers /\ main'.client = main.client
      /\ main'.seek_cb = main.seek_cb
      /\ main'.suspend_cb = main.suspend_cb /\ main'.is_suspended = main.is_suspended
      /\ main'.seek_time = main.seek_time
      /\ (main'.switching = main.switching /\ t # "TrackChanged") \/ ~main'.switching
      /\ main'.last_media_time = main.last_media_time /\ main'.shown = main.shown
      /\ main'.failed = main.failed /\ main'.stopping = main.stopping
  BY <1>1 DEF IInv, Typed, MainMembers
<1>. HIDE DEF t
<1>4. /\ \A T : t \notin T => (Has(mainQ', T) <=> Has(mainQ, T))
      /\ t \notin EndSuspended /\ t \notin Dones \cup {"OnError"}
  BY <1>2 DEF Hears, Dones
<1>5. Typed'
  BY <1>2, <1>3, Constants DEF IInv, Typed, Hears
<1>6. MediaFits'
  BY <1>1, Constants DEF IInv, MediaFits, Idle, Busy, SeriesFits
<1>7. OneOperation'
  BY <1>1, <1>2, <1>4 DEF IInv, OneOperation, Hears, Idle, Busy, Dones
<1>8. Sessions'
  BY <1>1, <1>3 DEF IInv, Sessions, StopUnderWay, StopDone, Idle, Resting
<1>9. Working => Awaited'
  BY <1>1, <1>2, <1>3, <1>4 DEF IInv, Awaited, Busy, Dones, EndSuspended
<1>10. Working => Answers'
  BY <1>1, <1>2, <1>3, <1>4 DEF IInv, Answers, Resting
<1>11. Working => Clock'
  BY <1>1, <1>2, <1>3, <1>4, Constants DEF IInv, Clock, Floor, Busy, Dones
<1>. QED
  BY <1>3, <1>5, <1>6, <1>7, <1>8, <1>9, <1>10, <1>11 DEF IInv, Working

(**************************************************************************)
(*                       Media thread: the tasks                            *)
(* The task e is replaced by the next step of a series, at the end.         *)
NextStep == [task |-> "NextOk", arg |-> 0]

Swaps(e) ==
  /\ mediaQ' \in Seq(Entry) /\ e \in Entry
  /\ \A T : "NextOk" \in T => Has(Tasks', T)
  /\ \A T : "NextOk" \notin T => (Has(Tasks, T) <=> Has(Tasks', T) \/ e.task \in T)
  /\ \A T : Single(Tasks, T) /\ ("NextOk" \in T => e.task \in T) => Single(Tasks', T)
  /\ \A T : Single(Tasks, T) /\ e.task \in T => ~Has(Tasks', T \ {"NextOk"})
  /\ \A A, B : Before(Tasks, A, B) /\ "NextOk" \notin A => Before(Tasks', A, B)
  /\ \A i \in DOMAIN mediaQ' :
       (\E j \in DOMAIN mediaQ : mediaQ'[i] = mediaQ[j]) \/ mediaQ'[i] = NextStep

LEMMA Swapped ==
  ASSUME Typed, mediaQ # << >>, mediaQ' = Append(Tail(mediaQ), NextStep)
  PROVE  Swaps(Head(mediaQ))
<1>. DEFINE q == mediaQ
            n == Len(q)
            r == [i \in 1 .. n - 1 |-> Tasks[i + 1]]
<1>1. q \in Seq(Entry) /\ n \in Nat \ {0} /\ DOMAIN q = 1 .. n /\ q # << >>
  BY DEF Typed
<1>2. /\ Tasks \in Seq(MediaTasks) /\ DOMAIN Tasks = 1 .. n /\ Len(Tasks) = n
      /\ \A i \in 1 .. n : Tasks[i] = q[i].task
      /\ Tasks # << >> /\ Head(Tasks) = Head(mediaQ).task
  BY <1>1, TaskNames DEF Tasks
<1>3. NextStep \in Entry /\ NextStep.task = "NextOk"
  BY DEF NextStep, Entry, MediaTasks
<1>. HIDE DEF q, NextStep
<1>4. /\ mediaQ' \in Seq(Entry) /\ DOMAIN mediaQ' = 1 .. (n - 1) + 1
      /\ \A i \in 1 .. n - 1 : i + 1 \in 1 .. n /\ mediaQ'[i] = q[i + 1]
      /\ mediaQ'[(n - 1) + 1] = NextStep
      /\ Head(mediaQ) = q[1] /\ Head(mediaQ) \in Entry
  <2>. DEFINE tl == Tail(q)
  <2>1. /\ tl \in Seq(Entry) /\ Len(tl) = n - 1 /\ n - 1 \in Nat
        /\ \A i \in 1 .. n - 1 : i + 1 \in 1 .. n /\ tl[i] = q[i + 1]
    BY <1>1
  <2>2. mediaQ' = Append(tl, NextStep) /\ Head(mediaQ) = q[1] /\ Head(mediaQ) \in Entry
    BY <1>1 DEF q
  <2>. DEFINE k == n - 1
  <2>3. k \in Nat /\ Len(tl) = k
    BY <2>1
  <2>. HIDE DEF tl, k
  <2>4. /\ Append(tl, NextStep) \in Seq(Entry) /\ DOMAIN Append(tl, NextStep) = 1 .. k + 1
        /\ \A i \in 1 .. k : Append(tl, NextStep)[i] = tl[i]
        /\ Append(tl, NextStep)[k + 1] = NextStep
    BY <1>3, <2>1, <2>3
  <2>. QED
    BY <2>1, <2>2, <2>4 DEF k
<1>5. Takes(Tasks, Tasks[1], r)
  BY <1>1, <1>2 DEF Takes
<1>6. Adds(r, "NextOk", Tasks')
  <2>. DEFINE k == n - 1
  <2>1. k \in Nat /\ DOMAIN r = 1 .. k
    BY <1>1
  <2>2. DOMAIN Tasks' = 1 .. k + 1 /\ Tasks'[k + 1] = "NextOk"
    BY <1>1, <1>3, <1>4 DEF Tasks
  <2>3. ASSUME NEW i \in 1 .. k PROVE Tasks'[i] = r[i]
    <3>1. /\ i + 1 \in 1 .. n /\ mediaQ'[i] = q[i + 1]
          /\ Tasks[i + 1] = q[i + 1].task /\ i \in DOMAIN mediaQ'
      BY <1>1, <1>2, <1>4
    <3>2. Tasks'[i] = mediaQ'[i].task
      BY <3>1 DEF Tasks
    <3>. QED
      BY <3>1, <3>2
  <2>. HIDE DEF k, r
  <2>. QED
    BY <2>1, <2>2, <2>3 DEF Adds
<1>. HIDE DEF r, n
<1>7. /\ \A T : Has(Tasks, T) <=> Has(r, T) \/ Tasks[1] \in T
      /\ \A T : Single(Tasks, T) => Single(r, T)
      /\ \A T : Single(Tasks, T) /\ Tasks[1] \in T => ~Has(r, T)
      /\ \A A, B : Before(Tasks, A, B) => Before(r, A, B)
  BY <1>5, TakeTask, Zenon
<1>8. /\ \A T : Has(Tasks', T) <=> Has(r, T) \/ "NextOk" \in T
      /\ \A T : Single(r, T) /\ ("NextOk" \in T => ~Has(r, T)) => Single(Tasks', T)
      /\ \A A, B : Before(r, A, B) /\ ("NextOk" \in A => ~Has(r, B) /\ "NextOk" \notin B)
                     => Before(Tasks', A, B)
  BY <1>6, AddTask, Zenon
<1>9. \A i \in DOMAIN mediaQ' :
        (\E j \in DOMAIN mediaQ : mediaQ'[i] = mediaQ[j]) \/ mediaQ'[i] = NextStep
  <2>1. ASSUME NEW i \in 1 .. (n - 1) + 1
        PROVE  i \in 1 .. n - 1 \/ i = (n - 1) + 1
    BY <1>1
  <2>. QED
    BY <1>1, <1>4, <2>1 DEF q
<1>10. Tasks[1] = Head(mediaQ).task
  BY <1>1, <1>2, <1>4
<1>11. ASSUME NEW T, Single(Tasks, T), Tasks[1] \in T PROVE ~Has(Tasks', T \ {"NextOk"})
  <2>1. ~Has(r, T \ {"NextOk"})
    BY <1>7, <1>11, Kinds
  <2>. QED
    BY <1>8, <2>1
<1>. QED
  BY <1>4, <1>7, <1>8, <1>9, <1>10, <1>11, Zenon DEF Swaps

LEMMA Reported ==
  ASSUME mainQ \in Seq(MainTasks), NEW t \in MainTasks, NEW m, m.linked,
         Report(m, <<t>>)
  PROVE  Tells(t, mainQ')
<1>1. mainQ' = Append(mainQ, t)
  BY DEF Report
<1>. QED
  BY <1>1, Told

(* A step of an operation finds nothing else of it anywhere.                *)
LEMMA AtWork ==
  ASSUME IInv, mediaQ # << >>, Head(mediaQ).task \in Tokens
  PROVE  /\ media.series.running = "none"
         /\ Single(Tasks, Tokens) /\ Has(Tasks, {Head(mediaQ).task})
         /\ \A T : T \subseteq Dones => ~Has(mainQ, T)
         /\ Head(mediaQ).task \in Ops => ~Busy /\ media.series = NoSeries
         /\ Head(mediaQ).task \in Nexts => Busy
         /\ main.client /\ (main.stopping => StopUnderWay)
<1>. DEFINE t == Head(mediaQ).task
            n == Len(mediaQ)
<1>1. /\ mediaQ \in Seq(Entry) /\ n \in Nat \ {0} /\ 1 \in DOMAIN Tasks /\ Tasks[1] = t
      /\ DOMAIN Tasks = 1 .. n
  BY DEF IInv, Typed, Tasks
<1>2. \A T : t \in T => Has(Tasks, T)
  BY <1>1 DEF Has
<1>3. /\ media.series.running = "none" /\ Single(Tasks, Tokens) /\ ~Has(mainQ, Dones)
      /\ Busy <=> Has(Tasks, Nexts)
  BY <1>2 DEF IInv, OneOperation
<1>4. ASSUME t \in Ops PROVE ~Has(Tasks, Nexts)
  <2>1. ASSUME NEW i \in DOMAIN Tasks, Tasks[i] \in Nexts PROVE FALSE
    <3>1. i = 1
      BY <1>1, <1>3, <1>4, <2>1 DEF Single, Tokens
    <3>. QED
      BY <1>1, <1>4, <2>1, <3>1 DEF Ops, Nexts
  <2>. QED
    BY <2>1 DEF Has
<1>5. t \in MediaTasks \ {"SetPlaybackRate"}
  BY DEF Tokens, Ops, Nexts, MediaTasks
<1>6. main.client /\ (main.stopping => StopUnderWay)
  BY <1>2, <1>5 DEF IInv, Sessions, StopDone
<1>7. \A T : T \subseteq Dones => ~Has(mainQ, T)
  BY <1>3, Kinds
<1>. QED
  BY <1>2, <1>3, <1>4, <1>6, <1>7 DEF Busy

LEMMA SessionsRun ==
  ASSUME IInv, mediaQ # << >>, Head(mediaQ).task \in Tokens, main' = main,
         Loses(Head(mediaQ)) \/ Swaps(Head(mediaQ)),
         media'.linked, ~Idle', media'.signaled = media.signaled
  PROVE  Sessions'
<1>. DEFINE t == Head(mediaQ).task
<1>1. t \notin {"Stop", "StopCb"} /\ t \notin {"Stop"} /\ t \notin {"StopCb"}
  BY DEF Tokens, Ops, Nexts
<1>2. main.client /\ (main.stopping => StopUnderWay)
  BY AtWork
<1>3. /\ Has(Tasks', {"Stop"}) <=> Has(Tasks, {"Stop"})
      /\ Has(Tasks', {"StopCb"}) <=> Has(Tasks, {"StopCb"})
      /\ Has(Tasks', {"Stop", "StopCb"}) <=> Has(Tasks, {"Stop", "StopCb"})
      /\ Single(Tasks, {"Stop"}) => Single(Tasks', {"Stop"})
      /\ Before(Tasks, Ops, {"Stop"}) => Before(Tasks', Ops, {"Stop"})
  BY <1>1 DEF Loses, Swaps, Ops
<1>4. StopUnderWay => StopUnderWay'
  BY <1>3 DEF StopUnderWay
<1>5. ~main.stopping => ~Has(Tasks', {"Stop", "StopCb"})
  BY <1>3 DEF IInv, Sessions
<1>. QED
  BY <1>2, <1>4, <1>5 DEF Sessions

(* The tasks that are no step of an operation leave where it is alone.      *)
Others == MediaTasks \ (Tokens \cup {"Stop", "StopCb"})

LEMMA SessionsKept ==
  ASSUME IInv, NEW e, Loses(e), e.task \in Others, main' = main,
         media'.state = media.state, media'.linked = media.linked,
         media'.signaled = media.signaled
  PROVE  Sessions'
<1>1. /\ Has(Tasks', {"Stop"}) <=> Has(Tasks, {"Stop"})
      /\ Has(Tasks', {"StopCb"}) <=> Has(Tasks, {"StopCb"})
      /\ Has(Tasks', {"Stop", "StopCb"}) <=> Has(Tasks, {"Stop", "StopCb"})
      /\ Has(Tasks', {"Start", "StartSuspendable"})
           <=> Has(Tasks, {"Start", "StartSuspendable"})
      /\ Has(Tasks', Tokens) <=> Has(Tasks, Tokens)
      /\ \A T : Single(Tasks, T) => Single(Tasks', T)
      /\ \A A, B : Before(Tasks, A, B) => Before(Tasks', A, B)
      /\ \A T : ~Has(Tasks, T) => ~Has(Tasks', T)
  BY DEF Loses, Others, Tokens, Ops, Nexts
<1>2. Idle' <=> Idle
  BY DEF Idle
<1>3. StopUnderWay => StopUnderWay'
  BY <1>1 DEF StopUnderWay
<1>4. StopDone => StopDone'
  BY <1>1, <1>2 DEF StopDone
<1>. QED
  BY <1>1, <1>2, <1>3, <1>4 DEF IInv, Sessions, Resting

LEMMA MediaSetPlaybackRateInv ==
  ASSUME IInv, setup' = setup, mediaQ # << >>, Head(mediaQ).task = "SetPlaybackRate",
         MediaSetPlaybackRate(Head(mediaQ).arg), UNCHANGED <<main, spent>>
  PROVE  IInv'
<1>. DEFINE e == Head(mediaQ)
<1>1. mediaQ' = Tail(mediaQ) /\ mainQ' = mainQ /\ Loses(e)
  BY Taken DEF MediaSetPlaybackRate, IInv
<1>2. e.task = "SetPlaybackRate" /\ e.arg \in {0, 1} /\ e.task \in Others
  BY <1>1 DEF Loses, Entry, Others, MediaTasks, Tokens, Ops, Nexts
<1>. HIDE DEF e
<1>3. /\ media' \in MediaMembers /\ media'.state = media.state /\ media'.ok = media.ok
      /\ media'.demuxer = media.demuxer /\ media'.renderer = media.renderer
      /\ media'.track = media.track /\ media'.suspend_timestamp = media.suspend_timestamp
      /\ media'.series = media.series /\ media'.linked = media.linked
      /\ media'.signaled = media.signaled /\ media'.from = media.from
      /\ media'.start_type = media.start_type
  <2>. DEFINE r == IF media.state = "kPlaying" THEN e.arg ELSE media.renderer_rate
  <2>1. media' = [media EXCEPT !.playback_rate = e.arg, !.renderer_rate = r]
    BY DEF MediaSetPlaybackRate, e
  <2>2. r \in {0, 1}
    BY <1>2 DEF IInv, Typed, MediaMembers
  <2>. HIDE DEF r
  <2>. QED
    BY <1>2, <2>1, <2>2 DEF IInv, Typed, MediaMembers
<1>4. \A T : "SetPlaybackRate" \notin T => (Has(Tasks', T) <=> Has(Tasks, T))
  BY <1>1, <1>2 DEF Loses
<1>5. Typed'
  BY <1>1, <1>3, Constants DEF IInv, Typed, Loses
<1>6. MediaFits'
  BY <1>1, <1>3, <1>4, Constants DEF IInv, MediaFits, Idle, Busy, SeriesFits
<1>7. OneOperation'
  BY <1>1, <1>3, <1>4 DEF IInv, OneOperation, Loses, Idle, Busy, Tokens, Ops, Nexts
<1>8. Sessions'
  BY <1>1, <1>2, <1>3, SessionsKept
<1>9. Working => Awaited' /\ Answers'
  BY <1>1, <1>3, <1>4 DEF IInv, Awaited, Answers, Busy, Resting, Tokens, Ops, Nexts
<1>10. Working => Clock'
  BY <1>1, <1>3, Constants DEF IInv, Clock, Floor, Busy, Loses
<1>. QED
  BY <1>5, <1>6, <1>7, <1>8, <1>9, <1>10 DEF IInv, Working

LEMMA MediaTrackChangeInv ==
  ASSUME IInv, setup' = setup, mediaQ # << >>, Head(mediaQ).task = "TrackChange",
         MediaTrackChange, UNCHANGED <<main, spent>>
  PROVE  IInv'
<1>. DEFINE e == Head(mediaQ)
<1>1. mediaQ' = Tail(mediaQ) /\ Loses(e)
  BY Taken DEF MediaTrackChange, IInv
<1>2. e.task = "TrackChange" /\ e.task \in Others
  BY DEF Others, MediaTasks, Tokens, Ops, Nexts
<1>. HIDE DEF e
<1>3. \/ Tells("TrackChanged", mainQ') /\ media' = media
      \/ mainQ' = mainQ /\ media' = [media EXCEPT !.track = TRUE] /\ ~Idle
  BY Told DEF MediaTrackChange, Idle, IInv, Typed, MainTasks
<1>4. /\ media' \in MediaMembers /\ media'.state = media.state /\ media'.ok = media.ok
      /\ media'.demuxer = media.demuxer /\ media'.renderer = media.renderer
      /\ media'.suspend_timestamp = media.suspend_timestamp
      /\ media'.series = media.series /\ media'.linked = media.linked
      /\ media'.signaled = media.signaled /\ media'.from = media.from
      /\ media'.start_type = media.start_type
      /\ Idle => media'.track = media.track
      /\ media'.track \/ Has(mainQ', {"TrackChanged"})
  BY <1>3 DEF IInv, Typed, MediaMembers, Tells
<1>5. /\ mainQ' \in Seq(MainTasks)
      /\ \A T : "TrackChanged" \notin T => (Has(mainQ', T) <=> Has(mainQ, T))
      /\ Single(mainQ', Dones) /\ Before(mainQ', {"OnError"}, EndSuspended)
  BY <1>3 DEF IInv, OneOperation, Typed, Tells, Dones, EndSuspended
<1>6. \A T : "TrackChange" \notin T => (Has(Tasks', T) <=> Has(Tasks, T))
  BY <1>1, <1>2 DEF Loses
<1>7. Typed'
  BY <1>1, <1>4, <1>5, Constants DEF IInv, Typed, Loses
<1>8. MediaFits'
  BY <1>1, <1>4, <1>6, Constants DEF IInv, MediaFits, Idle, Busy, SeriesFits
<1>9. OneOperation'
  BY <1>1, <1>4, <1>5, <1>6
     DEF IInv, OneOperation, Loses, Idle, Busy, Tokens, Ops, Nexts, Dones, EndSuspended
<1>10. Sessions'
  BY <1>1, <1>2, <1>4, SessionsKept
<1>11. Working => Awaited'
  BY <1>1, <1>4, <1>5, <1>6 DEF IInv, Awaited, Busy
<1>12. Working => Answers'
  BY <1>1, <1>4, <1>5, <1>6
     DEF IInv, Answers, Resting, Tokens, Ops, Nexts, Dones, EndSuspended
<1>13. Working => Clock'
  BY <1>1, <1>4, <1>5, Constants DEF IInv, Clock, Floor, Busy, Loses
<1>. QED
  BY <1>7, <1>8, <1>9, <1>10, <1>11, <1>12, <1>13 DEF IInv, Working

LEMMA MediaErrorInv ==
  ASSUME IInv, setup' = setup, mediaQ # << >>, Head(mediaQ).task = "OnPipelineError",
         MediaError, UNCHANGED <<main, spent>>
  PROVE  IInv'
<1>. DEFINE e == Head(mediaQ)
            fails == media.ok /\ media.state \notin {"kStopping", "kStopped",
                                                     "kSuspending", "kSuspended"}
<1>1. mediaQ' = Tail(mediaQ) /\ Loses(e)
  BY Taken DEF MediaError, IInv
<1>2. e.task = "OnPipelineError" /\ e.task \in Others
  BY DEF Others, MediaTasks, Tokens, Ops, Nexts
<1>. HIDE DEF e
<1>3. media.state # "kCreated"
  BY <1>1, <1>2 DEF IInv, MediaFits, Loses
<1>4. \/ fails /\ media' = [media EXCEPT !.ok = FALSE] /\ Tells("OnError", mainQ')
      \/ ~fails /\ media' = media /\ mainQ' = mainQ
  <2>1. CASE fails
    <3>1. Failed(media) = [m |-> [media EXCEPT !.ok = FALSE], told |-> <<"OnError">>]
      BY <2>1 DEF Failed
    <3>2. media' = [media EXCEPT !.ok = FALSE] /\ Report(media, <<"OnError">>)
      BY <3>1 DEF MediaError, Fail
    <3>3. media.linked
      BY <1>3, <2>1 DEF IInv, MediaFits, Idle
    <3>. QED
      BY <2>1, <3>2, <3>3, Reported DEF IInv, Typed, MainTasks
  <2>2. CASE ~fails
    <3>1. Failed(media) = [m |-> media, told |-> << >>]
      BY <2>2 DEF Failed
    <3>. QED
      BY <2>2, <3>1 DEF MediaError, Fail, Report, IInv, Typed
  <2>. QED
    BY <2>1, <2>2
<1>5. /\ media' \in MediaMembers /\ media'.state = media.state
      /\ media'.ok = (media.ok /\ ~fails)
      /\ media'.demuxer = media.demuxer /\ media'.renderer = media.renderer
      /\ media'.track = media.track /\ media'.suspend_timestamp = media.suspend_timestamp
      /\ media'.series = media.series /\ media'.linked = media.linked
      /\ media'.signaled = media.signaled /\ media'.from = media.from
      /\ media'.start_type = media.start_type
  BY <1>4, ZenonT(60) DEF IInv, Typed, MediaMembers
<1>6. /\ mainQ' \in Seq(MainTasks)
      /\ \A T : "OnError" \notin T => (Has(mainQ', T) <=> Has(mainQ, T))
      /\ ~media'.ok /\ media.ok => Has(mainQ', {"OnError"})
      /\ Has(mainQ, {"OnError"}) => Has(mainQ', {"OnError"})
      /\ ~fails => mainQ' = mainQ
      /\ Single(mainQ', Dones)
  BY <1>4, <1>5 DEF IInv, OneOperation, Typed, Tells, Dones, EndSuspended
<1>7. \A T : "OnPipelineError" \notin T => (Has(Tasks', T) <=> Has(Tasks, T))
  BY <1>1, <1>2 DEF Loses
<1>8. Before(mainQ', {"OnError"}, EndSuspended)
  <2>1. fails => ~Has(mainQ, EndSuspended)
    BY <1>3 DEF IInv, OneOperation
  <2>. QED
    BY <1>4, <2>1 DEF IInv, OneOperation, Tells, EndSuspended
<1>. HIDE DEF fails
<1>9. fails => ~Idle /\ media.linked /\ media.state \notin {"kSuspended", "kSuspending"}
  BY <1>3 DEF fails, Idle, IInv, MediaFits
<1>10. Typed'
  BY <1>1, <1>5, <1>6, Constants DEF IInv, Typed, Loses
<1>11. MediaFits'
  BY <1>1, <1>3, <1>5, <1>7, <1>9, Constants DEF IInv, MediaFits, Idle, Busy, SeriesFits
<1>12. OneOperation'
  BY <1>1, <1>5, <1>6, <1>7, <1>8, <1>9
     DEF IInv, OneOperation, Loses, Idle, Busy, Tokens, Ops, Nexts, Dones, EndSuspended
<1>13. Sessions'
  BY <1>1, <1>2, <1>5, SessionsKept
<1>14. Working => Awaited'
  BY <1>1, <1>5, <1>6, <1>7 DEF IInv, Awaited, Busy
<1>15. Working => Answers'
  <2>. SUFFICES ASSUME Working PROVE Answers'
    OBVIOUS
  <2>1. Has(mainQ, Dones \cup {"OnError"}) => Has(mainQ', Dones \cup {"OnError"})
    <3>1. Has(mainQ, Dones) <=> Has(mainQ', Dones)
      BY <1>6 DEF Dones, EndSuspended
    <3>. QED
      BY <1>6, <3>1, Kinds
  <2>2. main.is_suspended /\ Resting => ~fails
    BY <1>9 DEF IInv, Answers
  <2>. QED
    BY <1>1, <1>5, <1>6, <1>7, <2>1, <2>2
       DEF IInv, Answers, Resting, Tokens, Ops, Nexts, Dones, EndSuspended
<1>16. Working => Clock'
  BY <1>1, <1>5, <1>6, Constants DEF IInv, Clock, Floor, Busy, Loses
<1>. QED
  BY <1>10, <1>11, <1>12, <1>13, <1>14, <1>15, <1>16 DEF IInv, Working

(* A task of the demuxer, or of a series that was cancelled.                *)
LEMMA NothingInv ==
  ASSUME IInv, setup' = setup, mediaQ # << >>,
         Head(mediaQ).task \in {"FromDemuxer", "Cancelled"},
         mediaQ' = Tail(mediaQ), UNCHANGED <<main, media, mainQ, spent>>
  PROVE  IInv'
<1>. DEFINE e == Head(mediaQ)
<1>1. Loses(e)
  BY Taken DEF IInv
<1>2. e.task \in {"FromDemuxer", "Cancelled"} /\ e.task \in Others
  BY DEF Others, MediaTasks, Tokens, Ops, Nexts
<1>. HIDE DEF e
<1>3. \A T : e.task \notin T => (Has(Tasks', T) <=> Has(Tasks, T))
  BY <1>1, <1>2 DEF Loses
<1>4. Typed'
  BY <1>1, Constants DEF IInv, Typed, Loses
<1>5. MediaFits'
  BY <1>1, <1>2, <1>3, Constants DEF IInv, MediaFits, Idle, Busy, SeriesFits
<1>6. OneOperation'
  BY <1>1, <1>2, <1>3 DEF IInv, OneOperation, Loses, Idle, Busy, Tokens, Ops, Nexts
<1>7. Sessions'
  BY <1>1, <1>2, SessionsKept
<1>8. Working => Awaited' /\ Answers'
  BY <1>1, <1>2, <1>3 DEF IInv, Awaited, Answers, Busy, Resting, Tokens, Ops, Nexts
<1>9. Working => Clock'
  BY <1>1, Constants DEF IInv, Clock, Floor, Busy, Loses
<1>. QED
  BY <1>4, <1>5, <1>6, <1>7, <1>8, <1>9 DEF IInv, Working

LEMMA RunStopCbInv ==
  ASSUME IInv, setup' = setup, mediaQ # << >>, Head(mediaQ).task = "StopCb",
         RunStopCb, UNCHANGED <<main, spent>>
  PROVE  IInv' /\ ~Working
<1>. DEFINE e == Head(mediaQ)
<1>1. /\ mediaQ' = Tail(mediaQ) /\ mainQ' = mainQ /\ Loses(e)
      /\ media' = [media EXCEPT !.signaled = TRUE]
  BY Taken DEF RunStopCb, IInv
<1>2. e.task = "StopCb"
  OBVIOUS
<1>. HIDE DEF e
<1>3. /\ media' \in MediaMembers /\ media'.signaled
      /\ media'.state = media.state /\ media'.ok = media.ok /\ media'.demuxer = media.demuxer
      /\ media'.renderer = media.renderer /\ media'.track = media.track
      /\ media'.suspend_timestamp = media.suspend_timestamp
      /\ media'.series = media.series /\ media'.linked = media.linked
  BY <1>1 DEF IInv, Typed, MediaMembers
<1>4. main.stopping /\ main.client /\ StopDone /\ Has(Tasks, {"StopCb"})
  <2>1. Has(Tasks, {"StopCb"}) /\ Has(Tasks, {"Stop", "StopCb"})
    BY <1>1, <1>2 DEF Loses
  <2>. QED
    BY <2>1 DEF IInv, Sessions, StopUnderWay
<1>5. ~Has(Tasks, MediaTasks \ {"StopCb"}) /\ ~Has(Tasks', {"StopCb"})
  <2>1. "StopCb" \in MediaTasks
    BY DEF MediaTasks
  <2>2. Has(Tasks, MediaTasks)
    BY <1>1, <1>2, <2>1 DEF Loses
  <2>3. Single(Tasks, {"StopCb"}) /\ Before(Tasks, MediaTasks \ {"StopCb"}, {"StopCb"})
    BY <1>4, <2>2 DEF StopDone
  <2>. QED
    BY <1>1, <1>2, <2>3 DEF Loses
<1>6. ~Has(Tasks', MediaTasks)
  <2>1. MediaTasks = (MediaTasks \ {"StopCb"}) \cup {"StopCb"}
    BY DEF MediaTasks
  <2>2. ~Has(Tasks', MediaTasks \ {"StopCb"})
    BY <1>1, <1>5 DEF Loses
  <2>3. ~Has(Tasks', (MediaTasks \ {"StopCb"}) \cup {"StopCb"})
    BY <1>5, <2>2, Kinds
  <2>. QED
    BY <2>1, <2>3
<1>7. \A T : T \subseteq MediaTasks => ~Has(Tasks', T)
  BY <1>6, Kinds
<1>8. /\ ~Has(Tasks', Tokens) /\ ~Has(Tasks', Nexts) /\ ~Has(Tasks', {"Stop"})
      /\ ~Has(Tasks', {"Start", "StartSuspendable"}) /\ ~Has(Tasks', {"OnPipelineError"})
      /\ ~Has(Tasks', {"Seek", "Suspend"}) /\ ~Has(Tasks', {"Resume"})
  BY <1>7 DEF Tokens, Ops, Nexts, MediaTasks
<1>9. Single(Tasks', Tokens)
  BY <1>8, Kinds
<1>10. Typed'
  BY <1>1, <1>3, Constants DEF IInv, Typed, Loses
<1>11. MediaFits'
  BY <1>3, <1>8, Constants DEF IInv, MediaFits, Idle, Busy, SeriesFits
<1>12. OneOperation'
  <2>1. ~Busy /\ media.series.running = "none"
    BY <1>4 DEF IInv, MediaFits, StopDone, Busy, NoSeries
  <2>. QED
    BY <1>1, <1>3, <1>8, <1>9, <2>1 DEF IInv, OneOperation, Busy, Idle
<1>13. Sessions'
  <2>1. StopDone'
    BY <1>3, <1>4, <1>6, <1>8 DEF StopDone, Idle
  <2>2. ~media.linked => FALSE
    <3>1. ~Has(Tasks, {"Start", "StartSuspendable"})
      <4>1. {"Start", "StartSuspendable"} \subseteq Tokens
        BY DEF Tokens, Ops
      <4>. QED
        BY <1>4, <4>1, Kinds DEF StopDone
    <3>. QED
      BY <1>4, <3>1 DEF IInv, Sessions
  <2>. QED
    BY <1>3, <1>4, <2>1, <2>2 DEF Sessions
<1>. QED
  BY <1>4, <1>10, <1>11, <1>12, <1>13 DEF IInv, Working

(* The demuxer has stopped, the series is cancelled, and what it has posted *)
(* with it.                                                                 *)
Stops ==
  /\ mediaQ' \in Seq(Entry)
  /\ \A T : T \cap {"FromDemuxer", "StopCb", "Cancelled"} = {} /\ ~Has(Tasks, T \ Nexts)
              => ~Has(Tasks', T)
  /\ Single(Tasks, {"Stop"}) => ~Has(Tasks', {"Stop"})
  /\ Has(Tasks', {"StopCb"}) /\ Single(Tasks', {"StopCb"})
  /\ Before(Tasks', MediaTasks \ {"StopCb"}, {"StopCb"})

LEMMA Stopping ==
  ASSUME Typed, mediaQ # << >>, Head(mediaQ).task = "Stop", MediaStop,
         ~Has(Tasks, {"StopCb"})
  PROVE  Stops
<1>. DEFINE tl == Tail(mediaQ)
            w == WithoutSeries(tl)
            cb == [task |-> "StopCb", arg |-> 0]
            dem == [task |-> "FromDemuxer", arg |-> 0]
            k == Len(mediaQ) - 1
<1>1. /\ tl \in Seq(Entry) /\ k \in Nat /\ Len(tl) = k /\ DOMAIN tl = 1 .. k
      /\ \A i \in 1 .. k : tl[i] \in Entry /\ i + 1 \in 1 .. k + 1
                           /\ tl[i] = mediaQ[i + 1]
      /\ DOMAIN mediaQ = 1 .. k + 1 /\ 1 \in 1 .. k + 1 /\ mediaQ[1].task = "Stop"
  BY DEF Typed
<1>2. cb \in Entry /\ dem \in Entry /\ cb.task = "StopCb" /\ dem.task = "FromDemuxer"
  BY DEF Entry, MediaTasks
<1>3. PICK posted \in {<< >>, <<dem>>} : mediaQ' = w \o posted \o <<cb>>
  BY DEF MediaStop
<1>. HIDE DEF tl, cb, dem, k
<1>4. /\ DOMAIN w = 1 .. k /\ w = [i \in 1 .. k |-> w[i]]
      /\ \A i \in 1 .. k : /\ w[i] \in Entry
                           /\ w[i].task = IF tl[i].task \in Nexts THEN "Cancelled"
                                                                 ELSE tl[i].task
  <2>1. w = [i \in 1 .. k |-> IF tl[i].task \in Nexts THEN [tl[i] EXCEPT !.task = "Cancelled"]
                                                     ELSE tl[i]]
    BY <1>1 DEF WithoutSeries, Nexts
  <2>2. ASSUME NEW x \in Entry, x.task \in Nexts
        PROVE  /\ [x EXCEPT !.task = "Cancelled"] \in Entry
               /\ [x EXCEPT !.task = "Cancelled"].task = "Cancelled"
    BY <2>2 DEF Entry, Nexts, MediaTasks
  <2>. HIDE DEF w
  <2>. QED
    BY <1>1, <2>1, <2>2
<1>5. w \in Seq(Entry) /\ Len(w) = k
  <2>. HIDE DEF w
  <2>1. w \in [1 .. k -> Entry]
    BY <1>4
  <2>. QED
    BY <1>1, <2>1
<1>. HIDE DEF w
<1>6. PICK m \in Nat :
        /\ mediaQ' \in Seq(Entry) /\ DOMAIN mediaQ' = 1 .. m + 1 /\ mediaQ'[m + 1] = cb
        /\ \A i \in 1 .. m : (i \in 1 .. k /\ mediaQ'[i] = w[i]) \/ mediaQ'[i] = dem
  <2>1. CASE posted = << >>
    <3>1. mediaQ' = Append(w, cb)
      BY <1>3, <1>5, <2>1
    <3>. QED
      BY <1>1, <1>2, <1>5, <3>1
  <2>2. CASE posted = <<dem>>
    <3>. DEFINE v == Append(w, dem)
    <3>1. mediaQ' = Append(v, cb)
      <4>1. w \o posted = v /\ v \in Seq(Entry)
        BY <1>2, <1>5, <2>2
      <4>2. mediaQ' = v \o <<cb>>
        BY <1>3, <4>1
      <4>. HIDE DEF v
      <4>. QED
        BY <4>1, <4>2
    <3>2. /\ v \in Seq(Entry) /\ Len(v) = k + 1 /\ k + 1 \in Nat
          /\ \A i \in 1 .. k + 1 : (i \in 1 .. k /\ v[i] = w[i]) \/ v[i] = dem
      BY <1>1, <1>2, <1>5
    <3>3. \A n \in Nat : Len(v) = n =>
            /\ Append(v, cb) \in Seq(Entry) /\ DOMAIN Append(v, cb) = 1 .. n + 1
            /\ Append(v, cb)[n + 1] = cb /\ \A i \in 1 .. n : Append(v, cb)[i] = v[i]
      <4>. HIDE DEF v
      <4>. QED
        BY <1>2, <3>2
    <3>. HIDE DEF v
    <3>. QED
      BY <3>1, <3>2, <3>3
  <2>. QED
    BY <1>3, <2>1, <2>2
<1>7. /\ DOMAIN Tasks = 1 .. k + 1 /\ Tasks[1] = "Stop"
      /\ \A i \in 1 .. k : Tasks[i + 1] = tl[i].task
      /\ DOMAIN Tasks' = 1 .. m + 1 /\ Tasks'[m + 1] = "StopCb" /\ m + 1 \in 1 .. m + 1
  BY <1>1, <1>2, <1>6 DEF Tasks
<1>8. ASSUME NEW i \in 1 .. m
      PROVE  \/ Tasks'[i] \in {"FromDemuxer", "Cancelled"}
             \/ /\ i \in 1 .. k /\ i + 1 \in DOMAIN Tasks /\ i + 1 # 1
                /\ Tasks'[i] = Tasks[i + 1] /\ Tasks'[i] \notin Nexts
  <2>1. Tasks'[i] = mediaQ'[i].task
    BY <1>6 DEF Tasks
  <2>2. CASE mediaQ'[i] = dem
    BY <1>2, <2>1, <2>2
  <2>3. CASE i \in 1 .. k /\ mediaQ'[i] = w[i]
    <3>1. i + 1 \in 1 .. k + 1 /\ i + 1 # 1 /\ Tasks[i + 1] = tl[i].task
      BY <1>1, <1>7, <2>3
    <3>2. Tasks'[i] = IF tl[i].task \in Nexts THEN "Cancelled" ELSE tl[i].task
      BY <1>4, <2>1, <2>3
    <3>. QED
      BY <1>7, <2>3, <3>1, <3>2
  <2>. QED
    BY <1>6, <2>2, <2>3
<1>9. \A i \in 1 .. m + 1 : i \in 1 .. m \/ i = m + 1
  OBVIOUS
<1>10. ASSUME NEW T, T \cap {"FromDemuxer", "StopCb", "Cancelled"} = {}, ~Has(Tasks, T \ Nexts)
       PROVE  ~Has(Tasks', T)
  BY <1>7, <1>8, <1>9, <1>10 DEF Has
<1>11. ASSUME Single(Tasks, {"Stop"}) PROVE ~Has(Tasks', {"Stop"})
  <2>1. 1 \in DOMAIN Tasks
    BY <1>1, <1>7
  <2>. QED
    BY <1>7, <1>8, <1>9, <1>11, <2>1 DEF Has, Single
<1>12. \A i \in 1 .. m : Tasks'[i] # "StopCb"
  BY <1>8 DEF Has
<1>13. Has(Tasks', {"StopCb"}) /\ Single(Tasks', {"StopCb"})
  BY <1>7, <1>9, <1>12 DEF Has, Single
<1>14. Before(Tasks', MediaTasks \ {"StopCb"}, {"StopCb"})
  <2>1. \A i \in 1 .. m : i < m + 1
    OBVIOUS
  <2>. QED
    BY <1>7, <1>9, <1>12, <2>1 DEF Before
<1>. QED
  BY <1>6, <1>10, <1>11, <1>13, <1>14 DEF Stops

LEMMA MediaStopInv ==
  ASSUME IInv, setup' = setup, mediaQ # << >>, Head(mediaQ).task = "Stop",
         MediaStop, UNCHANGED <<main, spent>>
  PROVE  IInv' /\ ~Working
<1>1. main.stopping /\ main.client /\ StopUnderWay /\ Has(Tasks, {"Stop"})
  <2>1. 1 \in DOMAIN Tasks /\ Tasks[1] = "Stop"
    BY DEF IInv, Typed, Tasks
  <2>2. Has(Tasks, {"Stop"}) /\ Has(Tasks, {"Stop", "StopCb"})
    BY <2>1 DEF Has
  <2>. QED
    BY <2>2 DEF IInv, Sessions, StopDone
<1>2. Stops
  BY <1>1, Stopping DEF IInv, StopUnderWay
<1>3. ~Has(Tasks, Ops)
  <2>1. DOMAIN Tasks = 1 .. Len(mediaQ) /\ 1 \in DOMAIN Tasks /\ Tasks[1] = "Stop"
    BY DEF IInv, Typed, Tasks
  <2>2. Before(Tasks, Ops, {"Stop"})
    BY <1>1 DEF StopUnderWay
  <2>. QED
    BY <2>1, <2>2 DEF Has, Before
<1>4. \A T : T \subseteq Tokens => ~Has(Tasks', T)
  <2>1. ASSUME NEW T, T \subseteq Tokens PROVE ~Has(Tasks', T)
    <3>1. T \cap {"FromDemuxer", "StopCb", "Cancelled"} = {} /\ T \ Nexts \subseteq Ops
      BY <2>1 DEF Tokens, Ops, Nexts
    <3>2. ~Has(Tasks, T \ Nexts)
      BY <1>3, <3>1, Kinds
    <3>. QED
      BY <1>2, <3>1, <3>2 DEF Stops
  <2>. QED
    BY <2>1
<1>5. /\ ~Has(Tasks', Tokens) /\ ~Has(Tasks', Nexts) /\ ~Has(Tasks', {"Start", "StartSuspendable"})
      /\ ~Has(Tasks', {"Seek", "Suspend"}) /\ ~Has(Tasks', {"Resume"})
  BY <1>4 DEF Tokens, Ops, Nexts
<1>6. media' = Stopped(media) /\ mainQ' = mainQ
  BY DEF MediaStop
<1>7. /\ media' \in MediaMembers /\ media'.state = "kStopped" /\ media'.ok
      /\ ~media'.demuxer /\ media'.renderer = "none" /\ ~media'.track
      /\ media'.series = NoSeries /\ media'.linked = media.linked /\ ~media'.signaled
      /\ media'.series.running = "none"
  <2>1. NoSeries \in Series /\ NoSeries.running = "none"
    BY Bounds DEF IInv, NoSeries, Series
  <2>. QED
    BY <1>1, <1>6, <2>1
       DEF IInv, Typed, MediaMembers, Stopped, WithoutRenderer, StopUnderWay, States
<1>8. media.linked
  <2>1. \A T : T \subseteq Ops => ~Has(Tasks, T)
    BY <1>3, Kinds
  <2>2. ~Has(Tasks, {"Start", "StartSuspendable"})
    BY <2>1 DEF Ops
  <2>. QED
    BY <1>1, <2>2 DEF IInv, Sessions
<1>9. Typed'
  BY <1>2, <1>6, <1>7, Constants DEF IInv, Typed, Stops
<1>10. MediaFits'
  BY <1>7 DEF MediaFits, Idle, Busy
<1>11. OneOperation'
  <2>1. Single(Tasks', Tokens)
    BY <1>5, Kinds
  <2>. QED
    BY <1>5, <1>6, <1>7, <1>8, <2>1 DEF IInv, OneOperation, Busy, Idle
<1>12. Sessions'
  <2>1. StopDone'
    BY <1>1, <1>2, <1>5, <1>7 DEF StopDone, StopUnderWay, Stops, Idle
  <2>. QED
    BY <1>1, <1>7, <1>8, <2>1 DEF Sessions
<1>. QED
  BY <1>1, <1>9, <1>10, <1>11, <1>12 DEF IInv, Working

(* The series that an operation starts with its first function running.     *)
LEMMA SeriesStarts ==
  ASSUME NEW fns, fns # << >>, NEW f, Head(fns) = f, NEW todo, Tail(fns) = todo,
         NEW m, NEW done, NEW time
  PROVE  RunSeries(m, fns, done, time) =
           [m EXCEPT !.series = [todo |-> todo, running |-> f, done |-> done, time |-> time]]
  BY DEF RunSeries

(* The first task is a step of an operation; it is done, and no other.      *)
LEMMA StepTaken ==
  ASSUME IInv, mediaQ # << >>, Head(mediaQ).task \in Tokens, mediaQ' = Tail(mediaQ)
  PROVE  /\ Loses(Head(mediaQ)) /\ Single(Tasks', Tokens)
         /\ \A T : T \subseteq Tokens => ~Has(Tasks', T)
         /\ \A i \in DOMAIN mediaQ' : mediaQ'[i].task \notin {"Seek", "Resume"}
         /\ \A T : Head(mediaQ).task \notin T => (Has(Tasks', T) <=> Has(Tasks, T))
<1>1. Loses(Head(mediaQ)) /\ Single(Tasks, Tokens)
  BY Taken, AtWork DEF IInv
<1>2. ~Has(Tasks', Tokens) /\ Single(Tasks', Tokens)
  BY <1>1 DEF Loses
<1>3. \A T : T \subseteq Tokens => ~Has(Tasks', T)
  BY <1>2, Kinds
<1>4. \A i \in DOMAIN mediaQ' : mediaQ'[i].task \notin {"Seek", "Resume"}
  <2>1. ~Has(Tasks', {"Seek", "Resume"})
    BY <1>3 DEF Tokens, Ops
  <2>. QED
    BY <2>1 DEF Has, Tasks
<1>5. \A T : Head(mediaQ).task \notin T => (Has(Tasks', T) <=> Has(Tasks, T))
  BY <1>1 DEF Loses
<1>. QED
  BY <1>1, <1>2, <1>3, <1>4, <1>5

LEMMA MediaStartInv ==
  ASSUME IInv, setup' = setup, mediaQ # << >>,
         NEW type \in {"kNormal", "kSuspendAfterMetadata"},
         Head(mediaQ).task = IF type = "kNormal" THEN "Start" ELSE "StartSuspendable",
         MediaStart(type), UNCHANGED <<main, spent>>
  PROVE  IInv'
<1>. DEFINE e == Head(mediaQ)
            todo == <<"ReportMetadata", "InitializeRenderer">>
            series == [todo |-> todo, running |-> "InitializeDemuxer",
                       done |-> "CompleteSeek", time |-> 0]
<1>1. mediaQ' = Tail(mediaQ) /\ mainQ' = mainQ
  BY DEF MediaStart
<1>2. /\ e.task = (IF type = "kNormal" THEN "Start" ELSE "StartSuspendable")
      /\ e.task \in Tokens /\ e.task \in Ops /\ e.task \in {"Start", "StartSuspendable"}
  BY DEF Tokens, Ops
<1>3. media' = [media EXCEPT !.state = "kStarting", !.demuxer = TRUE, !.renderer = "new",
                  !.linked = TRUE, !.pos = 0, !.from = 0, !.start_type = type,
                  !.series = series]
  <2>. DEFINE fns == <<"InitializeDemuxer", "ReportMetadata", "InitializeRenderer">>
  <2>1. fns # << >> /\ Head(fns) = "InitializeDemuxer" /\ Tail(fns) = todo
    OBVIOUS
  <2>. HIDE DEF fns, todo
  <2>2. \A m : RunSeries(m, fns, "CompleteSeek", 0) = [m EXCEPT !.series = series]
    BY <2>1, SeriesStarts
  <2>. HIDE DEF series
  <2>. QED
    BY <2>2 DEF MediaStart, fns
<1>4. /\ series \in Series /\ series.todo = todo /\ series.running = "InitializeDemuxer"
      /\ series.done = "CompleteSeek" /\ series # NoSeries /\ 0 \in Times
  BY Bounds DEF IInv, Series, Functions, NoSeries
<1>. HIDE DEF e, series
<1>5. /\ media' \in MediaMembers /\ media'.state = "kStarting" /\ media'.demuxer
      /\ media'.renderer = "new" /\ media'.linked /\ media'.start_type = type
      /\ media'.series = series /\ media'.ok = media.ok /\ media'.track = media.track
      /\ media'.signaled = media.signaled
      /\ media'.suspend_timestamp = media.suspend_timestamp
  BY <1>3, <1>4 DEF IInv, Typed, MediaMembers, States
<1>6. /\ Loses(e) /\ Single(Tasks', Tokens)
      /\ \A T : T \subseteq Tokens => ~Has(Tasks', T)
      /\ \A i \in DOMAIN mediaQ' : mediaQ'[i].task \notin {"Seek", "Resume"}
      /\ \A T : e.task \notin T => (Has(Tasks', T) <=> Has(Tasks, T))
  BY <1>1, <1>2, StepTaken DEF e
<1>7. /\ Has(Tasks, {e.task}) /\ Has(Tasks, {"Start", "StartSuspendable"})
      /\ \A T : T \subseteq Dones => ~Has(mainQ, T)
  BY <1>2, <1>6, AtWork DEF e, Loses
<1>8. Idle /\ ~media.linked /\ ~Has(mainQ, Dones \cup {"OnError"}) /\ media.ok /\ ~media.track
  BY <1>7 DEF IInv, OneOperation, MediaFits
<1>9. Typed'
  BY <1>1, <1>5, <1>6, Constants DEF IInv, Typed, Loses
<1>10. MediaFits'
  BY <1>4, <1>5, <1>8, Constants DEF MediaFits, Idle, Busy, SeriesFits
<1>11. OneOperation'
  <2>1. ~Has(Tasks', Tokens) /\ ~Has(Tasks', {"Start", "StartSuspendable"})
        /\ ~Has(Tasks', {"Seek", "Suspend"}) /\ ~Has(Tasks', {"Resume"})
    BY <1>6 DEF Tokens, Ops
  <2>2. /\ ~Has(mainQ, Dones) /\ ~Has(mainQ, {"OnSeekDone"}) /\ ~Has(mainQ, EndSuspended)
        /\ Single(mainQ, Dones) /\ Before(mainQ, {"OnError"}, EndSuspended)
    BY <1>7 DEF IInv, OneOperation, Dones
  <2>. QED
    BY <1>1, <1>4, <1>5, <1>6, <2>1, <2>2 DEF OneOperation, Busy, NoSeries
<1>12. Sessions'
  BY <1>2, <1>5, <1>6, SessionsRun DEF e, Idle
<1>13. Working => Awaited' /\ Answers' /\ Clock'
  <2>. SUFFICES ASSUME Working PROVE Awaited' /\ Answers' /\ Clock'
    OBVIOUS
  <2>1. /\ main.seek_cb = IF type = "kNormal" THEN "starting" ELSE "starting_suspendable"
        /\ ~main.suspend_cb
    BY <1>2, <1>7 DEF IInv, Awaited
  <2>2. /\ \A T : T \subseteq {"Start", "StartSuspendable"} => ~Has(Tasks', T)
        /\ ~Has(Tasks', {"Seek"}) /\ ~Has(Tasks', {"Resume"}) /\ ~Has(Tasks', {"Suspend"})
    BY <1>6 DEF Tokens, Ops
  <2>3. /\ ~Has(mainQ, {"OnSeekDone"}) /\ ~Has(mainQ, {"OnSeekDoneSuspended"})
        /\ ~Has(mainQ, {"OnSuspendDone"})
    BY <1>7 DEF Dones, EndSuspended
  <2>4. Awaited'
    BY <1>1, <1>5, <2>1, <2>2, <2>3 DEF Awaited
  <2>5. Answers'
    BY <1>1, <1>4, <1>5, <1>8, <2>1 DEF IInv, Answers, Resting
  <2>6. Clock'
    BY <1>1, <2>1, Constants DEF IInv, Clock
  <2>. QED
    BY <2>4, <2>5, <2>6
<1>. QED
  BY <1>9, <1>10, <1>11, <1>12, <1>13 DEF IInv, Working

LEMMA MediaSeekInv ==
  ASSUME IInv, setup' = setup, mediaQ # << >>, Head(mediaQ).task = "Seek",
         MediaSeek(Head(mediaQ).arg), UNCHANGED <<main, spent>>
  PROVE  IInv'
<1>. DEFINE e == Head(mediaQ)
            to == AtLeastStart(e.arg)
            todo == <<"DemuxerSeek">>
            series == [todo |-> todo, running |-> "Flush",
                       done |-> "CompleteSeek", time |-> to]
<1>1. mediaQ' = Tail(mediaQ)
  BY DEF MediaSeek
<1>2. e.task = "Seek" /\ e.task \in Tokens /\ e.task \in Ops
  BY DEF Tokens, Ops
<1>3. /\ Loses(Head(mediaQ)) /\ Single(Tasks', Tokens)
      /\ \A T : T \subseteq Tokens => ~Has(Tasks', T)
      /\ \A i \in DOMAIN mediaQ' : mediaQ'[i].task \notin {"Seek", "Resume"}
      /\ \A T : e.task \notin T => (Has(Tasks', T) <=> Has(Tasks, T))
  BY <1>1, <1>2, StepTaken
<1>4. /\ Has(Tasks, {"Seek"}) /\ media.state = "kPlaying"
      /\ \A T : T \subseteq Dones => ~Has(mainQ, T)
  <2>1. Has(Tasks, {"Seek"}) /\ Has(Tasks, {"Seek", "Suspend"})
    BY <1>2, <1>3 DEF Loses
  <2>. QED
    BY <1>2, <2>1, AtWork DEF IInv, OneOperation
<1>5. e.arg \in Times /\ to \in Times /\ e.arg <= to
  <2>1. e.arg \in Times
    BY <1>2, <1>3 DEF Loses, Entry
  <2>. QED
    BY <2>1, Bounds DEF IInv, AtLeastStart
<1>6. mainQ' = mainQ /\ media' = [media EXCEPT !.state = "kSeeking",
                !.renderer_ended = FALSE, !.renderer = "idle", !.series = series]
  <2>. DEFINE fns == <<"Flush", "DemuxerSeek">>
  <2>1. fns # << >> /\ Head(fns) = "Flush" /\ Tail(fns) = todo
    OBVIOUS
  <2>. HIDE DEF fns, todo, to
  <2>2. \A m : RunSeries(m, fns, "CompleteSeek", to) = [m EXCEPT !.series = series]
    BY <2>1, SeriesStarts
  <2>. HIDE DEF series
  <2>. QED
    BY <1>4, <2>2 DEF MediaSeek, to, fns
<1>7. /\ series \in Series /\ series.todo = todo /\ series.running = "Flush"
      /\ series.done = "CompleteSeek" /\ series # NoSeries /\ series.time = to
  BY <1>5 DEF Series, Functions, NoSeries
<1>. HIDE DEF e, series, to
<1>8. /\ media' \in MediaMembers /\ media'.state = "kSeeking"
      /\ media'.renderer = "idle" /\ media'.linked = media.linked
      /\ media'.series = series /\ media'.ok = media.ok /\ media'.track = media.track
      /\ media'.signaled = media.signaled
  BY <1>6, <1>7 DEF IInv, Typed, MediaMembers, States
<1>9. media.linked
  BY <1>4 DEF IInv, MediaFits, Idle
<1>10. Typed'
  BY <1>6, <1>8, <1>3, Constants DEF IInv, Typed, Loses
<1>11. MediaFits'
  BY <1>7, <1>8, <1>9, Constants DEF MediaFits, Idle, Busy, SeriesFits
<1>12. OneOperation'
  <2>1. ~Has(Tasks', Tokens) /\ ~Has(Tasks', {"Start", "StartSuspendable"})
        /\ ~Has(Tasks', {"Seek", "Suspend"}) /\ ~Has(Tasks', {"Resume"})
    BY <1>3 DEF Tokens, Ops
  <2>2. /\ ~Has(mainQ, Dones) /\ ~Has(mainQ, {"OnSeekDone"}) /\ ~Has(mainQ, EndSuspended)
        /\ Single(mainQ, Dones) /\ Before(mainQ, {"OnError"}, EndSuspended)
    BY <1>4 DEF IInv, OneOperation, Dones
  <2>. QED
    BY <1>6, <1>7, <1>8, <1>9, <1>3, <2>1, <2>2 DEF OneOperation, Busy, NoSeries
<1>13. Sessions'
  BY <1>2, <1>3, <1>8, <1>9, SessionsRun DEF e, Idle
<1>14. Working => Awaited' /\ Answers' /\ Clock'
  <2>. SUFFICES ASSUME Working PROVE Awaited' /\ Answers' /\ Clock'
    OBVIOUS
  <2>1. main.seek_cb = "seeking" /\ ~main.suspend_cb
    BY <1>4 DEF IInv, Awaited
  <2>2. /\ ~Has(Tasks', {"Start"}) /\ ~Has(Tasks', {"StartSuspendable"})
        /\ ~Has(Tasks', {"Seek"}) /\ ~Has(Tasks', {"Resume"}) /\ ~Has(Tasks', {"Suspend"})
    BY <1>3 DEF Tokens, Ops
  <2>3. /\ ~Has(mainQ, {"OnSeekDone"}) /\ ~Has(mainQ, {"OnSeekDoneSuspended"})
        /\ ~Has(mainQ, {"OnSuspendDone"})
    BY <1>4 DEF Dones, EndSuspended
  <2>4. Awaited'
    BY <1>6, <1>8, <2>1, <2>2, <2>3 DEF Awaited
  <2>5. Answers'
    BY <1>6, <1>7, <1>8, <2>1 DEF IInv, Answers, Resting
  <2>6. Clock'
    <3>1. main.seek_time = e.arg
      BY <1>2, <1>3, <2>1 DEF IInv, Clock, Loses, e
    <3>. QED
      BY <1>3, <1>5, <1>6, <1>7, <1>8, <2>1, <2>3, <3>1, Constants DEF IInv, Clock
  <2>. QED
    BY <2>4, <2>5, <2>6
<1>. QED
  BY <1>10, <1>11, <1>12, <1>13, <1>14 DEF IInv, Working

LEMMA MediaResumeInv ==
  ASSUME IInv, setup' = setup, mediaQ # << >>, Head(mediaQ).task = "Resume",
         MediaResume(Head(mediaQ).arg), UNCHANGED <<main, spent>>
  PROVE  IInv'
<1>. DEFINE e == Head(mediaQ)
            to == AtLeastStart(e.arg)
            todo == <<"InitializeRenderer">>
            series == [todo |-> todo, running |-> "DemuxerSeek",
                       done |-> "CompleteSeek", time |-> to]
<1>1. mediaQ' = Tail(mediaQ)
  BY DEF MediaResume
<1>2. e.task = "Resume" /\ e.task \in Tokens /\ e.task \in Ops
  BY DEF Tokens, Ops
<1>3. /\ Loses(Head(mediaQ)) /\ Single(Tasks', Tokens)
      /\ \A T : T \subseteq Tokens => ~Has(Tasks', T)
      /\ \A i \in DOMAIN mediaQ' : mediaQ'[i].task \notin {"Seek", "Resume"}
      /\ \A T : e.task \notin T => (Has(Tasks', T) <=> Has(Tasks, T))
  BY <1>1, <1>2, StepTaken
<1>4. /\ Has(Tasks, {"Resume"}) /\ media.state = "kSuspended"
      /\ \A T : T \subseteq Dones => ~Has(mainQ, T)
  <2>1. Has(Tasks, {"Resume"})
    BY <1>2, <1>3 DEF Loses
  <2>. QED
    BY <1>2, <2>1, AtWork DEF IInv, OneOperation
<1>5. e.arg \in Times /\ to \in Times /\ e.arg <= to /\ 0 \in Times
  <2>1. e.arg \in Times
    BY <1>2, <1>3 DEF Loses, Entry
  <2>. QED
    BY <2>1, Bounds DEF IInv, AtLeastStart
<1>6. mainQ' = mainQ /\ media' = [media EXCEPT !.state = "kResuming", !.renderer = "new",
                !.pos = 0, !.from = 0, !.renderer_ended = FALSE, !.series = series]
  <2>. DEFINE fns == <<"DemuxerSeek", "InitializeRenderer">>
  <2>1. fns # << >> /\ Head(fns) = "DemuxerSeek" /\ Tail(fns) = todo
    OBVIOUS
  <2>. HIDE DEF fns, todo, to
  <2>2. \A m : RunSeries(m, fns, "CompleteSeek", to) = [m EXCEPT !.series = series]
    BY <2>1, SeriesStarts
  <2>. HIDE DEF series
  <2>. QED
    BY <1>4, <2>2 DEF MediaResume, to, fns
<1>7. /\ series \in Series /\ series.todo = todo /\ series.running = "DemuxerSeek"
      /\ series.done = "CompleteSeek" /\ series # NoSeries /\ series.time = to
  BY <1>5 DEF Series, Functions, NoSeries
<1>. HIDE DEF e, series, to
<1>8. /\ media' \in MediaMembers /\ media'.state = "kResuming"
      /\ media'.renderer = "new" /\ media'.linked = media.linked
      /\ media'.series = series /\ media'.ok = media.ok /\ media'.track = media.track
      /\ media'.signaled = media.signaled
  BY <1>5, <1>6, <1>7 DEF IInv, Typed, MediaMembers, States
<1>9. media.linked
  BY <1>4 DEF IInv, MediaFits, Idle
<1>10. Typed'
  BY <1>6, <1>8, <1>3, Constants DEF IInv, Typed, Loses
<1>11. MediaFits'
  BY <1>7, <1>8, <1>9, Constants DEF MediaFits, Idle, Busy, SeriesFits
<1>12. OneOperation'
  <2>1. ~Has(Tasks', Tokens) /\ ~Has(Tasks', {"Start", "StartSuspendable"})
        /\ ~Has(Tasks', {"Seek", "Suspend"}) /\ ~Has(Tasks', {"Resume"})
    BY <1>3 DEF Tokens, Ops
  <2>2. /\ ~Has(mainQ, Dones) /\ ~Has(mainQ, {"OnSeekDone"}) /\ ~Has(mainQ, EndSuspended)
        /\ Single(mainQ, Dones) /\ Before(mainQ, {"OnError"}, EndSuspended)
    BY <1>4 DEF IInv, OneOperation, Dones
  <2>. QED
    BY <1>6, <1>7, <1>8, <1>9, <1>3, <2>1, <2>2 DEF OneOperation, Busy, NoSeries
<1>13. Sessions'
  BY <1>2, <1>3, <1>8, <1>9, SessionsRun DEF e, Idle
<1>14. Working => Awaited' /\ Answers' /\ Clock'
  <2>. SUFFICES ASSUME Working PROVE Awaited' /\ Answers' /\ Clock'
    OBVIOUS
  <2>1. main.seek_cb = "resuming" /\ ~main.suspend_cb
    BY <1>4 DEF IInv, Awaited
  <2>2. /\ ~Has(Tasks', {"Start"}) /\ ~Has(Tasks', {"StartSuspendable"})
        /\ ~Has(Tasks', {"Seek"}) /\ ~Has(Tasks', {"Resume"}) /\ ~Has(Tasks', {"Suspend"})
    BY <1>3 DEF Tokens, Ops
  <2>3. /\ ~Has(mainQ, {"OnSeekDone"}) /\ ~Has(mainQ, {"OnSeekDoneSuspended"})
        /\ ~Has(mainQ, {"OnSuspendDone"})
    BY <1>4 DEF Dones, EndSuspended
  <2>4. Awaited'
    BY <1>6, <1>8, <2>1, <2>2, <2>3 DEF Awaited
  <2>5. Answers'
    BY <1>6, <1>7, <1>8, <2>1 DEF IInv, Answers, Resting
  <2>6. Clock'
    <3>1. main.seek_time = e.arg
      BY <1>2, <1>3, <2>1 DEF IInv, Clock, Loses, e
    <3>. QED
      BY <1>3, <1>5, <1>6, <1>7, <1>8, <2>1, <2>3, <3>1, Constants DEF IInv, Clock
  <2>. QED
    BY <2>4, <2>5, <2>6
<1>. QED
  BY <1>10, <1>11, <1>12, <1>13, <1>14 DEF IInv, Working

(* The same for a step that makes way for the next one of its series.       *)
LEMMA StepSwapped ==
  ASSUME IInv, mediaQ # << >>, Head(mediaQ).task \in Tokens,
         mediaQ' = Append(Tail(mediaQ), NextStep)
  PROVE  /\ Swaps(Head(mediaQ)) /\ Single(Tasks', Tokens) /\ Has(Tasks', Nexts)
         /\ \A T : T \subseteq Ops => ~Has(Tasks', T)
         /\ \A i \in DOMAIN mediaQ' : mediaQ'[i].task \notin {"Seek", "Resume"}
         /\ \A T : Head(mediaQ).task \notin T /\ "NextOk" \notin T =>
                     (Has(Tasks', T) <=> Has(Tasks, T))
<1>1. Swaps(Head(mediaQ)) /\ Single(Tasks, Tokens)
  BY Swapped, AtWork DEF IInv
<1>2. ~Has(Tasks', Tokens \ {"NextOk"}) /\ Single(Tasks', Tokens) /\ Has(Tasks', Nexts)
  BY <1>1 DEF Swaps, Nexts
<1>3. \A T : T \subseteq Tokens \ {"NextOk"} => ~Has(Tasks', T)
  BY <1>2, Kinds
<1>4. \A T : T \subseteq Ops => ~Has(Tasks', T)
  BY <1>3 DEF Tokens, Ops
<1>5. \A i \in DOMAIN mediaQ' : mediaQ'[i].task \notin {"Seek", "Resume"}
  <2>1. ~Has(Tasks', {"Seek", "Resume"})
    BY <1>4 DEF Ops
  <2>. QED
    BY <2>1 DEF Has, Tasks
<1>6. \A T : Head(mediaQ).task \notin T /\ "NextOk" \notin T =>
                (Has(Tasks', T) <=> Has(Tasks, T))
  BY <1>1 DEF Swaps
<1>. QED
  BY <1>1, <1>2, <1>4, <1>5, <1>6

LEMMA MediaSuspendInv ==
  ASSUME IInv, setup' = setup, mediaQ # << >>, Head(mediaQ).task = "Suspend",
         MediaSuspend, UNCHANGED <<main, spent>>
  PROVE  IInv'
<1>. DEFINE e == Head(mediaQ)
            series == [todo |-> << >>, running |-> "none",
                       done |-> "CompleteSuspend", time |-> 0]
<1>1. e.task = "Suspend" /\ e.task \in Tokens /\ e.task \in Ops
  BY DEF Tokens, Ops
<1>2. /\ Has(Tasks, {"Suspend"}) /\ media.state = "kPlaying"
      /\ \A T : T \subseteq Dones => ~Has(mainQ, T)
  <2>1. Has(Tasks, {"Suspend"}) /\ Has(Tasks, {"Seek", "Suspend"})
    <3>1. Has(Tasks, {"Suspend"}) /\ {"Suspend"} \subseteq {"Seek", "Suspend"}
      BY <1>1, AtWork
    <3>. QED
      BY <3>1, Kinds
  <2>. QED
    BY <1>1, <2>1, AtWork DEF IInv, OneOperation
<1>3. mainQ' = mainQ /\ mediaQ' = Append(Tail(mediaQ), NextStep)
  BY <1>2 DEF MediaSuspend, NextStep
<1>4. PICK now \in RendererTimes :
        media' = [media EXCEPT !.state = "kSuspending", !.renderer_rate = 0,
                    !.suspend_timestamp = now, !.series = series]
  <2>1. \A m : RunSeries(m, << >>, "CompleteSuspend", 0) = [m EXCEPT !.series = series]
    BY DEF RunSeries
  <2>. HIDE DEF series
  <2>. QED
    BY <1>2, <2>1 DEF MediaSuspend
<1>5. now \in Times /\ media.from <= now /\ now \in Nat /\ now # NoTimestamp /\ 0 \in Times
  <2>1. now \in {media.pos, media.pos - 1} /\ media.from <= now
    BY DEF RendererTimes
  <2>2. media.pos \in Times /\ media.from \in Times
    BY DEF IInv, Typed, MediaMembers
  <2>3. MaxTime \in Nat /\ Times \subseteq Nat /\ NoTimestamp \notin Times /\ 0 \in Times
    BY Bounds DEF IInv
  <2>4. now \in Times
    BY <2>1, <2>2, <2>3 DEF Times
  <2>. QED
    BY <2>1, <2>3, <2>4
<1>6. /\ Swaps(Head(mediaQ)) /\ Single(Tasks', Tokens) /\ Has(Tasks', Nexts)
      /\ \A T : T \subseteq Ops => ~Has(Tasks', T)
      /\ \A i \in DOMAIN mediaQ' : mediaQ'[i].task \notin {"Seek", "Resume"}
      /\ \A T : e.task \notin T /\ "NextOk" \notin T => (Has(Tasks', T) <=> Has(Tasks, T))
  BY <1>1, <1>3, StepSwapped
<1>7. /\ series \in Series /\ series.todo = << >> /\ series.running = "none"
      /\ series.done = "CompleteSuspend" /\ series # NoSeries
  BY <1>5 DEF Series, Functions, NoSeries
<1>. HIDE DEF e, series
<1>8. /\ media' \in MediaMembers /\ media'.state = "kSuspending"
      /\ media'.renderer = media.renderer /\ media'.linked = media.linked
      /\ media'.suspend_timestamp = now
      /\ media'.series = series /\ media'.ok = media.ok /\ media'.track = media.track
      /\ media'.signaled = media.signaled /\ media'.from = media.from
  <2>1. now \in Timestamps /\ 0 \in {0, 1} /\ "kSuspending" \in States
    BY <1>5 DEF Timestamps, States
  <2>. QED
    BY <1>4, <1>7, <2>1 DEF IInv, Typed, MediaMembers
<1>9. media.linked /\ media.suspend_timestamp = NoTimestamp
  BY <1>2 DEF IInv, MediaFits, Idle
<1>10. Typed'
  BY <1>3, <1>8, <1>6, Constants DEF IInv, Typed, Swaps
<1>11. MediaFits'
  BY <1>5, <1>7, <1>8, <1>9, Constants DEF IInv, MediaFits, Idle, Busy, SeriesFits
<1>12. OneOperation'
  <2>1. ~Has(Tasks', {"Start", "StartSuspendable"})
        /\ ~Has(Tasks', {"Seek", "Suspend"}) /\ ~Has(Tasks', {"Resume"})
    BY <1>6 DEF Ops
  <2>2. /\ ~Has(mainQ, Dones) /\ ~Has(mainQ, {"OnSeekDone"}) /\ ~Has(mainQ, EndSuspended)
        /\ Single(mainQ, Dones) /\ Before(mainQ, {"OnError"}, EndSuspended)
    BY <1>2 DEF IInv, OneOperation, Dones
  <2>. QED
    BY <1>3, <1>7, <1>8, <1>9, <1>6, <2>1, <2>2 DEF OneOperation, Busy, NoSeries
<1>13. Sessions'
  BY <1>1, <1>6, <1>8, <1>9, SessionsRun DEF e, Idle
<1>14. Working => Awaited' /\ Answers' /\ Clock'
  <2>. SUFFICES ASSUME Working PROVE Awaited' /\ Answers' /\ Clock'
    OBVIOUS
  <2>1. main.suspend_cb /\ main.seek_cb = "none"
    BY <1>2 DEF IInv, Awaited
  <2>2. /\ ~Has(Tasks', {"Start"}) /\ ~Has(Tasks', {"StartSuspendable"})
        /\ ~Has(Tasks', {"Seek"}) /\ ~Has(Tasks', {"Resume"}) /\ ~Has(Tasks', {"Suspend"})
    BY <1>6 DEF Ops
  <2>3. /\ ~Has(mainQ, {"OnSeekDone"}) /\ ~Has(mainQ, {"OnSeekDoneSuspended"})
        /\ ~Has(mainQ, {"OnSuspendDone"})
    BY <1>2 DEF Dones, EndSuspended
  <2>4. Awaited'
    BY <1>3, <1>8, <2>1, <2>2, <2>3 DEF Awaited
  <2>5. Answers'
    <3>1. Has(Tasks', Tokens)
      BY <1>6, Kinds DEF Tokens
    <3>. QED
      BY <1>3, <1>8, <2>1, <3>1 DEF IInv, Answers, Resting
  <2>6. Clock'
    <3>1. Floor(main.shown) => Floor(main.shown)'
      <4>1. main.shown \in Nat /\ media.from \in Nat
        BY Bounds DEF IInv, Typed, MainMembers, MediaMembers
      <4>. QED
        BY <1>5, <1>8, <1>9, <4>1, Constants DEF IInv, Floor
    <3>. QED
      BY <1>8, <2>1, <3>1, Constants DEF IInv, Clock
  <2>. QED
    BY <2>4, <2>5, <2>6
<1>. QED
  BY <1>10, <1>11, <1>12, <1>13, <1>14 DEF IInv, Working

(* The next step of a series: what its state and its client are.            *)
LEMMA AtNext ==
  ASSUME IInv, mediaQ # << >>, Head(mediaQ).task \in Nexts
  PROVE  /\ Busy /\ SeriesFits /\ ~Idle /\ media.linked /\ media.series.running = "none"
         /\ \A T : T \subseteq Dones => ~Has(mainQ, T)
         /\ Head(mediaQ).task \in Tokens /\ main.client
         /\ Working => Awaited /\ Answers /\ Clock /\ ~Resting /\ ~main.switching
<1>1. Head(mediaQ).task \in Tokens
  BY DEF Tokens
<1>2. /\ Busy /\ media.series.running = "none" /\ main.client
      /\ \A T : T \subseteq Dones => ~Has(mainQ, T)
  BY <1>1, AtWork
<1>3. SeriesFits /\ ~Idle /\ media.linked
  BY <1>2 DEF IInv, MediaFits, SeriesFits, Idle
<1>4. ASSUME Working PROVE Awaited /\ Answers /\ Clock /\ ~Resting /\ ~main.switching
  <2>1. Awaited /\ Answers /\ Clock
    BY <1>4 DEF IInv
  <2>2. ~Resting
    BY <1>2, <1>3, <2>1 DEF Awaited, SeriesFits, Resting
  <2>. QED
    BY <2>1, <2>2 DEF Answers
<1>. QED
  BY <1>1, <1>2, <1>3, <1>4

LEMMA SeriesEnds ==
  ASSUME IInv, setup' = setup, mediaQ # << >>, Head(mediaQ).task \in Nexts,
         mediaQ' = Tail(mediaQ), UNCHANGED <<main, spent>>,
         media' \in MediaMembers, media'.series = NoSeries, media'.linked,
         media'.signaled = media.signaled,
         media'.state \in {"kStarting", "kSeeking", "kResuming", "kPlaying", "kSuspended"},
         media'.state = "kPlaying" => /\ media'.suspend_timestamp = NoTimestamp
                                      /\ media'.renderer \in {"playing", "ended"},
         mainQ' \in Seq(MainTasks), Single(mainQ', Dones),
         Before(mainQ', {"OnError"}, EndSuspended),
         Working => /\ Has(mainQ', Dones \cup {"OnError"})
                    /\ ~media'.ok => Has(mainQ', {"OnError"}),
         Has(mainQ', {"OnSeekDone"}) =>
           media'.state = "kPlaying" /\ (Working => main.seek_cb # "none"),
         Has(mainQ', EndSuspended) => media'.state = "kSuspended",
         Has(mainQ', {"OnSeekDoneSuspended"}) =>
           (Working => main.seek_cb = "starting_suspendable"),
         Has(mainQ', {"OnSuspendDone"}) => (Working => main.suspend_cb),
         Working => Clock'
  PROVE  IInv'
<1>1. /\ Head(mediaQ).task \in Tokens
      /\ Working => Awaited /\ ~Resting /\ ~main.switching
  BY AtNext
<1>2. /\ Loses(Head(mediaQ)) /\ Single(Tasks', Tokens)
      /\ \A T : T \subseteq Tokens => ~Has(Tasks', T)
  BY <1>1, StepTaken
<1>3. NoSeries.running = "none"
  BY DEF NoSeries
<1>4. ~Idle' /\ ~Busy'
  BY DEF Idle, Busy, NoSeries
<1>5. Typed'
  BY <1>2, Constants DEF IInv, Typed, Loses
<1>6. MediaFits'
  BY <1>4, Constants DEF IInv, MediaFits
<1>7. /\ ~Has(Tasks', Tokens) /\ ~Has(Tasks', Nexts) /\ ~Has(Tasks', {"Start", "StartSuspendable"})
      /\ ~Has(Tasks', {"Seek", "Suspend"}) /\ ~Has(Tasks', {"Resume"})
      /\ ~Has(Tasks', {"Start"}) /\ ~Has(Tasks', {"StartSuspendable"})
      /\ ~Has(Tasks', {"Seek"}) /\ ~Has(Tasks', {"Suspend"})
  BY <1>2 DEF Tokens, Ops, Nexts
<1>8. OneOperation'
  BY <1>2, <1>3, <1>4, <1>7 DEF OneOperation
<1>9. Sessions'
  BY <1>1, <1>2, <1>4, SessionsRun
<1>10. Working => Awaited'
  BY <1>1, <1>4, <1>7 DEF Awaited
<1>11. Working => Answers'
  BY <1>1 DEF Answers, Resting
<1>. QED
  BY <1>5, <1>6, <1>8, <1>9, <1>10, <1>11 DEF IInv, Working

LEMMA CompleteSuspendInv ==
  ASSUME IInv, setup' = setup, mediaQ # << >>, Head(mediaQ).task \in Nexts,
         mediaQ' = Tail(mediaQ), UNCHANGED <<main, spent>>,
         media.series.done = "CompleteSuspend",
         media' = CompleteSuspend(media), Report(media, <<"OnSuspendDone">>)
  PROVE  IInv'
<1>1. /\ Busy /\ SeriesFits /\ media.linked
      /\ \A T : T \subseteq Dones => ~Has(mainQ, T)
      /\ Working => Awaited /\ Answers /\ Clock /\ ~Resting
  BY AtNext
<1>2. media.state = "kSuspending" /\ media.suspend_timestamp # NoTimestamp
  BY <1>1 DEF SeriesFits, IInv, MediaFits
<1>3. NoSeries \in Series
  BY Bounds DEF IInv, NoSeries, Series
<1>4. /\ media' \in MediaMembers /\ media'.state = "kSuspended" /\ media'.ok = media.ok
      /\ media'.series = NoSeries /\ media'.linked /\ media'.signaled = media.signaled
      /\ media'.suspend_timestamp = media.suspend_timestamp
  BY <1>1, <1>3 DEF IInv, Typed, MediaMembers, CompleteSuspend, WithoutRenderer, States
<1>5. Tells("OnSuspendDone", mainQ')
  BY <1>1, Reported DEF IInv, Typed, MainTasks
<1>6. /\ ~Has(mainQ, Dones) /\ ~Has(mainQ, {"OnSeekDone"}) /\ ~Has(mainQ, EndSuspended)
      /\ ~Has(mainQ, {"OnSeekDoneSuspended"})
  BY <1>1 DEF Dones, EndSuspended
<1>7. /\ mainQ' \in Seq(MainTasks) /\ Single(mainQ', Dones)
      /\ Before(mainQ', {"OnError"}, EndSuspended)
      /\ Has(mainQ', Dones \cup {"OnError"})
      /\ Has(mainQ, {"OnError"}) => Has(mainQ', {"OnError"})
      /\ ~Has(mainQ', {"OnSeekDone"}) /\ ~Has(mainQ', {"OnSeekDoneSuspended"})
  <2>1. Single(mainQ, Dones) /\ Before(mainQ, {"OnError"}, EndSuspended)
    BY DEF IInv, OneOperation
  <2>. QED
    BY <1>5, <1>6, <2>1 DEF Tells, Dones, EndSuspended
<1>8. Working => main.suspend_cb /\ main.seek_cb = "none" /\ Clock'
  <2>. SUFFICES ASSUME Working PROVE main.suspend_cb /\ main.seek_cb = "none" /\ Clock'
    OBVIOUS
  <2>1. main.suspend_cb /\ main.seek_cb = "none"
    BY <1>1, <1>2 DEF Awaited
  <2>2. Clock'
    BY <1>1, <1>2, <1>4, <2>1, Constants DEF IInv, Clock, Floor
  <2>. QED
    BY <2>1, <2>2
<1>9. Working => (~media'.ok => Has(mainQ', {"OnError"}))
  BY <1>1, <1>4, <1>7 DEF Answers
<1>. QED
  BY <1>4, <1>7, <1>8, <1>9, SeriesEnds

LEMMA CompleteSeekInv ==
  ASSUME IInv, setup' = setup, mediaQ # << >>, Head(mediaQ).task \in Nexts,
         mediaQ' = Tail(mediaQ), UNCHANGED <<main, spent>>,
         media.series.done # "CompleteSuspend",
         media' = CompleteSeek(media), Report(media, <<"OnSeekDone">>)
  PROVE  IInv'
<1>. DEFINE to == AtLeastStart(media.series.time)
<1>1. /\ Busy /\ SeriesFits /\ media.linked
      /\ \A T : T \subseteq Dones => ~Has(mainQ, T)
      /\ Working => Awaited /\ Answers /\ Clock /\ ~Resting
  BY AtNext
<1>2. media.state \in {"kStarting", "kSeeking", "kResuming"}
  BY <1>1 DEF SeriesFits
<1>3. NoSeries \in Series /\ to \in Times /\ media.series.time <= to
      /\ media.series.time \in Nat /\ to \in Nat /\ NoTimestamp \in Timestamps
  <2>1. media.series.time \in Times
    BY DEF IInv, Typed, MediaMembers, Series
  <2>. QED
    BY <2>1, Bounds DEF IInv, NoSeries, Series, AtLeastStart, Timestamps
<1>4. /\ media' \in MediaMembers /\ media'.state = "kPlaying" /\ media'.ok = media.ok
      /\ media'.series = NoSeries /\ media'.linked /\ media'.signaled = media.signaled
      /\ media'.suspend_timestamp = NoTimestamp /\ media'.renderer = "playing"
      /\ media'.from = to
  <2>. DEFINE rate == media.playback_rate
  <2>1. media' = [media EXCEPT !.series = NoSeries, !.renderer = "playing",
                !.pos = to, !.from = to, !.suspend_timestamp = NoTimestamp,
                !.renderer_rate = rate, !.state = "kPlaying"]
    BY DEF CompleteSeek
  <2>2. media \in MediaMembers /\ rate \in {0, 1} /\ "kPlaying" \in States
    BY DEF IInv, Typed, MediaMembers, States
  <2>. HIDE DEF to, rate
  <2>. DEFINE m == [media EXCEPT !.series = NoSeries, !.renderer = "playing",
                     !.pos = to, !.from = to]
  <2>3. /\ m \in MediaMembers /\ m.renderer = "playing" /\ m.from = to /\ m.ok = media.ok
        /\ m.series = NoSeries /\ m.linked = media.linked /\ m.signaled = media.signaled
    BY <1>3, <2>2 DEF MediaMembers
  <2>4. media' = [m EXCEPT !.suspend_timestamp = NoTimestamp, !.renderer_rate = rate,
                    !.state = "kPlaying"]
    BY <2>1, <2>2 DEF MediaMembers
  <2>. HIDE DEF m
  <2>. QED
    BY <1>1, <1>3, <2>2, <2>3, <2>4, ZenonT(60) DEF MediaMembers
<1>. HIDE DEF to
<1>5. Tells("OnSeekDone", mainQ')
  BY <1>1, Reported DEF IInv, Typed, MainTasks
<1>6. /\ ~Has(mainQ, Dones) /\ ~Has(mainQ, {"OnSeekDoneSuspended"})
      /\ ~Has(mainQ, EndSuspended) /\ ~Has(mainQ, {"OnSuspendDone"})
  BY <1>1 DEF Dones, EndSuspended
<1>7. /\ mainQ' \in Seq(MainTasks) /\ Single(mainQ', Dones)
      /\ Before(mainQ', {"OnError"}, EndSuspended)
      /\ Has(mainQ', Dones \cup {"OnError"})
      /\ Has(mainQ, {"OnError"}) => Has(mainQ', {"OnError"})
      /\ ~Has(mainQ', EndSuspended) /\ ~Has(mainQ', {"OnSeekDoneSuspended"})
      /\ ~Has(mainQ', {"OnSuspendDone"})
  <2>1. Single(mainQ, Dones) /\ Before(mainQ, {"OnError"}, EndSuspended)
    BY DEF IInv, OneOperation
  <2>. QED
    BY <1>5, <1>6, <2>1 DEF Tells, Dones, EndSuspended
<1>8. Working => main.seek_cb # "none" /\ Clock'
  <2>. SUFFICES ASSUME Working PROVE main.seek_cb # "none" /\ Clock'
    OBVIOUS
  <2>1. main.seek_cb # "none" /\ Clock
    BY <1>1, <1>2 DEF Awaited
  <2>2. \A i \in DOMAIN mediaQ' : mediaQ'[i].task \notin {"Seek", "Resume"}
    BY StepTaken DEF Tokens
  <2>3. main.seek_cb \in {"starting", "starting_suspendable", "seeking", "resuming"}
    BY <2>1 DEF IInv, Typed, MainMembers
  <2>4. CASE main.seek_cb \in {"starting", "starting_suspendable"}
    BY <2>1, <2>4, Constants DEF IInv, Clock
  <2>5. CASE main.seek_cb \in {"seeking", "resuming"}
    <3>1. main.seek_time # NoTimestamp /\ main.seek_time <= media.series.time
          /\ main.shown <= main.seek_time
      BY <1>1, <2>1, <2>5 DEF Clock
    <3>2. main.seek_time \in Nat
      BY Bounds DEF IInv, Typed, MainMembers, Timestamps
    <3>3. main.seek_time <= to
      BY <1>3, <3>1, <3>2
    <3>4. Floor(main.seek_time)'
      BY <1>4, <3>3, Constants DEF Floor, IInv
    <3>5. ~Busy'
      BY <1>4 DEF Busy, NoSeries
    <3>. QED
      BY <2>2, <2>5, <3>1, <3>4, <3>5, Constants DEF IInv, Clock, Floor
  <2>. QED
    BY <2>1, <2>3, <2>4, <2>5
<1>9. Working => (~media'.ok => Has(mainQ', {"OnError"}))
  BY <1>1, <1>4, <1>7 DEF Answers
<1>. QED
  BY <1>4, <1>7, <1>8, <1>9, SeriesEnds

(* A series that has failed: the error is reported, if none was before.     *)
LEMMA SeriesFailsInv ==
  ASSUME IInv, setup' = setup, mediaQ # << >>, Head(mediaQ).task \in Nexts,
         mediaQ' = Tail(mediaQ), UNCHANGED <<main, spent>>,
         media.series.done # "CompleteSuspend",
         Fail([media EXCEPT !.series = NoSeries])
  PROVE  IInv'
<1>. DEFINE m == [media EXCEPT !.series = NoSeries]
<1>1. /\ Busy /\ SeriesFits /\ media.linked
      /\ \A T : T \subseteq Dones => ~Has(mainQ, T)
      /\ Working => Awaited /\ Answers /\ Clock /\ ~Resting
  BY AtNext
<1>2. media.state \in {"kStarting", "kSeeking", "kResuming"}
  BY <1>1 DEF SeriesFits
<1>3. NoSeries \in Series
  BY Bounds DEF IInv, NoSeries, Series
<1>4. /\ m \in MediaMembers /\ m.state = media.state /\ m.ok = media.ok /\ m.series = NoSeries
      /\ m.linked = media.linked /\ m.signaled = media.signaled
  BY <1>3 DEF IInv, Typed, MediaMembers
<1>. HIDE DEF m
<1>5. \/ media.ok /\ media' = [m EXCEPT !.ok = FALSE] /\ Tells("OnError", mainQ')
      \/ ~media.ok /\ media' = m /\ mainQ' = mainQ
  <2>1. CASE media.ok
    <3>1. Failed(m) = [m |-> [m EXCEPT !.ok = FALSE], told |-> <<"OnError">>]
      BY <1>2, <1>4, <2>1 DEF Failed
    <3>2. media' = [m EXCEPT !.ok = FALSE] /\ Report(m, <<"OnError">>)
      BY <3>1 DEF Fail, m
    <3>. QED
      BY <1>1, <1>4, <2>1, <3>2, Reported DEF IInv, Typed, MainTasks
  <2>2. CASE ~media.ok
    <3>1. Failed(m) = [m |-> m, told |-> << >>]
      BY <1>4, <2>2 DEF Failed
    <3>2. media' = m /\ Report(m, << >>)
      BY <3>1 DEF Fail, m
    <3>3. mainQ' = mainQ
      BY <3>2 DEF Report, IInv, Typed
    <3>. QED
      BY <2>2, <3>2, <3>3
  <2>. QED
    BY <2>1, <2>2
<1>6. /\ media' \in MediaMembers /\ media'.state = media.state /\ ~media'.ok
      /\ media'.series = NoSeries /\ media'.linked /\ media'.signaled = media.signaled
  BY <1>1, <1>4, <1>5, ZenonT(60) DEF MediaMembers
<1>7. /\ ~Has(mainQ, Dones) /\ ~Has(mainQ, {"OnSeekDone"}) /\ ~Has(mainQ, EndSuspended)
      /\ ~Has(mainQ, {"OnSeekDoneSuspended"}) /\ ~Has(mainQ, {"OnSuspendDone"})
  BY <1>1 DEF Dones, EndSuspended
<1>8. /\ mainQ' \in Seq(MainTasks) /\ Single(mainQ', Dones)
      /\ Before(mainQ', {"OnError"}, EndSuspended)
      /\ Working => Has(mainQ', {"OnError"})
      /\ ~Has(mainQ', {"OnSeekDone"}) /\ ~Has(mainQ', EndSuspended)
      /\ ~Has(mainQ', {"OnSeekDoneSuspended"}) /\ ~Has(mainQ', {"OnSuspendDone"})
  <2>1. Single(mainQ, Dones) /\ Before(mainQ, {"OnError"}, EndSuspended)
    BY DEF IInv, OneOperation
  <2>2. Working /\ ~media.ok => Has(mainQ, {"OnError"})
    BY <1>1 DEF Answers
  <2>. QED
    BY <1>5, <1>7, <2>1, <2>2 DEF Tells, Dones, EndSuspended, IInv, Typed
<1>9. Working => Has(mainQ', Dones \cup {"OnError"})
  BY <1>8, Kinds
<1>10. Working => Clock'
  <2>. SUFFICES ASSUME Working PROVE Clock'
    OBVIOUS
  <2>1. main.seek_cb # "none" /\ Clock
    BY <1>1, <1>2 DEF Awaited
  <2>2. \A i \in DOMAIN mediaQ' : mediaQ'[i].task \notin {"Seek", "Resume"}
    BY StepTaken DEF Tokens
  <2>3. ~Busy'
    BY <1>6 DEF Busy, NoSeries
  <2>. QED
    BY <1>8, <2>1, <2>2, <2>3, Constants DEF IInv, Clock
<1>. QED
  BY <1>2, <1>6, <1>8, <1>9, <1>10, SeriesEnds

(* The series goes on: with its next function, or with the metadata told.   *)
LEMMA SeriesGoesOn ==
  ASSUME IInv, setup' = setup, mediaQ # << >>, Head(mediaQ).task \in Nexts,
         UNCHANGED <<main, spent>>,
         media' \in MediaMembers, media'.state = media.state,
         media'.series.done = media.series.done, media'.series.time = media.series.time,
         SeriesFits', media'.linked = media.linked, media'.signaled = media.signaled,
         media'.ok = media.ok, media'.start_type = media.start_type,
         media'.suspend_timestamp = media.suspend_timestamp,
         \/ mediaQ' = Tail(mediaQ) /\ media'.series.running # "none"
         \/ mediaQ' = Append(Tail(mediaQ), NextStep) /\ media'.series.running = "none",
         mainQ' \in Seq(MainTasks),
         \A T : "OnMetadata" \notin T => (Has(mainQ', T) <=> Has(mainQ, T)),
         Before(mainQ', {"OnError"}, EndSuspended)
  PROVE  IInv'
<1>1. /\ Busy /\ SeriesFits /\ ~Idle /\ media.linked
      /\ \A T : T \subseteq Dones => ~Has(mainQ, T)
      /\ Head(mediaQ).task \in Tokens
      /\ Working => Awaited /\ Answers /\ Clock /\ ~Resting /\ ~main.switching
  BY AtNext
<1>2. /\ Loses(Head(mediaQ)) \/ Swaps(Head(mediaQ))
      /\ mediaQ' \in Seq(Entry) /\ Single(Tasks', Tokens)
      /\ \A T : T \subseteq Ops => ~Has(Tasks', T)
      /\ \A i \in DOMAIN mediaQ' : mediaQ'[i].task \notin {"Seek", "Resume"}
      /\ media'.series.running # "none" => ~Has(Tasks', Tokens)
      /\ media'.series.running # "none" \/ Has(Tasks', Nexts)
  <2>1. CASE mediaQ' = Tail(mediaQ) /\ media'.series.running # "none"
    <3>1. /\ Loses(Head(mediaQ)) /\ Single(Tasks', Tokens)
          /\ \A T : T \subseteq Tokens => ~Has(Tasks', T)
          /\ \A i \in DOMAIN mediaQ' : mediaQ'[i].task \notin {"Seek", "Resume"}
      BY <1>1, <2>1, StepTaken
    <3>. QED
      BY <2>1, <3>1 DEF Tokens, Loses
  <2>2. CASE mediaQ' = Append(Tail(mediaQ), NextStep) /\ media'.series.running = "none"
    BY <1>1, <2>2, StepSwapped DEF Swaps
  <2>. QED
    BY <2>1, <2>2
<1>3. media'.series # NoSeries /\ ~Idle'
  <2>1. media.series.done # "none"
    BY <1>1 DEF SeriesFits
  <2>. QED
    BY <1>1, <2>1 DEF Idle, NoSeries
<1>4. /\ ~Has(mainQ', Dones) /\ ~Has(mainQ', {"OnSeekDone"}) /\ ~Has(mainQ', EndSuspended)
      /\ ~Has(mainQ', {"OnSeekDoneSuspended"}) /\ ~Has(mainQ', {"OnSuspendDone"})
      /\ Has(mainQ, {"OnError"}) => Has(mainQ', {"OnError"})
  BY <1>1 DEF Dones, EndSuspended
<1>5. /\ ~Has(Tasks', {"Start", "StartSuspendable"})
      /\ ~Has(Tasks', {"Seek", "Suspend"}) /\ ~Has(Tasks', {"Resume"})
      /\ ~Has(Tasks', {"Start"}) /\ ~Has(Tasks', {"StartSuspendable"})
      /\ ~Has(Tasks', {"Seek"}) /\ ~Has(Tasks', {"Suspend"})
  BY <1>2 DEF Ops
<1>6. Typed'
  BY <1>2, Constants DEF IInv, Typed
<1>7. MediaFits'
  <2>1. media.state # "kPlaying" /\ media.state # "kStopping"
    BY <1>1 DEF SeriesFits
  <2>. QED
    BY <1>1, <1>3, <2>1, Constants DEF IInv, MediaFits, Idle
<1>8. OneOperation'
  <2>1. Single(mainQ', Dones)
    BY <1>4, Kinds
  <2>. QED
    BY <1>1, <1>2, <1>3, <1>4, <1>5, <2>1 DEF OneOperation, Busy, NoSeries
<1>9. Sessions'
  BY <1>1, <1>2, <1>3, SessionsRun
<1>10. Working => Awaited' /\ Answers' /\ Clock'
  <2>. SUFFICES ASSUME Working PROVE Awaited' /\ Answers' /\ Clock'
    OBVIOUS
  <2>1. Awaited'
    BY <1>1, <1>4, <1>5 DEF Awaited
  <2>2. Answers'
    <3>1. Has(Tasks', Nexts) => Has(Tasks', Tokens)
      BY Kinds DEF Tokens
    <3>. QED
      BY <1>1, <1>2, <1>4, <3>1 DEF Answers, Resting
  <2>3. Clock'
    <3>1. main.seek_cb = "none" => Floor(main.shown)' \/ ~Floor(main.shown)
      <4>1. ASSUME main.seek_cb = "none" PROVE media.state = "kSuspending"
        BY <1>1, <4>1 DEF Awaited, SeriesFits
      <4>. QED
        BY <4>1, Constants DEF IInv, MediaFits, Floor
    <3>. QED
      BY <1>1, <1>2, <1>4, <3>1, Constants DEF IInv, Clock
  <2>. QED
    BY <2>1, <2>2, <2>3
<1>. QED
  BY <1>6, <1>7, <1>8, <1>9, <1>10 DEF IInv, Working

LEMMA RunFunctionInv ==
  ASSUME IInv, setup' = setup, mediaQ # << >>, Head(mediaQ).task \in Nexts,
         media.series.todo # << >>, Head(media.series.todo) # "ReportMetadata",
         media' = [media EXCEPT !.series.running = Head(media.series.todo),
                                !.series.todo = Tail(@),
                     !.renderer = IF Head(media.series.todo) =
                                     "InitializeRenderer" THEN "idle" ELSE @],
         mediaQ' = Tail(mediaQ), UNCHANGED <<main, mainQ, spent>>
  PROVE  IInv'
<1>. DEFINE f == Head(media.series.todo)
            rest == Tail(media.series.todo)
            r == IF f = "InitializeRenderer" THEN "idle" ELSE media.renderer
            series == [media.series EXCEPT !.running = f, !.todo = rest]
<1>1. SeriesFits /\ media \in MediaMembers /\ media.series \in Series
  BY AtNext DEF IInv, Typed, MediaMembers
<1>2. /\ media.series.todo \in Seq(Functions) /\ media.series.todo # << >>
      /\ f \in Functions /\ rest \in Seq(Functions)
  BY <1>1 DEF Series
<1>3. \/ media.state = "kStarting" /\ media.series.done = "CompleteSeek" /\ rest = << >>
      \/ media.state = "kSeeking" /\ media.series.done = "CompleteSeek" /\ rest = << >>
      \/ media.state = "kResuming" /\ media.series.done = "CompleteSeek" /\ rest = << >>
  <2>1. /\ Head(<<"ReportMetadata", "InitializeRenderer">>) = "ReportMetadata"
        /\ Tail(<<"InitializeRenderer">>) = << >> /\ Tail(<<"DemuxerSeek">>) = << >>
    OBVIOUS
  <2>. QED
    BY <1>1, <1>2, <2>1 DEF SeriesFits
<1>4. media' = [media EXCEPT !.series = series, !.renderer = r]
  BY <1>1 DEF MediaMembers, Series
<1>5. r \in {"none", "new", "idle", "playing", "ended"}
  BY <1>1 DEF MediaMembers
<1>6. /\ series \in Series /\ series.todo = rest /\ series.running = f
      /\ series.done = media.series.done /\ series.time = media.series.time
  <2>. HIDE DEF f, rest
  <2>. QED
    BY <1>1, <1>2 DEF Series
<1>. HIDE DEF f, rest, r, series
<1>7. /\ media' \in MediaMembers /\ media'.state = media.state /\ media'.series = series
      /\ media'.linked = media.linked /\ media'.signaled = media.signaled
      /\ media'.ok = media.ok /\ media'.start_type = media.start_type
      /\ media'.suspend_timestamp = media.suspend_timestamp
  BY <1>1, <1>4, <1>5, <1>6, ZenonT(60) DEF MediaMembers
<1>8. SeriesFits' /\ media'.series.running # "none"
  BY <1>2, <1>3, <1>6, <1>7 DEF SeriesFits, Functions
<1>9. mainQ' \in Seq(MainTasks) /\ Before(mainQ', {"OnError"}, EndSuspended)
  BY DEF IInv, Typed, OneOperation
<1>. QED
  BY <1>6, <1>7, <1>8, <1>9, SeriesGoesOn

(* The metadata is told; a start that is to end suspended ends with it.     *)
LEMMA ReportMetadataInv ==
  ASSUME IInv, setup' = setup, mediaQ # << >>, Head(mediaQ).task \in Nexts,
         media.series.todo # << >>, Head(media.series.todo) = "ReportMetadata",
         ReportMetadata, UNCHANGED <<main, spent>>
  PROVE  IInv'
<1>1. /\ SeriesFits /\ media.linked /\ media \in MediaMembers /\ media.series \in Series
      /\ \A T : T \subseteq Dones => ~Has(mainQ, T)
      /\ Working => Awaited /\ Answers /\ Clock /\ ~Resting
      /\ Busy /\ mainQ \in Seq(MainTasks)
  BY AtNext DEF IInv, Typed, MediaMembers
<1>2. /\ media.state = "kStarting" /\ media.series.done = "CompleteSeek"
      /\ media.series.todo = <<"ReportMetadata", "InitializeRenderer">>
  <2>1. /\ Head(<<"InitializeRenderer">>) # "ReportMetadata"
        /\ Head(<<"DemuxerSeek">>) # "ReportMetadata"
    OBVIOUS
  <2>. QED
    BY <1>1, <2>1 DEF SeriesFits
<1>3. Single(mainQ, Dones) /\ Before(mainQ, {"OnError"}, EndSuspended)
  BY DEF IInv, OneOperation
<1>4. CASE media.start_type = "kNormal"
  <2>. DEFINE rest == <<"InitializeRenderer">>
              series == [media.series EXCEPT !.todo = rest]
  <2>1. Tail(<<"ReportMetadata", "InitializeRenderer">>) = rest /\ rest \in Seq(Functions)
    BY DEF Functions
  <2>2. /\ media' = [media EXCEPT !.series = series]
        /\ mediaQ' = Append(Tail(mediaQ), NextStep) /\ Report(media, <<"OnMetadata">>)
    BY <1>1, <1>2, <1>4, <2>1 DEF ReportMetadata, NextStep, MediaMembers, Series
  <2>3. /\ series \in Series /\ series.todo = rest /\ series.done = media.series.done
        /\ series.running = media.series.running /\ series.time = media.series.time
    <3>. HIDE DEF rest
    <3>. QED
      BY <1>1, <2>1 DEF Series
  <2>. HIDE DEF rest, series
  <2>4. /\ media' \in MediaMembers /\ media'.state = media.state /\ media'.series = series
        /\ media'.linked = media.linked /\ media'.signaled = media.signaled
        /\ media'.ok = media.ok /\ media'.start_type = media.start_type
        /\ media'.suspend_timestamp = media.suspend_timestamp
    BY <1>1, <2>2, <2>3 DEF MediaMembers
  <2>5. SeriesFits' /\ media'.series.running = "none"
    BY <1>2, <2>3, <2>4, AtNext DEF SeriesFits, rest
  <2>6. Tells("OnMetadata", mainQ')
    BY <1>1, <2>2, Reported DEF MainTasks
  <2>7. /\ mainQ' \in Seq(MainTasks) /\ Before(mainQ', {"OnError"}, EndSuspended)
        /\ \A T : "OnMetadata" \notin T => (Has(mainQ', T) <=> Has(mainQ, T))
    BY <1>3, <2>6 DEF Tells
  <2>. QED
    BY <2>2, <2>3, <2>4, <2>5, <2>7, SeriesGoesOn
<1>5. CASE media.start_type # "kNormal"
  <2>1. /\ media' = [WithoutRenderer(media) EXCEPT !.series = NoSeries,
                       !.suspend_timestamp = StartTime, !.state = "kSuspended",
                       !.pos = StartTime, !.from = StartTime]
        /\ mediaQ' = Tail(mediaQ) /\ Report(media, <<"OnMetadata", "OnSeekDoneSuspended">>)
    BY <1>5 DEF ReportMetadata
  <2>2. NoSeries \in Series /\ StartTime \in Times /\ StartTime \in Timestamps
    BY Bounds DEF IInv, NoSeries, Series, Timestamps
  <2>3. /\ media' \in MediaMembers /\ media'.state = "kSuspended" /\ media'.ok = media.ok
        /\ media'.series = NoSeries /\ media'.linked /\ media'.signaled = media.signaled
    <3>. DEFINE m == WithoutRenderer(media)
    <3>1. /\ m \in MediaMembers /\ m.ok = media.ok /\ m.linked = media.linked
          /\ m.signaled = media.signaled
      BY <1>1 DEF MediaMembers, WithoutRenderer
    <3>. DEFINE n == [m EXCEPT !.series = NoSeries, !.suspend_timestamp = StartTime,
                               !.state = "kSuspended"]
    <3>. HIDE DEF m
    <3>2. /\ n \in MediaMembers /\ n.ok = media.ok /\ n.linked = media.linked
          /\ n.signaled = media.signaled /\ n.series = NoSeries /\ n.state = "kSuspended"
      BY <2>2, <3>1 DEF MediaMembers, States
    <3>3. media' = [n EXCEPT !.pos = StartTime, !.from = StartTime]
      BY <2>1, <3>1 DEF m, MediaMembers
    <3>. HIDE DEF n
    <3>. QED
      BY <1>1, <2>2, <3>2, <3>3 DEF MediaMembers
  <2>. DEFINE q == Append(mainQ, "OnMetadata")
  <2>4. mainQ' = Append(q, "OnSeekDoneSuspended")
    BY <1>1, <2>1 DEF Report
  <2>5. Tells("OnMetadata", q) /\ q \in Seq(MainTasks)
    <3>1. "OnMetadata" \in MainTasks
      BY DEF MainTasks
    <3>2. Tells("OnMetadata", q)
      BY <1>1, <3>1, Told
    <3>. QED
      BY <3>2 DEF Tells
  <2>. HIDE DEF q
  <2>6. Adds(q, "OnSeekDoneSuspended", mainQ') /\ mainQ' \in Seq(MainTasks)
    BY <2>4, <2>5, AppendAdds DEF MainTasks
  <2>7. /\ ~Has(mainQ, Dones) /\ ~Has(mainQ, {"OnSeekDone"}) /\ ~Has(mainQ, {"OnSuspendDone"})
        /\ ~Has(mainQ, EndSuspended)
    BY <1>1 DEF Dones, EndSuspended
  <2>8. /\ ~Has(q, Dones) /\ ~Has(q, {"OnSeekDone"}) /\ ~Has(q, {"OnSuspendDone"})
        /\ Single(q, Dones) /\ Before(q, {"OnError"}, EndSuspended)
        /\ Has(q, {"OnError"}) <=> Has(mainQ, {"OnError"})
    BY <1>3, <2>5, <2>7 DEF Tells, Dones, EndSuspended
  <2>9. /\ Single(mainQ', Dones) /\ Before(mainQ', {"OnError"}, EndSuspended)
        /\ ~Has(mainQ', {"OnSeekDone"}) /\ ~Has(mainQ', {"OnSuspendDone"})
        /\ Has(mainQ', Dones \cup {"OnError"})
        /\ Has(mainQ', {"OnError"}) <=> Has(mainQ, {"OnError"})
    BY <2>6, <2>8, AddTask DEF Dones, EndSuspended
  <2>10. ASSUME Working
         PROVE  /\ main.seek_cb = "starting_suspendable" /\ Clock'
                /\ ~media'.ok => Has(mainQ', {"OnError"})
    <3>1. main.seek_cb = "starting_suspendable"
      BY <1>1, <1>2, <1>5, <2>10 DEF Awaited
    <3>2. Clock'
      BY <1>1, <2>10, <3>1, Constants DEF IInv, Clock
    <3>. QED
      BY <1>1, <2>3, <2>9, <2>10, <3>1, <3>2 DEF Answers
  <2>. QED
    BY <2>1, <2>3, <2>6, <2>9, <2>10, SeriesEnds
<1>. QED
  BY <1>4, <1>5

LEMMA RunNextInSeriesInv ==
  ASSUME IInv, setup' = setup, mediaQ # << >>, Head(mediaQ).task \in Nexts,
         RunNextInSeries(Head(mediaQ).task), UNCHANGED <<main, spent>>
  PROVE  IInv'
<1>. DEFINE status == Head(mediaQ).task
<1>1. CASE media.series.todo = << >> \/ status = "NextError"
  <2>1. RunDone(status)
    BY <1>1 DEF RunNextInSeries
  <2>2. CASE media.series.done = "CompleteSuspend"
    <3>1. /\ mediaQ' = Tail(mediaQ) /\ media' = CompleteSuspend(media)
          /\ Report(media, <<"OnSuspendDone">>)
      BY <2>1, <2>2 DEF RunDone
    <3>. QED
      BY <2>2, <3>1, CompleteSuspendInv
  <2>3. CASE media.series.done # "CompleteSuspend" /\ status = "NextOk"
    <3>1. /\ mediaQ' = Tail(mediaQ) /\ media' = CompleteSeek(media)
          /\ Report(media, <<"OnSeekDone">>)
      BY <2>1, <2>3 DEF RunDone
    <3>. QED
      BY <2>3, <3>1, CompleteSeekInv
  <2>4. CASE media.series.done # "CompleteSuspend" /\ status # "NextOk"
    <3>1. mediaQ' = Tail(mediaQ) /\ Fail([media EXCEPT !.series = NoSeries])
      BY <2>1, <2>4 DEF RunDone
    <3>. QED
      BY <2>4, <3>1, SeriesFailsInv
  <2>. QED
    BY <2>2, <2>3, <2>4
<1>2. CASE /\ media.series.todo # << >> /\ status # "NextError"
           /\ Head(media.series.todo) = "ReportMetadata"
  <2>1. ReportMetadata
    BY <1>2 DEF RunNextInSeries
  <2>. QED
    BY <1>2, <2>1, ReportMetadataInv
<1>3. CASE /\ media.series.todo # << >> /\ status # "NextError"
           /\ Head(media.series.todo) # "ReportMetadata"
  <2>1. /\ media' = [media EXCEPT !.series.running = Head(media.series.todo),
                                  !.series.todo = Tail(@),
                       !.renderer = IF Head(media.series.todo) =
                                       "InitializeRenderer" THEN "idle" ELSE @]
        /\ mediaQ' = Tail(mediaQ) /\ mainQ' = mainQ
    BY <1>3 DEF RunNextInSeries
  <2>. QED
    BY <1>3, <2>1, RunFunctionInv
<1>. QED
  BY <1>1, <1>2, <1>3

LEMMA MediaTaskInv ==
  ASSUME IInv, setup' = setup, MediaTask PROVE IInv'
<1>. DEFINE head == Head(mediaQ)
<1>1. mediaQ # << >> /\ UNCHANGED <<main, spent>>
  BY DEF MediaTask
<1>2. CASE head.task = "Start" /\ MediaStart("kNormal")
  BY <1>1, <1>2, MediaStartInv
<1>3. CASE head.task = "StartSuspendable" /\ MediaStart("kSuspendAfterMetadata")
  BY <1>1, <1>3, MediaStartInv
<1>4. CASE head.task = "Stop" /\ MediaStop
  BY <1>1, <1>4, MediaStopInv
<1>5. CASE head.task = "StopCb" /\ RunStopCb
  BY <1>1, <1>5, RunStopCbInv
<1>6. CASE head.task = "Seek" /\ MediaSeek(head.arg)
  BY <1>1, <1>6, MediaSeekInv
<1>7. CASE head.task = "Suspend" /\ MediaSuspend
  BY <1>1, <1>7, MediaSuspendInv
<1>8. CASE head.task = "Resume" /\ MediaResume(head.arg)
  BY <1>1, <1>8, MediaResumeInv
<1>9. CASE head.task = "SetPlaybackRate" /\ MediaSetPlaybackRate(head.arg)
  BY <1>1, <1>9, MediaSetPlaybackRateInv
<1>10. CASE head.task = "TrackChange" /\ MediaTrackChange
  BY <1>1, <1>10, MediaTrackChangeInv
<1>11. CASE head.task = "OnPipelineError" /\ MediaError
  BY <1>1, <1>11, MediaErrorInv
<1>12. CASE head.task \in {"NextOk", "NextError"} /\ RunNextInSeries(head.task)
  BY <1>1, <1>12, RunNextInSeriesInv DEF Nexts
<1>13. CASE /\ head.task \in {"FromDemuxer", "Cancelled"}
            /\ mediaQ' = Tail(mediaQ) /\ UNCHANGED <<media, mainQ>>
  BY <1>1, <1>13, NothingInv
<1>. HIDE DEF head
<1>. QED
  BY <1>1, <1>2, <1>3, <1>4, <1>5, <1>6, <1>7, <1>8, <1>9, <1>10, <1>11, <1>12, <1>13
     DEF MediaTask, head

LEMMA MainTaskInv ==
  ASSUME IInv, setup' = setup, MainTask PROVE IInv'
<1>1. mainQ' = Tail(mainQ) /\ UNCHANGED <<media, mediaQ, spent>>
  BY DEF MainTask
<1>2. CASE OnError
  BY <1>1, <1>2, OnErrorInv
<1>3. CASE \E b \in BOOLEAN : OnSeekDone(b)
  BY <1>1, <1>3, OnSeekDoneInv
<1>4. CASE OnSuspendDone
  BY <1>1, <1>4, OnSuspendDoneInv
<1>5. CASE Notify \/ TrackChanged
  BY <1>1, <1>5, NotifiedInv
<1>. QED
  BY <1>2, <1>3, <1>4, <1>5 DEF MainTask

(**************************************************************************)
(*                       The demuxer and the renderer                       *)
LEMMA CompletesInv ==
  ASSUME IInv, setup' = setup, NEW status \in {"NextOk", "NextError"}, Completes(status)
  PROVE  IInv'
<1>. DEFINE e == [task |-> status, arg |-> 0]
            series == [media.series EXCEPT !.running = "none"]
<1>1. e \in Entry /\ e.task = status /\ e.task \in Nexts /\ e.task \in Tokens
  BY DEF Entry, MediaTasks, Tokens, Nexts
<1>2. /\ media.series.running # "none" /\ mediaQ' = Append(mediaQ, e)
      /\ UNCHANGED spent \/ Spend("errors")
      /\ main' = main /\ mainQ' = mainQ
      /\ media \in MediaMembers /\ media.series \in Series
  BY DEF Completes, Post, IInv, Typed, MediaMembers
<1>3. media' = [media EXCEPT !.series = series]
  BY <1>2 DEF Completes, MediaMembers, Series
<1>4. /\ series \in Series /\ series.running = "none" /\ series.todo = media.series.todo
      /\ series.done = media.series.done /\ series.time = media.series.time
  BY <1>2 DEF Series
<1>. HIDE DEF e, series
<1>5. Gains(e)
  BY <1>1, <1>2, Posted DEF IInv
<1>6. /\ Busy /\ SeriesFits /\ ~Idle /\ ~Has(Tasks, Tokens) /\ ~Has(mainQ, Dones)
      /\ \A T : T \subseteq Tokens => ~Has(Tasks, T)
  <2>1. Busy /\ ~Has(Tasks, Tokens) /\ ~Has(mainQ, Dones)
    BY <1>2 DEF IInv, OneOperation
  <2>2. SeriesFits /\ ~Idle
    BY <2>1 DEF IInv, MediaFits, SeriesFits, Idle
  <2>. QED
    BY <2>1, <2>2, Kinds
<1>7. /\ media' \in MediaMembers /\ media'.state = media.state /\ media'.series = series
      /\ media'.ok = media.ok /\ media'.demuxer = media.demuxer
      /\ media'.renderer = media.renderer /\ media'.track = media.track
      /\ media'.suspend_timestamp = media.suspend_timestamp
      /\ media'.linked = media.linked /\ media'.signaled = media.signaled
      /\ media'.from = media.from /\ media'.start_type = media.start_type
  BY <1>2, <1>3, <1>4 DEF MediaMembers
<1>8. series # NoSeries /\ SeriesFits'
  BY <1>4, <1>6, <1>7 DEF SeriesFits, NoSeries
<1>9. Typed'
  <2>1. spent' \in [ starts : 0 .. setup'.starts, calls : 0 .. setup'.calls,
                     errors : 0 .. setup'.errors ]
    BY <1>2, Spending DEF IInv, Typed
  <2>. QED
    BY <1>2, <1>5, <1>7, <2>1, Constants DEF IInv, Typed, Gains
<1>10. MediaFits'
  <2>1. "OnPipelineError" # e.task
    BY <1>1 DEF Nexts
  <2>. QED
    BY <1>5, <1>6, <1>7, <1>8, <2>1, Constants DEF IInv, MediaFits, Idle
<1>11. OneOperation'
  <2>1. \A T : T \subseteq Ops => ~Has(Tasks', T)
    BY <1>1, <1>5, <1>6 DEF Gains, Tokens, Ops, Nexts
  <2>2. /\ ~Has(Tasks', {"Start", "StartSuspendable"})
        /\ ~Has(Tasks', {"Seek", "Suspend"}) /\ ~Has(Tasks', {"Resume"})
    BY <2>1 DEF Ops
  <2>3. Has(Tasks', Nexts) /\ Single(Tasks', Tokens)
    BY <1>1, <1>5, <1>6 DEF Gains, IInv, OneOperation
  <2>. QED
    BY <1>2, <1>4, <1>6, <1>7, <1>8, <2>2, <2>3 DEF IInv, OneOperation, Busy
<1>12. Sessions'
  BY <1>1, <1>2, <1>5, <1>6, <1>7
     DEF IInv, Sessions, StopUnderWay, StopDone, Idle, Gains, Nexts, Ops
<1>13. Working => Awaited'
  BY <1>1, <1>2, <1>4, <1>5, <1>6, <1>7, <1>8 DEF IInv, Awaited, Busy, Gains, Nexts
<1>14. Working => Answers'
  BY <1>1, <1>2, <1>5, <1>6, <1>7 DEF IInv, Answers, Resting, Gains, Nexts
<1>15. Working => Clock'
  <2>1. e.task \notin {"Seek", "Resume"}
    BY <1>1 DEF Nexts
  <2>. QED
    BY <1>2, <1>4, <1>5, <1>6, <1>7, <1>8, <2>1, Constants DEF IInv, Clock, Floor, Gains
<1>. QED
  BY <1>2, <1>9, <1>10, <1>11, <1>12, <1>13, <1>14, <1>15 DEF IInv, Working

LEMMA BreaksInv ==
  ASSUME IInv, setup' = setup, Breaks PROVE IInv'
<1>. DEFINE e == [task |-> "OnPipelineError", arg |-> 0]
<1>1. e \in Entry /\ e.task = "OnPipelineError"
  BY DEF Entry, MediaTasks
<1>2. /\ main' = main /\ media' = media /\ mainQ' = mainQ
      /\ mediaQ' = Append(mediaQ, e) /\ Spend("errors")
  BY DEF Breaks, Post
<1>3. ~Idle
  BY DEF Breaks, IInv, MediaFits
<1>. HIDE DEF e
<1>4. Gains(e)
  BY <1>1, <1>2, Posted DEF IInv
<1>5. Typed'
  <2>1. spent' \in [ starts : 0 .. setup'.starts, calls : 0 .. setup'.calls,
                     errors : 0 .. setup'.errors ]
    BY <1>2, Spending DEF IInv, Typed
  <2>. QED
    BY <1>2, <1>4, <2>1, Constants DEF IInv, Typed, Gains
<1>6. MediaFits'
  BY <1>1, <1>2, <1>3, <1>4, Constants DEF IInv, MediaFits, Idle, Busy, SeriesFits, Gains
<1>7. OneOperation'
  BY <1>1, <1>2, <1>4 DEF IInv, OneOperation, Tokens, Ops, Nexts, Idle, Busy, Gains
<1>8. Sessions'
  BY <1>1, <1>2, <1>3, <1>4
     DEF IInv, Sessions, StopUnderWay, StopDone, Idle, Resting, Gains, Ops
<1>9. Working => Awaited'
  BY <1>1, <1>2, <1>4 DEF IInv, Awaited, Busy, Gains
<1>10. Working => Answers'
  BY <1>1, <1>2, <1>4 DEF IInv, Answers, Resting, Tokens, Ops, Nexts, Gains
<1>11. Working => Clock'
  BY <1>1, <1>2, <1>4, Constants DEF IInv, Clock, Floor, Busy, Gains
<1>. QED
  BY <1>2, <1>5, <1>6, <1>7, <1>8, <1>9, <1>10, <1>11 DEF IInv, Working

LEMMA PlaysInv ==
  ASSUME IInv, setup' = setup, OnEnded \/ Play PROVE IInv'
<1>. DEFINE r == media'.renderer
<1>1. /\ main' = main /\ mediaQ' = mediaQ /\ spent' = spent /\ Tasks' = Tasks
      /\ media.renderer = "playing"
  BY DEF OnEnded, Play, Tasks
<1>2. /\ media' \in MediaMembers /\ media'.state = media.state /\ media'.series = media.series
      /\ media'.ok = media.ok /\ media'.demuxer = media.demuxer
      /\ media'.renderer \in {"playing", "ended"} /\ media'.track = media.track
      /\ media'.suspend_timestamp = media.suspend_timestamp
      /\ media'.linked = media.linked /\ media'.signaled = media.signaled
      /\ media'.from = media.from /\ media'.start_type = media.start_type
  <2>1. media \in MediaMembers
    BY DEF IInv, Typed
  <2>2. CASE OnEnded
    BY <2>1, <2>2 DEF OnEnded, MediaMembers
  <2>3. CASE Play
    <3>1. media.pos + 1 \in Times
      BY <2>1, <2>3, Bounds DEF Play, MediaMembers, IInv, Times
    <3>. DEFINE n == media.pos + 1
    <3>2. media' = [media EXCEPT !.pos = n] /\ n \in Times
      BY <2>3, <3>1 DEF Play
    <3>. HIDE DEF n
    <3>. QED
      BY <1>1, <2>1, <3>2 DEF MediaMembers
  <2>. QED
    BY <2>2, <2>3
<1>3. ~Idle /\ media.linked
  BY <1>1 DEF IInv, MediaFits
<1>4. mainQ' = mainQ \/ Tells("OnEnded", mainQ')
  BY <1>3, Reported DEF OnEnded, Play, IInv, Typed, MainTasks
<1>5. /\ mainQ' \in Seq(MainTasks)
      /\ \A T : "OnEnded" \notin T => (Has(mainQ', T) <=> Has(mainQ, T))
      /\ Single(mainQ', Dones) /\ Before(mainQ', {"OnError"}, EndSuspended)
  BY <1>4 DEF IInv, OneOperation, Typed, Tells, Dones, EndSuspended
<1>6. Typed'
  BY <1>1, <1>2, <1>5, Constants DEF IInv, Typed
<1>7. MediaFits'
  BY <1>1, <1>2, <1>3, Constants DEF IInv, MediaFits, Idle, Busy, SeriesFits
<1>8. OneOperation'
  BY <1>1, <1>2, <1>5 DEF IInv, OneOperation, Idle, Busy, Dones, EndSuspended
<1>9. Sessions'
  BY <1>1, <1>2 DEF IInv, Sessions, StopUnderWay, StopDone, Idle, Resting
<1>10. Working => Awaited'
  BY <1>1, <1>2, <1>5 DEF IInv, Awaited, Busy
<1>11. Working => Answers'
  BY <1>1, <1>2, <1>5 DEF IInv, Answers, Resting, Dones, EndSuspended
<1>12. Working => Clock'
  BY <1>1, <1>2, <1>5, Constants DEF IInv, Clock, Floor, Busy
<1>. QED
  BY <1>1, <1>6, <1>7, <1>8, <1>9, <1>10, <1>11, <1>12 DEF IInv, Working

LEMMA TracksSwitchedInv ==
  ASSUME IInv, setup' = setup, TracksSwitched PROVE IInv'
<1>1. /\ main' = main /\ mediaQ' = mediaQ /\ spent' = spent /\ Tasks' = Tasks
      /\ media' = [media EXCEPT !.track = FALSE] /\ Tells("TrackChanged", mainQ')
  BY Told DEF TracksSwitched, Tasks, IInv, Typed, MainTasks
<1>2. /\ media' \in MediaMembers /\ media'.state = media.state /\ media'.series = media.series
      /\ media'.ok = media.ok /\ media'.demuxer = media.demuxer
      /\ media'.renderer = media.renderer /\ ~media'.track
      /\ media'.suspend_timestamp = media.suspend_timestamp
      /\ media'.linked = media.linked /\ media'.signaled = media.signaled
      /\ media'.from = media.from /\ media'.start_type = media.start_type
  BY <1>1 DEF IInv, Typed, MediaMembers
<1>3. /\ mainQ' \in Seq(MainTasks) /\ Has(mainQ', {"TrackChanged"})
      /\ \A T : "TrackChanged" \notin T => (Has(mainQ', T) <=> Has(mainQ, T))
      /\ Single(mainQ', Dones) /\ Before(mainQ', {"OnError"}, EndSuspended)
  BY <1>1 DEF IInv, OneOperation, Tells, Dones, EndSuspended
<1>4. Typed'
  BY <1>1, <1>2, <1>3, Constants DEF IInv, Typed
<1>5. MediaFits'
  BY <1>1, <1>2, Constants DEF IInv, MediaFits, Idle, Busy, SeriesFits
<1>6. OneOperation'
  BY <1>1, <1>2, <1>3 DEF IInv, OneOperation, Idle, Busy, Dones, EndSuspended
<1>7. Sessions'
  BY <1>1, <1>2 DEF IInv, Sessions, StopUnderWay, StopDone, Idle, Resting
<1>8. Working => Awaited'
  BY <1>1, <1>2, <1>3 DEF IInv, Awaited, Busy
<1>9. Working => Answers'
  BY <1>1, <1>2, <1>3 DEF IInv, Answers, Resting, Dones, EndSuspended
<1>10. Working => Clock'
  BY <1>1, <1>2, <1>3, Constants DEF IInv, Clock, Floor, Busy
<1>. QED
  BY <1>1, <1>4, <1>5, <1>6, <1>7, <1>8, <1>9, <1>10 DEF IInv, Working

(**************************************************************************)
(*                            The invariant                                 *)
LEMMA InitInv == Init => IInv
<1>. SUFFICES ASSUME Init PROVE IInv
  OBVIOUS
<1>1. setup \in Setups /\ setup \in Setup /\ mediaQ = << >> /\ mainQ = << >>
  BY DEF Init
<1>2. /\ Times \subseteq Nat /\ 0 \in Times /\ NoTimestamp \in Timestamps
      /\ NoSeries \in Series /\ NoSeries.running = "none"
  BY <1>1 DEF Setup, MaxTime, Times, NoTimestamp, Timestamps, NoSeries, Series
<1>3. Tasks = << >>
  BY <1>1 DEF Tasks
<1>4. /\ main \in MainMembers /\ ~main.client /\ main.seek_cb = "none" /\ ~main.suspend_cb
      /\ ~main.stopping /\ ~main.failed /\ ~main.switching
  BY <1>2 DEF Init, MainMembers
<1>5. /\ media \in MediaMembers /\ media.state = "kCreated" /\ media.ok /\ ~media.demuxer
      /\ media.renderer = "none" /\ ~media.track /\ media.series = NoSeries /\ ~media.linked
  BY <1>2 DEF Init, MediaMembers, States
<1>6. /\ \A T : ~Has(Tasks, T) /\ Single(Tasks, T) /\ ~Has(mainQ, T) /\ Single(mainQ, T)
      /\ \A A, B : Before(mainQ, A, B)
  BY <1>1, <1>3, EmptyQueue
<1>7. Typed
  <2>1. /\ setup.starts \in Nat /\ setup.calls \in Nat /\ setup.errors \in Nat
        /\ spent = [starts |-> 0, calls |-> 0, errors |-> 0]
    BY <1>1 DEF Setup, Init
  <2>2. spent \in [ starts : 0 .. setup.starts, calls : 0 .. setup.calls,
                    errors : 0 .. setup.errors ]
    BY <2>1
  <2>. QED
    BY <1>1, <1>4, <1>5, <2>2 DEF Typed
<1>8. MediaFits /\ OneOperation /\ Sessions
  BY <1>2, <1>4, <1>5, <1>6 DEF MediaFits, OneOperation, Sessions, Idle, Busy, Resting
<1>. QED
  BY <1>4, <1>7, <1>8 DEF IInv, Working

LEMMA CallInv ==
  ASSUME IInv, setup' = setup, Call PROVE IInv'
<1>1. CASE \E type \in StartTypes : Start(type)
  BY <1>1, StartInv
<1>2. CASE \E time \in Times : Seek(time) \/ Resume(time)
  BY <1>2, SeekInv, ResumeInv
<1>3. CASE Suspend
  BY <1>3, SuspendInv
<1>4. CASE \E rate \in {0, 1} : SetPlaybackRate(rate)
  BY <1>4, SetPlaybackRateInv
<1>5. CASE ChangeTracks
  BY <1>5, ChangeTracksInv
<1>6. CASE GetMediaTime
  BY <1>6, GetMediaTimeInv
<1>7. CASE Stop
  BY <1>7, StopInv
<1>. QED
  BY <1>1, <1>2, <1>3, <1>4, <1>5, <1>6, <1>7 DEF Call

LEMMA NextInv == IInv /\ [Next]_<<vars, setup>> => IInv'
<1>. SUFFICES ASSUME IInv, [Next]_<<vars, setup>> PROVE IInv'
  OBVIOUS
<1>1. CASE UNCHANGED <<vars, setup>>
  <2>1. /\ main' = main /\ media' = media /\ mediaQ' = mediaQ /\ mainQ' = mainQ
        /\ spent' = spent /\ setup' = setup /\ Tasks' = Tasks
    BY <1>1 DEF vars, Tasks
  <2>2. Typed' /\ MediaFits' /\ OneOperation'
    BY <2>1, Constants
       DEF IInv, Typed, MediaFits, Idle, Busy, SeriesFits, OneOperation
  <2>3. Sessions'
    BY <2>1 DEF IInv, Sessions, StopUnderWay, StopDone, Idle, Resting
  <2>4. Working => Awaited' /\ Answers' /\ Clock'
    BY <2>1, Constants DEF IInv, Awaited, Answers, Clock, Floor, Busy, Resting
  <2>. QED
    BY <2>1, <2>2, <2>3, <2>4 DEF IInv, Working
<1>2. CASE Next
  <2>1. setup' = setup
    BY <1>2 DEF Next
  <2>2. CASE External
    BY <2>1, <2>2, CompletesInv, BreaksInv, PlaysInv, TracksSwitchedInv DEF External
  <2>. QED
    BY <1>2, <2>1, <2>2, CallInv, StopReturnsInv, MainTaskInv, MediaTaskInv DEF Next
<1>. QED
  BY <1>1, <1>2

LEMMA Inductive == Spec => []IInv
  BY InitInv, NextInv, PTL DEF Spec

(* Members, queues and bounds keep their types, for every media.            *)
THEOREM TypeCorrect == Spec => []TypeOK
<1>1. IInv => TypeOK
  <2>. SUFFICES ASSUME Typed PROVE TypeOK
    BY DEF IInv
  <2>1. Entry \subseteq [task : MediaTasks, arg : Times \cup {0, 1}]
    BY DEF Entry, MediaTasks
  <2>2. mediaQ \in Seq([task : MediaTasks, arg : Times \cup {0, 1}])
    <3>. DEFINE S == [task : MediaTasks, arg : Times \cup {0, 1}]
    <3>1. Entry \subseteq S /\ mediaQ \in Seq(Entry)
      BY <2>1 DEF Typed
    <3>. HIDE DEF S
    <3>2. mediaQ \in Seq(S)
      BY <3>1
    <3>. QED
      BY <3>2 DEF S
  <2>. QED
    BY <2>2 DEF Typed, TypeOK
<1>. QED
  BY <1>1, Inductive, PTL

(* What the client awaits of Start(), Seek(), Suspend() or Resume() is on    *)
(* its way to the media thread, in work there, or answered by a task that    *)
(* the main thread will run.                                                *)
THEOREM NoOperationIsLost == Spec => []NoLostOperation
<1>1. IInv => NoLostOperation
  <2>. SUFFICES ASSUME IInv, MainFree, main.seek_cb # "none" \/ main.suspend_cb
                PROVE  OnItsWay
    BY DEF NoLostOperation
  <2>1. Working /\ ~Resting
    BY DEF IInv, Sessions, Working, Resting, MainFree
  <2>2. \/ Has(Tasks, Tokens) \/ media.series.running # "none"
        \/ Has(mainQ, Dones \cup {"OnError"})
    BY <2>1 DEF IInv, Answers
  <2>3. Has(Tasks, Tokens) => InMediaQ(Ops) \/ InMediaQ(Nexts)
    BY TaskNames, Kinds DEF Tokens, IInv, Typed
  <2>4. Dones \cup {"OnError"} =
          {"OnError", "OnSeekDone", "OnSeekDoneSuspended", "OnSuspendDone"}
    BY DEF Dones, EndSuspended
  <2>5. Has(mainQ, Dones \cup {"OnError"}) => InQ(mainQ, Dones \cup {"OnError"})
    BY DEF Has, InQ, IInv, Typed
  <2>. QED
    BY <2>2, <2>3, <2>4, <2>5 DEF OnItsWay, Ops, Nexts
<1>. QED
  BY <1>1, Inductive, PTL

(* Nor is the completion of a track change, whatever becomes of the renderer *)
(* that was to tell it.                                                     *)
THEOREM NoTrackChangeIsLost == Spec => []TrackChangeNotLost
<1>1. IInv => TrackChangeNotLost
  <2>. SUFFICES ASSUME IInv, MainFree, main.switching
                PROVE  media.track \/ InMediaQ({"TrackChange"}) \/ InQ(mainQ, {"TrackChanged"})
    BY DEF TrackChangeNotLost
  <2>1. Working
    BY DEF IInv, Sessions, Working, MainFree
  <2>2. media.track \/ Has(Tasks, {"TrackChange"}) \/ Has(mainQ, {"TrackChanged"})
    BY <2>1 DEF IInv, Answers
  <2>3. Has(mainQ, {"TrackChanged"}) => InQ(mainQ, {"TrackChanged"})
    BY DEF Has, InQ, IInv, Typed
  <2>. QED
    BY <2>2, <2>3, TaskNames DEF IInv, Typed
<1>. QED
  BY <1>1, Inductive, PTL

(* The DCHECKs of RendererWrapper::Start(), Seek(), Suspend(), Resume() and  *)
(* Stop() on state_ hold whenever their task is run.                        *)
THEOREM CallsAreExpected == Spec => []CallsFindTheirState
<1>1. IInv => CallsFindTheirState
  <2>. DEFINE t == Head(mediaQ).task
  <2>. SUFFICES ASSUME IInv, mediaQ # << >>
                PROVE  /\ t \in {"Start", "StartSuspendable"} =>
                            /\ media.state \in {"kCreated", "kStopped"}
                            /\ ~media.demuxer /\ media.renderer = "none"
                       /\ t \in {"Seek", "Suspend"} => media.state = "kPlaying"
                       /\ t = "Resume" => media.state = "kSuspended"
                       /\ t \in Ops => media.series = NoSeries
                       /\ t = "Stop" => media.state \notin {"kStopping", "kStopped"}
    BY DEF CallsFindTheirState, Ops
  <2>1. /\ 1 \in DOMAIN Tasks /\ Tasks[1] = t /\ DOMAIN Tasks = 1 .. Len(mediaQ)
        /\ Len(mediaQ) \in Nat
    BY DEF IInv, Typed, Tasks
  <2>2. \A T : t \in T => Has(Tasks, T)
    BY <2>1 DEF Has
  <2>3. t \in Ops => media.series = NoSeries
    BY AtWork DEF Tokens
  <2>4. ASSUME t = "Stop" PROVE media.state \notin {"kStopping", "kStopped"}
    <3>1. Has(Tasks, {"Stop"}) /\ Has(Tasks, {"Stop", "StopCb"})
      BY <2>2, <2>4
    <3>2. main.client /\ StopUnderWay
      BY <3>1 DEF IInv, Sessions, StopDone
    <3>3. ~Has(Tasks, Ops)
      BY <2>1, <2>4, <3>2 DEF StopUnderWay, Has, Before
    <3>4. \A T : T \subseteq Ops => ~Has(Tasks, T)
      BY <3>3, Kinds
    <3>5. ~Has(Tasks, {"Start", "StartSuspendable"})
      BY <3>4 DEF Ops
    <3>6. media.linked
      BY <3>2, <3>5 DEF IInv, Sessions
    <3>. QED
      BY <3>1, <3>6 DEF IInv, Sessions, StopDone, MediaFits, Idle
  <2>. HIDE DEF t
  <2>. QED
    BY <2>2, <2>3, <2>4 DEF IInv, OneOperation, MediaFits, Idle
<1>. QED
  BY <1>1, Inductive, PTL

(* Once PipelineImpl::Stop() has returned, no member and no task of the      *)
(* media thread refers to the demuxer, the renderer or a series.            *)
THEOREM StopEndsAll == Spec => []StopIsBarrier
<1>1. IInv => StopIsBarrier
  <2>. SUFFICES ASSUME IInv, ~main.client
                PROVE  /\ ~media.demuxer /\ media.renderer = "none" /\ media.series = NoSeries
                       /\ ~InMediaQ(MediaTasks \ {"SetPlaybackRate", "TrackChange"})
    BY DEF StopIsBarrier
  <2>1. Idle /\ ~Has(Tasks, MediaTasks \ {"SetPlaybackRate"})
    BY DEF IInv, Sessions
  <2>2. MediaTasks \ {"SetPlaybackRate", "TrackChange"} \subseteq MediaTasks \ {"SetPlaybackRate"}
    OBVIOUS
  <2>3. ~Has(Tasks, MediaTasks \ {"SetPlaybackRate", "TrackChange"})
    BY <2>1, <2>2, Kinds
  <2>. QED
    BY <2>1, <2>3, TaskNames DEF IInv, Typed, MediaFits, Busy
<1>. QED
  BY <1>1, Inductive, PTL

(**************************************************************************)
(*                   The contract, and the media time                       *)
LEMMA SamePhase ==
  ASSUME main'.client = main.client, main'.failed = main.failed,
         main'.seek_cb = main.seek_cb, main'.suspend_cb = main.suspend_cb,
         main'.is_suspended = main.is_suspended
  PROVE  Phase' = Phase
  BY DEF Phase

(* A call of the client, as the contract has it.                            *)
LEMMA CallKeepsContract ==
  ASSUME IInv, Call PROVE Contract!Next \/ Phase' = Phase
<1>. USE DEF Contract!Next, Contract!Call, Contract!Calls
<1>1. main \in MainMembers /\ (~main.client => ~main.failed /\ Resting)
  BY DEF IInv, Typed, Sessions
<1>2. CASE \E type \in StartTypes : Start(type)
  <2>1. Phase = "stopped" /\ Phase' \in {"starting", "starting_suspendable"}
    BY <1>1, <1>2 DEF Start, Phase, MainMembers
  <2>. QED
    BY <2>1
<1>3. CASE \E time \in Times : Seek(time)
  <2>1. Phase = "playing" /\ Phase' = "seeking"
    BY <1>1, <1>3 DEF Seek, MayCall, MainFree, Phase, MainMembers
  <2>. QED
    BY <2>1
<1>4. CASE \E time \in Times : Resume(time)
  <2>1. Phase = "suspended" /\ Phase' = "resuming"
    BY <1>1, <1>4 DEF Resume, MayCall, MainFree, Phase, MainMembers
  <2>. QED
    BY <2>1
<1>5. CASE Suspend
  <2>1. Phase = "playing" /\ Phase' = "suspending"
    BY <1>1, <1>5 DEF Suspend, MayCall, MainFree, Phase, MainMembers
  <2>. QED
    BY <2>1
<1>6. CASE (\E rate \in {0, 1} : SetPlaybackRate(rate)) \/ ChangeTracks \/ GetMediaTime \/ Stop
  <2>1. /\ main'.client = main.client /\ main'.failed = main.failed
        /\ main'.seek_cb = main.seek_cb /\ main'.suspend_cb = main.suspend_cb
        /\ main'.is_suspended = main.is_suspended
    BY <1>1, <1>6 DEF SetPlaybackRate, ChangeTracks, GetMediaTime, Stop, MainMembers
  <2>. QED
    BY <2>1, SamePhase
<1>. QED
  BY <1>2, <1>3, <1>4, <1>5, <1>6 DEF Call

(* A callback to the client.                                                *)
LEMMA MainTaskKeepsContract ==
  ASSUME IInv, setup' = setup, MainTask PROVE Contract!Next \/ Phase' = Phase
<1>. USE DEF Contract!Next, Contract!Complete, Contract!Completions, Contract!Error
<1>1. main \in MainMembers /\ mainQ' = Tail(mainQ) /\ UNCHANGED <<media, mediaQ, spent>>
  BY DEF IInv, Typed, MainTask
<1>2. CASE OnError
  <2>1. main.client /\ ~main.failed /\ ~(Resting /\ main.is_suspended)
    BY <1>1, <1>2, OnErrorInv
  <2>2. Phase \in {"starting", "starting_suspendable", "seeking", "resuming",
                   "suspending", "playing"}
    BY <1>1, <2>1 DEF Phase, Resting, MainMembers
  <2>3. Phase' = "failed"
    BY <1>1, <1>2, <2>1 DEF OnError, Phase, MainMembers
  <2>. QED
    BY <2>2, <2>3
<1>3. ASSUME NEW b \in BOOLEAN, OnSeekDone(b) PROVE Contract!Next
  <2>1. /\ main.client /\ ~main.failed /\ main.seek_cb # "none"
        /\ b => main.seek_cb = "starting_suspendable"
    BY <1>1, <1>3, OnSeekDoneInv
  <2>2. ~main.suspend_cb
    BY <1>1, <1>3, <2>1 DEF IInv, Awaited, Working, OnSeekDone, NextMainTask, MainFree
  <2>3. Phase = main.seek_cb /\ Phase' = IF b THEN "suspended" ELSE "playing"
    BY <1>1, <1>3, <2>1, <2>2 DEF OnSeekDone, Phase, MainMembers
  <2>4. Phase \in {"starting", "starting_suspendable", "seeking", "resuming"}
    BY <1>1, <2>1, <2>3 DEF MainMembers
  <2>. QED
    BY <2>1, <2>3, <2>4
<1>4. CASE OnSuspendDone
  <2>1. main.client /\ ~main.failed /\ main.seek_cb = "none" /\ main.suspend_cb
    BY <1>1, <1>4, OnSuspendDoneInv
  <2>2. Phase = "suspending" /\ Phase' = "suspended"
    BY <1>1, <1>4, <2>1 DEF OnSuspendDone, Phase, MainMembers
  <2>. QED
    BY <2>2
<1>5. CASE Notify \/ TrackChanged
  <2>1. /\ main'.client = main.client /\ main'.failed = main.failed
        /\ main'.seek_cb = main.seek_cb /\ main'.suspend_cb = main.suspend_cb
        /\ main'.is_suspended = main.is_suspended
    BY <1>1, <1>5 DEF Notify, TrackChanged, MainMembers
  <2>. QED
    BY <2>1, SamePhase
<1>. QED
  BY <1>2, <1>3, <1>4, <1>5 DEF MainTask

(* PipelineImpl implements Pipeline: what the client sees of the two threads *)
(* is one operation at a time, each answered once, and after an error        *)
(* nothing but Stop().                                                      *)
THEOREM ImplementsPipeline == Spec => ContractKept
<1>1. Init => Contract!Init
  <2>. SUFFICES ASSUME Init PROVE Phase = "stopped"
    BY DEF Contract!Init
  <2>. QED
    BY DEF Init, Phase
<1>2. IInv /\ [Next]_<<vars, setup>> => [Contract!Next]_Phase
  <2>. SUFFICES ASSUME IInv, [Next]_<<vars, setup>> PROVE Contract!Next \/ Phase' = Phase
    OBVIOUS
  <2>1. CASE UNCHANGED <<vars, setup>>
    BY <2>1, SamePhase DEF vars
  <2>2. CASE Next /\ Call
    BY <2>2, CallKeepsContract
  <2>3. CASE Next /\ MainTask
    BY <2>3, MainTaskKeepsContract DEF Next
  <2>4. CASE StopReturns
    <3>1. main.client /\ main \in MainMembers
      BY <2>4 DEF StopReturns, IInv, Typed, Sessions
    <3>2. Phase # "stopped" /\ Phase' = "stopped"
      BY <2>4, <3>1 DEF StopReturns, Phase, MainMembers
    <3>. QED
      BY <3>2 DEF Contract!Next, Contract!Stop
  <2>5. CASE MediaTask \/ External
    <3>1. main' = main
      BY <2>5 DEF MediaTask, External, Completes, Breaks, OnEnded, Play, TracksSwitched
    <3>. QED
      BY <3>1, SamePhase
  <2>. QED
    BY <2>1, <2>2, <2>3, <2>4, <2>5 DEF Next
<1>. QED
  BY <1>1, <1>2, Inductive, PTL DEF Spec, ContractKept, Contract!Spec

(* GetMediaTime() never goes back but where the client has moved it: neither *)
(* what an AudioClock takes back, nor the times that Suspend() and the end   *)
(* of a seek put in its place, are seen.                                    *)
THEOREM TimeGoesForward == Spec => MediaTimeGoesForward
<1>. DEFINE Forward == main.client /\ main'.client /\ main'.shown < main.shown =>
                         main'.seek_cb # main.seek_cb /\ main'.seek_cb # "none"
<1>1. IInv /\ [Next]_<<vars, setup>> => [Forward]_vars
  <2>. SUFFICES ASSUME IInv, Next PROVE Forward
    BY DEF vars
  <2>1. main \in MainMembers /\ setup' = setup /\ main.shown \in Nat
    BY Bounds DEF IInv, Typed, MainMembers, Next
  <2>2. CASE main'.shown = main.shown
    BY <2>1, <2>2
  <2>3. CASE \E type \in StartTypes : Start(type)
    BY <2>1, <2>3, PhaseTells DEF Start, IInv
  <2>4. CASE \E time \in Times : Seek(time) \/ Resume(time)
    <3>1. main.seek_cb = "none"
      BY <2>4, PhaseTells DEF Seek, Resume, MayCall, IInv, Resting
    <3>2. main'.seek_cb \in {"seeking", "resuming"}
      BY <2>1, <2>4 DEF Seek, Resume, MainMembers
    <3>. QED
      BY <3>1, <3>2
  <2>5. CASE GetMediaTime
    <3>1. main.client => main.shown <= main'.shown
      BY <2>1, <2>5, GetMediaTimeInv
    <3>2. main'.shown \in Nat
      <4>1. IInv' /\ Typed'
        BY <2>1, <2>5, GetMediaTimeInv DEF IInv
      <4>2. main' \in MainMembers /\ Times \subseteq Nat
        BY <2>1, <4>1, Constants DEF IInv, Typed
      <4>. QED
        BY <4>2 DEF MainMembers
    <3>. QED
      BY <2>1, <3>1, <3>2
  <2>6. CASE Suspend \/ (\E rate \in {0, 1} : SetPlaybackRate(rate)) \/ ChangeTracks
             \/ Stop \/ StopReturns
    <3>1. main'.shown = main.shown
      BY <2>1, <2>6
         DEF Suspend, SetPlaybackRate, ChangeTracks, Stop, StopReturns, MainMembers
    <3>. QED
      BY <2>1, <3>1
  <2>7. CASE MainTask
    <3>1. main'.shown = main.shown
      BY <2>1, <2>7
         DEF MainTask, OnError, OnSeekDone, OnSuspendDone, Notify, TrackChanged, MainMembers
    <3>. QED
      BY <2>1, <3>1
  <2>8. CASE MediaTask \/ External
    <3>1. main' = main
      BY <2>8 DEF MediaTask, External, Completes, Breaks, OnEnded, Play, TracksSwitched
    <3>. QED
      BY <2>1, <3>1
  <2>. QED
    BY <2>3, <2>4, <2>5, <2>6, <2>7, <2>8 DEF Next, Call
<1>. QED
  BY <1>1, Inductive, PTL DEF Spec, MediaTimeGoesForward
=============================================================================
