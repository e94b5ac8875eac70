-------------------------- MODULE RendererImplProofs --------------------------
(***************************************************************************)
(* For every media, any number of calls and errors and queues of any length: *)
(* the renderer knows the buffering states of its children, runs the clock   *)
(* only while the audio renderer plays, keeps the video moving with it, and  *)
(* reports the end when it is one.                                          *)
(***************************************************************************)
EXTENDS RendererImpl, TaskQueues

USE RendererAssumption

(* What a handler finds and leaves.  A renderer that has received the end of *)
(* its stream has enough, and does not end before.                          *)
Filled == {c \in Child : /\ c.eos => c.buffering_state = "HAVE_ENOUGH"
                         /\ c.ended => c.eos}
State == [ r : Members, child : [Types -> Filled], tasks : Seq(Tasks), client : Client ]

(* The tasks of a renderer that matter here: its reports, its end, and what  *)
(* ends a flush or an initialization.                                       *)
Report(t, b) == Task("BufferingStateChange", t, b)
Reports(t) == {Report(t, b) : b \in Buffering}
Ended(t) == {Task("Ended", t, "none")}
Flushed(t) == {Task("Flushed", t, "none")}
Inits(t) == {Task("InitializeDone", t, status) : status \in {"ok", "error"}}
Reinits(t) == {Task("Reinitialized", t, status) : status \in {"ok", "error"}}
Ends(t) == Flushed(t) \cup Inits(t) \cup Reinits(t)
ClientFlushed == {Task("ClientFlushed", "video", "none")}

At(w, t, states) == w.child[t].state \in states

Flushing(w, t) == At(w, t, {"kFlushing"}) \/ Has(w.tasks, Flushed(t))
Initializing(w, t) ==
  \/ At(w, t, {"kInitializing"}) /\ w.child[t].then = "InitializeDone"
  \/ Has(w.tasks, Inits(t))
Reinitializing(w, t) ==
  \/ At(w, t, {"kInitializing"}) /\ w.child[t].then # "InitializeDone"
  \/ Has(w.tasks, Reinits(t))
Free(w, t) == ~At(w, t, {"kFlushing", "kInitializing"}) /\ ~Has(w.tasks, Ends(t))

PlaysOn(w, t) == At(w, t, {"kPlaying"}) /\ w.r.playing[t] /\ Free(w, t)

(* The clock ticks only while the audio renderer plays and nothing is under  *)
(* way that would stop it.                                                  *)
ClockFits(w) ==
  w.r.time_ticking =>
    /\ w.r.state \in {"PLAYING", "ERROR"}
    /\ w.r.has["audio"] => PlaysOn(w, "audio")

(* Each renderer does one thing at a time, and its tasks come in order.     *)
TurnOf(w, t) ==
  /\ Single(w.tasks, Ends(t))
  /\ At(w, t, {"kFlushing", "kInitializing", "kPlaying"}) => ~Has(w.tasks, Ends(t))
  /\ Has(w.tasks, Flushed(t)) =>
       /\ At(w, t, {"kFlushed"})
       /\ w.child[t].buffering_state = "HAVE_NOTHING" /\ ~w.child[t].ended
  /\ Before(w.tasks, Ended(t), Flushed(t))

InTurn(w) ==
  /\ \A t \in Types : TurnOf(w, t)
  /\ Single(w.tasks, ClientFlushed)
  /\ Has(w.tasks, ClientFlushed) => w.r.state = "FLUSHED" /\ w.client.op = "flushing"

(* Nothing of what it has played is left.                                   *)
Quiet(w, t) ==
  /\ w.child[t].buffering_state = "HAVE_NOTHING" /\ ~w.child[t].ended
  /\ ~w.r.ended[t] /\ ~Has(w.tasks, Ended(t))

Unused(w, t) ==
  /\ Quiet(w, t) /\ ~Has(w.tasks, Reports(t))
  /\ At(w, t, {"none", "kUninitialized", "kInitializing", "kFlushed"})
  /\ ~Has(w.tasks, Flushed(t)) /\ ~Reinitializing(w, t)
  /\ w.r.buffering_state[t] = "HAVE_NOTHING" /\ ~w.r.pending_track_change[t]
  /\ t \in setup.streams => w.r.has[t]

Begins(w) ==
  /\ \A t \in Types : w.r.has[t] /\ Unused(w, t) /\ At(w, t, {"kUninitialized"})
  /\ w.tasks = << >> /\ w.r.deferred = "cancelled"
  /\ w.client.op = IF w.r.state = "UNINITIALIZED" THEN "created" ELSE "initializing"

(* First the audio renderer is initialized, then the video renderer.        *)
Prepares(w, t) ==
  /\ Unused(w, t)
  /\ w.r.has[t] \/ At(w, t, {"none"})
  /\ Has(w.tasks, {Task("InitializeDone", t, "ok")}) /\ w.r.has[t]
       => At(w, t, {"kFlushed"})

Initializes(w) ==
  /\ \A t \in Types : Prepares(w, t)
  /\ Initializing(w, "audio") => ~Initializing(w, "video")
  /\ Initializing(w, "video") /\ w.r.has["audio"] => At(w, "audio", {"kFlushed"})
  /\ w.r.deferred = "cancelled"
  /\ w.client.op \in {"initializing", "failed"}

(* The last report of a renderer on its way, or the one handled last, is of  *)
(* its state: unless the underflow of the video is deferred, or the end of a *)
(* deferral has come late, in a flush.                                      *)
Known(w, t) ==
  IF Has(w.tasks, Reports(t))
  THEN LastOf(w.tasks, Reports(t), Report(t, w.child[t].buffering_state))
  ELSE \/ w.r.buffering_state[t] = w.child[t].buffering_state
       \/ t = "video" /\ IF w.child[t].buffering_state = "HAVE_NOTHING"
                         THEN w.r.deferred = "waiting" ELSE w.r.state = "FLUSHING"

Serves(w, t) ==
  /\ ~Initializing(w, t)
  /\ t \in setup.streams => w.r.has[t]
  /\ Flushing(w, t) \/ Reinitializing(w, t) => w.r.has[t]
  /\ w.r.has[t] \/ (At(w, t, {"none"}) /\ ~Has(w.tasks, Ended(t)))
  /\ w.r.has[t] => Known(w, t)

Initialized(w) ==
  /\ \A t \in Types : Serves(w, t)
  /\ w.r.deferred # "cancelled" => w.r.has["audio"]

Resting(w, t) == At(w, t, {"kFlushed"}) /\ Free(w, t) /\ Quiet(w, t)

Rests(w) ==
  /\ Initialized(w)
  /\ \A t \in Types : /\ w.r.has[t] => Resting(w, t)
                      /\ ~w.r.pending_track_change[t]
  /\ w.client.op \in {"flushed", "flushing"}

(* The end of a renderer that is reported or known has been rendered, or its *)
(* track is being changed.                                                  *)
EndFits(w, t) ==
  /\ Has(w.tasks, Ended(t)) => w.child[t].ended \/ w.r.pending_track_change[t]
  /\ w.r.ended[t] => w.child[t].ended \/ w.r.pending_track_change[t] \/ PlaybackHasEnded(w)
  /\ Reinitializing(w, t) =>
       ~Has(w.tasks, Ended(t)) /\ (w.r.ended[t] => PlaybackHasEnded(w))

Goes(w, t) ==
  /\ w.r.pending_track_change[t] \/ PlaysOn(w, t)
  /\ Flushing(w, t) => w.child[t].then \in {"Restart", "Reinitialize"}
  /\ EndFits(w, t)

(* Of the video: what of an underflow that has been deferred.               *)
DeferralFits(w) ==
  w.r.deferred # "cancelled" /\ w.r.has["video"] /\ ~Has(w.tasks, Reports("video"))
    => w.child["video"].buffering_state = "HAVE_NOTHING"

TimeFits(w) ==
  setup.changing \subseteq {"audio"} /\ w.r.time_ticking =>
    \A t \in Types : w.r.has[t] => w.r.buffering_state[t] = "HAVE_ENOUGH"

(* A renderer plays, or its track is being changed, one at a time.          *)
OneChange(w) ==
  /\ \A t \in Types : w.r.pending_track_change[t] =>
       /\ w.client.op = "changing" /\ t \in setup.changing
       /\ \A u \in Types \ {t} : ~w.r.pending_track_change[u]
  /\ w.client.op \in {"started", "changing"}
  /\ w.r.pending_track_change["audio"] => ~w.r.time_ticking

Plays(w) ==
  /\ Initialized(w)
  /\ \A t \in Types : w.r.has[t] => Goes(w, t)
  /\ OneChange(w) /\ DeferralFits(w) /\ TimeFits(w)

(* First the audio renderer is flushed, then the video renderer.            *)
Flushes(w) ==
  /\ Initialized(w)
  /\ \A t \in Types :
       /\ ~w.r.pending_track_change[t] /\ ~Reinitializing(w, t)
       /\ Flushing(w, t) => w.child[t].then = "FlushDone"
  /\ w.r.has["video"] => w.r.playing["video"]
  /\ \/ Flushing(w, "audio") /\ (w.r.has["video"] => PlaysOn(w, "video"))
     \/ /\ Flushing(w, "video") /\ w.child["video"].buffering_state = "HAVE_NOTHING"
        /\ ~w.child["video"].ended
        /\ w.r.has["audio"] => Resting(w, "audio")
  /\ w.client.op = "flushing"

Fits(w) ==
  /\ ClockFits(w)
  /\ w.r.state # "destroyed"
  /\ w.r.state = "ERROR" => w.client.error
  /\ w.r.state # "ERROR" => InTurn(w)
  /\ w.r.state \in {"UNINITIALIZED", "INIT_PENDING_CDM"} => Begins(w)
  /\ w.r.state = "INITIALIZING" => Initializes(w)
  /\ w.r.state = "FLUSHED" => Rests(w)
  /\ w.r.state = "PLAYING" => Plays(w)
  /\ w.r.state = "FLUSHING" => Flushes(w)

Bounded == spent \in [calls : 0 .. setup.calls, errors : 0 .. setup.errors]

Lives == setup \in Setups /\ Now \in State /\ Bounded /\ Fits(Now)

(* It has been destroyed: nothing happens any more.                         *)
Gone ==
  /\ setup \in Setups /\ Now \in State /\ Bounded
  /\ \A t \in Types : ~r.has[t] /\ child[t] = [NewChild EXCEPT !.state = "none"]
  /\ r.state = "destroyed" /\ ~r.time_ticking /\ r.deferred = "cancelled"
  /\ tasks = << >> /\ client.op = "gone"

IInv == Lives \/ Gone

(**************************************************************************)
(*                  What the operators do, field by field                   *)
(**************************************************************************)

(* v is w but for the clock, and what of the video renderer does not matter. *)
Alike(c, d) ==
  /\ c.state = d.state /\ c.then = d.then
  /\ c.buffering_state = d.buffering_state /\ c.ended = d.ended

LikeChildren(v, w) == \A t \in Types : Alike(v.child[t], w.child[t])

LEMMA StateOf ==
  ASSUME NEW s \in State
  PROVE  /\ s.r \in Members /\ s.child \in [Types -> Filled]
         /\ s.tasks \in Seq(Tasks) /\ s.client \in Client
         /\ s = [r |-> s.r, child |-> s.child, tasks |-> s.tasks, client |-> s.client]
         /\ \A t \in Types : s.child[t] \in Filled /\ s.child[t] \in Child
         /\ s.child["audio"] \in Filled /\ s.child["video"] \in Filled
         /\ s.child["audio"] \in Child /\ s.child["video"] \in Child
  BY DEF State, Types, Filled

LEMMA TimeProgressing ==
  ASSUME NEW s \in State
  PROVE  LET v == OnTimeProgressing(s)
         IN  /\ v \in State /\ LikeChildren(v, s)
             /\ v.r = s.r /\ v.tasks = s.tasks /\ v.client = s.client
<1>. DEFINE c == [s.child["video"] EXCEPT !.progressing = TRUE,
                    !.sink = @ \/ (~s.child["video"].ended /\ s.child["video"].frames)]
<1>1. OnTimeProgressing(s) = [s EXCEPT !.child = [s.child EXCEPT !["video"] = c]]
  BY DEF OnTimeProgressing, State, Types, Filled, Child
<1>2. c \in Filled /\ Alike(c, s.child["video"])
  <2>1. s.child["video"] \in Filled
    BY StateOf
  <2>. DEFINE sink == s.child["video"].sink
                      \/ (~s.child["video"].ended /\ s.child["video"].frames)
  <2>2. sink \in BOOLEAN
    BY <2>1 DEF Filled, Child
  <2>3. c = [s.child["video"] EXCEPT !.progressing = TRUE, !.sink = sink]
    OBVIOUS
  <2>. HIDE DEF c, sink
  <2>. QED
    BY <2>1, <2>2, <2>3 DEF Filled, Child, Alike
<1>. HIDE DEF c
<1>. QED
  BY <1>1, <1>2 DEF State, LikeChildren, Alike, Types

LEMMA TimeStopped ==
  ASSUME NEW s \in State
  PROVE  LET v == OnTimeStopped(s)
         IN  /\ v \in State /\ LikeChildren(v, s)
             /\ v.r = s.r /\ v.tasks = s.tasks /\ v.client = s.client
<1>. DEFINE f == /\ s.child["video"].frames
                 /\ ~(/\ s.child["video"].sink
                      /\ s.child["video"].buffering_state = "HAVE_NOTHING")
            c == [s.child["video"] EXCEPT !.progressing = FALSE, !.sink = FALSE,
                                          !.frames = f]
<1>1. OnTimeStopped(s) = [s EXCEPT !.child = [s.child EXCEPT !["video"] = c]]
  BY DEF OnTimeStopped, State, Types, Filled, Child
<1>2. f \in BOOLEAN
  OBVIOUS
<1>. HIDE DEF f
<1>3. c \in Filled /\ Alike(c, s.child["video"])
  <2>1. s.child["video"] \in Filled
    BY StateOf
  <2>. QED
    BY <1>2, <2>1 DEF Filled, Child, Alike
<1>. HIDE DEF c
<1>. QED
  BY <1>1, <1>3 DEF State, LikeChildren, Alike, Types

LEMMA Paused ==
  ASSUME NEW s \in State
  PROVE  LET v == PausePlayback(s)
         IN  /\ v \in State /\ LikeChildren(v, s)
             /\ v.r = [s.r EXCEPT !.time_ticking = FALSE]
             /\ v.tasks = s.tasks /\ v.client = s.client
<1>. DEFINE w == [s EXCEPT !.r = [s.r EXCEPT !.time_ticking = FALSE]]
<1>1. PausePlayback(s) = w \/ PausePlayback(s) = OnTimeStopped(w)
  BY DEF PausePlayback
<1>2. [s.r EXCEPT !.time_ticking = FALSE] \in Members
  BY StateOf DEF Members
<1>3. /\ w \in State /\ LikeChildren(w, s)
      /\ w.r = [s.r EXCEPT !.time_ticking = FALSE]
      /\ w.tasks = s.tasks /\ w.client = s.client
  BY <1>2 DEF State, LikeChildren, Alike
<1>. HIDE DEF w
<1>. QED
  BY <1>1, <1>3, TimeStopped DEF LikeChildren, Alike

(* StartPlayback() makes the clock tick, and playing_ true of what it starts *)
(* (of the audio whether or not there is any).                              *)
LikeMembers(m, n) ==
  /\ m.state = n.state /\ m.init_cb = n.init_cb /\ m.flush_cb = n.flush_cb
  /\ m.cdm_context = n.cdm_context /\ m.has = n.has
  /\ m.buffering_state = n.buffering_state /\ m.ended = n.ended
  /\ m.pending_track_change = n.pending_track_change
  /\ m.playback_rate = n.playback_rate /\ m.deferred = n.deferred

LEMMA Started ==
  ASSUME NEW s \in State
  PROVE  LET v == StartPlayback(s)
         IN  /\ v \in State /\ LikeChildren(v, s) /\ LikeMembers(v.r, s.r)
             /\ v.r.time_ticking /\ \A t \in Types : s.r.playing[t] => v.r.playing[t]
             /\ v.tasks = s.tasks /\ v.client = s.client
<1>. DEFINE After(v) == /\ v \in State /\ LikeChildren(v, s) /\ LikeMembers(v.r, s.r)
                        /\ v.r.time_ticking
                        /\ \A t \in Types : s.r.playing[t] => v.r.playing[t]
                        /\ v.tasks = s.tasks /\ v.client = s.client
            w == IF s.r.time_ticking THEN s
                 ELSE [s EXCEPT !.r.time_ticking = TRUE, !.r.playing["audio"] = TRUE]
            x == [w EXCEPT !.r.playing["video"] = TRUE]
<1>1. After(w)
  <2>1. CASE s.r.time_ticking
    BY <2>1 DEF LikeChildren, Alike, LikeMembers
  <2>2. CASE ~s.r.time_ticking
    <3>. DEFINE p == [s.r.playing EXCEPT !["audio"] = TRUE]
                m == [s.r EXCEPT !.time_ticking = TRUE, !.playing = p]
    <3>1. w = [s EXCEPT !.r = m]
      BY <2>2, StateOf DEF Members
    <3>2. p \in [Types -> BOOLEAN] /\ \A t \in Types : s.r.playing[t] => p[t]
      BY StateOf DEF Members, Types
    <3>. HIDE DEF p
    <3>3. m \in Members /\ LikeMembers(m, s.r) /\ m.time_ticking /\ m.playing = p
      BY <3>2, StateOf, ZenonT(60) DEF Members, LikeMembers
    <3>. HIDE DEF m, w
    <3>. QED
      BY <3>1, <3>2, <3>3 DEF State, LikeChildren, Alike
  <2>. QED
    BY <2>1, <2>2
<1>. HIDE DEF w
<1>2. After(x)
  <2>. DEFINE p == [w.r.playing EXCEPT !["video"] = TRUE]
              m == [w.r EXCEPT !.playing = p]
  <2>1. x = [w EXCEPT !.r = m]
    BY <1>1, StateOf DEF Members
  <2>2. p \in [Types -> BOOLEAN] /\ \A t \in Types : w.r.playing[t] => p[t]
    BY <1>1, StateOf DEF Members, Types
  <2>. HIDE DEF p
  <2>3. m \in Members /\ LikeMembers(m, w.r) /\ m.time_ticking /\ m.playing = p
    BY <1>1, <2>2, StateOf, SMTT(30) DEF Members, LikeMembers
  <2>. HIDE DEF m, x
  <2>. QED
    BY <1>1, <2>1, <2>2, <2>3 DEF State, LikeChildren, Alike, LikeMembers
<1>3. StartPlayback(s) = w \/ StartPlayback(s) = OnTimeProgressing(x)
  BY DEF StartPlayback, w
<1>. HIDE DEF x
<1>. QED
  BY <1>1, <1>2, <1>3, TimeProgressing DEF LikeChildren, Alike, LikeMembers

(* A task is posted, or the first one taken.                                *)
Gains(q, e, p) ==
  /\ p \in Seq(Tasks)
  /\ \A T : Has(p, T) <=> Has(q, T) \/ e \in T
  /\ \A T : Single(q, T) /\ (e \in T => ~Has(q, T)) => Single(p, T)
  /\ \A A, B : Before(q, A, B) /\ (e \in A => ~Has(q, B) /\ e \notin B) => Before(p, A, B)
  /\ \A T : e \in T => LastOf(p, T, e)
  /\ \A T, x : e \notin T => (LastOf(p, T, x) <=> LastOf(q, T, x))

LEMMA Posted ==
  ASSUME NEW s \in State, NEW e \in Tasks
  PROVE  LET v == Post(s, e)
         IN  /\ v \in State /\ v.r = s.r /\ v.child = s.child /\ v.client = s.client
             /\ Gains(s.tasks, e, v.tasks)
<1>1. s.tasks \in Seq(Tasks) /\ Append(s.tasks, e) \in Seq(Tasks)
  BY StateOf
<1>2. Adds(s.tasks, e, Append(s.tasks, e))
  BY <1>1, AppendAdds
<1>3. Gains(s.tasks, e, Append(s.tasks, e))
  BY <1>1, <1>2, AddTask, AddLast, Zenon DEF Gains
<1>4. Post(s, e) = [s EXCEPT !.tasks = Append(s.tasks, e)]
  BY DEF Post
<1>. QED
  BY <1>1, <1>3, <1>4 DEF State

Loses(q, e, p) ==
  /\ p \in Seq(Tasks) /\ e \in Tasks
  /\ \A T : Has(q, T) <=> Has(p, T) \/ e \in T
  /\ \A T : Single(q, T) => Single(p, T) /\ (e \in T => ~Has(p, T))
  /\ \A A, B : Before(q, A, B) => Before(p, A, B) /\ (e \in B => ~Has(q, A))
  /\ \A T, x : LastOf(q, T, x) => IF Has(p, T) THEN LastOf(p, T, x) ELSE e = x

LEMMA Taken ==
  ASSUME NEW q \in Seq(Tasks), q # << >> PROVE Loses(q, Head(q), Tail(q))
<1>1. Tail(q) \in Seq(Tasks) /\ Head(q) \in Tasks
  OBVIOUS
<1>2. Takes(q, Head(q), Tail(q))
  BY TailTakes
<1>. QED
  BY <1>1, <1>2, TakeTask, TakeLast, ZenonT(60) DEF Loses

(* The tasks of the two renderers are not one another's.                    *)
LEMMA TaskKinds ==
  /\ \A t \in Types :
       /\ Ends(t) \subseteq Tasks /\ Reports(t) \subseteq Tasks
       /\ Ended(t) \subseteq Tasks
       /\ \A e \in Reports(t) \cup Ended(t) \cup ClientFlushed : e \notin Ends(t)
       /\ \A e \in Reports(t) \cup Ends(t) \cup ClientFlushed : e \notin Ended(t)
       /\ \A e \in Ended(t) \cup Ends(t) \cup ClientFlushed : e \notin Reports(t)
       /\ Ends(t) \cap ClientFlushed = {} /\ Ended(t) \cap ClientFlushed = {}
       /\ Reports(t) \cap ClientFlushed = {}
  /\ ClientFlushed \subseteq Tasks
  BY DEF Ends, Flushed, Inits, Reinits, Reports, Report, Ended, ClientFlushed, Task,
         Tasks, Types, Buffering

(* The calls made to a renderer.                                            *)
Others(v, w, t) == \A u \in Types \ {t} : v.child[u] = w.child[u]

(* It is now in this state, and has what it had.                            *)
Moved(c, d, state) ==
  c.state = state /\ c.buffering_state = d.buffering_state /\ c.ended = d.ended

Move(c, state, then) == [c EXCEPT !.state = state, !.then = then]

LEMMA ChildMoves ==
  ASSUME NEW c \in Filled,
         NEW then \in {"InitializeDone", "FlushDone", "Restart", "Reinitialize"},
         NEW state \in {"kInitializing", "kFlushing"}
  PROVE  /\ Move(c, state, then) \in Filled /\ Move(c, state, then).then = then
         /\ Moved(Move(c, state, then), c, state)
  BY DEF Filled, Child, Moved, Move

LEMMA ChildStarted ==
  ASSUME NEW s \in State, NEW t \in Types
  PROVE  LET v == StartChild(s, t)
         IN  /\ v \in State /\ v.r = s.r /\ v.tasks = s.tasks /\ v.client = s.client
             /\ Others(v, s, t) /\ Moved(v.child[t], s.child[t], "kPlaying")
<1>. DEFINE c == [s.child[t] EXCEPT !.state = "kPlaying"]
<1>1. StartChild(s, t) = [s EXCEPT !.child = [s.child EXCEPT ![t] = c]]
  BY DEF StartChild
<1>2. c \in Filled /\ Moved(c, s.child[t], "kPlaying")
  BY StateOf DEF Filled, Child, Moved
<1>. HIDE DEF c
<1>3. StartChild(s, t).child[t] = c
  BY <1>1 DEF State
<1>. QED
  BY <1>1, <1>2, <1>3 DEF State, Others

LEMMA ChildInitializes ==
  ASSUME NEW s \in State, NEW t \in Types, NEW then \in {"InitializeDone", "Reinitialize"}
  PROVE  LET v == InitializeChild(s, t, then)
         IN  /\ v \in State /\ v.r = s.r /\ v.tasks = s.tasks /\ v.client = s.client
             /\ Others(v, s, t) /\ Moved(v.child[t], s.child[t], "kInitializing")
             /\ v.child[t].then = then
<1>. DEFINE c == Move(s.child[t], "kInitializing", then)
<1>1. InitializeChild(s, t, then) = [s EXCEPT !.child = [s.child EXCEPT ![t] = c]]
  BY StateOf DEF InitializeChild, Move
<1>2. c \in Filled /\ Moved(c, s.child[t], "kInitializing") /\ c.then = then
  BY StateOf, ChildMoves
<1>. HIDE DEF c
<1>3. InitializeChild(s, t, then).child[t] = c
  BY <1>1 DEF State
<1>. QED
  BY <1>1, <1>2, <1>3 DEF State, Others

LEMMA AudioFlushes ==
  ASSUME NEW s \in State, NEW then \in {"FlushDone", "Restart", "Reinitialize"}
  PROVE  LET v == FlushChild(s, "audio", then)
         IN  /\ v \in State /\ v.r = s.r /\ v.tasks = s.tasks /\ v.client = s.client
             /\ Others(v, s, "audio")
             /\ Moved(v.child["audio"], s.child["audio"], "kFlushing")
             /\ v.child["audio"].then = then
<1>. DEFINE c == Move(s.child["audio"], "kFlushing", then)
<1>1. FlushChild(s, "audio", then) = [s EXCEPT !.child = [s.child EXCEPT !["audio"] = c]]
  BY DEF FlushChild, Move
<1>2. c \in Filled /\ Moved(c, s.child["audio"], "kFlushing") /\ c.then = then
  BY StateOf, ChildMoves
<1>. HIDE DEF c
<1>3. FlushChild(s, "audio", then).child["audio"] = c
  BY <1>1 DEF State, Types
<1>. QED
  BY <1>1, <1>2, <1>3 DEF State, Others

LEMMA VideoFlushes ==
  ASSUME NEW s \in State, NEW then \in {"FlushDone", "Restart", "Reinitialize"}
  PROVE  LET v == FlushChild(s, "video", then)
             c == v.child["video"]
         IN  /\ v \in State /\ v.r = s.r /\ v.client = s.client /\ Others(v, s, "video")
             /\ c.state = "kFlushing" /\ c.then = then
             /\ c.buffering_state = "HAVE_NOTHING" /\ ~c.ended
             /\ IF s.child["video"].buffering_state = "HAVE_NOTHING" THEN v.tasks = s.tasks
                ELSE Gains(s.tasks, Report("video", "HAVE_NOTHING"), v.tasks)
<1>. DEFINE c == [s.child["video"] EXCEPT !.state = "kFlushing", !.then = then]
            d == [c EXCEPT !.buffering_state = "HAVE_NOTHING", !.eos = FALSE,
                           !.ended = FALSE, !.sink = FALSE, !.frames = FALSE]
            w == [s EXCEPT !.child = [s.child EXCEPT !["video"] = c]]
            x == [w EXCEPT !.child = [w.child EXCEPT !["video"] = d]]
            e == Report("video", "HAVE_NOTHING")
<1>1. c \in Child /\ c.state = "kFlushing" /\ c.then = then
  <2>1. s.child["video"] \in Child
    BY StateOf
  <2>. QED
    BY <2>1 DEF Child
<1>2. FlushChild(s, "video", then) =
        IF s.child["video"].buffering_state = "HAVE_NOTHING" THEN x ELSE Post(x, e)
  <2>1. w.child["video"] = c
    BY StateOf DEF Types
  <2>2. x = [w EXCEPT !.child = [w.child EXCEPT !["video"] =
               [w.child["video"] EXCEPT !.buffering_state = "HAVE_NOTHING", !.eos = FALSE,
                                        !.ended = FALSE, !.sink = FALSE, !.frames = FALSE]]]
    BY <2>1
  <2>. HIDE DEF x
  <2>. QED
    BY <2>2 DEF FlushChild, Report
<1>. HIDE DEF c
<1>3. d \in Filled /\ d.state = "kFlushing" /\ d.then = then
      /\ d.buffering_state = "HAVE_NOTHING" /\ ~d.ended
  BY <1>1 DEF Filled, Child, Buffering
<1>. HIDE DEF d
<1>4. /\ x \in State /\ x.r = s.r /\ x.client = s.client /\ x.tasks = s.tasks
      /\ x.child["video"] = d /\ Others(x, s, "video")
  BY <1>1, <1>3, StateOf DEF State, Types, Others
<1>5. e \in Tasks
  BY TaskKinds DEF Reports, Types, Buffering
<1>. HIDE DEF x, e
<1>6. LET y == Post(x, e)
      IN  /\ y \in State /\ y.r = s.r /\ y.client = s.client /\ y.child = x.child
          /\ Gains(s.tasks, e, y.tasks)
  BY <1>4, <1>5, Posted
<1>. QED
  BY <1>2, <1>3, <1>4, <1>6 DEF Others, e

(**************************************************************************)
(*                     What the invariant does not see                      *)
(**************************************************************************)

(* The tasks of one renderer that count, and all of them.                   *)
Of(t) == {e \in Tasks : e.type = t /\ e.f \in {"BufferingStateChange", "Ended", "Flushed",
                                               "InitializeDone", "Reinitialized"}}
Watched == Of("audio") \cup Of("video") \cup ClientFlushed

(* The queue p is no worse than q, as far as the tasks W go.                *)
SameQueue(p, q, W) ==
  /\ \A T \in SUBSET W : Has(p, T) <=> Has(q, T)
  /\ \A T \in SUBSET W : Single(q, T) => Single(p, T)
  /\ \A A, B \in SUBSET W : Before(q, A, B) => Before(p, A, B)
  /\ \A T \in SUBSET W : \A x : LastOf(q, T, x) => LastOf(p, T, x)

LEMMA QueueKept ==
  ASSUME NEW q, NEW p, NEW e, NEW W, e \notin W, p = q \/ Gains(q, e, p) \/ Loses(q, e, p)
  PROVE  SameQueue(p, q, W)
<1>1. \A T \in SUBSET W : e \notin T
  OBVIOUS
<1>2. CASE p = q
  BY <1>2 DEF SameQueue
<1>3. CASE Gains(q, e, p)
  BY <1>1, <1>3 DEF SameQueue, Gains
<1>4. CASE Loses(q, e, p)
  <2>1. \A T \in SUBSET W : Has(p, T) <=> Has(q, T)
    BY <1>1, <1>4 DEF Loses
  <2>2. ASSUME NEW T \in SUBSET W, NEW x, LastOf(q, T, x) PROVE LastOf(p, T, x)
    <3>1. x \in T /\ Has(q, T)
      BY <2>2 DEF LastOf, Has
    <3>2. Has(p, T) /\ e # x
      BY <1>1, <2>1, <3>1
    <3>. QED
      BY <1>4, <2>2, <3>2 DEF Loses
  <2>3. /\ \A T \in SUBSET W : Single(q, T) => Single(p, T)
        /\ \A A, B \in SUBSET W : Before(q, A, B) => Before(p, A, B)
    BY <1>4 DEF Loses
  <2>. QED
    BY <2>1, <2>2, <2>3 DEF SameQueue
<1>. QED
  BY <1>2, <1>3, <1>4

LEMMA WatchedKinds ==
  /\ \A t \in Types :
       /\ Ends(t) \in SUBSET Of(t) /\ Reports(t) \in SUBSET Of(t)
       /\ Ended(t) \in SUBSET Of(t) /\ Flushed(t) \in SUBSET Of(t)
       /\ Inits(t) \in SUBSET Of(t) /\ Reinits(t) \in SUBSET Of(t)
       /\ {Task("InitializeDone", t, "ok")} \in SUBSET Of(t)
       /\ Of(t) \subseteq Watched
  /\ ClientFlushed \subseteq Watched
  BY TaskKinds DEF Watched, Of, Ends, Flushed, Inits, Reinits, Reports, Report, Ended,
                   ClientFlushed, Task, Types

(* What the invariant says of a renderer and its tasks.                     *)
SameSight(v, w, t) ==
  /\ Flushing(v, t) <=> Flushing(w, t)
  /\ Initializing(v, t) <=> Initializing(w, t)
  /\ Reinitializing(v, t) <=> Reinitializing(w, t)
  /\ Free(v, t) <=> Free(w, t)
  /\ \A S : At(v, t, S) <=> At(w, t, S)
  /\ Has(v.tasks, Ends(t)) <=> Has(w.tasks, Ends(t))
  /\ Has(v.tasks, Reports(t)) <=> Has(w.tasks, Reports(t))
  /\ Has(v.tasks, Ended(t)) <=> Has(w.tasks, Ended(t))
  /\ Has(v.tasks, Flushed(t)) <=> Has(w.tasks, Flushed(t))
  /\ Has(v.tasks, {Task("InitializeDone", t, "ok")})
       <=> Has(w.tasks, {Task("InitializeDone", t, "ok")})
  /\ Single(w.tasks, Ends(t)) => Single(v.tasks, Ends(t))
  /\ Before(w.tasks, Ended(t), Flushed(t)) => Before(v.tasks, Ended(t), Flushed(t))
  /\ \A x : LastOf(w.tasks, Reports(t), x) => LastOf(v.tasks, Reports(t), x)
  /\ v.child[t].then = w.child[t].then /\ v.child[t].ended = w.child[t].ended
  /\ v.child[t].buffering_state = w.child[t].buffering_state

LEMMA SightKept ==
  ASSUME NEW v, NEW w, NEW t \in Types, Alike(v.child[t], w.child[t]),
         SameQueue(v.tasks, w.tasks, Of(t))
  PROVE  SameSight(v, w, t)
<1>1. /\ v.child[t].state = w.child[t].state /\ v.child[t].then = w.child[t].then
      /\ v.child[t].ended = w.child[t].ended
      /\ v.child[t].buffering_state = w.child[t].buffering_state
  BY DEF Alike
<1>2. /\ Has(v.tasks, Ends(t)) <=> Has(w.tasks, Ends(t))
      /\ Has(v.tasks, Reports(t)) <=> Has(w.tasks, Reports(t))
      /\ Has(v.tasks, Ended(t)) <=> Has(w.tasks, Ended(t))
      /\ Has(v.tasks, Flushed(t)) <=> Has(w.tasks, Flushed(t))
      /\ Has(v.tasks, Inits(t)) <=> Has(w.tasks, Inits(t))
      /\ Has(v.tasks, Reinits(t)) <=> Has(w.tasks, Reinits(t))
      /\ Has(v.tasks, {Task("InitializeDone", t, "ok")})
           <=> Has(w.tasks, {Task("InitializeDone", t, "ok")})
      /\ Single(w.tasks, Ends(t)) => Single(v.tasks, Ends(t))
      /\ Before(w.tasks, Ended(t), Flushed(t)) => Before(v.tasks, Ended(t), Flushed(t))
      /\ \A x : LastOf(w.tasks, Reports(t), x) => LastOf(v.tasks, Reports(t), x)
  BY WatchedKinds DEF SameQueue
<1>. HIDE DEF Task
<1>. QED
  BY <1>1, <1>2 DEF SameSight, Flushing, Initializing, Reinitializing, Free, At

SameMembers(m, n) ==
  /\ m.state = n.state /\ m.has = n.has /\ m.buffering_state = n.buffering_state
  /\ m.ended = n.ended /\ m.playing = n.playing
  /\ m.pending_track_change = n.pending_track_change
  /\ m.time_ticking = n.time_ticking /\ m.deferred = n.deferred

(* ... and of what RendererImpl knows of it.                                *)
SameView(v, w, t) ==
  /\ SameSight(v, w, t)
  /\ v.r.has[t] = w.r.has[t] /\ v.r.buffering_state[t] = w.r.buffering_state[t]
  /\ v.r.ended[t] = w.r.ended[t] /\ v.r.playing[t] = w.r.playing[t]
  /\ v.r.pending_track_change[t] = w.r.pending_track_change[t]

LEMMA ViewKept ==
  ASSUME NEW v, NEW w, NEW t \in Types, SameView(v, w, t)
  PROVE  /\ Quiet(v, t) <=> Quiet(w, t)
         /\ Unused(w, t) => Unused(v, t)
         /\ PlaysOn(v, t) <=> PlaysOn(w, t)
         /\ Resting(v, t) <=> Resting(w, t)
         /\ TurnOf(w, t) => TurnOf(v, t)
         /\ Prepares(w, t) => Prepares(v, t)
         /\ (w.r.deferred = "waiting" => v.r.deferred = "waiting")
            /\ (w.r.state = "FLUSHING" => v.r.state = "FLUSHING" \/ Quiet(v, t))
              => (Known(w, t) => Known(v, t)) /\ (Serves(w, t) => Serves(v, t))
         /\ (PlaybackHasEnded(w) => PlaybackHasEnded(v))
              => (EndFits(w, t) => EndFits(v, t)) /\ (Goes(w, t) => Goes(v, t))
<1>. HIDE DEF Task
<1>1. /\ Quiet(v, t) <=> Quiet(w, t)
      /\ Unused(w, t) => Unused(v, t)
      /\ PlaysOn(v, t) <=> PlaysOn(w, t)
  BY DEF SameView, SameSight, Quiet, Unused, PlaysOn
<1>2. TurnOf(w, t) => TurnOf(v, t)
  BY DEF SameView, SameSight, TurnOf
<1>3. Prepares(w, t) => Prepares(v, t)
  BY <1>1 DEF SameView, SameSight, Prepares
<1>4. Resting(v, t) <=> Resting(w, t)
  BY <1>1 DEF SameView, SameSight, Resting
<1>5. ASSUME w.r.deferred = "waiting" => v.r.deferred = "waiting",
             w.r.state = "FLUSHING" => v.r.state = "FLUSHING" \/ Quiet(v, t)
      PROVE  (Known(w, t) => Known(v, t)) /\ (Serves(w, t) => Serves(v, t))
  <2>1. Known(w, t) => Known(v, t)
    BY <1>5 DEF SameView, SameSight, Known, Quiet
  <2>. QED
    BY <2>1 DEF SameView, SameSight, Serves
<1>6. ASSUME PlaybackHasEnded(w) => PlaybackHasEnded(v)
      PROVE  (EndFits(w, t) => EndFits(v, t)) /\ (Goes(w, t) => Goes(v, t))
  <2>1. EndFits(w, t) => EndFits(v, t)
    BY <1>6 DEF SameView, SameSight, EndFits
  <2>. QED
    BY <1>1, <2>1 DEF SameView, SameSight, Goes
<1>. QED
  BY <1>1, <1>2, <1>3, <1>4, <1>5, <1>6

(* v is w to the eye.                                                       *)
Unseen(v, w) ==
  /\ LikeChildren(v, w) /\ SameMembers(v.r, w.r)
  /\ v.client.op = w.client.op /\ (w.client.error => v.client.error)
  /\ SameQueue(v.tasks, w.tasks, Watched)
  /\ w.tasks = << >> => v.tasks = << >> \/ w.r.state \notin {"UNINITIALIZED", "INIT_PENDING_CDM"}

LEMMA UnseenFits ==
  ASSUME NEW v, NEW w, Fits(w), Unseen(v, w)
  PROVE  Fits(v)
<1>1. /\ v.r.state = w.r.state /\ v.r.has = w.r.has /\ v.r.playing = w.r.playing
      /\ v.r.buffering_state = w.r.buffering_state /\ v.r.ended = w.r.ended
      /\ v.r.pending_track_change = w.r.pending_track_change
      /\ v.r.time_ticking = w.r.time_ticking /\ v.r.deferred = w.r.deferred
      /\ v.client.op = w.client.op /\ (w.client.error => v.client.error)
  BY DEF Unseen, SameMembers
<1>2. \A t \in Types : SameSight(v, w, t) /\ SameView(v, w, t)
  <2>1. \A t \in Types : SameQueue(v.tasks, w.tasks, Of(t))
    BY WatchedKinds DEF Unseen, SameQueue
  <2>2. \A t \in Types : SameSight(v, w, t)
    BY <2>1, SightKept DEF Unseen, LikeChildren
  <2>. QED
    BY <1>1, <2>2 DEF SameView
<1>3. /\ Has(v.tasks, ClientFlushed) <=> Has(w.tasks, ClientFlushed)
      /\ Single(w.tasks, ClientFlushed) => Single(v.tasks, ClientFlushed)
  BY WatchedKinds DEF Unseen, SameQueue
<1>. HIDE DEF Task
<1>4. PlaybackHasEnded(v) <=> PlaybackHasEnded(w)
  BY <1>1 DEF PlaybackHasEnded
<1>5. \A t \in Types :
        /\ Unused(w, t) => Unused(v, t)
        /\ PlaysOn(v, t) <=> PlaysOn(w, t)
        /\ Resting(v, t) <=> Resting(w, t)
        /\ TurnOf(w, t) => TurnOf(v, t)
        /\ Prepares(w, t) => Prepares(v, t)
        /\ Serves(w, t) => Serves(v, t)
        /\ Goes(w, t) => Goes(v, t)
  BY <1>1, <1>2, <1>4, ViewKept
<1>6. ClockFits(v)
  BY <1>1, <1>5 DEF Fits, ClockFits, Types
<1>7. InTurn(w) => InTurn(v)
  BY <1>1, <1>3, <1>5 DEF InTurn
<1>8. v.r.state \in {"UNINITIALIZED", "INIT_PENDING_CDM"} => Begins(v)
  BY <1>1, <1>2, <1>5 DEF Begins, SameSight, Unseen, Fits
<1>9. Initializes(w) => Initializes(v)
  BY <1>1, <1>2, <1>5 DEF Initializes, Types, SameSight
<1>10. Initialized(w) => Initialized(v)
  BY <1>1, <1>5 DEF Initialized
<1>11. Rests(w) => Rests(v)
  BY <1>1, <1>5, <1>10 DEF Rests
<1>12. Plays(w) => Plays(v)
  BY <1>1, <1>2, <1>5, <1>10 DEF Plays, OneChange, DeferralFits, TimeFits, Types, SameSight
<1>13. Flushes(w) => Flushes(v)
  BY <1>1, <1>2, <1>5, <1>10 DEF Flushes, Types, SameSight
<1>. QED
  BY <1>1, <1>6, <1>7, <1>8, <1>9, <1>11, <1>12, <1>13 DEF Fits

(* The kinds of a task of the renderer t.                                   *)
LEMMA Kind ==
  ASSUME NEW t \in Types, NEW e
  PROVE  /\ e \in Reports(t) => /\ e \in Of(t) /\ e \notin Ended(t) /\ e \notin Ends(t)
                                /\ e \notin Flushed(t) /\ e \notin Inits(t)
                                /\ e \notin Reinits(t)
         /\ e \in Ended(t) => /\ e \in Of(t) /\ e \notin Reports(t) /\ e \notin Ends(t)
                              /\ e \notin Flushed(t) /\ e \notin Inits(t)
                              /\ e \notin Reinits(t)
         /\ e \in Flushed(t) => /\ e \in Of(t) /\ e \notin Reports(t) /\ e \notin Ended(t)
                                /\ e \in Ends(t) /\ e \notin Inits(t) /\ e \notin Reinits(t)
         /\ e \in Inits(t) => /\ e \in Of(t) /\ e \notin Reports(t) /\ e \notin Ended(t)
                              /\ e \in Ends(t) /\ e \notin Flushed(t)
                              /\ e \notin Reinits(t)
         /\ e \in Reinits(t) => /\ e \in Of(t) /\ e \notin Reports(t) /\ e \notin Ended(t)
                                /\ e \in Ends(t) /\ e \notin Flushed(t)
                                /\ e \notin Inits(t)
         /\ e \in Of(t) => /\ e \in Tasks /\ e \notin ClientFlushed
                           /\ \A u \in Types \ {t} : e \notin Of(u)
         /\ e = Task("InitializeDone", t, "ok") => e \in Inits(t)
         /\ \A b \in Buffering : Report(t, b) \in Reports(t)
         /\ Task("Ended", t, "none") \in Ended(t)
         /\ Task("Flushed", t, "none") \in Flushed(t)
         /\ \A status \in {"ok", "error"} :
              /\ Task("InitializeDone", t, status) \in Inits(t)
              /\ Task("Reinitialized", t, status) \in Reinits(t)
  BY DEF Ends, Flushed, Inits, Reinits, Reports, Report, Ended, ClientFlushed, Task,
         Tasks, Types, Buffering, Of

(**************************************************************************)
(*                    What the two renderers do fits                        *)
(**************************************************************************)

(* Only the renderer t moves, and what it had not finished it still has to.  *)
Moves(v, w, t) ==
  /\ v.r = w.r /\ v.client = w.client /\ Others(v, w, t)
  /\ \A u \in Types \ {t} : SameQueue(v.tasks, w.tasks, Of(u))
  /\ SameQueue(v.tasks, w.tasks, ClientFlushed)
  /\ ~(At(w, t, {"kUninitialized"}) /\ Quiet(w, t))
  /\ PlaysOn(w, t) => PlaysOn(v, t)

Keeps(v, w, t) ==
  /\ Flushing(v, t) <=> Flushing(w, t)
  /\ Initializing(v, t) <=> Initializing(w, t)
  /\ Reinitializing(v, t) <=> Reinitializing(w, t)
  /\ TurnOf(v, t)
  /\ Prepares(w, t) => Prepares(v, t)
  /\ Serves(w, t) => Serves(v, t)
  /\ Resting(w, t) => Resting(v, t)
  /\ Serves(w, t) /\ Goes(w, t) => Goes(v, t)
  /\ At(w, t, {"kFlushed"}) => At(v, t, {"kFlushed"})
  /\ v.child[t].then = w.child[t].then
  /\ Flushing(w, t) /\ w.child[t].buffering_state = "HAVE_NOTHING" /\ ~w.child[t].ended
       => v.child[t].buffering_state = "HAVE_NOTHING" /\ ~v.child[t].ended
  /\ t = "video" /\ DeferralFits(w) => DeferralFits(v)

LEMMA RendererFits ==
  ASSUME NEW v, NEW w, NEW t \in Types, Fits(w), Moves(v, w, t),
         TurnOf(w, t) => Keeps(v, w, t)
  PROVE  Fits(v)
<1>1. v.r = w.r /\ v.client = w.client
  BY DEF Moves
<1>2. \A u \in Types \ {t} : SameSight(v, w, u) /\ SameView(v, w, u)
  <2>1. \A u \in Types \ {t} : SameSight(v, w, u)
    BY SightKept DEF Moves, Others, Alike
  <2>. QED
    BY <1>1, <2>1 DEF SameView
<1>3. /\ Has(v.tasks, ClientFlushed) <=> Has(w.tasks, ClientFlushed)
      /\ Single(w.tasks, ClientFlushed) => Single(v.tasks, ClientFlushed)
  BY DEF Moves, SameQueue
<1>. HIDE DEF Task
<1>4. PlaybackHasEnded(v) <=> PlaybackHasEnded(w)
  BY <1>1 DEF PlaybackHasEnded
<1>5. \A u \in Types \ {t} :
        /\ PlaysOn(v, u) <=> PlaysOn(w, u)
        /\ Resting(v, u) <=> Resting(w, u)
        /\ TurnOf(w, u) => TurnOf(v, u)
        /\ Prepares(w, u) => Prepares(v, u)
        /\ Serves(w, u) => Serves(v, u)
        /\ Goes(w, u) => Goes(v, u)
  BY <1>1, <1>2, <1>4, ViewKept
<1>6. ClockFits(v)
  BY <1>1, <1>5 DEF Fits, ClockFits, Types, Moves
<1>7. CASE w.r.state = "ERROR"
  BY <1>1, <1>6, <1>7 DEF Fits
<1>8. CASE w.r.state # "ERROR"
  <2>1. InTurn(w) /\ Keeps(v, w, t)
    BY <1>8 DEF Fits, InTurn
  <2>2. InTurn(v)
    BY <1>1, <1>3, <1>5, <2>1 DEF InTurn, Keeps
  <2>3. ~Begins(w)
    BY DEF Begins, Moves, Unused
  <2>4. Initializes(w) => Initializes(v)
    BY <1>1, <1>2, <1>5, <2>1 DEF Initializes, Types, SameSight, Keeps
  <2>5. Initialized(w) => Initialized(v)
    BY <1>1, <1>5, <2>1 DEF Initialized, Keeps
  <2>6. Rests(w) => Rests(v)
    BY <1>1, <1>5, <2>1, <2>5 DEF Rests, Keeps
  <2>7. Plays(w) => Plays(v)
    <3>1. DeferralFits(w) => DeferralFits(v)
      BY <1>1, <1>2, <2>1 DEF DeferralFits, Types, SameSight, Keeps
    <3>. QED
      BY <1>1, <1>5, <2>1, <2>5, <3>1 DEF Plays, OneChange, TimeFits, Keeps, Initialized
  <2>8. Flushes(w) => Flushes(v)
    BY <1>1, <1>2, <1>5, <2>1, <2>5 DEF Flushes, Types, SameSight, Keeps, Moves
  <2>. QED
    BY <1>1, <1>6, <1>8, <2>2, <2>3, <2>4, <2>6, <2>7, <2>8 DEF Fits
<1>. QED
  BY <1>7, <1>8

With(w, t, c) == [w EXCEPT !.child = [w.child EXCEPT ![t] = c]]

LEMMA ChildBecomes ==
  ASSUME NEW w \in State, NEW t \in Types, NEW c \in Filled
  PROVE  LET v == With(w, t, c)
         IN  /\ v \in State /\ v.r = w.r /\ v.tasks = w.tasks /\ v.client = w.client
             /\ Others(v, w, t) /\ v.child[t] = c
<1>1. w.child \in [Types -> Filled]
  BY StateOf
<1>2. [w.child EXCEPT ![t] = c] \in [Types -> Filled]
  BY <1>1
<1>3. [w.child EXCEPT ![t] = c][t] = c
  BY <1>1
<1>. QED
  BY <1>1, <1>2, <1>3 DEF State, Others, With

(* The renderer t changes and posts e.                                      *)
Does(v, w, t, e) ==
  /\ v \in State /\ v.r = w.r /\ v.client = w.client /\ Others(v, w, t)
  /\ Gains(w.tasks, e, v.tasks)

LEMMA ChildDoes ==
  ASSUME NEW w \in State, NEW t \in Types, NEW c \in Filled, NEW e \in Of(t)
  PROVE  LET v == Post(With(w, t, c), e)
         IN  Does(v, w, t, e) /\ v.child[t] = c
<1>1. e \in Tasks
  BY Kind
<1>. QED
  BY <1>1, ChildBecomes, Posted DEF Does, Others

LEMMA DoesMove ==
  ASSUME NEW v, NEW w, NEW t \in Types, NEW e \in Of(t), Does(v, w, t, e),
         ~At(w, t, {"kUninitialized"}) \/ ~Quiet(w, t), PlaysOn(w, t) => PlaysOn(v, t)
  PROVE  Moves(v, w, t)
<1>1. e \notin ClientFlushed /\ \A u \in Types \ {t} : e \notin Of(u)
  BY Kind
<1>2. SameQueue(v.tasks, w.tasks, ClientFlushed)
  BY <1>1, QueueKept DEF Does
<1>3. \A u \in Types \ {t} : SameQueue(v.tasks, w.tasks, Of(u))
  BY <1>1, QueueKept DEF Does
<1>. QED
  BY <1>2, <1>3 DEF Moves, Does

(* DecoderInitialized().                                                    *)
LEMMA DecoderInitializedFits ==
  ASSUME NEW w \in State, Fits(w), NEW t \in Types, NEW v, NEW status \in {"ok", "error"},
         At(w, t, {"kInitializing"}),
         NEW e, e = IF w.child[t].then = "InitializeDone" THEN Task("InitializeDone", t, status)
                    ELSE Task("Reinitialized", t, status),
         Does(v, w, t, e),
         v.child[t].state = IF status = "ok" THEN "kFlushed" ELSE "kUninitialized",
         v.child[t].then = w.child[t].then,
         v.child[t].buffering_state = w.child[t].buffering_state,
         v.child[t].ended = w.child[t].ended
  PROVE  Fits(v)
<1>1. /\ e \in Of(t) /\ e \notin Reports(t) /\ e \notin Ended(t)
      /\ e \in Ends(t) /\ e \notin Flushed(t)
      /\ e \in Inits(t) <=> w.child[t].then = "InitializeDone"
      /\ e \in Reinits(t) <=> w.child[t].then # "InitializeDone"
      /\ e = Task("InitializeDone", t, "ok") => status = "ok"
  <2>1. IF w.child[t].then = "InitializeDone" THEN e \in Inits(t) ELSE e \in Reinits(t)
    BY Kind
  <2>2. e = Task("InitializeDone", t, "ok") => status = "ok"
    BY DEF Task
  <2>. QED
    BY <2>1, <2>2, Kind
<1>. HIDE DEF Task
<1>2. Moves(v, w, t)
  BY <1>1, DoesMove DEF At, PlaysOn
<1>. SUFFICES ASSUME TurnOf(w, t) PROVE Keeps(v, w, t)
  BY <1>2, RendererFits
<1>3. Gains(w.tasks, e, v.tasks) /\ v.r = w.r /\ v.client = w.client
  BY DEF Does
<1>4. /\ ~Has(w.tasks, Ends(t)) /\ ~Has(w.tasks, Flushed(t))
      /\ ~Has(w.tasks, Inits(t)) /\ ~Has(w.tasks, Reinits(t))
      /\ ~Has(w.tasks, {Task("InitializeDone", t, "ok")})
  <2>1. ~Has(w.tasks, Ends(t))
    BY DEF TurnOf, At
  <2>2. /\ Flushed(t) \subseteq Ends(t) /\ Inits(t) \subseteq Ends(t)
        /\ Reinits(t) \subseteq Ends(t) /\ {Task("InitializeDone", t, "ok")} \subseteq Ends(t)
    BY Kind DEF Ends
  <2>. QED
    BY <2>1, <2>2, Kinds
<1>5. /\ Has(v.tasks, Ends(t)) /\ Single(v.tasks, Ends(t)) /\ ~Has(v.tasks, Flushed(t))
      /\ Has(v.tasks, Inits(t)) <=> w.child[t].then = "InitializeDone"
      /\ Has(v.tasks, Reinits(t)) <=> w.child[t].then # "InitializeDone"
      /\ Has(v.tasks, {Task("InitializeDone", t, "ok")}) => status = "ok"
      /\ Has(v.tasks, Reports(t)) <=> Has(w.tasks, Reports(t))
      /\ Has(v.tasks, Ended(t)) <=> Has(w.tasks, Ended(t))
      /\ Before(v.tasks, Ended(t), Flushed(t))
      /\ \A x : LastOf(w.tasks, Reports(t), x) <=> LastOf(v.tasks, Reports(t), x)
  <2>1. Before(v.tasks, Ended(t), Flushed(t))
    BY <1>1, <1>3 DEF Gains, TurnOf
  <2>2. \A T : Has(v.tasks, T) <=> Has(w.tasks, T) \/ e \in T
    BY <1>3 DEF Gains
  <2>3. Single(v.tasks, Ends(t))
    BY <1>3, <1>4, Kinds DEF Gains
  <2>4. \A x : LastOf(w.tasks, Reports(t), x) <=> LastOf(v.tasks, Reports(t), x)
    BY <1>1, <1>3 DEF Gains
  <2>5. Has(v.tasks, {Task("InitializeDone", t, "ok")}) => status = "ok"
    BY <1>1, <1>4, <2>2
  <2>. QED
    BY <1>1, <1>4, <2>1, <2>2, <2>3, <2>4, <2>5
<1>6. v.child[t].state # "kInitializing" /\ v.child[t].state # "kFlushing"
      /\ v.child[t].state # "kPlaying"
  OBVIOUS
<1>7. /\ Flushing(v, t) <=> Flushing(w, t)
      /\ Initializing(v, t) <=> Initializing(w, t)
      /\ Reinitializing(v, t) <=> Reinitializing(w, t)
  BY <1>4, <1>5, <1>6 DEF Flushing, Initializing, Reinitializing, At
<1>8. TurnOf(v, t)
  BY <1>5, <1>6 DEF TurnOf, At
<1>9. Prepares(w, t) => Prepares(v, t)
  BY <1>3, <1>5, <1>7 DEF Prepares, Unused, Quiet, At
<1>10. Known(w, t) => Known(v, t)
  BY <1>3, <1>5 DEF Known
<1>11. Serves(w, t) => Serves(v, t)
  BY <1>3, <1>5, <1>7, <1>10 DEF Serves, At
<1>12. ~Resting(w, t) /\ ~PlaysOn(w, t)
  BY DEF Resting, PlaysOn, At
<1>13. EndFits(w, t) => EndFits(v, t)
  BY <1>3, <1>5, <1>7 DEF EndFits, PlaybackHasEnded
<1>14. Goes(w, t) => Goes(v, t)
  BY <1>3, <1>7, <1>12, <1>13 DEF Goes
<1>15. DeferralFits(w) /\ t = "video" => DeferralFits(v)
  BY <1>3, <1>5 DEF DeferralFits
<1>. QED
  BY <1>7, <1>8, <1>9, <1>11, <1>12, <1>14, <1>15 DEF Keeps, At

(* Reports and the end of a renderer are not what ends an operation of it.   *)
Hears(p, q, t) ==
  /\ Has(p, Ends(t)) <=> Has(q, Ends(t))
  /\ Has(p, Flushed(t)) <=> Has(q, Flushed(t))
  /\ Has(p, Inits(t)) <=> Has(q, Inits(t))
  /\ Has(p, Reinits(t)) <=> Has(q, Reinits(t))
  /\ Single(q, Ends(t)) => Single(p, Ends(t))
  /\ Has(q, Reports(t)) => Has(p, Reports(t))

LEMMA Heard ==
  ASSUME NEW q, NEW p, NEW t \in Types, NEW e \in Reports(t) \cup Ended(t), Gains(q, e, p)
  PROVE  Hears(p, q, t)
<1>1. /\ e \notin Ends(t) /\ e \notin Flushed(t) /\ e \notin Inits(t) /\ e \notin Reinits(t)
  BY Kind
<1>2. \A T : Has(p, T) <=> Has(q, T) \/ e \in T
  BY DEF Gains
<1>3. Single(q, Ends(t)) => Single(p, Ends(t))
  BY <1>1 DEF Gains
<1>. QED
  BY <1>1, <1>2, <1>3 DEF Hears

(* Enough(), RendersTheEnd(), Underflows() and TransitionToHaveNothing().    *)
LEMMA TellsFits ==
  ASSUME NEW v, NEW w, Fits(w), NEW t \in Types, Moves(v, w, t), Hears(v.tasks, w.tasks, t),
         v.child[t].state = w.child[t].state, v.child[t].then = w.child[t].then,
         At(w, t, {"kPlaying"}) \/ w.child[t].buffering_state # "HAVE_NOTHING",
         w.child[t].ended => v.child[t].ended,
         Has(v.tasks, Ended(t)) => \/ Has(w.tasks, Ended(t))
                                   \/ v.child[t].ended /\ At(w, t, {"kPlaying"}),
         Known(w, t) => Known(v, t),
         Has(v.tasks, Reports(t))
           \/ v.child[t].buffering_state = w.child[t].buffering_state
  PROVE  Fits(v)
<1>. SUFFICES ASSUME TurnOf(w, t) PROVE Keeps(v, w, t)
  BY RendererFits
<1>1. v.r = w.r /\ v.client = w.client
  BY DEF Moves
<1>2. \A S : At(v, t, S) <=> At(w, t, S)
  BY DEF At
<1>3. /\ Flushing(v, t) <=> Flushing(w, t)
      /\ Initializing(v, t) <=> Initializing(w, t)
      /\ Reinitializing(v, t) <=> Reinitializing(w, t)
      /\ Free(v, t) <=> Free(w, t)
  BY <1>2 DEF Hears, Flushing, Initializing, Reinitializing, Free
<1>4. /\ Flushed(t) \subseteq Ends(t) /\ Inits(t) \subseteq Ends(t)
      /\ Reinits(t) \subseteq Ends(t)
  BY DEF Ends
<1>5. At(w, t, {"kPlaying"}) =>
        /\ ~Flushing(w, t) /\ ~Reinitializing(w, t)
        /\ ~Has(w.tasks, Flushed(t)) /\ ~Has(w.tasks, Ends(t))
  BY <1>4, Kinds DEF TurnOf, At, Flushing, Reinitializing
<1>6. ~Has(w.tasks, Flushed(t)) /\ ~Has(v.tasks, Flushed(t))
  BY <1>5 DEF TurnOf, Hears
<1>7. TurnOf(v, t)
  BY <1>2, <1>6, Kinds DEF TurnOf, Hears
<1>8. ~Prepares(w, t) /\ ~Resting(w, t)
  BY DEF Prepares, Resting, Unused, Quiet, At
<1>9. Serves(w, t) => Serves(v, t)
  BY <1>1, <1>2, <1>3 DEF Serves, At
<1>10. PlaysOn(v, t) <=> PlaysOn(w, t)
  BY <1>1, <1>2, <1>3 DEF PlaysOn
<1>11. EndFits(w, t) => EndFits(v, t)
  BY <1>1, <1>3, <1>5 DEF EndFits, PlaybackHasEnded
<1>12. Goes(w, t) => Goes(v, t)
  BY <1>1, <1>3, <1>10, <1>11 DEF Goes
<1>13. DeferralFits(w) /\ t = "video" => DeferralFits(v)
  BY <1>1 DEF DeferralFits, Hears
<1>14. Flushing(w, t) => w.child[t].buffering_state # "HAVE_NOTHING"
  BY <1>5
<1>. QED
  BY <1>2, <1>3, <1>7, <1>8, <1>9, <1>12, <1>13, <1>14 DEF Keeps

(* DecoderReset().                                                          *)
LEMMA DecoderResetFits ==
  ASSUME NEW v, NEW w, Fits(w), NEW t \in Types, At(w, t, {"kFlushing"}), Moves(v, w, t),
         NEW x, NEW e \in Flushed(t), Gains(x, e, v.tasks),
         IF w.child[t].buffering_state = "HAVE_NOTHING" THEN x = w.tasks
         ELSE Gains(w.tasks, Report(t, "HAVE_NOTHING"), x),
         v.child[t].state = "kFlushed", v.child[t].then = w.child[t].then,
         v.child[t].buffering_state = "HAVE_NOTHING", ~v.child[t].ended
  PROVE  Fits(v)
<1>. SUFFICES ASSUME TurnOf(w, t) PROVE Keeps(v, w, t)
  BY RendererFits
<1>1. v.r = w.r /\ v.client = w.client
  BY DEF Moves
<1>2. /\ Flushed(t) \subseteq Ends(t) /\ Inits(t) \subseteq Ends(t)
      /\ Reinits(t) \subseteq Ends(t)
  BY DEF Ends
<1>3. /\ ~Has(w.tasks, Ends(t)) /\ ~Has(w.tasks, Flushed(t))
      /\ ~Has(w.tasks, Inits(t)) /\ ~Has(w.tasks, Reinits(t))
  BY <1>2, Kinds DEF TurnOf, At
<1>4. Report(t, "HAVE_NOTHING") \in Reports(t)
  BY Kind DEF Buffering
<1>. HIDE DEF Report
<1>5. Hears(x, w.tasks, t) /\ (Has(x, Ended(t)) <=> Has(w.tasks, Ended(t)))
  <2>1. CASE x = w.tasks
    BY <2>1 DEF Hears
  <2>2. CASE Gains(w.tasks, Report(t, "HAVE_NOTHING"), x)
    <3>1. Report(t, "HAVE_NOTHING") \notin Ended(t)
      BY <1>4, Kind
    <3>2. Has(x, Ended(t)) <=> Has(w.tasks, Ended(t))
      BY <2>2, <3>1 DEF Gains
    <3>. QED
      BY <1>4, <2>2, <3>2, Heard
  <2>. QED
    BY <2>1, <2>2
<1>6. /\ e \notin Reports(t) /\ e \notin Ended(t) /\ e \in Ends(t) /\ e \notin Inits(t)
      /\ e \notin Reinits(t)
  BY Kind
<1>7. /\ Has(v.tasks, Ends(t)) /\ Has(v.tasks, Flushed(t))
      /\ ~Has(v.tasks, Inits(t)) /\ ~Has(v.tasks, Reinits(t))
      /\ Has(v.tasks, Ended(t)) <=> Has(w.tasks, Ended(t))
      /\ Has(v.tasks, Reports(t)) <=> Has(x, Reports(t))
  <2>1. \A T : Has(v.tasks, T) <=> Has(x, T) \/ e \in T
    BY DEF Gains
  <2>. QED
    BY <1>3, <1>5, <1>6, <2>1 DEF Hears
<1>8. Single(v.tasks, Ends(t))
  BY <1>3, <1>5, Kinds DEF Gains, Hears
<1>9. Before(v.tasks, Ended(t), Flushed(t))
  <2>1. Before(x, Ended(t), Flushed(t))
    BY <1>3, <1>5, Kinds DEF Hears
  <2>. QED
    BY <1>6, <2>1 DEF Gains
<1>10. TurnOf(v, t)
  BY <1>7, <1>8, <1>9 DEF TurnOf, At
<1>11. /\ Flushing(v, t) /\ Flushing(w, t)
       /\ ~Initializing(v, t) /\ ~Initializing(w, t)
       /\ ~Reinitializing(v, t) /\ ~Reinitializing(w, t)
  BY <1>3, <1>7 DEF Flushing, Initializing, Reinitializing, At
<1>12. ~Prepares(w, t) /\ ~Resting(w, t) /\ ~PlaysOn(w, t)
  BY DEF Prepares, Resting, PlaysOn, Unused, At
<1>13. Known(w, t) => Known(v, t)
  <2>1. CASE w.child[t].buffering_state = "HAVE_NOTHING"
    <3>1. \A y : LastOf(w.tasks, Reports(t), y) => LastOf(v.tasks, Reports(t), y)
      BY <1>6, <2>1 DEF Gains
    <3>. QED
      BY <1>1, <1>7, <2>1, <3>1 DEF Known
  <2>2. CASE w.child[t].buffering_state # "HAVE_NOTHING"
    <3>1. Has(x, Reports(t)) /\ LastOf(x, Reports(t), Report(t, "HAVE_NOTHING"))
      BY <1>4, <2>2 DEF Gains
    <3>2. LastOf(v.tasks, Reports(t), Report(t, "HAVE_NOTHING"))
      BY <1>6, <3>1 DEF Gains
    <3>. QED
      BY <1>7, <3>1, <3>2 DEF Known
  <2>. QED
    BY <2>1, <2>2
<1>14. Serves(w, t) => Serves(v, t)
  BY <1>1, <1>11, <1>13 DEF Serves, At
<1>15. Goes(w, t) => Goes(v, t)
  BY <1>1, <1>11, <1>12 DEF Goes, EndFits
<1>16. t = "video" => DeferralFits(v)
  BY DEF DeferralFits
<1>. QED
  BY <1>10, <1>11, <1>12, <1>14, <1>15, <1>16 DEF Keeps, At

(**************************************************************************)
(*                        The steps, one by one                             *)
(**************************************************************************)

LEMMA Becomes ==
  ASSUME setup \in Setups, NEW v \in State, Fits(v), Become(v), UNCHANGED setup, Bounded'
  PROVE  Lives'
<1>1. v = [r |-> r', child |-> child', tasks |-> tasks', client |-> client']
  BY StateOf DEF Become
<1>2. Now' = v
  BY <1>1 DEF Now
<1>3. Fits(Now)'
  BY <1>2 DEF Fits, ClockFits, InTurn, TurnOf, Begins, Initializes, Prepares, Rests, Plays,
       Flushes, Initialized, Serves, Unused, Goes, OneChange, DeferralFits, TimeFits
<1>4. (setup \in Setups /\ Now \in State)'
  BY <1>2
<1>. QED
  BY <1>3, <1>4 DEF Lives, Bounded

LEMMA SpendBounded ==
  ASSUME Lives, UNCHANGED setup
  PROVE  /\ \A what \in {"calls", "errors"} : Spend(what) => Bounded'
         /\ UNCHANGED spent => Bounded'
<1>1. spent \in [calls : 0 .. setup.calls, errors : 0 .. setup.errors]
  BY DEF Lives, Bounded
<1>2. setup.calls \in Nat /\ setup.errors \in Nat
  BY DEF Lives, RendererAssumption, Setup
<1>3. ASSUME Spend("calls") PROVE Bounded'
  BY <1>1, <1>2, <1>3 DEF Spend, Bounded
<1>4. ASSUME Spend("errors") PROVE Bounded'
  BY <1>1, <1>2, <1>4 DEF Spend, Bounded
<1>. QED
  BY <1>1, <1>3, <1>4 DEF Bounded

(* After an error only the clock matters.                                   *)
Halted(w) == w.r.state = "ERROR" /\ w.client.error

LEMMA HaltedFits ==
  ASSUME NEW w
  PROVE  /\ Halted(w) /\ ClockFits(w) => Fits(w)
         /\ Halted(w) => (Fits(w) => ClockFits(w))
  BY DEF Halted, Fits

LEMMA InitializationFinishes ==
  ASSUME NEW s \in State, NEW status \in {"ok", "error"}
  PROVE  LET v == FinishInitialization(s, status)
         IN  /\ v \in State /\ v.child = s.child /\ v.tasks = s.tasks
             /\ v.r = [s.r EXCEPT !.init_cb = FALSE]
             /\ v.client.op = IF status = "ok" THEN "flushed" ELSE "failed"
             /\ v.client.error <=> s.client.error \/ status = "error"
             /\ v.client.told = s.client.told /\ v.client.ended = s.client.ended
<1>. DEFINE op == IF status = "ok" THEN "flushed" ELSE "failed"
            error == s.client.error \/ status # "ok"
            c == [s.client EXCEPT !.op = op, !.error = error]
            m == [s.r EXCEPT !.init_cb = FALSE]
<1>1. op \in {"flushed", "failed"} /\ error \in BOOLEAN
  BY StateOf DEF Client
<1>2. FinishInitialization(s, status) = [s EXCEPT !.r = m, !.client = c]
  BY StateOf DEF FinishInitialization, State, Client
<1>. HIDE DEF op, error
<1>3. /\ c \in Client /\ c.op = op /\ c.error = error
      /\ c.told = s.client.told /\ c.ended = s.client.ended
  BY <1>1, StateOf DEF Client
<1>4. m \in Members
  BY StateOf, ZenonT(60) DEF Members
<1>. HIDE DEF c, m
<1>5. LET v == FinishInitialization(s, status)
      IN  /\ v \in State /\ v.child = s.child /\ v.tasks = s.tasks /\ v.r = m
          /\ v.client = c
  BY <1>2, <1>3, <1>4 DEF State
<1>6. error <=> s.client.error \/ status = "error"
  BY DEF error
<1>. QED
  BY <1>3, <1>5, <1>6 DEF m, op

LEMMA FlushFinishes ==
  ASSUME NEW s \in State
  PROVE  LET v == FinishFlush(s)
         IN  /\ v \in State /\ v.child = s.child /\ v.tasks = s.tasks
             /\ v.r = [s.r EXCEPT !.flush_cb = FALSE]
             /\ v.client = [s.client EXCEPT !.op = "flushed"]
<1>1. FinishFlush(s) = [s EXCEPT !.r = [s.r EXCEPT !.flush_cb = FALSE],
                                 !.client = [s.client EXCEPT !.op = "flushed"]]
  BY DEF FinishFlush, State
<1>2. [s.r EXCEPT !.flush_cb = FALSE] \in Members
  BY StateOf DEF Members
<1>3. [s.client EXCEPT !.op = "flushed"] \in Client
  BY StateOf DEF Client
<1>. QED
  BY <1>1, <1>2, <1>3 DEF State

LEMMA OnErrorDoes ==
  ASSUME NEW w \in State, w.r.state = "ERROR" => w.client.error
  PROVE  LET v == OnError(w)
         IN  /\ v \in State /\ v.child = w.child /\ v.tasks = w.tasks
             /\ v.r.state = "ERROR" /\ v.client.error
             /\ v.r.has = w.r.has /\ v.r.playing = w.r.playing
             /\ v.r.time_ticking = w.r.time_ticking
<1>. DEFINE failed == [w EXCEPT !.r = [w.r EXCEPT !.state = "ERROR"]]
            told == [failed EXCEPT !.client = [w.client EXCEPT !.error = TRUE]]
            Meant(v) == /\ v \in State /\ v.child = w.child /\ v.tasks = w.tasks
                        /\ v.r.state = "ERROR"
                        /\ v.r.has = w.r.has /\ v.r.playing = w.r.playing
                        /\ v.r.time_ticking = w.r.time_ticking
<1>1. CASE w.r.state = "ERROR"
  BY <1>1 DEF OnError
<1>2. Meant(failed)
  <2>1. [w.r EXCEPT !.state = "ERROR"] \in Members
    BY StateOf, ZenonT(60) DEF Members
  <2>. QED
    BY <2>1, StateOf DEF State, Members
<1>3. Meant(told) /\ told.client.error
  <2>1. [w.client EXCEPT !.error = TRUE] \in Client /\ [w.client EXCEPT !.error = TRUE].error
    BY StateOf DEF Client
  <2>. HIDE DEF failed
  <2>. QED
    BY <1>2, <2>1 DEF State
<1>4. /\ Meant(FinishInitialization(failed, "error"))
      /\ FinishInitialization(failed, "error").client.error
  <2>. HIDE DEF failed, told
  <2>1. failed \in State /\ failed.r \in Members
    BY <1>2, StateOf
  <2>. DEFINE v == FinishInitialization(failed, "error")
              m == [failed.r EXCEPT !.init_cb = FALSE]
  <2>2. /\ v \in State /\ v.child = failed.child /\ v.tasks = failed.tasks /\ v.r = m
        /\ v.client.error
    BY <2>1, InitializationFinishes
  <2>3. /\ m.state = failed.r.state /\ m.has = failed.r.has /\ m.playing = failed.r.playing
        /\ m.time_ticking = failed.r.time_ticking
    BY <2>1 DEF Members
  <2>. HIDE DEF m, v
  <2>. QED
    BY <1>2, <2>2, <2>3 DEF v
<1>5. Meant(FinishFlush(told)) /\ FinishFlush(told).client.error
  <2>. HIDE DEF failed, told
  <2>1. told \in State /\ told.r \in Members /\ told.client \in Client /\ told.client.error
    BY <1>3, StateOf
  <2>. DEFINE v == FinishFlush(told)
              m == [told.r EXCEPT !.flush_cb = FALSE]
              c == [told.client EXCEPT !.op = "flushed"]
  <2>2. /\ v \in State /\ v.child = told.child /\ v.tasks = told.tasks /\ v.r = m
        /\ v.client = c
    BY <2>1, FlushFinishes
  <2>3. /\ m.state = told.r.state /\ m.has = told.r.has /\ m.playing = told.r.playing
        /\ m.time_ticking = told.r.time_ticking
    BY <2>1 DEF Members
  <2>4. c.error
    BY <2>1 DEF Client
  <2>. HIDE DEF m, v, c
  <2>. QED
    BY <1>3, <2>2, <2>3, <2>4 DEF v
<1>6. CASE w.r.state # "ERROR"
  <2>1. OnError(w) \in {FinishInitialization(failed, "error"), FinishFlush(told), told}
    <3>1. /\ failed = [w EXCEPT !.r.state = "ERROR"]
          /\ told = [failed EXCEPT !.client.error = TRUE]
      OBVIOUS
    <3>. HIDE DEF failed, told
    <3>. QED
      BY <1>6, <3>1 DEF OnError
  <2>. HIDE DEF failed, told
  <2>. QED
    BY <1>3, <1>4, <1>5, <2>1
<1>. QED
  BY <1>1, <1>6

LEMMA OnErrorFits ==
  ASSUME NEW w \in State, ClockFits(w), w.r.state = "ERROR" => w.client.error
  PROVE  OnError(w) \in State /\ Fits(OnError(w)) /\ Halted(OnError(w))
<1>. DEFINE v == OnError(w)
<1>1. /\ v \in State /\ v.child = w.child /\ v.tasks = w.tasks
      /\ v.r.state = "ERROR" /\ v.client.error
      /\ v.r.has = w.r.has /\ v.r.playing = w.r.playing
      /\ v.r.time_ticking = w.r.time_ticking
  BY OnErrorDoes
<1>. HIDE DEF v
<1>2. ClockFits(v)
  BY <1>1 DEF ClockFits, PlaysOn, At, Free
<1>. QED
  BY <1>1, <1>2, HaltedFits DEF Halted, v

LEMMA NowIs ==
  ASSUME Lives
  PROVE  /\ Now \in State /\ Fits(Now) /\ setup \in Setups
         /\ Now.r = r /\ Now.child = child /\ Now.tasks = tasks /\ Now.client = client
         /\ r \in Members /\ child \in [Types -> Filled]
         /\ \A t \in Types : child[t] \in Filled
  BY StateOf DEF Lives, Now

LEMMA ActDecoderInitialized ==
  ASSUME Lives, UNCHANGED setup, NEW t \in Types, NEW status \in {"ok", "error"},
         DecoderInitialized(t, status)
  PROVE  Lives'
<1>. DEFINE state == IF status = "ok" THEN "kFlushed" ELSE "kUninitialized"
            c == [child[t] EXCEPT !.state = state]
            e == IF child[t].then = "InitializeDone" THEN Task("InitializeDone", t, status)
                 ELSE Task("Reinitialized", t, status)
            v == Post(With(Now, t, c), e)
<1>1. Become(v)
  BY NowIs DEF DecoderInitialized, With, Now
<1>2. e \in Of(t)
  BY Kind
<1>3. /\ c \in Filled /\ c.state = state /\ c.then = child[t].then
      /\ c.buffering_state = child[t].buffering_state /\ c.ended = child[t].ended
  <2>1. child[t] \in Filled /\ state \in {"kFlushed", "kUninitialized"}
    BY NowIs
  <2>. HIDE DEF state
  <2>. QED
    BY <2>1 DEF Filled, Child
<1>. HIDE DEF c
<1>4. Does(v, Now, t, e) /\ v.child[t] = c
  <2>. HIDE DEF e
  <2>. QED
    BY <1>2, <1>3, NowIs, ChildDoes
<1>5. Fits(v)
  <2>1. At(Now, t, {"kInitializing"})
    BY NowIs DEF DecoderInitialized, Is, At
  <2>2. e = IF Now.child[t].then = "InitializeDone" THEN Task("InitializeDone", t, status)
            ELSE Task("Reinitialized", t, status)
    BY NowIs
  <2>. HIDE DEF e, v
  <2>. QED
    BY <1>3, <1>4, <2>1, <2>2, NowIs, DecoderInitializedFits
<1>6. Bounded'
  BY SpendBounded DEF DecoderInitialized
<1>. QED
  BY <1>1, <1>4, <1>5, <1>6, NowIs, Becomes DEF Does

LEMMA ActEnough ==
  ASSUME Lives, UNCHANGED setup, NEW t \in Types, NEW eos \in BOOLEAN, Enough(t, eos)
  PROVE  Lives'
<1>. DEFINE over == t = "video" /\ eos /\ ~child[t].frames
            frames == t = "video" /\ (child[t].frames \/ ~eos)
            c == [child[t] EXCEPT !.buffering_state = "HAVE_ENOUGH", !.eos = eos,
                                  !.ended = over, !.frames = frames]
            x == With(Now, t, c)
            y == IF over THEN Post(x, Task("Ended", t, "none")) ELSE x
            e == Report(t, "HAVE_ENOUGH")
            v == Post(y, e)
<1>1. Become(v)
  <2>1. x = [Now EXCEPT !.child[t] =
               [@ EXCEPT !.buffering_state = "HAVE_ENOUGH", !.eos = eos, !.ended = over,
                         !.frames = t = "video" /\ (child[t].frames \/ ~eos)]]
    BY DEF With, Now
  <2>. HIDE DEF x
  <2>. QED
    BY <2>1 DEF Enough, Report
<1>2. /\ child[t] \in Filled /\ child[t].state = "kPlaying"
      /\ child[t].buffering_state = "HAVE_NOTHING" /\ ~child[t].ended
  BY NowIs DEF Enough, Is, Filled
<1>3. /\ c \in Filled /\ c.state = "kPlaying" /\ c.then = child[t].then
      /\ c.buffering_state = "HAVE_ENOUGH" /\ (c.ended <=> over)
  <2>1. over \in BOOLEAN /\ frames \in BOOLEAN /\ (over => eos)
    BY <1>2 DEF Filled, Child
  <2>. HIDE DEF over, frames
  <2>. QED
    BY <1>2, <2>1 DEF Filled, Child, Buffering
<1>. HIDE DEF c
<1>4. /\ x \in State /\ x.r = r /\ x.tasks = tasks /\ x.client = client
      /\ Others(x, Now, t) /\ x.child[t] = c
  BY <1>3, NowIs, ChildBecomes
<1>5. e \in Reports(t) /\ e \in Of(t) /\ e \in Tasks /\ e \notin Ended(t)
  BY Kind DEF Buffering
<1>6. Task("Ended", t, "none") \in Ended(t) /\ Task("Ended", t, "none") \in Of(t)
      /\ Task("Ended", t, "none") \in Tasks
  BY Kind
<1>. HIDE DEF x, e
<1>7. /\ y \in State /\ y.r = r /\ y.client = client /\ y.child = x.child
      /\ IF over THEN Gains(tasks, Task("Ended", t, "none"), y.tasks) ELSE y.tasks = tasks
  BY <1>4, <1>6, Posted
<1>. HIDE DEF y, over
<1>8. /\ v \in State /\ v.r = r /\ v.client = client /\ v.child = x.child
      /\ Gains(y.tasks, e, v.tasks)
  BY <1>5, <1>7, Posted
<1>. HIDE DEF v, Task
<1>9. Fits(v)
  <2>1. e \notin ClientFlushed /\ \A u \in Types \ {t} : e \notin Of(u)
    BY <1>5, Kind
  <2>2. /\ Task("Ended", t, "none") \notin ClientFlushed
        /\ \A u \in Types \ {t} : Task("Ended", t, "none") \notin Of(u)
    BY <1>6, Kind
  <2>3. \A W : e \notin W /\ Task("Ended", t, "none") \notin W => SameQueue(v.tasks, tasks, W)
    <3>1. \A W : e \notin W => SameQueue(v.tasks, y.tasks, W)
      BY <1>8, QueueKept
    <3>2. \A W : Task("Ended", t, "none") \notin W => SameQueue(y.tasks, tasks, W)
      BY <1>7, QueueKept
    <3>. QED
      BY <3>1, <3>2 DEF SameQueue
  <2>4. Moves(v, Now, t)
    <3>1. PlaysOn(Now, t) => PlaysOn(v, t)
      <4>1. Hears(v.tasks, tasks, t)
        <5>1. Hears(v.tasks, y.tasks, t)
          BY <1>5, <1>8, Heard
        <5>2. Hears(y.tasks, tasks, t)
          BY <1>6, <1>7, Heard DEF Hears
        <5>. QED
          BY <5>1, <5>2 DEF Hears
      <4>. QED
        BY <1>2, <1>3, <1>4, <1>8, <4>1, NowIs DEF PlaysOn, Free, At, Hears
    <3>2. ~At(Now, t, {"kUninitialized"})
      BY <1>2, NowIs DEF At
    <3>. QED
      BY <1>4, <1>8, <2>1, <2>2, <2>3, <3>1, <3>2, NowIs DEF Moves, Others
  <2>5. Hears(v.tasks, Now.tasks, t)
    <3>1. Hears(v.tasks, y.tasks, t)
      BY <1>5, <1>8, Heard
    <3>2. Hears(y.tasks, tasks, t)
      BY <1>6, <1>7, Heard DEF Hears
    <3>. QED
      BY <3>1, <3>2, NowIs DEF Hears
  <2>6. Has(v.tasks, Ended(t)) => Has(Now.tasks, Ended(t)) \/ over
    <3>1. Has(v.tasks, Ended(t)) => Has(y.tasks, Ended(t))
      BY <1>5, <1>8 DEF Gains
    <3>2. ~over => y.tasks = Now.tasks
      BY <1>7, NowIs
    <3>. QED
      BY <3>1, <3>2
  <2>7. Has(v.tasks, Reports(t)) /\ LastOf(v.tasks, Reports(t), e)
    BY <1>5, <1>8 DEF Gains
  <2>8. Known(v, t)
    BY <1>3, <1>4, <1>8, <2>7 DEF Known, e
  <2>9. At(Now, t, {"kPlaying"})
    BY <1>2, NowIs DEF At
  <2>. QED
    BY <1>2, <1>3, <1>4, <1>8, <2>4, <2>5, <2>6, <2>7, <2>8, <2>9, NowIs, TellsFits
<1>10. Bounded'
  BY SpendBounded DEF Enough
<1>. QED
  BY <1>1, <1>8, <1>9, <1>10, NowIs, Becomes DEF v

(* Nothing of this renderer that the invariant sees.                        *)
LEMMA BarelyMoves ==
  ASSUME NEW w \in State, Fits(w), NEW t \in Types, NEW c \in Filled, Alike(c, w.child[t])
  PROVE  With(w, t, c) \in State /\ Fits(With(w, t, c))
<1>. DEFINE v == With(w, t, c)
<1>1. /\ v \in State /\ v.r = w.r /\ v.tasks = w.tasks /\ v.client = w.client
      /\ Others(v, w, t) /\ v.child[t] = c
  BY ChildBecomes
<1>. HIDE DEF v
<1>2. Unseen(v, w)
  BY <1>1 DEF Unseen, LikeChildren, Alike, SameMembers, SameQueue, Others
<1>. QED
  BY <1>1, <1>2, UnseenFits DEF v

LEMMA ActFrameArrives ==
  ASSUME Lives, UNCHANGED setup, FrameArrives
  PROVE  Lives'
<1>. DEFINE c == [child["video"] EXCEPT !.frames = TRUE]
            v == With(Now, "video", c)
<1>1. Become(v)
  BY NowIs DEF FrameArrives, With, Now
<1>2. c \in Filled /\ Alike(c, child["video"])
  <2>1. child["video"] \in Filled
    BY NowIs DEF Types
  <2>. QED
    BY <2>1 DEF Filled, Child, Alike
<1>. HIDE DEF c
<1>3. v \in State /\ Fits(v)
  BY <1>2, NowIs, BarelyMoves DEF Types
<1>4. Bounded'
  BY SpendBounded DEF FrameArrives
<1>. QED
  BY <1>1, <1>3, <1>4, NowIs, Becomes

LEMMA ActEndOfStream ==
  ASSUME Lives, UNCHANGED setup, NEW t \in Types, EndOfStream(t)
  PROVE  Lives'
<1>. DEFINE c == [child[t] EXCEPT !.eos = TRUE]
            v == With(Now, t, c)
<1>1. Become(v)
  BY NowIs DEF EndOfStream, With, Now
<1>2. c \in Filled /\ Alike(c, child[t])
  <2>1. child[t] \in Filled
    BY NowIs
  <2>. QED
    BY <2>1 DEF EndOfStream, Filled, Child, Alike
<1>. HIDE DEF c
<1>3. v \in State /\ Fits(v)
  BY <1>2, NowIs, BarelyMoves
<1>4. Bounded'
  BY SpendBounded DEF EndOfStream
<1>. QED
  BY <1>1, <1>3, <1>4, NowIs, Becomes

(* A renderer that changes as in TellsFits and posts one task.               *)
LEMMA OneTask ==
  ASSUME NEW w \in State, NEW v, NEW t \in Types, NEW e \in Reports(t) \cup Ended(t),
         Does(v, w, t, e), v.child[t].state = w.child[t].state,
         ~At(w, t, {"kUninitialized"}) \/ ~Quiet(w, t)
  PROVE  Moves(v, w, t) /\ Hears(v.tasks, w.tasks, t)
<1>1. e \in Of(t)
  BY Kind
<1>2. Hears(v.tasks, w.tasks, t)
  BY Heard DEF Does
<1>3. PlaysOn(w, t) => PlaysOn(v, t)
  BY <1>2 DEF PlaysOn, Free, At, Hears, Does
<1>. QED
  BY <1>1, <1>2, <1>3, DoesMove

LEMMA ActRendersTheEnd ==
  ASSUME Lives, UNCHANGED setup, NEW t \in Types, RendersTheEnd(t)
  PROVE  Lives'
<1>. DEFINE c == [child[t] EXCEPT !.ended = TRUE]
            e == Task("Ended", t, "none")
            v == Post(With(Now, t, c), e)
<1>1. Become(v)
  BY NowIs DEF RendersTheEnd, With, Now
<1>2. child[t] \in Filled /\ child[t].state = "kPlaying" /\ child[t].eos
  BY NowIs DEF RendersTheEnd, Is
<1>3. /\ c \in Filled /\ c.state = "kPlaying" /\ c.then = child[t].then
      /\ c.buffering_state = child[t].buffering_state /\ c.ended
  BY <1>2 DEF Filled, Child
<1>4. e \in Ended(t) /\ e \in Of(t)
  BY Kind
<1>. HIDE DEF c, e
<1>5. Does(v, Now, t, e) /\ v.child[t] = c
  BY <1>3, <1>4, NowIs, ChildDoes
<1>. HIDE DEF v
<1>6. Fits(v)
  <2>1. At(Now, t, {"kPlaying"}) /\ ~At(Now, t, {"kUninitialized"})
    BY <1>2, NowIs DEF At
  <2>2. Moves(v, Now, t) /\ Hears(v.tasks, Now.tasks, t)
    BY <1>2, <1>3, <1>4, <1>5, <2>1, NowIs, OneTask
  <2>3. /\ Has(v.tasks, Reports(t)) <=> Has(Now.tasks, Reports(t))
        /\ \A x : LastOf(Now.tasks, Reports(t), x) => LastOf(v.tasks, Reports(t), x)
    <3>1. e \notin Reports(t)
      BY <1>4, Kind
    <3>. QED
      BY <1>5, <3>1 DEF Does, Gains
  <2>4. Known(Now, t) => Known(v, t)
    BY <1>3, <1>5, <2>3, NowIs DEF Known, Does
  <2>. QED
    BY <1>2, <1>3, <1>5, <2>1, <2>2, <2>4, NowIs, TellsFits
<1>7. Bounded'
  BY SpendBounded DEF RendersTheEnd
<1>. QED
  BY <1>1, <1>5, <1>6, <1>7, NowIs, Becomes DEF Does, v

(* A renderer that had enough and has nothing.                              *)
Empties(v, w, t) ==
  /\ Does(v, w, t, Report(t, "HAVE_NOTHING"))
  /\ v.child[t].state = w.child[t].state /\ v.child[t].then = w.child[t].then
  /\ v.child[t].buffering_state = "HAVE_NOTHING"

LEMMA EmptiesFits ==
  ASSUME NEW w \in State, Fits(w), NEW t \in Types, NEW v, Empties(v, w, t),
         w.child[t].buffering_state = "HAVE_ENOUGH", ~w.child[t].ended
  PROVE  Fits(v)
<1>. DEFINE e == Report(t, "HAVE_NOTHING")
<1>1. e \in Reports(t) /\ e \notin Ended(t)
  BY Kind DEF Buffering
<1>2. Does(v, w, t, e)
  BY DEF Empties
<1>3. e = Report(t, v.child[t].buffering_state)
  BY DEF Empties
<1>. HIDE DEF e
<1>4. Moves(v, w, t) /\ Hears(v.tasks, w.tasks, t)
  BY <1>1, <1>2, OneTask DEF Empties, Quiet
<1>5. Has(v.tasks, Reports(t)) /\ LastOf(v.tasks, Reports(t), e)
      /\ (Has(v.tasks, Ended(t)) <=> Has(w.tasks, Ended(t)))
  BY <1>1, <1>2 DEF Does, Gains
<1>6. Known(v, t)
  BY <1>3, <1>5 DEF Known
<1>. QED
  BY <1>4, <1>5, <1>6, TellsFits DEF Empties

LEMMA ActUnderflows ==
  ASSUME Lives, UNCHANGED setup, NEW t \in Types, Underflows(t)
  PROVE  Lives'
<1>1. CASE t = "audio"
  <2>. DEFINE c == [child[t] EXCEPT !.buffering_state = "HAVE_NOTHING"]
              e == Report(t, "HAVE_NOTHING")
              v == Post(With(Now, t, c), e)
  <2>1. Become(v)
    BY <1>1, NowIs DEF Underflows, With, Now, Report
  <2>2. /\ child[t] \in Filled /\ child[t].buffering_state = "HAVE_ENOUGH"
        /\ ~child[t].eos /\ ~child[t].ended
    BY NowIs DEF Underflows, Filled
  <2>3. /\ c \in Filled /\ c.state = child[t].state /\ c.then = child[t].then
        /\ c.buffering_state = "HAVE_NOTHING"
    BY <2>2 DEF Filled, Child, Buffering
  <2>4. e \in Of(t)
    BY Kind DEF Buffering
  <2>. HIDE DEF c
  <2>5. Does(v, Now, t, e) /\ v.child[t] = c
    BY <2>3, <2>4, NowIs, ChildDoes
  <2>. HIDE DEF v
  <2>6. Fits(v)
    BY <2>2, <2>3, <2>5, NowIs, EmptiesFits DEF Empties
  <2>7. Bounded'
    BY SpendBounded DEF Underflows
  <2>. QED
    BY <2>1, <2>5, <2>6, <2>7, NowIs, Becomes DEF Does, v
<1>2. CASE t # "audio"
  <2>. DEFINE e == Task("HaveNothing", t, "none")
              v == Post(Now, e)
  <2>1. Become(v)
    BY <1>2 DEF Underflows
  <2>2. e \in Tasks /\ e \notin Watched
    BY DEF Tasks, Task, Watched, Of, ClientFlushed, Types
  <2>. HIDE DEF e
  <2>3. v \in State /\ v.r = Now.r /\ v.child = Now.child /\ v.client = Now.client
        /\ Gains(Now.tasks, e, v.tasks)
    BY <2>2, NowIs, Posted
  <2>. HIDE DEF v
  <2>4. SameQueue(v.tasks, Now.tasks, Watched)
    BY <2>2, <2>3, QueueKept
  <2>5. Now.r.state \in {"UNINITIALIZED", "INIT_PENDING_CDM"} => FALSE
    BY NowIs DEF Fits, Begins, Underflows, Unused, Quiet
  <2>6. Fits(v)
    BY <2>3, <2>4, <2>5, NowIs, UnseenFits DEF Unseen, LikeChildren, Alike, SameMembers
  <2>7. Bounded'
    BY SpendBounded DEF Underflows
  <2>. QED
    BY <2>1, <2>3, <2>6, <2>7, NowIs, Becomes DEF v
<1>. QED
  BY <1>1, <1>2

LEMMA ActDecoderReset ==
  ASSUME Lives, UNCHANGED setup, NEW t \in Types, DecoderReset(t)
  PROVE  Lives'
<1>. DEFINE c == [child[t] EXCEPT !.state = "kFlushed", !.eos = FALSE, !.ended = FALSE,
                                  !.buffering_state = "HAVE_NOTHING"]
            x == With(Now, t, c)
            n == Report(t, "HAVE_NOTHING")
            e == Task("Flushed", t, "none")
            y == IF child[t].buffering_state = "HAVE_NOTHING" THEN x ELSE Post(x, n)
            v == Post(y, e)
<1>1. Become(v)
  <2>1. x = [Now EXCEPT !.child[t] =
               [@ EXCEPT !.state = "kFlushed", !.eos = FALSE, !.ended = FALSE,
                         !.buffering_state = "HAVE_NOTHING"]]
    BY DEF With, Now
  <2>. HIDE DEF x
  <2>. QED
    BY <2>1 DEF DecoderReset, Report
<1>2. child[t] \in Filled /\ child[t].state = "kFlushing"
  BY NowIs DEF DecoderReset, Is
<1>3. /\ c \in Filled /\ c.state = "kFlushed" /\ c.then = child[t].then
      /\ c.buffering_state = "HAVE_NOTHING" /\ ~c.ended
  BY <1>2 DEF Filled, Child, Buffering
<1>. HIDE DEF c
<1>4. /\ x \in State /\ x.r = r /\ x.tasks = tasks /\ x.client = client
      /\ Others(x, Now, t) /\ x.child[t] = c
  BY <1>3, NowIs, ChildBecomes
<1>5. /\ n \in Of(t) /\ n \in Tasks /\ n \notin ClientFlushed
      /\ \A u \in Types \ {t} : n \notin Of(u)
  BY Kind DEF Buffering
<1>6. /\ e \in Flushed(t) /\ e \in Of(t) /\ e \in Tasks /\ e \notin ClientFlushed
      /\ \A u \in Types \ {t} : e \notin Of(u)
  BY Kind
<1>. HIDE DEF x, e
<1>7. /\ y \in State /\ y.r = r /\ y.client = client /\ y.child = x.child
      /\ IF child[t].buffering_state = "HAVE_NOTHING" THEN y.tasks = tasks
         ELSE Gains(tasks, n, y.tasks)
  <2>. HIDE DEF n
  <2>. QED
    BY <1>4, <1>5, Posted
<1>. HIDE DEF y
<1>8. /\ v \in State /\ v.r = r /\ v.client = client /\ v.child = x.child
      /\ Gains(y.tasks, e, v.tasks)
  BY <1>6, <1>7, Posted
<1>. HIDE DEF v
<1>9. Moves(v, Now, t)
  <2>1. \A W : e \notin W /\ n \notin W => SameQueue(v.tasks, tasks, W)
    <3>. HIDE DEF n
    <3>1. \A W : e \notin W => SameQueue(v.tasks, y.tasks, W)
      BY <1>8, QueueKept
    <3>2. \A W : n \notin W => SameQueue(y.tasks, tasks, W)
      BY <1>7, QueueKept
    <3>. QED
      BY <3>1, <3>2 DEF SameQueue
  <2>2. ~At(Now, t, {"kUninitialized"}) /\ ~PlaysOn(Now, t)
    BY <1>2, NowIs DEF At, PlaysOn
  <2>. HIDE DEF n
  <2>. QED
    BY <1>4, <1>5, <1>6, <1>8, <2>1, <2>2, NowIs DEF Moves, Others
<1>10. Fits(v)
  <2>1. At(Now, t, {"kFlushing"})
    BY <1>2, NowIs DEF At
  <2>2. IF Now.child[t].buffering_state = "HAVE_NOTHING" THEN y.tasks = Now.tasks
        ELSE Gains(Now.tasks, Report(t, "HAVE_NOTHING"), y.tasks)
    BY <1>7, NowIs
  <2>. QED
    BY <1>3, <1>4, <1>6, <1>8, <1>9, <2>1, <2>2, NowIs, DecoderResetFits
<1>11. Bounded'
  BY SpendBounded DEF DecoderReset
<1>. QED
  BY <1>1, <1>8, <1>10, <1>11, NowIs, Becomes DEF v

LEMMA ActFails ==
  ASSUME Lives, UNCHANGED setup, NEW t \in Types, Fails(t)
  PROVE  Lives'
<1>1. Bounded'
  BY SpendBounded DEF Fails
<1>2. CASE Become(Post(Now, Task("Error", t, "none")))
  <2>. DEFINE e == Task("Error", t, "none")
              v == Post(Now, e)
  <2>1. e \in Tasks /\ e \notin Watched
    BY DEF Tasks, Task, Watched, Of, ClientFlushed, Types
  <2>2. Become(v)
    BY <1>2
  <2>. HIDE DEF e
  <2>3. v \in State /\ v.r = Now.r /\ v.child = Now.child /\ v.client = Now.client
        /\ Gains(Now.tasks, e, v.tasks)
    BY <2>1, NowIs, Posted
  <2>. HIDE DEF v
  <2>4. SameQueue(v.tasks, Now.tasks, Watched)
    BY <2>1, <2>3, QueueKept
  <2>5. Now.r.state \in {"UNINITIALIZED", "INIT_PENDING_CDM"} => FALSE
    BY NowIs DEF Fits, Begins, Fails, Is, At
  <2>6. Fits(v)
    BY <2>3, <2>4, <2>5, NowIs, UnseenFits DEF Unseen, LikeChildren, Alike, SameMembers
  <2>. QED
    BY <1>1, <2>2, <2>3, <2>6, NowIs, Becomes
<1>3. CASE Become(OnError(Now))
  <2>1. OnError(Now) \in State /\ Fits(OnError(Now))
    BY NowIs, OnErrorFits DEF Fits
  <2>. QED
    BY <1>1, <1>3, <2>1, NowIs, Becomes
<1>. QED
  BY <1>2, <1>3 DEF Fails

LEMMA ActRenders ==
  ASSUME Lives, UNCHANGED setup, NEW t \in Types, Renders(t)
  PROVE  Lives'
  BY ActDecoderInitialized, ActEnough, ActEndOfStream, ActRendersTheEnd, ActUnderflows,
     ActDecoderReset, ActFails DEF Renders

(**************************************************************************)
(*                       Buffering and the deferral                         *)
(**************************************************************************)

(* What is left as it is, but for the clock and the renderers it starts.     *)
Steady(v, s) ==
  /\ LikeChildren(v, s) /\ v.tasks = s.tasks
  /\ v.client.op = s.client.op /\ v.client.error = s.client.error
  /\ v.client.ended = s.client.ended
  /\ v.r.state = s.r.state /\ v.r.has = s.r.has /\ v.r.ended = s.r.ended
  /\ v.r.pending_track_change = s.r.pending_track_change
  /\ \A u \in Types : s.r.playing[u] => v.r.playing[u]

SetBuffering(w, t, new) == [w EXCEPT !.r.buffering_state[t] = new]

LEMMA BufferingSet ==
  ASSUME NEW s \in State, NEW t \in Types, NEW new \in Buffering
  PROVE  LET v == SetBuffering(s, t, new)
         IN  /\ v \in State /\ Steady(v, s)
             /\ v.r.deferred = s.r.deferred /\ v.r.time_ticking = s.r.time_ticking
             /\ v.r.buffering_state = [s.r.buffering_state EXCEPT ![t] = new]
<1>. DEFINE b == [s.r.buffering_state EXCEPT ![t] = new]
            m == [s.r EXCEPT !.buffering_state = b]
<1>1. SetBuffering(s, t, new) = [s EXCEPT !.r = m]
  BY DEF SetBuffering
<1>2. b \in [Types -> Buffering]
  BY StateOf DEF Members
<1>. HIDE DEF b
<1>3. /\ m \in Members /\ m.buffering_state = b /\ m.deferred = s.r.deferred
      /\ m.time_ticking = s.r.time_ticking /\ m.state = s.r.state /\ m.has = s.r.has
      /\ m.ended = s.r.ended /\ m.pending_track_change = s.r.pending_track_change
      /\ m.playing = s.r.playing
  BY <1>2, StateOf DEF Members
<1>. HIDE DEF m
<1>4. /\ [s EXCEPT !.r = m] \in State /\ [s EXCEPT !.r = m].r = m
      /\ [s EXCEPT !.r = m].child = s.child /\ [s EXCEPT !.r = m].tasks = s.tasks
      /\ [s EXCEPT !.r = m].client = s.client
  BY <1>3 DEF State
<1>. QED
  BY <1>1, <1>3, <1>4 DEF Steady, LikeChildren, Alike, b

(* CancelDeferred() and the new state.                                       *)
Overtakes(s, t, new) ==
  ~AwaitsVideo(s, t) /\ s.r.deferred # "cancelled" /\ t = "audio" /\ new = "HAVE_NOTHING"

Learns(v, s, t, new) ==
  /\ v.r.deferred = IF AwaitsVideo(s, t) \/ Overtakes(s, t, new) THEN "cancelled"
                    ELSE s.r.deferred
  /\ v.r.buffering_state[t] = new
  /\ \A u \in Types \ {t} :
       v.r.buffering_state[u] = IF Overtakes(s, t, new) THEN "HAVE_NOTHING"
                                ELSE s.r.buffering_state[u]

LEMMA DeferredCancelled ==
  ASSUME NEW s \in State, NEW t \in Types, NEW new \in Buffering
  PROVE  LET v == SetBuffering(CancelDeferred(s, t, new), t, new)
         IN  /\ v \in State /\ Steady(v, s) /\ v.r.time_ticking = s.r.time_ticking
             /\ Learns(v, s, t, new)
<1>. DEFINE x == CancelDeferred(s, t, new)
            b == IF Overtakes(s, t, new) THEN [s.r.buffering_state EXCEPT !["video"] = "HAVE_NOTHING"]
                 ELSE s.r.buffering_state
            d == IF AwaitsVideo(s, t) \/ Overtakes(s, t, new) THEN "cancelled"
                 ELSE s.r.deferred
            m == [s.r EXCEPT !.deferred = d, !.buffering_state = b]
<1>0. s.r \in Members
  BY StateOf
<1>1. x = [s EXCEPT !.r = m]
  <2>0. s = [r |-> s.r, child |-> s.child, tasks |-> s.tasks, client |-> s.client]
    BY StateOf
  <2>1. CASE AwaitsVideo(s, t)
    <3>1. x = [s EXCEPT !.r.deferred = "cancelled"] /\ ~Overtakes(s, t, new)
      BY <2>1 DEF CancelDeferred, Overtakes
    <3>2. m = [s.r EXCEPT !.deferred = "cancelled"]
      BY <1>0, <2>1, <3>1 DEF Members
    <3>. HIDE DEF x, m
    <3>. QED
      BY <2>0, <3>1, <3>2
  <2>2. CASE Overtakes(s, t, new)
    <3>1. x = [s EXCEPT !.r.deferred = "cancelled",
                        !.r.buffering_state["video"] = "HAVE_NOTHING"]
      BY <2>2 DEF CancelDeferred, Overtakes
    <3>2. m = [s.r EXCEPT !.deferred = "cancelled",
                 !.buffering_state = [s.r.buffering_state EXCEPT !["video"] = "HAVE_NOTHING"]]
      BY <2>2 
    <3>. HIDE DEF x, m
    <3>. QED
      BY <1>0, <2>0, <3>1, <3>2 DEF Members
  <2>3. CASE ~AwaitsVideo(s, t) /\ ~Overtakes(s, t, new)
    <3>1. x = s
      BY <2>3 DEF CancelDeferred, Overtakes
    <3>2. m = s.r
      BY <1>0, <2>3 DEF Members
    <3>. HIDE DEF x, m
    <3>. QED
      BY <2>0, <3>1, <3>2
  <2>. QED
    BY <2>1, <2>2, <2>3
<1>2. b \in [Types -> Buffering] /\ d \in {"cancelled", "waiting", "run"}
  BY <1>0 DEF Members, Buffering
<1>. HIDE DEF b, d, x
<1>3. /\ m \in Members /\ m.buffering_state = b /\ m.deferred = d
      /\ m.time_ticking = s.r.time_ticking /\ m.state = s.r.state /\ m.has = s.r.has
      /\ m.ended = s.r.ended /\ m.pending_track_change = s.r.pending_track_change
      /\ m.playing = s.r.playing
  BY <1>0, <1>2 DEF Members
<1>. HIDE DEF m
<1>4. /\ x \in State /\ x.r = m /\ x.child = s.child /\ x.tasks = s.tasks
      /\ x.client = s.client
  BY <1>1, <1>3 DEF State
<1>5. LET v == SetBuffering(x, t, new)
      IN  /\ v \in State /\ Steady(v, x)
          /\ v.r.deferred = d /\ v.r.time_ticking = s.r.time_ticking
          /\ v.r.buffering_state = [b EXCEPT ![t] = new]
  BY <1>3, <1>4, BufferingSet
<1>6. \A u \in Types \ {t} : b[u] = IF Overtakes(s, t, new) THEN "HAVE_NOTHING"
                                    ELSE s.r.buffering_state[u]
  BY <1>0 DEF b, Overtakes, Members, Types
<1>7. Steady(SetBuffering(x, t, new), s)
  BY <1>3, <1>4, <1>5 DEF Steady, LikeChildren, Alike
<1>8. Learns(SetBuffering(x, t, new), s, t, new)
  BY <1>2, <1>5, <1>6 DEF Learns, d
<1>. QED
  BY <1>5, <1>7, <1>8 DEF x

(* What a change of buffering makes of RendererImpl.                         *)
Waits(w) == WaitingForEnoughData(w)

Ignored(v, s, t, new) ==
  /\ new = "HAVE_NOTHING" /\ s.r.pending_track_change[t]
  /\ v.r.buffering_state = [s.r.buffering_state EXCEPT ![t] = new]
  /\ v.r.deferred = s.r.deferred /\ v.r.time_ticking = s.r.time_ticking

Deferred(v, s, t, new) ==
  /\ DefersUnderflow(s, t, new)
  /\ v.r.buffering_state = s.r.buffering_state
  /\ v.r.deferred = "waiting" /\ v.r.time_ticking = s.r.time_ticking

Heeded(v, s, t, new) ==
  /\ Learns(v, s, t, new)
  /\ ~(new = "HAVE_NOTHING" /\ s.r.pending_track_change[t])
  /\ \/ v.r.time_ticking = s.r.time_ticking /\ (Waits(v) => Waits(s))
     \/ ~v.r.time_ticking
     \/ ~Waits(v) /\ Waits(s) /\ \A u \in Types : ~s.r.pending_track_change[u]

Heeds(v, s, t, new) ==
  Ignored(v, s, t, new) \/ Deferred(v, s, t, new) \/ Heeded(v, s, t, new)

LEMMA Told ==
  ASSUME NEW s \in State, NEW b \in Buffering
  PROVE  LET v == Tell(s, b)
         IN  /\ v \in State /\ v.r = s.r /\ v.child = s.child /\ v.tasks = s.tasks
             /\ v.client.op = s.client.op /\ v.client.error = s.client.error
             /\ v.client.ended = s.client.ended
<1>. DEFINE c == [s.client EXCEPT !.told = b]
<1>1. Tell(s, b) = [s EXCEPT !.client = c]
  BY DEF Tell
<1>2. /\ c \in Client /\ c.op = s.client.op /\ c.error = s.client.error
      /\ c.ended = s.client.ended
  BY StateOf DEF Client, Buffering
<1>. HIDE DEF c
<1>. QED
  BY <1>1, <1>2 DEF State

LEMMA BufferingDoes ==
  ASSUME NEW s \in State, NEW t \in Types, NEW new \in Buffering
  PROVE  LET v == OnBufferingStateChange(s, t, new)
         IN  v \in State /\ Steady(v, s) /\ Heeds(v, s, t, new)
<1>. DEFINE v == OnBufferingStateChange(s, t, new)
            now == SetBuffering(CancelDeferred(s, t, new), t, new)
            quiet == \A u \in Types : ~s.r.pending_track_change[u]
            first == new = "HAVE_NOTHING" /\ s.r.pending_track_change[t]
<1>1. v = IF first THEN SetBuffering(s, t, new)
          ELSE IF DefersUnderflow(s, t, new) THEN [s EXCEPT !.r.deferred = "waiting"]
          ELSE IF ~Waits(s) /\ Waits(now) THEN Tell(PausePlayback(now), "HAVE_NOTHING")
          ELSE IF Waits(s) /\ ~Waits(now) /\ quiet
          THEN Tell(StartPlayback(now), "HAVE_ENOUGH")
          ELSE now
  BY DEF OnBufferingStateChange, SetBuffering, Waits
<1>2. now \in State /\ Steady(now, s) /\ now.r.time_ticking = s.r.time_ticking
      /\ Learns(now, s, t, new)
  BY DeferredCancelled
<1>. HIDE DEF now, v
<1>3. \A x : x.r.state = now.r.state /\ x.r.has = now.r.has
             /\ x.r.buffering_state = now.r.buffering_state => (Waits(x) <=> Waits(now))
  BY DEF Waits, WaitingForEnoughData
<1>4. ASSUME first PROVE v \in State /\ Steady(v, s) /\ Ignored(v, s, t, new)
  <2>1. v = SetBuffering(s, t, new)
    BY <1>1, <1>4
  <2>. QED
    BY <1>4, <2>1, BufferingSet DEF Ignored
<1>5. ASSUME ~first, DefersUnderflow(s, t, new)
      PROVE  v \in State /\ Steady(v, s) /\ Deferred(v, s, t, new)
  <2>. DEFINE m == [s.r EXCEPT !.deferred = "waiting"]
  <2>1. v = [s EXCEPT !.r = m]
    BY <1>1, <1>5
  <2>2. /\ m \in Members /\ m.buffering_state = s.r.buffering_state /\ m.deferred = "waiting"
        /\ m.time_ticking = s.r.time_ticking /\ m.state = s.r.state /\ m.has = s.r.has
        /\ m.ended = s.r.ended /\ m.pending_track_change = s.r.pending_track_change
        /\ m.playing = s.r.playing
    BY StateOf DEF Members
  <2>. HIDE DEF m
  <2>3. /\ v \in State /\ v.r = m /\ v.child = s.child /\ v.tasks = s.tasks
        /\ v.client = s.client
    BY <2>1, <2>2 DEF State
  <2>. QED
    BY <1>5, <2>2, <2>3 DEF Steady, LikeChildren, Alike, Deferred
<1>6. ASSUME ~first, ~DefersUnderflow(s, t, new), ~Waits(s), Waits(now)
      PROVE  v \in State /\ Steady(v, s) /\ Heeded(v, s, t, new)
  <2>. DEFINE p == PausePlayback(now)
              m == [now.r EXCEPT !.time_ticking = FALSE]
  <2>1. /\ p \in State /\ LikeChildren(p, now) /\ p.r = m
        /\ p.tasks = now.tasks /\ p.client = now.client
    BY <1>2, Paused
  <2>2. /\ m.buffering_state = now.r.buffering_state /\ m.deferred = now.r.deferred
        /\ ~m.time_ticking /\ m.state = now.r.state /\ m.has = now.r.has
        /\ m.ended = now.r.ended /\ m.playing = now.r.playing
        /\ m.pending_track_change = now.r.pending_track_change
    BY <1>2, StateOf DEF Members
  <2>3. v = Tell(p, "HAVE_NOTHING")
    BY <1>1, <1>6
  <2>. HIDE DEF p, m
  <2>4. /\ v \in State /\ v.r = m /\ v.child = p.child /\ v.tasks = now.tasks
        /\ v.client.op = now.client.op /\ v.client.error = now.client.error
        /\ v.client.ended = now.client.ended
    BY <2>1, <2>3, Told DEF Buffering
  <2>5. Steady(v, s)
    BY <1>2, <2>1, <2>2, <2>4 DEF Steady, LikeChildren, Alike
  <2>. QED
    BY <1>2, <1>6, <2>2, <2>4, <2>5 DEF Heeded, Learns
<1>7. ASSUME ~first, ~DefersUnderflow(s, t, new), Waits(s), ~Waits(now), quiet
      PROVE  v \in State /\ Steady(v, s) /\ Heeded(v, s, t, new)
  <2>. DEFINE p == StartPlayback(now)
  <2>1. /\ p \in State /\ LikeChildren(p, now) /\ LikeMembers(p.r, now.r)
        /\ p.r.time_ticking /\ \A u \in Types : now.r.playing[u] => p.r.playing[u]
        /\ p.tasks = now.tasks /\ p.client = now.client
    BY <1>2, Started
  <2>2. v = Tell(p, "HAVE_ENOUGH")
    BY <1>1, <1>7
  <2>. HIDE DEF p
  <2>3. /\ v \in State /\ v.r = p.r /\ v.child = p.child /\ v.tasks = now.tasks
        /\ v.client.op = now.client.op /\ v.client.error = now.client.error
        /\ v.client.ended = now.client.ended
    BY <2>1, <2>2, Told DEF Buffering
  <2>4. Steady(v, s)
    BY <1>2, <2>1, <2>3 DEF Steady, LikeChildren, Alike, LikeMembers
  <2>5. ~Waits(v)
    BY <1>3, <1>7, <2>1, <2>3 DEF LikeMembers
  <2>. QED
    BY <1>2, <1>7, <2>1, <2>3, <2>4, <2>5 DEF Heeded, Learns, LikeMembers
<1>8. ASSUME ~first, ~DefersUnderflow(s, t, new), ~(~Waits(s) /\ Waits(now)),
             ~(Waits(s) /\ ~Waits(now) /\ quiet)
      PROVE  v \in State /\ Steady(v, s) /\ Heeded(v, s, t, new)
  <2>1. v = now
    BY <1>1, <1>8
  <2>. QED
    BY <1>2, <1>8, <2>1 DEF Heeded
<1>. QED
  BY <1>4, <1>5, <1>6, <1>7, <1>8 DEF v, Heeds

(* Nothing changes but the clock and what is known of the buffering.        *)
Silent == Watched \ (Reports("audio") \cup Reports("video"))

LEMMA SilentKinds ==
  /\ \A t \in Types :
       /\ Ends(t) \in SUBSET Silent /\ Ended(t) \in SUBSET Silent
       /\ Flushed(t) \in SUBSET Silent /\ Inits(t) \in SUBSET Silent
       /\ Reinits(t) \in SUBSET Silent
       /\ \A e \in Reports(t) : e \notin Silent
  /\ ClientFlushed \in SUBSET Silent
<1>1. \A t, u \in Types : \A e \in Of(t) : e \in Reports(u) => u = t
  BY Kind
<1>2. \A t \in Types : \A e \in Ends(t) \cup Ended(t) : e \in Of(t) /\ e \notin Reports(t)
  BY Kind DEF Ends
<1>3. \A t \in Types : \A e \in Reports(t) : e \notin ClientFlushed
  BY Kind
<1>4. \A t \in Types : \A e \in Ends(t) \cup Ended(t) : e \in Silent
  BY <1>1, <1>2, WatchedKinds DEF Silent, Types
<1>5. \A t \in Types : \A e \in Reports(t) : e \notin Silent
  BY DEF Silent, Types
<1>6. ClientFlushed \in SUBSET Silent
  BY <1>3, WatchedKinds DEF Silent, Types
<1>. QED
  BY <1>4, <1>5, <1>6 DEF Ends

Steadily(v, w) ==
  /\ LikeChildren(v, w) /\ SameQueue(v.tasks, w.tasks, Silent)
  /\ v.client.op = w.client.op /\ v.client.error = w.client.error
  /\ v.r.state = w.r.state /\ v.r.has = w.r.has /\ v.r.ended = w.r.ended
  /\ v.r.pending_track_change = w.r.pending_track_change
  /\ \A u \in Types : w.r.playing[u] => v.r.playing[u]

(* Nothing else of a renderer.                                              *)
LEMMA SteadySight ==
  ASSUME NEW v, NEW w, NEW t \in Types, Steadily(v, w)
  PROVE  /\ \A S : At(v, t, S) <=> At(w, t, S)
         /\ Flushing(v, t) <=> Flushing(w, t)
         /\ Initializing(v, t) <=> Initializing(w, t)
         /\ Reinitializing(v, t) <=> Reinitializing(w, t)
         /\ Free(v, t) <=> Free(w, t)
         /\ Has(v.tasks, Ended(t)) <=> Has(w.tasks, Ended(t))
         /\ TurnOf(w, t) => TurnOf(v, t)
         /\ PlaysOn(w, t) => PlaysOn(v, t)
         /\ Resting(w, t) => Resting(v, t)
         /\ Goes(w, t) => Goes(v, t)
         /\ v.child[t].buffering_state = w.child[t].buffering_state
         /\ v.child[t].ended = w.child[t].ended
         /\ v.child[t].then = w.child[t].then
<1>1. /\ v.child[t].state = w.child[t].state /\ v.child[t].then = w.child[t].then
      /\ v.child[t].buffering_state = w.child[t].buffering_state
      /\ v.child[t].ended = w.child[t].ended
  BY DEF Steadily, LikeChildren, Alike
<1>2. /\ Has(v.tasks, Ends(t)) <=> Has(w.tasks, Ends(t))
      /\ Has(v.tasks, Flushed(t)) <=> Has(w.tasks, Flushed(t))
      /\ Has(v.tasks, Inits(t)) <=> Has(w.tasks, Inits(t))
      /\ Has(v.tasks, Reinits(t)) <=> Has(w.tasks, Reinits(t))
      /\ Has(v.tasks, Ended(t)) <=> Has(w.tasks, Ended(t))
      /\ Single(w.tasks, Ends(t)) => Single(v.tasks, Ends(t))
      /\ Before(w.tasks, Ended(t), Flushed(t)) => Before(v.tasks, Ended(t), Flushed(t))
  BY SilentKinds DEF Steadily, SameQueue
<1>3. \A S : At(v, t, S) <=> At(w, t, S)
  BY <1>1 DEF At
<1>4. /\ Flushing(v, t) <=> Flushing(w, t)
      /\ Initializing(v, t) <=> Initializing(w, t)
      /\ Reinitializing(v, t) <=> Reinitializing(w, t)
      /\ Free(v, t) <=> Free(w, t)
  BY <1>1, <1>2, <1>3 DEF Flushing, Initializing, Reinitializing, Free
<1>5. TurnOf(w, t) => TurnOf(v, t)
  BY <1>1, <1>2, <1>3 DEF TurnOf
<1>6. PlaysOn(w, t) => PlaysOn(v, t)
  BY <1>3, <1>4 DEF PlaysOn, Steadily
<1>7. Resting(w, t) => Resting(v, t)
  BY <1>1, <1>2, <1>3, <1>4 DEF Resting, Quiet, Steadily
<1>8. Goes(w, t) => Goes(v, t)
  BY <1>1, <1>2, <1>4, <1>6 DEF Goes, EndFits, PlaybackHasEnded, Steadily
<1>. QED
  BY <1>1, <1>2, <1>3, <1>4, <1>5, <1>6, <1>7, <1>8

LEMMA SteadilyFits ==
  ASSUME NEW v, NEW w \in State, Fits(w), Steadily(v, w), ClockFits(v),
         w.r.state \notin {"UNINITIALIZED", "INIT_PENDING_CDM", "INITIALIZING"},
         w.r.state # "ERROR" /\ Initialized(w) =>
           /\ \A t \in Types : w.r.has[t] /\ Known(w, t) => Known(v, t)
           /\ v.r.deferred # "cancelled" => w.r.has["audio"],
         w.r.state = "PLAYING" => DeferralFits(v) /\ TimeFits(v),
         w.r.state = "PLAYING" /\ w.r.pending_track_change["audio"] => ~v.r.time_ticking
  PROVE  Fits(v)
<1>1. /\ v.client.op = w.client.op /\ v.client.error = w.client.error
      /\ v.r.state = w.r.state /\ v.r.has = w.r.has /\ v.r.ended = w.r.ended
      /\ v.r.pending_track_change = w.r.pending_track_change
      /\ \A u \in Types : w.r.playing[u] => v.r.playing[u]
  BY DEF Steadily
<1>2. CASE w.r.state = "ERROR"
  BY <1>1, <1>2 DEF Fits
<1>3. CASE w.r.state \in {"FLUSHED", "PLAYING", "FLUSHING"}
  <2>1. InTurn(v)
    <3>1. /\ Has(v.tasks, ClientFlushed) <=> Has(w.tasks, ClientFlushed)
          /\ Single(w.tasks, ClientFlushed) => Single(v.tasks, ClientFlushed)
      BY SilentKinds DEF Steadily, SameQueue
    <3>. QED
      BY <1>1, <1>3, <3>1, SteadySight DEF InTurn, Fits
  <2>2. Rests(w) \/ Plays(w) \/ Flushes(w)
    BY <1>3 DEF Fits
  <2>3. Initialized(w)
    BY <2>2 DEF Rests, Plays, Flushes
  <2>4. Initialized(v)
    <3>1. \A t \in Types : Serves(w, t) => Serves(v, t)
      BY <1>1, <1>3, <2>2, <2>3, SteadySight DEF Serves
    <3>. QED
      BY <1>1, <1>3, <2>2, <2>3, <3>1 DEF Initialized
  <2>5. Rests(w) => Rests(v)
    BY <1>1, <2>4, SteadySight DEF Rests
  <2>6. w.r.state = "PLAYING" /\ Plays(w) => Plays(v)
    BY <1>1, <2>4, SteadySight DEF Plays, OneChange, Types
  <2>7. Flushes(w) => Flushes(v)
    <3>1. \A t \in Types :
            /\ Flushing(v, t) <=> Flushing(w, t)
            /\ Reinitializing(v, t) <=> Reinitializing(w, t)
            /\ PlaysOn(w, t) => PlaysOn(v, t)
            /\ Resting(w, t) => Resting(v, t)
            /\ v.child[t].buffering_state = w.child[t].buffering_state
            /\ v.child[t].ended = w.child[t].ended
            /\ v.child[t].then = w.child[t].then
      BY SteadySight, ZenonT(60)
    <3>. QED
      BY <1>1, <2>4, <3>1 DEF Flushes, Types
  <2>. QED
    BY <1>1, <1>3, <2>1, <2>5, <2>6, <2>7 DEF Fits
<1>4. w.r.state \in {"ERROR", "FLUSHED", "PLAYING", "FLUSHING"}
  BY StateOf DEF Members, Fits
<1>. QED
  BY <1>2, <1>3, <1>4

(* The handler of a report finds s, where it has learnt that the renderer t  *)
(* has new: as it has, unless a later report is on its way or a deferral has *)
(* run late.                                                                *)
Hearing(s, w, t, new) ==
  /\ Steadily(s, w) /\ s.r.buffering_state = w.r.buffering_state
  /\ s.r.time_ticking = w.r.time_ticking
  /\ \A u \in Types \ {t} : SameQueue(s.tasks, w.tasks, Of(u))
  /\ s.r.deferred = w.r.deferred
       \/ (w.r.deferred = "waiting" /\ s.r.deferred = "run" /\ t = "video")
  /\ w.r.state # "ERROR" /\ Initialized(w) /\ w.r.has[t] =>
       IF Has(s.tasks, Reports(t))
       THEN LastOf(s.tasks, Reports(t), Report(t, w.child[t].buffering_state))
       ELSE \/ new = w.child[t].buffering_state
            \/ t = "video" /\ w.r.state = "FLUSHING" /\ new = "HAVE_NOTHING"

LEMMA BufferingFits ==
  ASSUME NEW w \in State, Fits(w), NEW t \in Types, NEW new \in Buffering, NEW s, NEW v,
         w.r.state \notin {"UNINITIALIZED", "INIT_PENDING_CDM", "INITIALIZING"},
         Hearing(s, w, t, new), Steady(v, s), Heeds(v, s, t, new)
  PROVE  Fits(v)
<1>1. /\ v.r.state = w.r.state /\ v.r.has = w.r.has /\ v.r.ended = w.r.ended
      /\ v.r.pending_track_change = w.r.pending_track_change
      /\ v.client.op = w.client.op /\ v.client.error = w.client.error
      /\ v.tasks = s.tasks
      /\ s.r.state = w.r.state /\ s.r.has = w.r.has
      /\ s.r.pending_track_change = w.r.pending_track_change
      /\ s.r.buffering_state = w.r.buffering_state /\ s.r.time_ticking = w.r.time_ticking
      /\ \A u \in Types : v.child[u].buffering_state = w.child[u].buffering_state
  BY DEF Steady, Hearing, Steadily, LikeChildren, Alike
<1>2. Steadily(v, w)
  BY DEF Steady, Hearing, Steadily, LikeChildren, Alike
<1>3. /\ w.r.state = "PLAYING" => Plays(w)
      /\ w.r.state = "FLUSHED" => Rests(w)
      /\ w.r.state \in {"FLUSHED", "PLAYING", "FLUSHING", "ERROR"}
  BY StateOf DEF Fits, Members
<1>4. w.r.buffering_state \in [Types -> Buffering]
  BY StateOf DEF Members
<1>5. \A x : Waits(x) <=> x.r.state = "PLAYING"
               /\ \E u \in Types : x.r.has[u] /\ x.r.buffering_state[u] # "HAVE_ENOUGH"
  BY DEF Waits, WaitingForEnoughData
<1>6. AwaitsVideo(s, t) <=> w.r.has["audio"] /\ t = "video" /\ w.r.state = "PLAYING"
  BY <1>1 DEF AwaitsVideo
<1>7. \/ Ignored(v, s, t, new) \/ Deferred(v, s, t, new) \/ Heeded(v, s, t, new)
  BY DEF Heeds
<1>8. Deferred(v, s, t, new) =>
        t = "video" /\ new = "HAVE_NOTHING" /\ w.r.has["audio"] /\ w.r.state = "PLAYING"
  BY <1>6 DEF Deferred, DefersUnderflow
<1>9. v.r.deferred # "cancelled" => w.r.deferred # "cancelled" \/ w.r.has["audio"]
  BY <1>7, <1>8 DEF Ignored, Heeded, Learns, Hearing
<1>10. ASSUME Initialized(w), w.r.has[t], w.r.state # "ERROR"
       PROVE  Known(v, t)
  <2>1. CASE Has(v.tasks, Reports(t))
    BY <1>1, <1>10, <2>1 DEF Hearing, Known
  <2>2. CASE ~Has(v.tasks, Reports(t)) /\ new = w.child[t].buffering_state
    <3>1. Deferred(v, s, t, new) \/ v.r.buffering_state[t] = new
      BY <1>1, <1>4, <1>7 DEF Ignored, Heeded, Learns
    <3>2. Deferred(v, s, t, new) => v.r.deferred = "waiting"
      BY DEF Deferred
    <3>. QED
      BY <1>1, <1>8, <2>2, <3>1, <3>2 DEF Known
  <2>3. CASE ~Has(v.tasks, Reports(t)) /\ t = "video" /\ w.r.state = "FLUSHING"
             /\ new = "HAVE_NOTHING"
    <3>1. v.r.buffering_state[t] = new
      BY <1>1, <1>4, <1>7, <1>8, <2>3 DEF Ignored, Heeded, Learns
    <3>2. w.child[t].buffering_state \in Buffering
      BY StateOf DEF Child
    <3>. QED
      BY <1>1, <2>3, <3>1, <3>2 DEF Known, Buffering
  <2>. QED
    BY <1>1, <1>10, <2>1, <2>2, <2>3 DEF Hearing
<1>11. ASSUME NEW u \in Types \ {t}, Initialized(w), w.r.has[u], Known(w, u),
              w.r.state # "ERROR"
       PROVE  Known(v, u)
  <2>1. /\ Has(v.tasks, Reports(u)) <=> Has(w.tasks, Reports(u))
        /\ \A x : LastOf(w.tasks, Reports(u), x) => LastOf(v.tasks, Reports(u), x)
    <3>1. SameQueue(v.tasks, w.tasks, Of(u)) /\ Reports(u) \in SUBSET Of(u)
      BY <1>1, WatchedKinds DEF Hearing
    <3>. QED
      BY <3>1 DEF SameQueue
  <2>2. CASE Has(w.tasks, Reports(u))
    BY <1>1, <1>11, <2>1, <2>2 DEF Known
  <2>3. CASE ~Has(w.tasks, Reports(u)) /\ ~Overtakes(s, t, new)
    <3>1. v.r.buffering_state[u] = w.r.buffering_state[u]
      BY <1>1, <1>4, <1>7, <2>3 DEF Ignored, Deferred, Heeded, Learns
    <3>2. u = "video" /\ w.r.deferred = "waiting" => v.r.deferred = "waiting"
      BY <1>6, <1>7, <1>8, <2>3 DEF Ignored, Heeded, Learns, Hearing
    <3>. QED
      BY <1>1, <1>11, <2>1, <2>3, <3>1, <3>2 DEF Known
  <2>4. CASE ~Has(w.tasks, Reports(u)) /\ Overtakes(s, t, new)
    <3>1. t = "audio" /\ u = "video" /\ w.r.deferred # "cancelled" /\ new = "HAVE_NOTHING"
      BY <2>4 DEF Overtakes, Hearing, Types
    <3>2. CASE Ignored(v, s, t, new)
      <4>1. v.r.buffering_state[u] = w.r.buffering_state[u] /\ v.r.deferred = w.r.deferred
        BY <1>1, <1>4, <3>1, <3>2 DEF Ignored, Hearing
      <4>. QED
        BY <1>1, <1>11, <2>1, <2>4, <4>1 DEF Known
    <3>3. CASE Heeded(v, s, t, new)
      <4>1. v.r.buffering_state[u] = "HAVE_NOTHING"
        BY <2>4, <3>3 DEF Heeded, Learns
      <4>2. w.child[u].buffering_state = "HAVE_NOTHING" \/ w.r.state = "FLUSHING"
        BY <1>3, <1>11, <2>4, <3>1 DEF Plays, DeferralFits, Rests, Resting, Quiet
      <4>. QED
        <5>1. w.child[u].buffering_state = "HAVE_NOTHING" => Known(v, u)
          BY <1>1, <2>1, <2>4, <4>1 DEF Known
        <5>2. w.r.state = "FLUSHING" => Known(v, u)
          BY <1>1, <2>1, <2>4, <3>1, <4>1 DEF Known
        <5>. QED
          BY <4>2, <5>1, <5>2
    <3>. QED
      BY <1>7, <1>8, <3>1, <3>2, <3>3
  <2>. QED
    BY <2>2, <2>3, <2>4
<1>12. ASSUME w.r.state = "PLAYING" PROVE DeferralFits(v)
  <2>. SUFFICES ASSUME v.r.deferred # "cancelled", w.r.has["video"],
                       ~Has(v.tasks, Reports("video"))
                PROVE  w.child["video"].buffering_state = "HAVE_NOTHING"
    BY <1>1 DEF DeferralFits, Types
  <2>1. Initialized(w) /\ DeferralFits(w)
    BY <1>3, <1>12 DEF Plays
  <2>2. CASE t = "audio"
    <3>1. w.r.deferred # "cancelled"
      BY <1>7, <1>8, <2>2 DEF Ignored, Heeded, Learns, Hearing
    <3>2. ~Has(w.tasks, Reports("video"))
      <4>1. SameQueue(v.tasks, w.tasks, Of("video")) /\ Reports("video") \in SUBSET Of("video")
        BY <1>1, <2>2, WatchedKinds DEF Hearing, Types
      <4>. QED
        BY <4>1 DEF SameQueue
    <3>. QED
      BY <2>1, <3>1, <3>2 DEF DeferralFits
  <2>3. CASE t = "video"
    <3>1. new = w.child[t].buffering_state
      BY <1>1, <1>12, <2>1, <2>3 DEF Hearing
    <3>2. CASE Heeded(v, s, t, new)
      <4>1. ~w.r.has["audio"]
        BY <1>6, <1>12, <2>3, <3>2 DEF Heeded, Learns
      <4>2. w.r.deferred = "cancelled"
        BY <2>1, <4>1 DEF Initialized
      <4>. QED
        BY <2>3, <3>2, <4>2 DEF Heeded, Learns, Hearing, Overtakes
    <3>. QED
      BY <1>7, <1>8, <2>3, <3>1, <3>2 DEF Ignored
  <2>. QED
    BY <2>2, <2>3 DEF Types
<1>13. ASSUME w.r.state = "PLAYING", w.r.pending_track_change["audio"]
       PROVE  ~v.r.time_ticking
  <2>1. ~w.r.time_ticking
    BY <1>3, <1>13 DEF Plays, OneChange
  <2>. QED
    BY <1>1, <1>7, <1>13, <2>1 DEF Ignored, Deferred, Heeded, Types
<1>14. ASSUME w.r.state = "PLAYING" PROVE TimeFits(v)
  <2>. SUFFICES ASSUME setup.changing \subseteq {"audio"}, v.r.time_ticking,
                       NEW u \in Types, w.r.has[u]
                PROVE  v.r.buffering_state[u] = "HAVE_ENOUGH"
    BY <1>1 DEF TimeFits
  <2>1. TimeFits(w) /\ OneChange(w)
    BY <1>3, <1>14 DEF Plays
  <2>2. ~Ignored(v, s, t, new)
    <3>1. ~w.r.pending_track_change["video"] /\ ~w.r.pending_track_change["audio"]
      BY <1>13, <1>14, <2>1 DEF OneChange, Types
    <3>. QED
      BY <1>1, <3>1 DEF Ignored, Types
  <2>3. CASE Deferred(v, s, t, new)
    BY <1>1, <2>1, <2>3 DEF Deferred, TimeFits
  <2>4. CASE Heeded(v, s, t, new)
    <3>1. ~Waits(v)
      <4>1. w.r.time_ticking => ~Waits(s)
        BY <1>1, <1>5, <2>1 DEF TimeFits
      <4>. QED
        BY <1>1, <2>4, <4>1 DEF Heeded
    <3>. QED
      BY <1>1, <1>5, <1>14, <3>1
  <2>. QED
    BY <1>7, <2>2, <2>3, <2>4
<1>15. ClockFits(v)
  <2>1. PlaysOn(w, "audio") => PlaysOn(v, "audio")
    BY <1>2, SteadySight DEF Types
  <2>2. CASE w.r.time_ticking
    BY <1>1, <2>1, <2>2 DEF ClockFits, Fits
  <2>3. CASE ~w.r.time_ticking /\ v.r.time_ticking
    <3>1. Heeded(v, s, t, new)
      BY <1>1, <1>7, <2>3 DEF Ignored, Deferred
    <3>2. Waits(s) /\ \A u \in Types : ~w.r.pending_track_change[u]
      BY <1>1, <2>3, <3>1 DEF Heeded
    <3>3. w.r.state = "PLAYING"
      BY <1>1, <1>5, <3>2
    <3>4. w.r.has["audio"] => PlaysOn(w, "audio")
      BY <1>3, <3>2, <3>3 DEF Plays, Goes, Types
    <3>. QED
      BY <1>1, <2>1, <3>3, <3>4 DEF ClockFits
  <2>. QED
    BY <2>2, <2>3 DEF ClockFits
<1>16. w.r.state # "ERROR" /\ Initialized(w) =>
         /\ \A u \in Types : w.r.has[u] /\ Known(w, u) => Known(v, u)
         /\ v.r.deferred # "cancelled" => w.r.has["audio"]
  BY <1>9, <1>10, <1>11 DEF Initialized
<1>. QED
  BY <1>2, <1>12, <1>13, <1>14, <1>15, <1>16, SteadilyFits

LEMMA ActDeferredUnderflow ==
  ASSUME Lives, UNCHANGED setup, DeferredUnderflow
  PROVE  Lives'
<1>. DEFINE m == [r EXCEPT !.deferred = "run"]
            s == [Now EXCEPT !.r = m]
            v == OnBufferingStateChange(s, "video", "HAVE_NOTHING")
<1>1. Become(v)
  BY NowIs DEF DeferredUnderflow, Now
<1>2. /\ m \in Members /\ m.buffering_state = r.buffering_state /\ m.deferred = "run"
      /\ m.time_ticking = r.time_ticking /\ m.state = r.state /\ m.has = r.has
      /\ m.ended = r.ended /\ m.pending_track_change = r.pending_track_change
      /\ m.playing = r.playing
  BY NowIs DEF Members
<1>. HIDE DEF m
<1>3. s \in State /\ s.r = m /\ s.child = child /\ s.tasks = tasks /\ s.client = client
  BY <1>2, NowIs DEF State
<1>4. r.deferred = "waiting"
  BY DEF DeferredUnderflow
<1>. HIDE DEF s
<1>5. v \in State /\ Steady(v, s) /\ Heeds(v, s, "video", "HAVE_NOTHING")
  BY <1>3, BufferingDoes DEF Types, Buffering
<1>6. /\ r.state \notin {"UNINITIALIZED", "INIT_PENDING_CDM", "INITIALIZING"}
      /\ r.state = "PLAYING" => DeferralFits(Now)
      /\ r.state = "FLUSHED" => Rests(Now)
      /\ r.state \in {"FLUSHED", "PLAYING", "FLUSHING", "ERROR"}
  BY <1>4, NowIs DEF Fits, Begins, Initializes, Plays, Members
<1>. HIDE DEF v
<1>7. Steadily(s, Now)
  BY <1>2, <1>3, NowIs DEF Steadily, LikeChildren, Alike, SameQueue
<1>8. r.state # "ERROR" /\ Initialized(Now) /\ r.has["video"] =>
        IF Has(tasks, Reports("video"))
        THEN LastOf(tasks, Reports("video"), Report("video", child["video"].buffering_state))
        ELSE \/ child["video"].buffering_state = "HAVE_NOTHING"
             \/ r.state = "FLUSHING"
  <2>. SUFFICES ASSUME r.state # "ERROR", Initialized(Now), r.has["video"]
                PROVE  IF Has(tasks, Reports("video"))
                       THEN LastOf(tasks, Reports("video"),
                                   Report("video", child["video"].buffering_state))
                       ELSE \/ child["video"].buffering_state = "HAVE_NOTHING"
                            \/ r.state = "FLUSHING"
    OBVIOUS
  <2>1. Known(Now, "video")
    BY NowIs DEF Initialized, Serves, Types
  <2>2. CASE Has(tasks, Reports("video"))
    BY <2>1, <2>2, NowIs DEF Known
  <2>3. CASE ~Has(tasks, Reports("video"))
    BY <1>4, <1>6, <2>3, NowIs DEF DeferralFits, Rests, Resting, Quiet, Types
  <2>. QED
    BY <2>2, <2>3
<1>9. Hearing(s, Now, "video", "HAVE_NOTHING")
  BY <1>2, <1>3, <1>4, <1>7, <1>8, NowIs DEF Hearing, SameQueue
<1>10. Fits(v)
  BY <1>5, <1>6, <1>9, NowIs, BufferingFits DEF Types, Buffering
<1>11. Bounded'
  BY SpendBounded DEF DeferredUnderflow
<1>. QED
  BY <1>1, <1>5, <1>10, <1>11, NowIs, Becomes

(**************************************************************************)
(*                         The tasks of the thread                          *)
(**************************************************************************)

(* The handler of the task e finds s, where w was.                          *)
Took(s, w, e) ==
  /\ s \in State /\ s.r = w.r /\ s.child = w.child /\ s.client = w.client
  /\ Loses(w.tasks, e, s.tasks)

LEMMA TaskTaken ==
  ASSUME Lives, tasks # << >>
  PROVE  Took([Now EXCEPT !.tasks = Tail(tasks)], Now, Head(tasks)) /\ Head(tasks) \in Tasks
<1>1. Now \in State /\ Now.tasks = tasks /\ tasks \in Seq(Tasks)
  BY NowIs, StateOf
<1>2. Loses(tasks, Head(tasks), Tail(tasks))
  BY <1>1, Taken
<1>3. Tail(tasks) \in Seq(Tasks) /\ Head(tasks) \in Tasks
  BY <1>2 DEF Loses
<1>. QED
  BY <1>1, <1>2, <1>3 DEF Took, State

LEMMA TookClock ==
  ASSUME NEW s, NEW w, NEW e, Took(s, w, e), ClockFits(w)
  PROVE  ClockFits(s)
<1>1. ~Has(w.tasks, Ends("audio")) => ~Has(s.tasks, Ends("audio"))
  BY DEF Took, Loses
<1>. QED
  BY <1>1 DEF Took, ClockFits, PlaysOn, At, Free

(* A task the invariant does not see, ...                                   *)
LEMMA UnseenTaken ==
  ASSUME NEW s, NEW w, NEW e, Took(s, w, e), e \notin Watched, Fits(w)
  PROVE  Fits(s)
<1>1. SameQueue(s.tasks, w.tasks, Watched)
  BY QueueKept DEF Took
<1>2. w.tasks # << >>
  BY EmptyQueue DEF Took, Loses
<1>. QED
  BY <1>1, <1>2, UnseenFits DEF Took, Unseen, LikeChildren, Alike, SameMembers

(* ... the end of a renderer, ...                                           *)
LEMMA EndedTaken ==
  ASSUME NEW s, NEW w, NEW t \in Types, NEW e \in Ended(t), Took(s, w, e), Fits(w)
  PROVE  Fits(s)
<1>1. /\ e \in Of(t) /\ e \notin Reports(t) /\ e \notin Ends(t)
      /\ e \notin Flushed(t) /\ e \notin Inits(t) /\ e \notin Reinits(t)
      /\ e \notin ClientFlushed /\ \A u \in Types \ {t} : e \notin Of(u)
      /\ e # Task("InitializeDone", t, "ok")
  <2>1. e \in Of(t) /\ e \notin Inits(t)
    BY Kind
  <2>. QED
    BY <2>1, Kind
<1>. HIDE DEF Task
<1>2. /\ s.r = w.r /\ s.child = w.child /\ s.client = w.client
      /\ Loses(w.tasks, e, s.tasks)
  BY DEF Took
<1>3. /\ Has(s.tasks, Ends(t)) <=> Has(w.tasks, Ends(t))
      /\ Has(s.tasks, Flushed(t)) <=> Has(w.tasks, Flushed(t))
      /\ Has(s.tasks, Inits(t)) <=> Has(w.tasks, Inits(t))
      /\ Has(s.tasks, Reinits(t)) <=> Has(w.tasks, Reinits(t))
      /\ Has(s.tasks, Reports(t)) <=> Has(w.tasks, Reports(t))
      /\ Has(w.tasks, Ended(t))
      /\ Single(w.tasks, Ends(t)) => Single(s.tasks, Ends(t))
      /\ Before(w.tasks, Ended(t), Flushed(t)) => Before(s.tasks, Ended(t), Flushed(t))
  BY <1>1, <1>2 DEF Loses
<1>4. \A x : LastOf(w.tasks, Reports(t), x) => LastOf(s.tasks, Reports(t), x)
  <2>1. SameQueue(s.tasks, w.tasks, Reports(t))
    BY <1>1, <1>2, QueueKept
  <2>. QED
    BY <2>1 DEF SameQueue
<1>5. \A S : At(s, t, S) <=> At(w, t, S)
  BY <1>2 DEF At
<1>6. /\ Flushing(s, t) <=> Flushing(w, t)
      /\ Initializing(s, t) <=> Initializing(w, t)
      /\ Reinitializing(s, t) <=> Reinitializing(w, t)
      /\ Free(s, t) <=> Free(w, t)
  BY <1>2, <1>3, <1>5 DEF Flushing, Initializing, Reinitializing, Free
<1>7. Moves(s, w, t)
  <2>1. SameQueue(s.tasks, w.tasks, ClientFlushed)
    BY <1>1, <1>2, QueueKept
  <2>2. \A u \in Types \ {t} : SameQueue(s.tasks, w.tasks, Of(u))
    BY <1>1, <1>2, QueueKept
  <2>3. ~Quiet(w, t)
    BY <1>3 DEF Quiet
  <2>4. PlaysOn(w, t) => PlaysOn(s, t)
    BY <1>2, <1>5, <1>6 DEF PlaysOn
  <2>. QED
    BY <1>2, <2>1, <2>2, <2>3, <2>4 DEF Moves, Others
<1>. SUFFICES ASSUME TurnOf(w, t) PROVE Keeps(s, w, t)
  BY <1>7, RendererFits
<1>8. TurnOf(s, t)
  BY <1>2, <1>3, <1>5 DEF TurnOf
<1>9. ~Prepares(w, t) /\ ~Resting(w, t)
  BY <1>3 DEF Prepares, Unused, Resting, Quiet
<1>10. Known(w, t) => Known(s, t)
  BY <1>2, <1>3, <1>4 DEF Known
<1>11. Serves(w, t) => Serves(s, t)
  BY <1>2, <1>3, <1>5, <1>6, <1>10 DEF Serves
<1>12. EndFits(w, t) => EndFits(s, t)
  BY <1>2, <1>3, <1>6 DEF EndFits, PlaybackHasEnded
<1>13. PlaysOn(w, t) => PlaysOn(s, t)
  BY <1>2, <1>5, <1>6 DEF PlaysOn
<1>14. Goes(w, t) => Goes(s, t)
  BY <1>2, <1>6, <1>12, <1>13 DEF Goes
<1>15. t = "video" /\ DeferralFits(w) => DeferralFits(s)
  BY <1>2, <1>3 DEF DeferralFits
<1>. QED
  BY <1>2, <1>5, <1>6, <1>8, <1>9, <1>11, <1>14, <1>15 DEF Keeps

(* ... and a report, which finds a renderer that has been initialized.       *)
LEMMA ReportTaken ==
  ASSUME NEW s, NEW w, NEW t \in Types, NEW new \in Buffering, Fits(w),
         Took(s, w, Report(t, new))
  PROVE  /\ Hearing(s, w, t, new)
         /\ w.r.state \notin {"UNINITIALIZED", "INIT_PENDING_CDM", "INITIALIZING"}
<1>. DEFINE e == Report(t, new)
<1>1. /\ e \in Reports(t) /\ e \notin Silent /\ \A u \in Types \ {t} : e \notin Of(u)
      /\ \A b : e = Report(t, b) => new = b
  <2>1. e \in Reports(t)
    BY Kind
  <2>2. \A b : e = Report(t, b) => new = b
    BY DEF Report, Task
  <2>. HIDE DEF e
  <2>. QED
    BY <2>1, <2>2, Kind, SilentKinds
<1>2. /\ s.r = w.r /\ s.child = w.child /\ s.client = w.client
      /\ Loses(w.tasks, e, s.tasks)
  BY DEF Took
<1>. HIDE DEF e
<1>3. Has(w.tasks, Reports(t))
  BY <1>1, <1>2 DEF Loses
<1>4. ~Unused(w, t)
  BY <1>3 DEF Unused
<1>5. ~Begins(w) /\ ~Initializes(w)
  BY <1>4 DEF Begins, Initializes, Prepares
<1>6. SameQueue(s.tasks, w.tasks, Silent)
  BY <1>1, <1>2, QueueKept
<1>7. \A u \in Types \ {t} : SameQueue(s.tasks, w.tasks, Of(u))
  BY <1>1, <1>2, QueueKept
<1>8. ASSUME Known(w, t)
      PROVE  IF Has(s.tasks, Reports(t))
             THEN LastOf(s.tasks, Reports(t), Report(t, w.child[t].buffering_state))
             ELSE new = w.child[t].buffering_state
  BY <1>1, <1>2, <1>3, <1>8 DEF Known, Loses
<1>9. Steadily(s, w)
  BY <1>2, <1>6 DEF Steadily, LikeChildren, Alike
<1>. QED
  BY <1>2, <1>5, <1>7, <1>8, <1>9 DEF Hearing, Fits, Initialized, Serves

LEMMA NothingFits ==
  ASSUME NEW s \in State, Fits(s), NEW v \in TransitionToHaveNothing(s)
  PROVE  v \in State /\ Fits(v)
<1>. DEFINE c == [s.child["video"] EXCEPT !.buffering_state = "HAVE_NOTHING"]
            e == Report("video", "HAVE_NOTHING")
            x == Post(With(s, "video", c), e)
<1>1. CASE v = s
  BY <1>1
<1>2. CASE v # s
  <2>1. v = x /\ s.child["video"].buffering_state # "HAVE_NOTHING" /\ ~s.child["video"].eos
    BY <1>2 DEF TransitionToHaveNothing, With, Report
  <2>2. s.child["video"] \in Filled
    BY StateOf
  <2>3. s.child["video"].buffering_state = "HAVE_ENOUGH" /\ ~s.child["video"].ended
    BY <2>1, <2>2 DEF Filled, Child, Buffering
  <2>4. /\ c \in Filled /\ c.buffering_state = "HAVE_NOTHING"
        /\ c.state = s.child["video"].state /\ c.then = s.child["video"].then
    BY <2>1, <2>2, <2>3 DEF Filled, Child, Buffering
  <2>5. e \in Of("video")
    BY Kind DEF Types, Buffering
  <2>. HIDE DEF c
  <2>6. Does(x, s, "video", e) /\ x.child["video"] = c
    BY <2>4, <2>5, ChildDoes DEF Types
  <2>. HIDE DEF x
  <2>7. Empties(x, s, "video")
    BY <2>4, <2>6 DEF Empties
  <2>. QED
    BY <2>1, <2>3, <2>6, <2>7, EmptiesFits DEF Types, Does
<1>. QED
  BY <1>1, <1>2

(* The end of a renderer is heard: the clock may stop.                       *)
Ending(v, s, t) ==
  /\ v \in State /\ LikeChildren(v, s) /\ v.tasks = s.tasks
  /\ v.client.op = s.client.op /\ v.client.error = s.client.error
  /\ v.r.state = s.r.state /\ v.r.has = s.r.has /\ v.r.playing = s.r.playing
  /\ v.r.buffering_state = s.r.buffering_state /\ v.r.deferred = s.r.deferred
  /\ v.r.pending_track_change = s.r.pending_track_change
  /\ v.r.ended[t] /\ \A u \in Types \ {t} : v.r.ended[u] = s.r.ended[u]
  /\ v.r.time_ticking => s.r.time_ticking

LEMMA EndedHeard ==
  ASSUME NEW s \in State, NEW t \in Types
  PROVE  LET v == OnRendererEnded(s, t)
         IN  v = s \/ (s.r.state = "PLAYING" /\ Ending(v, s, t))
<1>. DEFINE m == [s.r EXCEPT !.ended = [s.r.ended EXCEPT ![t] = TRUE]]
            x == [s EXCEPT !.r = m]
            y == IF t = "audio" THEN x ELSE OnTimeStopped(x)
            z == IF y.r.time_ticking THEN PausePlayback(y) ELSE y
            n == Twice(z.client.ended)
            c == [z.client EXCEPT !.ended = n]
            u == [z EXCEPT !.client = c]
            v == OnRendererEnded(s, t)
<1>1. v = s \/ (s.r.state = "PLAYING" /\ v \in {y, u})
  <2>1. x = [s EXCEPT !.r.ended[t] = TRUE]
    OBVIOUS
  <2>2. u = [(IF y.r.time_ticking THEN PausePlayback(y) ELSE y)
               EXCEPT !.client.ended = Twice(@)]
    OBVIOUS
  <2>. HIDE DEF x, u
  <2>. QED
    BY <2>1, <2>2 DEF OnRendererEnded, RunEndedCallbackIfNeeded
<1>. HIDE DEF v
<1>2. /\ m \in Members /\ m.state = s.r.state /\ m.has = s.r.has /\ m.playing = s.r.playing
      /\ m.buffering_state = s.r.buffering_state /\ m.deferred = s.r.deferred
      /\ m.pending_track_change = s.r.pending_track_change
      /\ m.ended[t] /\ \A q \in Types \ {t} : m.ended[q] = s.r.ended[q]
      /\ m.time_ticking = s.r.time_ticking
  BY StateOf DEF Members
<1>. HIDE DEF m
<1>3. Ending(x, s, t)
  BY <1>2 DEF Ending, State, LikeChildren, Alike
<1>. HIDE DEF x
<1>4. Ending(y, s, t)
  <2>1. LET q == OnTimeStopped(x)
        IN  /\ q \in State /\ LikeChildren(q, x)
            /\ q.r = x.r /\ q.tasks = x.tasks /\ q.client = x.client
    BY <1>3, TimeStopped DEF Ending
  <2>. QED
    BY <1>3, <2>1 DEF Ending, LikeChildren, Alike
<1>. HIDE DEF y
<1>5. Ending(z, s, t)
  <2>. DEFINE p == [y.r EXCEPT !.time_ticking = FALSE]
              q == PausePlayback(y)
  <2>1. /\ q \in State /\ LikeChildren(q, y) /\ q.r = p
        /\ q.tasks = y.tasks /\ q.client = y.client
    BY <1>4, Paused DEF Ending
  <2>2. /\ p.state = y.r.state /\ p.has = y.r.has /\ p.playing = y.r.playing
        /\ p.buffering_state = y.r.buffering_state /\ p.deferred = y.r.deferred
        /\ p.pending_track_change = y.r.pending_track_change /\ p.ended = y.r.ended
        /\ ~p.time_ticking
    BY <1>4, StateOf DEF Members, Ending
  <2>. HIDE DEF p, q
  <2>3. Ending(q, s, t)
    BY <1>4, <2>1, <2>2 DEF Ending, LikeChildren, Alike
  <2>. QED
    BY <1>4, <2>3 DEF q
<1>. HIDE DEF z
<1>6. Ending(u, s, t)
  <2>1. z \in State /\ z.client \in Client
    BY <1>5, StateOf DEF Ending
  <2>2. n \in 0 .. 2
    BY <2>1 DEF Twice, Client
  <2>. HIDE DEF n
  <2>3. c \in Client /\ c.op = z.client.op /\ c.error = z.client.error
    BY <2>1, <2>2 DEF Client
  <2>. HIDE DEF c
  <2>4. /\ u \in State /\ u.r = z.r /\ u.child = z.child /\ u.tasks = z.tasks
        /\ u.client = c
    BY <2>1, <2>3 DEF State
  <2>. HIDE DEF u
  <2>. QED
    BY <1>5, <2>3, <2>4 DEF Ending, LikeChildren, Alike
<1>. HIDE DEF u
<1>. QED
  BY <1>1, <1>4, <1>6 DEF v

LEMMA EndingFits ==
  ASSUME NEW w \in State, NEW s, NEW t \in Types, NEW e \in Ended(t), NEW v,
         Took(s, w, e), Fits(w), w.r.state = "PLAYING", Ending(v, s, t)
  PROVE  Fits(v)
<1>1. Fits(s)
  BY EndedTaken
<1>2. /\ s.r = w.r /\ s.child = w.child /\ s.client = w.client
      /\ Has(w.tasks, Ended(t)) /\ (Has(s.tasks, Reinits(t)) => Has(w.tasks, Reinits(t)))
  BY DEF Took, Loses
<1>3. /\ v.r.state = "PLAYING" /\ v.r.has = s.r.has /\ v.r.playing = s.r.playing
      /\ v.r.buffering_state = s.r.buffering_state /\ v.r.deferred = s.r.deferred
      /\ v.r.pending_track_change = s.r.pending_track_change
      /\ v.r.ended[t] /\ (\A u \in Types \ {t} : v.r.ended[u] = s.r.ended[u])
      /\ v.r.time_ticking => s.r.time_ticking
      /\ v.tasks = s.tasks /\ v.client.op = s.client.op
  BY <1>2 DEF Ending
<1>4. \A u \in Types : SameSight(v, s, u)
  BY <1>3, SightKept DEF SameQueue, Ending, LikeChildren
<1>. HIDE DEF Task
<1>5. InTurn(s) /\ Plays(s) /\ ClockFits(s) /\ Plays(w)
  BY <1>1, <1>2 DEF Fits
<1>6. InTurn(v)
  <2>1. \A u \in Types : TurnOf(v, u)
    BY <1>4, <1>5 DEF InTurn, TurnOf, SameSight
  <2>. QED
    BY <1>2, <1>3, <1>5, <2>1 DEF InTurn
<1>7. \A u \in Types : PlaysOn(v, u) <=> PlaysOn(s, u)
  BY <1>3, <1>4 DEF PlaysOn, SameSight
<1>8. Initialized(v)
  <2>1. \A u \in Types : Known(s, u) => Known(v, u)
    BY <1>2, <1>3, <1>4 DEF Known, SameSight
  <2>. QED
    BY <1>3, <1>4, <1>5, <2>1 DEF Plays, Initialized, Serves, SameSight
<1>9. PlaybackHasEnded(s) => PlaybackHasEnded(v)
  BY <1>3 DEF PlaybackHasEnded
<1>10. w.r.has[t]
  BY <1>2, <1>5 DEF Plays, Initialized, Serves
<1>11. EndFits(v, t)
  <2>1. EndFits(w, t)
    BY <1>5, <1>10 DEF Plays, Goes
  <2>2. (v.child[t].ended \/ v.r.pending_track_change[t]) /\ ~Reinitializing(w, t)
    BY <1>2, <1>3, <1>4, <2>1 DEF EndFits, SameSight
  <2>3. ~Reinitializing(v, t)
    <3>1. Reinitializing(s, t) => Reinitializing(w, t)
      BY <1>2 DEF Reinitializing, At
    <3>. QED
      BY <1>4, <2>2, <3>1 DEF SameSight
  <2>. QED
    BY <2>2, <2>3 DEF EndFits
<1>12. \A u \in Types : v.r.has[u] => Goes(v, u)
  <2>. SUFFICES ASSUME NEW u \in Types, v.r.has[u] PROVE Goes(v, u)
    OBVIOUS
  <2>1. Goes(s, u)
    BY <1>3, <1>5 DEF Plays
  <2>2. CASE u = t
    BY <1>3, <1>4, <1>7, <1>11, <2>1, <2>2 DEF Goes, SameSight
  <2>3. CASE u # t
    <3>1. EndFits(v, u)
      BY <1>3, <1>4, <1>9, <2>1, <2>3 DEF Goes, EndFits, SameSight
    <3>. QED
      BY <1>3, <1>4, <1>7, <2>1, <3>1 DEF Goes, SameSight
  <2>. QED
    BY <2>2, <2>3
<1>13. OneChange(v) /\ DeferralFits(v) /\ TimeFits(v)
  <2>1. OneChange(v)
    BY <1>3, <1>5 DEF Plays, OneChange
  <2>2. DeferralFits(v)
    BY <1>3, <1>4, <1>5 DEF Plays, DeferralFits, Types, SameSight
  <2>3. TimeFits(v)
    BY <1>3, <1>5 DEF Plays, TimeFits
  <2>. QED
    BY <2>1, <2>2, <2>3
<1>14. ClockFits(v)
  BY <1>2, <1>3, <1>5, <1>7 DEF ClockFits, Types
<1>. QED
  BY <1>3, <1>6, <1>8, <1>12, <1>13, <1>14 DEF Fits, Plays

(* A flush has ended: what RendererImpl forgets of the renderer t.           *)
Forgets(m, n, t) ==
  /\ m.has = n.has /\ m.buffering_state = n.buffering_state /\ m.deferred = n.deferred
  /\ m.time_ticking = n.time_ticking /\ m.pending_track_change = n.pending_track_change
  /\ ~m.ended[t] /\ ~m.playing[t]
  /\ \A u \in Types \ {t} : m.ended[u] = n.ended[u] /\ m.playing[u] = n.playing[u]

Forget(s, t) == [s EXCEPT !.r.ended[t] = FALSE, !.r.playing[t] = FALSE]

LEMMA Forgotten ==
  ASSUME NEW s \in State, NEW t \in Types
  PROVE  LET v == Forget(s, t)
         IN  /\ v \in State /\ v.child = s.child /\ v.tasks = s.tasks /\ v.client = s.client
             /\ v.r.state = s.r.state /\ Forgets(v.r, s.r, t)
<1>. DEFINE e == [s.r.ended EXCEPT ![t] = FALSE]
            p == [s.r.playing EXCEPT ![t] = FALSE]
            m == [s.r EXCEPT !.ended = e, !.playing = p]
<1>0. s.r \in Members
  BY StateOf
<1>1. Forget(s, t) = [s EXCEPT !.r = m]
  BY <1>0 DEF Forget, Members
<1>2. /\ e \in [Types -> BOOLEAN] /\ p \in [Types -> BOOLEAN] /\ ~e[t] /\ ~p[t]
      /\ \A u \in Types \ {t} : e[u] = s.r.ended[u] /\ p[u] = s.r.playing[u]
  BY <1>0 DEF Members
<1>. HIDE DEF e, p
<1>3. m \in Members /\ m.state = s.r.state /\ Forgets(m, s.r, t)
  BY <1>0, <1>2 DEF Members, Forgets
<1>. HIDE DEF m
<1>. QED
  BY <1>1, <1>3 DEF State

LEMMA VideoFlushDone ==
  ASSUME NEW s \in State, s.r.state # "ERROR"
  PROVE  LET v == OnVideoRendererFlushDone(s)
         IN  /\ v \in State /\ v.child = s.child /\ v.tasks = s.tasks
             /\ v.r.state = "FLUSHED" /\ Forgets(v.r, s.r, "video")
             /\ v.client.op = "flushed" /\ v.client.error = s.client.error
<1>. DEFINE x == Forget(s, "video")
            m == [x.r EXCEPT !.state = "FLUSHED"]
            y == [x EXCEPT !.r = m]
            v == OnVideoRendererFlushDone(s)
            n == [y.r EXCEPT !.flush_cb = FALSE]
            c == [y.client EXCEPT !.op = "flushed"]
<1>1. /\ x \in State /\ x.child = s.child /\ x.tasks = s.tasks /\ x.client = s.client
      /\ Forgets(x.r, s.r, "video")
  BY Forgotten DEF Types
<1>2. y = [s EXCEPT !.r.ended["video"] = FALSE, !.r.playing["video"] = FALSE,
                    !.r.state = "FLUSHED"]
  BY StateOf DEF Forget, Members
<1>3. v = FinishFlush(y)
  <2>. HIDE DEF y
  <2>. QED
    BY <1>2 DEF OnVideoRendererFlushDone
<1>. HIDE DEF x
<1>4. m \in Members /\ m.state = "FLUSHED" /\ Forgets(m, s.r, "video")
  BY <1>1, StateOf, ZenonT(60) DEF Members, Forgets
<1>. HIDE DEF m
<1>5. /\ y \in State /\ y.r = m /\ y.child = s.child /\ y.tasks = s.tasks
      /\ y.client = s.client
  BY <1>1, <1>4 DEF State
<1>. HIDE DEF y, v
<1>6. v \in State /\ v.child = y.child /\ v.tasks = y.tasks /\ v.r = n /\ v.client = c
  BY <1>3, <1>5, FlushFinishes
<1>7. n.state = "FLUSHED" /\ Forgets(n, s.r, "video")
  BY <1>4, <1>5 DEF Members, Forgets
<1>8. c.op = "flushed" /\ c.error = s.client.error
  BY <1>5, StateOf DEF Client
<1>. HIDE DEF n, c
<1>. QED
  BY <1>5, <1>6, <1>7, <1>8 DEF v

(* The callback of a flush or of a track change restarts the renderer t, or  *)
(* initializes it again.                                                    *)
Replays(v, s, t) ==
  /\ v.client.op = "started" /\ v.r.playing[t] /\ ~v.r.pending_track_change[t]
  /\ v.child[t].state = "kPlaying"

Rebegins(v, s, t) ==
  /\ v.client.op = s.client.op
  /\ v.r.pending_track_change[t] = s.r.pending_track_change[t]
  /\ v.child[t].state = "kInitializing" /\ v.child[t].then = "Reinitialize"

Reworks(v, s, t) ==
  /\ v \in State /\ v.tasks = s.tasks /\ v.client.error = s.client.error
  /\ v.r.state = s.r.state /\ v.r.has = s.r.has
  /\ v.r.buffering_state = s.r.buffering_state /\ v.r.deferred = s.r.deferred
  /\ v.r.time_ticking = s.r.time_ticking
  /\ v.r.ended[t] <=> s.r.ended[t] /\ PlaybackHasEnded(s)
  /\ \A u \in Types \ {t} :
       /\ v.r.ended[u] = s.r.ended[u] /\ v.r.playing[u] = s.r.playing[u]
       /\ v.r.pending_track_change[u] = s.r.pending_track_change[u]
       /\ Alike(v.child[u], s.child[u])
  /\ v.child[t].buffering_state = s.child[t].buffering_state
  /\ v.child[t].ended = s.child[t].ended
  /\ Replays(v, s, t) \/ Rebegins(v, s, t)

LEMMA ReworksFits ==
  ASSUME NEW w \in State, NEW s, NEW t \in Types, NEW e \in Ends(t), NEW v,
         Fits(w), w.r.state = "PLAYING", w.r.has[t], Took(s, w, e),
         ~Has(w.tasks, Ended(t)), Reworks(v, s, t)
  PROVE  Fits(v)
<1>1. Plays(w) /\ InTurn(w) /\ ClockFits(w) /\ Goes(w, t)
  BY DEF Fits, Plays
<1>2. /\ s.r = w.r /\ s.child = w.child /\ s.client = w.client
      /\ Loses(w.tasks, e, s.tasks)
  BY DEF Took
<1>3. /\ e \in Of(t) /\ e \notin Reports(t) /\ e \notin Ended(t)
      /\ e \notin ClientFlushed /\ \A u \in Types \ {t} : e \notin Of(u)
  BY Kind, TaskKinds DEF Ends
<1>4. /\ Has(w.tasks, Ends(t)) /\ ~Has(s.tasks, Ends(t)) /\ ~Has(s.tasks, Flushed(t))
      /\ ~Has(s.tasks, Inits(t)) /\ ~Has(s.tasks, Reinits(t))
      /\ ~Has(s.tasks, Ended(t))
      /\ Has(s.tasks, Reports(t)) <=> Has(w.tasks, Reports(t))
  <2>1. Has(w.tasks, Ends(t)) /\ ~Has(s.tasks, Ends(t))
    BY <1>1, <1>2 DEF Loses, InTurn, TurnOf
  <2>2. /\ Flushed(t) \subseteq Ends(t) /\ Inits(t) \subseteq Ends(t)
        /\ Reinits(t) \subseteq Ends(t)
    BY DEF Ends
  <2>3. ~Has(s.tasks, Ended(t)) /\ (Has(s.tasks, Reports(t)) <=> Has(w.tasks, Reports(t)))
    BY <1>2, <1>3 DEF Loses
  <2>4. ~Has(s.tasks, Flushed(t)) /\ ~Has(s.tasks, Inits(t)) /\ ~Has(s.tasks, Reinits(t))
    BY <2>1, <2>2 DEF Has
  <2>. QED
    BY <2>1, <2>3, <2>4
<1>5. \A x : LastOf(w.tasks, Reports(t), x) => LastOf(s.tasks, Reports(t), x)
  <2>1. SameQueue(s.tasks, w.tasks, Reports(t))
    BY <1>2, <1>3, QueueKept
  <2>. QED
    BY <2>1 DEF SameQueue
<1>6. \A u \in Types \ {t} : SameSight(v, w, u)
  <2>1. \A u \in Types \ {t} : SameQueue(s.tasks, w.tasks, Of(u))
    BY <1>2, <1>3, QueueKept
  <2>. QED
    BY <1>2, <2>1, SightKept DEF Reworks
<1>7. ~Has(w.tasks, ClientFlushed)
  BY <1>1 DEF InTurn
<1>8. ~Has(s.tasks, ClientFlushed)
  BY <1>2, <1>7 DEF Loses
<1>. HIDE DEF Task
<1>9. w.r.pending_track_change[t] /\ ~PlaysOn(w, t)
  BY <1>1, <1>4 DEF Goes, PlaysOn, Free
<1>10. /\ v.r.state = "PLAYING" /\ v.r.has = w.r.has
       /\ v.r.buffering_state = w.r.buffering_state /\ v.r.deferred = w.r.deferred
       /\ v.r.time_ticking = w.r.time_ticking /\ v.tasks = s.tasks
       /\ v.r.ended[t] <=> w.r.ended[t] /\ PlaybackHasEnded(w)
       /\ \A u \in Types \ {t} :
            /\ v.r.ended[u] = w.r.ended[u] /\ v.r.playing[u] = w.r.playing[u]
            /\ v.r.pending_track_change[u] = w.r.pending_track_change[u]
       /\ v.child[t].buffering_state = w.child[t].buffering_state
       /\ v.child[t].ended = w.child[t].ended
  BY <1>2 DEF Reworks, PlaybackHasEnded
<1>11. /\ At(v, t, {"kPlaying"}) \/ (At(v, t, {"kInitializing"})
                                      /\ v.child[t].then = "Reinitialize")
       /\ ~At(v, t, {"kFlushing"}) /\ ~Flushing(v, t) /\ ~Initializing(v, t)
       /\ At(v, t, {"kPlaying"}) => Free(v, t) /\ ~Reinitializing(v, t)
  BY <1>4, <1>10 DEF Reworks, Replays, Rebegins, At, Flushing, Initializing,
                     Reinitializing, Free
<1>12. InTurn(v)
  <2>1. TurnOf(v, t)
    BY <1>4, <1>10, Kinds DEF TurnOf
  <2>2. \A u \in Types \ {t} : TurnOf(v, u)
    BY <1>1, <1>6 DEF InTurn, TurnOf, SameSight
  <2>. QED
    BY <1>8, <1>10, <2>1, <2>2, Kinds DEF InTurn
<1>13. Initialized(v)
  <2>1. Initialized(w)
    BY <1>1 DEF Plays
  <2>2. Serves(v, t)
    <3>1. Known(w, t) => Known(v, t)
      BY <1>4, <1>5, <1>10 DEF Known
    <3>. QED
      BY <1>10, <1>11, <2>1, <3>1 DEF Initialized, Serves
  <2>3. \A u \in Types \ {t} : Serves(v, u)
    <3>1. \A u \in Types \ {t} : Known(w, u) => Known(v, u)
      BY <1>6, <1>10 DEF Known, SameSight
    <3>. QED
      BY <1>6, <1>10, <2>1, <3>1 DEF Initialized, Serves, SameSight
  <2>. QED
    BY <1>10, <2>1, <2>2, <2>3 DEF Initialized
<1>14. PlaybackHasEnded(w) => PlaybackHasEnded(v)
  BY <1>10 DEF PlaybackHasEnded
<1>15. v.r.ended[t] => PlaybackHasEnded(v)
  BY <1>10, <1>14
<1>16. EndFits(v, t)
  BY <1>4, <1>10, <1>15 DEF EndFits
<1>17. Goes(v, t)
  <2>1. v.r.pending_track_change[t] \/ PlaysOn(v, t)
    BY <1>2, <1>9, <1>11 DEF Reworks, Replays, Rebegins, PlaysOn, At
  <2>. QED
    BY <1>11, <1>16, <2>1 DEF Goes
<1>18. \A u \in Types \ {t} : PlaysOn(v, u) <=> PlaysOn(w, u)
  BY <1>6, <1>10 DEF PlaysOn, SameSight
<1>19. \A u \in Types \ {t} : v.r.has[u] => Goes(v, u)
  <2>1. \A u \in Types \ {t} : EndFits(w, u) => EndFits(v, u)
    BY <1>6, <1>10, <1>14 DEF EndFits, SameSight
  <2>. QED
    BY <1>1, <1>6, <1>10, <1>18, <2>1 DEF Plays, Goes, SameSight
<1>20. OneChange(v)
  <2>1. OneChange(w)
    BY <1>1 DEF Plays
  <2>2. \A u \in Types \ {t} : ~v.r.pending_track_change[u]
    BY <1>9, <1>10, <2>1 DEF OneChange
  <2>3. v.r.pending_track_change[t] => w.client.op = "changing" /\ v.client.op = w.client.op
    BY <1>2, <1>9, <2>1 DEF OneChange, Reworks, Replays, Rebegins
  <2>4. v.client.op \in {"started", "changing"}
    BY <1>2, <1>9, <2>1 DEF OneChange, Reworks, Replays, Rebegins
  <2>. QED
    BY <1>9, <1>10, <2>1, <2>2, <2>3, <2>4 DEF OneChange, Types
<1>21. DeferralFits(v) /\ TimeFits(v)
  <2>1. DeferralFits(w) /\ TimeFits(w)
    BY <1>1 DEF Plays
  <2>2. /\ Has(v.tasks, Reports("video")) <=> Has(w.tasks, Reports("video"))
        /\ v.child["video"].buffering_state = w.child["video"].buffering_state
    BY <1>4, <1>6, <1>10 DEF SameSight, Types
  <2>. QED
    BY <1>10, <2>1, <2>2 DEF DeferralFits, TimeFits
<1>22. ClockFits(v)
  <2>1. v.r.time_ticking /\ v.r.has["audio"] => PlaysOn(w, "audio") /\ t # "audio"
    BY <1>1, <1>9, <1>10 DEF ClockFits
  <2>. QED
    BY <1>10, <1>18, <2>1 DEF ClockFits, Types
<1>. QED
  BY <1>10, <1>12, <1>13, <1>17, <1>19, <1>20, <1>21, <1>22 DEF Fits, Plays

Like(m, n) ==
  /\ m.state = n.state /\ m.has = n.has /\ m.buffering_state = n.buffering_state
  /\ m.deferred = n.deferred /\ m.time_ticking = n.time_ticking

LEMMA CleanedUp ==
  ASSUME NEW s \in State, NEW t \in Types
  PROVE  LET v == CleanUpTrackChange(s, t)
         IN  /\ v \in State /\ v.child = s.child /\ v.tasks = s.tasks /\ v.client = s.client
             /\ Like(v.r, s.r) /\ v.r.pending_track_change = s.r.pending_track_change
             /\ v.r.ended[t] <=> s.r.ended[t] /\ PlaybackHasEnded(s)
             /\ \A u \in Types \ {t} : /\ v.r.ended[u] = s.r.ended[u]
                                       /\ v.r.playing[u] = s.r.playing[u]
<1>. DEFINE b == s.r.ended[t] /\ ~\E u \in Types : s.r.has[u] /\ ~s.r.ended[u]
            e == [s.r.ended EXCEPT ![t] = b]
            p == [s.r.playing EXCEPT ![t] = FALSE]
            m == [s.r EXCEPT !.playing = p, !.ended = e]
<1>0. s.r \in Members
  BY StateOf
<1>1. b \in BOOLEAN /\ (b <=> s.r.ended[t] /\ PlaybackHasEnded(s))
  BY <1>0 DEF Members, PlaybackHasEnded
<1>2. CleanUpTrackChange(s, t) = [s EXCEPT !.r = m]
  BY <1>0 DEF CleanUpTrackChange, Members
<1>. HIDE DEF b
<1>3. /\ e \in [Types -> BOOLEAN] /\ p \in [Types -> BOOLEAN] /\ e[t] = b
      /\ \A u \in Types \ {t} : e[u] = s.r.ended[u] /\ p[u] = s.r.playing[u]
  BY <1>0, <1>1 DEF Members
<1>. HIDE DEF e, p
<1>4. /\ m \in Members /\ Like(m, s.r) /\ m.ended = e /\ m.playing = p
      /\ m.pending_track_change = s.r.pending_track_change
  BY <1>0, <1>3 DEF Members, Like
<1>. HIDE DEF m
<1>5. LET v == [s EXCEPT !.r = m]
      IN  /\ v \in State /\ v.child = s.child /\ v.tasks = s.tasks /\ v.client = s.client
          /\ v.r = m
  BY <1>4 DEF State
<1>. QED
  BY <1>1, <1>2, <1>3, <1>4, <1>5

LEMMA ChangeIsCompleted ==
  ASSUME NEW s \in State
  PROVE  LET v == ChangeCompleted(s)
         IN  /\ v \in State /\ v.r = s.r /\ v.child = s.child /\ v.tasks = s.tasks
             /\ v.client.op = "started" /\ v.client.error = s.client.error
<1>. DEFINE c == [s.client EXCEPT !.op = "started"]
<1>1. ChangeCompleted(s) = [s EXCEPT !.client = c]
  BY DEF ChangeCompleted
<1>2. c \in Client /\ c.op = "started" /\ c.error = s.client.error
  BY StateOf DEF Client
<1>. HIDE DEF c
<1>. QED
  BY <1>1, <1>2 DEF State

LEMMA Restarted ==
  ASSUME NEW s \in State, NEW t \in Types, s.r.state # "FLUSHED"
  PROVE  LET v == RestartRenderer(s, t)
         IN  /\ v \in State /\ v.tasks = s.tasks /\ v.client.error = s.client.error
             /\ Others(v, s, t) /\ Like(v.r, s.r) /\ v.r.ended = s.r.ended
             /\ v.child[t].buffering_state = s.child[t].buffering_state
             /\ v.child[t].ended = s.child[t].ended
             /\ \A u \in Types \ {t} :
                  /\ v.r.playing[u] = s.r.playing[u]
                  /\ v.r.pending_track_change[u] = s.r.pending_track_change[u]
             /\ Replays(v, s, t)
<1>. DEFINE p == [s.r.playing EXCEPT ![t] = TRUE]
            q == [s.r.pending_track_change EXCEPT ![t] = FALSE]
            m == [s.r EXCEPT !.playing = p, !.pending_track_change = q]
            x == [s EXCEPT !.r = m]
            y == StartChild(x, t)
            v == RestartRenderer(s, t)
<1>0. s.r \in Members
  BY StateOf
<1>1. x = [s EXCEPT !.r.playing[t] = TRUE, !.r.pending_track_change[t] = FALSE]
  BY <1>0 DEF Members
<1>2. v = ChangeCompleted(y)
  <2>. HIDE DEF x
  <2>. QED
    BY <1>1 DEF RestartRenderer
<1>3. /\ p \in [Types -> BOOLEAN] /\ q \in [Types -> BOOLEAN] /\ p[t] /\ ~q[t]
      /\ \A u \in Types \ {t} :
           p[u] = s.r.playing[u] /\ q[u] = s.r.pending_track_change[u]
  BY <1>0 DEF Members
<1>. HIDE DEF p, q
<1>4. /\ m \in Members /\ Like(m, s.r) /\ m.ended = s.r.ended /\ m.playing = p
      /\ m.pending_track_change = q
  BY <1>0, <1>3 DEF Members, Like
<1>. HIDE DEF m
<1>5. /\ x \in State /\ x.child = s.child /\ x.tasks = s.tasks /\ x.client = s.client
      /\ x.r = m
  BY <1>4 DEF State
<1>. HIDE DEF x
<1>6. /\ y \in State /\ y.r = x.r /\ y.tasks = x.tasks /\ y.client = x.client
      /\ Others(y, x, t) /\ Moved(y.child[t], x.child[t], "kPlaying")
  BY <1>5, ChildStarted
<1>. HIDE DEF y
<1>7. /\ v \in State /\ v.r = y.r /\ v.child = y.child /\ v.tasks = y.tasks
      /\ v.client.op = "started" /\ v.client.error = y.client.error
  BY <1>2, <1>6, ChangeIsCompleted
<1>. HIDE DEF v
<1>8. Replays(v, s, t)
  BY <1>3, <1>4, <1>5, <1>6, <1>7 DEF Replays, Moved
<1>. QED
  BY <1>3, <1>4, <1>5, <1>6, <1>7, <1>8 DEF Others, Moved, v

LEMMA Reinitialized ==
  ASSUME NEW s \in State, NEW t \in Types
  PROVE  LET v == ReinitializeRenderer(s, t)
         IN  /\ v \in State /\ v.tasks = s.tasks /\ v.client = s.client /\ v.r = s.r
             /\ \A u \in Types \ {t} : Alike(v.child[u], s.child[u])
             /\ v.child[t].buffering_state = s.child[t].buffering_state
             /\ v.child[t].ended = s.child[t].ended
             /\ v.child[t].state = "kInitializing" /\ v.child[t].then = "Reinitialize"
<1>. DEFINE x == IF t = "audio" THEN s ELSE OnTimeStopped(s)
            v == InitializeChild(x, t, "Reinitialize")
<1>1. /\ x \in State /\ x.r = s.r /\ x.tasks = s.tasks /\ x.client = s.client
      /\ LikeChildren(x, s)
  BY TimeStopped DEF LikeChildren, Alike
<1>. HIDE DEF x
<1>2. /\ v \in State /\ v.r = x.r /\ v.tasks = x.tasks /\ v.client = x.client
      /\ Others(v, x, t) /\ Moved(v.child[t], x.child[t], "kInitializing")
      /\ v.child[t].then = "Reinitialize"
  BY <1>1, ChildInitializes
<1>3. ReinitializeRenderer(s, t) = v
  BY DEF ReinitializeRenderer, x
<1>. HIDE DEF v
<1>. QED
  BY <1>1, <1>2, <1>3 DEF LikeChildren, Alike, Others, Moved

(* A track change goes on when the renderer has been flushed.                *)
LEMMA ChangeGoesOn ==
  ASSUME NEW s \in State, NEW t \in Types, s.r.state # "FLUSHED",
         s.child[t].then # "FlushDone"
  PROVE  Reworks(OnChildFlushed(s, t), s, t)
<1>. DEFINE x == CleanUpTrackChange(s, t)
            v == OnChildFlushed(s, t)
<1>1. /\ x \in State /\ x.child = s.child /\ x.tasks = s.tasks /\ x.client = s.client
      /\ Like(x.r, s.r) /\ x.r.pending_track_change = s.r.pending_track_change
      /\ x.r.ended[t] <=> s.r.ended[t] /\ PlaybackHasEnded(s)
      /\ \A u \in Types \ {t} : x.r.ended[u] = s.r.ended[u] /\ x.r.playing[u] = s.r.playing[u]
  BY CleanedUp
<1>. HIDE DEF x
<1>2. CASE s.child[t].then = "Restart"
  <2>1. v = RestartRenderer(x, t)
    BY <1>2 DEF OnChildFlushed, x
  <2>2. x.r.state # "FLUSHED"
    BY <1>1 DEF Like
  <2>. HIDE DEF v
  <2>3. /\ v \in State /\ v.tasks = x.tasks /\ v.client.error = x.client.error
        /\ Others(v, x, t) /\ Like(v.r, x.r) /\ v.r.ended = x.r.ended
        /\ v.child[t].buffering_state = x.child[t].buffering_state
        /\ v.child[t].ended = x.child[t].ended
        /\ \A u \in Types \ {t} :
             /\ v.r.playing[u] = x.r.playing[u]
             /\ v.r.pending_track_change[u] = x.r.pending_track_change[u]
        /\ Replays(v, x, t)
    BY <1>1, <2>1, <2>2, Restarted
  <2>. QED
    BY <1>1, <2>3 DEF Reworks, Like, Replays, Others, Alike, v
<1>3. CASE s.child[t].then # "Restart"
  <2>1. v = ReinitializeRenderer(x, t)
    BY <1>3 DEF OnChildFlushed, x
  <2>. HIDE DEF v
  <2>2. /\ v \in State /\ v.tasks = x.tasks /\ v.client = x.client /\ v.r = x.r
        /\ \A u \in Types \ {t} : Alike(v.child[u], x.child[u])
        /\ v.child[t].buffering_state = x.child[t].buffering_state
        /\ v.child[t].ended = x.child[t].ended
        /\ v.child[t].state = "kInitializing" /\ v.child[t].then = "Reinitialize"
    BY <1>1, <2>1, Reinitialized
  <2>. QED
    BY <1>1, <2>2 DEF Reworks, Like, Rebegins, Alike, v
<1>. QED
  BY <1>2, <1>3

(* The flush goes on with the video renderer, when there is one, ...         *)
Half(x) ==
  /\ x.r.state = "FLUSHING" /\ ~x.r.time_ticking /\ x.client.op = "flushing"
  /\ InTurn(x) /\ Initialized(x)
  /\ \A t \in Types : ~x.r.pending_track_change[t] /\ ~Reinitializing(x, t)
  /\ x.r.has["audio"] => Resting(x, "audio")

LEMMA VideoFlushFits ==
  ASSUME NEW x \in State, Half(x), x.r.has["video"], PlaysOn(x, "video")
  PROVE  FlushChild(x, "video", "FlushDone") \in State
         /\ Fits(FlushChild(x, "video", "FlushDone"))
<1>. DEFINE v == FlushChild(x, "video", "FlushDone")
            c == v.child["video"]
            e == Report("video", "HAVE_NOTHING")
<1>1. /\ v \in State /\ v.r = x.r /\ v.client = x.client /\ Others(v, x, "video")
      /\ c.state = "kFlushing" /\ c.then = "FlushDone"
      /\ c.buffering_state = "HAVE_NOTHING" /\ ~c.ended
      /\ IF x.child["video"].buffering_state = "HAVE_NOTHING" THEN v.tasks = x.tasks
         ELSE Gains(x.tasks, e, v.tasks)
  BY VideoFlushes
<1>. HIDE DEF v
<1>2. /\ e \in Reports("video") /\ e \notin Ended("video") /\ e \notin Of("audio")
      /\ e \notin ClientFlushed
  <2>1. e \in Reports("video")
    BY Kind DEF Types, Buffering
  <2>. HIDE DEF e
  <2>. QED
    BY <2>1, Kind DEF Types
<1>3. Hears(v.tasks, x.tasks, "video")
  <2>. HIDE DEF e
  <2>. QED
    BY <1>1, <1>2, Heard DEF Hears, Types
<1>4. SameSight(v, x, "audio")
  <2>. HIDE DEF e
  <2>1. SameQueue(v.tasks, x.tasks, Of("audio"))
    BY <1>1, <1>2, QueueKept
  <2>. QED
    BY <1>1, <2>1, SightKept DEF Types, Others, Alike
<1>5. ~Has(x.tasks, ClientFlushed)
  BY DEF Half, InTurn
<1>6. ~Has(v.tasks, ClientFlushed)
  <2>. HIDE DEF e
  <2>. QED
    BY <1>1, <1>2, <1>5 DEF Gains
<1>7. Known(x, "video")
  BY DEF Half, Initialized, Serves, Types
<1>8. Known(v, "video")
  <2>1. CASE x.child["video"].buffering_state = "HAVE_NOTHING"
    BY <1>1, <1>7, <2>1 DEF Known
  <2>2. CASE x.child["video"].buffering_state # "HAVE_NOTHING"
    <3>1. Has(v.tasks, Reports("video")) /\ LastOf(v.tasks, Reports("video"), e)
      BY <1>1, <1>2, <2>2 DEF Gains
    <3>. QED
      BY <1>1, <3>1 DEF Known
  <2>. QED
    BY <2>1, <2>2
<1>. HIDE DEF e, Task
<1>9. /\ ~Has(x.tasks, Ends("video")) /\ ~Has(v.tasks, Ends("video"))
      /\ ~Has(v.tasks, Flushed("video")) /\ ~Has(v.tasks, Inits("video"))
      /\ ~Has(v.tasks, Reinits("video"))
  <2>1. ~Has(x.tasks, Ends("video"))
    BY DEF PlaysOn, Free
  <2>2. /\ Flushed("video") \subseteq Ends("video") /\ Inits("video") \subseteq Ends("video")
        /\ Reinits("video") \subseteq Ends("video")
    BY DEF Ends
  <2>3. ~Has(v.tasks, Ends("video"))
    BY <1>3, <2>1 DEF Hears
  <2>. QED
    BY <2>1, <2>2, <2>3 DEF Has
<1>10. /\ At(v, "video", {"kFlushing"}) /\ Flushing(v, "video") /\ ~Initializing(v, "video")
       /\ ~Reinitializing(v, "video")
  BY <1>1, <1>9 DEF At, Flushing, Initializing, Reinitializing
<1>11. InTurn(v)
  <2>1. TurnOf(v, "video")
    BY <1>9, Kinds DEF TurnOf
  <2>2. TurnOf(v, "audio")
    BY <1>4 DEF Half, InTurn, TurnOf, SameSight, Types
  <2>. QED
    BY <1>6, <2>1, <2>2, Kinds DEF InTurn, Types
<1>12. Initialized(v)
  <2>1. Initialized(x)
    BY DEF Half
  <2>2. Serves(v, "video")
    BY <1>1, <1>8, <1>10 DEF Serves
  <2>3. Known(x, "audio") => Known(v, "audio")
    BY <1>1, <1>4 DEF Known, SameSight
  <2>4. Serves(v, "audio")
    BY <1>1, <1>4, <2>1, <2>3 DEF Initialized, Serves, SameSight, Types
  <2>. QED
    BY <1>1, <2>1, <2>2, <2>4 DEF Initialized, Types
<1>13. ~Flushing(x, "audio")
  <2>1. Flushing(x, "audio") => Resting(x, "audio")
    BY DEF Half, Initialized, Serves, Types
  <2>2. Resting(x, "audio") => ~Flushing(x, "audio")
    <3>1. Has(x.tasks, Flushed("audio")) => Has(x.tasks, Ends("audio"))
      BY DEF Ends, Has
    <3>. QED
      BY <3>1 DEF Resting, Free, Flushing, At
  <2>. QED
    BY <2>1, <2>2
<1>14. Resting(x, "audio") => Resting(v, "audio")
  BY <1>1, <1>4 DEF Resting, Quiet, SameSight
<1>15. Flushes(v)
  <2>1. \A t \in Types : ~v.r.pending_track_change[t] /\ ~Reinitializing(v, t)
    BY <1>1, <1>4, <1>10 DEF Half, SameSight, Types
  <2>2. \A t \in Types : Flushing(v, t) => v.child[t].then = "FlushDone"
    BY <1>1, <1>4, <1>13 DEF SameSight, Types
  <2>3. v.r.playing["video"]
    BY <1>1 DEF PlaysOn
  <2>. QED
    BY <1>1, <1>10, <1>12, <1>14, <2>1, <2>2, <2>3 DEF Flushes, Half
<1>. QED
  BY <1>1, <1>11, <1>15 DEF Fits, ClockFits, Half, v

(* ... and is over when there is nothing left of either.                     *)
LEMMA FlushOver ==
  ASSUME NEW x \in State, Half(x),
         x.r.has["video"] => /\ At(x, "video", {"kFlushed"}) /\ Free(x, "video")
                             /\ x.child["video"].buffering_state = "HAVE_NOTHING"
                             /\ ~x.child["video"].ended /\ ~Has(x.tasks, Ended("video"))
  PROVE  OnVideoRendererFlushDone(x) \in State /\ Fits(OnVideoRendererFlushDone(x))
<1>. DEFINE v == OnVideoRendererFlushDone(x)
<1>1. /\ v \in State /\ v.child = x.child /\ v.tasks = x.tasks
      /\ v.r.state = "FLUSHED" /\ Forgets(v.r, x.r, "video")
      /\ v.client.op = "flushed" /\ v.client.error = x.client.error
  BY VideoFlushDone DEF Half
<1>. HIDE DEF v
<1>2. /\ v.r.has = x.r.has /\ v.r.buffering_state = x.r.buffering_state
      /\ v.r.deferred = x.r.deferred /\ ~v.r.time_ticking
      /\ v.r.pending_track_change = x.r.pending_track_change
      /\ ~v.r.ended["video"] /\ v.r.ended["audio"] = x.r.ended["audio"]
  BY <1>1 DEF Forgets, Half, Types
<1>3. \A t \in Types : SameSight(v, x, t)
  BY <1>1, SightKept DEF SameQueue, Alike
<1>. HIDE DEF Task
<1>9. SameSight(v, x, "audio") /\ SameSight(v, x, "video")
  BY <1>3 DEF Types
<1>4. InTurn(v)
  <2>1. \A t \in Types : TurnOf(v, t)
    BY <1>3 DEF Half, InTurn, TurnOf, SameSight
  <2>2. ~Has(x.tasks, ClientFlushed)
    BY DEF Half, InTurn
  <2>. QED
    BY <1>1, <2>1, <2>2, Kinds DEF InTurn
<1>5. Resting(x, "audio") => Resting(v, "audio")
  BY <1>2, <1>9 DEF Resting, Quiet, SameSight
<1>6. x.r.has["video"] => Resting(v, "video")
  BY <1>2, <1>9 DEF Resting, Quiet, SameSight
<1>7. Initialized(v)
  <2>1. x.r.has["video"] /\ Known(x, "video") => Known(v, "video")
    BY <1>1, <1>2, <1>9 DEF Known, SameSight
  <2>2. Known(x, "audio") => Known(v, "audio")
    BY <1>2, <1>9 DEF Known, SameSight
  <2>. QED
    BY <1>2, <1>3, <2>1, <2>2 DEF Half, Initialized, Serves, SameSight, Types
<1>8. Rests(v)
  BY <1>1, <1>2, <1>5, <1>6, <1>7 DEF Rests, Half, Types
<1>. QED
  BY <1>1, <1>2, <1>4, <1>8 DEF Fits, ClockFits, v

LEMMA HalfGoesOn ==
  ASSUME NEW x \in State, Half(x), x.r.has["video"] => PlaysOn(x, "video")
  PROVE  FlushVideoRenderer(x) \in State /\ Fits(FlushVideoRenderer(x))
<1>1. CASE x.r.has["video"]
  <2>1. FlushVideoRenderer(x) = FlushChild(x, "video", "FlushDone")
    BY <1>1 DEF FlushVideoRenderer, PlaysOn
  <2>. QED
    BY <1>1, <2>1, VideoFlushFits
<1>2. CASE ~x.r.has["video"]
  <2>1. FlushVideoRenderer(x) = OnVideoRendererFlushDone(x)
    BY <1>2 DEF FlushVideoRenderer
  <2>. QED
    BY <1>2, <2>1, FlushOver
<1>. QED
  BY <1>1, <1>2

(* An operation of the renderer t has ended.                                *)
LEMMA EndTaken ==
  ASSUME NEW w, NEW s, NEW t \in Types, NEW e \in Ends(t), Took(s, w, e), InTurn(w)
  PROVE  /\ InTurn(s) /\ Has(w.tasks, Ends(t))
         /\ ~Has(s.tasks, Ends(t)) /\ ~Has(s.tasks, Flushed(t))
         /\ ~Has(s.tasks, Inits(t)) /\ ~Has(s.tasks, Reinits(t))
         /\ Has(s.tasks, Ended(t)) <=> Has(w.tasks, Ended(t))
         /\ Has(s.tasks, Reports(t)) <=> Has(w.tasks, Reports(t))
         /\ ~At(w, t, {"kFlushing", "kInitializing", "kPlaying"}) /\ ~PlaysOn(w, t)
         /\ \A u \in Types \ {t} : SameSight(s, w, u)
         /\ w.r.has[t] /\ Initialized(w) => Initialized(s)
<1>1. /\ s.r = w.r /\ s.child = w.child /\ s.client = w.client
      /\ Loses(w.tasks, e, s.tasks)
  BY DEF Took
<1>2. /\ e \in Of(t) /\ e \notin Reports(t) /\ e \notin Ended(t)
      /\ e \notin ClientFlushed /\ \A u \in Types \ {t} : e \notin Of(u)
  BY Kind, TaskKinds DEF Ends
<1>3. /\ Flushed(t) \subseteq Ends(t) /\ Inits(t) \subseteq Ends(t)
      /\ Reinits(t) \subseteq Ends(t)
  BY DEF Ends
<1>4. /\ Has(w.tasks, Ends(t)) /\ ~Has(s.tasks, Ends(t))
      /\ Has(s.tasks, Ended(t)) <=> Has(w.tasks, Ended(t))
      /\ Has(s.tasks, Reports(t)) <=> Has(w.tasks, Reports(t))
      /\ Has(s.tasks, ClientFlushed) <=> Has(w.tasks, ClientFlushed)
      /\ Single(s.tasks, ClientFlushed)
  BY <1>1, <1>2 DEF Loses, InTurn, TurnOf
<1>5. ~Has(s.tasks, Flushed(t)) /\ ~Has(s.tasks, Inits(t)) /\ ~Has(s.tasks, Reinits(t))
  BY <1>3, <1>4 DEF Has
<1>6. \A x : LastOf(w.tasks, Reports(t), x) => LastOf(s.tasks, Reports(t), x)
  <2>1. SameQueue(s.tasks, w.tasks, Reports(t))
    BY <1>1, <1>2, QueueKept
  <2>. QED
    BY <2>1 DEF SameQueue
<1>7. \A u \in Types \ {t} : SameSight(s, w, u)
  <2>1. \A u \in Types \ {t} : SameQueue(s.tasks, w.tasks, Of(u))
    BY <1>1, <1>2, QueueKept
  <2>. QED
    BY <1>1, <2>1, SightKept DEF Alike
<1>. HIDE DEF Task
<1>8. ~At(w, t, {"kFlushing", "kInitializing", "kPlaying"}) /\ ~PlaysOn(w, t)
  BY <1>4 DEF InTurn, TurnOf, PlaysOn, Free
<1>9. InTurn(s)
  <2>1. TurnOf(s, t)
    BY <1>4, <1>5, Kinds DEF TurnOf
  <2>2. \A u \in Types \ {t} : TurnOf(s, u)
    BY <1>7 DEF InTurn, TurnOf, SameSight
  <2>. QED
    BY <1>1, <1>4, <2>1, <2>2 DEF InTurn
<1>10. ASSUME w.r.has[t], Initialized(w) PROVE Initialized(s)
  <2>1. Serves(s, t)
    <3>1. Known(s, t)
      BY <1>1, <1>4, <1>6, <1>10 DEF Known, Initialized, Serves
    <3>2. ~Initializing(s, t)
      BY <1>1, <1>5, <1>10 DEF Initialized, Serves, Initializing, At
    <3>. QED
      BY <1>1, <1>10, <3>1, <3>2 DEF Serves
  <2>2. \A u \in Types \ {t} : Serves(s, u)
    <3>1. \A u \in Types \ {t} : Known(w, u) => Known(s, u)
      BY <1>1, <1>7 DEF Known, SameSight
    <3>. QED
      BY <1>1, <1>7, <1>10, <3>1 DEF Initialized, Serves, SameSight
  <2>. QED
    BY <1>1, <1>10, <2>1, <2>2 DEF Initialized
<1>. QED
  BY <1>4, <1>5, <1>7, <1>8, <1>9, <1>10

(* After an error nothing but the clock and another renderer count.          *)
Stays(v, s, t) ==
  /\ v \in State /\ v.tasks = s.tasks /\ v.client.error = s.client.error
  /\ v.r.state = s.r.state /\ v.r.has = s.r.has /\ v.r.time_ticking = s.r.time_ticking
  /\ \A u \in Types \ {t} : /\ v.r.playing[u] = s.r.playing[u]
                            /\ v.child[u].state = s.child[u].state

LEMMA HaltedStays ==
  ASSUME NEW w, NEW s, NEW t \in Types, NEW e \in Ends(t), NEW v,
         Took(s, w, e), Halted(w), ClockFits(w), Stays(v, s, t)
  PROVE  Fits(v)
<1>1. ClockFits(s)
  BY TookClock
<1>2. /\ s.r = w.r /\ s.child = w.child /\ s.client = w.client
      /\ Has(w.tasks, Ends(t))
  BY DEF Took, Loses
<1>3. ~PlaysOn(w, t)
  BY <1>2 DEF PlaysOn, Free
<1>4. \A u \in Types \ {t} : PlaysOn(s, u) => PlaysOn(v, u)
  BY DEF PlaysOn, At, Free, Stays
<1>5. ClockFits(v)
  <2>1. s.r.time_ticking /\ s.r.has["audio"] => t # "audio"
    BY <1>2, <1>3 DEF ClockFits
  <2>. QED
    BY <1>1, <1>4, <2>1 DEF ClockFits, Stays, Types
<1>6. Halted(v)
  BY <1>2 DEF Halted, Stays
<1>. QED
  BY <1>5, <1>6, HaltedFits

LEMMA FlushedHandled ==
  ASSUME NEW w \in State, Fits(w), NEW t \in Types, NEW s, NEW e \in Flushed(t),
         Took(s, w, e)
  PROVE  OnChildFlushed(s, t) \in State /\ Fits(OnChildFlushed(s, t))
<1>. DEFINE v == OnChildFlushed(s, t)
<1>1. /\ s \in State /\ s.r = w.r /\ s.child = w.child /\ s.client = w.client
      /\ Has(w.tasks, Flushed(t)) /\ e \in Ends(t)
  BY DEF Took, Loses, Ends
<1>2. CASE w.r.state = "ERROR"
  <2>1. Halted(w) /\ ClockFits(w)
    BY <1>2 DEF Halted, Fits
  <2>2. CASE s.child[t].then = "FlushDone"
    <3>1. v = s
      BY <1>1, <1>2, <2>2 DEF OnChildFlushed, OnAudioRendererFlushDone,
                              OnVideoRendererFlushDone
    <3>. QED
      BY <1>1, <2>1, <3>1, HaltedStays DEF Stays
  <2>3. CASE s.child[t].then # "FlushDone"
    <3>1. Reworks(v, s, t)
      BY <1>1, <1>2, <2>3, ChangeGoesOn
    <3>. HIDE DEF v
    <3>2. Stays(v, s, t)
      BY <3>1 DEF Reworks, Stays, Alike
    <3>. QED
      BY <1>1, <2>1, <3>2, HaltedStays DEF Stays, v
  <2>. QED
    BY <2>2, <2>3
<1>3. CASE w.r.state # "ERROR"
  <2>1. InTurn(w) /\ TurnOf(w, t)
    BY <1>3 DEF Fits, InTurn
  <2>2. /\ InTurn(s) /\ ~Has(s.tasks, Ends(t)) /\ ~Has(s.tasks, Reinits(t))
        /\ Has(s.tasks, Ended(t)) <=> Has(w.tasks, Ended(t))
        /\ \A u \in Types \ {t} : SameSight(s, w, u)
        /\ w.r.has[t] /\ Initialized(w) => Initialized(s)
        /\ ~PlaysOn(w, t)
    BY <1>1, <2>1, EndTaken
  <2>3. ~Has(w.tasks, Ended(t))
    BY <2>1 DEF TurnOf, Took, Loses
  <2>4. /\ At(s, t, {"kFlushed"}) /\ Free(s, t) /\ Flushing(w, t)
        /\ s.child[t].buffering_state = "HAVE_NOTHING" /\ ~s.child[t].ended
    BY <1>1, <2>1, <2>2 DEF TurnOf, At, Free, Flushing
  <2>5. ~Unused(w, t) /\ ~Resting(w, t)
    <3>1. Has(w.tasks, Ends(t))
      BY <1>1 DEF Has, Ends
    <3>. QED
      BY <1>1, <3>1 DEF Unused, Resting, Free
  <2>6. w.r.state \in {"PLAYING", "FLUSHING"} /\ w.r.has[t]
    <3>1. ~Begins(w) /\ ~Initializes(w)
      BY <2>5 DEF Begins, Initializes, Prepares
    <3>2. Rests(w) \/ Plays(w) \/ Flushes(w) => w.r.has[t]
      BY <2>4 DEF Rests, Plays, Flushes, Initialized, Serves
    <3>3. ~Rests(w)
      BY <2>5, <3>2 DEF Rests
    <3>. QED
      BY <1>3, <3>1, <3>2, <3>3, StateOf DEF Fits, Members
  <2>7. CASE w.r.state = "PLAYING"
    <3>1. s.child[t].then # "FlushDone"
      BY <1>1, <2>4, <2>6, <2>7 DEF Fits, Plays, Goes
    <3>2. Reworks(v, s, t)
      BY <1>1, <2>7, <3>1, ChangeGoesOn
    <3>. HIDE DEF v
    <3>3. v \in State
      BY <3>2 DEF Reworks
    <3>4. Fits(v)
      BY <1>1, <2>3, <2>6, <2>7, <3>2, ReworksFits
    <3>. QED
      BY <3>3, <3>4 DEF v
  <2>8. CASE w.r.state = "FLUSHING"
    <3>1. Flushes(w) /\ ~w.r.time_ticking
      BY <2>8 DEF Fits, ClockFits
    <3>2. s.child[t].then = "FlushDone"
      BY <1>1, <2>4, <3>1 DEF Flushes
    <3>3. \A u \in Types : ~s.r.pending_track_change[u] /\ ~Reinitializing(s, u)
      <4>1. \A u \in Types : ~w.r.pending_track_change[u] /\ ~Reinitializing(w, u)
        BY <3>1 DEF Flushes
      <4>2. ~Reinitializing(s, t)
        BY <2>2, <2>4 DEF Reinitializing, At
      <4>. QED
        BY <1>1, <2>2, <4>1, <4>2 DEF SameSight
    <3>4. Initialized(s)
      BY <2>2, <2>6, <3>1 DEF Flushes
    <3>5. CASE t = "audio"
      <4>. DEFINE x == Forget(s, "audio")
      <4>1. /\ x \in State /\ x.child = s.child /\ x.tasks = s.tasks /\ x.client = s.client
            /\ x.r.state = s.r.state /\ Forgets(x.r, s.r, "audio")
        BY <1>1, Forgotten DEF Types
      <4>2. v = FlushVideoRenderer(x)
        BY <1>1, <2>8, <3>2, <3>5 DEF OnChildFlushed, OnAudioRendererFlushDone, Forget
      <4>. HIDE DEF x, v
      <4>3. \A u \in Types : SameSight(x, s, u)
        BY <4>1, SightKept DEF SameQueue, Alike
      <4>. HIDE DEF Task
      <4>4. InTurn(x)
        BY <2>2, <4>1, <4>3 DEF InTurn, TurnOf, SameSight
      <4>5. Initialized(x)
        <5>1. \A u \in Types : Known(s, u) => Known(x, u)
          BY <4>1, <4>3 DEF Known, SameSight, Forgets
        <5>. QED
          BY <3>4, <4>1, <4>3, <5>1 DEF Initialized, Serves, SameSight, Forgets
      <4>6. Resting(x, "audio")
        BY <2>2, <2>3, <2>4, <3>5, <4>1 DEF Resting, Free, At, Quiet, Forgets
      <4>7. Half(x)
        BY <1>1, <2>8, <3>1, <3>3, <4>1, <4>3, <4>4, <4>5, <4>6
           DEF Half, Forgets, SameSight, Flushes
      <4>8. w.r.has["video"] => PlaysOn(w, "video")
        BY <2>5, <2>6, <3>1, <3>5 DEF Flushes
      <4>9. SameSight(s, w, "video") /\ SameSight(x, s, "video")
        BY <2>2, <3>5, <4>3 DEF Types
      <4>10. x.r.has["video"] => PlaysOn(x, "video")
        BY <1>1, <4>1, <4>8, <4>9 DEF PlaysOn, SameSight, Forgets, Types
      <4>. QED
        BY <4>1, <4>2, <4>7, <4>10, HalfGoesOn DEF v
    <3>6. CASE t = "video"
      <4>1. v = OnVideoRendererFlushDone(s)
        BY <3>2, <3>6 DEF OnChildFlushed
      <4>. HIDE DEF v, Task
      <4>2. w.r.has["audio"] => Resting(w, "audio")
        BY <2>2, <2>6, <3>1, <3>6 DEF Flushes
      <4>3. SameSight(s, w, "audio")
        BY <2>2, <3>6 DEF Types
      <4>4. Resting(w, "audio") => Resting(s, "audio")
        BY <1>1, <4>3 DEF Resting, Quiet, SameSight
      <4>5. Half(s)
        BY <1>1, <2>2, <2>8, <3>1, <3>3, <3>4, <4>2, <4>4 DEF Half, Flushes
      <4>. QED
        BY <1>1, <2>2, <2>3, <2>4, <3>6, <4>1, <4>5, FlushOver DEF v
    <3>. QED
      BY <3>5, <3>6 DEF Types
  <2>. QED
    BY <2>6, <2>7, <2>8
<1>. QED
  BY <1>2, <1>3

(* A renderer has been initialized again, with another track.                *)
LEMMA ReinitializedHandled ==
  ASSUME NEW w \in State, Fits(w), NEW t \in Types, NEW s, NEW status \in {"ok", "error"},
         Took(s, w, Task("Reinitialized", t, status))
  PROVE  OnRendererReinitialized(s, t, status) \in State
         /\ Fits(OnRendererReinitialized(s, t, status))
<1>. DEFINE v == OnRendererReinitialized(s, t, status)
            e == Task("Reinitialized", t, status)
<1>1. e \in Reinits(t) /\ e \in Ends(t)
  BY Kind DEF Ends
<1>. HIDE DEF e
<1>2. /\ s \in State /\ s.r = w.r /\ s.child = w.child /\ s.client = w.client
      /\ Has(w.tasks, Reinits(t)) /\ Took(s, w, e)
  BY <1>1 DEF Took, Loses, e
<1>3. ClockFits(s)
  BY <1>2, TookClock DEF Fits
<1>4. CASE status = "error"
  <2>. DEFINE x == ChangeCompleted(s)
  <2>1. /\ x \in State /\ x.r = s.r /\ x.child = s.child /\ x.tasks = s.tasks
        /\ x.client.error = s.client.error
    BY <1>2, ChangeIsCompleted
  <2>2. v = OnError(x)
    BY <1>4 DEF OnRendererReinitialized
  <2>. HIDE DEF x
  <2>3. ClockFits(x)
    BY <1>3, <2>1 DEF ClockFits, PlaysOn, At, Free
  <2>4. x.r.state = "ERROR" => x.client.error
    BY <1>2, <2>1 DEF Fits
  <2>. QED
    BY <2>1, <2>2, <2>3, <2>4, OnErrorFits
<1>5. CASE status = "ok"
  <2>1. v = RestartRenderer(s, t)
    BY <1>5 DEF OnRendererReinitialized
  <2>2. Reinitializing(w, t) /\ ~Unused(w, t)
    BY <1>2 DEF Reinitializing, Unused
  <2>3. ~Begins(w) /\ ~Initializes(w)
    BY <2>2 DEF Begins, Initializes, Prepares
  <2>4. ~Flushes(w)
    BY <2>2 DEF Flushes
  <2>5. w.r.state = "FLUSHED" => FALSE
    <3>1. Rests(w) => w.r.has[t] /\ Resting(w, t)
      BY <2>2 DEF Rests, Initialized, Serves
    <3>2. Has(w.tasks, Ends(t))
      BY <1>2 DEF Has, Ends
    <3>. QED
      BY <3>1, <3>2 DEF Fits, Resting, Free
  <2>6. w.r.state \in {"PLAYING", "ERROR"}
    BY <2>3, <2>4, <2>5, StateOf DEF Fits, Members
  <2>. HIDE DEF v
  <2>7. /\ v \in State /\ v.tasks = s.tasks /\ v.client.error = s.client.error
        /\ Others(v, s, t) /\ Like(v.r, s.r) /\ v.r.ended = s.r.ended
        /\ v.child[t].buffering_state = s.child[t].buffering_state
        /\ v.child[t].ended = s.child[t].ended
        /\ \A u \in Types \ {t} :
             /\ v.r.playing[u] = s.r.playing[u]
             /\ v.r.pending_track_change[u] = s.r.pending_track_change[u]
        /\ Replays(v, s, t)
    BY <1>2, <2>1, <2>6, Restarted
  <2>8. CASE w.r.state = "ERROR"
    <3>1. Stays(v, s, t)
      BY <2>7 DEF Stays, Like, Others
    <3>2. Halted(w) /\ ClockFits(w)
      BY <2>8 DEF Halted, Fits
    <3>. QED
      BY <1>1, <1>2, <2>7, <3>1, <3>2, HaltedStays DEF v
  <2>9. CASE w.r.state = "PLAYING"
    <3>1. Plays(w)
      BY <2>9 DEF Fits
    <3>2. w.r.has[t]
      BY <2>2, <3>1 DEF Plays, Initialized, Serves
    <3>3. EndFits(w, t)
      BY <3>1, <3>2 DEF Plays, Goes
    <3>4. ~Has(w.tasks, Ended(t)) /\ (w.r.ended[t] => PlaybackHasEnded(w))
      BY <2>2, <3>3 DEF EndFits
    <3>5. Reworks(v, s, t)
      BY <1>2, <2>7, <3>4 DEF Reworks, Like, Others, Alike, PlaybackHasEnded
    <3>. QED
      BY <1>1, <1>2, <2>7, <2>9, <3>2, <3>4, <3>5, ReworksFits DEF v
  <2>. QED
    BY <2>6, <2>8, <2>9
<1>. QED
  BY <1>4, <1>5

(* A renderer is destroyed, and what it has posted itself cancelled.         *)
Spared(p, q, t) ==
  /\ \A u \in Types : /\ Has(p, Ends(u)) <=> Has(q, Ends(u))
                      /\ Has(p, Flushed(u)) <=> Has(q, Flushed(u))
                      /\ Has(p, Inits(u)) <=> Has(q, Inits(u))
                      /\ Has(p, Reinits(u)) <=> Has(q, Reinits(u))
                      /\ Has(p, Reports(u)) => Has(q, Reports(u)) /\ u # t
                      /\ Has(p, Ended(u)) => Has(q, Ended(u)) /\ u # t
                      /\ Has(p, {Task("InitializeDone", u, "ok")})
                           <=> Has(q, {Task("InitializeDone", u, "ok")})
                      /\ Single(q, Ends(u)) => Single(p, Ends(u))
  /\ Has(p, ClientFlushed) <=> Has(q, ClientFlushed)

LEMMA OwnKinds ==
  ASSUME NEW t \in Types
  PROVE  /\ Task("Cancelled", t, "none") \in Tasks
         /\ \A u \in Types :
              /\ Ends(u) \cap OwnTasks(t) = {}
              /\ Task("Cancelled", t, "none") \notin Ends(u)
              /\ Task("Cancelled", t, "none") \notin Reports(u)
              /\ Task("Cancelled", t, "none") \notin Ended(u)
         /\ Reports(t) \subseteq OwnTasks(t) /\ Ended(t) \subseteq OwnTasks(t)
         /\ ClientFlushed \cap OwnTasks(t) = {}
         /\ Task("Cancelled", t, "none") \notin ClientFlushed
         /\ OwnTasks(t) \subseteq Tasks
  BY DEF OwnTasks, Ends, Flushed, Inits, Reinits, Reports, Report, Ended, ClientFlushed,
         Task, Tasks, Types, Buffering

LEMMA TasksCancelled ==
  ASSUME NEW t \in Types, NEW q \in Seq(Tasks), NEW p,
         p = [i \in DOMAIN q |-> IF q[i] \in OwnTasks(t) THEN Task("Cancelled", t, "none")
                                                         ELSE q[i]]
  PROVE  p \in Seq(Tasks) /\ Spared(p, q, t)
<1>. DEFINE c == Task("Cancelled", t, "none")
<1>1. /\ c \in Tasks /\ c \notin ClientFlushed
      /\ \A u \in Types : /\ c \notin Ends(u) /\ c \notin Reports(u) /\ c \notin Ended(u)
                          /\ Ends(u) \cap OwnTasks(t) = {}
      /\ Reports(t) \subseteq OwnTasks(t) /\ Ended(t) \subseteq OwnTasks(t)
      /\ ClientFlushed \cap OwnTasks(t) = {}
  BY OwnKinds
<1>. HIDE DEF c
<1>2. p = [i \in DOMAIN q |-> IF q[i] \in OwnTasks(t) THEN c ELSE q[i]]
  BY DEF c
<1>3. p \in Seq(Tasks)
  <2>1. Len(q) \in Nat /\ DOMAIN q = 1 .. Len(q) /\ \A i \in 1 .. Len(q) : q[i] \in Tasks
    OBVIOUS
  <2>2. p \in [1 .. Len(q) -> Tasks]
    BY <1>1, <1>2, <2>1
  <2>. QED
    BY <2>1, <2>2
<1>4. /\ \A T : c \notin T => (Has(p, T) <=> Has(q, T \ OwnTasks(t)))
      /\ \A T : c \notin T /\ Single(q, T \ OwnTasks(t)) => Single(p, T)
  BY <1>2, CancelTasks, Zenon
<1>5. \A u \in Types :
        /\ Flushed(u) \subseteq Ends(u) /\ Inits(u) \subseteq Ends(u)
        /\ Reinits(u) \subseteq Ends(u) /\ {Task("InitializeDone", u, "ok")} \subseteq Ends(u)
  BY Kind DEF Ends
<1>. HIDE DEF Task
<1>6. \A u \in Types : \A T \in SUBSET Ends(u) :
        /\ Has(p, T) <=> Has(q, T)
        /\ Single(q, T) => Single(p, T)
  <2>. SUFFICES ASSUME NEW u \in Types, NEW T \in SUBSET Ends(u)
                PROVE  (Has(p, T) <=> Has(q, T)) /\ (Single(q, T) => Single(p, T))
    OBVIOUS
  <2>1. c \notin T /\ T \ OwnTasks(t) = T
    BY <1>1
  <2>. QED
    BY <1>4, <2>1
<1>7. \A u \in Types : Has(p, Reports(u)) => Has(q, Reports(u)) /\ u # t
  <2>. SUFFICES ASSUME NEW u \in Types, Has(p, Reports(u))
                PROVE  Has(q, Reports(u)) /\ u # t
    OBVIOUS
  <2>1. Has(q, Reports(u) \ OwnTasks(t))
    BY <1>1, <1>4
  <2>. QED
    BY <1>1, <2>1 DEF Has
<1>8. \A u \in Types : Has(p, Ended(u)) => Has(q, Ended(u)) /\ u # t
  <2>. SUFFICES ASSUME NEW u \in Types, Has(p, Ended(u))
                PROVE  Has(q, Ended(u)) /\ u # t
    OBVIOUS
  <2>1. Has(q, Ended(u) \ OwnTasks(t))
    BY <1>1, <1>4
  <2>. QED
    BY <1>1, <2>1 DEF Has
<1>9. Has(p, ClientFlushed) <=> Has(q, ClientFlushed)
  <2>1. ClientFlushed \ OwnTasks(t) = ClientFlushed
    BY <1>1
  <2>. QED
    BY <1>1, <1>4, <2>1
<1>. QED
  BY <1>3, <1>5, <1>6, <1>7, <1>8, <1>9 DEF Spared

LEMMA ChildDestroyed ==
  ASSUME NEW s \in State, NEW t \in Types
  PROVE  LET v == DestroyChild(s, t)
         IN  /\ v \in State /\ v.client = s.client /\ Others(v, s, t)
             /\ v.child[t].state = "none" /\ v.child[t].buffering_state = "HAVE_NOTHING"
             /\ ~v.child[t].ended
             /\ v.r.state = s.r.state /\ v.r.buffering_state = s.r.buffering_state
             /\ v.r.ended = s.r.ended /\ v.r.time_ticking = s.r.time_ticking
             /\ v.r.pending_track_change = s.r.pending_track_change
             /\ v.r.deferred = s.r.deferred
             /\ v.r.has = [s.r.has EXCEPT ![t] = FALSE]
             /\ Spared(v.tasks, s.tasks, t)
<1>. DEFINE c == [NewChild EXCEPT !.state = "none"]
            h == [s.r.has EXCEPT ![t] = FALSE]
            m == [s.r EXCEPT !.has = h]
            d == [s.child EXCEPT ![t] = c]
            p == [i \in DOMAIN s.tasks |-> IF s.tasks[i] \in OwnTasks(t)
                                           THEN Task("Cancelled", t, "none") ELSE s.tasks[i]]
            v == DestroyChild(s, t)
<1>1. v = [s EXCEPT !.child = d, !.r = m, !.tasks = p]
  BY StateOf DEF DestroyChild, State
<1>2. p \in Seq(Tasks) /\ Spared(p, s.tasks, t)
  BY StateOf, TasksCancelled
<1>3. /\ c \in Filled /\ c.state = "none" /\ c.buffering_state = "HAVE_NOTHING" /\ ~c.ended
  BY DEF NewChild, Filled, Child, Buffering
<1>. HIDE DEF c, p
<1>4. /\ d \in [Types -> Filled] /\ d[t] = c /\ \A u \in Types \ {t} : d[u] = s.child[u]
  BY <1>3, StateOf
<1>5. h \in [Types -> BOOLEAN]
  BY StateOf DEF Members
<1>. HIDE DEF h
<1>6. /\ m \in Members /\ m.state = s.r.state /\ m.buffering_state = s.r.buffering_state
      /\ m.ended = s.r.ended /\ m.time_ticking = s.r.time_ticking
      /\ m.pending_track_change = s.r.pending_track_change
      /\ m.deferred = s.r.deferred /\ m.has = h
  BY <1>5, StateOf DEF Members
<1>. HIDE DEF m, d, v
<1>7. /\ v \in State /\ v.client = s.client /\ v.r = m /\ v.child = d /\ v.tasks = p
  BY <1>1, <1>2, <1>4, <1>6 DEF State
<1>. QED
  BY <1>2, <1>3, <1>4, <1>6, <1>7 DEF Others, h, v

(* The renderer t is to be initialized next.                                *)
ToInitialize(x, t) ==
  /\ x.r.state = "INITIALIZING" /\ ~x.r.time_ticking /\ x.r.deferred = "cancelled"
  /\ x.client.op \in {"initializing", "failed"} /\ InTurn(x)
  /\ \A u \in Types : Prepares(x, u) /\ ~Initializing(x, u)
  /\ t = "video" /\ x.r.has["audio"] => At(x, "audio", {"kFlushed"})

LEMMA InitializeRendererFits ==
  ASSUME NEW x \in State, NEW t \in Types, ToInitialize(x, t)
  PROVE  InitializeRenderer(x, t) \in State /\ Fits(InitializeRenderer(x, t))
<1>. DEFINE v == InitializeRenderer(x, t)
<1>1. \A u \in Types :
        /\ Prepares(x, u) /\ Unused(x, u) /\ Quiet(x, u) /\ ~Initializing(x, u)
        /\ ~Has(x.tasks, Reports(u)) /\ ~Has(x.tasks, Ended(u)) /\ ~Has(x.tasks, Flushed(u))
        /\ ~Has(x.tasks, Inits(u)) /\ ~Has(x.tasks, Reinits(u)) /\ TurnOf(x, u)
  BY DEF ToInitialize, Prepares, Unused, Quiet, Initializing, Reinitializing, InTurn
<1>2. \A u \in Types : ~Has(x.tasks, Ends(u))
  BY <1>1 DEF Ends, Has
<1>3. ~Has(x.tasks, ClientFlushed)
  BY DEF ToInitialize, InTurn
<1>. HIDE DEF Task
<1>4. CASE t \in setup.streams
  <2>1. v = InitializeChild(x, t, "InitializeDone")
    BY <1>4 DEF InitializeRenderer
  <2>2. /\ v \in State /\ v.r = x.r /\ v.tasks = x.tasks /\ v.client = x.client
        /\ Others(v, x, t) /\ Moved(v.child[t], x.child[t], "kInitializing")
        /\ v.child[t].then = "InitializeDone"
    BY <2>1, ChildInitializes
  <2>. HIDE DEF v
  <2>3. \A u \in Types \ {t} : SameSight(v, x, u)
    BY <2>2, SightKept DEF Others, Alike, SameQueue
  <2>4. \A u \in Types \ {t} : Prepares(v, u) /\ TurnOf(v, u) /\ ~Initializing(v, u)
    BY <1>1, <2>2, <2>3 DEF Prepares, Unused, Quiet, TurnOf, SameSight
  <2>5. TurnOf(v, t)
    BY <1>1, <1>2, <2>2 DEF TurnOf
  <2>6. Prepares(v, t)
    <3>1. ~Has(x.tasks, {Task("InitializeDone", t, "ok")})
      BY <1>1, Kind DEF Has
    <3>2. x.r.has[t]
      BY <1>1, <1>4 DEF Unused
    <3>3. Unused(v, t)
      BY <1>1, <2>2 DEF Unused, Quiet, Moved, At, Reinitializing
    <3>. QED
      BY <2>2, <3>1, <3>2, <3>3 DEF Prepares
  <2>7. InTurn(v)
    BY <1>3, <2>2, <2>4, <2>5, Kinds DEF InTurn
  <2>8. Initializes(v)
    <3>1. At(x, "audio", {"kFlushed"}) /\ t = "video" => At(v, "audio", {"kFlushed"})
      BY <2>2 DEF Others, At, Types
    <3>2. t = "audio" \/ t = "video"
      BY DEF Types
    <3>3. Initializing(v, "audio") => ~Initializing(v, "video")
      BY <2>4, <3>2 DEF Types
    <3>4. Initializing(v, "video") => t = "video"
      BY <2>4 DEF Types
    <3>. QED
      BY <2>2, <2>4, <2>6, <3>1, <3>3, <3>4 DEF Initializes, ToInitialize
  <2>9. Fits(v)
    BY <2>2, <2>7, <2>8 DEF Fits, ClockFits, ToInitialize
  <2>. QED
    BY <2>2, <2>9 DEF v
<1>5. CASE t \notin setup.streams
  <2>. DEFINE y == DestroyChild(x, t)
              e == Task("InitializeDone", t, "ok")
  <2>1. v = Post(y, e)
    BY <1>5 DEF InitializeRenderer
  <2>2. /\ y \in State /\ y.client = x.client /\ Others(y, x, t)
        /\ y.child[t].state = "none" /\ y.child[t].buffering_state = "HAVE_NOTHING"
        /\ ~y.child[t].ended
        /\ y.r.state = x.r.state /\ y.r.buffering_state = x.r.buffering_state
        /\ y.r.ended = x.r.ended /\ y.r.time_ticking = x.r.time_ticking
        /\ y.r.pending_track_change = x.r.pending_track_change
        /\ y.r.deferred = x.r.deferred
        /\ y.r.has = [x.r.has EXCEPT ![t] = FALSE]
        /\ Spared(y.tasks, x.tasks, t)
    BY ChildDestroyed
  <2>3. e \in Inits(t) /\ e \in Tasks /\ e \in Ends(t)
    BY Kind DEF Ends
  <2>. HIDE DEF e, y
  <2>4. /\ v \in State /\ v.r = y.r /\ v.child = y.child /\ v.client = y.client
        /\ Gains(y.tasks, e, v.tasks)
    BY <2>1, <2>2, <2>3, Posted
  <2>. HIDE DEF v
  <2>5. /\ ~y.r.has[t] /\ \A u \in Types \ {t} : y.r.has[u] = x.r.has[u]
    <3>1. x.r.has \in [Types -> BOOLEAN]
      BY StateOf DEF Members
    <3>. QED
      BY <2>2, <3>1
  <2>6. /\ \A u \in Types : /\ ~Has(v.tasks, Reports(u)) /\ ~Has(v.tasks, Ended(u))
                            /\ ~Has(v.tasks, Flushed(u)) /\ ~Has(v.tasks, Reinits(u))
                            /\ Single(v.tasks, Ends(u))
        /\ \A u \in Types \ {t} : /\ ~Has(v.tasks, Ends(u)) /\ ~Has(v.tasks, Inits(u))
                                  /\ ~Has(v.tasks, {Task("InitializeDone", u, "ok")})
        /\ ~Has(v.tasks, ClientFlushed)
    <3>1. \A u \in Types : /\ ~Has(y.tasks, Reports(u)) /\ ~Has(y.tasks, Ended(u))
                           /\ ~Has(y.tasks, Flushed(u)) /\ ~Has(y.tasks, Reinits(u))
                           /\ ~Has(y.tasks, Inits(u)) /\ ~Has(y.tasks, Ends(u))
      BY <1>1, <1>2, <2>2 DEF Spared
    <3>2. ~Has(y.tasks, ClientFlushed)
      BY <1>3, <2>2 DEF Spared
    <3>3. /\ e \notin Reports(t) /\ e \notin Ended(t) /\ e \notin Flushed(t)
          /\ e \notin Reinits(t) /\ e \notin ClientFlushed
          /\ \A u \in Types \ {t} : e \notin Of(u)
      BY <2>3, Kind
    <3>4. \A u \in Types \ {t} : /\ Reports(u) \subseteq Of(u) /\ Ended(u) \subseteq Of(u)
                                 /\ Ends(u) \subseteq Of(u)
      BY Kind DEF Ends
    <3>5. \A u \in Types : /\ e \notin Reports(u) /\ e \notin Ended(u)
                           /\ u # t => e \notin Ends(u)
      BY <3>3, <3>4
    <3>6. \A u \in Types : /\ Flushed(u) \subseteq Ends(u) /\ Reinits(u) \subseteq Ends(u)
                           /\ Inits(u) \subseteq Ends(u)
                           /\ {Task("InitializeDone", u, "ok")} \subseteq Ends(u)
      BY Kind DEF Ends
    <3>7. \A u \in Types : e \notin Flushed(u) /\ e \notin Reinits(u)
      BY <3>3, <3>5, <3>6
    <3>8. \A u \in Types : Single(v.tasks, Ends(u))
      BY <2>4, <3>1, Kinds DEF Gains
    <3>9. \A u \in Types \ {t} : ~Has(v.tasks, Ends(u))
      BY <2>4, <3>1, <3>5 DEF Gains
    <3>10. \A u \in Types \ {t} : /\ ~Has(v.tasks, Inits(u))
                                  /\ ~Has(v.tasks, {Task("InitializeDone", u, "ok")})
      BY <3>6, <3>9 DEF Has
    <3>. QED
      BY <2>4, <3>1, <3>2, <3>3, <3>5, <3>7, <3>8, <3>9, <3>10 DEF Gains
  <2>7. /\ At(v, t, {"none"}) /\ ~At(v, t, {"kInitializing"})
        /\ \A u \in Types \ {t} : \A S : At(v, u, S) <=> At(x, u, S)
    BY <2>2, <2>4 DEF At, Others
  <2>8. \A u \in Types \ {t} : Prepares(v, u) /\ TurnOf(v, u) /\ ~Initializing(v, u)
    <3>. SUFFICES ASSUME NEW u \in Types \ {t}
                  PROVE  Prepares(v, u) /\ TurnOf(v, u) /\ ~Initializing(v, u)
      OBVIOUS
    <3>1. v.child[u] = x.child[u] /\ v.r.has[u] = x.r.has[u]
      BY <2>2, <2>4, <2>5 DEF Others
    <3>2. Quiet(v, u)
      BY <1>1, <2>2, <2>4, <2>6, <3>1 DEF Quiet
    <3>3. ~Initializing(v, u)
      BY <1>1, <2>6, <2>7, <3>1 DEF Initializing
    <3>4. ~Reinitializing(v, u)
      BY <1>1, <2>6, <2>7, <3>1 DEF Reinitializing, Unused
    <3>5. Unused(v, u)
      BY <1>1, <2>2, <2>4, <2>6, <2>7, <3>1, <3>2, <3>4 DEF Unused
    <3>6. Prepares(v, u)
      BY <1>1, <2>6, <2>7, <3>1, <3>5 DEF Prepares
    <3>7. TurnOf(v, u)
      BY <2>6, Kinds DEF TurnOf
    <3>. QED
      BY <3>3, <3>6, <3>7
  <2>9. Prepares(v, t)
    <3>1. Quiet(v, t)
      BY <1>1, <2>2, <2>4, <2>6 DEF Quiet
    <3>2. ~Reinitializing(v, t)
      BY <2>6, <2>7 DEF Reinitializing
    <3>3. Unused(v, t)
      BY <1>1, <1>5, <2>2, <2>4, <2>6, <2>7, <3>1, <3>2 DEF Unused, At
    <3>. QED
      BY <2>4, <2>5, <2>7, <3>3 DEF Prepares
  <2>10. TurnOf(v, t)
    BY <2>6, <2>7, Kinds DEF TurnOf, At
  <2>11. InTurn(v)
    BY <2>6, <2>8, <2>10, Kinds DEF InTurn
  <2>12. Initializes(v)
    <3>1. t = "audio" \/ t = "video"
      BY DEF Types
    <3>2. Initializing(v, "audio") => ~Initializing(v, "video")
      BY <2>8, <3>1 DEF Types
    <3>3. Initializing(v, "video") => t = "video"
      BY <2>8 DEF Types
    <3>4. t = "video" /\ v.r.has["audio"] => At(v, "audio", {"kFlushed"})
      BY <2>4, <2>5, <2>7 DEF ToInitialize, Types
    <3>. QED
      BY <2>2, <2>4, <2>8, <2>9, <3>2, <3>3, <3>4 DEF Initializes, ToInitialize
  <2>13. Fits(v)
    BY <2>2, <2>4, <2>11, <2>12 DEF Fits, ClockFits, ToInitialize
  <2>. QED
    BY <2>4, <2>13 DEF v
<1>. QED
  BY <1>4, <1>5

LEMMA TurnsKept ==
  ASSUME NEW v, NEW s, v.child = s.child, v.tasks = s.tasks, InTurn(s),
         ~Has(s.tasks, ClientFlushed)
  PROVE  InTurn(v)
<1>1. \A u \in Types : TurnOf(v, u)
  BY DEF InTurn, TurnOf, At
<1>. QED
  BY <1>1, Kinds DEF InTurn

LEMMA InitializedHandled ==
  ASSUME NEW w \in State, Fits(w), NEW t \in Types, NEW s, NEW status \in {"ok", "error"},
         Took(s, w, Task("InitializeDone", t, status)), NEW v,
         v = IF t = "audio" THEN OnAudioRendererInitializeDone(s, status)
                            ELSE OnVideoRendererInitializeDone(s, status)
  PROVE  v \in State /\ Fits(v)
<1>. DEFINE e == Task("InitializeDone", t, status)
<1>1. /\ e \in Inits(t) /\ e \in Ends(t)
      /\ status = "ok" => e \in {Task("InitializeDone", t, "ok")}
  BY Kind DEF Ends
<1>. HIDE DEF e
<1>2. /\ s \in State /\ s.r = w.r /\ s.child = w.child /\ s.client = w.client
      /\ Has(w.tasks, Inits(t)) /\ Took(s, w, e)
      /\ status = "ok" => Has(w.tasks, {Task("InitializeDone", t, "ok")})
  BY <1>1 DEF Took, Loses, e
<1>. HIDE DEF Task
<1>3. Initializing(w, t)
  BY <1>2 DEF Initializing
<1>4. w.r.state \in {"INITIALIZING", "ERROR"}
  <2>1. ~Begins(w)
    BY <1>2, EmptyQueue DEF Begins
  <2>2. ~Initialized(w)
    BY <1>3 DEF Initialized, Serves
  <2>. QED
    BY <2>1, <2>2, StateOf DEF Fits, Rests, Plays, Flushes, Members
<1>5. CASE w.r.state = "ERROR"
  <2>. DEFINE x == DestroyChild(s, "audio")
              Silenced(y) == /\ y \in State /\ y.client = s.client /\ y.r.state = s.r.state
                             /\ ~y.r.has["audio"]
  <2>1. s.r.has \in [Types -> BOOLEAN]
    BY <1>2, StateOf DEF Members
  <2>2. Silenced(x)
    BY <1>2, <2>1, ChildDestroyed, ZenonT(60) DEF Types
  <2>3. x.r.has \in [Types -> BOOLEAN]
    BY <2>2, StateOf DEF Members
  <2>. HIDE DEF x
  <2>4. Silenced(DestroyChild(x, "video"))
    BY <2>2, <2>3, ChildDestroyed, ZenonT(60) DEF Types
  <2>5. v = x \/ v = DestroyChild(x, "video")
    BY <1>2, <1>5 DEF OnAudioRendererInitializeDone, OnVideoRendererInitializeDone, x
  <2>6. Silenced(v)
    BY <2>2, <2>4, <2>5
  <2>7. ClockFits(v) /\ Halted(v)
    BY <1>2, <1>5, <2>6 DEF ClockFits, Halted, Fits
  <2>. QED
    BY <2>6, <2>7, HaltedFits
<1>6. CASE w.r.state = "INITIALIZING"
  <2>1. Initializes(w) /\ InTurn(w) /\ ~w.r.time_ticking
    BY <1>6 DEF Fits, ClockFits
  <2>2. /\ InTurn(s) /\ ~Has(s.tasks, Ends(t)) /\ ~Has(s.tasks, Flushed(t))
        /\ ~Has(s.tasks, Inits(t)) /\ ~Has(s.tasks, Reinits(t))
        /\ Has(s.tasks, Ended(t)) <=> Has(w.tasks, Ended(t))
        /\ Has(s.tasks, Reports(t)) <=> Has(w.tasks, Reports(t))
        /\ ~At(w, t, {"kFlushing", "kInitializing", "kPlaying"})
        /\ \A u \in Types \ {t} : SameSight(s, w, u)
    BY <1>1, <1>2, <2>1, EndTaken
  <2>3. ~Has(s.tasks, {Task("InitializeDone", t, "ok")})
    BY <2>2, Kind DEF Has
  <2>4. Prepares(s, t) /\ ~Initializing(s, t)
    <3>1. Prepares(w, t)
      BY <2>1 DEF Initializes
    <3>2. ~Initializing(s, t) /\ ~Reinitializing(s, t)
      BY <1>2, <2>2 DEF Initializing, Reinitializing, At
    <3>3. Unused(s, t)
      BY <1>2, <2>2, <3>1, <3>2 DEF Prepares, Unused, Quiet, At
    <3>. QED
      BY <1>2, <2>3, <3>1, <3>2, <3>3 DEF Prepares, At
  <2>5. \A u \in Types \ {t} : Prepares(s, u) /\ ~Initializing(s, u)
    <3>1. \A u \in Types \ {t} : Prepares(w, u) /\ ~Initializing(w, u)
      BY <1>3, <2>1 DEF Initializes, Types
    <3>. QED
      BY <1>2, <2>2, <3>1 DEF Prepares, Unused, Quiet, SameSight
  <2>6. ~Has(s.tasks, ClientFlushed)
    BY <1>2, <1>6, <2>2 DEF InTurn
  <2>7. status = "ok" /\ w.r.has[t] => At(w, t, {"kFlushed"})
    BY <1>2, <2>1 DEF Initializes, Prepares
  <2>8. CASE status = "error"
    <3>1. v = FinishInitialization(s, "error")
      BY <1>2, <1>6, <2>8 DEF OnAudioRendererInitializeDone, OnVideoRendererInitializeDone
    <3>2. /\ v \in State /\ v.child = s.child /\ v.tasks = s.tasks
          /\ v.r = [s.r EXCEPT !.init_cb = FALSE] /\ v.client.op = "failed"
      BY <1>2, <3>1, InitializationFinishes
    <3>3. SameMembers(v.r, s.r)
      BY <1>2, <3>2, StateOf DEF SameMembers, Members
    <3>4. \A u \in Types : SameSight(v, s, u)
      BY <3>2, SightKept DEF SameQueue, Alike
    <3>5. \A u \in Types : Prepares(v, u) /\ ~Initializing(v, u)
      <4>1. \A u \in Types : SameView(v, s, u)
        BY <3>3, <3>4 DEF SameView, SameMembers
      <4>2. \A u \in Types : Prepares(s, u) => Prepares(v, u)
        BY <4>1, ViewKept
      <4>. QED
        BY <2>4, <2>5, <3>4, <4>2 DEF SameSight
    <3>6. InTurn(v)
      BY <2>2, <2>6, <3>2, TurnsKept
    <3>7. Initializes(v)
      BY <1>2, <2>1, <3>2, <3>3, <3>5 DEF Initializes, SameMembers, Types
    <3>8. Fits(v)
      BY <1>2, <1>6, <2>1, <3>3, <3>6, <3>7 DEF Fits, ClockFits, SameMembers
    <3>. QED
      BY <3>2, <3>8
  <2>9. CASE status = "ok" /\ t = "audio"
    <3>1. v = InitializeRenderer(s, "video")
      BY <1>2, <1>6, <2>9 DEF OnAudioRendererInitializeDone
    <3>2. ToInitialize(s, "video")
      BY <1>2, <1>6, <2>1, <2>2, <2>4, <2>5, <2>7, <2>9 DEF ToInitialize, Initializes, At
    <3>. QED
      BY <1>2, <3>1, <3>2, InitializeRendererFits DEF Types
  <2>10. CASE status = "ok" /\ t = "video"
    <3>. DEFINE m == [s.r EXCEPT !.state = "FLUSHED"]
                y == [s EXCEPT !.r = m]
    <3>1. v = FinishInitialization(y, "ok")
      BY <1>2, <1>6, <2>10 DEF OnVideoRendererInitializeDone
    <3>2. m \in Members /\ [m EXCEPT !.init_cb = FALSE] \in Members
      BY <1>2, StateOf, ZenonT(60) DEF Members
    <3>3. y \in State /\ y.r = m /\ y.child = s.child /\ y.tasks = s.tasks
      BY <1>2, <3>2 DEF State
    <3>4. /\ [m EXCEPT !.init_cb = FALSE].state = "FLUSHED"
          /\ [m EXCEPT !.init_cb = FALSE].has = s.r.has
          /\ [m EXCEPT !.init_cb = FALSE].buffering_state = s.r.buffering_state
          /\ [m EXCEPT !.init_cb = FALSE].ended = s.r.ended
          /\ [m EXCEPT !.init_cb = FALSE].pending_track_change = s.r.pending_track_change
          /\ [m EXCEPT !.init_cb = FALSE].time_ticking = s.r.time_ticking
          /\ [m EXCEPT !.init_cb = FALSE].deferred = s.r.deferred
      BY <1>2, StateOf DEF Members
    <3>. HIDE DEF m, y
    <3>5. /\ v \in State /\ v.child = s.child /\ v.tasks = s.tasks
          /\ v.r = [m EXCEPT !.init_cb = FALSE] /\ v.client.op = "flushed"
      BY <3>1, <3>3, InitializationFinishes
    <3>6. \A u \in Types : SameSight(v, s, u)
      BY <3>5, SightKept DEF SameQueue, Alike
    <3>7. \A u \in Types : /\ Unused(s, u) /\ ~Initializing(s, u) /\ ~Reinitializing(s, u)
                           /\ ~Has(s.tasks, Flushed(u)) /\ ~Has(s.tasks, Inits(u))
                           /\ ~Has(s.tasks, Reinits(u)) /\ Quiet(s, u)
                           /\ s.r.has[u] \/ At(s, u, {"none"})
      BY <2>4, <2>5 DEF Prepares, Unused, Initializing, Reinitializing
    <3>8. \A u \in Types : s.r.has[u] => At(s, u, {"kFlushed"})
      BY <1>2, <1>3, <2>1, <2>7, <2>10 DEF Initializes, Types, At
    <3>9. \A u \in Types : ~Has(s.tasks, Ends(u))
      BY <3>7 DEF Has, Ends
    <3>. DEFINE n == [m EXCEPT !.init_cb = FALSE]
    <3>. HIDE DEF n
    <3>20. /\ v.r = n /\ n.state = "FLUSHED" /\ n.has = s.r.has
           /\ n.buffering_state = s.r.buffering_state /\ n.ended = s.r.ended
           /\ n.pending_track_change = s.r.pending_track_change
           /\ n.time_ticking = s.r.time_ticking /\ n.deferred = s.r.deferred
      BY <3>4, <3>5 DEF n
    <3>21. \A u \in Types : Quiet(v, u)
      BY <3>5, <3>7, <3>20 DEF Quiet
    <3>22. \A u \in Types : Free(v, u)
      <4>1. \A u \in Types : ~At(s, u, {"kFlushing", "kInitializing"})
        BY <3>7 DEF Unused, Initializing, Reinitializing, At
      <4>. QED
        BY <3>5, <3>9, <4>1 DEF Free, At
    <3>10. \A u \in Types : s.r.has[u] => Resting(v, u)
      BY <3>5, <3>8, <3>21, <3>22 DEF Resting, At
    <3>11. \A u \in Types : Serves(v, u)
      <4>. SUFFICES ASSUME NEW u \in Types PROVE Serves(v, u)
        OBVIOUS
      <4>0. /\ ~Has(v.tasks, Reports(u)) /\ v.r.buffering_state[u] = "HAVE_NOTHING"
            /\ v.child[u].buffering_state = "HAVE_NOTHING"
        BY <3>5, <3>7, <3>20 DEF Unused, Quiet
      <4>1. Known(v, u)
        BY <4>0 DEF Known
      <4>2. ~Flushing(v, u)
        BY <3>5, <3>7 DEF Flushing, Unused, At
      <4>3. ~Initializing(v, u) /\ ~Reinitializing(v, u)
        BY <3>6, <3>7 DEF SameSight
      <4>4. s.r.has[u] \/ (At(v, u, {"none"}) /\ ~Has(v.tasks, Ended(u)))
        BY <3>5, <3>7 DEF Quiet, At
      <4>5. u \in setup.streams => s.r.has[u]
        BY <3>7 DEF Unused
      <4>. QED
        BY <3>20, <4>1, <4>2, <4>3, <4>4, <4>5 DEF Serves
    <3>12. InTurn(v)
      BY <2>2, <2>6, <3>5, TurnsKept
    <3>13. Rests(v)
      <4>1. v.r.deferred = "cancelled"
        BY <1>2, <2>1, <3>20 DEF Initializes
      <4>2. \A u \in Types : ~v.r.pending_track_change[u]
        BY <3>7, <3>20 DEF Unused
      <4>. QED
        BY <3>5, <3>10, <3>11, <3>20, <4>1, <4>2 DEF Rests, Initialized
    <3>14. Fits(v)
      BY <1>2, <2>1, <3>12, <3>13, <3>20 DEF Fits, ClockFits
    <3>. QED
      BY <3>5, <3>14
  <2>. QED
    BY <2>8, <2>9, <2>10 DEF Types
<1>. QED
  BY <1>4, <1>5, <1>6

(* The flush of renderers that were at rest is over.                         *)
LEMMA ClientFlushedHandled ==
  ASSUME NEW w \in State, Fits(w), NEW s, NEW e \in ClientFlushed, Took(s, w, e)
  PROVE  FinishFlush(s) \in State /\ Fits(FinishFlush(s))
<1>. DEFINE v == FinishFlush(s)
<1>1. /\ s \in State /\ s.r = w.r /\ s.child = w.child /\ s.client = w.client
      /\ Has(w.tasks, ClientFlushed)
  BY DEF Took, Loses
<1>2. /\ v \in State /\ v.child = s.child /\ v.tasks = s.tasks
      /\ v.r = [s.r EXCEPT !.flush_cb = FALSE]
      /\ v.client = [s.client EXCEPT !.op = "flushed"]
  BY <1>1, FlushFinishes
<1>. HIDE DEF v
<1>3. SameMembers(v.r, s.r)
  BY <1>1, <1>2, StateOf DEF SameMembers, Members
<1>4. v.client.op = "flushed" /\ v.client.error = s.client.error
  BY <1>1, <1>2, StateOf DEF Client
<1>5. ClockFits(s)
  BY TookClock DEF Fits
<1>6. ClockFits(v)
  BY <1>2, <1>3, <1>5 DEF ClockFits, PlaysOn, At, Free, SameMembers
<1>7. CASE w.r.state = "ERROR"
  <2>1. Halted(v)
    BY <1>1, <1>3, <1>4, <1>7 DEF Halted, Fits, SameMembers
  <2>. QED
    BY <1>2, <1>6, <2>1, HaltedFits DEF v
<1>8. CASE w.r.state # "ERROR"
  <2>1. w.r.state = "FLUSHED" /\ Rests(w) /\ InTurn(w)
    BY <1>1, <1>8 DEF Fits, InTurn
  <2>2. \A u \in Types : e \notin Of(u)
    BY Kind
  <2>3. \A u \in Types : SameSight(v, w, u)
    <3>1. \A u \in Types : SameQueue(v.tasks, w.tasks, Of(u))
      BY <1>2, <2>2, QueueKept DEF Took
    <3>. QED
      BY <1>1, <1>2, <3>1, SightKept DEF Alike
  <2>4. ~Has(v.tasks, ClientFlushed)
    BY <1>2, <2>1 DEF Took, Loses, InTurn
  <2>. HIDE DEF Task
  <2>5. InTurn(v)
    BY <2>1, <2>3, <2>4, Kinds, ZenonT(60) DEF InTurn, TurnOf, SameSight
  <2>6. \A u \in Types : SameView(v, w, u)
    BY <1>1, <1>3, <2>3 DEF SameView, SameMembers
  <2>7. \A u \in Types : (Serves(w, u) => Serves(v, u)) /\ (Resting(w, u) => Resting(v, u))
    BY <1>1, <1>3, <2>6, ViewKept DEF SameMembers
  <2>8. Rests(v)
    BY <1>1, <1>3, <1>4, <2>1, <2>7 DEF Rests, Initialized, SameMembers
  <2>9. Fits(v)
    BY <1>1, <1>3, <1>6, <2>1, <2>5, <2>8 DEF Fits, SameMembers
  <2>. QED
    BY <1>2, <2>9 DEF v
<1>. QED
  BY <1>7, <1>8

LEMMA TaskIs ==
  ASSUME NEW e \in Tasks
  PROVE  /\ e = Task(e.f, e.type, e.arg) /\ e.type \in Types
         /\ e.f \in {"InitializeDone", "Reinitialized", "BufferingStateChange", "HaveNothing",
                     "Ended", "Error", "Flushed", "ClientFlushed", "Cancelled"}
         /\ e.f \in {"InitializeDone", "Reinitialized"} => e.arg \in {"ok", "error"}
         /\ e.f = "BufferingStateChange" => e.arg \in Buffering
         /\ e.f \in {"Ended", "Flushed"} => e.arg = "none"
         /\ e.f = "ClientFlushed" => e.type = "video" /\ e.arg = "none"
         /\ e.f \in {"HaveNothing", "Error", "Cancelled"} => e \notin Watched
  BY DEF Tasks, Task, Types, Watched, Of, ClientFlushed

LEMMA OutcomeFits ==
  ASSUME NEW w \in State, Fits(w), NEW e \in Tasks, NEW s, Took(s, w, e),
         NEW v \in Outcomes(s, e)
  PROVE  v \in State /\ Fits(v)
<1>. DEFINE t == e.type
<1>1. t \in Types /\ e = Task(e.f, t, e.arg) /\ s \in State
  BY TaskIs DEF Took
<1>. HIDE DEF t
<1>2. CASE e.f = "InitializeDone"
  <2>1. v = IF t = "audio" THEN OnAudioRendererInitializeDone(s, e.arg)
                           ELSE OnVideoRendererInitializeDone(s, e.arg)
    BY <1>2 DEF Outcomes, t
  <2>2. e.arg \in {"ok", "error"} /\ Took(s, w, Task("InitializeDone", t, e.arg))
    BY <1>1, <1>2, TaskIs
  <2>. QED
    BY <1>1, <2>1, <2>2, InitializedHandled
<1>3. CASE e.f = "Reinitialized"
  <2>1. v = OnRendererReinitialized(s, t, e.arg)
    BY <1>3 DEF Outcomes, t
  <2>2. e.arg \in {"ok", "error"} /\ Took(s, w, Task("Reinitialized", t, e.arg))
    BY <1>1, <1>3, TaskIs
  <2>. QED
    BY <1>1, <2>1, <2>2, ReinitializedHandled
<1>4. CASE e.f = "BufferingStateChange"
  <2>1. v = OnBufferingStateChange(s, t, e.arg)
    BY <1>4 DEF Outcomes, t
  <2>2. e.arg \in Buffering /\ Took(s, w, Report(t, e.arg))
    BY <1>1, <1>4, TaskIs DEF Report
  <2>3. /\ Hearing(s, w, t, e.arg)
        /\ w.r.state \notin {"UNINITIALIZED", "INIT_PENDING_CDM", "INITIALIZING"}
    BY <1>1, <2>2, ReportTaken
  <2>4. v \in State /\ Steady(v, s) /\ Heeds(v, s, t, e.arg)
    BY <1>1, <2>1, <2>2, BufferingDoes
  <2>. QED
    BY <1>1, <2>2, <2>3, <2>4, BufferingFits
<1>5. CASE e.f = "Ended"
  <2>1. v = OnRendererEnded(s, t)
    BY <1>5 DEF Outcomes, t
  <2>2. e \in Ended(t)
    BY <1>1, <1>5, TaskIs DEF Ended
  <2>3. Fits(s) /\ s.r = w.r
    BY <1>1, <2>2, EndedTaken DEF Took
  <2>4. CASE v = s
    BY <1>1, <2>3, <2>4
  <2>5. CASE v # s
    <3>1. w.r.state = "PLAYING" /\ Ending(v, s, t)
      BY <1>1, <2>1, <2>3, <2>5, EndedHeard
    <3>2. v \in State
      BY <3>1 DEF Ending
    <3>. QED
      BY <1>1, <2>2, <3>1, <3>2, EndingFits
  <2>. QED
    BY <2>4, <2>5
<1>6. CASE e.f = "Flushed"
  <2>1. v = OnChildFlushed(s, t)
    BY <1>6 DEF Outcomes, t
  <2>2. e \in Flushed(t)
    BY <1>1, <1>6, TaskIs DEF Flushed
  <2>. QED
    BY <1>1, <2>1, <2>2, FlushedHandled
<1>7. CASE e.f = "ClientFlushed"
  <2>1. v = FinishFlush(s)
    BY <1>7 DEF Outcomes
  <2>2. e \in ClientFlushed
    BY <1>7, TaskIs DEF ClientFlushed
  <2>. QED
    BY <2>1, <2>2, ClientFlushedHandled
<1>8. CASE e.f \in {"HaveNothing", "Error", "Cancelled"}
  <2>1. Fits(s)
    BY <1>8, TaskIs, UnseenTaken
  <2>2. \/ v \in TransitionToHaveNothing(s)
        \/ v = OnError(s)
        \/ v = s
    BY <1>8 DEF Outcomes
  <2>3. v \in TransitionToHaveNothing(s) => v \in State /\ Fits(v)
    BY <1>1, <2>1, NothingFits
  <2>4. OnError(s) \in State /\ Fits(OnError(s))
    BY <1>1, <2>1, OnErrorFits DEF Fits
  <2>. QED
    BY <1>1, <2>1, <2>2, <2>3, <2>4
<1>. QED
  BY <1>2, <1>3, <1>4, <1>5, <1>6, <1>7, <1>8, TaskIs

LEMMA ActRunTask ==
  ASSUME Lives, UNCHANGED setup, RunTask
  PROVE  Lives'
<1>. DEFINE s == [Now EXCEPT !.tasks = Tail(tasks)]
<1>1. tasks # << >>
  BY DEF RunTask
<1>2. PICK v \in Outcomes(s, Head(tasks)) : Become(v)
  BY DEF RunTask
<1>3. Took(s, Now, Head(tasks)) /\ Head(tasks) \in Tasks
  BY <1>1, TaskTaken
<1>. HIDE DEF s
<1>4. v \in State /\ Fits(v)
  BY <1>2, <1>3, NowIs, OutcomeFits
<1>5. Bounded'
  BY SpendBounded DEF RunTask
<1>. QED
  BY <1>2, <1>4, <1>5, NowIs, Becomes

(**************************************************************************)
(*                        The calls of the client                           *)
(**************************************************************************)

(* What the invariant says of the members is as before, but for the state.   *)
Enters(v, w, state) ==
  /\ v \in State /\ v.child = w.child /\ v.tasks = w.tasks
  /\ v.r.state = state /\ v.r.has = w.r.has /\ v.r.buffering_state = w.r.buffering_state
  /\ v.r.ended = w.r.ended /\ v.r.playing = w.r.playing
  /\ v.r.pending_track_change = w.r.pending_track_change
  /\ v.r.time_ticking = w.r.time_ticking /\ v.r.deferred = w.r.deferred

LEMMA BeginFits ==
  ASSUME NEW w \in State, Begins(w), ~w.r.time_ticking, InTurn(w), NEW x
  PROVE  /\ /\ Enters(x, w, "INITIALIZING") /\ x.client.op = "initializing"
            => InitializeRenderer(x, "audio") \in State /\ Fits(InitializeRenderer(x, "audio"))
         /\ /\ Enters(x, w, "INIT_PENDING_CDM") /\ x.client.op = "initializing"
            => Fits(x)
<1>. DEFINE Same == /\ x \in State /\ x.child = w.child /\ x.tasks = w.tasks
                    /\ x.r.has = w.r.has /\ x.r.buffering_state = w.r.buffering_state
                    /\ x.r.ended = w.r.ended
                    /\ x.r.pending_track_change = w.r.pending_track_change
                    /\ x.r.time_ticking = w.r.time_ticking /\ x.r.deferred = w.r.deferred
<1>1. w.tasks = << >> /\ w.r.deferred = "cancelled"
  BY DEF Begins
<1>2. \A T : ~Has(w.tasks, T)
  BY <1>1, EmptyQueue
<1>3. ASSUME Same PROVE InTurn(x)
  BY <1>2, <1>3, TurnsKept
<1>4. ASSUME Same, NEW u \in Types
      PROVE  /\ x.r.has[u] /\ Unused(x, u) /\ At(x, u, {"kUninitialized"})
             /\ Prepares(x, u) /\ ~Initializing(x, u)
  <2>1. w.r.has[u] /\ Unused(w, u) /\ At(w, u, {"kUninitialized"})
    BY DEF Begins
  <2>. HIDE DEF Task
  <2>2. Unused(x, u) /\ At(x, u, {"kUninitialized"})
    BY <1>4, <2>1 DEF Unused, Quiet, At, Reinitializing
  <2>3. ~Initializing(x, u)
    BY <1>2, <1>4, <2>2 DEF Initializing, At
  <2>4. Prepares(x, u)
    BY <1>2, <1>4, <2>1, <2>2 DEF Prepares
  <2>. QED
    BY <1>4, <2>1, <2>2, <2>3, <2>4
<1>5. ASSUME Enters(x, w, "INITIALIZING"), x.client.op = "initializing"
      PROVE  InitializeRenderer(x, "audio") \in State /\ Fits(InitializeRenderer(x, "audio"))
  <2>1. Same
    BY <1>5 DEF Enters
  <2>2. ToInitialize(x, "audio")
    BY <1>1, <1>3, <1>4, <1>5, <2>1 DEF ToInitialize, Enters
  <2>. QED
    BY <2>1, <2>2, InitializeRendererFits DEF Types
<1>6. ASSUME Enters(x, w, "INIT_PENDING_CDM"), x.client.op = "initializing" PROVE Fits(x)
  <2>1. Same
    BY <1>6 DEF Enters
  <2>2. Begins(x)
    BY <1>1, <1>4, <1>6, <2>1 DEF Begins, Enters
  <2>. QED
    BY <1>3, <1>6, <2>1, <2>2 DEF Fits, ClockFits, Enters
<1>. QED
  BY <1>5, <1>6

LEMMA Beginning ==
  ASSUME Lives, r.state \in {"UNINITIALIZED", "INIT_PENDING_CDM"}
  PROVE  Begins(Now) /\ ~Now.r.time_ticking /\ InTurn(Now)
  BY NowIs DEF Fits, ClockFits

LEMMA ActInitialize ==
  ASSUME Lives, UNCHANGED setup, Initialize
  PROVE  Lives'
<1>. DEFINE state == IF setup.encrypted /\ ~r.cdm_context THEN "INIT_PENDING_CDM"
                     ELSE "INITIALIZING"
            m == [[r EXCEPT !.init_cb = TRUE] EXCEPT !.state = state]
            c == [client EXCEPT !.op = "initializing"]
            x == [[Now EXCEPT !.r = m] EXCEPT !.client = c]
            v == IF state = "INITIALIZING" THEN InitializeRenderer(x, "audio") ELSE x
<1>1. Become(v)
  BY NowIs DEF Initialize, Begin, Now
<1>2. state \in {"INIT_PENDING_CDM", "INITIALIZING"}
  OBVIOUS
<1>3. c \in Client /\ c.op = "initializing"
  BY NowIs, StateOf DEF Client
<1>. HIDE DEF state, c
<1>4. /\ m \in Members /\ m.state = state /\ m.has = r.has
      /\ m.buffering_state = r.buffering_state /\ m.ended = r.ended
      /\ m.playing = r.playing /\ m.pending_track_change = r.pending_track_change
      /\ m.time_ticking = r.time_ticking /\ m.deferred = r.deferred
  BY <1>2, NowIs DEF Members
<1>. HIDE DEF m
<1>5. Enters(x, Now, state) /\ x.client.op = "initializing"
  BY <1>3, <1>4, NowIs DEF Enters, State
<1>. HIDE DEF x
<1>6. v \in State /\ Fits(v)
  <2>1. Begins(Now) /\ ~Now.r.time_ticking /\ InTurn(Now)
    BY Beginning DEF Initialize
  <2>. QED
    BY <1>2, <1>5, <2>1, NowIs, BeginFits DEF Enters
<1>7. Bounded'
  BY SpendBounded DEF Initialize
<1>. QED
  BY <1>1, <1>6, <1>7, NowIs, Becomes

LEMMA ActSetCdm ==
  ASSUME Lives, UNCHANGED setup, SetCdm
  PROVE  Lives'
<1>. DEFINE n == [r EXCEPT !.cdm_context = TRUE]
            s == [Now EXCEPT !.r = n]
            m == [n EXCEPT !.state = "INITIALIZING"]
            x == [s EXCEPT !.r = m]
            v == IF r.state = "INIT_PENDING_CDM" THEN InitializeRenderer(x, "audio") ELSE s
<1>1. Become(v)
  BY NowIs DEF SetCdm, Begin, Now
<1>2. n \in Members /\ SameMembers(n, r)
  BY NowIs DEF Members, SameMembers
<1>. HIDE DEF n
<1>3. /\ m \in Members /\ m.state = "INITIALIZING" /\ m.has = n.has
      /\ m.buffering_state = n.buffering_state /\ m.ended = n.ended
      /\ m.playing = n.playing /\ m.pending_track_change = n.pending_track_change
      /\ m.time_ticking = n.time_ticking /\ m.deferred = n.deferred
  BY <1>2 DEF Members
<1>. HIDE DEF m
<1>4. s \in State /\ s.r = n /\ s.child = child /\ s.tasks = tasks /\ s.client = client
  BY <1>2, NowIs DEF State
<1>5. x \in State /\ x.r = m /\ x.child = child /\ x.tasks = tasks /\ x.client = client
  BY <1>3, <1>4 DEF State
<1>. HIDE DEF s, x
<1>6. v \in State /\ Fits(v)
  <2>1. CASE r.state = "INIT_PENDING_CDM"
    <3>1. Begins(Now) /\ ~Now.r.time_ticking /\ InTurn(Now)
      BY <2>1, Beginning
    <3>2. Enters(x, Now, "INITIALIZING")
      BY <1>2, <1>3, <1>5, NowIs DEF Enters, SameMembers
    <3>3. x.client.op = "initializing"
      BY <1>5, <2>1, <3>1, NowIs DEF Begins
    <3>. QED
      BY <2>1, <3>1, <3>2, <3>3, NowIs, BeginFits
  <2>2. CASE r.state # "INIT_PENDING_CDM"
    <3>1. Unseen(s, Now)
      BY <1>2, <1>4, NowIs DEF Unseen, LikeChildren, Alike, SameQueue
    <3>. QED
      BY <1>4, <2>2, <3>1, NowIs, UnseenFits
  <2>. QED
    BY <2>1, <2>2
<1>7. Bounded'
  BY SpendBounded DEF SetCdm
<1>. QED
  BY <1>1, <1>6, <1>7, NowIs, Becomes

LEMMA PlayingFits ==
  ASSUME NEW w \in State, Rests(w), InTurn(w), ~w.r.time_ticking, w.r.state = "FLUSHED",
         w.client.op = "flushed", NEW v \in State,
         v.tasks = w.tasks, v.client.op = "started", v.r.state = "PLAYING",
         v.r.has = w.r.has, v.r.buffering_state = w.r.buffering_state,
         v.r.ended = w.r.ended, v.r.deferred = w.r.deferred,
         v.r.pending_track_change = w.r.pending_track_change,
         v.r.time_ticking = w.r.time_ticking,
         \A t \in Types : IF w.r.has[t]
                          THEN v.r.playing[t] /\ Moved(v.child[t], w.child[t], "kPlaying")
                          ELSE v.child[t] = w.child[t]
  PROVE  Fits(v)
<1>1. /\ \A t \in Types : /\ Serves(w, t) /\ TurnOf(w, t) /\ ~w.r.pending_track_change[t]
                          /\ w.r.has[t] => Resting(w, t)
      /\ w.r.deferred # "cancelled" => w.r.has["audio"]
      /\ ~Has(w.tasks, ClientFlushed)
  BY DEF Rests, Initialized, InTurn
<1>. HIDE DEF Task
<1>2. ASSUME NEW t \in Types, w.r.has[t]
      PROVE  TurnOf(v, t) /\ Serves(v, t) /\ Goes(v, t)
  <2>1. /\ Quiet(w, t) /\ Free(w, t) /\ ~Has(w.tasks, Ends(t)) /\ TurnOf(w, t)
        /\ Serves(w, t) /\ Known(w, t) /\ v.r.playing[t]
        /\ Moved(v.child[t], w.child[t], "kPlaying")
    BY <1>1, <1>2 DEF Resting, Free, Serves
  <2>2. /\ ~Has(w.tasks, Flushed(t)) /\ ~Has(w.tasks, Inits(t)) /\ ~Has(w.tasks, Reinits(t))
    BY <2>1 DEF Has, Ends
  <2>3. TurnOf(v, t)
    BY <2>1, <2>2 DEF TurnOf
  <2>4. /\ ~Initializing(v, t) /\ ~Reinitializing(v, t) /\ ~Flushing(v, t)
    BY <2>1, <2>2 DEF Initializing, Reinitializing, Flushing, At, Moved
  <2>5. Known(v, t)
    BY <2>1 DEF Known, Moved
  <2>6. Serves(v, t)
    BY <1>2, <2>1, <2>4, <2>5 DEF Serves
  <2>7. PlaysOn(v, t)
    BY <2>1 DEF PlaysOn, At, Free, Moved
  <2>8. EndFits(v, t)
    BY <2>1, <2>4 DEF EndFits, Quiet
  <2>. QED
    BY <2>3, <2>4, <2>6, <2>7, <2>8 DEF Goes
<1>3. ASSUME NEW t \in Types, ~w.r.has[t]
      PROVE  TurnOf(v, t) /\ Serves(v, t)
  <2>1. v.child[t] = w.child[t] /\ TurnOf(w, t) /\ Serves(w, t)
    BY <1>1, <1>3
  <2>2. SameSight(v, w, t)
    BY <2>1, SightKept DEF Alike, SameQueue
  <2>. QED
    BY <1>3, <2>1, <2>2 DEF TurnOf, Serves, SameSight
<1>4. InTurn(v)
  BY <1>1, <1>2, <1>3 DEF InTurn
<1>5. DeferralFits(v)
  BY <1>1 DEF DeferralFits, Resting, Quiet, Moved, Types
<1>6. Plays(v)
  BY <1>1, <1>2, <1>3, <1>5 DEF Plays, Initialized, OneChange, TimeFits, Types
<1>. QED
  BY <1>4, <1>6 DEF Fits, ClockFits

(* What the client does next depends on where it is.                        *)
LEMMA FlushedMeans ==
  ASSUME NEW w \in State, Fits(w), w.client.op = "flushed"
  PROVE  \/ Halted(w) /\ ClockFits(w)
         \/ /\ w.r.state = "FLUSHED" /\ Rests(w) /\ InTurn(w) /\ ~w.r.time_ticking
            /\ ~Has(w.tasks, ClientFlushed)
<1>1. ~Begins(w) /\ ~Initializes(w) /\ ~Plays(w) /\ ~Flushes(w)
  BY DEF Begins, Initializes, Plays, OneChange, Flushes
<1>2. w.r.state \in {"FLUSHED", "ERROR"}
  BY <1>1, StateOf DEF Fits, Members
<1>. QED
  BY <1>2 DEF Fits, ClockFits, Halted, InTurn

LEMMA ActStartPlayingFrom ==
  ASSUME Lives, UNCHANGED setup, StartPlayingFrom
  PROVE  Lives'
<1>. DEFINE b == [client EXCEPT !.op = "started"]
            c == [b EXCEPT !.ended = 0]
            p == [t \in Types |-> r.playing[t] \/ r.has[t]]
            m == [r EXCEPT !.state = "PLAYING", !.playing = p]
            d == [t \in Types |-> IF r.has[t] THEN [child[t] EXCEPT !.state = "kPlaying"]
                                              ELSE child[t]]
            s == [Now EXCEPT !.client = c]
            x == [s EXCEPT !.r = m, !.child = d]
            v == IF r.state = "FLUSHED" THEN x ELSE s
<1>1. Become(v)
  BY NowIs, ZenonT(60) DEF StartPlayingFrom, Now
<1>2. /\ c \in Client /\ c.op = "started" /\ c.error = client.error
  <2>1. client \in Client
    BY NowIs, StateOf
  <2>2. b \in Client /\ b.op = "started" /\ b.error = client.error
    BY <2>1 DEF Client
  <2>3. 0 \in 0 .. 2
    OBVIOUS
  <2>. HIDE DEF b
  <2>. QED
    BY <2>2, <2>3 DEF Client
<1>3. p \in [Types -> BOOLEAN] /\ \A t \in Types : r.has[t] => p[t]
  BY NowIs DEF Members
<1>4. /\ d \in [Types -> Filled]
      /\ \A t \in Types : IF r.has[t] THEN Moved(d[t], child[t], "kPlaying")
                                      ELSE d[t] = child[t]
  <2>1. \A t \in Types : child[t] \in Filled
    BY NowIs
  <2>2. \A e \in Filled : /\ [e EXCEPT !.state = "kPlaying"] \in Filled
                          /\ Moved([e EXCEPT !.state = "kPlaying"], e, "kPlaying")
    BY DEF Filled, Child, Moved
  <2>. QED
    BY <2>1, <2>2
<1>. HIDE DEF c, p, d
<1>5. /\ m \in Members /\ m.state = "PLAYING" /\ m.has = r.has
      /\ m.buffering_state = r.buffering_state /\ m.ended = r.ended
      /\ m.playing = p /\ m.pending_track_change = r.pending_track_change
      /\ m.time_ticking = r.time_ticking /\ m.deferred = r.deferred
  BY <1>3, NowIs DEF Members
<1>. HIDE DEF m
<1>6. s \in State /\ s.r = r /\ s.child = child /\ s.tasks = tasks /\ s.client = c
  BY <1>2, NowIs DEF State
<1>7. x \in State /\ x.r = m /\ x.child = d /\ x.tasks = tasks /\ x.client = c
  BY <1>2, <1>4, <1>5, NowIs DEF State
<1>8. client.op = "flushed" /\ Spend("calls")
  BY DEF StartPlayingFrom, MayCall
<1>. HIDE DEF s, x
<1>9. CASE Halted(Now) /\ ClockFits(Now)
  <2>1. v = s
    BY <1>9, NowIs DEF Halted
  <2>2. Halted(s) /\ ClockFits(s)
    BY <1>2, <1>6, <1>9, NowIs DEF Halted, ClockFits, PlaysOn, At, Free
  <2>. QED
    BY <1>1, <1>6, <1>8, <2>1, <2>2, NowIs, HaltedFits, SpendBounded, Becomes
<1>10. CASE /\ r.state = "FLUSHED" /\ Rests(Now) /\ InTurn(Now) /\ ~r.time_ticking
            /\ ~Has(tasks, ClientFlushed)
  <2>1. v = x
    BY <1>10
  <2>2. Fits(x)
    BY <1>2, <1>3, <1>4, <1>5, <1>7, <1>8, <1>10, NowIs, PlayingFits
  <2>. QED
    BY <1>1, <1>7, <1>8, <2>1, <2>2, NowIs, SpendBounded, Becomes
<1>. QED
  BY <1>8, <1>9, <1>10, NowIs, FlushedMeans

(* All play, and are about to be flushed.                                   *)
ToFlush(x) ==
  /\ x.r.state = "FLUSHING" /\ ~x.r.time_ticking /\ x.client.op = "flushing"
  /\ InTurn(x) /\ Initialized(x) /\ ~Has(x.tasks, ClientFlushed)
  /\ \A t \in Types : /\ ~x.r.pending_track_change[t] /\ ~Reinitializing(x, t)
                      /\ x.r.has[t] => PlaysOn(x, t)

LEMMA AudioFlushFits ==
  ASSUME NEW x \in State, ToFlush(x), x.r.has["audio"]
  PROVE  FlushChild(x, "audio", "FlushDone") \in State
         /\ Fits(FlushChild(x, "audio", "FlushDone"))
<1>. DEFINE v == FlushChild(x, "audio", "FlushDone")
<1>1. /\ v \in State /\ v.r = x.r /\ v.tasks = x.tasks /\ v.client = x.client
      /\ Others(v, x, "audio") /\ Moved(v.child["audio"], x.child["audio"], "kFlushing")
      /\ v.child["audio"].then = "FlushDone"
  BY AudioFlushes
<1>. HIDE DEF v, Task
<1>2. SameSight(v, x, "video")
  BY <1>1, SightKept DEF Others, Alike, SameQueue, Types
<1>3. /\ PlaysOn(x, "audio") /\ Free(x, "audio") /\ Serves(x, "audio") /\ Serves(x, "video")
      /\ TurnOf(x, "audio") /\ TurnOf(x, "video") /\ ~Reinitializing(x, "audio")
      /\ x.r.has["video"] => PlaysOn(x, "video")
  BY DEF ToFlush, PlaysOn, Initialized, InTurn, Types
<1>4. /\ ~Has(x.tasks, Ends("audio")) /\ ~Has(x.tasks, Flushed("audio"))
      /\ ~Has(x.tasks, Inits("audio")) /\ ~Has(x.tasks, Reinits("audio"))
  BY <1>3 DEF Free, Has, Ends
<1>5. TurnOf(v, "audio")
  BY <1>1, <1>3, <1>4 DEF TurnOf
<1>6. /\ ~Initializing(v, "audio") /\ ~Reinitializing(v, "audio") /\ Flushing(v, "audio")
  BY <1>1, <1>4 DEF Initializing, Reinitializing, Flushing, At, Moved
<1>7. Serves(v, "audio")
  <2>1. Known(x, "audio")
    BY <1>3 DEF Serves
  <2>2. Known(v, "audio")
    BY <1>1, <2>1 DEF Known, Moved
  <2>. QED
    BY <1>1, <1>6, <2>2 DEF Serves
<1>8. TurnOf(v, "video") /\ Serves(v, "video") /\ ~Reinitializing(v, "video")
  <2>1. Known(x, "video") => Known(v, "video")
    BY <1>1, <1>2 DEF Known, SameSight
  <2>. QED
    BY <1>1, <1>2, <1>3, <2>1 DEF TurnOf, Serves, SameSight, ToFlush, Types
<1>9. x.r.has["video"] => PlaysOn(v, "video") /\ x.r.playing["video"]
  BY <1>1, <1>2, <1>3 DEF PlaysOn, SameSight
<1>10. ~Flushing(v, "video")
  <2>1. Flushing(x, "video") => x.r.has["video"]
    BY <1>3 DEF Serves
  <2>2. PlaysOn(x, "video") => ~Flushing(x, "video")
    BY DEF PlaysOn, Free, Flushing, Has, Ends, At
  <2>. QED
    BY <1>2, <1>3, <2>1, <2>2 DEF SameSight
<1>11. InTurn(v)
  BY <1>1, <1>5, <1>8, Kinds DEF InTurn, ToFlush, Types
<1>12. Flushes(v)
  <2>1. Initialized(v)
    BY <1>1, <1>7, <1>8 DEF Initialized, ToFlush, Types
  <2>. QED
    BY <1>1, <1>6, <1>8, <1>9, <1>10, <2>1 DEF Flushes, ToFlush, Types
<1>13. Fits(v)
  BY <1>1, <1>11, <1>12 DEF Fits, ClockFits, ToFlush
<1>. QED
  BY <1>1, <1>13 DEF v

LEMMA NoAudioFlushes ==
  ASSUME NEW x \in State, ToFlush(x), ~x.r.has["audio"]
  PROVE  OnAudioRendererFlushDone(x) \in State /\ Fits(OnAudioRendererFlushDone(x))
<1>. DEFINE y == Forget(x, "audio")
<1>1. /\ y \in State /\ y.child = x.child /\ y.tasks = x.tasks /\ y.client = x.client
      /\ y.r.state = x.r.state /\ Forgets(y.r, x.r, "audio")
  BY Forgotten DEF Types
<1>2. OnAudioRendererFlushDone(x) = FlushVideoRenderer(y)
  BY DEF OnAudioRendererFlushDone, Forget, ToFlush
<1>. HIDE DEF y, Task
<1>3. \A u \in Types : SameSight(y, x, u)
  BY <1>1, SightKept DEF SameQueue, Alike
<1>4. InTurn(y)
  BY <1>1, TurnsKept DEF ToFlush
<1>5. Initialized(y)
  <2>1. \A u \in Types : Known(x, u) => Known(y, u)
    BY <1>1, <1>3 DEF Known, SameSight, Forgets
  <2>. QED
    BY <1>1, <1>3, <2>1 DEF ToFlush, Initialized, Serves, SameSight, Forgets
<1>6. Half(y)
  BY <1>1, <1>3, <1>4, <1>5 DEF Half, ToFlush, Forgets, SameSight
<1>7. y.r.has["video"] => PlaysOn(y, "video")
  BY <1>1, <1>3 DEF ToFlush, PlaysOn, SameSight, Forgets, Types
<1>. QED
  BY <1>1, <1>2, <1>6, <1>7, HalfGoesOn

LEMMA FlushBegins ==
  ASSUME NEW w \in State, Plays(w), InTurn(w), w.client.op = "started",
         w.r.state = "PLAYING", NEW s, Enters(s, w, "FLUSHING"), s.client.op = "flushing"
  PROVE  FlushInternal(s) \in State /\ Fits(FlushInternal(s))
<1>. DEFINE x == IF s.r.time_ticking THEN PausePlayback(s) ELSE s
<1>1. s \in State
  BY DEF Enters
<1>2. /\ x \in State /\ LikeChildren(x, s) /\ x.tasks = s.tasks /\ x.client = s.client
      /\ x.r = [s.r EXCEPT !.time_ticking = FALSE]
  <2>1. s.r = [s.r EXCEPT !.time_ticking = FALSE] \/ s.r.time_ticking
    BY <1>1, StateOf DEF Members
  <2>2. LikeChildren(s, s)
    BY DEF LikeChildren, Alike
  <2>. QED
    BY <1>1, <2>1, <2>2, Paused
<1>3. FlushInternal(s) = IF x.r.has["audio"] /\ x.r.playing["audio"]
                         THEN FlushChild(x, "audio", "FlushDone")
                         ELSE OnAudioRendererFlushDone(x)
  <2>1. x.r.has = s.r.has /\ x.r.playing = s.r.playing
    BY <1>1, <1>2, StateOf DEF Members
  <2>. QED
    BY <2>1 DEF FlushInternal
<1>. HIDE DEF x
<1>4. /\ x.r.state = "FLUSHING" /\ ~x.r.time_ticking /\ x.r.has = w.r.has
      /\ x.r.buffering_state = w.r.buffering_state /\ x.r.deferred = w.r.deferred
      /\ x.r.playing = w.r.playing /\ x.r.pending_track_change = w.r.pending_track_change
  BY <1>1, <1>2, StateOf DEF Members, Enters
<1>. HIDE DEF Task
<1>5. x.tasks = w.tasks /\ x.client.op = "flushing" /\ LikeChildren(x, w)
  BY <1>2 DEF Enters, LikeChildren, Alike
<1>6. \A u \in Types : SameSight(x, w, u)
  BY <1>5, SightKept DEF LikeChildren, SameQueue
<1>7. \A u \in Types : ~w.r.pending_track_change[u]
  BY DEF Plays, OneChange
<1>8. ~Has(w.tasks, ClientFlushed)
  BY DEF InTurn
<1>9. InTurn(x)
  BY <1>5, <1>6, <1>8, Kinds DEF InTurn, TurnOf, SameSight
<1>10. Initialized(x)
  <2>1. \A u \in Types : Known(w, u) => Known(x, u)
    BY <1>4, <1>6 DEF Known, SameSight
  <2>. QED
    BY <1>4, <1>6, <2>1 DEF Plays, Initialized, Serves, SameSight
<1>11. \A u \in Types : w.r.has[u] => PlaysOn(w, u)
  BY <1>7 DEF Plays, Goes
<1>12. \A u \in Types : ~Reinitializing(w, u)
  <2>1. \A u \in Types : Reinitializing(w, u) => w.r.has[u]
    BY DEF Plays, Initialized, Serves
  <2>2. \A u \in Types : PlaysOn(w, u) => ~Reinitializing(w, u)
    BY DEF PlaysOn, Free, Reinitializing, Has, Ends, At
  <2>. QED
    BY <1>11, <2>1, <2>2
<1>13. ToFlush(x)
  BY <1>4, <1>5, <1>6, <1>7, <1>8, <1>9, <1>10, <1>11, <1>12
     DEF ToFlush, PlaysOn, SameSight
<1>14. CASE x.r.has["audio"]
  <2>1. x.r.playing["audio"]
    BY <1>13, <1>14 DEF ToFlush, PlaysOn, Types
  <2>. QED
    BY <1>2, <1>3, <1>13, <1>14, <2>1, AudioFlushFits
<1>15. CASE ~x.r.has["audio"]
  BY <1>2, <1>3, <1>13, <1>15, NoAudioFlushes
<1>. QED
  BY <1>14, <1>15

LEMMA ActFlush ==
  ASSUME Lives, UNCHANGED setup, Flush
  PROVE  Lives'
<1>. DEFINE c == [client EXCEPT !.op = "flushing"]
            s == [Now EXCEPT !.client = c]
            n == [r EXCEPT !.flush_cb = TRUE]
            y == [s EXCEPT !.r = n]
            e == Task("ClientFlushed", "video", "none")
            m == [n EXCEPT !.state = "FLUSHING"]
            x == [s EXCEPT !.r = m]
            v == IF r.state = "FLUSHED" THEN Post(y, e)
                 ELSE IF r.state = "PLAYING" THEN FlushInternal(x) ELSE s
<1>1. Become(v)
  BY NowIs DEF Flush, Now
<1>2. client.op \in {"started", "flushed"} /\ Spend("calls")
  BY DEF Flush, MayCall
<1>3. c \in Client /\ c.op = "flushing" /\ c.error = client.error
  <2>1. client \in Client
    BY NowIs, StateOf
  <2>. QED
    BY <2>1 DEF Client
<1>4. n \in Members /\ SameMembers(n, r)
  BY NowIs DEF Members, SameMembers
<1>. HIDE DEF c, n
<1>5. /\ m \in Members /\ m.state = "FLUSHING" /\ m.has = r.has
      /\ m.buffering_state = r.buffering_state /\ m.ended = r.ended
      /\ m.playing = r.playing /\ m.pending_track_change = r.pending_track_change
      /\ m.time_ticking = r.time_ticking /\ m.deferred = r.deferred
  BY <1>4 DEF Members, SameMembers
<1>. HIDE DEF m
<1>6. s \in State /\ s.r = r /\ s.child = child /\ s.tasks = tasks /\ s.client = c
  BY <1>3, NowIs DEF State
<1>7. y \in State /\ y.r = n /\ y.child = child /\ y.tasks = tasks /\ y.client = c
  BY <1>4, <1>6 DEF State
<1>8. x \in State /\ x.r = m /\ x.child = child /\ x.tasks = tasks /\ x.client = c
  BY <1>5, <1>6 DEF State
<1>. HIDE DEF s, y, x
<1>9. v \in State /\ Fits(v)
  <2>1. CASE r.state = "FLUSHED"
    <3>1. /\ Rests(Now) /\ InTurn(Now) /\ ~Now.r.time_ticking
          /\ ~Has(Now.tasks, ClientFlushed)
      <4>1. client.op = "flushed"
        BY <1>2, <2>1, NowIs DEF Fits, Rests
      <4>. QED
        BY <2>1, <4>1, NowIs, FlushedMeans DEF Halted
    <3>2. e \in ClientFlushed /\ e \in Tasks /\ \A u \in Types : e \notin Of(u)
      <4>1. e \in ClientFlushed
        BY DEF ClientFlushed
      <4>2. e \in Tasks
        BY <4>1, TaskKinds
      <4>. HIDE DEF e
      <4>. QED
        BY <4>1, <4>2, Kind
    <3>. HIDE DEF e
    <3>3. /\ v \in State /\ v.r = n /\ v.child = child /\ v.client = c
          /\ Gains(tasks, e, v.tasks)
      BY <1>7, <2>1, <3>2, Posted
    <3>. HIDE DEF v, Task
    <3>4. \A u \in Types : SameSight(v, Now, u)
      <4>1. \A u \in Types : SameQueue(v.tasks, tasks, Of(u))
        BY <3>2, <3>3, QueueKept
      <4>. QED
        BY <3>3, <4>1, NowIs, SightKept DEF Alike
    <3>5. Single(v.tasks, ClientFlushed)
      BY <3>1, <3>3, NowIs DEF Gains, InTurn
    <3>6. InTurn(v)
      <4>1. \A u \in Types : TurnOf(v, u)
        BY <3>1, <3>4 DEF InTurn, TurnOf, SameSight
      <4>2. v.r.state = "FLUSHED" /\ v.client.op = "flushing"
        BY <1>3, <1>4, <2>1, <3>3 DEF SameMembers
      <4>. QED
        BY <3>5, <4>1, <4>2 DEF InTurn
    <3>7. \A u \in Types : SameView(v, Now, u)
      BY <1>4, <3>3, <3>4, NowIs DEF SameView, SameMembers
    <3>8. \A u \in Types :
            (Serves(Now, u) => Serves(v, u)) /\ (Resting(Now, u) => Resting(v, u))
      BY <1>4, <2>1, <3>3, <3>7, NowIs, ViewKept DEF SameMembers
    <3>9. Rests(v)
      BY <1>3, <1>4, <3>1, <3>3, <3>8, NowIs DEF Rests, Initialized, SameMembers
    <3>10. Fits(v)
      BY <1>4, <2>1, <3>1, <3>3, <3>6, <3>9, NowIs DEF Fits, ClockFits, SameMembers
    <3>. QED
      BY <3>3, <3>10
  <2>2. CASE r.state = "PLAYING"
    <3>1. v = FlushInternal(x)
      BY <2>2
    <3>2. Plays(Now) /\ InTurn(Now) /\ client.op = "started"
      BY <1>2, <2>2, NowIs DEF Fits, Plays, OneChange
    <3>3. Enters(x, Now, "FLUSHING")
      BY <1>5, <1>8, NowIs DEF Enters
    <3>. QED
      BY <1>3, <1>8, <2>2, <3>1, <3>2, <3>3, NowIs, FlushBegins
  <2>3. CASE r.state \notin {"FLUSHED", "PLAYING"}
    <3>1. r.state = "ERROR"
      BY <1>2, <2>3, NowIs DEF Fits, Begins, Initializes, Flushes, Members
    <3>2. Halted(s) /\ ClockFits(s)
      BY <1>3, <1>6, <3>1, NowIs DEF Fits, Halted, ClockFits, PlaysOn, At, Free
    <3>. QED
      BY <1>6, <2>3, <3>2, HaltedFits
  <2>. QED
    BY <2>1, <2>2, <2>3
<1>. QED
  BY <1>1, <1>2, <1>9, NowIs, SpendBounded, Becomes

LEMMA ActSetPlaybackRate ==
  ASSUME Lives, UNCHANGED setup, NEW rate \in {0, 1}, SetPlaybackRate(rate)
  PROVE  Lives'
<1>. DEFINE m == [r EXCEPT !.playback_rate = rate]
            s == [Now EXCEPT !.r = m]
            v == IF ~r.time_ticking \/ ~r.has["video"] THEN s
                 ELSE IF rate > 0 THEN OnTimeProgressing(s) ELSE OnTimeStopped(s)
<1>1. Become(v)
  BY NowIs DEF SetPlaybackRate, Now
<1>2. m \in Members /\ SameMembers(m, r)
  BY NowIs DEF Members, SameMembers
<1>. HIDE DEF m
<1>3. s \in State /\ s.r = m /\ s.child = child /\ s.tasks = tasks /\ s.client = client
  BY <1>2, NowIs DEF State
<1>. HIDE DEF s
<1>4. /\ v \in State /\ LikeChildren(v, s) /\ v.r = s.r /\ v.tasks = s.tasks
      /\ v.client = s.client
  <2>1. LikeChildren(s, s)
    BY DEF LikeChildren, Alike
  <2>. QED
    BY <1>3, <2>1, TimeProgressing, TimeStopped
<1>. HIDE DEF v
<1>5. Unseen(v, Now)
  BY <1>2, <1>3, <1>4, NowIs DEF Unseen, LikeChildren, Alike, SameQueue
<1>6. Fits(v)
  BY <1>5, NowIs, UnseenFits
<1>7. Bounded'
  BY SpendBounded DEF SetPlaybackRate
<1>. QED
  BY <1>1, <1>4, <1>6, <1>7, NowIs, Becomes

(* The renderer t is flushed for the sake of another track.                  *)
Changes(v, w, t) ==
  /\ v \in State /\ v.client.op = "changing" /\ v.r.state = w.r.state /\ v.r.has = w.r.has
  /\ v.r.buffering_state = w.r.buffering_state /\ v.r.ended = w.r.ended
  /\ v.r.playing = w.r.playing /\ v.r.deferred = w.r.deferred
  /\ v.r.pending_track_change = [w.r.pending_track_change EXCEPT ![t] = TRUE]
  /\ v.r.time_ticking => w.r.time_ticking /\ t # "audio"
  /\ \A u \in Types \ {t} : Alike(v.child[u], w.child[u])
  /\ v.child[t].state = "kFlushing" /\ v.child[t].then \in {"Restart", "Reinitialize"}
  /\ t = "video" => v.child[t].buffering_state = "HAVE_NOTHING"
  /\ \/ /\ v.tasks = w.tasks
        /\ v.child[t].buffering_state = w.child[t].buffering_state
     \/ /\ Gains(w.tasks, Report(t, "HAVE_NOTHING"), v.tasks)
        /\ v.child[t].buffering_state = "HAVE_NOTHING"

LEMMA ChangesFits ==
  ASSUME NEW w \in State, Plays(w), InTurn(w), ClockFits(w), w.client.op = "started",
         w.r.state = "PLAYING", setup \in Setups, NEW t \in setup.changing, t \in Types,
         w.r.has[t], NEW v, Changes(v, w, t)
  PROVE  Fits(v)
<1>. DEFINE e == Report(t, "HAVE_NOTHING")
<1>1. /\ \A u \in Types : ~w.r.pending_track_change[u] /\ Serves(w, u) /\ TurnOf(w, u)
      /\ \A u \in Types : w.r.has[u] => Goes(w, u)
      /\ PlaysOn(w, t) /\ Free(w, t) /\ ~Has(w.tasks, Ends(t))
      /\ ~Has(w.tasks, ClientFlushed)
  BY DEF Plays, OneChange, Initialized, InTurn, Goes, PlaysOn, Free
<1>2. /\ v.r.pending_track_change[t]
      /\ \A u \in Types \ {t} : v.r.pending_track_change[u] = w.r.pending_track_change[u]
  BY StateOf DEF Changes, Members
<1>3. /\ e \in Reports(t) /\ e \notin Ended(t) /\ e \notin Ends(t) /\ e \notin ClientFlushed
      /\ \A u \in Types \ {t} : e \notin Of(u)
  <2>1. e \in Reports(t)
    BY Kind DEF Buffering
  <2>. HIDE DEF e
  <2>. QED
    BY <2>1, Kind
<1>4. v.tasks = w.tasks \/ Gains(w.tasks, e, v.tasks)
  BY DEF Changes
<1>. HIDE DEF e
<1>5. /\ ~Has(v.tasks, Ends(t)) /\ ~Has(v.tasks, ClientFlushed)
  BY <1>1, <1>3, <1>4 DEF Gains
<1>. HIDE DEF Task
<1>6. ~Has(v.tasks, Flushed(t)) /\ ~Has(v.tasks, Inits(t)) /\ ~Has(v.tasks, Reinits(t))
  BY <1>5 DEF Has, Ends
<1>7. \A u \in Types \ {t} : SameSight(v, w, u)
  <2>1. \A u \in Types \ {t} : SameQueue(v.tasks, w.tasks, Of(u))
    BY <1>3, <1>4, QueueKept
  <2>. QED
    BY <2>1, SightKept DEF Changes
<1>8. \A u \in Types \ {t} : SameView(v, w, u)
  BY <1>2, <1>7 DEF SameView, Changes
<1>9. PlaybackHasEnded(v) <=> PlaybackHasEnded(w)
  BY DEF PlaybackHasEnded, Changes
<1>10. \A u \in Types \ {t} : TurnOf(v, u) /\ Serves(v, u) /\ (w.r.has[u] => Goes(v, u))
  BY <1>1, <1>8, <1>9, ViewKept DEF Changes
<1>11. TurnOf(v, t)
  BY <1>5, <1>6, Kinds DEF TurnOf
<1>12. InTurn(v)
  BY <1>5, <1>10, <1>11, Kinds DEF InTurn
<1>13. ~Initializing(v, t) /\ ~Reinitializing(v, t)
  BY <1>6 DEF Initializing, Reinitializing, At, Changes
<1>14. Serves(v, t)
  <2>1. Known(w, t)
    BY <1>1 DEF Serves
  <2>2. CASE v.tasks = w.tasks /\ v.child[t].buffering_state = w.child[t].buffering_state
    <3>1. Known(v, t)
      BY <2>1, <2>2 DEF Known, Changes
    <3>. QED
      BY <1>1, <1>13, <3>1 DEF Serves, Changes
  <2>3. CASE /\ Gains(w.tasks, e, v.tasks)
             /\ v.child[t].buffering_state = "HAVE_NOTHING"
    <3>1. Has(v.tasks, Reports(t)) /\ LastOf(v.tasks, Reports(t), e)
      BY <1>3, <2>3 DEF Gains
    <3>2. Known(v, t)
      BY <2>3, <3>1 DEF Known, e
    <3>. QED
      BY <1>1, <1>13, <3>2 DEF Serves, Changes
  <2>. QED
    BY <2>2, <2>3 DEF Changes, e
<1>15. Goes(v, t)
  BY <1>2, <1>13 DEF Goes, EndFits, Changes
<1>16. OneChange(v)
  <2>1. v.r.pending_track_change["audio"] => ~v.r.time_ticking
    BY <1>1, <1>2 DEF Changes, Types
  <2>. QED
    BY <1>1, <1>2, <2>1 DEF OneChange, Changes
<1>17. DeferralFits(v)
  <2>1. CASE t = "video"
    BY <2>1 DEF DeferralFits, Changes
  <2>2. CASE t = "audio"
    <3>1. SameSight(v, w, "video")
      BY <1>7, <2>2 DEF Types
    <3>. QED
      BY <3>1 DEF DeferralFits, Changes, SameSight, Plays
  <2>. QED
    BY <2>1, <2>2 DEF Types
<1>18. TimeFits(v)
  BY DEF TimeFits, Changes
<1>19. Initialized(v)
  BY <1>10, <1>14 DEF Initialized, Plays, Changes
<1>20. Plays(v)
  BY <1>10, <1>15, <1>16, <1>17, <1>18, <1>19 DEF Plays, Changes
<1>21. ClockFits(v)
  <2>1. v.r.time_ticking /\ v.r.has["audio"] => PlaysOn(v, "audio")
    <3>. SUFFICES ASSUME v.r.time_ticking, v.r.has["audio"] PROVE PlaysOn(v, "audio")
      OBVIOUS
    <3>1. t # "audio" /\ PlaysOn(w, "audio")
      BY DEF Changes, ClockFits
    <3>2. SameView(v, w, "audio")
      BY <1>8, <3>1 DEF Types
    <3>. QED
      BY <3>1, <3>2, ViewKept DEF Types
  <2>. QED
    BY <2>1 DEF ClockFits, Changes
<1>. QED
  BY <1>12, <1>20, <1>21 DEF Fits, Changes

LEMMA TrackChanges ==
  ASSUME NEW s \in State, NEW t \in Types, NEW track, s.r.playing[t]
  PROVE  Changes(TracksChanged(s, t, track), s, t)
<1>. DEFINE q == [s.r.pending_track_change EXCEPT ![t] = TRUE]
            m == [s.r EXCEPT !.pending_track_change = q]
            c == [s.client EXCEPT !.op = "changing"]
            p == [s EXCEPT !.r = m, !.client = c]
            x == IF t = "audio" THEN PausePlayback(p) ELSE p
            then == IF track = "other" THEN "Reinitialize" ELSE "Restart"
            v == FlushChild(x, t, then)
<1>1. TracksChanged(s, t, track) = v
  <2>1. [s EXCEPT !.r.pending_track_change[t] = TRUE, !.client.op = "changing"] = p
    BY StateOf DEF State
  <2>2. p.r.playing[t]
    BY StateOf DEF State, Members
  <2>. HIDE DEF p
  <2>. QED
    BY <2>1, <2>2 DEF TracksChanged
<1>2. q \in [Types -> BOOLEAN]
  BY StateOf DEF Members
<1>3. c \in Client /\ c.op = "changing"
  <2>1. s.client \in Client
    BY StateOf
  <2>. QED
    BY <2>1 DEF Client
<1>4. then \in {"Restart", "Reinitialize"}
  OBVIOUS
<1>. HIDE DEF q, c, then
<1>5. /\ m \in Members /\ m.state = s.r.state /\ m.has = s.r.has
      /\ m.buffering_state = s.r.buffering_state /\ m.ended = s.r.ended
      /\ m.playing = s.r.playing /\ m.deferred = s.r.deferred
      /\ m.pending_track_change = q /\ m.time_ticking = s.r.time_ticking
  BY <1>2, StateOf DEF Members
<1>. HIDE DEF m
<1>6. p \in State /\ p.r = m /\ p.child = s.child /\ p.tasks = s.tasks /\ p.client = c
  BY <1>3, <1>5 DEF State
<1>. HIDE DEF p
<1>7. /\ x \in State /\ LikeChildren(x, s) /\ x.tasks = s.tasks /\ x.client = c
      /\ x.r = IF t = "audio" THEN [m EXCEPT !.time_ticking = FALSE] ELSE m
  <2>1. LikeChildren(s, s) /\ LikeChildren(p, s)
    BY <1>6 DEF LikeChildren, Alike
  <2>2. LET y == PausePlayback(p)
        IN  /\ y \in State /\ LikeChildren(y, p) /\ y.r = [m EXCEPT !.time_ticking = FALSE]
            /\ y.tasks = s.tasks /\ y.client = c
    BY <1>6, Paused
  <2>3. LikeChildren(PausePlayback(p), s)
    BY <1>6, <2>2 DEF LikeChildren
  <2>. QED
    BY <1>6, <2>1, <2>2, <2>3
<1>. HIDE DEF x
<1>8. /\ x.r.state = s.r.state /\ x.r.has = s.r.has
      /\ x.r.buffering_state = s.r.buffering_state /\ x.r.ended = s.r.ended
      /\ x.r.playing = s.r.playing /\ x.r.deferred = s.r.deferred
      /\ x.r.pending_track_change = q
      /\ x.r.time_ticking => s.r.time_ticking /\ t # "audio"
  BY <1>5, <1>7 DEF Members
<1>9. \A u \in Types : Alike(x.child[u], s.child[u])
  BY <1>7 DEF LikeChildren
<1>10. CASE t = "audio"
  <2>1. /\ v \in State /\ v.r = x.r /\ v.tasks = x.tasks /\ v.client = x.client
        /\ Others(v, x, t) /\ Moved(v.child[t], x.child[t], "kFlushing")
        /\ v.child[t].then = then
    BY <1>4, <1>7, <1>10, AudioFlushes
  <2>. HIDE DEF v
  <2>2. \A u \in Types \ {t} : Alike(v.child[u], s.child[u])
    BY <1>9, <2>1 DEF Others
  <2>3. /\ v.tasks = s.tasks /\ v.child[t].buffering_state = s.child[t].buffering_state
        /\ v.child[t].state = "kFlushing"
    BY <1>7, <1>9, <2>1 DEF Moved, Alike
  <2>4. Changes(v, s, t)
    BY <1>3, <1>4, <1>7, <1>8, <1>10, <2>1, <2>2, <2>3 DEF Changes, q
  <2>. QED
    BY <1>1, <2>4 DEF v
<1>11. CASE t = "video"
  <2>1. /\ v \in State /\ v.r = x.r /\ v.client = x.client /\ Others(v, x, t)
        /\ v.child[t].state = "kFlushing" /\ v.child[t].then = then
        /\ v.child[t].buffering_state = "HAVE_NOTHING"
        /\ IF x.child[t].buffering_state = "HAVE_NOTHING" THEN v.tasks = x.tasks
           ELSE Gains(x.tasks, Report(t, "HAVE_NOTHING"), v.tasks)
    BY <1>4, <1>7, <1>11, VideoFlushes
  <2>. HIDE DEF v
  <2>. QED
    BY <1>1, <1>3, <1>4, <1>7, <1>8, <1>9, <1>11, <2>1
       DEF Changes, Others, Alike, v, q
<1>. QED
  BY <1>10, <1>11 DEF Types

LEMMA ActChangeTracks ==
  ASSUME Lives, UNCHANGED setup, NEW t \in setup.changing,
         NEW track \in {"none", "current", "other"}, ChangeTracks(t, track)
  PROVE  Lives'
<1>. DEFINE v == TracksChanged(Now, t, track)
<1>1. Become(v) /\ client.op = "started" /\ ~client.error /\ Spend("calls")
  BY DEF ChangeTracks, MayCall
<1>2. setup \in Setups /\ setup \in Setup /\ t \in setup.streams /\ t \in Types
  BY NowIs DEF RendererAssumption, Setup
<1>3. r.state = "PLAYING"
  BY <1>1, NowIs DEF Fits, Begins, Initializes, Rests, Flushes, Members
<1>4. Plays(Now) /\ InTurn(Now) /\ ClockFits(Now)
  BY <1>3, NowIs DEF Fits
<1>5. r.has[t]
  BY <1>2, <1>4, NowIs DEF Plays, Initialized, Serves
<1>6. r.playing[t]
  BY <1>1, <1>2, <1>4, <1>5, NowIs DEF Plays, Goes, OneChange, PlaysOn
<1>7. Changes(v, Now, t)
  BY <1>2, <1>6, NowIs, TrackChanges
<1>. HIDE DEF v
<1>8. v \in State /\ Fits(v)
  BY <1>1, <1>2, <1>3, <1>4, <1>5, <1>7, NowIs, ChangesFits DEF Changes
<1>. QED
  BY <1>1, <1>8, NowIs, SpendBounded, Becomes

LEMMA ActFailsFlushing ==
  ASSUME Lives, UNCHANGED setup, FailsFlushing
  PROVE  Lives'
<1>. DEFINE c == [child["audio"] EXCEPT !.state = "kFlushed"]
            y == With(Now, "audio", c)
            z == OnError(y)
            w == OnChildFlushed(z, "audio")
            v == OnAudioFlushedLocked(z)
<1>1. Become(v)
  BY NowIs DEF FailsFlushing, With, Now
<1>2. child["audio"].state = "kFlushing" /\ Spend("errors")
  BY DEF FailsFlushing, Is
<1>3. c \in Filled
  <2>1. child["audio"] \in Filled
    BY NowIs DEF Types
  <2>. QED
    BY <2>1 DEF Filled, Child
<1>. HIDE DEF c
<1>4. y \in State /\ y.r = r /\ y.client = client
  BY <1>3, NowIs, ChildBecomes DEF Types
<1>5. r.time_ticking => ~r.has["audio"]
  BY <1>2, NowIs DEF Fits, ClockFits, PlaysOn, At
<1>6. ClockFits(y) /\ (y.r.state = "ERROR" => y.client.error)
  BY <1>4, <1>5, NowIs DEF Fits, ClockFits
<1>. HIDE DEF y
<1>7. /\ z \in State /\ Halted(z) /\ z.r.has = r.has /\ z.r.time_ticking = r.time_ticking
  BY <1>4, <1>6, OnErrorDoes DEF Halted
<1>. HIDE DEF z
<1>8. /\ v \in State /\ Halted(v) /\ v.r.has = r.has /\ v.r.time_ticking = r.time_ticking
  <2>1. CASE z.child["audio"].then = "FlushDone"
    <3>1. v = z
      BY <1>7, <2>1 DEF OnAudioFlushedLocked, OnChildFlushed, OnAudioRendererFlushDone, Halted
    <3>. QED
      BY <1>7, <3>1
  <2>2. CASE z.child["audio"].then # "FlushDone"
    <3>1. Reworks(w, z, "audio")
      BY <1>7, <2>2, ChangeGoesOn DEF Halted, Types
    <3>2. v = [w EXCEPT !.child["audio"].state = "hung", !.client.op = z.client.op]
      BY <2>2 DEF OnAudioFlushedLocked
    <3>. HIDE DEF w, v
    <3>3. /\ w \in State /\ Halted(w)
          /\ w.r.has = r.has /\ w.r.time_ticking = r.time_ticking
      BY <1>7, <3>1 DEF Reworks, Halted
    <3>4. /\ w.child \in [Types -> Filled] /\ w.client \in Client /\ z.client \in Client
          /\ w.child["audio"] \in Filled
          /\ w = [r |-> w.r, child |-> w.child, tasks |-> w.tasks, client |-> w.client]
      BY <1>7, <3>3, StateOf
    <3>. DEFINE d == [w.child["audio"] EXCEPT !.state = "hung"]
                e == [w.client EXCEPT !.op = z.client.op]
    <3>5. d \in Filled
      BY <3>4 DEF Filled, Child
    <3>6. e \in Client /\ e.error = w.client.error
      BY <3>4 DEF Client
    <3>7. v = [ r |-> w.r, child |-> [w.child EXCEPT !["audio"] = d],
                tasks |-> w.tasks, client |-> e ]
      BY <3>2, <3>4
    <3>. HIDE DEF d, e
    <3>8. v \in State
      BY <3>3, <3>4, <3>5, <3>6, <3>7, StateOf DEF State, Types
    <3>. QED
      BY <3>3, <3>6, <3>7, <3>8 DEF Halted
  <2>. QED
    BY <2>1, <2>2
<1>. HIDE DEF v
<1>9. Fits(v)
  <2>1. ClockFits(v)
    BY <1>5, <1>8 DEF ClockFits, Halted
  <2>. QED
    BY <1>8, <2>1, HaltedFits
<1>. QED
  BY <1>1, <1>2, <1>8, <1>9, NowIs, SpendBounded, Becomes

LEMMA ActDestroy ==
  ASSUME Lives, UNCHANGED setup, Destroy
  PROVE  Gone'
<1>. DEFINE h == [t \in Types |-> FALSE]
            m == [r EXCEPT !.state = "destroyed", !.init_cb = FALSE, !.flush_cb = FALSE,
                           !.has = h, !.time_ticking = FALSE, !.deferred = "cancelled"]
            d == [NewChild EXCEPT !.state = "none"]
            c == [client EXCEPT !.op = "gone"]
<1>1. /\ r' = m /\ child' = [t \in Types |-> d] /\ tasks' = << >> /\ client' = c
      /\ Spend("calls")
  BY DEF Destroy
<1>2. h \in [Types -> BOOLEAN] /\ \A t \in Types : ~h[t]
  OBVIOUS
<1>3. d \in Filled
  BY DEF NewChild, Filled, Child, Buffering
<1>4. c \in Client /\ c.op = "gone"
  <2>1. client \in Client
    BY NowIs, StateOf
  <2>. QED
    BY <2>1 DEF Client
<1>. HIDE DEF h, c
<1>5. /\ m \in Members /\ m.state = "destroyed" /\ m.has = h /\ ~m.time_ticking
      /\ m.deferred = "cancelled"
  BY <1>2, NowIs DEF Members
<1>. HIDE DEF m
<1>6. tasks' \in Seq(Tasks) /\ child' \in [Types -> Filled]
  BY <1>1, <1>3
<1>7. Now' \in State
  BY <1>1, <1>4, <1>5, <1>6 DEF Now, State
<1>8. Bounded'
  BY <1>1, SpendBounded
<1>. QED
  BY <1>1, <1>2, <1>4, <1>5, <1>7, <1>8, NowIs DEF Gone

LEMMA NothingFollows ==
  ASSUME Gone
  PROVE  ~Steps
<1>1. /\ \A t \in Types : ~r.has[t] /\ child[t].state = "none"
      /\ r.state = "destroyed" /\ r.deferred = "cancelled" /\ tasks = << >>
      /\ client.op = "gone"
  BY DEF Gone, NewChild
<1>2. ~Calls
  BY <1>1 DEF Calls, Initialize, SetCdm, StartPlayingFrom, Flush, Destroy,
              SetPlaybackRate, ChangeTracks, MayCall
<1>3. ASSUME NEW t \in Types PROVE ~Renders(t)
  BY <1>1 DEF Renders, DecoderInitialized, Enough, EndOfStream, RendersTheEnd, Underflows,
              DecoderReset, Fails, Is
<1>4. ~FrameArrives /\ ~FailsFlushing /\ ~DeferredUnderflow /\ ~RunTask
  BY <1>1 DEF FrameArrives, FailsFlushing, DeferredUnderflow, RunTask, Is, Types
<1>. QED
  BY <1>2, <1>3, <1>4 DEF Steps

LEMMA InitFits ==
  ASSUME Init
  PROVE  Lives
<1>1. /\ \A t \in Types : r.has[t] /\ r.buffering_state[t] = "HAVE_NOTHING"
                          /\ ~r.ended[t] /\ ~r.pending_track_change[t]
      /\ r.state = "UNINITIALIZED" /\ ~r.time_ticking /\ r.deferred = "cancelled"
      /\ client.op = "created" /\ tasks = << >> /\ r \in Members
  BY DEF Init, Members, Buffering
<1>2. \A t \in Types : child[t] = NewChild
  BY DEF Init
<1>3. /\ NewChild \in Filled /\ NewChild.state = "kUninitialized"
      /\ NewChild.buffering_state = "HAVE_NOTHING" /\ ~NewChild.ended
  BY DEF NewChild, Filled, Child, Buffering
<1>4. Now \in State
  <2>1. child \in [Types -> Filled] /\ tasks \in Seq(Tasks)
    BY <1>3 DEF Init
  <2>2. client \in Client
    BY DEF Init, Client, Buffering
  <2>. QED
    BY <1>1, <2>1, <2>2 DEF Now, State
<1>5. /\ Now.r = r /\ Now.child = child /\ Now.tasks = tasks /\ Now.client = client
  BY DEF Now
<1>6. \A T : ~Has(tasks, T)
  BY <1>1, EmptyQueue
<1>7. Bounded
  <2>1. setup.calls \in Nat /\ setup.errors \in Nat
    BY DEF Init, RendererAssumption, Setup
  <2>. QED
    BY <2>1 DEF Init, Bounded
<1>. HIDE DEF Task
<1>8. \A t \in Types : Unused(Now, t) /\ At(Now, t, {"kUninitialized"})
  <2>. SUFFICES ASSUME NEW t \in Types
                PROVE  Unused(Now, t) /\ At(Now, t, {"kUninitialized"})
    OBVIOUS
  <2>1. /\ child[t].state = "kUninitialized" /\ ~child[t].ended
        /\ child[t].buffering_state = "HAVE_NOTHING"
    BY <1>2, <1>3
  <2>2. Quiet(Now, t)
    BY <1>1, <1>5, <1>6, <2>1 DEF Quiet
  <2>. QED
    BY <1>1, <1>5, <1>6, <2>1, <2>2 DEF Unused, At, Reinitializing
<1>9. Begins(Now)
  BY <1>1, <1>5, <1>8 DEF Begins
<1>10. InTurn(Now)
  <2>1. \A t \in Types : TurnOf(Now, t)
    BY <1>1, <1>5, <1>6, EmptyQueue DEF TurnOf
  <2>. QED
    BY <1>1, <1>5, <1>6, <2>1, EmptyQueue DEF InTurn
<1>. QED
  BY <1>1, <1>4, <1>5, <1>7, <1>9, <1>10 DEF Init, Lives, Fits, ClockFits

(**************************************************************************)
(*                              The theorems                                *)
(**************************************************************************)

LEMMA StepKeeps ==
  ASSUME Lives, Next
  PROVE  IInv'
<1>1. UNCHANGED setup
  BY DEF Next
<1>2. CASE Calls
  <2>1. CASE Initialize
    BY <1>1, <2>1, ActInitialize DEF IInv
  <2>2. CASE SetCdm
    BY <1>1, <2>2, ActSetCdm DEF IInv
  <2>3. CASE StartPlayingFrom
    BY <1>1, <2>3, ActStartPlayingFrom DEF IInv
  <2>4. CASE Flush
    BY <1>1, <2>4, ActFlush DEF IInv
  <2>5. CASE Destroy
    BY <1>1, <2>5, ActDestroy DEF IInv
  <2>6. ASSUME NEW rate \in {0, 1}, SetPlaybackRate(rate) PROVE IInv'
    BY <1>1, <2>6, ActSetPlaybackRate DEF IInv
  <2>7. ASSUME NEW t \in setup.changing, NEW track \in {"none", "current", "other"},
               ChangeTracks(t, track)
        PROVE  IInv'
    BY <1>1, <2>7, ActChangeTracks DEF IInv
  <2>. QED
    BY <1>2, <2>1, <2>2, <2>3, <2>4, <2>5, <2>6, <2>7 DEF Calls
<1>3. ASSUME NEW t \in Types, Renders(t) PROVE IInv'
  BY <1>1, <1>3, ActRenders DEF IInv
<1>4. CASE FrameArrives
  BY <1>1, <1>4, ActFrameArrives DEF IInv
<1>5. CASE FailsFlushing
  BY <1>1, <1>5, ActFailsFlushing DEF IInv
<1>6. CASE DeferredUnderflow
  BY <1>1, <1>6, ActDeferredUnderflow DEF IInv
<1>7. CASE RunTask
  BY <1>1, <1>7, ActRunTask DEF IInv
<1>. QED
  BY <1>2, <1>3, <1>4, <1>5, <1>6, <1>7 DEF Next, Steps

LEMMA IdleKeeps ==
  ASSUME IInv, UNCHANGED <<vars, setup>>
  PROVE  IInv'
<1>1. Now' = Now /\ UNCHANGED <<r, child, tasks, client, spent, setup>>
  BY DEF Now, vars
<1>2. CASE Gone
  BY <1>1, <1>2 DEF Gone, Bounded, IInv
<1>3. CASE Lives
  <2>1. Become(Now)
    BY <1>1, <1>3, NowIs DEF Become
  <2>2. Bounded'
    BY <1>1, <1>3, SpendBounded
  <2>. QED
    BY <1>1, <1>3, <2>1, <2>2, NowIs, Becomes DEF IInv
<1>. QED
  BY <1>2, <1>3 DEF IInv

LEMMA Invariance == Spec => []IInv
<1>1. Init => IInv
  BY InitFits DEF IInv
<1>2. IInv /\ [Next]_<<vars, setup>> => IInv'
  <2>1. ASSUME IInv, Next PROVE IInv'
    BY <2>1, StepKeeps, NothingFollows DEF IInv, Next
  <2>. QED
    BY <2>1, IdleKeeps
<1>. QED
  BY <1>1, <1>2, PTL DEF Spec

(* The members of RendererImpl, its renderers and the tasks have their types, *)
(* and no more calls and errors happen than are tried.                      *)
THEOREM TypeCorrect == Spec => []TypeOK
<1>1. IInv => TypeOK
  <2>. SUFFICES ASSUME IInv PROVE TypeOK
    OBVIOUS
  <2>1. Now \in State /\ Bounded
    BY DEF IInv, Lives, Gone
  <2>2. r \in Members /\ tasks \in Seq(Tasks) /\ client \in Client
        /\ child \in [Types -> Filled]
    BY <2>1, StateOf DEF Now
  <2>3. child \in [Types -> Child]
    BY <2>2 DEF Filled
  <2>. QED
    BY <2>1, <2>2, <2>3 DEF TypeOK, Bounded
<1>. QED
  BY <1>1, Invariance, PTL

(* The clock never runs while the audio renderer is flushed or initialized:  *)
(* FlushInternal() and the changes of tracks pause it first, and             *)
(* OnBufferingStateChange() does not start it before they are over.          *)
THEOREM ClockRunsWithAudio == Spec => []ClockNeedsAudio
<1>1. IInv => ClockNeedsAudio
  BY NowIs DEF IInv, Gone, Fits, ClockFits, PlaysOn, At, ClockNeedsAudio
<1>. QED
  BY <1>1, Invariance, PTL

(* The last report of a renderer on its way is the one believed.             *)
LEMMA BelievedLast ==
  ASSUME Now \in State, NEW t \in Types
  PROVE  /\ Has(tasks, Reports(t)) <=> Undelivered(t) # {}
         /\ \A b : LastOf(tasks, Reports(t), Report(t, b)) => Believed(t) = b
<1>1. tasks \in Seq(Tasks) /\ \A i \in DOMAIN tasks : tasks[i] \in Tasks
  BY StateOf DEF Now
<1>2. \A i \in DOMAIN tasks : i \in Undelivered(t) <=> tasks[i] \in Reports(t)
  <2>1. \A e \in Tasks : e.f = "BufferingStateChange" /\ e.type = t <=> e \in Reports(t)
    <3>1. \A e \in Tasks : e.f = "BufferingStateChange" /\ e.type = t => e \in Reports(t)
      BY TaskIs DEF Reports, Report
    <3>2. \A e \in Reports(t) : e.f = "BufferingStateChange" /\ e.type = t
      BY DEF Reports, Report, Task
    <3>. QED
      BY <3>1, <3>2
  <2>. QED
    BY <1>1, <2>1 DEF Undelivered
<1>3. Undelivered(t) \subseteq DOMAIN tasks /\ DOMAIN tasks \subseteq Int
  BY <1>1 DEF Undelivered
<1>4. Has(tasks, Reports(t)) <=> Undelivered(t) # {}
  BY <1>2, <1>3 DEF Has
<1>5. ASSUME NEW b, LastOf(tasks, Reports(t), Report(t, b)) PROVE Believed(t) = b
  <2>1. PICK i \in DOMAIN tasks :
          /\ tasks[i] = Report(t, b) /\ tasks[i] \in Reports(t)
          /\ \A j \in DOMAIN tasks : tasks[j] \in Reports(t) => j <= i
    BY <1>5 DEF LastOf
  <2>2. i \in Undelivered(t) /\ \A j \in Undelivered(t) : j <= i
    BY <1>2, <1>3, <2>1
  <2>3. Max(Undelivered(t)) = i
    BY <1>3, <2>2 DEF Max
  <2>. QED
    BY <2>1, <2>2, <2>3 DEF Believed, Report, Task
<1>. QED
  BY <1>4, <1>5

(* Once its reports are delivered, RendererImpl knows the buffering state of  *)
(* each renderer, whatever OnBufferingStateChange() has suppressed, deferred  *)
(* or cancelled, but for an underflow of the video that it is keeping back.  *)
THEOREM BufferingStatesAreKnown == Spec => []BufferingKnown
<1>1. IInv => BufferingKnown
  <2>. SUFFICES ASSUME IInv, r.state \in {"FLUSHED", "PLAYING"}, NEW t \in Types, r.has[t]
                PROVE  \/ Believed(t) = child[t].buffering_state
                       \/ /\ t = "video" /\ r.deferred = "waiting"
                          /\ Believed(t) = "HAVE_ENOUGH"
    BY DEF BufferingKnown
  <2>1. Lives
    BY DEF IInv, Gone
  <2>2. Known(Now, t)
    BY <2>1, NowIs DEF Fits, Rests, Plays, Initialized, Serves
  <2>3. CASE Has(tasks, Reports(t))
    BY <2>1, <2>2, <2>3, NowIs, BelievedLast DEF Known
  <2>4. CASE ~Has(tasks, Reports(t))
    <3>1. Believed(t) = r.buffering_state[t]
      BY <2>1, <2>4, NowIs, BelievedLast DEF Believed
    <3>2. r.buffering_state[t] \in Buffering
      BY <2>1, NowIs DEF Members
    <3>. QED
      BY <2>1, <2>2, <2>4, <3>1, <3>2, NowIs DEF Known, Buffering
  <2>. QED
    BY <2>3, <2>4
<1>. QED
  BY <1>1, Invariance, PTL

(* As long as no video track is changed, time does not go on without data    *)
(* once OnBufferingStateChange() knows of the underflow and has not deferred  *)
(* it.                                                                       *)
THEOREM TimeWaits == Spec => [](setup.changing \subseteq {"audio"} => TimeWaitsForData)
<1>1. IInv => (setup.changing \subseteq {"audio"} => TimeWaitsForData)
  BY NowIs DEF IInv, Gone, Fits, Plays, TimeFits, TimeWaitsForData, Playing
<1>. QED
  BY <1>1, Invariance, PTL

(**************************************************************************)
(*                        The end that is reported                          *)
(**************************************************************************)

(* How often the client has been told of the end.                           *)
Counts(s, n) ==
  "client" \in DOMAIN s /\ "ended" \in DOMAIN s.client /\ s.client.ended = n

(* Nothing of what is done to a renderer, and to the clock, counts, ...      *)
LEMMA RenderersCount ==
  ASSUME NEW s, NEW n, Counts(s, n), NEW t, NEW then, NEW e
  PROVE  /\ Counts(Post(s, e), n)
         /\ Counts(OnTimeProgressing(s), n) /\ Counts(OnTimeStopped(s), n)
         /\ Counts(StartChild(s, t), n) /\ Counts(InitializeChild(s, t, then), n)
         /\ Counts(DestroyChild(s, t), n)
         /\ Counts([s EXCEPT !.r.time_ticking = FALSE], n)
<1>1. Counts(Post(s, e), n)
  BY DEF Post, Counts
<1>2. Counts(OnTimeProgressing(s), n)
  BY DEF OnTimeProgressing, Counts
<1>3. Counts(OnTimeStopped(s), n)
  BY DEF OnTimeStopped, Counts
<1>4. Counts(StartChild(s, t), n)
  BY DEF StartChild, Counts
<1>5. Counts(InitializeChild(s, t, then), n)
  BY DEF InitializeChild, Counts
<1>6. Counts(DestroyChild(s, t), n)
  BY DEF DestroyChild, Counts
<1>7. Counts([s EXCEPT !.r.time_ticking = FALSE], n)
  BY DEF Counts
<1>. QED
  BY <1>1, <1>2, <1>3, <1>4, <1>5, <1>6, <1>7

(* ... nor does any handler but that of the end.                             *)
LEMMA PausesCount ==
  ASSUME NEW s, NEW n, Counts(s, n)
  PROVE  Counts(PausePlayback(s), n)
<1>. DEFINE x == [s EXCEPT !.r.time_ticking = FALSE]
<1>1. Counts(x, n)
  BY RenderersCount
<1>2. PausePlayback(s) = x \/ PausePlayback(s) = OnTimeStopped(x)
  BY DEF PausePlayback
<1>. HIDE DEF x
<1>3. Counts(OnTimeStopped(x), n)
  BY <1>1, RenderersCount
<1>. QED
  BY <1>1, <1>2, <1>3

LEMMA InitializationsCount ==
  ASSUME NEW s, NEW n, Counts(s, n)
  PROVE  /\ \A status : Counts(FinishInitialization(s, status), n)
         /\ \A t : Counts(InitializeRenderer(s, t), n)
         /\ \A status : /\ Counts(OnAudioRendererInitializeDone(s, status), n)
                        /\ Counts(OnVideoRendererInitializeDone(s, status), n)
<1>1. ASSUME NEW x, Counts(x, n), NEW status PROVE Counts(FinishInitialization(x, status), n)
  BY <1>1 DEF FinishInitialization, Counts
<1>2. ASSUME NEW t PROVE Counts(InitializeRenderer(s, t), n)
  <2>1. Counts(DestroyChild(s, t), n) /\ Counts(InitializeChild(s, t, "InitializeDone"), n)
    BY RenderersCount
  <2>2. Counts(Post(DestroyChild(s, t), Task("InitializeDone", t, "ok")), n)
    BY <2>1, RenderersCount
  <2>. QED
    BY <2>1, <2>2 DEF InitializeRenderer
<1>3. ASSUME NEW status PROVE Counts(OnAudioRendererInitializeDone(s, status), n)
  <2>1. Counts(DestroyChild(s, "audio"), n)
    BY RenderersCount
  <2>. QED
    BY <1>1, <1>2, <2>1 DEF OnAudioRendererInitializeDone
<1>4. ASSUME NEW status PROVE Counts(OnVideoRendererInitializeDone(s, status), n)
  <2>. DEFINE x == DestroyChild(s, "audio")
              y == [s EXCEPT !.r.state = "FLUSHED"]
  <2>1. Counts(x, n)
    BY RenderersCount
  <2>2. Counts(y, n)
    BY DEF Counts
  <2>. HIDE DEF x, y
  <2>3. Counts(DestroyChild(x, "video"), n) /\ Counts(FinishInitialization(y, "ok"), n)
    BY <1>1, <2>1, <2>2, RenderersCount
  <2>. QED
    BY <1>1, <2>3 DEF OnVideoRendererInitializeDone, x, y
<1>. QED
  BY <1>1, <1>2, <1>3, <1>4

LEMMA ErrorsCount ==
  ASSUME NEW s, NEW n, Counts(s, n)
  PROVE  Counts(OnError(s), n)
<1>. DEFINE x == [s EXCEPT !.r.state = "ERROR"]
            y == [x EXCEPT !.client.error = TRUE]
<1>1. Counts(x, n)
  BY DEF Counts
<1>2. OnError(s) \in {s, FinishInitialization(x, "error"), FinishFlush(y), y}
  <2>. HIDE DEF x
  <2>1. OnError(s) = IF s.r.state = "ERROR" THEN s
                     ELSE IF s.r.init_cb THEN FinishInitialization(x, "error")
                     ELSE IF s.r.flush_cb THEN FinishFlush(y)
                     ELSE y
    BY DEF OnError, x
  <2>. QED
    BY <2>1
<1>. HIDE DEF x
<1>3. Counts(y, n)
  BY <1>1 DEF Counts
<1>. HIDE DEF y
<1>4. Counts(FinishInitialization(x, "error"), n)
  BY <1>1, InitializationsCount
<1>5. Counts(FinishFlush(y), n)
  BY <1>3 DEF FinishFlush, Counts
<1>. QED
  BY <1>2, <1>3, <1>4, <1>5

LEMMA FlushesCount ==
  ASSUME NEW s, NEW n, Counts(s, n)
  PROVE  /\ Counts(FinishFlush(s), n) /\ Counts(OnVideoRendererFlushDone(s), n)
         /\ \A t, then : Counts(FlushChild(s, t, then), n)
         /\ Counts(OnAudioRendererFlushDone(s), n) /\ Counts(FlushInternal(s), n)
<1>1. ASSUME NEW x, Counts(x, n) PROVE Counts(FinishFlush(x), n)
  BY <1>1 DEF FinishFlush, Counts
<1>2. ASSUME NEW x, Counts(x, n) PROVE Counts(OnVideoRendererFlushDone(x), n)
  <2>. DEFINE y == [x EXCEPT !.r.ended["video"] = FALSE, !.r.playing["video"] = FALSE,
                             !.r.state = "FLUSHED"]
  <2>1. Counts(y, n)
    BY <1>2 DEF Counts
  <2>2. OnVideoRendererFlushDone(x) = IF x.r.state = "ERROR" THEN x ELSE FinishFlush(y)
    BY DEF OnVideoRendererFlushDone
  <2>. HIDE DEF y
  <2>. QED
    BY <1>1, <1>2, <2>1, <2>2
<1>3. ASSUME NEW x, Counts(x, n), NEW t, NEW then PROVE Counts(FlushChild(x, t, then), n)
  <2>. DEFINE y == [x EXCEPT !.child[t] = [@ EXCEPT !.state = "kFlushing", !.then = then]]
              z == [y EXCEPT !.child[t] =
                     [@ EXCEPT !.buffering_state = "HAVE_NOTHING", !.eos = FALSE,
                               !.ended = FALSE, !.sink = FALSE, !.frames = FALSE]]
  <2>1. Counts(y, n)
    BY <1>3 DEF Counts
  <2>2. FlushChild(x, t, then)
          \in {y, z, Post(z, Task("BufferingStateChange", t, "HAVE_NOTHING"))}
    BY DEF FlushChild
  <2>. HIDE DEF y
  <2>3. Counts(z, n)
    BY <2>1 DEF Counts
  <2>. HIDE DEF z
  <2>4. Counts(Post(z, Task("BufferingStateChange", t, "HAVE_NOTHING")), n)
    BY <2>3, RenderersCount
  <2>. QED
    BY <2>1, <2>2, <2>3, <2>4
<1>4. ASSUME NEW x, Counts(x, n) PROVE Counts(OnAudioRendererFlushDone(x), n)
  <2>. DEFINE y == [x EXCEPT !.r.ended["audio"] = FALSE, !.r.playing["audio"] = FALSE]
  <2>1. Counts(y, n)
    BY <1>4 DEF Counts
  <2>2. OnAudioRendererFlushDone(x) = IF x.r.state = "ERROR" THEN x ELSE FlushVideoRenderer(y)
    BY DEF OnAudioRendererFlushDone
  <2>. HIDE DEF y
  <2>3. Counts(FlushVideoRenderer(y), n)
    BY <1>2, <1>3, <2>1 DEF FlushVideoRenderer
  <2>. QED
    BY <1>4, <2>2, <2>3
<1>5. Counts(FlushInternal(s), n)
  <2>. DEFINE x == IF s.r.time_ticking THEN PausePlayback(s) ELSE s
  <2>1. Counts(x, n)
    BY PausesCount
  <2>2. FlushInternal(s) \in {FlushChild(x, "audio", "FlushDone"), OnAudioRendererFlushDone(x)}
    <3>. HIDE DEF x
    <3>1. FlushInternal(s) = IF s.r.has["audio"] /\ s.r.playing["audio"]
                             THEN FlushChild(x, "audio", "FlushDone")
                             ELSE OnAudioRendererFlushDone(x)
      BY DEF FlushInternal, x
    <3>. QED
      BY <3>1
  <2>. HIDE DEF x
  <2>. QED
    BY <1>3, <1>4, <2>1, <2>2
<1>. QED
  BY <1>1, <1>2, <1>3, <1>4, <1>5

LEMMA ChangesCount ==
  ASSUME NEW s, NEW n, Counts(s, n), NEW t
  PROVE  /\ Counts(ChangeCompleted(s), n) /\ Counts(RestartRenderer(s, t), n)
         /\ \A status : Counts(OnRendererReinitialized(s, t, status), n)
         /\ \A track : Counts(TracksChanged(s, t, track), n)
         /\ Counts(OnChildFlushed(s, t), n)
<1>1. ASSUME NEW x, Counts(x, n) PROVE Counts(ChangeCompleted(x), n)
  BY <1>1 DEF ChangeCompleted, Counts
<1>2. ASSUME NEW x, Counts(x, n) PROVE Counts(RestartRenderer(x, t), n)
  <2>. DEFINE y == [x EXCEPT !.r.playing[t] = TRUE, !.r.pending_track_change[t] = FALSE]
              z == IF x.r.state = "FLUSHED" THEN x ELSE StartChild(y, t)
  <2>1. Counts(y, n)
    BY <1>2 DEF Counts
  <2>2. RestartRenderer(x, t) = ChangeCompleted(z)
    BY DEF RestartRenderer
  <2>. HIDE DEF y
  <2>3. Counts(StartChild(y, t), n)
    BY <2>1, RenderersCount
  <2>4. Counts(z, n)
    BY <1>2, <2>3
  <2>. QED
    BY <1>1, <2>2, <2>4
<1>3. ASSUME NEW x, Counts(x, n) PROVE Counts(ReinitializeRenderer(x, t), n)
  <2>1. Counts(OnTimeStopped(x), n)
    BY <1>3, RenderersCount
  <2>. QED
    BY <1>3, <2>1, RenderersCount DEF ReinitializeRenderer
<1>4. ASSUME NEW status PROVE Counts(OnRendererReinitialized(s, t, status), n)
  <2>1. Counts(OnError(ChangeCompleted(s)), n)
    BY <1>1, ErrorsCount
  <2>. QED
    BY <1>2, <2>1 DEF OnRendererReinitialized
<1>5. ASSUME NEW track PROVE Counts(TracksChanged(s, t, track), n)
  <2>. DEFINE x == [s EXCEPT !.r.pending_track_change[t] = TRUE, !.client.op = "changing"]
              y == IF t = "audio" /\ s.r.playing[t] THEN PausePlayback(x) ELSE x
              then == IF track = "other" THEN "Reinitialize" ELSE "Restart"
  <2>1. Counts(x, n)
    BY DEF Counts
  <2>2. TracksChanged(s, t, track) = IF track = "none" /\ ~s.r.playing[t] THEN s
                                     ELSE FlushChild(y, t, then)
    BY DEF TracksChanged
  <2>. HIDE DEF x
  <2>3. Counts(y, n)
    BY <2>1, PausesCount
  <2>. HIDE DEF y, then
  <2>. QED
    BY <2>2, <2>3, FlushesCount
<1>6. Counts(OnChildFlushed(s, t), n)
  <2>. DEFINE x == CleanUpTrackChange(s, t)
  <2>1. Counts(x, n)
    BY DEF CleanUpTrackChange, Counts
  <2>2. OnChildFlushed(s, t) \in {OnAudioRendererFlushDone(s), OnVideoRendererFlushDone(s),
                                 RestartRenderer(x, t), ReinitializeRenderer(x, t)}
    BY DEF OnChildFlushed
  <2>. HIDE DEF x
  <2>. QED
    BY <1>2, <1>3, <2>1, <2>2, FlushesCount
<1>. QED
  BY <1>1, <1>2, <1>4, <1>5, <1>6

LEMMA EndedCounted ==
  ASSUME NEW s \in State, NEW t \in Types
  PROVE  \/ OnRendererEnded(s, t).client.ended = s.client.ended
         \/ /\ s.r.state = "PLAYING" /\ ~(s.r.ended["audio"] /\ PlaybackHasEnded(s))
            /\ \A u \in Types \ {t} : s.r.has[u] => s.r.ended[u]
<1>. DEFINE m == [s.r EXCEPT !.ended = [s.r.ended EXCEPT ![t] = TRUE]]
            x == [s EXCEPT !.r = m]
            y == IF t = "audio" THEN x ELSE OnTimeStopped(x)
<1>1. x \in State /\ x.r = m /\ x.client = s.client
  <2>1. m \in Members
    BY StateOf DEF Members
  <2>. HIDE DEF m
  <2>. QED
    BY <2>1 DEF State
<1>2. m.has = s.r.has /\ \A u \in Types \ {t} : m.ended[u] = s.r.ended[u]
  BY StateOf DEF Members
<1>3. x = [s EXCEPT !.r.ended[t] = TRUE]
  OBVIOUS
<1>. HIDE DEF m, x
<1>4. y.r = m /\ y.client = s.client
  BY <1>1, TimeStopped
<1>5. PlaybackHasEnded(y) => \A u \in Types \ {t} : s.r.has[u] => s.r.ended[u]
  BY <1>2, <1>4 DEF PlaybackHasEnded
<1>6. OnRendererEnded(s, t) =
        IF s.r.state # "PLAYING" \/ (s.r.ended["audio"] /\ PlaybackHasEnded(s)) THEN s
        ELSE RunEndedCallbackIfNeeded(y)
  BY <1>3 DEF OnRendererEnded
<1>. HIDE DEF y
<1>7. PlaybackHasEnded(y) \/ RunEndedCallbackIfNeeded(y) = y
  BY DEF RunEndedCallbackIfNeeded
<1>. QED
  BY <1>4, <1>5, <1>6, <1>7

(* What is reported is real.                                                *)
Real(w) == \A t \in Types : w.r.has[t] => w.child[t].ended \/ w.r.pending_track_change[t]

LEMMA EndedIsMeant ==
  ASSUME NEW w \in State, NEW s, NEW t \in Types, NEW e \in Ended(t), Took(s, w, e), Fits(w),
         OnRendererEnded(s, t).client.ended # w.client.ended
  PROVE  Real(w)
<1>1. /\ s \in State /\ s.r = w.r /\ s.client = w.client /\ Has(w.tasks, Ended(t))
  BY DEF Took, Loses
<1>2. /\ w.r.state = "PLAYING" /\ ~(w.r.ended["audio"] /\ PlaybackHasEnded(s))
      /\ \A u \in Types \ {t} : w.r.has[u] => w.r.ended[u]
  BY <1>1, EndedCounted
<1>3. Plays(w)
  BY <1>2 DEF Fits
<1>4. w.r.has[t]
  BY <1>1, <1>3 DEF Plays, Initialized, Serves
<1>5. \A u \in Types : w.r.has[u] => EndFits(w, u)
  BY <1>3 DEF Plays, Goes
<1>6. w.child[t].ended \/ w.r.pending_track_change[t]
  BY <1>1, <1>4, <1>5 DEF EndFits
<1>7. ASSUME NEW u \in Types \ {t}, w.r.has[u]
      PROVE  w.child[u].ended \/ w.r.pending_track_change[u]
  <2>1. w.r.ended[u] /\ EndFits(w, u)
    BY <1>2, <1>5, <1>7
  <2>2. PlaybackHasEnded(w) => w.r.ended["audio"]
    <3>1. t = "audio" \/ u = "audio"
      BY DEF Types
    <3>. QED
      BY <1>4, <1>7, <3>1 DEF PlaybackHasEnded
  <2>3. ~PlaybackHasEnded(w)
    BY <1>1, <1>2, <2>2 DEF PlaybackHasEnded
  <2>. QED
    BY <2>1, <2>3 DEF EndFits
<1>. QED
  BY <1>6, <1>7 DEF Real

LEMMA OutcomeCounts ==
  ASSUME NEW w \in State, Fits(w), NEW e \in Tasks, NEW s, Took(s, w, e),
         NEW v \in Outcomes(s, e)
  PROVE  v.client.ended = w.client.ended \/ Real(w)
<1>. DEFINE t == e.type
            n == w.client.ended
<1>1. t \in Types /\ e = Task(e.f, t, e.arg) /\ s \in State /\ s.client = w.client
  BY TaskIs DEF Took
<1>2. Counts(s, n)
  BY <1>1, StateOf DEF Counts, State, Client
<1>3. ASSUME Counts(v, n) PROVE v.client.ended = n
  BY <1>3 DEF Counts
<1>. HIDE DEF t, n
<1>4. CASE e.f = "InitializeDone"
  BY <1>2, <1>3, <1>4, InitializationsCount DEF Outcomes, n
<1>5. CASE e.f = "Reinitialized"
  <2>1. v = OnRendererReinitialized(s, t, e.arg)
    BY <1>5 DEF Outcomes, t
  <2>. QED
    BY <1>2, <1>3, <2>1, ChangesCount DEF n
<1>6. CASE e.f = "BufferingStateChange"
  <2>1. v = OnBufferingStateChange(s, t, e.arg) /\ e.arg \in Buffering
    BY <1>6, TaskIs DEF Outcomes, t
  <2>2. Steady(v, s)
    BY <1>1, <2>1, BufferingDoes
  <2>. QED
    BY <1>1, <2>2 DEF Steady
<1>7. CASE e.f = "Ended"
  <2>1. v = OnRendererEnded(s, t) /\ e \in Ended(t)
    BY <1>1, <1>7, TaskIs DEF Outcomes, Ended, t
  <2>. QED
    BY <1>1, <2>1, EndedIsMeant
<1>8. CASE e.f = "Flushed"
  <2>1. v = OnChildFlushed(s, t)
    BY <1>8 DEF Outcomes, t
  <2>. QED
    BY <1>2, <1>3, <2>1, ChangesCount DEF n
<1>9. CASE e.f \in {"HaveNothing", "Error", "ClientFlushed", "Cancelled"}
  <2>1. Counts(OnError(s), n) /\ Counts(FinishFlush(s), n)
    BY <1>2, ErrorsCount, FlushesCount
  <2>2. \A u \in TransitionToHaveNothing(s) : Counts(u, n)
    <3>. DEFINE x == [s EXCEPT !.child["video"].buffering_state = "HAVE_NOTHING"]
                y == Post(x, Task("BufferingStateChange", "video", "HAVE_NOTHING"))
    <3>1. Counts(x, n)
      BY <1>2 DEF Counts
    <3>. HIDE DEF x
    <3>2. Counts(y, n)
      BY <3>1, RenderersCount
    <3>3. \A u \in TransitionToHaveNothing(s) : u = s \/ u = y
      BY DEF TransitionToHaveNothing, x
    <3>. HIDE DEF y
    <3>. QED
      BY <1>2, <3>2, <3>3
  <2>3. \/ v \in TransitionToHaveNothing(s)
        \/ v \in {OnError(s), FinishFlush(s), s}
    BY <1>9 DEF Outcomes
  <2>. QED
    BY <1>2, <1>3, <2>1, <2>2, <2>3 DEF n
<1>. QED
  BY <1>4, <1>5, <1>6, <1>7, <1>8, <1>9, TaskIs

LEMMA CallsCount ==
  ASSUME Lives, Calls
  PROVE  client'.ended = client.ended \/ client'.ended = 0
<1>. DEFINE n == client.ended
<1>1. Counts(Now, n) /\ client \in Client
  BY NowIs, StateOf DEF Counts, Now, Client
<1>2. ASSUME NEW v, Become(v), Counts(v, n) PROVE client'.ended = n
  BY <1>2 DEF Become, Counts
<1>. HIDE DEF n
<1>3. CASE Initialize
  <2>. DEFINE s == [Now EXCEPT !.r.init_cb = TRUE, !.client.op = "initializing"]
              x == [s EXCEPT !.r.state = "INIT_PENDING_CDM"]
              y == [s EXCEPT !.r.state = "INITIALIZING"]
  <2>1. Counts(s, n)
    BY <1>1 DEF Counts
  <2>2. Become(x) \/ Become(InitializeRenderer(y, "audio"))
    BY <1>3 DEF Initialize, Begin
  <2>. HIDE DEF s
  <2>3. Counts(x, n) /\ Counts(y, n)
    BY <2>1 DEF Counts
  <2>. HIDE DEF x, y
  <2>4. Counts(InitializeRenderer(y, "audio"), n)
    BY <2>3, InitializationsCount
  <2>. QED
    BY <1>2, <2>2, <2>3, <2>4 DEF n
<1>4. CASE SetCdm
  <2>. DEFINE s == [Now EXCEPT !.r.cdm_context = TRUE]
              y == [s EXCEPT !.r.state = "INITIALIZING"]
  <2>1. Counts(s, n)
    BY <1>1 DEF Counts
  <2>2. Become(s) \/ Become(InitializeRenderer(y, "audio"))
    BY <1>4 DEF SetCdm, Begin
  <2>. HIDE DEF s
  <2>3. Counts(y, n)
    BY <2>1 DEF Counts
  <2>. HIDE DEF y
  <2>4. Counts(InitializeRenderer(y, "audio"), n)
    BY <2>3, InitializationsCount
  <2>. QED
    BY <1>2, <2>1, <2>2, <2>4 DEF n
<1>5. CASE StartPlayingFrom
  <2>. DEFINE b == [client EXCEPT !.op = "started"]
              c == [b EXCEPT !.ended = 0]
  <2>1. client' = c
    BY <1>5, NowIs DEF StartPlayingFrom, Become, Now
  <2>2. b \in Client
    BY <1>1 DEF Client
  <2>. HIDE DEF b
  <2>3. c.ended = 0
    BY <2>2 DEF Client
  <2>. QED
    BY <2>1, <2>3
<1>6. CASE Flush
  <2>. DEFINE s == [Now EXCEPT !.client.op = "flushing"]
              y == [s EXCEPT !.r.flush_cb = TRUE]
              x == [s EXCEPT !.r.flush_cb = TRUE, !.r.state = "FLUSHING"]
              e == Task("ClientFlushed", "video", "none")
  <2>1. Counts(s, n)
    BY <1>1 DEF Counts
  <2>2. Become(s) \/ Become(Post(y, e)) \/ Become(FlushInternal(x))
    BY <1>6 DEF Flush
  <2>. HIDE DEF s, e
  <2>3. Counts(y, n) /\ Counts(x, n)
    BY <2>1 DEF Counts
  <2>. HIDE DEF x, y
  <2>4. Counts(Post(y, e), n) /\ Counts(FlushInternal(x), n)
    BY <2>3, RenderersCount, FlushesCount
  <2>. QED
    BY <1>2, <2>1, <2>2, <2>4 DEF n
<1>7. CASE Destroy
  BY <1>1, <1>7 DEF Destroy, Client
<1>8. ASSUME NEW rate \in {0, 1}, SetPlaybackRate(rate) PROVE client'.ended = client.ended
  <2>. DEFINE s == [Now EXCEPT !.r.playback_rate = rate]
  <2>1. Counts(s, n)
    BY <1>1 DEF Counts
  <2>2. Become(s) \/ Become(OnTimeProgressing(s)) \/ Become(OnTimeStopped(s))
    BY <1>8 DEF SetPlaybackRate
  <2>. HIDE DEF s
  <2>. QED
    BY <1>2, <2>1, <2>2, RenderersCount DEF n
<1>9. ASSUME NEW t \in setup.changing, NEW track \in {"none", "current", "other"},
             ChangeTracks(t, track)
      PROVE  client'.ended = client.ended
  BY <1>1, <1>2, <1>9, ChangesCount DEF ChangeTracks, n
<1>. QED
  BY <1>3, <1>4, <1>5, <1>6, <1>7, <1>8, <1>9 DEF Calls

LEMMA RendersCount ==
  ASSUME Lives, NEW t \in Types, Renders(t)
  PROVE  client'.ended = client.ended
<1>. DEFINE n == client.ended
<1>1. Counts(Now, n) /\ client \in Client
  BY NowIs, StateOf DEF Counts, Now, Client
<1>2. ASSUME NEW v, Become(v), Counts(v, n) PROVE client'.ended = n
  BY <1>2 DEF Become, Counts
<1>. HIDE DEF n
<1>3. ASSUME NEW status \in {"ok", "error"}, DecoderInitialized(t, status)
      PROVE  client'.ended = n
  <2>. DEFINE s == [Now EXCEPT !.child[t].state =
                      IF status = "ok" THEN "kFlushed" ELSE "kUninitialized"]
              f == IF child[t].then = "InitializeDone" THEN "InitializeDone" ELSE "Reinitialized"
              e == Task(f, t, status)
  <2>1. Become(Post(s, e))
    BY <1>3 DEF DecoderInitialized
  <2>2. Counts(s, n)
    BY <1>1 DEF Counts
  <2>. HIDE DEF s, e
  <2>. QED
    BY <1>2, <2>1, <2>2, RenderersCount
<1>4. ASSUME NEW eos \in BOOLEAN, Enough(t, eos) PROVE client'.ended = n
  <2>. DEFINE over   == t = "video" /\ eos /\ ~child[t].frames
              s == [Now EXCEPT !.child[t] =
                      [@ EXCEPT !.buffering_state = "HAVE_ENOUGH", !.eos = eos,
                                !.ended = over,
                                !.frames = t = "video" /\ (child[t].frames \/ ~eos)]]
              x == IF over THEN Post(s, Task("Ended", t, "none")) ELSE s
  <2>1. Become(Post(x, Task("BufferingStateChange", t, "HAVE_ENOUGH")))
    BY <1>4 DEF Enough
  <2>2. Counts(s, n)
    BY <1>1 DEF Counts
  <2>. HIDE DEF s, Task
  <2>3. Counts(x, n)
    BY <2>2, RenderersCount
  <2>. HIDE DEF x
  <2>. QED
    BY <1>2, <2>1, <2>3, RenderersCount
<1>5. ASSUME EndOfStream(t) PROVE client'.ended = n
  <2>. DEFINE s == [Now EXCEPT !.child[t].eos = TRUE]
  <2>1. Become(s)
    BY <1>5 DEF EndOfStream
  <2>2. Counts(s, n)
    BY <1>1 DEF Counts
  <2>. QED
    BY <1>2, <2>1, <2>2
<1>6. ASSUME RendersTheEnd(t) PROVE client'.ended = n
  <2>. DEFINE s == [Now EXCEPT !.child[t].ended = TRUE]
  <2>1. Become(Post(s, Task("Ended", t, "none")))
    BY <1>6 DEF RendersTheEnd
  <2>2. Counts(s, n)
    BY <1>1 DEF Counts
  <2>. HIDE DEF s, Task
  <2>. QED
    BY <1>2, <2>1, <2>2, RenderersCount
<1>7. ASSUME Underflows(t) PROVE client'.ended = n
  <2>. DEFINE s == [Now EXCEPT !.child[t].buffering_state = "HAVE_NOTHING"]
  <2>1. \/ Become(Post(s, Task("BufferingStateChange", t, "HAVE_NOTHING")))
        \/ Become(Post(Now, Task("HaveNothing", t, "none")))
    BY <1>7 DEF Underflows
  <2>2. Counts(s, n)
    BY <1>1 DEF Counts
  <2>. HIDE DEF s, Task
  <2>. QED
    BY <1>1, <1>2, <2>1, <2>2, RenderersCount
<1>8. ASSUME DecoderReset(t) PROVE client'.ended = n
  <2>. DEFINE s == [Now EXCEPT !.child[t] =
                     [@ EXCEPT !.state = "kFlushed", !.eos = FALSE, !.ended = FALSE,
                               !.buffering_state = "HAVE_NOTHING"]]
              e == Task("BufferingStateChange", t, "HAVE_NOTHING")
              x == IF child[t].buffering_state = "HAVE_NOTHING" THEN s ELSE Post(s, e)
  <2>1. Become(Post(x, Task("Flushed", t, "none")))
    BY <1>8 DEF DecoderReset
  <2>2. Counts(s, n)
    BY <1>1 DEF Counts
  <2>. HIDE DEF s, Task
  <2>3. Counts(x, n)
    BY <2>2, RenderersCount
  <2>. HIDE DEF x
  <2>. QED
    BY <1>2, <2>1, <2>3, RenderersCount
<1>9. ASSUME Fails(t) PROVE client'.ended = n
  <2>1. Become(Post(Now, Task("Error", t, "none"))) \/ Become(OnError(Now))
    BY <1>9 DEF Fails
  <2>. HIDE DEF Task
  <2>. QED
    BY <1>1, <1>2, <2>1, RenderersCount, ErrorsCount
<1>. QED
  BY <1>3, <1>4, <1>5, <1>6, <1>7, <1>8, <1>9 DEF Renders, n

LEMMA StepCounts ==
  ASSUME Lives, Next
  PROVE  client'.ended = client.ended \/ client'.ended = 0 \/ Real(Now)
<1>. DEFINE n == client.ended
<1>1. Counts(Now, n) /\ client \in Client
  BY NowIs, StateOf DEF Counts, Now, Client
<1>2. ASSUME NEW v, Become(v), Counts(v, n) PROVE client'.ended = n
  BY <1>2 DEF Become, Counts
<1>. HIDE DEF n
<1>3. CASE Calls
  BY <1>3, CallsCount
<1>4. ASSUME NEW t \in Types, Renders(t) PROVE client'.ended = client.ended
  BY <1>4, RendersCount
<1>5. CASE FrameArrives
  <2>. DEFINE s == [Now EXCEPT !.child["video"].frames = TRUE]
  <2>1. Become(s)
    BY <1>5 DEF FrameArrives
  <2>2. Counts(s, n)
    BY <1>1 DEF Counts
  <2>. HIDE DEF s
  <2>. QED
    BY <1>2, <2>1, <2>2 DEF n
<1>6. CASE FailsFlushing
  <2>. DEFINE s == [Now EXCEPT !.child["audio"].state = "kFlushed"]
              x == OnError(s)
  <2>1. Become(OnAudioFlushedLocked(x))
    BY <1>6 DEF FailsFlushing
  <2>2. Counts(s, n)
    BY <1>1 DEF Counts
  <2>. HIDE DEF s
  <2>3. Counts(x, n)
    BY <2>2, ErrorsCount
  <2>. HIDE DEF x
  <2>4. Counts(OnChildFlushed(x, "audio"), n)
    BY <2>3, ChangesCount
  <2>5. Counts(OnAudioFlushedLocked(x), n)
    BY <2>4 DEF OnAudioFlushedLocked, Counts
  <2>. QED
    BY <1>2, <2>1, <2>5 DEF n
<1>7. CASE DeferredUnderflow
  <2>. DEFINE m == [r EXCEPT !.deferred = "run"]
              s == [Now EXCEPT !.r = m]
              v == OnBufferingStateChange(s, "video", "HAVE_NOTHING")
  <2>1. Become(v)
    BY <1>7, NowIs DEF DeferredUnderflow, Now
  <2>2. m \in Members
    BY NowIs DEF Members
  <2>. HIDE DEF m
  <2>3. s \in State /\ s.client = client
    BY <2>2, NowIs DEF State
  <2>. HIDE DEF s
  <2>4. Steady(v, s)
    BY <2>3, BufferingDoes DEF Types, Buffering
  <2>. QED
    BY <2>1, <2>3, <2>4 DEF Steady, Become
<1>8. CASE RunTask
  <2>. DEFINE s == [Now EXCEPT !.tasks = Tail(tasks)]
  <2>1. tasks # << >>
    BY <1>8 DEF RunTask
  <2>2. PICK v \in Outcomes(s, Head(tasks)) : Become(v)
    BY <1>8 DEF RunTask
  <2>3. Took(s, Now, Head(tasks)) /\ Head(tasks) \in Tasks
    BY <2>1, TaskTaken
  <2>. HIDE DEF s
  <2>4. v.client.ended = Now.client.ended \/ Real(Now)
    BY <2>2, <2>3, NowIs, OutcomeCounts
  <2>. QED
    BY <2>2, <2>4, NowIs DEF Become
<1>. QED
  BY <1>3, <1>4, <1>5, <1>6, <1>7, <1>8 DEF Next, Steps

(* OnRendererEnded() tells the client of the end only when every renderer has *)
(* rendered the end of its stream, or is being given another track: no end   *)
(* of before a flush or a change counts for what is played after.            *)
THEOREM TheEndIsReal == Spec => EndedIsReal
<1>. DEFINE Meant == client'.ended # client.ended /\ client'.ended > 0 =>
                       \A t \in Types : r.has[t] => child[t].ended \/ r.pending_track_change[t]
<1>1. IInv /\ [Next]_<<vars, setup>> => [Meant]_vars
  <2>. SUFFICES ASSUME IInv, Next PROVE Meant
    BY DEF vars
  <2>1. Lives
    BY NothingFollows DEF IInv, Next
  <2>2. Real(Now) => \A t \in Types : r.has[t] => child[t].ended \/ r.pending_track_change[t]
    BY <2>1, NowIs DEF Real
  <2>3. ~(0 > 0)
    OBVIOUS
  <2>. QED
    BY <2>1, <2>2, <2>3, StepCounts
<1>2. EndedIsReal <=> [][Meant]_vars
  BY DEF EndedIsReal
<1>. HIDE DEF Meant
<1>. QED
  BY <1>1, <1>2, Invariance, PTL DEF Spec

(**************************************************************************)
(*                   The video moves with the time                          *)
(**************************************************************************)

(* Of a state only what decides whether the video moves has its type here.   *)
Nothing == Report("video", "HAVE_NOTHING")
Video(s) == s.child["video"]
Drawn(c) == /\ {"state", "buffering_state", "ended", "sink", "frames"} \subseteq DOMAIN c
            /\ c.frames \in BOOLEAN /\ c.sink \in BOOLEAN /\ c.ended \in BOOLEAN
            /\ c.buffering_state \in Buffering
Shaped(s) ==
  /\ {"r", "child", "tasks", "client"} \subseteq DOMAIN s
  /\ {"state", "has", "buffering_state", "pending_track_change", "ended", "playing",
      "time_ticking", "playback_rate"} \subseteq DOMAIN s.r
  /\ DOMAIN s.child = Types
  /\ s.r.has \in [Types -> BOOLEAN] /\ s.r.buffering_state \in [Types -> Buffering]
  /\ s.r.pending_track_change \in [Types -> BOOLEAN]
  /\ DOMAIN s.r.ended = Types
  /\ Drawn(Video(s)) /\ s.tasks \in Seq(Tasks)

(* A video renderer with enough has frames, unless it is over; and it has     *)
(* nothing from the flush of a track change to the restart.                 *)
Framed(s) == Video(s).buffering_state = "HAVE_ENOUGH" => Video(s).frames \/ Video(s).ended
Emptied(s) ==
  s.r.state = "PLAYING" /\ s.r.pending_track_change["video"]
    => Video(s).buffering_state = "HAVE_NOTHING" /\ Video(s).state # "kPlaying"

(* With time going on and no audio, its sink plays what it has: or RendererImpl *)
(* believes, or is yet to hear, that it has nothing, and starts it then.    *)
Timed(s) == /\ s.r.state = "PLAYING" /\ ~s.r.has["audio"]
            /\ s.r.time_ticking /\ s.r.playback_rate > 0
Sinks(s) ==
  Timed(s) /\ Video(s).buffering_state = "HAVE_ENOUGH"
    => \/ Video(s).sink \/ Video(s).ended
       \/ s.r.buffering_state["video"] = "HAVE_NOTHING" \/ Has(s.tasks, {Nothing})

Fills(s) == Shaped(s) /\ Framed(s) /\ Emptied(s)
VideoMoves(s) == Fills(s) /\ Sinks(s)

(* There is something to play, and no change of audio without audio.        *)
HasOne(s) ==
  s.r.state = "PLAYING" => /\ s.r.has["audio"] \/ s.r.has["video"]
                           /\ s.r.pending_track_change["audio"] => s.r.has["audio"]

(* What is done to the clock and to the renderers keeps this, ...           *)
LEMMA PostMoves ==
  ASSUME NEW s, NEW e \in Tasks, Shaped(s)
  PROVE  LET v == Post(s, e)
         IN  /\ Shaped(v) /\ v.r = s.r /\ v.child = s.child
             /\ Fills(s) => Fills(v)
             /\ VideoMoves(s) => VideoMoves(v)
<1>. DEFINE v == Post(s, e)
<1>1. /\ v.r = s.r /\ v.child = s.child /\ v.tasks = Append(s.tasks, e)
      /\ "r" \in DOMAIN v /\ "child" \in DOMAIN v /\ "tasks" \in DOMAIN v /\ "client" \in DOMAIN v
  BY DEF Post, Shaped
<1>2. s.tasks \in Seq(Tasks) /\ v.tasks \in Seq(Tasks)
  BY <1>1 DEF Shaped
<1>3. Has(s.tasks, {Nothing}) => Has(v.tasks, {Nothing})
  BY <1>1, <1>2, AppendAdds, AddTask
<1>. HIDE DEF v
<1>4. Shaped(v)
  BY <1>1, <1>2 DEF Shaped, Video
<1>. QED
  BY <1>1, <1>3, <1>4 DEF VideoMoves, Fills, Framed, Emptied, Sinks, Timed, Video, v

LEMMA TimeMoves ==
  ASSUME NEW s, Shaped(s)
  PROVE  LET v == OnTimeProgressing(s)
         IN  /\ Shaped(v) /\ v.r = s.r /\ v.tasks = s.tasks
             /\ Fills(s) => VideoMoves(v)
<1>. DEFINE v == OnTimeProgressing(s)
            c == [s.child["video"] EXCEPT !.progressing = TRUE,
                    !.sink = @ \/ (~s.child["video"].ended /\ s.child["video"].frames)]
<1>1. v = [s EXCEPT !.child = [s.child EXCEPT !["video"] = c]]
  BY DEF OnTimeProgressing, Shaped, Types
<1>2. /\ Drawn(c) /\ c.state = Video(s).state /\ c.buffering_state = Video(s).buffering_state
      /\ c.ended = Video(s).ended /\ c.frames = Video(s).frames
      /\ c.frames => c.sink \/ c.ended
  BY DEF Shaped, Drawn, Video
<1>. HIDE DEF c
<1>3. v.r = s.r /\ v.tasks = s.tasks /\ Shaped(v) /\ Video(v) = c
  BY <1>1, <1>2 DEF Shaped, Video, Types
<1>. HIDE DEF v
<1>4. Fills(s) => VideoMoves(v)
  BY <1>2, <1>3 DEF VideoMoves, Fills, Framed, Emptied, Sinks
<1>. QED
  BY <1>3, <1>4 DEF v

LEMMA StopMoves ==
  ASSUME NEW s, Shaped(s)
  PROVE  LET v == OnTimeStopped(s)
         IN  /\ Shaped(v) /\ v.r = s.r /\ v.tasks = s.tasks
             /\ Video(v).buffering_state = Video(s).buffering_state
             /\ Fills(s) => Fills(v)
<1>. DEFINE v == OnTimeStopped(s)
            f == /\ s.child["video"].frames
                 /\ ~(/\ s.child["video"].sink
                      /\ s.child["video"].buffering_state = "HAVE_NOTHING")
            c == [s.child["video"] EXCEPT !.progressing = FALSE, !.sink = FALSE,
                                          !.frames = f]
<1>1. v = [s EXCEPT !.child = [s.child EXCEPT !["video"] = c]]
  BY DEF OnTimeStopped, Shaped, Types
<1>2. /\ Drawn(c) /\ c.state = Video(s).state /\ c.buffering_state = Video(s).buffering_state
      /\ c.ended = Video(s).ended
      /\ c.buffering_state = "HAVE_ENOUGH" /\ Video(s).frames => c.frames
  BY DEF Shaped, Drawn, Video
<1>. HIDE DEF c
<1>3. v.r = s.r /\ v.tasks = s.tasks /\ Shaped(v) /\ Video(v) = c
  BY <1>1, <1>2 DEF Shaped, Video, Types
<1>. HIDE DEF v
<1>4. Fills(s) => Fills(v)
  BY <1>2, <1>3 DEF Fills, Framed, Emptied
<1>. QED
  BY <1>2, <1>3, <1>4 DEF v

(* ... for the clock stands still, ...                                      *)
LEMMA PauseMoves ==
  ASSUME NEW s, Shaped(s)
  PROVE  LET v == PausePlayback(s)
         IN  /\ Shaped(v) /\ v.r = [s.r EXCEPT !.time_ticking = FALSE] /\ v.tasks = s.tasks
             /\ Video(v).buffering_state = Video(s).buffering_state
             /\ Fills(s) => VideoMoves(v)
<1>. DEFINE m == [s.r EXCEPT !.time_ticking = FALSE]
            x == [s EXCEPT !.r = m]
            v == PausePlayback(s)
<1>1. v = x \/ v = OnTimeStopped(x)
  BY DEF PausePlayback
<1>2. /\ ~m.time_ticking /\ m.state = s.r.state
      /\ m.pending_track_change = s.r.pending_track_change
      /\ x.r = m /\ x.child = s.child /\ x.tasks = s.tasks
  BY DEF Shaped
<1>3. Shaped(x) /\ (Fills(s) => Fills(x))
  <2>1. Shaped(x)
    BY <1>2 DEF Shaped, Video
  <2>. HIDE DEF x, m
  <2>. QED
    BY <1>2, <2>1 DEF Fills, Framed, Emptied, Video
<1>. HIDE DEF x, m
<1>4. /\ Shaped(v) /\ v.r = m /\ v.tasks = s.tasks /\ (Fills(s) => Fills(v))
      /\ Video(v).buffering_state = Video(s).buffering_state
  BY <1>1, <1>2, <1>3, StopMoves DEF Video
<1>. HIDE DEF v
<1>5. Fills(v) => VideoMoves(v)
  BY <1>2, <1>4 DEF VideoMoves, Sinks, Timed
<1>. QED
  BY <1>4, <1>5 DEF v, m

(* ... or starts the video too.                                             *)
LEMMA StartMoves ==
  ASSUME NEW s, Fills(s), HasOne(s)
  PROVE  VideoMoves(StartPlayback(s))
<1>. DEFINE p == [s.r.playing EXCEPT !["audio"] = TRUE]
            n == [s.r EXCEPT !.time_ticking = TRUE, !.playing = p]
            w == IF s.r.time_ticking THEN s ELSE [s EXCEPT !.r = n]
            m == [w.r EXCEPT !.playing = [w.r.playing EXCEPT !["video"] = TRUE]]
            x == [w EXCEPT !.r = m]
            v == StartPlayback(s)
            Same(y) == /\ Fills(y) /\ y.r.state = s.r.state /\ y.r.has = s.r.has
                       /\ y.r.playback_rate = s.r.playback_rate
<1>1. v = IF s.r.playback_rate > 0 /\ s.r.has["video"] THEN OnTimeProgressing(x) ELSE w
  BY DEF StartPlayback, Fills, Shaped
<1>2. Same(w)
  <2>1. CASE ~s.r.time_ticking
    <3>1. /\ n.state = s.r.state /\ n.has = s.r.has /\ n.playback_rate = s.r.playback_rate
          /\ n.pending_track_change = s.r.pending_track_change
          /\ w.r = n /\ w.child = s.child /\ w.tasks = s.tasks
      BY <2>1 DEF Fills, Shaped
    <3>2. Shaped(w)
      BY <2>1, <3>1 DEF Fills, Shaped, Video
    <3>. HIDE DEF w, n
    <3>. QED
      BY <3>1, <3>2 DEF Fills, Framed, Emptied, Video
  <2>. QED
    BY <2>1
<1>. HIDE DEF w
<1>3. Same(x)
  <2>1. /\ m.state = w.r.state /\ m.has = w.r.has /\ m.playback_rate = w.r.playback_rate
        /\ m.pending_track_change = w.r.pending_track_change
        /\ x.r = m /\ x.child = w.child /\ x.tasks = w.tasks
    BY <1>2 DEF Fills, Shaped
  <2>2. Shaped(x)
    BY <1>2, <2>1 DEF Fills, Shaped, Video
  <2>. HIDE DEF x, m
  <2>. QED
    BY <1>2, <2>1, <2>2 DEF Fills, Framed, Emptied, Video
<1>. HIDE DEF x
<1>4. VideoMoves(OnTimeProgressing(x))
  BY <1>3, TimeMoves DEF Fills
<1>5. CASE ~(s.r.playback_rate > 0 /\ s.r.has["video"])
  BY <1>1, <1>2, <1>5 DEF VideoMoves, Sinks, Timed, HasOne
<1>. QED
  BY <1>1, <1>4, <1>5

(* Nor does it matter while nothing plays, or what the client is told.       *)
LEMMA HaltedMoves ==
  ASSUME NEW s, Shaped(s), Framed(s), s.r.state # "PLAYING"
  PROVE  VideoMoves(s)
  BY DEF VideoMoves, Fills, Emptied, Sinks, Timed

LEMMA EmptyMoves ==
  ASSUME NEW s, Fills(s), Video(s).buffering_state = "HAVE_NOTHING"
  PROVE  VideoMoves(s)
  BY DEF VideoMoves, Sinks

LEMMA SameMoves ==
  ASSUME NEW s, Shaped(s), NEW v, {"r", "child", "tasks", "client"} \subseteq DOMAIN v,
         v.r = s.r, v.child = s.child, v.tasks = s.tasks
  PROVE  /\ Shaped(v) /\ Video(v) = Video(s)
         /\ Fills(s) => Fills(v)
         /\ VideoMoves(s) => VideoMoves(v)
<1>1. Shaped(v)
  BY DEF Shaped, Video
<1>. QED
  BY <1>1 DEF VideoMoves, Fills, Framed, Emptied, Sinks, Timed, Video

(* A member that does not matter, ...                                       *)
LEMMA MemberMoves ==
  ASSUME NEW s, Shaped(s), NEW v, NEW m, v = [s EXCEPT !.r = m],
         {"state", "has", "buffering_state", "pending_track_change", "ended", "playing",
          "time_ticking", "playback_rate"} \subseteq DOMAIN m,
         m.has = s.r.has, m.buffering_state = s.r.buffering_state,
         m.pending_track_change \in [Types -> BOOLEAN], DOMAIN m.ended = Types,
         m.time_ticking = s.r.time_ticking, m.playback_rate = s.r.playback_rate
  PROVE  /\ Shaped(v) /\ v.r = m /\ v.child = s.child /\ v.tasks = s.tasks
         /\ VideoMoves(s) /\ m.state = s.r.state
            /\ (m.pending_track_change["video"] => s.r.pending_track_change["video"])
              => VideoMoves(v)
         /\ Framed(s) /\ m.state # "PLAYING" => VideoMoves(v)
<1>1. v.r = m /\ v.child = s.child /\ v.tasks = s.tasks
      /\ {"r", "child", "tasks", "client"} \subseteq DOMAIN v
  BY DEF Shaped
<1>2. Shaped(v)
  BY <1>1 DEF Shaped, Video
<1>. QED
  BY <1>1, <1>2, HaltedMoves DEF VideoMoves, Fills, Framed, Emptied, Sinks, Timed, Video

(* ... and where a renderer is.                                             *)
LEMMA ChildStateMoves ==
  ASSUME NEW s, Shaped(s), NEW t \in Types, NEW c, NEW v,
         v = [s EXCEPT !.child = [s.child EXCEPT ![t] = c]],
         t = "video" => /\ Drawn(c) /\ c.buffering_state = Video(s).buffering_state
                        /\ c.ended = Video(s).ended /\ c.sink = Video(s).sink
                        /\ c.frames = Video(s).frames
  PROVE  /\ Shaped(v) /\ v.r = s.r /\ v.tasks = s.tasks
         /\ Video(v).buffering_state = Video(s).buffering_state
         /\ Framed(s) => Framed(v)
         /\ VideoMoves(s) /\ (t = "video" /\ c.state = "kPlaying" /\ s.r.state = "PLAYING"
                                => ~s.r.pending_track_change["video"])
              => VideoMoves(v)
<1>1. /\ v.r = s.r /\ v.tasks = s.tasks /\ {"r", "child", "tasks", "client"} \subseteq DOMAIN v
      /\ DOMAIN v.child = Types
      /\ Video(v) = IF t = "video" THEN c ELSE Video(s)
  BY DEF Shaped, Video, Types
<1>2. Shaped(v)
  BY <1>1 DEF Shaped
<1>3. /\ Video(v).buffering_state = Video(s).buffering_state
      /\ Video(v).ended = Video(s).ended /\ Video(v).sink = Video(s).sink
      /\ Video(v).frames = Video(s).frames
      /\ Video(v) = Video(s) \/ (t = "video" /\ Video(v).state = c.state)
  BY <1>1
<1>. QED
  BY <1>1, <1>2, <1>3 DEF VideoMoves, Fills, Framed, Emptied, Sinks, Timed

LEMMA StartChildMoves ==
  ASSUME NEW s, Shaped(s), NEW t \in Types
  PROVE  /\ Shaped(StartChild(s, t)) /\ StartChild(s, t).r = s.r
         /\ VideoMoves(s) /\ (t = "video" /\ s.r.state = "PLAYING"
                                => ~s.r.pending_track_change["video"])
              => VideoMoves(StartChild(s, t))
<1>. DEFINE c == [s.child[t] EXCEPT !.state = "kPlaying"]
<1>1. StartChild(s, t) = [s EXCEPT !.child = [s.child EXCEPT ![t] = c]]
  BY DEF StartChild, Shaped
<1>2. t = "video" => /\ Drawn(c) /\ c.buffering_state = Video(s).buffering_state
                     /\ c.ended = Video(s).ended /\ c.sink = Video(s).sink
                     /\ c.frames = Video(s).frames
  BY DEF Shaped, Drawn, Video
<1>. HIDE DEF c
<1>. QED
  BY <1>1, <1>2, ChildStateMoves

LEMMA InitializeChildMoves ==
  ASSUME NEW s, Shaped(s), NEW t \in Types, NEW then
  PROVE  LET v == InitializeChild(s, t, then)
         IN  /\ Shaped(v) /\ v.r = s.r
             /\ Framed(s) => Framed(v)
             /\ VideoMoves(s) => VideoMoves(v)
<1>. DEFINE c == [s.child[t] EXCEPT !.state = "kInitializing", !.then = then]
<1>1. InitializeChild(s, t, then) = [s EXCEPT !.child = [s.child EXCEPT ![t] = c]]
  BY DEF InitializeChild, Shaped
<1>2. t = "video" => /\ Drawn(c) /\ c.buffering_state = Video(s).buffering_state
                     /\ c.ended = Video(s).ended /\ c.sink = Video(s).sink
                     /\ c.frames = Video(s).frames /\ c.state # "kPlaying"
  BY DEF Shaped, Drawn, Video
<1>. HIDE DEF c
<1>. QED
  BY <1>1, <1>2, ChildStateMoves

LEMMA FlushChildMoves ==
  ASSUME NEW s, Shaped(s), NEW t \in Types, NEW then
  PROVE  LET v == FlushChild(s, t, then)
         IN  /\ Shaped(v) /\ v.r = s.r
             /\ t = "video" \/ VideoMoves(s) => VideoMoves(v)
<1>. DEFINE c == [s.child[t] EXCEPT !.state = "kFlushing", !.then = then]
            x == [s EXCEPT !.child = [s.child EXCEPT ![t] = c]]
            d == [c EXCEPT !.buffering_state = "HAVE_NOTHING", !.eos = FALSE,
                           !.ended = FALSE, !.sink = FALSE, !.frames = FALSE]
            y == [x EXCEPT !.child = [x.child EXCEPT ![t] = d]]
            e == Task("BufferingStateChange", t, "HAVE_NOTHING")
<1>1. FlushChild(s, t, then) = IF t = "audio" THEN x
                               ELSE IF s.child[t].buffering_state = "HAVE_NOTHING" THEN y
                               ELSE Post(y, e)
  BY DEF FlushChild, Shaped
<1>2. CASE t = "audio"
  BY <1>1, <1>2, ChildStateMoves
<1>3. CASE t = "video"
  <2>1. /\ Drawn(c) /\ c.state # "kPlaying" /\ c.buffering_state = Video(s).buffering_state
        /\ c.ended = Video(s).ended /\ c.sink = Video(s).sink /\ c.frames = Video(s).frames
    BY <1>3 DEF Shaped, Drawn, Video
  <2>. HIDE DEF c
  <2>2. /\ Drawn(d) /\ d.state # "kPlaying" /\ d.buffering_state = "HAVE_NOTHING"
    BY <1>3, <2>1 DEF Drawn, Buffering
  <2>3. Shaped(x) /\ x.r = s.r /\ x.tasks = s.tasks
    BY <1>3, <2>1, ChildStateMoves
  <2>. HIDE DEF x, d
  <2>4. /\ y.r = s.r /\ y.tasks = s.tasks /\ Video(y) = d
        /\ {"r", "child", "tasks", "client"} \subseteq DOMAIN y /\ DOMAIN y.child = Types
    BY <1>3, <2>3 DEF Shaped, Video, Types
  <2>5. Shaped(y)
    BY <2>2, <2>3, <2>4 DEF Shaped
  <2>. HIDE DEF y
  <2>6. VideoMoves(y)
    BY <2>2, <2>4, <2>5 DEF VideoMoves, Fills, Framed, Emptied, Sinks
  <2>7. e \in Tasks
    BY DEF Task, Tasks, Buffering
  <2>. HIDE DEF e
  <2>. QED
    BY <1>1, <1>3, <2>4, <2>5, <2>6, <2>7, PostMoves
<1>. QED
  BY <1>2, <1>3 DEF Types

LEMMA DestroyChildMoves ==
  ASSUME NEW s, Shaped(s), Framed(s), s.r.state # "PLAYING", NEW t \in Types
  PROVE  LET v == DestroyChild(s, t)
         IN  Shaped(v) /\ Framed(v) /\ v.r.state = s.r.state
<1>. DEFINE c == [NewChild EXCEPT !.state = "none"]
            m == [s.r EXCEPT !.has = [s.r.has EXCEPT ![t] = FALSE]]
            d == [s.child EXCEPT ![t] = c]
            p == [i \in DOMAIN s.tasks |-> IF s.tasks[i] \in OwnTasks(t)
                                           THEN Task("Cancelled", t, "none") ELSE s.tasks[i]]
            v == DestroyChild(s, t)
<1>1. v = [s EXCEPT !.child = d, !.r = m, !.tasks = p]
  BY DEF DestroyChild, Shaped
<1>2. p \in Seq(Tasks)
  BY TasksCancelled DEF Shaped
<1>3. Drawn(c) /\ c.buffering_state = "HAVE_NOTHING"
  BY DEF NewChild, Drawn, Buffering
<1>. HIDE DEF c, p
<1>4. /\ DOMAIN d = Types /\ Drawn(d["video"])
      /\ d["video"].buffering_state = "HAVE_NOTHING" \/ d["video"] = Video(s)
  BY <1>3 DEF Shaped, Video, Types
<1>5. /\ {"state", "has", "buffering_state", "pending_track_change", "ended", "playing",
          "time_ticking", "playback_rate"} \subseteq DOMAIN m
      /\ m.state = s.r.state /\ m.has \in [Types -> BOOLEAN]
      /\ m.buffering_state = s.r.buffering_state /\ m.ended = s.r.ended
      /\ m.pending_track_change = s.r.pending_track_change
  BY DEF Shaped
<1>. HIDE DEF d, m
<1>6. /\ {"r", "child", "tasks", "client"} \subseteq DOMAIN v
      /\ v.r = m /\ v.child = d /\ v.tasks = p
  BY <1>1 DEF Shaped
<1>. HIDE DEF v
<1>7. Shaped(v) /\ Framed(v)
  BY <1>2, <1>4, <1>5, <1>6 DEF Shaped, Framed, Video
<1>. QED
  BY <1>5, <1>6, <1>7 DEF v

LEMMA FinishedMoves ==
  ASSUME NEW s, VideoMoves(s)
  PROVE  /\ \A status : VideoMoves(FinishInitialization(s, status))
         /\ VideoMoves(FinishFlush(s)) /\ VideoMoves(ChangeCompleted(s))
<1>1. Shaped(s)
  BY DEF VideoMoves, Fills
<1>2. ASSUME NEW v, NEW m, v.r = m, v.child = s.child, v.tasks = s.tasks,
             {"r", "child", "tasks", "client"} \subseteq DOMAIN v,
             {"state", "has", "buffering_state", "pending_track_change", "ended", "playing",
              "time_ticking", "playback_rate"} \subseteq DOMAIN m,
             m.state = s.r.state,
             m.has = s.r.has, m.buffering_state = s.r.buffering_state,
             m.pending_track_change = s.r.pending_track_change, m.ended = s.r.ended,
             m.time_ticking = s.r.time_ticking, m.playback_rate = s.r.playback_rate
      PROVE  VideoMoves(v)
  <2>. DEFINE x == [s EXCEPT !.r = m]
  <2>1. m.pending_track_change \in [Types -> BOOLEAN] /\ DOMAIN m.ended = Types
    BY <1>1, <1>2 DEF Shaped
  <2>2. VideoMoves(x) /\ Shaped(x)
    BY <1>1, <1>2, <2>1, MemberMoves
  <2>3. v.r = x.r /\ v.child = x.child /\ v.tasks = x.tasks
    BY <1>1, <1>2 DEF Shaped
  <2>. HIDE DEF x
  <2>. QED
    BY <1>2, <2>2, <2>3, SameMoves
<1>3. ASSUME NEW status PROVE VideoMoves(FinishInitialization(s, status))
  <2>. DEFINE m == [s.r EXCEPT !.init_cb = FALSE]
              v == FinishInitialization(s, status)
  <2>1. /\ v.r = m /\ v.child = s.child /\ v.tasks = s.tasks
        /\ {"r", "child", "tasks", "client"} \subseteq DOMAIN v
    BY <1>1 DEF FinishInitialization, Shaped
  <2>2. /\ {"state", "has", "buffering_state", "pending_track_change", "ended", "playing",
            "time_ticking", "playback_rate"} \subseteq DOMAIN m
        /\ m.state = s.r.state /\ m.has = s.r.has /\ m.buffering_state = s.r.buffering_state
        /\ m.pending_track_change = s.r.pending_track_change /\ m.ended = s.r.ended
        /\ m.time_ticking = s.r.time_ticking /\ m.playback_rate = s.r.playback_rate
    BY <1>1 DEF Shaped
  <2>. HIDE DEF m, v
  <2>3. VideoMoves(v)
    BY <1>2, <2>1, <2>2
  <2>. QED
    BY <2>3 DEF v
<1>4. VideoMoves(FinishFlush(s))
  <2>. DEFINE m == [s.r EXCEPT !.flush_cb = FALSE]
              v == FinishFlush(s)
  <2>1. /\ v.r = m /\ v.child = s.child /\ v.tasks = s.tasks
        /\ {"r", "child", "tasks", "client"} \subseteq DOMAIN v
    BY <1>1 DEF FinishFlush, Shaped
  <2>2. /\ {"state", "has", "buffering_state", "pending_track_change", "ended", "playing",
            "time_ticking", "playback_rate"} \subseteq DOMAIN m
        /\ m.state = s.r.state /\ m.has = s.r.has /\ m.buffering_state = s.r.buffering_state
        /\ m.pending_track_change = s.r.pending_track_change /\ m.ended = s.r.ended
        /\ m.time_ticking = s.r.time_ticking /\ m.playback_rate = s.r.playback_rate
    BY <1>1 DEF Shaped
  <2>. HIDE DEF m, v
  <2>3. VideoMoves(v)
    BY <1>2, <2>1, <2>2
  <2>. QED
    BY <2>3 DEF v
<1>5. VideoMoves(ChangeCompleted(s))
  <2>1. LET v == ChangeCompleted(s)
        IN  /\ v.r = s.r /\ v.child = s.child /\ v.tasks = s.tasks
            /\ {"r", "child", "tasks", "client"} \subseteq DOMAIN v
    BY <1>1 DEF ChangeCompleted, Shaped
  <2>. QED
    BY <1>1, <2>1, SameMoves
<1>. QED
  BY <1>3, <1>4, <1>5

LEMMA OnErrorMoves ==
  ASSUME NEW s, VideoMoves(s)
  PROVE  VideoMoves(OnError(s))
<1>. DEFINE m == [s.r EXCEPT !.state = "ERROR"]
            x == [s EXCEPT !.r = m]
            y == [x EXCEPT !.client = [x.client EXCEPT !.error = TRUE]]
<1>1. Shaped(s) /\ Framed(s)
  BY DEF VideoMoves, Fills
<1>2. OnError(s) \in {s, FinishInitialization(x, "error"), FinishFlush(y), y}
  <2>1. OnError(s) = IF s.r.state = "ERROR" THEN s
                     ELSE IF s.r.init_cb THEN FinishInitialization(x, "error")
                     ELSE IF s.r.flush_cb THEN FinishFlush(y)
                     ELSE y
    BY DEF OnError
  <2>. HIDE DEF x, y
  <2>. QED
    BY <2>1
<1>3. /\ {"state", "has", "buffering_state", "pending_track_change", "ended", "playing",
          "time_ticking", "playback_rate"} \subseteq DOMAIN m
      /\ m.state = "ERROR" /\ m.has = s.r.has /\ m.buffering_state = s.r.buffering_state
      /\ m.pending_track_change \in [Types -> BOOLEAN] /\ DOMAIN m.ended = Types
      /\ m.time_ticking = s.r.time_ticking /\ m.playback_rate = s.r.playback_rate
  BY <1>1 DEF Shaped
<1>. HIDE DEF m
<1>4. VideoMoves(x) /\ Shaped(x)
  BY <1>1, <1>3, MemberMoves
<1>. HIDE DEF x
<1>5. VideoMoves(y)
  <2>1. /\ y.r = x.r /\ y.child = x.child /\ y.tasks = x.tasks
        /\ {"r", "child", "tasks", "client"} \subseteq DOMAIN y
    BY <1>4 DEF Shaped
  <2>. QED
    BY <1>4, <2>1, SameMoves
<1>. HIDE DEF y
<1>. QED
  BY <1>2, <1>4, <1>5, FinishedMoves

(* The handlers of a flush.                                                 *)
LEMMA VideoFlushDoneMoves ==
  ASSUME NEW s, VideoMoves(s)
  PROVE  VideoMoves(OnVideoRendererFlushDone(s))
<1>. DEFINE m == [s.r EXCEPT !.ended = [s.r.ended EXCEPT !["video"] = FALSE],
                             !.playing = [s.r.playing EXCEPT !["video"] = FALSE],
                             !.state = "FLUSHED"]
            x == [s EXCEPT !.r = m]
<1>1. Shaped(s) /\ Framed(s)
  BY DEF VideoMoves, Fills
<1>2. OnVideoRendererFlushDone(s) = IF s.r.state = "ERROR" THEN s ELSE FinishFlush(x)
  BY <1>1 DEF OnVideoRendererFlushDone, Shaped
<1>3. /\ {"state", "has", "buffering_state", "pending_track_change", "ended", "playing",
          "time_ticking", "playback_rate"} \subseteq DOMAIN m
      /\ m.state = "FLUSHED" /\ m.has = s.r.has /\ m.buffering_state = s.r.buffering_state
      /\ m.pending_track_change \in [Types -> BOOLEAN] /\ DOMAIN m.ended = Types
      /\ m.time_ticking = s.r.time_ticking /\ m.playback_rate = s.r.playback_rate
  BY <1>1 DEF Shaped
<1>. HIDE DEF m
<1>4. VideoMoves(x)
  BY <1>1, <1>3, MemberMoves
<1>. HIDE DEF x
<1>. QED
  BY <1>2, <1>4, FinishedMoves

LEMMA FlushVideoMoves ==
  ASSUME NEW s, VideoMoves(s)
  PROVE  VideoMoves(FlushVideoRenderer(s))
<1>1. Shaped(s) /\ "video" \in Types
  BY DEF VideoMoves, Fills, Types
<1>2. VideoMoves(FlushChild(s, "video", "FlushDone"))
  BY <1>1, FlushChildMoves
<1>. QED
  BY <1>2, VideoFlushDoneMoves DEF FlushVideoRenderer

LEMMA AudioFlushDoneMoves ==
  ASSUME NEW s, VideoMoves(s)
  PROVE  VideoMoves(OnAudioRendererFlushDone(s))
<1>. DEFINE m == [s.r EXCEPT !.ended = [s.r.ended EXCEPT !["audio"] = FALSE],
                             !.playing = [s.r.playing EXCEPT !["audio"] = FALSE]]
            x == [s EXCEPT !.r = m]
<1>1. Shaped(s) /\ Framed(s)
  BY DEF VideoMoves, Fills
<1>2. OnAudioRendererFlushDone(s) = IF s.r.state = "ERROR" THEN s ELSE FlushVideoRenderer(x)
  BY <1>1 DEF OnAudioRendererFlushDone, Shaped
<1>3. /\ {"state", "has", "buffering_state", "pending_track_change", "ended", "playing",
          "time_ticking", "playback_rate"} \subseteq DOMAIN m
      /\ m.state = s.r.state /\ m.has = s.r.has /\ m.buffering_state = s.r.buffering_state
      /\ m.pending_track_change \in [Types -> BOOLEAN] /\ DOMAIN m.ended = Types
      /\ m.pending_track_change = s.r.pending_track_change
      /\ m.time_ticking = s.r.time_ticking /\ m.playback_rate = s.r.playback_rate
  BY <1>1 DEF Shaped
<1>. HIDE DEF m
<1>4. VideoMoves(x)
  BY <1>1, <1>3, MemberMoves
<1>. HIDE DEF x
<1>. QED
  BY <1>2, <1>4, FlushVideoMoves

LEMMA FlushInternalMoves ==
  ASSUME NEW s, VideoMoves(s)
  PROVE  VideoMoves(FlushInternal(s))
<1>. DEFINE x == IF s.r.time_ticking THEN PausePlayback(s) ELSE s
<1>1. Shaped(x) /\ VideoMoves(x)
  BY PauseMoves DEF VideoMoves, Fills
<1>2. FlushInternal(s) \in {FlushChild(x, "audio", "FlushDone"), OnAudioRendererFlushDone(x)}
  <2>1. FlushInternal(s) = IF s.r.has["audio"] /\ s.r.playing["audio"]
                           THEN FlushChild(x, "audio", "FlushDone")
                           ELSE OnAudioRendererFlushDone(x)
    BY DEF FlushInternal
  <2>. HIDE DEF x
  <2>. QED
    BY <2>1
<1>. HIDE DEF x
<1>3. VideoMoves(FlushChild(x, "audio", "FlushDone"))
  BY <1>1, FlushChildMoves DEF Types
<1>. QED
  BY <1>1, <1>2, <1>3, AudioFlushDoneMoves

(* The handlers of a track change.                                          *)
LEMMA RestartMoves ==
  ASSUME NEW s, VideoMoves(s), NEW t \in Types
  PROVE  VideoMoves(RestartRenderer(s, t))
<1>. DEFINE m == [s.r EXCEPT !.playing = [s.r.playing EXCEPT ![t] = TRUE],
                   !.pending_track_change = [s.r.pending_track_change EXCEPT ![t] = FALSE]]
            x == [s EXCEPT !.r = m]
            y == StartChild(x, t)
<1>1. Shaped(s) /\ Framed(s)
  BY DEF VideoMoves, Fills
<1>2. RestartRenderer(s, t) = ChangeCompleted(IF s.r.state = "FLUSHED" THEN s ELSE y)
  BY <1>1 DEF RestartRenderer, Shaped
<1>3. /\ {"state", "has", "buffering_state", "pending_track_change", "ended", "playing",
          "time_ticking", "playback_rate"} \subseteq DOMAIN m
      /\ m.state = s.r.state /\ m.has = s.r.has /\ m.buffering_state = s.r.buffering_state
      /\ m.pending_track_change \in [Types -> BOOLEAN] /\ DOMAIN m.ended = Types
      /\ m.pending_track_change["video"] => s.r.pending_track_change["video"]
      /\ ~m.pending_track_change[t]
      /\ m.time_ticking = s.r.time_ticking /\ m.playback_rate = s.r.playback_rate
  BY <1>1 DEF Shaped, Types
<1>. HIDE DEF m
<1>4. VideoMoves(x) /\ Shaped(x) /\ x.r = m
  BY <1>1, <1>3, MemberMoves
<1>. HIDE DEF x
<1>5. VideoMoves(y)
  BY <1>3, <1>4, StartChildMoves
<1>. HIDE DEF y
<1>. QED
  BY <1>2, <1>5, FinishedMoves

(* The renderer has nothing left, if it is the video renderer that plays.    *)
Drained(s, t) ==
  t = "video" /\ s.r.state = "PLAYING" => Video(s).buffering_state = "HAVE_NOTHING"

LEMMA ReinitializeMoves ==
  ASSUME NEW s, VideoMoves(s), NEW t \in Types, Drained(s, t)
  PROVE  VideoMoves(ReinitializeRenderer(s, t))
<1>. DEFINE x == IF t = "audio" THEN s ELSE OnTimeStopped(s)
<1>1. Shaped(x) /\ VideoMoves(x)
  <2>1. CASE t = "audio"
    BY <2>1 DEF VideoMoves, Fills
  <2>2. CASE t = "video"
    <3>1. Shaped(s) /\ Fills(s)
      BY DEF VideoMoves, Fills
    <3>2. /\ Shaped(OnTimeStopped(s)) /\ Fills(OnTimeStopped(s))
          /\ OnTimeStopped(s).r = s.r
          /\ Video(OnTimeStopped(s)).buffering_state = Video(s).buffering_state
      BY <3>1, StopMoves
    <3>3. VideoMoves(OnTimeStopped(s))
      BY <2>2, <3>2, EmptyMoves, HaltedMoves DEF Drained, Fills
    <3>. QED
      BY <2>2, <3>2, <3>3
  <2>. QED
    BY <2>1, <2>2 DEF Types
<1>2. ReinitializeRenderer(s, t) = InitializeChild(x, t, "Reinitialize")
  BY DEF ReinitializeRenderer
<1>. HIDE DEF x
<1>. QED
  BY <1>1, <1>2, InitializeChildMoves

LEMMA CleanUpMoves ==
  ASSUME NEW s, VideoMoves(s), NEW t \in Types
  PROVE  LET v == CleanUpTrackChange(s, t)
         IN  VideoMoves(v) /\ v.r.state = s.r.state /\ Video(v) = Video(s)
<1>. DEFINE alive == \E u \in Types : s.r.has[u] /\ ~s.r.ended[u]
            e == [s.r.ended EXCEPT ![t] = @ /\ ~alive]
            m == [s.r EXCEPT !.playing = [s.r.playing EXCEPT ![t] = FALSE], !.ended = e]
            x == [s EXCEPT !.r = m]
<1>1. Shaped(s) /\ Framed(s)
  BY DEF VideoMoves, Fills
<1>2. CleanUpTrackChange(s, t) = x
  BY <1>1 DEF CleanUpTrackChange, Shaped
<1>3. DOMAIN e = Types
  BY <1>1 DEF Shaped
<1>. HIDE DEF e
<1>4. /\ {"state", "has", "buffering_state", "pending_track_change", "ended", "playing",
          "time_ticking", "playback_rate"} \subseteq DOMAIN m
      /\ m.state = s.r.state /\ m.has = s.r.has /\ m.buffering_state = s.r.buffering_state
      /\ m.pending_track_change \in [Types -> BOOLEAN] /\ DOMAIN m.ended = Types
      /\ m.pending_track_change = s.r.pending_track_change
      /\ m.time_ticking = s.r.time_ticking /\ m.playback_rate = s.r.playback_rate
  BY <1>1, <1>3 DEF Shaped
<1>. HIDE DEF m
<1>5. VideoMoves(x) /\ x.r = m /\ x.child = s.child
  BY <1>1, <1>4, MemberMoves
<1>. HIDE DEF x
<1>. QED
  BY <1>2, <1>4, <1>5 DEF Video

LEMMA ChildFlushedMoves ==
  ASSUME NEW s, VideoMoves(s), NEW t \in Types, Drained(s, t)
  PROVE  VideoMoves(OnChildFlushed(s, t))
<1>. DEFINE x == CleanUpTrackChange(s, t)
<1>1. OnChildFlushed(s, t) \in {OnAudioRendererFlushDone(s), OnVideoRendererFlushDone(s),
                                RestartRenderer(x, t), ReinitializeRenderer(x, t)}
  BY DEF OnChildFlushed
<1>2. VideoMoves(x) /\ Drained(x, t)
  BY CleanUpMoves DEF Drained
<1>. HIDE DEF x
<1>. QED
  BY <1>1, <1>2, VideoFlushDoneMoves, AudioFlushDoneMoves, RestartMoves, ReinitializeMoves

LEMMA TracksMove ==
  ASSUME NEW s, VideoMoves(s), NEW t \in Types, NEW track
  PROVE  VideoMoves(TracksChanged(s, t, track))
<1>. DEFINE m == [s.r EXCEPT
                    !.pending_track_change = [s.r.pending_track_change EXCEPT ![t] = TRUE]]
            w == [s EXCEPT !.r = m]
            x == [w EXCEPT !.client = [w.client EXCEPT !.op = "changing"]]
            y == IF t = "audio" /\ s.r.playing[t] THEN PausePlayback(x) ELSE x
            then == IF track = "other" THEN "Reinitialize" ELSE "Restart"
<1>1. Shaped(s) /\ Framed(s)
  BY DEF VideoMoves, Fills
<1>2. TracksChanged(s, t, track) = IF track = "none" /\ ~s.r.playing[t] THEN s
                                   ELSE FlushChild(y, t, then)
  BY <1>1 DEF TracksChanged, Shaped
<1>3. /\ {"state", "has", "buffering_state", "pending_track_change", "ended", "playing",
          "time_ticking", "playback_rate"} \subseteq DOMAIN m
      /\ m.state = s.r.state /\ m.has = s.r.has /\ m.buffering_state = s.r.buffering_state
      /\ m.pending_track_change \in [Types -> BOOLEAN] /\ DOMAIN m.ended = Types
      /\ t = "audio" => m.pending_track_change["video"] = s.r.pending_track_change["video"]
      /\ m.time_ticking = s.r.time_ticking /\ m.playback_rate = s.r.playback_rate
  BY <1>1 DEF Shaped, Types
<1>. HIDE DEF m
<1>4. Shaped(w) /\ (t = "audio" => VideoMoves(w))
  BY <1>1, <1>3, MemberMoves
<1>. HIDE DEF w
<1>5. Shaped(x) /\ (t = "audio" => VideoMoves(x))
  <2>1. /\ x.r = w.r /\ x.child = w.child /\ x.tasks = w.tasks
        /\ {"r", "child", "tasks", "client"} \subseteq DOMAIN x
    BY <1>4 DEF Shaped
  <2>. HIDE DEF x
  <2>. QED
    BY <1>4, <2>1, SameMoves
<1>. HIDE DEF x
<1>6. Shaped(y) /\ (t = "audio" => VideoMoves(y))
  BY <1>5, PauseMoves DEF VideoMoves
<1>. HIDE DEF y, then
<1>7. VideoMoves(FlushChild(y, t, then))
  BY <1>6, FlushChildMoves DEF Types
<1>. QED
  BY <1>2, <1>7

(* The handlers of an initialization, during which nothing plays.            *)
LEMMA InitializeMoves ==
  ASSUME NEW s, Shaped(s), Framed(s), s.r.state # "PLAYING", NEW t \in Types
  PROVE  VideoMoves(InitializeRenderer(s, t))
<1>. DEFINE x == DestroyChild(s, t)
            e == Task("InitializeDone", t, "ok")
<1>1. InitializeRenderer(s, t) = InitializeChild(s, t, "InitializeDone")
      \/ InitializeRenderer(s, t) = Post(x, e)
  BY DEF InitializeRenderer
<1>2. Shaped(x) /\ Framed(x) /\ x.r.state # "PLAYING"
  BY DestroyChildMoves
<1>3. e \in Tasks
  BY DEF Task, Tasks
<1>. HIDE DEF x, e
<1>4. VideoMoves(Post(x, e))
  BY <1>2, <1>3, HaltedMoves, PostMoves
<1>5. VideoMoves(InitializeChild(s, t, "InitializeDone"))
  BY HaltedMoves, InitializeChildMoves
<1>. QED
  BY <1>1, <1>4, <1>5

LEMMA InitializedMoves ==
  ASSUME NEW s, VideoMoves(s), s.r.state # "PLAYING", NEW status
  PROVE  /\ VideoMoves(OnAudioRendererInitializeDone(s, status))
         /\ VideoMoves(OnVideoRendererInitializeDone(s, status))
<1>1. Shaped(s) /\ Framed(s)
  BY DEF VideoMoves, Fills
<1>2. "audio" \in Types /\ "video" \in Types
  BY DEF Types
<1>3. VideoMoves(DestroyChild(s, "audio"))
  BY <1>1, <1>2, DestroyChildMoves, HaltedMoves
<1>4. VideoMoves(DestroyChild(DestroyChild(s, "audio"), "video"))
  <2>. DEFINE x == DestroyChild(s, "audio")
  <2>1. Shaped(x) /\ Framed(x) /\ x.r.state # "PLAYING"
    BY <1>1, <1>2, DestroyChildMoves
  <2>. HIDE DEF x
  <2>2. VideoMoves(DestroyChild(x, "video"))
    BY <1>2, <2>1, DestroyChildMoves, HaltedMoves
  <2>. QED
    BY <2>2 DEF x
<1>5. VideoMoves(FinishInitialization([s EXCEPT !.r.state = "FLUSHED"], "ok"))
  <2>. DEFINE m == [s.r EXCEPT !.state = "FLUSHED"]
              x == [s EXCEPT !.r = m]
  <2>1. x = [s EXCEPT !.r.state = "FLUSHED"]
    OBVIOUS
  <2>2. /\ {"state", "has", "buffering_state", "pending_track_change", "ended", "playing",
            "time_ticking", "playback_rate"} \subseteq DOMAIN m
        /\ m.state = "FLUSHED" /\ m.has = s.r.has /\ m.buffering_state = s.r.buffering_state
        /\ m.pending_track_change \in [Types -> BOOLEAN] /\ DOMAIN m.ended = Types
        /\ m.time_ticking = s.r.time_ticking /\ m.playback_rate = s.r.playback_rate
    BY <1>1 DEF Shaped
  <2>. HIDE DEF m
  <2>3. VideoMoves(x)
    BY <1>1, <2>2, MemberMoves
  <2>. HIDE DEF x
  <2>. QED
    BY <2>1, <2>3, FinishedMoves
<1>6. VideoMoves(InitializeRenderer(s, "video"))
  BY <1>1, <1>2, InitializeMoves
<1>7. VideoMoves(FinishInitialization(s, status))
  BY FinishedMoves
<1>. QED
  BY <1>3, <1>4, <1>5, <1>6, <1>7
     DEF OnAudioRendererInitializeDone, OnVideoRendererInitializeDone

(* What a handler finds has the shape that matters here.                    *)
LEMMA ShapedState ==
  ASSUME NEW s \in State
  PROVE  Shaped(s)
<1>1. Drawn(Video(s))
  BY StateOf DEF Drawn, Video, Filled, Child
<1>2. /\ s.r \in Members /\ s.child \in [Types -> Filled] /\ s.tasks \in Seq(Tasks)
      /\ s = [r |-> s.r, child |-> s.child, tasks |-> s.tasks, client |-> s.client]
  BY StateOf
<1>3. /\ {"state", "has", "buffering_state", "pending_track_change", "ended", "playing",
          "time_ticking", "playback_rate"} \subseteq DOMAIN s.r
      /\ s.r.has \in [Types -> BOOLEAN] /\ s.r.buffering_state \in [Types -> Buffering]
      /\ s.r.pending_track_change \in [Types -> BOOLEAN] /\ DOMAIN s.r.ended = Types
  BY <1>2 DEF Members
<1>4. {"r", "child", "tasks", "client"} \subseteq DOMAIN s
  BY <1>2
<1>. QED
  BY <1>1, <1>2, <1>3, <1>4 DEF Shaped

(* A report changes no renderer, ...                                        *)
LEMMA LearnMoves ==
  ASSUME NEW s \in State, NEW t \in Types, NEW new \in Buffering
  PROVE  /\ LET v == SetBuffering(CancelDeferred(s, t, new), t, new)
            IN  v.child = s.child /\ v.r.playback_rate = s.r.playback_rate
         /\ LET v == SetBuffering(s, t, new)
            IN  v.child = s.child /\ v.r.playback_rate = s.r.playback_rate
<1>. DEFINE x == CancelDeferred(s, t, new)
<1>1. s.r \in Members /\ s = [r |-> s.r, child |-> s.child, tasks |-> s.tasks, client |-> s.client]
  BY StateOf
<1>. DEFINE D(y) == /\ y.child = s.child /\ y.r.playback_rate = s.r.playback_rate
                    /\ {"r", "child", "tasks", "client"} \subseteq DOMAIN y
                    /\ {"playback_rate", "buffering_state"} \subseteq DOMAIN y.r
<1>2. D(s) /\ D([s EXCEPT !.r.deferred = "cancelled"])
      /\ D([s EXCEPT !.r.deferred = "cancelled", !.r.buffering_state["video"] = "HAVE_NOTHING"])
  BY <1>1 DEF Members
<1>3. D(x)
  BY <1>2 DEF CancelDeferred
<1>. HIDE DEF x
<1>4. \A y : D(y) => /\ SetBuffering(y, t, new).child = s.child
                    /\ SetBuffering(y, t, new).r.playback_rate = s.r.playback_rate
  BY DEF SetBuffering
<1>. QED
  BY <1>2, <1>3, <1>4 DEF x

(* ... and with no audio it is not deferred: what is heard to have enough     *)
(* starts the video.                                                        *)
LEMMA BufferingMoves ==
  ASSUME NEW s \in State, Fills(s), HasOne(s), NEW t \in Types, NEW new \in Buffering,
         Sinks(s) \/ (t = "video" /\ new = "HAVE_NOTHING")
  PROVE  VideoMoves(OnBufferingStateChange(s, t, new))
<1>. DEFINE v == OnBufferingStateChange(s, t, new)
            now == SetBuffering(CancelDeferred(s, t, new), t, new)
            set == SetBuffering(s, t, new)
            defer == [s EXCEPT !.r.deferred = "waiting"]
            quiet == \A u \in Types : ~s.r.pending_track_change[u]
            first == new = "HAVE_NOTHING" /\ s.r.pending_track_change[t]
<1>1. v = IF first THEN set
          ELSE IF DefersUnderflow(s, t, new) THEN defer
          ELSE IF ~Waits(s) /\ Waits(now) THEN Tell(PausePlayback(now), "HAVE_NOTHING")
          ELSE IF Waits(s) /\ ~Waits(now) /\ quiet
          THEN Tell(StartPlayback(now), "HAVE_ENOUGH")
          ELSE now
  BY DEF OnBufferingStateChange, SetBuffering, Waits
<1>2. now \in State /\ Steady(now, s) /\ now.r.time_ticking = s.r.time_ticking
      /\ Learns(now, s, t, new) /\ now.child = s.child
      /\ now.r.playback_rate = s.r.playback_rate
  <2>1. now.child = s.child /\ now.r.playback_rate = s.r.playback_rate
    BY LearnMoves
  <2>. QED
    BY <2>1, DeferredCancelled
<1>3. set \in State /\ Steady(set, s) /\ set.r.time_ticking = s.r.time_ticking
      /\ set.r.buffering_state = [s.r.buffering_state EXCEPT ![t] = new] /\ set.child = s.child
      /\ set.r.playback_rate = s.r.playback_rate
  <2>1. set.child = s.child /\ set.r.playback_rate = s.r.playback_rate
    BY LearnMoves
  <2>. QED
    BY <2>1, BufferingSet
<1>4. s.r \in Members /\ "video" \in Types /\ "audio" \in Types /\ Types = {"audio", "video"}
  BY StateOf DEF Types
<1>. HIDE DEF v, now, set
<1>5. ASSUME NEW y \in State, Steady(y, s), y.child = s.child PROVE Fills(y)
  <2>1. Shaped(y)
    BY ShapedState
  <2>. QED
    BY <1>5, <2>1 DEF Fills, Framed, Emptied, Steady, Video
<1>6. Fills(now) /\ Fills(set)
  BY <1>2, <1>3, <1>5
<1>7. ASSUME NEW y, Fills(y), NEW b PROVE VideoMoves(y) => VideoMoves(Tell(y, b))
  <2>1. /\ Tell(y, b).r = y.r /\ Tell(y, b).child = y.child /\ Tell(y, b).tasks = y.tasks
        /\ {"r", "child", "tasks", "client"} \subseteq DOMAIN Tell(y, b)
    BY <1>7 DEF Tell, Fills, Shaped
  <2>. QED
    BY <1>7, <2>1, SameMoves DEF Fills
<1>8. CASE first
  <2>1. \/ set.r.buffering_state["video"] = "HAVE_NOTHING"
        \/ set.r.buffering_state["video"] = s.r.buffering_state["video"] /\ Sinks(s)
    BY <1>3, <1>4, <1>8 DEF Members
  <2>2. Sinks(set)
    BY <1>3, <2>1 DEF Sinks, Timed, Steady, Video
  <2>. QED
    BY <1>1, <1>6, <1>8, <2>2 DEF VideoMoves, v
<1>9. CASE ~first /\ DefersUnderflow(s, t, new)
  <2>. DEFINE m == [s.r EXCEPT !.deferred = "waiting"]
  <2>1. /\ m.state = s.r.state /\ m.has = s.r.has
        /\ m.pending_track_change = s.r.pending_track_change
        /\ m \in Members /\ defer = [s EXCEPT !.r = m]
    BY <1>4 DEF Members
  <2>. HIDE DEF m
  <2>2. defer \in State /\ defer.r = m /\ defer.child = s.child
    BY <2>1, StateOf DEF State
  <2>. HIDE DEF defer
  <2>3. Shaped(defer)
    BY <2>2, ShapedState
  <2>4. s.r.has["audio"]
    BY <1>9 DEF DefersUnderflow, AwaitsVideo
  <2>. QED
    BY <1>1, <1>9, <2>1, <2>2, <2>3, <2>4
       DEF VideoMoves, Fills, Framed, Emptied, Sinks, Timed, Video, v
<1>10. VideoMoves(Tell(PausePlayback(now), "HAVE_NOTHING"))
  BY <1>6, <1>7, PauseMoves DEF Fills, VideoMoves
<1>11. VideoMoves(Tell(StartPlayback(now), "HAVE_ENOUGH"))
  <2>1. HasOne(now)
    BY <1>2 DEF HasOne, Steady
  <2>. QED
    BY <1>6, <1>7, <2>1, StartMoves DEF VideoMoves
<1>12. CASE ~first /\ ~DefersUnderflow(s, t, new) /\ ~(Waits(s) /\ ~Waits(now) /\ quiet)
  <2>1. ASSUME Timed(now), Video(now).buffering_state = "HAVE_ENOUGH",
               ~Video(now).sink, ~Video(now).ended, ~Has(now.tasks, {Nothing})
        PROVE  now.r.buffering_state["video"] = "HAVE_NOTHING"
    <3>1. /\ Timed(s) /\ Video(s) = Video(now) /\ now.tasks = s.tasks
          /\ now.r.state = "PLAYING" /\ now.r.has = s.r.has /\ ~s.r.has["audio"]
      BY <1>2, <2>1 DEF Timed, Steady, Video
    <3>2. CASE t = "video" /\ new = "HAVE_NOTHING"
      BY <1>2, <3>2 DEF Learns
    <3>3. CASE ~(t = "video" /\ new = "HAVE_NOTHING")
      <4>1. s.r.buffering_state["video"] = "HAVE_NOTHING"
        BY <2>1, <3>1, <3>3 DEF Sinks
      <4>2. CASE t = "audio"
        BY <1>2, <1>4, <4>1, <4>2 DEF Learns
      <4>3. CASE t = "video"
        <5>1. now.r.buffering_state["video"] = "HAVE_ENOUGH"
          BY <1>2, <3>3, <4>3 DEF Learns, Buffering
        <5>2. s.r.has["video"]
          BY <3>1 DEF HasOne, Timed
        <5>3. Waits(s)
          BY <1>4, <3>1, <4>1, <5>2 DEF Waits, WaitingForEnoughData, Timed
        <5>4. ~Waits(now)
          BY <1>4, <3>1, <5>1 DEF Waits, WaitingForEnoughData
        <5>5. s.r.pending_track_change["video"]
          BY <1>4, <1>12, <3>1, <5>3, <5>4 DEF HasOne, Timed
        <5>6. Video(s).buffering_state = "HAVE_NOTHING"
          BY <3>1, <5>5 DEF Fills, Emptied, Timed
        <5>. QED
          BY <2>1, <3>1, <5>6
      <4>. QED
        BY <1>4, <4>2, <4>3
    <3>. QED
      BY <3>2, <3>3
  <2>2. VideoMoves(now)
    BY <1>6, <2>1 DEF VideoMoves, Sinks
  <2>. QED
    BY <1>1, <1>10, <1>12, <2>2 DEF v
<1>. QED
  BY <1>1, <1>8, <1>9, <1>10, <1>11, <1>12 DEF v

(* The end of the video stops the clock when there is no audio.              *)
LEMMA RunEndedMoves ==
  ASSUME NEW s, Fills(s), VideoMoves(s) \/ (Timed(s) => PlaybackHasEnded(s))
  PROVE  VideoMoves(RunEndedCallbackIfNeeded(s))
<1>. DEFINE x == IF s.r.time_ticking THEN PausePlayback(s) ELSE s
            y == [x EXCEPT !.client.ended = Twice(@)]
<1>1. RunEndedCallbackIfNeeded(s) = IF ~PlaybackHasEnded(s) THEN s ELSE y
  BY DEF RunEndedCallbackIfNeeded
<1>2. VideoMoves(x)
  <2>1. CASE s.r.time_ticking
    BY <2>1, PauseMoves DEF Fills
  <2>2. CASE ~s.r.time_ticking
    BY <2>2 DEF VideoMoves, Sinks, Timed
  <2>. QED
    BY <2>1, <2>2
<1>. HIDE DEF x
<1>3. /\ y.r = x.r /\ y.child = x.child /\ y.tasks = x.tasks
      /\ {"r", "child", "tasks", "client"} \subseteq DOMAIN y
  BY <1>2 DEF VideoMoves, Fills, Shaped
<1>. HIDE DEF y
<1>4. VideoMoves(y)
  BY <1>2, <1>3, SameMoves DEF VideoMoves, Fills
<1>. QED
  BY <1>1, <1>4 DEF VideoMoves, Sinks

LEMMA EndedMoves ==
  ASSUME NEW s, VideoMoves(s), NEW t \in Types, HasOne(s)
  PROVE  VideoMoves(OnRendererEnded(s, t))
<1>. DEFINE f == [s.r.ended EXCEPT ![t] = TRUE]
            m == [s.r EXCEPT !.ended = f]
            x == [s EXCEPT !.r = m]
            y == OnTimeStopped(x)
<1>1. \/ OnRendererEnded(s, t) = s
      \/ OnRendererEnded(s, t) = RunEndedCallbackIfNeeded(IF t = "audio" THEN x ELSE y)
  BY DEF OnRendererEnded, VideoMoves, Fills, Shaped
<1>2. DOMAIN f = Types /\ f[t] = TRUE
  BY DEF VideoMoves, Fills, Shaped
<1>. HIDE DEF f
<1>3. /\ {"state", "has", "buffering_state", "pending_track_change", "ended", "playing",
          "time_ticking", "playback_rate"} \subseteq DOMAIN m
      /\ m.has = s.r.has /\ m.buffering_state = s.r.buffering_state /\ m.ended = f
      /\ m.state = s.r.state /\ m.pending_track_change = s.r.pending_track_change
      /\ m.pending_track_change \in [Types -> BOOLEAN] /\ DOMAIN m.ended = Types
      /\ m.time_ticking = s.r.time_ticking /\ m.playback_rate = s.r.playback_rate
  BY <1>2 DEF VideoMoves, Fills, Shaped
<1>. HIDE DEF m
<1>4. VideoMoves(x) /\ x.r = m
  BY <1>3, MemberMoves DEF VideoMoves, Fills
<1>. HIDE DEF x
<1>5. Fills(y) /\ y.r = m
  BY <1>4, StopMoves DEF VideoMoves, Fills
<1>. HIDE DEF y
<1>6. CASE t = "audio"
  BY <1>1, <1>4, <1>6, RunEndedMoves DEF VideoMoves
<1>7. CASE t = "video"
  <2>1. Timed(y) => PlaybackHasEnded(y)
    BY <1>2, <1>3, <1>5, <1>7 DEF Timed, PlaybackHasEnded, Types
  <2>. QED
    BY <1>1, <1>5, <1>7, <2>1, RunEndedMoves
<1>. QED
  BY <1>6, <1>7 DEF Types

(* TransitionToHaveNothing().                                                *)
LEMMA NothingMoves ==
  ASSUME NEW s, VideoMoves(s), NEW v \in TransitionToHaveNothing(s)
  PROVE  VideoMoves(v)
<1>. DEFINE c == [s.child["video"] EXCEPT !.buffering_state = "HAVE_NOTHING"]
            x == [s EXCEPT !.child = [s.child EXCEPT !["video"] = c]]
            e == Task("BufferingStateChange", "video", "HAVE_NOTHING")
<1>1. v = s \/ v = Post(x, e)
  BY DEF TransitionToHaveNothing, VideoMoves, Fills, Shaped
<1>2. Drawn(c) /\ c.buffering_state = "HAVE_NOTHING" /\ c.state = Video(s).state
  BY DEF VideoMoves, Fills, Shaped, Drawn, Video, Buffering
<1>. HIDE DEF c
<1>3. /\ x.r = s.r /\ x.tasks = s.tasks /\ Video(x) = c
      /\ {"r", "child", "tasks", "client"} \subseteq DOMAIN x /\ DOMAIN x.child = Types
  BY DEF VideoMoves, Fills, Shaped, Video, Types
<1>. HIDE DEF x
<1>4. Shaped(x)
  BY <1>2, <1>3 DEF VideoMoves, Fills, Shaped
<1>5. VideoMoves(x)
  BY <1>2, <1>3, <1>4, EmptyMoves DEF VideoMoves, Fills, Framed, Emptied
<1>6. e \in Tasks
  BY DEF Task, Tasks, Types, Buffering
<1>. HIDE DEF e
<1>. QED
  BY <1>1, <1>4, <1>5, <1>6, PostMoves

LEMMA OneIsPlayed ==
  ASSUME setup \in Setups, NEW w \in State, Fits(w)
  PROVE  HasOne(w)
<1>. SUFFICES ASSUME w.r.state = "PLAYING"
              PROVE  /\ w.r.has["audio"] \/ w.r.has["video"]
                     /\ w.r.pending_track_change["audio"] => w.r.has["audio"]
  BY DEF HasOne
<1>1. \A t \in Types : t \in setup.streams => w.r.has[t]
  BY DEF Fits, Plays, Initialized, Serves
<1>2. /\ setup.streams \subseteq Types /\ setup.streams # {}
      /\ setup.changing \subseteq setup.streams
  <2>1. setup \in Setup /\ setup.changing \subseteq setup.streams
    BY DEF RendererAssumption
  <2>2. setup.streams \in (SUBSET Types) \ {{}}
    BY <2>1 DEF Setup
  <2>. QED
    BY <2>1, <2>2
<1>3. w.r.pending_track_change["audio"] => "audio" \in setup.changing
  BY DEF Fits, Plays, OneChange, Types
<1>. QED
  BY <1>1, <1>2, <1>3 DEF Types

(* A task of the thread.                                                     *)
LEMMA OutcomeMoves ==
  ASSUME setup \in Setups, NEW w \in State, Fits(w), VideoMoves(w), NEW e \in Tasks, NEW s,
         Took(s, w, e), NEW v \in Outcomes(s, e)
  PROVE  VideoMoves(v)
<1>. DEFINE t == e.type
<1>1. /\ t \in Types /\ e = Task(e.f, t, e.arg) /\ s \in State
      /\ s.r = w.r /\ s.child = w.child /\ Loses(w.tasks, e, s.tasks)
  BY TaskIs DEF Took
<1>2. HasOne(s)
  BY <1>1, OneIsPlayed DEF HasOne
<1>3. Fills(s)
  BY <1>1, ShapedState DEF VideoMoves, Fills, Framed, Emptied, Video
<1>4. e # Nothing => VideoMoves(s)
  <2>1. e # Nothing => (Has(w.tasks, {Nothing}) => Has(s.tasks, {Nothing}))
    BY <1>1 DEF Loses
  <2>. QED
    BY <1>1, <1>3, <2>1 DEF VideoMoves, Sinks, Timed, Video
<1>. HIDE DEF t
<1>5. e.f # "BufferingStateChange" => VideoMoves(s)
  <2>1. Nothing.f = "BufferingStateChange"
    BY DEF Nothing, Report, Task
  <2>. QED
    BY <1>4, <2>1
<1>6. CASE e.f = "InitializeDone"
  <2>1. \/ v = OnAudioRendererInitializeDone(s, e.arg)
        \/ v = OnVideoRendererInitializeDone(s, e.arg)
    BY <1>6 DEF Outcomes, t
  <2>2. e \in Inits(t)
    BY <1>1, <1>6, TaskIs DEF Inits
  <2>3. Initializing(w, t)
    BY <1>1, <2>2 DEF Initializing, Loses
  <2>4. s.r.state # "PLAYING"
    BY <1>1, <2>3 DEF Fits, Plays, Initialized, Serves
  <2>. QED
    BY <1>5, <1>6, <2>1, <2>4, InitializedMoves
<1>7. CASE e.f = "Reinitialized"
  <2>1. v = OnRendererReinitialized(s, t, e.arg)
    BY <1>7 DEF Outcomes, t
  <2>2. v = RestartRenderer(s, t) \/ v = OnError(ChangeCompleted(s))
    BY <2>1 DEF OnRendererReinitialized
  <2>3. VideoMoves(s)
    BY <1>5, <1>7
  <2>4. VideoMoves(RestartRenderer(s, t))
    BY <1>1, <2>3, RestartMoves
  <2>5. VideoMoves(OnError(ChangeCompleted(s)))
    BY <2>3, FinishedMoves, OnErrorMoves
  <2>. QED
    BY <2>2, <2>4, <2>5
<1>8. CASE e.f = "BufferingStateChange"
  <2>1. v = OnBufferingStateChange(s, t, e.arg) /\ e.arg \in Buffering
    BY <1>8, TaskIs DEF Outcomes, t
  <2>2. Sinks(s) \/ (t = "video" /\ e.arg = "HAVE_NOTHING")
    <3>1. e = Nothing => t = "video" /\ e.arg = "HAVE_NOTHING"
      BY DEF Nothing, Report, Task, t
    <3>. QED
      BY <1>4, <3>1 DEF VideoMoves
  <2>3. VideoMoves(OnBufferingStateChange(s, t, e.arg))
    <3>. DEFINE new == e.arg
    <3>1. new \in Buffering /\ (Sinks(s) \/ (t = "video" /\ new = "HAVE_NOTHING"))
      BY <2>1, <2>2
    <3>. HIDE DEF new
    <3>2. VideoMoves(OnBufferingStateChange(s, t, new))
      BY <1>1, <1>2, <1>3, <3>1, BufferingMoves
    <3>. QED
      BY <3>2 DEF new
  <2>. QED
    BY <2>1, <2>3
<1>9. CASE e.f = "Ended"
  <2>1. v = OnRendererEnded(s, t)
    BY <1>9 DEF Outcomes, t
  <2>. QED
    BY <1>1, <1>2, <1>5, <1>9, <2>1, EndedMoves
<1>10. CASE e.f = "Flushed"
  <2>1. v = OnChildFlushed(s, t) /\ e \in Flushed(t)
    BY <1>1, <1>10, TaskIs DEF Outcomes, Flushed, t
  <2>2. Drained(s, t)
    <3>. SUFFICES ASSUME t = "video", s.r.state = "PLAYING"
                  PROVE  Video(s).buffering_state = "HAVE_NOTHING"
      BY DEF Drained
    <3>1. TurnOf(w, t) /\ Has(w.tasks, Flushed(t))
      BY <1>1, <2>1 DEF Fits, InTurn, Loses
    <3>. QED
      BY <1>1, <3>1 DEF TurnOf, Video
  <2>. QED
    BY <1>1, <1>5, <1>10, <2>1, <2>2, ChildFlushedMoves
<1>11. CASE e.f \in {"HaveNothing", "Error", "ClientFlushed", "Cancelled"}
  <2>1. v \in TransitionToHaveNothing(s) \/ v \in {OnError(s), FinishFlush(s), s}
    BY <1>11 DEF Outcomes
  <2>. QED
    BY <1>5, <1>11, <2>1, NothingMoves, OnErrorMoves, FinishedMoves
<1>. QED
  BY <1>6, <1>7, <1>8, <1>9, <1>10, <1>11, TaskIs

(* An action that becomes v.                                                 *)
LEMMA BecomesMoving ==
  ASSUME NEW v, VideoMoves(v), Become(v)
  PROVE  VideoMoves(Now)'
<1>. DEFINE w == [r |-> v.r, child |-> v.child, tasks |-> v.tasks, client |-> v.client]
<1>1. Now' = w
  BY DEF Become, Now
<1>2. VideoMoves(w)
  BY SameMoves DEF VideoMoves, Fills
<1>. HIDE DEF w
<1>. QED
  BY <1>1, <1>2
     DEF VideoMoves, Fills, Shaped, Framed, Emptied, Sinks, Timed, Video, Drawn

LEMMA ClockMembers ==
  ASSUME NEW s, Shaped(s), NEW v, NEW m, v = [s EXCEPT !.r = m],
         {"state", "has", "buffering_state", "pending_track_change", "ended", "playing",
          "time_ticking", "playback_rate"} \subseteq DOMAIN m,
         m.state = s.r.state, m.has = s.r.has, m.buffering_state = s.r.buffering_state,
         m.pending_track_change = s.r.pending_track_change, m.ended = s.r.ended
  PROVE  Shaped(v) /\ v.r = m /\ v.child = s.child /\ (Fills(s) => Fills(v))
<1>1. v.r = m /\ v.child = s.child /\ v.tasks = s.tasks
      /\ {"r", "child", "tasks", "client"} \subseteq DOMAIN v
  BY DEF Shaped
<1>2. Shaped(v)
  BY <1>1 DEF Shaped, Video
<1>. QED
  BY <1>1, <1>2 DEF Fills, Framed, Emptied, Video

LEMMA SetPlaybackRateMoves ==
  ASSUME Lives, VideoMoves(Now), NEW rate \in {0, 1}, SetPlaybackRate(rate)
  PROVE  VideoMoves(Now)'
<1>. DEFINE m == [r EXCEPT !.playback_rate = rate]
            s == [Now EXCEPT !.r = m]
<1>1. Become(IF ~r.time_ticking \/ ~r.has["video"] THEN s
             ELSE IF rate > 0 THEN OnTimeProgressing(s) ELSE OnTimeStopped(s))
  BY NowIs DEF SetPlaybackRate, Now
<1>2. /\ {"state", "has", "buffering_state", "pending_track_change", "ended", "playing",
          "time_ticking", "playback_rate"} \subseteq DOMAIN m
      /\ m.state = r.state /\ m.has = r.has /\ m.buffering_state = r.buffering_state
      /\ m.pending_track_change = r.pending_track_change /\ m.ended = r.ended
      /\ m.time_ticking = r.time_ticking /\ m.playback_rate = rate
  BY NowIs DEF Members
<1>. HIDE DEF m
<1>3. Fills(s) /\ s.r = m /\ Shaped(s)
  BY <1>2, ClockMembers, NowIs DEF VideoMoves, Fills
<1>4. HasOne(Now)
  BY NowIs, OneIsPlayed
<1>. HIDE DEF s
<1>5. CASE ~r.time_ticking \/ ~r.has["video"]
  <2>1. VideoMoves(s)
    BY <1>2, <1>3, <1>4, <1>5, NowIs DEF VideoMoves, Sinks, Timed, HasOne
  <2>. QED
    BY <1>1, <1>5, <2>1, BecomesMoving
<1>6. VideoMoves(OnTimeProgressing(s))
  BY <1>3, TimeMoves
<1>7. rate = 0 => VideoMoves(OnTimeStopped(s))
  BY <1>2, <1>3, StopMoves DEF VideoMoves, Sinks, Timed
<1>. QED
  BY <1>1, <1>5, <1>6, <1>7, BecomesMoving

LEMMA StartPlayingMoves ==
  ASSUME Lives, VideoMoves(Now), StartPlayingFrom
  PROVE  VideoMoves(Now)'
<1>. DEFINE c == [client EXCEPT !.op = "started", !.ended = 0]
            started == [Now EXCEPT !.client = c]
            p == [t \in Types |-> r.playing[t] \/ r.has[t]]
            m == [r EXCEPT !.state = "PLAYING", !.playing = p]
            d == [t \in Types |-> IF r.has[t] THEN [child[t] EXCEPT !.state = "kPlaying"]
                                              ELSE child[t]]
            played == [started EXCEPT !.r = m, !.child = d]
<1>1. Become(IF r.state = "FLUSHED" THEN played ELSE started)
  BY NowIs, ZenonT(60) DEF StartPlayingFrom, Now
<1>2. VideoMoves(started)
  <2>1. /\ started.r = Now.r /\ started.child = Now.child /\ started.tasks = Now.tasks
        /\ {"r", "child", "tasks", "client"} \subseteq DOMAIN started
    BY DEF Now
  <2>. HIDE DEF started
  <2>. QED
    BY <2>1, SameMoves DEF VideoMoves, Fills
<1>3. CASE r.state # "FLUSHED"
  BY <1>1, <1>2, <1>3, BecomesMoving
<1>4. CASE r.state = "FLUSHED"
  <2>1. ~r.time_ticking /\ ~r.pending_track_change["video"]
    BY <1>4, NowIs DEF Fits, ClockFits, Rests, Types
  <2>2. /\ {"state", "has", "buffering_state", "pending_track_change", "ended", "playing",
            "time_ticking", "playback_rate"} \subseteq DOMAIN m
        /\ m.has = r.has /\ m.buffering_state = r.buffering_state /\ m.ended = r.ended
        /\ m.pending_track_change = r.pending_track_change
        /\ m.time_ticking = r.time_ticking
    BY NowIs DEF Members
  <2>3. Shaped(Now) /\ Framed(Now)
    BY DEF VideoMoves, Fills
  <2>4. /\ DOMAIN d = Types /\ d["video"].buffering_state = child["video"].buffering_state
        /\ d["video"].ended = child["video"].ended /\ d["video"].frames = child["video"].frames
        /\ Drawn(d["video"])
    BY <2>3, NowIs DEF Shaped, Drawn, Video, Types
  <2>5. /\ played.r = m /\ played.child = d /\ played.tasks = tasks
        /\ {"r", "child", "tasks", "client"} \subseteq DOMAIN played
    BY DEF Now
  <2>. HIDE DEF m, d, played
  <2>6. Shaped(played)
    BY <2>2, <2>3, <2>4, <2>5, NowIs DEF Shaped, Video
  <2>7. VideoMoves(played)
    BY <2>1, <2>2, <2>3, <2>4, <2>5, <2>6, NowIs
       DEF VideoMoves, Fills, Framed, Emptied, Sinks, Timed, Video
  <2>. QED
    BY <1>1, <1>4, <2>7, BecomesMoving
<1>. QED
  BY <1>3, <1>4

(* The other calls of the client.                                           *)
LEMMA BeginMoves ==
  ASSUME NEW s, Shaped(s), Framed(s)
  PROVE  VideoMoves(Begin(s))
<1>. DEFINE m == [s.r EXCEPT !.state = "INITIALIZING"]
            x == [s EXCEPT !.r = m]
<1>1. /\ {"state", "has", "buffering_state", "pending_track_change", "ended", "playing",
          "time_ticking", "playback_rate"} \subseteq DOMAIN m
      /\ m.state # "PLAYING" /\ m.has = s.r.has /\ m.buffering_state = s.r.buffering_state
      /\ m.pending_track_change \in [Types -> BOOLEAN] /\ DOMAIN m.ended = Types
      /\ m.time_ticking = s.r.time_ticking /\ m.playback_rate = s.r.playback_rate
  BY DEF Shaped
<1>2. Begin(s) = InitializeRenderer(x, "audio")
  BY DEF Begin
<1>. HIDE DEF m
<1>3. Shaped(x) /\ x.r = m /\ x.child = s.child
  BY <1>1, MemberMoves
<1>. HIDE DEF x
<1>. QED
  BY <1>1, <1>2, <1>3, InitializeMoves DEF Framed, Video, Types

LEMMA CallsMove ==
  ASSUME Lives, UNCHANGED setup, VideoMoves(Now), setup.changing \subseteq Types, Calls
  PROVE  VideoMoves(Now)'
<1>1. Shaped(Now) /\ Framed(Now)
  BY DEF VideoMoves, Fills
<1>2. CASE Initialize
  <2>. DEFINE m == [r EXCEPT !.init_cb = TRUE]
              c == [client EXCEPT !.op = "initializing"]
              s == [[Now EXCEPT !.r = m] EXCEPT !.client = c]
              n == [m EXCEPT !.state = "INIT_PENDING_CDM"]
              x == [s EXCEPT !.r = n]
  <2>1. Become(x) \/ Become(Begin(s))
    BY <1>2, NowIs DEF Initialize, Now
  <2>2. r.state = "UNINITIALIZED"
    BY <1>2 DEF Initialize
  <2>3. /\ {"state", "has", "buffering_state", "pending_track_change", "ended", "playing",
            "time_ticking", "playback_rate"} \subseteq DOMAIN m
        /\ m.state = r.state /\ m.has = r.has /\ m.buffering_state = r.buffering_state
        /\ m.pending_track_change = r.pending_track_change /\ m.ended = r.ended
    BY NowIs DEF Members
  <2>4. Shaped([Now EXCEPT !.r = m]) /\ [Now EXCEPT !.r = m].r = m
        /\ [Now EXCEPT !.r = m].child = child
    BY <1>1, <2>3, ClockMembers, NowIs
  <2>5. Shaped(s) /\ s.r = m /\ s.child = child
    <3>. DEFINE y == [Now EXCEPT !.r = m]
    <3>1. /\ s.r = y.r /\ s.child = y.child /\ s.tasks = y.tasks
          /\ {"r", "child", "tasks", "client"} \subseteq DOMAIN s
      BY DEF Now
    <3>2. Shaped(y)
      BY <2>4
    <3>. HIDE DEF y, s
    <3>3. Shaped(s)
      BY <3>1, <3>2, SameMoves
    <3>. QED
      BY <2>4, <3>1, <3>3 DEF y
  <2>. HIDE DEF s
  <2>6. Framed(s)
    BY <1>1, <2>5, NowIs DEF Framed, Video
  <2>7. /\ {"state", "has", "buffering_state", "pending_track_change", "ended", "playing",
            "time_ticking", "playback_rate"} \subseteq DOMAIN n
        /\ n.state # "PLAYING" /\ n.has = m.has /\ n.buffering_state = m.buffering_state
        /\ n.pending_track_change \in [Types -> BOOLEAN] /\ DOMAIN n.ended = Types
        /\ n.time_ticking = m.time_ticking /\ n.playback_rate = m.playback_rate
    BY NowIs DEF Members
  <2>. HIDE DEF m, n
  <2>8. VideoMoves(x)
    BY <2>5, <2>6, <2>7, MemberMoves
  <2>. HIDE DEF x
  <2>. QED
    BY <2>1, <2>5, <2>6, <2>8, BeginMoves, BecomesMoving
<1>3. CASE SetCdm
  <2>. DEFINE m == [r EXCEPT !.cdm_context = TRUE]
              s == [Now EXCEPT !.r = m]
  <2>1. Become(s) \/ Become(Begin(s))
    BY <1>3, NowIs DEF SetCdm, Now
  <2>2. /\ {"state", "has", "buffering_state", "pending_track_change", "ended", "playing",
            "time_ticking", "playback_rate"} \subseteq DOMAIN m
        /\ m.state = r.state /\ m.has = r.has /\ m.buffering_state = r.buffering_state
        /\ m.pending_track_change = r.pending_track_change /\ m.ended = r.ended
        /\ m.pending_track_change \in [Types -> BOOLEAN] /\ DOMAIN m.ended = Types
        /\ m.time_ticking = r.time_ticking /\ m.playback_rate = r.playback_rate
    BY NowIs DEF Members
  <2>. HIDE DEF m
  <2>3. VideoMoves(s) /\ s.r = m
    BY <1>1, <2>2, MemberMoves, NowIs
  <2>. HIDE DEF s
  <2>. QED
    BY <2>1, <2>3, BeginMoves, BecomesMoving DEF VideoMoves, Fills
<1>4. CASE StartPlayingFrom
  BY <1>4, StartPlayingMoves
<1>5. CASE Flush
  <2>. DEFINE c == [client EXCEPT !.op = "flushing"]
              s == [Now EXCEPT !.client = c]
              m == [r EXCEPT !.flush_cb = TRUE]
              n == [r EXCEPT !.flush_cb = TRUE, !.state = "FLUSHING"]
              y == [s EXCEPT !.r = m]
              x == [s EXCEPT !.r = n]
              e == Task("ClientFlushed", "video", "none")
  <2>1. Become(s) \/ Become(Post(y, e)) \/ Become(FlushInternal(x))
    BY <1>5, NowIs DEF Flush, Now
  <2>2. /\ s.r = r /\ s.child = child /\ s.tasks = tasks
        /\ {"r", "child", "tasks", "client"} \subseteq DOMAIN s
    BY DEF Now
  <2>. HIDE DEF s, e
  <2>3. VideoMoves(s) /\ Shaped(s) /\ Framed(s)
    BY <1>1, <2>2, SameMoves, NowIs DEF VideoMoves, Fills
  <2>4. /\ {"state", "has", "buffering_state", "pending_track_change", "ended", "playing",
            "time_ticking", "playback_rate"} \subseteq DOMAIN m
        /\ m.state = r.state /\ m.has = r.has /\ m.buffering_state = r.buffering_state
        /\ m.pending_track_change = r.pending_track_change
        /\ m.pending_track_change \in [Types -> BOOLEAN] /\ DOMAIN m.ended = Types
        /\ m.time_ticking = r.time_ticking /\ m.playback_rate = r.playback_rate
    BY NowIs DEF Members
  <2>5. /\ {"state", "has", "buffering_state", "pending_track_change", "ended", "playing",
            "time_ticking", "playback_rate"} \subseteq DOMAIN n
        /\ n.state # "PLAYING" /\ n.has = r.has /\ n.buffering_state = r.buffering_state
        /\ n.pending_track_change \in [Types -> BOOLEAN] /\ DOMAIN n.ended = Types
        /\ n.time_ticking = r.time_ticking /\ n.playback_rate = r.playback_rate
    BY NowIs DEF Members
  <2>. HIDE DEF m, n
  <2>6. VideoMoves(y) /\ Shaped(y)
    BY <2>2, <2>3, <2>4, MemberMoves
  <2>7. VideoMoves(x)
    BY <2>2, <2>3, <2>5, MemberMoves
  <2>8. e \in Tasks
    BY DEF e, Task, Tasks, Types
  <2>. HIDE DEF x, y
  <2>. QED
    BY <2>1, <2>3, <2>6, <2>7, <2>8, PostMoves, FlushInternalMoves, BecomesMoving
<1>6. CASE Destroy
  <2>. DEFINE m == [r EXCEPT !.state = "destroyed", !.init_cb = FALSE, !.flush_cb = FALSE,
                      !.has = [t \in Types |-> FALSE], !.time_ticking = FALSE,
                      !.deferred = "cancelled"]
              d == [t \in Types |-> [NewChild EXCEPT !.state = "none"]]
              x == [r |-> m, child |-> d, tasks |-> << >>,
                    client |-> [client EXCEPT !.op = "gone"]]
  <2>1. Become(x)
    BY <1>6 DEF Destroy, Become
  <2>2. x \in State /\ m.state = "destroyed"
    <3>1. x = Now'
      BY <1>6 DEF Destroy, Now
    <3>2. m.state = "destroyed"
      BY NowIs DEF Members
    <3>. HIDE DEF x
    <3>. QED
      BY <1>6, <3>1, <3>2, ActDestroy DEF Gone
  <2>3. x.r = m /\ Video(x).buffering_state = "HAVE_NOTHING"
    BY DEF Video, NewChild, Types
  <2>. HIDE DEF x, m
  <2>4. VideoMoves(x)
    BY <2>2, <2>3, ShapedState, HaltedMoves DEF Framed
  <2>. QED
    BY <2>1, <2>4, BecomesMoving
<1>7. ASSUME NEW rate \in {0, 1}, SetPlaybackRate(rate) PROVE VideoMoves(Now)'
  BY <1>7, SetPlaybackRateMoves
<1>8. ASSUME NEW t \in setup.changing, NEW track \in {"none", "current", "other"},
             ChangeTracks(t, track)
      PROVE  VideoMoves(Now)'
  BY <1>8, TracksMove, BecomesMoving DEF ChangeTracks
<1>. QED
  BY <1>2, <1>3, <1>4, <1>5, <1>6, <1>7, <1>8 DEF Calls

(* What the renderers do.                                                    *)
LEMMA WithMoves ==
  ASSUME NEW s, Shaped(s), NEW t \in Types, NEW c, t = "video" => Drawn(c)
  PROVE  LET v == With(s, t, c)
         IN  /\ Shaped(v) /\ v.r = s.r /\ v.tasks = s.tasks
             /\ Video(v) = IF t = "video" THEN c ELSE Video(s)
             /\ t = "audio" /\ VideoMoves(s) => VideoMoves(v)
<1>. DEFINE v == With(s, t, c)
<1>1. /\ v.r = s.r /\ v.tasks = s.tasks /\ {"r", "child", "tasks", "client"} \subseteq DOMAIN v
      /\ DOMAIN v.child = Types
      /\ Video(v) = IF t = "video" THEN c ELSE Video(s)
  BY DEF With, Shaped, Video, Types
<1>. HIDE DEF v
<1>2. Shaped(v)
  BY <1>1 DEF Shaped
<1>. QED
  BY <1>1, <1>2 DEF VideoMoves, Fills, Framed, Emptied, Sinks, Timed, v

LEMMA EnoughMoves ==
  ASSUME Lives, VideoMoves(Now), NEW t \in Types, NEW eos \in BOOLEAN, Enough(t, eos)
  PROVE  VideoMoves(Now)'
<1>. DEFINE over == t = "video" /\ eos /\ ~child[t].frames
            frames == t = "video" /\ (child[t].frames \/ ~eos)
            c == [child[t] EXCEPT !.buffering_state = "HAVE_ENOUGH", !.eos = eos,
                                  !.ended = over, !.frames = frames]
            x == With(Now, t, c)
            d == Task("Ended", t, "none")
            e == Task("BufferingStateChange", t, "HAVE_ENOUGH")
            y == IF over THEN Post(x, d) ELSE x
<1>1. Become(Post(y, e))
  <2>1. x = [Now EXCEPT !.child[t] =
               [@ EXCEPT !.buffering_state = "HAVE_ENOUGH", !.eos = eos, !.ended = over,
                         !.frames = t = "video" /\ (child[t].frames \/ ~eos)]]
    BY DEF With, Now
  <2>. HIDE DEF x
  <2>. QED
    BY <2>1 DEF Enough
<1>2. /\ child[t] \in Filled /\ child[t].state = "kPlaying"
      /\ child[t].buffering_state = "HAVE_NOTHING" /\ ~child[t].ended
  BY NowIs DEF Enough, Is, Filled
<1>3. t = "video" => /\ Drawn(c) /\ c.buffering_state = "HAVE_ENOUGH"
                     /\ (c.frames \/ c.ended) /\ c.state = "kPlaying"
  <2>1. over \in BOOLEAN /\ frames \in BOOLEAN /\ (t = "video" => over \/ frames)
    BY <1>2 DEF Filled, Child
  <2>. HIDE DEF over, frames
  <2>. QED
    BY <1>2, <2>1 DEF Filled, Child, Buffering, Drawn
<1>4. c.state = "kPlaying"
  BY <1>2 DEF Filled, Child
<1>. HIDE DEF c
<1>5. Shaped(Now)
  BY DEF VideoMoves, Fills
<1>6. /\ Shaped(x) /\ x.r = r /\ x.tasks = tasks
      /\ Video(x) = IF t = "video" THEN c ELSE Video(Now)
      /\ t = "audio" => VideoMoves(x)
  BY <1>3, <1>5, WithMoves, NowIs
<1>. HIDE DEF x
<1>7. t = "video" => VideoMoves(x)
  <2>. SUFFICES ASSUME t = "video" PROVE VideoMoves(x)
    OBVIOUS
  <2>1. Framed(x)
    BY <1>3, <1>6 DEF Framed
  <2>2. ~(r.state = "PLAYING" /\ r.pending_track_change["video"])
    BY <1>2, NowIs DEF VideoMoves, Fills, Emptied, Video
  <2>3. ASSUME Timed(x)
        PROVE  r.buffering_state["video"] = "HAVE_NOTHING" \/ Has(tasks, {Nothing})
    <3>1. Plays(Now) /\ HasOne(Now) /\ ~r.has["audio"] /\ r.state = "PLAYING"
      BY <1>6, <2>3, NowIs, OneIsPlayed DEF Timed, Fits
    <3>2. Known(Now, "video") /\ r.deferred # "waiting"
      BY <3>1, NowIs DEF Plays, Initialized, Serves, HasOne, Types
    <3>3. CASE Has(tasks, Reports("video"))
      BY <1>2, <3>2, <3>3, NowIs DEF Known, LastOf, Has, Nothing
    <3>4. CASE ~Has(tasks, Reports("video"))
      BY <1>2, <3>2, <3>4, NowIs DEF Known
    <3>. QED
      BY <3>3, <3>4
  <2>. QED
    BY <1>6, <2>1, <2>2, <2>3 DEF VideoMoves, Fills, Emptied, Sinks
<1>8. d \in Tasks /\ e \in Tasks
  BY DEF Task, Tasks, Buffering
<1>. HIDE DEF d, e
<1>9. VideoMoves(y) /\ Shaped(y)
  BY <1>6, <1>7, <1>8, PostMoves DEF Types
<1>. HIDE DEF y
<1>10. VideoMoves(Post(y, e))
  BY <1>8, <1>9, PostMoves
<1>. QED
  BY <1>1, <1>10, BecomesMoving

LEMMA RendersMoves ==
  ASSUME Lives, VideoMoves(Now), NEW t \in Types, Renders(t)
  PROVE  VideoMoves(Now)'
<1>1. Shaped(Now) /\ Framed(Now) /\ Emptied(Now) /\ child[t] \in Filled
  BY NowIs DEF VideoMoves, Fills
<1>2. ASSUME NEW f \in {"InitializeDone", "Reinitialized"}, NEW status \in {"ok", "error"}
      PROVE  Task(f, t, status) \in Tasks
  BY DEF Task, Tasks
<1>3. /\ Task("Ended", t, "none") \in Tasks /\ Task("HaveNothing", t, "none") \in Tasks
      /\ Task("Flushed", t, "none") \in Tasks /\ Task("Error", t, "none") \in Tasks
      /\ Task("BufferingStateChange", t, "HAVE_NOTHING") \in Tasks
  BY DEF Task, Tasks, Buffering
<1>. HIDE DEF Task
<1>4. ASSUME NEW status \in {"ok", "error"}, DecoderInitialized(t, status)
      PROVE  VideoMoves(Now)'
  <2>. DEFINE c == [child[t] EXCEPT !.state =
                      IF status = "ok" THEN "kFlushed" ELSE "kUninitialized"]
              x == [Now EXCEPT !.child = [Now.child EXCEPT ![t] = c]]
              f == IF child[t].then = "InitializeDone" THEN "InitializeDone" ELSE "Reinitialized"
  <2>1. Become(Post(x, Task(f, t, status)))
    <3>1. x = [Now EXCEPT !.child[t].state = IF status = "ok" THEN "kFlushed"
                                                               ELSE "kUninitialized"]
      BY DEF Now
    <3>. HIDE DEF x
    <3>. QED
      BY <1>4, <3>1 DEF DecoderInitialized
  <2>2. t = "video" => /\ Drawn(c) /\ c.buffering_state = Video(Now).buffering_state
                       /\ c.ended = Video(Now).ended /\ c.sink = Video(Now).sink
                       /\ c.frames = Video(Now).frames /\ c.state # "kPlaying"
    BY <1>1, NowIs DEF Filled, Child, Drawn, Video
  <2>. HIDE DEF c
  <2>3. Shaped(x) /\ VideoMoves(x)
    BY <1>1, <2>2, ChildStateMoves
  <2>4. Task(f, t, status) \in Tasks
    BY <1>2
  <2>. HIDE DEF x, f
  <2>5. VideoMoves(Post(x, Task(f, t, status)))
    BY <2>3, <2>4, PostMoves
  <2>. QED
    BY <2>1, <2>5, BecomesMoving
<1>5. ASSUME NEW eos \in BOOLEAN, Enough(t, eos) PROVE VideoMoves(Now)'
  BY <1>5, EnoughMoves
<1>6. ASSUME EndOfStream(t) PROVE VideoMoves(Now)'
  <2>. DEFINE c == [child[t] EXCEPT !.eos = TRUE]
              x == [Now EXCEPT !.child = [Now.child EXCEPT ![t] = c]]
  <2>1. Become(x)
    BY <1>6 DEF EndOfStream, Now
  <2>2. /\ t = "video" => /\ Drawn(c) /\ c.buffering_state = Video(Now).buffering_state
                          /\ c.ended = Video(Now).ended /\ c.sink = Video(Now).sink
                          /\ c.frames = Video(Now).frames
        /\ c.state = child[t].state /\ child[t].state = "kPlaying"
    BY <1>1, <1>6, NowIs DEF EndOfStream, Is, Filled, Child, Drawn, Video
  <2>. HIDE DEF c
  <2>3. VideoMoves(x)
    BY <1>1, <2>2, ChildStateMoves, NowIs DEF Emptied, Video
  <2>. QED
    BY <2>1, <2>3, BecomesMoving
<1>7. ASSUME RendersTheEnd(t) PROVE VideoMoves(Now)'
  <2>. DEFINE c == [child[t] EXCEPT !.ended = TRUE]
              x == With(Now, t, c)
  <2>1. Become(Post(x, Task("Ended", t, "none")))
    BY <1>7 DEF RendersTheEnd, With, Now
  <2>2. Drawn(c) /\ c.ended /\ c.state = child[t].state
        /\ c.buffering_state = child[t].buffering_state
    BY <1>1 DEF Filled, Child, Drawn
  <2>. HIDE DEF c
  <2>3. /\ Shaped(x) /\ x.r = r /\ x.tasks = tasks
        /\ Video(x) = IF t = "video" THEN c ELSE Video(Now)
        /\ t = "audio" => VideoMoves(x)
    BY <1>1, <2>2, WithMoves, NowIs
  <2>. HIDE DEF x
  <2>4. t = "video" => VideoMoves(x)
    BY <1>1, <2>2, <2>3, NowIs DEF VideoMoves, Fills, Framed, Emptied, Sinks, Video
  <2>. QED
    BY <1>3, <2>1, <2>3, <2>4, PostMoves, BecomesMoving DEF Types
<1>8. ASSUME Underflows(t) PROVE VideoMoves(Now)'
  <2>. DEFINE c == [child[t] EXCEPT !.buffering_state = "HAVE_NOTHING"]
              x == With(Now, t, c)
              e == Task("BufferingStateChange", t, "HAVE_NOTHING")
              d == Task("HaveNothing", t, "none")
  <2>1. (t = "audio" /\ Become(Post(x, e))) \/ Become(Post(Now, d))
    BY <1>8 DEF Underflows, With, Now
  <2>. HIDE DEF c
  <2>2. t = "audio" => Shaped(x) /\ VideoMoves(x)
    BY <1>1, WithMoves
  <2>. HIDE DEF x
  <2>3. t = "audio" => VideoMoves(Post(x, e))
    BY <1>3, <2>2, PostMoves
  <2>4. VideoMoves(Post(Now, d))
    BY <1>1, <1>3, PostMoves
  <2>. QED
    BY <2>1, <2>3, <2>4, BecomesMoving
<1>9. ASSUME DecoderReset(t) PROVE VideoMoves(Now)'
  <2>. DEFINE c == [child[t] EXCEPT !.state = "kFlushed", !.eos = FALSE, !.ended = FALSE,
                               !.buffering_state = "HAVE_NOTHING"]
              x == With(Now, t, c)
              e == Task("BufferingStateChange", t, "HAVE_NOTHING")
              d == Task("Flushed", t, "none")
              y == IF child[t].buffering_state = "HAVE_NOTHING" THEN x ELSE Post(x, e)
  <2>1. Become(Post(y, d))
    <3>1. x = [Now EXCEPT !.child[t] = [@ EXCEPT !.state = "kFlushed", !.eos = FALSE,
                                          !.ended = FALSE, !.buffering_state = "HAVE_NOTHING"]]
      BY DEF With, Now
    <3>. HIDE DEF x
    <3>. QED
      BY <1>9, <3>1 DEF DecoderReset
  <2>2. Drawn(c) /\ c.buffering_state = "HAVE_NOTHING" /\ c.state # "kPlaying"
    BY <1>1 DEF Filled, Child, Drawn, Buffering
  <2>. HIDE DEF c
  <2>3. /\ Shaped(x) /\ x.r = r /\ x.tasks = tasks
        /\ Video(x) = IF t = "video" THEN c ELSE Video(Now)
        /\ t = "audio" => VideoMoves(x)
    BY <1>1, <2>2, WithMoves, NowIs
  <2>. HIDE DEF x
  <2>4. t = "video" => VideoMoves(x)
    BY <2>2, <2>3 DEF VideoMoves, Fills, Framed, Emptied, Sinks
  <2>5. VideoMoves(y) /\ Shaped(y)
    BY <1>3, <2>3, <2>4, PostMoves DEF Types
  <2>. HIDE DEF y
  <2>6. VideoMoves(Post(y, d))
    BY <1>3, <2>5, PostMoves
  <2>. QED
    BY <2>1, <2>6, BecomesMoving
<1>10. ASSUME Fails(t) PROVE VideoMoves(Now)'
  <2>1. Become(Post(Now, Task("Error", t, "none"))) \/ Become(OnError(Now))
    BY <1>10 DEF Fails
  <2>2. VideoMoves(Post(Now, Task("Error", t, "none")))
    BY <1>1, <1>3, PostMoves
  <2>. QED
    BY <2>1, <2>2, OnErrorMoves, BecomesMoving
<1>. QED
  BY <1>4, <1>5, <1>6, <1>7, <1>8, <1>9, <1>10 DEF Renders

(* Where the audio renderer hangs is nothing to the video.                  *)
LEMMA HangingMoves ==
  ASSUME NEW s, VideoMoves(s), NEW op
  PROVE  VideoMoves([s EXCEPT !.child["audio"].state = "hung", !.client.op = op])
<1>. DEFINE d == [s.child["audio"] EXCEPT !.state = "hung"]
            x == With(s, "audio", d)
            v == [s EXCEPT !.child["audio"].state = "hung", !.client.op = op]
<1>1. Shaped(s)
  BY DEF VideoMoves, Fills
<1>2. v.r = x.r /\ v.child = x.child /\ v.tasks = x.tasks
      /\ {"r", "child", "tasks", "client"} \subseteq DOMAIN v
  BY <1>1 DEF With, Shaped
<1>. HIDE DEF d
<1>3. Shaped(x) /\ VideoMoves(x)
  BY <1>1, WithMoves DEF Types
<1>. HIDE DEF x, v
<1>4. VideoMoves(v)
  BY <1>2, <1>3, SameMoves
<1>. QED
  BY <1>4 DEF v

LEMMA StepMoves ==
  ASSUME Lives, VideoMoves(Now), Next
  PROVE  VideoMoves(Now)'
<1>1. Shaped(Now) /\ Framed(Now) /\ Emptied(Now) /\ HasOne(Now) /\ Fills(Now)
  BY NowIs, OneIsPlayed DEF VideoMoves, Fills
<1>2. CASE Calls
  <2>1. setup.changing \subseteq Types
    BY NowIs DEF RendererAssumption, Setup
  <2>. QED
    BY <1>2, <2>1, CallsMove DEF Next
<1>3. ASSUME NEW t \in Types, Renders(t) PROVE VideoMoves(Now)'
  BY <1>3, RendersMoves
<1>4. CASE FrameArrives
  <2>. DEFINE c == [child["video"] EXCEPT !.frames = TRUE]
              x == With(Now, "video", c)
  <2>1. Become(x)
    BY <1>4 DEF FrameArrives, With, Now
  <2>2. /\ Drawn(c) /\ c.state = child["video"].state
        /\ c.buffering_state = "HAVE_NOTHING" /\ child["video"].buffering_state = "HAVE_NOTHING"
    BY <1>1, <1>4, NowIs DEF FrameArrives, Shaped, Drawn, Video
  <2>. HIDE DEF c
  <2>3. Shaped(x) /\ x.r = r /\ x.tasks = tasks /\ Video(x) = c
    BY <1>1, <2>2, WithMoves, NowIs DEF Types
  <2>. HIDE DEF x
  <2>4. VideoMoves(x)
    BY <1>1, <2>2, <2>3, NowIs DEF VideoMoves, Fills, Framed, Emptied, Sinks, Video
  <2>. QED
    BY <2>1, <2>4, BecomesMoving
<1>5. CASE FailsFlushing
  <2>. DEFINE c == [child["audio"] EXCEPT !.state = "kFlushed"]
              s == With(Now, "audio", c)
              x == OnError(s)
  <2>1. Become(OnAudioFlushedLocked(x))
    BY <1>5 DEF FailsFlushing, With, Now
  <2>. HIDE DEF c
  <2>2. VideoMoves(s)
    BY <1>1, WithMoves DEF Types
  <2>. HIDE DEF s
  <2>3. VideoMoves(x)
    BY <2>2, OnErrorMoves
  <2>. HIDE DEF x
  <2>4. VideoMoves(OnChildFlushed(x, "audio"))
    BY <2>3, ChildFlushedMoves DEF Types, Drained
  <2>5. VideoMoves(OnAudioFlushedLocked(x))
    BY <2>4, HangingMoves DEF OnAudioFlushedLocked
  <2>. QED
    BY <2>1, <2>5, BecomesMoving
<1>6. CASE DeferredUnderflow
  <2>. DEFINE m == [r EXCEPT !.deferred = "run"]
              s == [Now EXCEPT !.r = m]
  <2>1. Become(OnBufferingStateChange(s, "video", "HAVE_NOTHING"))
    BY <1>6, NowIs DEF DeferredUnderflow, Now
  <2>2. /\ m \in Members /\ m.state = r.state /\ m.has = r.has
        /\ m.buffering_state = r.buffering_state /\ m.ended = r.ended
        /\ m.pending_track_change = r.pending_track_change
    BY NowIs DEF Members
  <2>3. {"state", "has", "buffering_state", "pending_track_change", "ended", "playing",
         "time_ticking", "playback_rate"} \subseteq DOMAIN m
    BY NowIs DEF Members
  <2>. HIDE DEF m
  <2>4. s \in State
    BY <2>2, NowIs DEF State
  <2>5. Fills(s) /\ s.r = m
    BY <1>1, <2>2, <2>3, ClockMembers, NowIs
  <2>. HIDE DEF s
  <2>6. HasOne(s)
    BY <1>1, <2>2, <2>5, NowIs DEF HasOne
  <2>7. VideoMoves(OnBufferingStateChange(s, "video", "HAVE_NOTHING"))
    BY <2>4, <2>5, <2>6, BufferingMoves DEF Types, Buffering
  <2>. QED
    BY <2>1, <2>7, BecomesMoving
<1>7. CASE RunTask
  <2>. DEFINE s == [Now EXCEPT !.tasks = Tail(tasks)]
  <2>1. tasks # << >>
    BY <1>7 DEF RunTask
  <2>2. PICK v \in Outcomes(s, Head(tasks)) : Become(v)
    BY <1>7 DEF RunTask
  <2>3. Took(s, Now, Head(tasks)) /\ Head(tasks) \in Tasks
    BY <2>1, TaskTaken
  <2>. HIDE DEF s
  <2>4. VideoMoves(v)
    BY <2>2, <2>3, NowIs, OutcomeMoves
  <2>. QED
    BY <2>2, <2>4, BecomesMoving
<1>. QED
  BY <1>2, <1>3, <1>4, <1>5, <1>6, <1>7 DEF Next, Steps

LEMMA InitMoves ==
  ASSUME Init
  PROVE  VideoMoves(Now)
<1>1. Lives
  BY InitFits
<1>2. Shaped(Now)
  BY <1>1, NowIs, ShapedState
<1>3. r.state # "PLAYING" /\ child["video"].buffering_state = "HAVE_NOTHING"
  BY DEF Init, NewChild, Types
<1>. QED
  BY <1>1, <1>2, <1>3, NowIs, HaltedMoves DEF Framed, Video

(* When there is no audio, for whose sake its underflows are deferred, the    *)
(* video moves with the time: what OnTimeProgressing() finds no frames for is *)
(* started by the HAVE_ENOUGH that is in flight then, whatever comes between. *)
THEOREM VideoKeepsMoving == Spec => []VideoMovesWithTime
<1>. DEFINE J == (Lives /\ VideoMoves(Now)) \/ Gone
<1>1. Init => J
  BY InitFits, InitMoves
<1>2. J /\ [Next]_<<vars, setup>> => J'
  <2>1. ASSUME Lives, VideoMoves(Now), Next PROVE J'
    BY <2>1, StepMoves, StepKeeps DEF IInv
  <2>2. ASSUME Gone, Next PROVE FALSE
    BY <2>2, NothingFollows DEF Next
  <2>3. ASSUME J, UNCHANGED <<vars, setup>> PROVE J'
    <3>1. IInv'
      BY <2>3, IdleKeeps DEF IInv
    <3>2. ASSUME Lives, VideoMoves(Now) PROVE VideoMoves(Now)'
      <4>1. Become(Now)
        BY <2>3, <3>2, NowIs DEF Become, vars
      <4>. QED
        BY <3>2, <4>1, BecomesMoving
    <3>3. ASSUME Gone PROVE Gone'
      <4>1. Now' = Now /\ UNCHANGED <<r, child, tasks, client, spent, setup>>
        BY <2>3 DEF Now, vars
      <4>. QED
        BY <3>3, <4>1 DEF Gone, Bounded
    <3>. QED
      BY <2>3, <3>1, <3>2, <3>3 DEF IInv
  <2>. QED
    BY <2>1, <2>2, <2>3
<1>3. J => VideoMovesWithTime
  <2>. SUFFICES ASSUME Lives, VideoMoves(Now), Playing, tasks = << >>, r.time_ticking,
                       r.playback_rate > 0, ~r.has["audio"],
                       child["video"].buffering_state = "HAVE_ENOUGH"
                PROVE  child["video"].sink \/ child["video"].ended
    BY DEF VideoMovesWithTime, Gone, Playing
  <2>1. \A T : ~Has(tasks, T)
    BY EmptyQueue
  <2>2. r.state = "PLAYING" /\ HasOne(Now)
    BY NowIs, OneIsPlayed DEF Playing
  <2>3. Known(Now, "video")
    BY <2>2, NowIs DEF Fits, Plays, Initialized, Serves, HasOne, Types
  <2>4. r.buffering_state["video"] = "HAVE_ENOUGH"
    BY <2>1, <2>2, <2>3, NowIs DEF Known
  <2>. QED
    BY <2>1, <2>2, <2>4, NowIs DEF VideoMoves, Sinks, Timed, Video
<1>. HIDE DEF J
<1>. QED
  BY <1>1, <1>2, <1>3, PTL DEF Spec
=============================================================================
