---------------------------- MODULE ChunkDemuxer ----------------------------
(* ChunkDemuxer and its ChunkDemuxerStreams (filters/chunk_demuxer.cc) over  *)
(* SourceBufferStream: the page appends, removes and evicts frames, ends the *)
(* stream and takes sources away on the main thread, where the player also   *)
(* announces and cancels seeks, while the pipeline seeks and the renderer    *)
(* reads on the media thread.  Each call holds the demuxer's lock.           *)
EXTENDS SourceBufferStream

CONSTANT Setups  (* what a run does: [streams, and how many of each request] *)

(* duration_ of a presentation whose sources do not tell it.                 *)
kInfiniteDuration == 1000

VARIABLES
  setup,
  (* ChunkDemuxer: source_state_map_ has one source for each stream in ids.  *)
  state, ids, seek_cb, cancel_next_seek,
  (* ChunkDemuxerStream: its buffer, state_, read_cb_.                       *)
  buffer, stream_state, read_cb,
  (* The player: PipelineController on the main thread, the pipeline on the  *)
  (* media thread, and the calls posted from one to the other.               *)
  target, pending, waiting, pipe, seek_posted, done_posted,
  (* The page: the next frame [t, gop] of the coded frame group it sends to  *)
  (* a stream, the frames it has been granted room for, and how many         *)
  (* requests of each kind it may still make.                                *)
  sending, granted, left,
  (* What is observed: the last frame given since the decoder was flushed,   *)
  (* whether a removal took the last source a seek was waiting for, and      *)
  (* whether the demuxer's CHECKs and DCHECKs have held.                     *)
  fed, orphaned, ok

demuxer == << state, ids, seek_cb, cancel_next_seek, buffer, stream_state, read_cb >>
player == << target, pending, waiting, pipe, seek_posted, done_posted >>
page == << sending, granted, left >>
vars == << setup, demuxer, player, page, fed, orphaned, ok >>

Streams == setup.streams
NoFrame == [t |-> None, key |-> FALSE, gop |-> 0]
Requests == {"seeks", "appends", "removes", "ends", "errors", "removed_sources", "stops"}

May(request) == left[request] > 0
Uses(request) == left' = [left EXCEPT ![request] = @ - 1]

(* A seek waits for data while it is pending in a stream of any source.      *)
IsSeekWaitingForData(buffers, sources) == \E s \in sources : IsSeekPending(buffers[s])

(* RunSeekCB: the callback is posted; the pipeline finds seek_cb cleared.    *)
FinishSeekUnlessWaiting(buffers) ==
  seek_cb' = (seek_cb /\ ~(/\ IsSeekWaitingForData(buffer, ids)
                           /\ ~IsSeekWaitingForData(buffers, ids)))

(**************************************************************************)
(*                          ChunkDemuxerStream                            *)
(**************************************************************************)
(* Defect: a read that waits is not told of the end of the stream.           *)
CompletePendingReadIfPossible_NoEnd(b, mode, reads) ==
  LET gives == reads /\ mode = "data" /\ NextBuffer(b) # << >>
  IN [b |-> IF gives THEN GiveNextBuffer(b) ELSE b,
      reads |-> reads /\ mode = "data" /\ ~gives,
      frame |-> IF gives THEN NextBuffer(b) ELSE << >>]

(* What the read that waits, if one does, gets of a stream.                  *)
CompletePendingReadIfPossible(b, mode, reads) ==
  LET still == [b |-> b, reads |-> reads, frame |-> << >>]
      answered == [still EXCEPT !.reads = FALSE]
  IN CASE ~reads -> still
       [] mode # "data" -> answered
       [] NextBuffer(b) # << >> ->
            [b |-> GiveNextBuffer(b), reads |-> FALSE, frame |-> NextBuffer(b)]
       [] IsEndOfStreamReached(b) -> answered
       [] OTHER -> still

(* The streams are left as they are in buffers, then some reads complete.    *)
CompleteReads(buffers, reads, S) ==
  LET result == [s \in Streams |->
                   CompletePendingReadIfPossible(buffers[s], stream_state[s], reads[s] /\ s \in S)]
  IN /\ buffer' = [s \in Streams |-> result[s].b]
     /\ read_cb' = [s \in Streams |-> IF s \in S THEN result[s].reads ELSE reads[s]]
     /\ fed' = [s \in Streams |-> IF result[s].frame = << >> THEN fed[s] ELSE result[s].frame[1]]

(* AbortReads, Shutdown: a read that waits is answered, by abort or by end.  *)
Become(mode, S) ==
  /\ stream_state' = [s \in Streams |-> IF s \in S THEN mode ELSE stream_state[s]]
  /\ read_cb' = [s \in Streams |-> read_cb[s] /\ s \notin S]

SeekAllSources(t) == [s \in Streams |-> IF s \in ids THEN Seek(buffer[s], t) ELSE buffer[s]]

(* The renderer asks for a frame.                                            *)
Read(s) ==
  /\ pipe = "playing" /\ ~read_cb[s]
  /\ CompleteReads(buffer, [read_cb EXCEPT ![s] = TRUE], {s})
  /\ UNCHANGED << setup, state, ids, seek_cb, cancel_next_seek, stream_state,
                  player, page, orphaned, ok >>

(**************************************************************************)
(*                 Seeking: main thread and media thread                  *)
(**************************************************************************)
StartWaitingForSeek(t) ==
  /\ ok' = (ok /\ ~seek_cb)
  /\ IF state \in {"SHUTDOWN", "PARSE_ERROR"}
     THEN UNCHANGED << stream_state, read_cb, buffer, cancel_next_seek >>
     ELSE /\ Become("abort", ids)
          /\ buffer' = SeekAllSources(t)
          /\ cancel_next_seek' = FALSE
  /\ UNCHANGED << state, ids, seek_cb >>

(* Defect: a seek is cancelled, yet still waits for the data it was for.     *)
CancelPendingSeek_StillWaits(t) ==
  /\ ok' = (ok /\ (seek_cb => IsSeekWaitingForData(buffer, ids) \/ orphaned))
  /\ Become("abort", ids) /\ buffer' = SeekAllSources(t)
  /\ cancel_next_seek' = ~seek_cb
  /\ UNCHANGED << state, ids, seek_cb >>

CancelPendingSeek(t) ==
  /\ ok' = (ok /\ (seek_cb => IsSeekWaitingForData(buffer, ids) \/ orphaned))
  /\ IF cancel_next_seek THEN UNCHANGED << stream_state, read_cb, buffer >>
     ELSE Become("abort", ids) /\ buffer' = SeekAllSources(t)
  /\ cancel_next_seek' = (cancel_next_seek \/ ~seek_cb)
  /\ seek_cb' = (seek_cb /\ cancel_next_seek)
  /\ UNCHANGED << state, ids >>

(* The player tells the demuxer of a seek, then posts it to the pipeline.    *)
AnnounceSeek(t) ==
  /\ StartWaitingForSeek(t)
  /\ target' = t /\ waiting' = TRUE /\ seek_posted' = TRUE

(* A seek during a seek cancels that one, at most once.                      *)
RequestSeek(t) ==
  /\ May("seeks") /\ Uses("seeks") /\ pipe # "stopped"
  /\ \/ target = None /\ AnnounceSeek(t) /\ UNCHANGED pending
     \/ /\ target # None /\ waiting
        /\ CancelPendingSeek(t)
        /\ pending' = t /\ waiting' = FALSE /\ UNCHANGED << target, seek_posted >>
     \/ /\ target # None /\ ~waiting
        /\ pending' = t
        /\ UNCHANGED << demuxer, ok, target, waiting, seek_posted >>
  /\ UNCHANGED << setup, pipe, done_posted, sending, granted, fed, orphaned >>

(* The pipeline has seeked.                                                  *)
OnPipelineStatus ==
  /\ done_posted /\ done_posted' = FALSE
  /\ \/ pending = None /\ target' = None /\ waiting' = FALSE
        /\ UNCHANGED << demuxer, ok, pending, seek_posted >>
     \/ pending # None /\ AnnounceSeek(pending) /\ pending' = None
  /\ UNCHANGED << setup, pipe, page, fed, orphaned >>

(* PipelineImpl: reads are aborted, the renderer is flushed, which takes the *)
(* answer to every read, and then the demuxer is asked to seek.              *)
AbortPendingReads ==
  /\ seek_posted /\ pipe = "playing"
  /\ IF state \in {"SHUTDOWN", "PARSE_ERROR"} THEN UNCHANGED << stream_state, read_cb >>
     ELSE Become("abort", ids)
  /\ seek_posted' = FALSE /\ pipe' = "flushing"
  /\ UNCHANGED << setup, state, ids, seek_cb, cancel_next_seek, buffer,
                  target, pending, waiting, done_posted, page, fed, orphaned, ok >>

SeekDemuxer ==
  /\ pipe = "flushing" /\ \A s \in Streams : ~read_cb[s]
  /\ fed' = [s \in Streams |-> NoFrame]
  /\ orphaned' = FALSE
  /\ \/ /\ state \notin {"INITIALIZED", "ENDED"}
        /\ pipe' = "stopped"
        /\ UNCHANGED << buffer, stream_state, seek_cb, cancel_next_seek, ok >>
     \/ /\ state \in {"INITIALIZED", "ENDED"} /\ cancel_next_seek
        /\ cancel_next_seek' = FALSE /\ pipe' = "seeking"
        /\ UNCHANGED << buffer, stream_state, seek_cb, ok >>
     \/ /\ state \in {"INITIALIZED", "ENDED"} /\ ~cancel_next_seek
        /\ buffer' = SeekAllSources(target)
        /\ stream_state' = [s \in Streams |-> IF s \in ids THEN "data" ELSE stream_state[s]]
        /\ seek_cb' = IsSeekWaitingForData(buffer', ids)
        /\ ok' = (ok /\ ~seek_cb /\ \A s \in ids : stream_state[s] = "abort")
        /\ pipe' = "seeking"
        /\ UNCHANGED cancel_next_seek
  /\ UNCHANGED << setup, state, ids, read_cb, target, pending, waiting,
                  seek_posted, done_posted, page >>

(* The callback arrives: the renderer plays again and the player is told.    *)
CompleteSeek ==
  /\ pipe = "seeking" /\ ~seek_cb
  /\ pipe' = IF state = "PARSE_ERROR" THEN "stopped" ELSE "playing"
  /\ done_posted' = (state # "PARSE_ERROR")
  /\ UNCHANGED << setup, demuxer, target, pending, waiting, seek_posted, page, fed, orphaned, ok >>

(**************************************************************************)
(*                     The page, on the main thread                       *)
(**************************************************************************)
(* currentTime: where the player seeks to, or else has played to.            *)
CurrentTime ==
  IF pending # None THEN pending ELSE IF target # None THEN target
  ELSE Max({0} \union {buffer[s].output : s \in ids})

Idle(s) == s \in ids /\ granted[s] = 0

(* appendBuffer() first asks for room.                                       *)
EvictCodedFrames(s, n) ==
  /\ Idle(s) /\ state = "INITIALIZED" /\ May("appends") /\ Uses("appends")
  /\ \E collected \in {GarbageCollectIfNeeded(buffer[s], CurrentTime, n)} :
       /\ buffer' = [buffer EXCEPT ![s] = collected.b]
       /\ granted' = [granted EXCEPT ![s] = IF collected.fits THEN n ELSE 0]
  /\ UNCHANGED << setup, state, ids, seek_cb, cancel_next_seek, stream_state, read_cb,
                  player, sending, fed, orphaned, ok >>

(* n frames from time t on: all but the first depend on the one before, and  *)
(* that one too unless it is a key frame.                                    *)
FramesFrom(t, n, key, gop) ==
  [i \in 1..n |-> [t |-> t + (i - 1) * Duration, key |-> key /\ i = 1, gop |-> gop]]

AppendsTo(s, before, q) ==
  LET buffers == [buffer EXCEPT ![s] = AppendQueue(before, q)]
  IN /\ sending' = [sending EXCEPT ![s] = [t |-> Last(q).t + Duration, gop |-> Last(q).gop]]
     /\ granted' = [granted EXCEPT ![s] = 0]
     /\ CompleteReads(buffers, read_cb, {s})
     /\ FinishSeekUnlessWaiting(buffer')
     /\ UNCHANGED << setup, state, ids, cancel_next_seek, stream_state,
                     player, left, orphaned, ok >>

(* AppendData: a group of frames, or the next frames of the one before.  (A  *)
(* group that does not follow the one before starts at a distance from it.)  *)
StartGroup(s, t) ==
  /\ s \in ids /\ granted[s] > 0 /\ state = "INITIALIZED"
  /\ sending[s].t # None => t - sending[s].t \notin 1..Duration
  /\ AppendsTo(s, OnStartOfCodedFrameGroup(buffer[s], t),
               FramesFrom(t, granted[s], TRUE, sending[s].gop + 1))

ContinueGroup(s, key) ==
  /\ s \in ids /\ granted[s] > 0 /\ state = "INITIALIZED" /\ sending[s].t \in setup.times
  /\ AppendsTo(s, buffer[s], FramesFrom(sending[s].t, granted[s], key,
                                        IF key THEN sending[s].gop + 1 ELSE sending[s].gop))

RemoveFrames(s, interval) ==
  /\ Idle(s) /\ state = "INITIALIZED" /\ May("removes") /\ Uses("removes")
  /\ buffer' = [buffer EXCEPT ![s] = RemoveInterval(@, interval[1], interval[2], kInfiniteDuration)]
  /\ UNCHANGED << setup, state, ids, seek_cb, cancel_next_seek, stream_state, read_cb,
                  player, sending, granted, fed, orphaned, ok >>

MarkEndOfStream ==
  /\ state = "INITIALIZED" /\ May("ends") /\ Uses("ends") /\ \A s \in ids : granted[s] = 0
  /\ state' = "ENDED"
  /\ CompleteReads([s \in Streams |-> [buffer[s] EXCEPT !.eos = @ \/ s \in ids]], read_cb, ids)
  /\ FinishSeekUnlessWaiting(buffer')
  /\ UNCHANGED << setup, ids, cancel_next_seek, stream_state,
                  player, sending, granted, orphaned, ok >>

UnmarkEndOfStream ==
  /\ state = "ENDED"
  /\ state' = "INITIALIZED"
  /\ buffer' = [s \in Streams |-> [buffer[s] EXCEPT !.eos = @ /\ s \notin ids]]
  /\ UNCHANGED << setup, ids, seek_cb, cancel_next_seek, stream_state, read_cb,
                  player, page, fed, orphaned, ok >>

(* ReportError_Locked: an append cannot be parsed, or the stream is ended    *)
(* because of an error.                                                      *)
ReportError ==
  /\ state = "INITIALIZED" /\ May("errors") /\ Uses("errors")
  /\ state' = "PARSE_ERROR"
  /\ Become("shutdown", ids)
  /\ seek_cb' = FALSE
  /\ UNCHANGED << setup, ids, cancel_next_seek, buffer, player, sending, granted, fed,
                  orphaned, ok >>

(* The source is destroyed, which shuts its stream down.                     *)
RemoveId(s) ==
  /\ s \in ids /\ May("removed_sources") /\ Uses("removed_sources")
  /\ ids' = ids \ {s}
  /\ Become("shutdown", {s})
  /\ orphaned' = (seek_cb /\ ~IsSeekWaitingForData(buffer, ids'))
  /\ UNCHANGED << setup, state, seek_cb, cancel_next_seek, buffer, player, sending, granted,
                  fed, ok >>

(* Shutdown, when the player is destroyed.                                   *)
Stop ==
  /\ pipe # "stopped" /\ May("stops") /\ Uses("stops")
  /\ state' = "SHUTDOWN" /\ pipe' = "stopped"
  /\ Become("shutdown", ids)
  /\ seek_cb' = FALSE
  /\ UNCHANGED << setup, ids, cancel_next_seek, buffer, target, pending, waiting,
                  seek_posted, done_posted, sending, granted, fed, orphaned, ok >>

(**************************************************************************)
(*                           Specification                                *)
(**************************************************************************)
(* After OnSourceInitDone(): every source has parsed its first segment, the  *)
(* streams have been seeked to the start and return data.                    *)
Init ==
  /\ setup \in Setups
  /\ state = "INITIALIZED" /\ ids = Streams
  /\ seek_cb = FALSE /\ cancel_next_seek = FALSE
  /\ buffer = [s \in Streams |-> Seek(EmptyStream, 0)]
  /\ stream_state = [s \in Streams |-> "data"]
  /\ read_cb = [s \in Streams |-> FALSE]
  /\ target = None /\ pending = None /\ waiting = FALSE
  /\ pipe = "playing" /\ seek_posted = FALSE /\ done_posted = FALSE
  /\ sending = [s \in Streams |-> [t |-> None, gop |-> 0]]
  /\ granted = [s \in Streams |-> 0]
  /\ left = setup.requests
  /\ fed = [s \in Streams |-> NoFrame]
  /\ orphaned = FALSE /\ ok = TRUE

Next ==
  \/ \E t \in setup.times : RequestSeek(t)
  \/ OnPipelineStatus
  \/ AbortPendingReads
  \/ SeekDemuxer
  \/ CompleteSeek
  \/ MarkEndOfStream
  \/ UnmarkEndOfStream
  \/ ReportError
  \/ Stop
  \/ \E s \in Streams :
       \/ Read(s)
       \/ \E n \in 1..setup.burst : EvictCodedFrames(s, n)
       \/ \E t \in setup.times : StartGroup(s, t)
       \/ \E key \in BOOLEAN : ContinueGroup(s, key)
       \/ \E interval \in setup.intervals : RemoveFrames(s, interval)
       \/ RemoveId(s)

Spec == Init /\ [][Next]_vars

(**************************************************************************)
(*                             Properties                                 *)
(**************************************************************************)
(* Ranges are sorted and apart, start with a key frame and hold frames in    *)
(* order; at most one of them is read and one appended to; frames of the     *)
(* track buffer are read when no range is.                                   *)
WellFormed(b) ==
  /\ \A i \in DOMAIN b.ranges :
       LET r == b.ranges[i]
       IN /\ r.frames # << >> /\ r.frames[1].key
          /\ StartOf(r) <= r.frames[1].t
          /\ \A j \in 2..Len(r.frames) : r.frames[j - 1].t < r.frames[j].t
          /\ r.next \in 0..(Len(r.frames) + 1)
          /\ i > 1 => BufferedEnd(b.ranges[i - 1]) <= StartOf(r)
  /\ Cardinality(Selected(b)) <= 1
  /\ Cardinality(ForNextAppend(b)) <= 1
  /\ b.track_buffer # << >> => Selected(b) = {}
  /\ b.seek_pending => b.track_buffer = << >> /\ Selected(b) = {}
  /\ b.deleted = << >>

TypeOK ==
  /\ state \in {"INITIALIZED", "ENDED", "PARSE_ERROR", "SHUTDOWN"} /\ ids \subseteq Streams
  /\ pipe \in {"playing", "flushing", "seeking", "stopped"}
  /\ \A s \in Streams : stream_state[s] \in {"data", "abort", "shutdown"}
  /\ \A s \in Streams : WellFormed(buffer[s])
  /\ \A request \in Requests : left[request] \in Nat

(* No CHECK or DCHECK of the demuxer or of a stream fails, whichever way the *)
(* calls of the two threads fall: a seek finds the streams aborted and no    *)
(* other seek, a cancelled seek is one that waits, an append fits its range, *)
(* removal saves the frames at the play position from one range only.  (The  *)
(* check of SourceBufferRangeByDts::Seek() does not: see NeverSeeksBack.)    *)
ChecksHold == ok /\ \A s \in Streams : buffer[s].ok

(* What the decoder is given it can decode: a key frame later than what it   *)
(* was given before, or the frame that follows the last one it was given, of *)
(* the same key frame, however the data was overwritten or evicted around    *)
(* the play position.  (Once the page has removed frames, see NeverSeeksBack.) *)
OutputIsDecodable ==
  [][\A s \in Streams :
       fed'[s] \notin {fed[s], NoFrame} =>
         \/ fed'[s].key /\ (fed'[s].t > fed[s].t \/ left.removes < setup.requests.removes)
         \/ fed'[s].t = fed[s].t + Duration /\ fed'[s].gop = fed[s].gop]_vars

(* A stream whose position was removed goes on at a key frame after the last *)
(* frame it has given, as SetSelectedRangeIfNeeded() promises: it does not   *)
(* give again what it has given before.                                      *)
NeverSeeksBack ==
  [][\A s \in Streams : fed'[s] \notin {fed[s], NoFrame} => fed'[s].t > fed[s].t]_vars

(* The answer to a seek is held back only while a stream has no data for it, *)
(* so that the next append can complete it.  (The one exception is a source  *)
(* that is removed while it is the last one waited for.)                     *)
SeekWaitsForData == seek_cb => orphaned \/ IsSeekWaitingForData(buffer, ids)

(* A read is held back only if there is nothing to give and the end is not   *)
(* reached, and whatever a later append, removal or end of stream changes is *)
(* offered to it.  (Only room for an append is made without asking: joining  *)
(* what a removal has split, it may leave a frame to be given by the next.)  *)
ReadsWaitForData ==
  [][\A s \in Streams :
       read_cb'[s] =>
         /\ stream_state'[s] = "data"
         /\ \/ read_cb[s] /\ (buffer'[s] = buffer[s] \/ left'.appends < left.appends)
            \/ NextBuffer(buffer'[s]) = << >> /\ ~IsEndOfStreamReached(buffer'[s])]_vars

(* Nothing is given of where the player was once a seek is announced, and    *)
(* the first frame after it is a key frame no later than the time sought,    *)
(* within the room for gaps.                                                 *)
StartsAtSeek ==
  [][\A s \in Streams :
       fed'[s] \notin {fed[s], NoFrame} =>
         /\ ~seek_posted /\ pipe # "flushing"
         /\ fed[s] = NoFrame =>
              /\ fed'[s].key
              /\ \/ fed'[s].t <= buffer[s].seek_time + FudgeRoom
                 \/ fed'[s].t < kSeekToStartFudgeRoom + Duration]_vars

(* What the page is granted room for fits in the ranges.  (The few frames    *)
(* kept in the track buffer are not counted.)                                *)
MemoryIsBounded ==
  \A s \in Streams : Total(buffer[s]) + granted[s] <= memory_limit
===============================================================================
