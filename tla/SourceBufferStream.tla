-------------------------- MODULE SourceBufferStream --------------------------
(* SourceBufferStream<SourceBufferRangeByDts> of filters/, the buffered      *)
(* frames of one video track of a Media Source: where appended data goes,    *)
(* what it replaces, what is read next, what is removed.  Every operation is *)
(* an operator from the stream before it to the stream after it.  (The       *)
(* buffering by presentation time agrees with this one on frames that are    *)
(* decoded in the order of presentation, as these are.)                      *)
EXTENDS Integers, Sequences, FiniteSets, SequencesExt

CONSTANTS
  memory_limit,          (* in frames: they all have the same size            *)
  kSeekToStartFudgeRoom

ASSUME StreamAssumption == memory_limit \in Nat \ {0} /\ kSeekToStartFudgeRoom \in Nat

(* A frame lasts two units of time; a microsecond is the odd unit between.   *)
Duration == 2
MaxInterbufferDistance == Duration
FudgeRoom == 2 * MaxInterbufferDistance
None == -1

(* Frames [t, key, gop]: the number of the key frame a frame depends on.     *)
(* Ranges: start is range_start_time or None, next the index of the next     *)
(* frame to read in the selected range and 0 elsewhere, append marks         *)
(* range_for_next_append_.                                                   *)
RangeNew(start, frames) == [start |-> start, frames |-> frames, next |-> 0, append |-> FALSE]

(* last_... and highest are of the append sequence, output is                *)
(* highest_output_buffer_timestamp_.  ok: no CHECK or DCHECK has failed.     *)
EmptyStream ==
  [ranges |-> << >>, track_buffer |-> << >>, deleted |-> << >>,
   seek_pending |-> FALSE, seek_time |-> None, output |-> None, exhausted |-> FALSE,
   new_group |-> FALSE, group_start |-> None,
   last |-> None, last_key |-> FALSE, highest |-> None, eos |-> FALSE, ok |-> TRUE]

Checked(b, condition) == [b EXCEPT !.ok = @ /\ condition]

(* One range, or two that lie side by side, become others.                   *)
Replace(b, first, last, by) ==
  [b EXCEPT !.ranges = SubSeq(@, 1, first - 1) \o by \o SubSeq(@, last + 1, Len(@))]

(**************************************************************************)
(*                           SourceBufferRange                            *)
(**************************************************************************)
StartOf(r) == IF r.start = None THEN r.frames[1].t ELSE r.start
EndOf(r) == Last(r.frames).t
BufferedEnd(r) == EndOf(r) + Duration

IsNextInDecodeSequence(r, t) == EndOf(r) <= t /\ t <= EndOf(r) + FudgeRoom
BelongsToRange(r, t) ==
  IsNextInDecodeSequence(r, t) \/ (StartOf(r) <= t /\ t <= EndOf(r))

Keys(r) == {i \in DOMAIN r.frames : r.frames[i].key}
KeysFrom(r, t) == {i \in Keys(r) : r.frames[i].t >= t}
KeysUpTo(r, t) == {i \in Keys(r) : r.frames[i].t <= t}

(* GetFirstKeyframeAtOrBefore(): the first one if there is none before.      *)
KeyAtOrBefore(r, t) == IF KeysUpTo(r, t) = {} THEN Min(Keys(r)) ELSE Max(KeysUpTo(r, t))

CanSeekTo(r, t) == StartOf(r) - FudgeRoom <= t /\ t < BufferedEnd(r)

(* Between the start of the group and its first frame, any time will do.     *)
NextKeyframeTimestamp(r, t) ==
  IF t < StartOf(r) \/ t >= BufferedEnd(r) \/ KeysFrom(r, t) = {} THEN None
  ELSE IF t > r.start /\ t < r.frames[1].t THEN t
  ELSE r.frames[Min(KeysFrom(r, t))].t

FindHighestBufferedTimestampAtOrBefore(r, t) ==
  IF t < r.frames[1].t THEN StartOf(r)
  ELSE Max({r.frames[i].t : i \in {j \in DOMAIN r.frames : r.frames[j].t <= t}})

(* Where the next range would start if it were appended to this one.         *)
CanAppendRangeToEnd(r, next) ==
  LET first == next.frames[1].t
  IN IsNextInDecodeSequence(r, IF first < EndOf(r) THEN first
                               ELSE IF StartOf(next) >= EndOf(r) THEN StartOf(next)
                               ELSE EndOf(r))

FirstGOPEnd(r) == IF Cardinality(Keys(r)) = 1 THEN Len(r.frames) ELSE Min(Keys(r) \ {1}) - 1
LastGOPStart(r) == Max(Keys(r))

FirstGOPEarlierThanMediaTime(r, t) ==
  IF FirstGOPEnd(r) = Len(r.frames) THEN BufferedEnd(r) <= t
  ELSE r.frames[FirstGOPEnd(r) + 1].t <= t

FirstGOPContainsNextBufferPosition(r) ==
  r.next # 0 /\ (Cardinality(Keys(r)) = 1 \/ r.next <= FirstGOPEnd(r))

LastGOPContainsNextBufferPosition(r) ==
  r.next # 0 /\ (Cardinality(Keys(r)) = 1 \/ LastGOPStart(r) <= r.next)

(**************************************************************************)
(*                    Selected range and seeking                          *)
(**************************************************************************)
Selected(b) == {i \in DOMAIN b.ranges : b.ranges[i].next # 0}
SelectNone(b) == [b EXCEPT !.ranges = [i \in DOMAIN @ |-> [@[i] EXCEPT !.next = 0]]]
SelectAt(b, i, next) ==
  [b EXCEPT !.ranges = [j \in DOMAIN @ |-> [@[j] EXCEPT !.next = IF j = i THEN next ELSE 0]]]

ForNextAppend(b) == {i \in DOMAIN b.ranges : b.ranges[i].append}
AppendTo(b, S) ==
  [b EXCEPT !.ranges = [i \in DOMAIN @ |-> [@[i] EXCEPT !.append = i \in S]]]

(* The earliest of some ranges, if any.                                      *)
Earliest(S) == IF S = {} THEN {} ELSE {Min(S)}
FindExistingRangeFor(b, t) == Earliest({i \in DOMAIN b.ranges : BelongsToRange(b.ranges[i], t)})

FindKeyframeAfterTimestamp(b, t) ==
  LET found == FindExistingRangeFor(b, t)
  IN IF found = {} THEN None ELSE NextKeyframeTimestamp(b.ranges[Min(found)], t)

(* Defect: a new seek leaves the overlapped frames of the old position.      *)
Seek_KeepsTrackBuffer(b, t) ==
  LET found == {i \in DOMAIN b.ranges : CanSeekTo(b.ranges[i], t)}
      reset == [SelectNone(b) EXCEPT !.output = None, !.exhausted = FALSE,
                                     !.seek_time = t, !.seek_pending = TRUE]
  IN IF found = {} THEN reset
     ELSE [SelectAt(reset, Min(found), KeyAtOrBefore(b.ranges[Min(found)], t))
             EXCEPT !.seek_pending = FALSE]

Seek(b, t) ==
  LET reset == [SelectNone(b) EXCEPT !.track_buffer = << >>, !.output = None,
                                     !.exhausted = FALSE, !.seek_time = t,
                                     !.seek_pending = TRUE]
      found == {i \in DOMAIN b.ranges : CanSeekTo(b.ranges[i], t)}
      to_start == b.ranges # << >> /\ t <= StartOf(b.ranges[1])
                  /\ StartOf(b.ranges[1]) < kSeekToStartFudgeRoom
  IN IF to_start THEN [SelectAt(reset, 1, 1) EXCEPT !.seek_pending = FALSE]
     ELSE IF found = {} THEN reset
     ELSE [SelectAt(reset, Min(found), KeyAtOrBefore(b.ranges[Min(found)], t))
             EXCEPT !.seek_pending = FALSE]

(* Of the ranges that have or soon reach a time, the first with a key frame. *)
FindNewSelectedRangeSeekTimestamp(b, t) ==
  LET near == {i \in DOMAIN b.ranges :
                 StartOf(b.ranges[i]) < t + FudgeRoom /\ EndOf(b.ranges[i]) >= t}
      KeyIn(i) == NextKeyframeTimestamp(b.ranges[i], Max({t, StartOf(b.ranges[i])}))
      found == {i \in near : KeyIn(i) # None}
  IN IF found = {} THEN None ELSE KeyIn(Min(found))

(* Defect: the new position is looked for at the last output frame itself.   *)
SetSelectedRangeIfNeeded_Anew(b, t) ==
  LET found == FindExistingRangeFor(b, b.output)
  IN IF Selected(b) # {} \/ b.track_buffer # << >> \/ found = {} THEN b
     ELSE SelectAt(b, Min(found), KeyAtOrBefore(b.ranges[Min(found)], b.output))

SelectKeyframe(b, key) ==
  LET found == Min(FindExistingRangeFor(b, key))
  IN IF key = None THEN b ELSE SelectAt(b, found, KeyAtOrBefore(b.ranges[found], key))

SetSelectedRangeIfNeeded(b, t) ==
  LET start == IF t # None THEN t ELSE b.output + 1
  IN IF \/ Selected(b) # {} \/ b.track_buffer # << >>
        \/ t = None /\ b.output = None
     THEN b
     ELSE SelectKeyframe(b, FindNewSelectedRangeSeekTimestamp(b, start))

GetNextBufferTimestamp(b) ==
  IF b.track_buffer # << >> THEN b.track_buffer[1].t
  ELSE IF Selected(b) = {} THEN None
  ELSE LET r == b.ranges[Min(Selected(b))]
       IN IF r.next > Len(r.frames) THEN None ELSE r.frames[r.next].t

(**************************************************************************)
(*                              Appending                                 *)
(**************************************************************************)
ResetLastAppendedState(b) ==
  [b EXCEPT !.last = None, !.last_key = FALSE, !.highest = None]

OnStartOfCodedFrameGroup(b, g) ==
  LET to == FindExistingRangeFor(b, g)
      marked == [AppendTo(b, to) EXCEPT !.group_start = g, !.new_group = TRUE]
      adjacent == to # {} /\ b.highest # None
                  /\ b.highest < g /\ g <= b.highest + FudgeRoom
      before == FindHighestBufferedTimestampAtOrBefore(b.ranges[Min(to)], g)
  IN IF adjacent THEN Checked(marked, ForNextAppend(b) \in {{}, to})
     ELSE [ResetLastAppendedState(marked)
             EXCEPT !.group_start = IF to # {} /\ before < g THEN before + 1 ELSE g]

PotentialNextAppendTimestamp(b) ==
  IF b.highest # None THEN b.highest ELSE IF b.new_group THEN b.group_start ELSE None

(* Defect: the append sequence goes on after what it depends on is removed.  *)
UpdateLastAppendStateForRemove_GoesOn(b, start, end, exclude_start) == b

UpdateLastAppendStateForRemove(b, start, end, exclude_start) ==
  LET r == b.ranges[Min(ForNextAppend(b))]
      gop_end == b.highest
      gop_start == IF gop_end < StartOf(r) \/ gop_end >= BufferedEnd(r) THEN None
                   ELSE r.frames[KeyAtOrBefore(r, gop_end)].t
      disrupted == start <= gop_end /\ (exclude_start => start # gop_end) /\ end > gop_start
  IN IF b.new_group \/ ForNextAppend(b) = {} THEN b
     ELSE IF b.last # None /\ disrupted THEN AppendTo(ResetLastAppendedState(b), {})
     ELSE Checked(b, b.last # None)

(* Defect: the positions to read from and to append to stay where they were. *)
SplitRange_KeepsPosition(b, i, t) ==
  LET r == b.ranges[i]
      k == Min(KeysFrom(r, t))
      right == [start |-> Max({t, StartOf(r)}), frames |-> SubSeq(r.frames, k, Len(r.frames)),
                next |-> 0, append |-> FALSE]
  IN IF KeysFrom(r, t) = {} THEN b
     ELSE Replace(b, i, i, << [r EXCEPT !.frames = SubSeq(@, 1, k - 1)], right >>)

(* The key frames from a time on, and all that follows, become a range.      *)
SplitRange(b, i, t) ==
  LET r == b.ranges[i]
      k == Min(KeysFrom(r, t))
      right == [start |-> Max({t, StartOf(r)}), frames |-> SubSeq(r.frames, k, Len(r.frames)),
                next |-> IF r.next >= k THEN r.next - k + 1 ELSE 0, append |-> FALSE]
      moves == /\ r.append
               /\ PotentialNextAppendTimestamp(b) # None
               /\ BelongsToRange(right, PotentialNextAppendTimestamp(b))
      left == [r EXCEPT !.frames = SubSeq(@, 1, k - 1), !.append = @ /\ ~moves,
                        !.next = IF @ >= k THEN 0 ELSE @]
  IN IF KeysFrom(r, t) = {} THEN b
     ELSE Replace(b, i, i, << left, [right EXCEPT !.append = moves] >>)

(* Frames from the next one on are saved, if they are removed.               *)
TruncateAt(b, i, t, exclude) ==
  LET r == b.ranges[i]
      n == Cardinality({j \in DOMAIN r.frames : r.frames[j].t < t \/ (exclude /\ r.frames[j].t = t)})
      saved == IF r.next > n THEN SubSeq(r.frames, r.next, Len(r.frames)) ELSE << >>
      left == [r EXCEPT !.frames = SubSeq(@, 1, n), !.next = IF @ > n THEN 0 ELSE @]
  IN IF n = Len(r.frames) THEN b
     ELSE Checked([Replace(b, i, i, << left >>) EXCEPT !.deleted = @ \o saved],
                  saved = << >> \/ b.deleted = << >>)

DeleteAndRemoveRange(b, i) ==
  LET without == Replace(b, i, i, << >>)
  IN IF b.ranges[i].append THEN ResetLastAppendedState(without) ELSE without

(* The new frames go to another range if this one no longer reaches them.    *)
KeepForNextAppend(b, i) ==
  LET next == PotentialNextAppendTimestamp(b)
      continues == b.ranges[i].append => BelongsToRange(b.ranges[i], next)
  IN IF continues THEN b ELSE AppendTo(b, FindExistingRangeFor(b, next))

(* From range i on, of which cut is what is left.                            *)
RECURSIVE RemoveFrom(_, _, _, _, _)
RemoveRest(cut, i, start, end, exclude_start) ==
  IF cut.ranges[i].frames = << >>
  THEN RemoveFrom(DeleteAndRemoveRange(cut, i), i, start, end, exclude_start)
  ELSE RemoveFrom(KeepForNextAppend(cut, i), i + 1, start, end, exclude_start)

RemoveFrom(b, i, start, end, exclude_start) ==
  IF i > Len(b.ranges) THEN b
  ELSE IF StartOf(b.ranges[i]) >= end THEN b
  ELSE RemoveRest(TruncateAt(SplitRange(b, i, end), i, start, exclude_start),
                  i, start, end, exclude_start)

RemoveInternal(b, start, end, exclude_start) ==
  RemoveFrom(UpdateLastAppendStateForRemove(Checked(b, start < end), start, end, exclude_start),
             1, start, end, exclude_start)

(* The gap since the last append, and what the new frames overlap.           *)
RemoveGap(b, t) ==
  IF b.highest # None /\ b.highest < t THEN RemoveInternal(b, b.highest, t, TRUE) ELSE b

RemoveOverlap(b, q) ==
  LET start == IF b.new_group THEN Min({b.group_start, q[1].t}) ELSE q[1].t
  IN RemoveInternal(b, start, Last(q).t + Duration, b.highest = q[1].t)

PrepareRangesForNextAppend(b, q) == RemoveOverlap(RemoveGap(b, q[1].t), q)

MergeWithNextRangeIfNecessary(b, i) ==
  LET r == b.ranges[i]
      next == b.ranges[i + 1]
      merged == [r EXCEPT !.frames = @ \o next.frames, !.append = @ \/ next.append,
                          !.next = IF next.next # 0 THEN Len(r.frames) + next.next ELSE @]
  IN IF i \notin 1..(Len(b.ranges) - 1) THEN b
     ELSE IF ~CanAppendRangeToEnd(r, next) THEN b
     ELSE Replace(b, i, i + 1, << merged >>)

(* The range the next append goes to, with those on both sides of it.        *)
MergeAround(b) ==
  LET after == MergeWithNextRangeIfNecessary(b, Min(ForNextAppend(b)))
  IN MergeWithNextRangeIfNecessary(after, Min(ForNextAppend(after)) - 1)

(* Where to insert a range that is to be the one for the next append.        *)
AddToRanges(b, r) ==
  LET before == {i \in DOMAIN b.ranges : StartOf(b.ranges[i]) <= StartOf(r)}
  IN [b EXCEPT !.ranges = InsertAt([i \in DOMAIN @ |-> [@[i] EXCEPT !.append = FALSE]],
                                   Cardinality(before) + 1, [r EXCEPT !.append = TRUE])]

LastAppended(b, q) == [b EXCEPT !.last = Last(q).t, !.last_key = Last(q).key]
Appended(b, q) ==
  [LastAppended(b, q) EXCEPT !.new_group = FALSE,
                             !.highest = EndOf(b.ranges[Min(ForNextAppend(b))])]

AppendToRange(b, q) ==
  LET i == Min(ForNextAppend(b))
      longer == [b.ranges[i] EXCEPT !.frames = @ \o q]
      proof == IF b.new_group THEN b.group_start ELSE q[1].t
  IN Checked(Appended(Replace(b, i, i, << longer >>), q),
             IsNextInDecodeSequence(b.ranges[i], proof) /\ proof <= q[1].t)

(* A range starts with a key frame: what comes before is dropped.            *)
FromKeyframe(q) ==
  LET keys == {i \in DOMAIN q : q[i].key}
  IN IF keys = {} THEN << >> ELSE SubSeq(q, Min(keys), Len(q))

AppendToNewRange(b, q) ==
  LET frames == FromKeyframe(q)
      start == IF b.new_group THEN Min({b.group_start, frames[1].t}) ELSE frames[1].t
  IN Appended(AddToRanges(b, RangeNew(start, frames)), frames)

PruneTrackBuffer(b) ==
  LET key == FindKeyframeAfterTimestamp(b, b.track_buffer[1].t)
  IN IF b.track_buffer = << >> \/ key = None THEN b
     ELSE [b EXCEPT !.track_buffer = SelectSeq(@, LAMBDA frame : frame.t < key)]

(* What follows the insertion: a pending seek may find its data, and what    *)
(* was removed under the play position is still to be output.                *)
AfterAppend(b, next_buffer_timestamp) ==
  LET sought == IF b.seek_pending
                THEN Checked(Seek(b, b.seek_time), Selected(b) = {} /\ b.deleted = << >>)
                ELSE b
      kept == [sought EXCEPT !.track_buffer = @ \o sought.deleted, !.deleted = << >>]
  IN SetSelectedRangeIfNeeded(PruneTrackBuffer(kept), next_buffer_timestamp)

(* Into prepared ranges; without a range or a key frame to start one, the    *)
(* frames are dropped.                                                       *)
Insert(b, q, next_buffer_timestamp) ==
  IF ForNextAppend(b) = {} /\ FromKeyframe(q) = << >>
  THEN [LastAppended(b, q) EXCEPT !.deleted = << >>]
  ELSE AfterAppend(MergeAround(IF ForNextAppend(b) # {} THEN AppendToRange(b, q)
                               ELSE AppendToNewRange(b, q)),
                   next_buffer_timestamp)

AppendQueue(b, q) ==
  LET legal == b.group_start \in 0..(q[1].t) /\ ~b.eos /\ (b.new_group => q[1].key)
  IN Insert(PrepareRangesForNextAppend(Checked(b, legal), q), q, GetNextBufferTimestamp(b))

(**************************************************************************)
(*                              Removing                                  *)
(**************************************************************************)
(* The frames at the play position may have been removed.                    *)
FindNewPosition(b) ==
  LET moved == SetSelectedRangeIfNeeded([b EXCEPT !.deleted = << >>], b.deleted[1].t)
  IN IF b.deleted = << >> THEN b
     ELSE IF b.output = None THEN Seek(moved, b.seek_time) ELSE moved

RemoveInterval(b, start, end, duration) ==
  LET key == FindKeyframeAfterTimestamp(b, end)
      removal_end == IF key # None THEN key ELSE Min({end, duration})
  IN FindNewPosition(RemoveInternal(b, start, removal_end, FALSE))

Total(b) == FoldFunction(LAMBDA r, size : Len(r.frames) + size, 0, b.ranges)

(* How far the removal from the first key frame in the interval on goes.     *)
GetRemovalGOP(r, start, end, need) ==
  LET first == Min(KeysFrom(r, start))
      limit == IF end < BufferedEnd(r) THEN Max({first, KeyAtOrBefore(r, end)})
               ELSE Len(r.frames) + 1
      stops == {i \in Keys(r) \union {Len(r.frames) + 1} : first <= i /\ i <= limit}
      enough == {i \in stops : i - first >= need}
      stop == IF enough = {} THEN Max(stops) ELSE Min(enough)
  IN IF KeysFrom(r, start) = {} THEN [freed |-> 0, end |-> None]
     ELSE [freed |-> stop - first,
           end |-> IF stop > Len(r.frames) THEN BufferedEnd(r) ELSE r.frames[stop].t]

RECURSIVE GetRemovalRange(_, _, _, _, _, _)
GetRemovalRange(b, i, start, end, need, so_far) ==
  LET gop == GetRemovalGOP(b.ranges[i], start, end, need - so_far.freed)
      more == IF EndOf(b.ranges[i]) < start \/ gop.freed = 0 THEN so_far
              ELSE [freed |-> so_far.freed + gop.freed, end |-> gop.end]
  IN IF i > Len(b.ranges) \/ so_far.freed >= need THEN so_far
     ELSE IF StartOf(b.ranges[i]) >= end THEN so_far
     ELSE GetRemovalRange(b, i + 1, start, end, need, more)

(* Freeing: results [b, freed].                                              *)
RemoveFreed(b, start, removal, media_time) ==
  IF removal.freed = 0 THEN [b |-> b, freed |-> 0]
  ELSE [b |-> RemoveInterval(b, start, removal.end, media_time), freed |-> removal.freed]

FreeBuffersAfterLastAppended(b, need, media_time) ==
  LET after == b.highest + Duration + IF b.last_key THEN MaxInterbufferDistance ELSE 0
      key == FindKeyframeAfterTimestamp(b, after)
      start == IF key # None THEN key ELSE after
      removal == GetRemovalRange(b, 1, start, media_time, need, [freed |-> 0, end |-> None])
  IN IF start >= media_time THEN [b |-> b, freed |-> 0]
     ELSE RemoveFreed(b, start, removal, media_time)

(* The saved frames are the group of pictures that was appended last.        *)
RECURSIVE FreeGOPs(_, _, _, _, _, _)
FreeGOPs(b, need, media_time, reverse, freed, saved) ==
  LET i == IF reverse THEN Len(b.ranges) ELSE 1
      r == b.ranges[i]
      stops == IF reverse THEN LastGOPContainsNextBufferPosition(r)
               ELSE ~FirstGOPEarlierThanMediaTime(r, media_time)
                    \/ FirstGOPContainsNextBufferPosition(r)
      cut == IF reverse THEN LastGOPStart(r) - 1 ELSE FirstGOPEnd(r)
      front == SubSeq(r.frames, 1, cut)
      back == SubSeq(r.frames, cut + 1, Len(r.frames))
      gop == IF reverse THEN back ELSE front
      rest == IF reverse THEN [r EXCEPT !.frames = front]
              ELSE [r EXCEPT !.start = None, !.frames = back,
                             !.next = IF @ = 0 THEN 0 ELSE @ - cut]
      is_last == Last(gop).t = b.last
      without == Replace(b, i, i, IF rest.frames = << >> THEN << >> ELSE << rest >>)
      checked == Checked(IF is_last THEN AppendTo(without, {}) ELSE without,
                         /\ is_last => saved = << >>
                         /\ rest.frames = << >> => r.next = 0 /\ (r.append => is_last))
      finished == IF saved = << >> THEN b ELSE MergeAround(AddToRanges(b, RangeNew(None, saved)))
  IN IF b.ranges = << >> \/ freed >= need \/ (reverse /\ saved # << >>)
     THEN [b |-> finished, freed |-> freed]
     ELSE IF stops THEN [b |-> finished, freed |-> freed]
     ELSE FreeGOPs(checked, need, media_time, reverse,
                   IF is_last THEN freed ELSE freed + Len(gop), IF is_last THEN gop ELSE saved)

(* Defect: what was asked for counts as freed.                               *)
FreeBuffers_AsAsked(f, need, media_time, reverse) ==
  IF f.freed >= need THEN f
  ELSE [FreeGOPs(f.b, need, media_time, reverse, f.freed, << >>) EXCEPT !.freed = need]

FreeBuffers(f, need, media_time, reverse) ==
  IF f.freed >= need THEN f
  ELSE FreeGOPs(f.b, need, media_time, reverse, f.freed, << >>)

FreeAroundTime(f, need, media_time) ==
  FreeBuffers(FreeBuffers(f, need, media_time, FALSE), need, media_time, TRUE)

FreeToTheEnd(f, need) == FreeBuffers(f, need, EndOf(Last(f.b.ranges)), FALSE)

(* With a seek pending: before its target, then from the back, then all.     *)
FreeForSeek(f, need, media_time) ==
  IF f.freed >= need \/ ~f.b.seek_pending THEN f
  ELSE FreeToTheEnd(FreeAroundTime(f, need, media_time), need)

(* Everything before the range that is appended to goes, if it is behind.    *)
FreeFrom(f, behind, need, media_time) ==
  LET target == IF behind /\ ForNextAppend(f.b) # {}
                THEN StartOf(f.b.ranges[Min(ForNextAppend(f.b))]) ELSE media_time
      checked == [f EXCEPT !.b = Checked(@, target <= media_time)]
  IN FreeAroundTime(FreeForSeek(checked, need, target), need, target)

(* Result [b, fits]: fits is what the caller is told.                        *)
Room(f, need) == [b |-> f.b, fits |-> f.freed >= need]

GarbageCollectIfNeeded(b, now, newDataSize) ==
  LET need == Total(b) + newDataSize - memory_limit
      selected == b.ranges[Min(Selected(b))]
      media_time == IF Selected(b) # {} /\ ~b.seek_pending THEN Min({now, BufferedEnd(selected)})
                    ELSE now
      behind == b.last # None /\ b.highest # None /\ media_time > b.highest + Duration
      first == IF behind THEN FreeBuffersAfterLastAppended(b, need, media_time)
               ELSE [b |-> b, freed |-> 0]
  IN IF newDataSize > memory_limit THEN [b |-> b, fits |-> FALSE]
     ELSE IF need <= 0 THEN [b |-> b, fits |-> TRUE]
     ELSE Room(FreeFrom(first, behind, need, media_time), need)

(**************************************************************************)
(*                              Reading                                   *)
(**************************************************************************)
IsEndOfStreamReached(b) ==
  /\ b.eos
  /\ b.track_buffer = << >>
  /\ \/ b.ranges = << >>
     \/ b.seek_pending /\ b.seek_time >= BufferedEnd(Last(b.ranges))
     \/ ~b.seek_pending /\ (Selected(b) = {} \/ Last(b.ranges).next # 0)

IsSeekPending(b) == b.seek_pending /\ ~IsEndOfStreamReached(b)

(* The frame to read next: << >> if there is none.                           *)
NextBuffer(b) ==
  LET r == b.ranges[Min(Selected(b))]
  IN IF b.track_buffer # << >> THEN << b.track_buffer[1] >>
     ELSE IF Selected(b) = {} THEN << >>
     ELSE IF r.next > Len(r.frames) THEN << >> ELSE << r.frames[r.next] >>

(* After a track buffer is exhausted, it continues with a key frame.         *)
GiveNextBuffer(b) ==
  LET frame == NextBuffer(b)[1]
      given == Checked([b EXCEPT !.output = Max({@, frame.t}), !.exhausted = FALSE],
                       b.exhausted => frame.key)
      left == [given EXCEPT !.track_buffer = Tail(@)]
  IN IF b.track_buffer = << >>
     THEN SelectAt(given, Min(Selected(b)), b.ranges[Min(Selected(b))].next + 1)
     ELSE IF left.track_buffer # << >> THEN Checked(left, Selected(b) = {})
     ELSE SetSelectedRangeIfNeeded([left EXCEPT !.exhausted = TRUE], left.output)
===============================================================================
