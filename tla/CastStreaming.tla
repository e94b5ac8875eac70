---------------------------- MODULE CastStreaming ----------------------------
(* A video stream of cast/: the FrameSender with the RtpSender, its          *)
(* PacketStorage and the PacedSender at one end, the FrameReceiver with its  *)
(* Framer and CastMessageBuilder at the other, and between them a network    *)
(* that loses, repeats and reorders packets and feedback.  Frame ids count   *)
(* from 1 (FrameId::first()) and keep their full width; a packet is a frame  *)
(* id and an index.                                                          *)
EXTENDS Integers, FiniteSets, Sequences

CONSTANT Streams      (* the streams that are tried, of type Stream          *)

(* sizes: the packets of each frame.  window: the frames that the sender may *)
(* have unacknowledged.  Bounds: faults on the losses, repetitions and       *)
(* failures to decrypt, plis on the picture losses, reports on the cast      *)
(* messages that are on the network at a time.                               *)
Stream == [ sizes : Seq(Nat \ {0}), window : Nat \ {0},
            faults : Nat, plis : Nat, reports : Nat \ {0} ]

ASSUME StreamsAssumption == \A choice \in Streams : choice \in Stream

VARIABLES
  stream,    (* one of Streams                                                  *)
  s,         (* FrameSender and PacketStorage                                *)
  paced,     (* packets in the list of the PacedSender                       *)
  air,       (* packets on the network                                       *)
  feedback,  (* cast messages on the network                                 *)
  r,         (* FrameReceiver, Framer and CastMessageBuilder; history: what  *)
             (* was emitted and dropped, and the key frame it started at     *)
  spent      (* faults and picture losses so far                             *)

sender == <<s, paced>>
vars == <<s, paced, air, feedback, r, spent>>

Frames == 1 .. Len(stream.sizes)
PacketsOf(f) == {f} \X (1 .. stream.sizes[f])
LastPacket(f) == <<f, stream.sizes[f]>>
Least(S) == CHOOSE x \in S : \A y \in S : x <= y

Fault == spent.faults < stream.faults /\ spent' = [spent EXCEPT !.faults = @ + 1]

(**************************************************************************)
(*                             The sender                                 *)
(**************************************************************************)
last_sent == Len(s.kinds)
kMaxUnackedFrames == stream.window
Unacknowledged == last_sent - s.latest_acked

(* Defect: a key frame after a picture loss cancels itself, too.             *)
Superseded_Itself(kind) ==
  IF s.picture_lost /\ kind = "key" THEN s.latest_acked + 1 .. last_sent + 1 ELSE {}

(* What a key frame that answers a picture loss makes superfluous.           *)
Superseded(kind) ==
  IF s.picture_lost /\ kind = "key" THEN s.latest_acked + 1 .. last_sent ELSE {}

(* A frame that the window admits is encoded and sent, as a key frame the    *)
(* first time, and later when the encoder likes or is asked to; other frames *)
(* refer to the one before.  (Frames in the encoder count for the window:    *)
(* here, the encoder answers at once.)                                       *)
SendEncodedFrame(kind) ==
  LET f == last_sent + 1
      gone == Superseded(kind)
  IN /\ f \in Frames
     /\ Unacknowledged < kMaxUnackedFrames
     /\ last_sent = 0 => kind = "key"
     /\ s' = [s EXCEPT !.kinds = Append(@, kind),
                       !.picture_lost = @ /\ kind # "key",
                       !.restart = IF s.picture_lost /\ kind = "key" THEN f ELSE @,
                       !.stored = (@ \cup {f}) \ gone]
     /\ paced' = {p \in paced \cup PacketsOf(f) : p[1] \notin gone}
     /\ UNCHANGED <<air, feedback, r, spent>>

OnReceivedPli ==
  /\ spent.plis < stream.plis
  /\ last_sent > 0
  /\ s' = [s EXCEPT !.picture_lost = TRUE]
  /\ spent' = [spent EXCEPT !.plis = @ + 1]
  /\ UNCHANGED <<paced, air, feedback, r>>

(* Defect: the oldest unacknowledged frame is sent again, not the newest.    *)
Kickstart_Oldest ==
  LET f == s.latest_acked + 1 IN IF f \in s.stored THEN {LastPacket(f)} ELSE {}

Kickstart == IF last_sent \in s.stored THEN {LastPacket(last_sent)} ELSE {}

(* No acknowledgement in time: the last packet is sent again, to get the     *)
(* receiver to say what it misses.                                           *)
ResendCheck ==
  /\ Unacknowledged > 0
  /\ paced' = paced \cup Kickstart
  /\ UNCHANGED <<s, air, feedback, r, spent>>

(* The counter of duplicates beyond 4 repeats modulo 3.                      *)
CountDuplicate(n) == IF n = 4 THEN 2 ELSE n + 1

(* Defect: the acknowledged frame itself is kept.                            *)
NewlyAcked_Below(m) == s.latest_acked + 1 .. m.ack - 1

NewlyAcked(m) == s.latest_acked + 1 .. m.ack

LatestAcked(m) == IF m.ack > s.latest_acked THEN m.ack ELSE s.latest_acked

DuplicateKicks(n) == n >= 2 /\ n % 3 = 2

(* FrameSender::OnReceivedCastFeedback(), then the resending in              *)
(* CastTransportImpl: the missing packets of a frame are sent again, the     *)
(* others of that frame are not sent any more.  (PacedSender::ShouldResend() *)
(* may refuse what was sent within a round trip: here, it is sent and lost.) *)
OnReceivedCastMessage(m) ==
  LET quiet == \A f \in Frames : m.missing[f] = {}
      duplicate == quiet /\ m.ack = s.latest_acked /\ m.ack # last_sent
      count == IF duplicate THEN CountDuplicate(s.duplicates) ELSE 0
      kick == IF quiet /\ DuplicateKicks(count) THEN Kickstart ELSE {}
      acked == NewlyAcked(m)
      stored == s.stored \ acked
      listed == {f \in stored : m.missing[f] # {}}
      again == UNION {m.missing[f] : f \in listed}
  IN /\ s' = [s EXCEPT !.duplicates = count, !.latest_acked = LatestAcked(m),
                       !.stored = stored]
     /\ paced' = {p \in paced \cup kick : p[1] \notin acked /\ p[1] \notin listed}
                   \cup again
     /\ UNCHANGED <<air, r>>

(* The pacer sends the next packet of the oldest frame and the transport      *)
(* blocks it, or it sends all it has: a burst is ten packets and more.       *)
Sends(p) ==
  /\ p \in paced /\ \A q \in paced : p[1] <= q[1]
  /\ air' = air \cup {p}
  /\ paced' = paced \ {p}
  /\ UNCHANGED <<s, feedback, r, spent>>

SendStoredPackets ==
  /\ paced # {}
  /\ air' = air \cup paced
  /\ paced' = {}
  /\ UNCHANGED <<s, feedback, r, spent>>

(**************************************************************************)
(*                            The receiver                                *)
(**************************************************************************)
Key(f) == s.kinds[f] = "key"
Held(rec) == {f \in Frames : rec.packets[f] # {}}
Complete(f) == r.packets[f] = PacketsOf(f)

(* Framer::IsDecodableFrame(), of frames that refer to the one before them.  *)
IsDecodable(f) == Key(f) \/ (~r.waiting_for_key /\ f - 1 <= r.last_released)
Decodable == {f \in Held(r) : Complete(f) /\ IsDecodable(f)}

(* Defect: the frame is not checked to be the very next one.                 *)
NextForRelease_Any == {f \in Held(r) : Complete(f) /\ (r.waiting_for_key => Key(f))}

(* Framer::FindNextFrameForRelease()                                         *)
NextForRelease ==
  {f \in Held(r) : Complete(f) /\ f = r.last_released + 1 /\ (r.waiting_for_key => Key(f))}

(* FrameBuffer::GetMissingPackets() of a frame that has packets: of the      *)
(* newest frame only those before the last one seen.                         *)
MissingOf(rec, f) ==
  {p \in PacketsOf(f) \ rec.packets[f] :
     f = rec.newest => \E q \in rec.packets[f] : p[2] < q[2]}

(* CastMessageBuilder::BuildPacketList(), but for the frames in recently,    *)
(* which it is too early to ask for again.                                   *)
Missing(rec, recently) ==
  [f \in Frames |->
     IF Held(rec) = {} \/ f <= rec.acked \/ f > rec.newest \/ f \in recently THEN {}
     ELSE IF f \in Held(rec) THEN MissingOf(rec, f)
     ELSE PacketsOf(f)]

(* A cast message for the network, where another may get lost for it; next   *)
(* is what becomes of the receiver afterwards.                               *)
Reports(rec, recently, next) ==
  /\ \E kept \in SUBSET feedback :
       /\ Cardinality(kept) = IF Cardinality(feedback) < stream.reports
                              THEN Cardinality(feedback) ELSE stream.reports - 1
       /\ feedback' = kept \cup {[ack |-> rec.acked, missing |-> Missing(rec, recently)]}
  /\ r' = next

(* A cast message when it is time, from the first packet on.                *)
SendNextCastMessage ==
  /\ r.newest > 0
  /\ Reports(r, {}, r)
  /\ UNCHANGED <<sender, air, spent>>

(* Framer::InsertPacket() and the rest of ProcessPacket(): a complete frame  *)
(* makes the receiver look for frames to emit.                               *)
ProcessPacket(p) ==
  LET f == p[1]
      starts == r.waiting_for_key /\ Key(f)
      released == IF starts THEN f - 1 ELSE r.last_released
      old == f <= released /\ (starts \/ ~r.waiting_for_key)
      known == [r EXCEPT !.last_released = released, !.waiting_for_key = @ /\ ~starts,
                         !.start = IF starts THEN f ELSE @]
  IN /\ r' = IF old THEN known
             ELSE [known EXCEPT !.newest = IF f > @ THEN f ELSE @,
                                !.packets[f] = @ \cup {p},
                                !.emitting = p \notin r.packets[f]
                                             /\ r.packets[f] \cup {p} = PacketsOf(f)]
     /\ UNCHANGED <<sender, feedback>>

(* The client wants the next frame; one request at a time.                   *)
RequestEncodedFrame ==
  /\ ~r.requested
  /\ r' = [r EXCEPT !.requested = TRUE, !.emitting = TRUE]
  /\ UNCHANGED <<sender, air, feedback, spent>>

(* Framer::ReleaseFrame(), but for its cast message.                         *)
Released(rec, f) ==
  [rec EXCEPT !.last_released = f,
              !.packets = [g \in Frames |-> IF g <= f THEN {} ELSE @[g]]]

(* The rest of this section is EmitAvailableEncodedFrames(), one turn of its *)
(* loop at a time.  No request or no frame: it ends.                         *)
NothingToEmit ==
  /\ r.emitting
  /\ ~r.requested \/ Decodable \cup NextForRelease = {}
  /\ r' = [r EXCEPT !.emitting = FALSE]
  /\ UNCHANGED <<sender, air, feedback, spent>>

Candidate == Least(IF NextForRelease # {} THEN NextForRelease ELSE Decodable)
HasCandidate == r.emitting /\ r.requested /\ Decodable \cup NextForRelease # {}
HaveMultiple == Cardinality(Decodable) > 1

(* Too late for this frame when another one can be decoded: it is released   *)
(* without an acknowledgement, with a cast message if older frames go, too,  *)
(* and it is time for one.                                                   *)
SkipsLateFrame ==
  /\ HasCandidate /\ HaveMultiple
  /\ LET next == Released([r EXCEPT !.dropped = @ \cup {Candidate}], Candidate)
     IN \/ /\ \E f \in Held(r) : f < Candidate
           /\ Reports(next, {}, next)
        \/ r' = next /\ UNCHANGED feedback
  /\ UNCHANGED <<sender, air, spent>>

(* Not the very next frame, and its time is far enough to wait for those     *)
(* before: the first to wait posts a task for its playout time.              *)
WaitsForConsecutive ==
  /\ HasCandidate /\ NextForRelease = {}
  /\ Candidate > r.due
  /\ r' = [r EXCEPT !.emitting = FALSE, !.waiting = IF @ = 0 THEN Candidate ELSE @]
  /\ UNCHANGED <<sender, air, feedback, spent>>

EmitAvailableEncodedFramesAfterWaiting ==
  /\ r.waiting # 0
  /\ r' = [r EXCEPT !.due = r.waiting, !.waiting = 0, !.emitting = TRUE]
  /\ UNCHANGED <<sender, air, feedback, spent>>

(* CastMessageBuilder::UpdateAckMessage()                                    *)
Acked(f) == [r EXCEPT !.acked = f]

(* The frame is acknowledged (CompleteFrameReceived(), with frames it is too *)
(* early to ask for again), released, and emitted if it can be decrypted.    *)
EmitsFrame ==
  /\ HasCandidate
  /\ LET f == Candidate
         emitted == [Acked(f) EXCEPT !.emitted = Append(@, f), !.requested = FALSE]
         dropped == [Acked(f) EXCEPT !.dropped = @ \cup {f}]
     IN \E recently \in SUBSET {g \in Frames : Missing(Acked(f), {})[g] # {}} :
          \/ Reports(Acked(f), recently, Released(emitted, f)) /\ UNCHANGED spent
          \/ Reports(Acked(f), recently, Released(dropped, f)) /\ Fault
  /\ UNCHANGED <<sender, air>>

(**************************************************************************)
(*                            The network                                 *)
(**************************************************************************)
Arrives(p) ==
  /\ p \in air
  /\ ProcessPacket(p)
  /\ air' = air \ {p}
  /\ UNCHANGED spent

(* It comes once more, later.                                                *)
ArrivesRepeated(p) ==
  /\ p \in air
  /\ ProcessPacket(p)
  /\ Fault
  /\ UNCHANGED air

Lost(p) ==
  /\ p \in air
  /\ Fault
  /\ air' = air \ {p}
  /\ UNCHANGED <<sender, feedback, r>>

FeedbackArrives(m) ==
  /\ m \in feedback
  /\ OnReceivedCastMessage(m)
  /\ feedback' = feedback \ {m}
  /\ UNCHANGED <<air, spent>>

FeedbackRepeated(m) ==
  /\ m \in feedback
  /\ OnReceivedCastMessage(m)
  /\ Fault
  /\ UNCHANGED <<air, feedback>>

FeedbackLost(m) ==
  /\ m \in feedback
  /\ Fault
  /\ feedback' = feedback \ {m}
  /\ UNCHANGED <<sender, air, r>>

(**************************************************************************)
(*                           Specification                                *)
(**************************************************************************)
Init ==
  /\ stream \in Streams
  /\ s = [kinds |-> << >>, latest_acked |-> 0, stored |-> {},
          duplicates |-> 0, picture_lost |-> FALSE, restart |-> 0]
  /\ paced = {} /\ air = {} /\ feedback = {}
  /\ r = [waiting_for_key |-> TRUE, last_released |-> 0, newest |-> 0, acked |-> 0,
          packets |-> [f \in Frames |-> {}],
          requested |-> FALSE, emitting |-> FALSE, waiting |-> 0,
          due |-> 0, emitted |-> << >>, dropped |-> {}, start |-> 0]
  /\ spent = [faults |-> 0, plis |-> 0]

SenderSteps ==
  \/ \E kind \in {"key", "dependent"} : SendEncodedFrame(kind)
  \/ OnReceivedPli \/ ResendCheck
  \/ SendStoredPackets \/ \E p \in paced : Sends(p)

EmitAvailableEncodedFrames ==
  NothingToEmit \/ SkipsLateFrame \/ WaitsForConsecutive \/ EmitsFrame

ReceiverSteps ==
  SendNextCastMessage \/ RequestEncodedFrame \/ EmitAvailableEncodedFramesAfterWaiting

NetworkSteps ==
  \/ \E p \in air : Arrives(p) \/ ArrivesRepeated(p) \/ Lost(p)
  \/ \E m \in feedback : FeedbackArrives(m) \/ FeedbackRepeated(m) \/ FeedbackLost(m)

(* The loop of the receiver runs in one task, and the other steps change     *)
(* nothing that it reads: they wait for its end.                             *)
Next ==
  /\ \/ EmitAvailableEncodedFrames
     \/ ~r.emitting /\ (SenderSteps \/ ReceiverSteps \/ NetworkSteps)
  /\ UNCHANGED stream

(* The packets of all the streams.                                           *)
AllPackets ==
  UNION {UNION {{f} \X (1 .. choice.sizes[f]) : f \in DOMAIN choice.sizes} : choice \in Streams}

(* The threads and timers of both ends run, the client asks for frames, and  *)
(* what the network does not lose arrives.  (All of it waits for the loop of *)
(* the receiver, which has at most as many turns as there are frames.)       *)
BothEndsRun ==
  /\ WF_vars(SendStoredPackets) /\ WF_vars(ResendCheck)
  /\ WF_vars(SendNextCastMessage) /\ WF_vars(RequestEncodedFrame)
  /\ WF_vars(EmitAvailableEncodedFramesAfterWaiting)
  /\ \A p \in AllPackets : WF_vars(Arrives(p))
  /\ WF_vars(\E m \in feedback : FeedbackArrives(m))

Spec ==
  /\ Init
  /\ [][Next]_<<vars, stream>>
  /\ BothEndsRun

(**************************************************************************)
(*                             Properties                                 *)
(**************************************************************************)
(* The books of both ends: only unacknowledged frames are stored, only       *)
(* packets of stored frames wait to be sent, and nobody acknowledges or      *)
(* waits for a frame that was never sent.                                    *)
TypeOK ==
  /\ s.latest_acked \in 0 .. last_sent
  /\ Unacknowledged \in 0 .. kMaxUnackedFrames
  /\ s.stored \subseteq s.latest_acked + 1 .. last_sent
  /\ s.duplicates \in 0 .. 4
  /\ paced \subseteq UNION {PacketsOf(f) : f \in s.stored}
  /\ air \subseteq UNION {PacketsOf(f) : f \in 1 .. last_sent}
  /\ r.acked \in 0 .. r.newest /\ r.newest \in 0 .. last_sent
  /\ r.last_released \in 0 .. last_sent
  /\ r.waiting \in 0 .. r.newest

Emitted == {r.emitted[i] : i \in DOMAIN r.emitted}

(* A frame the receiver may still want is there to be sent again, unless a   *)
(* key frame after a picture loss takes its place.                           *)
StoredUntilReceived ==
  \A f \in r.last_released + 1 .. last_sent : f \in s.stored \/ f < s.restart

(* "Will only return a complete and decodable frame": one whose reference    *)
(* the client has been given.                                                *)
OnlyDecodable ==
  \A f \in Emitted : Key(f) \/ f - 1 \in Emitted

(* "If we have multiple decodable frames, and the current frame is too old,  *)
(* then skip it and decode the next frame instead" (frame_receiver.cc:227):  *)
(* a frame is skipped, unacknowledged, only when the next is there.          *)
SkippedForTheNext ==
  [][\A f \in r'.dropped \ r.dropped :
       r'.acked < f => \E g \in Held(r') : g > f /\ r'.packets[g] = PacketsOf(g)]_vars

(* Losing, repeating and reordering packets never makes the receiver emit a  *)
(* frame without the one it refers to: only frames that came too late or     *)
(* could not be decrypted are missing.  The exception are frames it held     *)
(* before the first packet of the key frame it starts at: they count as      *)
(* decodable from then on.  Nor do frames come twice or in another order.    *)
LossNeverCorrupts ==
  /\ \A i, j \in DOMAIN r.emitted : i < j => r.emitted[i] < r.emitted[j]
  /\ \A f \in Emitted : Key(f) \/ f - 1 \in Emitted \cup r.dropped \/ f < r.start

(* The key frame the receiver starts at was skipped for an older one that it *)
(* held already and that went with it; nothing has been acknowledged.        *)
StartSkipped == r.start > 1 /\ r.start \in r.dropped /\ r.acked < r.start

(* Whatever is lost, repeated or cancelled, every frame of the (bounded)     *)
(* stream is acknowledged in the end: the window does not stop the sender.   *)
(* The exception is a start that was skipped: what comes of the frames so    *)
(* far is too old then, and only a later frame could be acknowledged         *)
(* (SkippedForTheNext).                                                      *)
EventuallyAcked ==
  []<>(s.latest_acked = last_sent \/ StartSkipped)
=============================================================================
