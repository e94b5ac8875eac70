------------------------ MODULE CastStreamingProofs ------------------------
(***************************************************************************)
(* For every stream of frames, window, number of faults and of picture      *)
(* losses: both ends of the cast stream keep their books, a frame that the  *)
(* receiver may still want is there to be sent again, and losses, repeats   *)
(* and reordering never put a frame before or without its reference.        *)
(***************************************************************************)
EXTENDS CastStreaming, FiniteSetTheorems, WellFoundedInduction, TLAPS

USE StreamsAssumption DEF kMaxUnackedFrames

LEMMA LeastNatural ==
  ASSUME NEW S \in SUBSET Nat, S # {}
  PROVE  Least(S) \in S /\ \A m \in S : Least(S) <= m
<1>. DEFINE R == {p \in Nat \X Nat : p[1] < p[2]}
<1>1. IsWellFoundedOn(R, Nat)
  BY NatLessThanWellFounded DEF OpToRel
<1>2. PICK n \in S : \A m \in S : <<m, n>> \notin R
  BY <1>1, WFMin
<1>3. \A m \in S : n <= m
  <2>. SUFFICES ASSUME NEW m \in S PROVE ~(m < n)
    OBVIOUS
  <2>1. <<m, n>> \in Nat \X Nat
    OBVIOUS
  <2>. QED
    BY <1>2, <2>1
<1>. QED
  BY <1>3 DEF Least

(**************************************************************************)
Pairs == Nat \X Nat

SenderRecord ==
  [ kinds : Seq({"key", "dependent"}), latest_acked : Nat, stored : SUBSET Nat,
    duplicates : 0 .. 4, picture_lost : BOOLEAN, restart : Nat ]

ReceiverRecord ==
  [ waiting_for_key : BOOLEAN, last_released : Nat, newest : Nat, acked : Nat,
    packets : [Frames -> SUBSET Pairs], requested : BOOLEAN,
    emitting : BOOLEAN, waiting : Nat, due : Nat, emitted : Seq(Nat),
    dropped : SUBSET Nat, start : Nat ]

Message == [ack : Nat, missing : [Frames -> SUBSET Pairs]]

Typed == /\ stream \in Stream
         /\ s \in SenderRecord /\ r \in ReceiverRecord
         /\ feedback \subseteq Message

(* The sender stores what is neither acknowledged nor superseded, and sends *)
(* nothing else.                                                            *)
SenderBooks ==
  /\ last_sent <= Len(stream.sizes)
  /\ s.latest_acked <= r.acked
  /\ last_sent - s.latest_acked <= kMaxUnackedFrames
  /\ s.restart <= last_sent
  /\ s.stored = {f \in s.latest_acked + 1 .. last_sent : f >= s.restart}
  /\ paced \subseteq UNION {PacketsOf(f) : f \in s.stored}

(* What is on the network was sent: packets of frames, and messages about   *)
(* frames that were acknowledged.                                           *)
NetworkBooks ==
  /\ air \subseteq UNION {PacketsOf(f) : f \in 1 .. last_sent}
  /\ \A m \in feedback : m.ack <= r.acked /\ \A f \in Frames : m.missing[f] \subseteq PacketsOf(f)

(* The receiver holds packets of frames that were sent and that it has not  *)
(* acknowledged; while it waits for a key frame it holds none and has       *)
(* released nothing.                                                        *)
ReceiverBooks ==
  /\ r.newest <= last_sent /\ r.acked <= r.last_released /\ r.last_released <= last_sent
  /\ r.acked <= r.newest /\ r.waiting <= r.newest
  /\ \A f \in Frames : r.packets[f] \subseteq PacketsOf(f)
  /\ \A f \in Held(r) : f <= r.newest /\ r.acked < f
  /\ r.waiting_for_key => /\ r.last_released = 0 /\ r.emitted = << >>
                          /\ \A f \in Held(r) : ~Key(f)

(* Frames are emitted in order, and where the receiver stands is where it   *)
(* has released a frame or where it started.                                *)
Order ==
  /\ \A i \in DOMAIN r.emitted : r.emitted[i] \in 1 .. r.acked
  /\ LossNeverCorrupts
  /\ ~r.waiting_for_key =>
       \/ r.last_released + 1 = r.start /\ r.start <= last_sent /\ Key(r.start)
       \/ /\ r.last_released \in Emitted \cup r.dropped
          /\ \A f \in Held(r) : r.last_released < f

IInv == Typed /\ SenderBooks /\ NetworkBooks /\ ReceiverBooks /\ Order

LEMMA WindowShape == ASSUME IInv PROVE kMaxUnackedFrames \in Nat \ {0}
  BY DEF IInv, Typed, Stream

(**************************************************************************)
LEMMA InitInv == Init => IInv
<1>. SUFFICES ASSUME Init PROVE IInv
  OBVIOUS
<1>1. stream \in Stream /\ Typed
  BY DEF Init, Typed, Stream, SenderRecord, ReceiverRecord, Frames
<1>2. last_sent = 0 /\ Held(r) = {} /\ Emitted = {}
  BY DEF Init, last_sent, Held, Emitted
<1>3. SenderBooks
  BY <1>1, <1>2 DEF Init, Stream, SenderBooks
<1>4. NetworkBooks
  BY DEF Init, NetworkBooks
<1>5. ReceiverBooks
  <2>1. \A f \in Frames : r.packets[f] = {}
    BY DEF Init
  <2>2. /\ r.newest = 0 /\ r.acked = 0 /\ r.last_released = 0 /\ r.waiting = 0
        /\ r.emitted = << >>
    BY DEF Init
  <2>. QED
    BY <1>2, <2>1, <2>2 DEF ReceiverBooks
<1>6. Order
  BY <1>2 DEF Init, Order, LossNeverCorrupts
<1>. QED
  BY <1>1, <1>3, <1>4, <1>5, <1>6 DEF IInv

(* What the steps of the sender leave the receiver to rely on.              *)
LEMMA KindsGrow ==
  ASSUME IInv, stream' = stream, r' = r,
         s'.kinds = s.kinds \/ \E kind : s'.kinds = Append(s.kinds, kind)
  PROVE  /\ last_sent' \in {last_sent, last_sent + 1} /\ last_sent \in Nat
         /\ \A f \in 1 .. last_sent : Key(f)' <=> Key(f)
         /\ ReceiverBooks' /\ Order'
<1>1. last_sent \in Nat /\ s.kinds \in Seq({"key", "dependent"})
  BY DEF IInv, Typed, SenderRecord, last_sent
<1>2. /\ last_sent' \in {last_sent, last_sent + 1}
      /\ \A f \in 1 .. last_sent : s'.kinds[f] = s.kinds[f]
  BY <1>1 DEF last_sent
<1>3. \A f \in 1 .. last_sent : Key(f)' <=> Key(f)
  BY <1>2 DEF Key
<1>4. Held(r)' = Held(r) /\ Emitted' = Emitted /\ Frames' = Frames
  BY DEF Held, Emitted, Frames
<1>5. Held(r) \cup Emitted \subseteq 1 .. last_sent
  <2>1. /\ Frames \subseteq Nat \ {0} /\ r \in ReceiverRecord /\ ReceiverBooks
        /\ \A i \in DOMAIN r.emitted : r.emitted[i] \in 1 .. r.acked
    BY DEF IInv, Typed, Frames, Stream, Order
  <2>2. r.newest \in Nat /\ r.acked \in Nat /\ r.emitted \in Seq(Nat)
    BY <2>1 DEF ReceiverRecord
  <2>3. r.newest <= last_sent /\ r.acked <= r.newest
        /\ \A f \in Held(r) : f <= r.newest
    BY <2>1 DEF ReceiverBooks
  <2>4. Held(r) \subseteq Frames
    BY DEF Held
  <2>5. Emitted \subseteq 1 .. r.acked
    BY <2>1, <2>2 DEF Emitted
  <2>6. 1 .. r.acked \subseteq 1 .. last_sent
    BY <1>1, <2>2, <2>3
  <2>7. Held(r) \subseteq 1 .. last_sent
    <3>. SUFFICES ASSUME NEW f \in Held(r) PROVE f \in 1 .. last_sent
      OBVIOUS
    <3>1. f \in Nat /\ f # 0 /\ f <= r.newest
      BY <2>1, <2>3, <2>4
    <3>. QED
      BY <1>1, <2>2, <2>3, <3>1
  <2>. QED
    BY <2>5, <2>6, <2>7
<1>6. ReceiverBooks'
  <2>1. last_sent <= last_sent'
    BY <1>1, <1>2
  <2>2. r \in ReceiverRecord /\ ReceiverBooks
    BY DEF IInv, Typed
  <2>. QED
    BY <1>1, <1>2, <1>3, <1>4, <1>5, <2>1, <2>2
       DEF ReceiverBooks, ReceiverRecord, PacketsOf
<1>7. Order'
  <2>1. r \in ReceiverRecord /\ Order
    BY DEF IInv, Typed
  <2>2. LossNeverCorrupts'
    BY <1>3, <1>4, <1>5, <2>1 DEF Order, LossNeverCorrupts
  <2>3. r.start + 0 = r.start
    BY <2>1 DEF ReceiverRecord
  <2>. QED
    BY <1>1, <1>2, <1>3, <1>4, <1>5, <2>1, <2>2 DEF Order, ReceiverRecord
<1>. QED
  BY <1>1, <1>2, <1>3, <1>6, <1>7

LEMMA PacketShape ==
  ASSUME IInv
  PROVE  /\ Frames \subseteq Nat \ {0} /\ last_sent \in Nat
         /\ 1 .. last_sent \subseteq Frames
         /\ \A f \in Frames : PacketsOf(f) \subseteq Pairs /\ LastPacket(f) \in PacketsOf(f)
<1>1. stream.sizes \in Seq(Nat \ {0}) /\ s.kinds \in Seq({"key", "dependent"})
  BY DEF IInv, Typed, Stream, SenderRecord
<1>2. Frames \subseteq Nat \ {0} /\ last_sent \in Nat /\ 1 .. last_sent \subseteq Frames
  BY <1>1 DEF IInv, SenderBooks, Frames, last_sent
<1>3. ASSUME NEW f \in Frames
      PROVE  PacketsOf(f) \subseteq Pairs /\ LastPacket(f) \in PacketsOf(f)
  <2>1. stream.sizes[f] \in Nat \ {0} /\ f \in Nat
    BY <1>1, <1>2, <1>3 DEF Frames
  <2>2. 1 .. stream.sizes[f] \subseteq Nat /\ stream.sizes[f] \in 1 .. stream.sizes[f]
    BY <2>1
  <2>. QED
    BY <2>1, <2>2 DEF PacketsOf, LastPacket, Pairs
<1>. QED
  BY <1>2, <1>3

(* The frame of a packet that waits to be sent or is on the network.        *)
LEMMA PacketOfFrame ==
  ASSUME IInv, NEW p
  PROVE  /\ p \in paced => p[1] \in s.stored /\ p \in PacketsOf(p[1])
         /\ p \in air => p[1] \in 1 .. last_sent /\ p \in PacketsOf(p[1])
<1>1. ASSUME NEW f, p \in PacketsOf(f) PROVE p[1] = f
  BY <1>1 DEF PacketsOf
<1>. QED
  BY <1>1 DEF IInv, SenderBooks, NetworkBooks

(**************************************************************************)
(*                              The sender                                *)
LEMMA SendEncodedFrameInv ==
  ASSUME IInv, stream' = stream,
         NEW kind \in {"key", "dependent"}, SendEncodedFrame(kind)
  PROVE  IInv'
<1>. DEFINE f == last_sent + 1
            gone == Superseded(kind)
<1>0. r' = r /\ air' = air /\ feedback' = feedback /\ spent' = spent
  BY DEF SendEncodedFrame
<1>1. /\ Frames \subseteq Nat \ {0} /\ last_sent \in Nat
      /\ \A g \in Frames : PacketsOf(g) \subseteq Pairs
      /\ s \in SenderRecord /\ r \in ReceiverRecord
      /\ f \in Frames /\ f \in Nat /\ f <= Len(stream.sizes)
  BY PacketShape DEF IInv, Typed, SendEncodedFrame, Frames
<1>2. /\ s.latest_acked \in Nat /\ s.latest_acked <= last_sent
      /\ r.acked \in Nat /\ s.latest_acked <= r.acked
      /\ f - s.latest_acked <= kMaxUnackedFrames
  <2>1. s.latest_acked \in Nat /\ r.acked \in Nat /\ r.newest \in Nat
    BY <1>1 DEF SenderRecord, ReceiverRecord
  <2>2. /\ s.latest_acked <= r.acked /\ r.acked <= r.newest
        /\ r.newest <= last_sent
    BY DEF IInv, SenderBooks, ReceiverBooks
  <2>. QED
    BY <1>1, <2>1, <2>2, WindowShape DEF SendEncodedFrame, Unacknowledged
<1>3. /\ gone \in {{}, s.latest_acked + 1 .. last_sent}
      /\ s'.restart = (IF s.picture_lost /\ kind = "key" THEN f ELSE s.restart)
      /\ gone = (IF s.picture_lost /\ kind = "key"
                   THEN s.latest_acked + 1 .. last_sent ELSE {})
      /\ s'.kinds = Append(s.kinds, kind) /\ s'.stored = (s.stored \cup {f}) \ gone
      /\ s'.latest_acked = s.latest_acked
      /\ s' \in SenderRecord
  <2>1. /\ Append(s.kinds, kind) \in Seq({"key", "dependent"})
        /\ (s.picture_lost /\ kind # "key") \in BOOLEAN
        /\ gone \subseteq Nat /\ s.stored \subseteq Nat /\ s.restart \in Nat
    BY <1>1, <1>2 DEF SenderRecord, Superseded
  <2>2. (IF s.picture_lost /\ kind = "key" THEN f ELSE s.restart) \in Nat
    BY <1>1, <2>1
  <2>3. s' = [s EXCEPT !.kinds = Append(s.kinds, kind),
                       !.picture_lost = s.picture_lost /\ kind # "key",
                       !.restart = IF s.picture_lost /\ kind = "key" THEN f ELSE s.restart,
                       !.stored = (s.stored \cup {f}) \ gone]
    BY DEF SendEncodedFrame
  <2>4. gone = (IF s.picture_lost /\ kind = "key"
                 THEN s.latest_acked + 1 .. last_sent ELSE {})
    BY DEF Superseded
  <2>. HIDE DEF gone
  <2>5. (s.stored \cup {f}) \ gone \subseteq Nat
    BY <1>1, <2>1
  <2>. QED
    BY <1>1, <2>1, <2>2, <2>3, <2>4, <2>5 DEF SenderRecord
<1>4. last_sent' = f
  BY <1>1, <1>3 DEF last_sent, SenderRecord
<1>5. ReceiverBooks' /\ Order'
  BY <1>0, <1>3, KindsGrow
<1>6. Typed'
  BY <1>0, <1>3 DEF IInv, Typed, ReceiverRecord, Message, Frames
<1>7. s'.stored = {g \in s'.latest_acked + 1 .. f : g >= s'.restart}
  <2>1. /\ s.stored = {g \in s.latest_acked + 1 .. last_sent : g >= s.restart}
        /\ s.restart \in Nat /\ s.restart <= last_sent
    BY <1>1 DEF IInv, SenderBooks, SenderRecord
  <2>. QED
    BY <1>1, <1>2, <1>3, <2>1
<1>8. SenderBooks'
  <2>1. paced' \subseteq UNION {PacketsOf(g) : g \in s'.stored}
    <3>1. ASSUME NEW p \in paced' PROVE \E g \in s'.stored : p \in PacketsOf(g)
      <4>1. p[1] \notin gone /\ p \in paced \cup PacketsOf(f)
        BY <3>1 DEF SendEncodedFrame
      <4>2. p \in PacketsOf(f) => p[1] = f
        BY DEF PacketsOf
      <4>3. p \in PacketsOf(p[1]) /\ p[1] \in s.stored \cup {f}
        BY <4>1, <4>2, PacketOfFrame
      <4>. QED
        BY <1>3, <4>1, <4>3
    <3>. QED
      BY <3>1
  <2>2. PacketsOf(1)' = PacketsOf(1) /\ \A g : PacketsOf(g)' = PacketsOf(g)
    BY DEF PacketsOf
  <2>3. s'.restart <= f
    BY <1>1, <1>3 DEF IInv, SenderBooks, SenderRecord
  <2>. QED
    BY <1>0, <1>1, <1>2, <1>3, <1>4, <1>7, <2>1, <2>2, <2>3 DEF SenderBooks
<1>9. NetworkBooks'
  <2>1. 1 .. last_sent \subseteq 1 .. f
    BY <1>1
  <2>2. air \subseteq UNION {PacketsOf(g) : g \in 1 .. last_sent}
    BY DEF IInv, NetworkBooks
  <2>3. air' \subseteq UNION {PacketsOf(g)' : g \in 1 .. f}
    BY <1>0, <2>1, <2>2 DEF PacketsOf
  <2>. QED
    BY <1>0, <1>4, <2>3 DEF IInv, NetworkBooks, Frames, PacketsOf
<1>. QED
  BY <1>5, <1>6, <1>8, <1>9 DEF IInv

(* A step that moves packets between the pacer and the network, or loses    *)
(* them, or changes nothing but bounds and the loss of the picture.         *)
LEMMA TransportInv ==
  ASSUME IInv, stream' = stream, r' = r, feedback' \subseteq feedback,
         s' = s \/ s' = [s EXCEPT !.picture_lost = TRUE],
         \A p \in paced' : p[1] \in s.stored /\ p \in PacketsOf(p[1]),
         \A p \in air' : p[1] \in 1 .. last_sent /\ p \in PacketsOf(p[1])
  PROVE  IInv'
<1>1. /\ s \in SenderRecord /\ s' \in SenderRecord
      /\ s'.kinds = s.kinds /\ s'.stored = s.stored /\ s'.restart = s.restart
      /\ s'.latest_acked = s.latest_acked
  BY DEF IInv, Typed, SenderRecord
<1>2. ReceiverBooks' /\ Order' /\ last_sent' = last_sent
  BY <1>1, KindsGrow DEF last_sent
<1>3. Typed'
  BY <1>1 DEF IInv, Typed, ReceiverRecord, Message, Frames
<1>4. \A f : PacketsOf(f)' = PacketsOf(f)
  BY DEF PacketsOf
<1>5. SenderBooks'
  <2>1. paced' \subseteq UNION {PacketsOf(f) : f \in s.stored}
    OBVIOUS
  <2>. QED
    BY <1>1, <1>2, <1>4, <2>1 DEF IInv, SenderBooks
<1>6. NetworkBooks'
  <2>1. air' \subseteq UNION {PacketsOf(f) : f \in 1 .. last_sent}
    OBVIOUS
  <2>. QED
    BY <1>2, <1>4, <2>1 DEF IInv, NetworkBooks, Frames
<1>. QED
  BY <1>2, <1>3, <1>5, <1>6 DEF IInv

LEMMA KickstartInv ==
  ASSUME IInv
  PROVE  \A p \in Kickstart : p[1] \in s.stored /\ p \in PacketsOf(p[1])
<1>1. last_sent \in s.stored => last_sent \in Frames
  <2>1. s.latest_acked \in Nat /\ last_sent \in Nat /\ 1 .. last_sent \subseteq Frames
    BY PacketShape DEF IInv, Typed, SenderRecord
  <2>2. last_sent \in s.stored => last_sent \in s.latest_acked + 1 .. last_sent
    BY DEF IInv, SenderBooks
  <2>. QED
    BY <2>1, <2>2
<1>2. last_sent \in s.stored => LastPacket(last_sent) \in PacketsOf(last_sent)
  BY <1>1, PacketShape
<1>. QED
  BY <1>2 DEF Kickstart, LastPacket

(* A cast message acknowledges frames and has others sent again.            *)
LEMMA OnReceivedCastMessageInv ==
  ASSUME IInv, stream' = stream, NEW m \in feedback, OnReceivedCastMessage(m),
         feedback' \subseteq feedback
  PROVE  IInv'
<1>. DEFINE acked == NewlyAcked(m)
<1>0. r' = r /\ air' = air
  BY DEF OnReceivedCastMessage
<1>1. /\ s \in SenderRecord /\ r \in ReceiverRecord /\ m \in Message
      /\ Frames \subseteq Nat \ {0} /\ last_sent \in Nat /\ 1 .. last_sent \subseteq Frames
  BY PacketShape DEF IInv, Typed
<1>2. /\ s.latest_acked \in Nat /\ m.ack \in Nat /\ r.acked \in Nat
      /\ s.latest_acked <= r.acked /\ m.ack <= r.acked /\ r.acked <= last_sent
      /\ s.restart \in Nat /\ s.restart <= last_sent
  <2>1. r.acked <= r.newest /\ r.newest <= last_sent /\ r.newest \in Nat
    BY <1>1 DEF IInv, ReceiverBooks, ReceiverRecord
  <2>. QED
    BY <1>1, <2>1 DEF IInv, SenderBooks, NetworkBooks, SenderRecord,
                      ReceiverRecord, Message
<1>3. /\ s' \in SenderRecord /\ s'.kinds = s.kinds /\ s'.restart = s.restart
      /\ s'.stored = s.stored \ acked /\ s'.latest_acked = LatestAcked(m)
  <2>1. PICK d \in 0 .. 4 :
          s' = [s EXCEPT !.duplicates = d, !.latest_acked = LatestAcked(m),
                         !.stored = s.stored \ acked]
    <3>1. s.duplicates \in 0 .. 4
      BY <1>1 DEF SenderRecord
    <3>2. CountDuplicate(s.duplicates) \in 0 .. 4 /\ 0 \in 0 .. 4
      BY <3>1 DEF CountDuplicate
    <3>. QED
      BY <3>2, Zenon DEF OnReceivedCastMessage
  <2>2. LatestAcked(m) \in Nat
    BY <1>2 DEF LatestAcked
  <2>3. s.stored \ acked \subseteq Nat
    BY <1>1 DEF SenderRecord
  <2>. HIDE DEF acked
  <2>. QED
    BY <1>1, <2>1, <2>2, <2>3 DEF SenderRecord
<1>4. last_sent' = last_sent /\ ReceiverBooks' /\ Order'
  BY <1>0, <1>3, KindsGrow DEF last_sent
<1>5. Typed'
  BY <1>0, <1>3 DEF IInv, Typed, ReceiverRecord, Message, Frames
<1>6. \A f : PacketsOf(f)' = PacketsOf(f)
  BY DEF PacketsOf
<1>7. s'.stored = {f \in s'.latest_acked + 1 .. last_sent : f >= s'.restart}
  <2>1. s.stored = {f \in s.latest_acked + 1 .. last_sent : f >= s.restart}
    BY DEF IInv, SenderBooks
  <2>. QED
    BY <1>1, <1>2, <1>3, <2>1 DEF LatestAcked, NewlyAcked
<1>8. \A p \in paced' : p[1] \in s'.stored /\ p \in PacketsOf(p[1])
  <2>. DEFINE listed == {f \in s.stored \ acked : m.missing[f] # {}}
  <2>1. ASSUME NEW p \in paced'
        PROVE  \/ p \in paced \cup Kickstart /\ p[1] \notin acked
               \/ \E f \in listed : p \in m.missing[f]
    BY <2>1 DEF OnReceivedCastMessage
  <2>2. ASSUME NEW f \in listed, NEW p \in m.missing[f]
        PROVE  p[1] \in s'.stored /\ p \in PacketsOf(p[1])
    <3>1. f \in s.stored \ acked /\ f \in Frames
      <4>1. s.stored \subseteq s.latest_acked + 1 .. last_sent
        BY DEF IInv, SenderBooks
      <4>. QED
        BY <1>1, <1>2, <4>1
    <3>2. p \in PacketsOf(f)
      BY <3>1 DEF IInv, NetworkBooks
    <3>3. p[1] = f
      BY <3>2 DEF PacketsOf
    <3>. QED
      BY <1>3, <3>1, <3>2, <3>3
  <2>. HIDE DEF acked, listed
  <2>. QED
    BY <1>3, <2>1, <2>2, KickstartInv, PacketOfFrame
<1>9. SenderBooks'
  <2>1. paced' \subseteq UNION {PacketsOf(f) : f \in s'.stored}
    BY <1>8
  <2>2. /\ s'.latest_acked \in Nat /\ s'.latest_acked <= r.acked
        /\ last_sent - s'.latest_acked <= kMaxUnackedFrames
    BY <1>1, <1>2, <1>3, WindowShape DEF LatestAcked, IInv, SenderBooks
  <2>. QED
    BY <1>0, <1>3, <1>4, <1>6, <1>7, <2>1, <2>2 DEF IInv, SenderBooks
<1>10. NetworkBooks'
  BY <1>0, <1>4, <1>6 DEF IInv, NetworkBooks, Frames
<1>. QED
  BY <1>4, <1>5, <1>9, <1>10 DEF IInv

(**************************************************************************)
(*                             The receiver                               *)
LEMMA MissingShape ==
  ASSUME IInv, NEW rec, NEW recently
  PROVE  /\ Missing(rec, recently) \in [Frames -> SUBSET Pairs]
         /\ \A f \in Frames : Missing(rec, recently)[f] \subseteq PacketsOf(f)
<1>1. ASSUME NEW f \in Frames
      PROVE  (IF Held(rec) = {} \/ f <= rec.acked \/ f > rec.newest \/ f \in recently
                THEN {}
                ELSE IF f \in Held(rec) THEN MissingOf(rec, f) ELSE PacketsOf(f))
             \in SUBSET PacketsOf(f)
  BY DEF MissingOf
<1>2. \A f \in Frames : PacketsOf(f) \subseteq Pairs
  BY PacketShape
<1>. QED
  BY <1>1, <1>2 DEF Missing

(* A step of the receiver may take packets from the network and put one     *)
(* message on it.                                                           *)
LEMMA ReceiverStepInv ==
  ASSUME IInv, stream' = stream, UNCHANGED sender, NEW rec, NEW recently,
         r' \in ReceiverRecord, r.acked <= r'.acked, air' \subseteq air,
         feedback' \subseteq feedback \cup {[ack |-> r'.acked, missing |-> Missing(rec, recently)]},
         ReceiverBooks', Order'
  PROVE  IInv'
<1>1. /\ s' = s /\ paced' = paced /\ last_sent' = last_sent /\ Frames' = Frames
      /\ \A f : PacketsOf(f)' = PacketsOf(f)
  BY DEF sender, last_sent, Frames, PacketsOf
<1>2. /\ r.acked \in Nat /\ r'.acked \in Nat /\ s \in SenderRecord
      /\ feedback \subseteq Message
  BY DEF IInv, Typed, ReceiverRecord
<1>3. [ack |-> r'.acked, missing |-> Missing(rec, recently)] \in Message
  BY <1>2, MissingShape DEF Message
<1>4. Typed'
  BY <1>1, <1>2, <1>3 DEF IInv, Typed, ReceiverRecord, Message
<1>5. SenderBooks'
  BY <1>1, <1>2 DEF IInv, SenderBooks, SenderRecord
<1>6. NetworkBooks'
  <2>1. ASSUME NEW m \in feedback'
        PROVE  m.ack <= r'.acked /\ \A f \in Frames : m.missing[f] \subseteq PacketsOf(f)
    <3>1. CASE m \in feedback
      <4>1. m.ack \in Nat /\ m.ack <= r.acked
        BY <1>2, <3>1 DEF IInv, NetworkBooks, Message
      <4>. QED
        BY <1>2, <3>1, <4>1 DEF IInv, NetworkBooks
    <3>2. CASE m = [ack |-> r'.acked, missing |-> Missing(rec, recently)]
      BY <1>2, <3>2, MissingShape
    <3>. QED
      BY <2>1, <3>1, <3>2
  <2>. QED
    BY <1>1, <2>1 DEF IInv, NetworkBooks
<1>. QED
  BY <1>4, <1>5, <1>6 DEF IInv

(* Some steps touch only what paces the receiver.                           *)
LEMMA PacingInv ==
  ASSUME IInv, stream' = stream, UNCHANGED sender, NEW rec, NEW recently,
         r' \in ReceiverRecord, r'.waiting_for_key = r.waiting_for_key,
         r'.last_released = r.last_released, r'.newest = r.newest,
         r'.acked = r.acked, r'.packets = r.packets, r'.emitted = r.emitted,
         r'.dropped = r.dropped, r'.start = r.start, r'.waiting <= r.newest,
         air' \subseteq air,
         feedback' \subseteq feedback \cup {[ack |-> r'.acked, missing |-> Missing(rec, recently)]}
  PROVE  IInv'
<1>1. /\ s' = s /\ last_sent' = last_sent /\ Frames' = Frames
      /\ Held(r)' = Held(r) /\ Emitted' = Emitted
      /\ \A f : PacketsOf(f)' = PacketsOf(f) /\ (Key(f)' <=> Key(f))
  BY DEF sender, last_sent, Frames, PacketsOf, Key, Held, Emitted
<1>2. ReceiverBooks'
  BY <1>1 DEF IInv, ReceiverBooks
<1>3. Order'
  BY <1>1 DEF IInv, Order, LossNeverCorrupts
<1>4. r.acked <= r'.acked
  BY DEF IInv, Typed, ReceiverRecord
<1>. QED
  BY <1>2, <1>3, <1>4, ReceiverStepInv

(* The frame the receiver is about to emit or to skip.                      *)
LEMMA CandidateIsFit ==
  ASSUME IInv, HasCandidate
  PROVE  /\ Candidate \in Held(r) /\ Candidate \in Frames /\ Candidate \in Nat
         /\ Candidate <= r.newest /\ r.acked < Candidate
         /\ ~r.waiting_for_key
         /\ Key(Candidate) \/ Candidate - 1 <= r.last_released
<1>1. Frames \subseteq Nat \ {0} /\ r \in ReceiverRecord
  BY PacketShape DEF IInv, Typed
<1>. DEFINE S == IF NextForRelease # {} THEN NextForRelease ELSE Decodable
<1>2. S # {} /\ S \subseteq Held(r) /\ S \subseteq Nat /\ S \in SUBSET Nat
  BY <1>1 DEF HasCandidate, NextForRelease, Decodable, Held
<1>3. Candidate \in S
  BY <1>2, LeastNatural DEF Candidate
<1>4. Candidate \in Held(r) /\ Candidate <= r.newest /\ r.acked < Candidate
  BY <1>2, <1>3 DEF IInv, ReceiverBooks
<1>5. \/ Candidate = r.last_released + 1 /\ (r.waiting_for_key => Key(Candidate))
      \/ IsDecodable(Candidate)
  BY <1>3 DEF NextForRelease, Decodable
<1>6. ~r.waiting_for_key
  BY <1>4, <1>5 DEF IsDecodable, IInv, ReceiverBooks
<1>7. r.last_released \in Nat /\ Candidate \in Frames /\ Candidate \in Nat
  BY <1>1, <1>4 DEF ReceiverRecord, Held
<1>8. Key(Candidate) \/ Candidate - 1 <= r.last_released
  BY <1>5, <1>7 DEF IsDecodable
<1>. QED
  BY <1>4, <1>6, <1>7, <1>8

(* Releasing that frame, emitted or dropped: it is the next in order, and   *)
(* what it refers to was released before it, unless it was held since       *)
(* before the start.                                                        *)
LEMMA ReleaseKeeps ==
  ASSUME IInv, HasCandidate, stream' = stream, UNCHANGED sender,
         r' \in ReceiverRecord, r'.waiting_for_key = r.waiting_for_key,
         r'.last_released = Candidate, r'.newest = r.newest,
         r'.waiting = r.waiting, r'.start = r.start,
         r'.packets = [g \in Frames |-> IF g <= Candidate THEN {} ELSE r.packets[g]],
         r'.acked \in {r.acked, Candidate},
         \/ r'.emitted = r.emitted /\ r'.dropped = r.dropped \cup {Candidate}
         \/ /\ r'.emitted = Append(r.emitted, Candidate)
            /\ r'.dropped = r.dropped /\ r'.acked = Candidate
  PROVE  ReceiverBooks' /\ Order' /\ r.acked <= r'.acked
<1>. DEFINE c == Candidate
<1>1. /\ s' = s /\ last_sent' = last_sent /\ Frames' = Frames
      /\ \A f : PacketsOf(f)' = PacketsOf(f) /\ (Key(f)' <=> Key(f))
  BY DEF sender, last_sent, Frames, PacketsOf, Key
<1>2. /\ c \in Held(r) /\ c \in Frames /\ c \in Nat /\ c # 0
      /\ c <= r.newest /\ r.acked < c /\ ~r.waiting_for_key
      /\ Key(c) \/ c - 1 <= r.last_released
  BY CandidateIsFit, PacketShape
<1>3. /\ r \in ReceiverRecord /\ last_sent \in Nat /\ Frames \subseteq Nat
      /\ r.newest <= last_sent
  BY PacketShape DEF IInv, Typed, ReceiverBooks
<1>. HIDE DEF c
<1>4. /\ Held(r)' \subseteq Held(r) /\ \A f \in Held(r)' : c < f
      /\ \A f \in Frames : r'.packets[f] \subseteq r.packets[f]
  <2>1. \A g \in Frames : r'.packets[g] = IF g <= c THEN {} ELSE r.packets[g]
    BY DEF c
  <2>2. ASSUME NEW f \in Held(r)' PROVE f \in Held(r) /\ c < f
    <3>1. f \in Frames /\ r'.packets[f] # {}
      BY <1>1, <2>2 DEF Held
    <3>2. ~(f <= c) /\ r.packets[f] # {}
      BY <2>1, <3>1
    <3>3. f \in Nat /\ c \in Nat
      BY <1>2, <1>3, <3>1
    <3>4. c < f
      BY <3>2, <3>3
    <3>5. f \in Held(r)
      BY <3>1, <3>2 DEF Held
    <3>. QED
      BY <3>4, <3>5
  <2>. QED
    BY <2>1, <2>2
<1>5. r.acked <= r'.acked /\ r'.acked <= c
  BY <1>2, <1>3 DEF ReceiverRecord, c
<1>6. ReceiverBooks'
  <2>1. r'.acked <= r.newest /\ c <= last_sent
    BY <1>2, <1>3, <1>5 DEF ReceiverRecord
  <2>2. \A f \in Held(r)' : f <= r.newest /\ r'.acked < f
    <3>1. \A f \in Held(r)' : f \in Nat /\ f <= r.newest /\ c < f
      BY <1>1, <1>3, <1>4 DEF IInv, ReceiverBooks, Held
    <3>. QED
      BY <1>2, <1>3, <1>5, <3>1 DEF ReceiverRecord
  <2>. QED
    BY <1>1, <1>2, <1>3, <1>4, <1>5, <2>1, <2>2 DEF IInv, ReceiverBooks, c
<1>7. /\ r.emitted \in Seq(Nat) /\ r'.emitted \in Seq(Nat)
      /\ \A i \in DOMAIN r.emitted : r.emitted[i] \in 1 .. r.acked
      /\ r.acked \in Nat
  BY <1>3 DEF ReceiverRecord, IInv, Order
<1>. DEFINE n == Len(r.emitted)
<1>8. /\ n \in Nat /\ DOMAIN r.emitted = 1 .. n
      /\ \/ r'.emitted = r.emitted /\ c \in r'.dropped
         \/ /\ DOMAIN r'.emitted = 1 .. n + 1 /\ r'.acked = c
            /\ \A i \in 1 .. n : r'.emitted[i] = r.emitted[i]
            /\ r'.emitted[n + 1] = c
  <2>1. n \in Nat /\ DOMAIN r.emitted = 1 .. n
    BY <1>7
  <2>2. CASE r'.emitted = r.emitted /\ r'.dropped = r.dropped \cup {Candidate}
    BY <2>1, <2>2 DEF c
  <2>3. CASE r'.emitted = Append(r.emitted, c) /\ r'.acked = c
    <3>. DEFINE q == r.emitted
    <3>1. q \in Seq(Nat) /\ c \in Nat
      BY <1>2, <1>7
    <3>. HIDE DEF q
    <3>2. /\ DOMAIN Append(q, c) = 1 .. Len(q) + 1
          /\ \A i \in 1 .. Len(q) : Append(q, c)[i] = q[i]
          /\ Append(q, c)[Len(q) + 1] = c
      BY <3>1
    <3>. QED
      BY <2>1, <2>3, <3>2 DEF q
  <2>. QED
    BY <2>1, <2>2, <2>3 DEF c
<1>. HIDE DEF n
<1>8_1. \/ Emitted' = Emitted /\ c \in r'.dropped
       \/ Emitted' = Emitted \cup {c}
  <2>1. CASE r'.emitted = r.emitted /\ c \in r'.dropped
    BY <2>1 DEF Emitted
  <2>2. CASE /\ DOMAIN r'.emitted = 1 .. n + 1
             /\ \A i \in 1 .. n : r'.emitted[i] = r.emitted[i]
             /\ r'.emitted[n + 1] = c
    <3>1. 1 .. n + 1 = 1 .. n \cup {n + 1}
      BY <1>8
    <3>. QED
      BY <1>8, <2>2, <3>1 DEF Emitted
  <2>. QED
    BY <1>8, <2>1, <2>2
<1>9. \A i \in DOMAIN r'.emitted : r'.emitted[i] \in 1 .. r'.acked
  <2>. SUFFICES ASSUME NEW i \in DOMAIN r'.emitted
                PROVE  r'.emitted[i] \in 1 .. r'.acked
    OBVIOUS
  <2>1. CASE i \in 1 .. n /\ r'.emitted[i] = r.emitted[i]
    <3>1. r.emitted[i] \in 1 .. r.acked /\ r.acked \in Nat
      BY <1>7, <1>8, <2>1
    <3>2. r'.acked \in Nat /\ r.acked <= r'.acked
      BY <1>5 DEF ReceiverRecord
    <3>. QED
      BY <2>1, <3>1, <3>2
  <2>2. CASE r'.emitted[i] = c /\ r'.acked = c
    BY <1>2, <2>2
  <2>. QED
    BY <1>8, <2>1, <2>2
<1>10. \A i, j \in DOMAIN r'.emitted : i < j => r'.emitted[i] < r'.emitted[j]
  <2>1. \A i, j \in DOMAIN r.emitted : i < j => r.emitted[i] < r.emitted[j]
    BY DEF IInv, Order, LossNeverCorrupts
  <2>2. \A i \in DOMAIN r.emitted : r.emitted[i] < c
    BY <1>2, <1>7
  <2>3. CASE r'.emitted = r.emitted
    BY <2>1, <2>3
  <2>4. CASE /\ DOMAIN r'.emitted = 1 .. n + 1
             /\ \A i \in 1 .. n : r'.emitted[i] = r.emitted[i]
             /\ r'.emitted[n + 1] = c
    <3>. SUFFICES ASSUME NEW i \in 1 .. n + 1, NEW j \in 1 .. n + 1, i < j
                  PROVE  r'.emitted[i] < r'.emitted[j]
      BY <2>4
    <3>1. n \in Nat /\ i \in 1 .. n /\ (j \in 1 .. n \/ j = n + 1)
      BY <1>8
    <3>2. r'.emitted[i] = r.emitted[i] /\ i \in DOMAIN r.emitted
      BY <1>8, <2>4, <3>1
    <3>3. CASE j \in 1 .. n
      <4>1. r'.emitted[j] = r.emitted[j] /\ j \in DOMAIN r.emitted
        BY <1>8, <2>4, <3>3
      <4>. QED
        BY <2>1, <3>2, <4>1
    <3>4. CASE j = n + 1
      BY <2>2, <2>4, <3>2, <3>4
    <3>. QED
      BY <3>1, <3>3, <3>4
  <2>. QED
    BY <1>8, <2>3, <2>4
<1>11. Emitted \cup r.dropped \subseteq (Emitted \cup r.dropped)'
  BY <1>8_1
<1>12. Key(c) \/ c - 1 \in Emitted \cup r.dropped \/ c < r.start
  <2>. SUFFICES ASSUME ~Key(c) PROVE c - 1 \in Emitted \cup r.dropped \/ c < r.start
    OBVIOUS
  <2>1. r.last_released \in Nat /\ r.start \in Nat /\ c - 1 <= r.last_released
    BY <1>2, <1>3 DEF ReceiverRecord
  <2>2. CASE r.last_released + 1 = r.start /\ Key(r.start)
    BY <1>2, <2>1, <2>2
  <2>3. CASE /\ r.last_released \in Emitted \cup r.dropped
             /\ \A f \in Held(r) : r.last_released < f
    <3>1. c - 1 = r.last_released
      BY <1>2, <2>1, <2>3
    <3>. QED
      BY <2>3, <3>1
  <2>. QED
    BY <1>2, <2>2, <2>3 DEF IInv, Order
<1>13. \A f \in Emitted' : Key(f) \/ f - 1 \in (Emitted \cup r.dropped)' \/ f < r.start
  BY <1>8_1, <1>11, <1>12 DEF IInv, Order, LossNeverCorrupts
<1>14. c \in (Emitted \cup r.dropped)'
  BY <1>8_1
<1>15. Order'
  BY <1>1, <1>4, <1>9, <1>10, <1>13, <1>14 DEF Order, LossNeverCorrupts, c
<1>. QED
  BY <1>5, <1>6, <1>15

LEMMA EmitAvailableEncodedFramesInv ==
  ASSUME IInv, stream' = stream, EmitAvailableEncodedFrames PROVE IInv'
<1>0. r \in ReceiverRecord
  BY DEF IInv, Typed
<1>1. CASE NothingToEmit
  <2>1. r' = [r EXCEPT !.emitting = FALSE] /\ r' \in ReceiverRecord
    BY <1>0, <1>1 DEF NothingToEmit, ReceiverRecord
  <2>2. r'.waiting <= r.newest
    BY <1>0, <2>1 DEF IInv, ReceiverBooks, ReceiverRecord
  <2>. QED
    BY <1>0, <1>1, <2>1, <2>2, PacingInv DEF NothingToEmit, ReceiverRecord
<1>2. CASE WaitsForConsecutive
  <2>. DEFINE w == IF r.waiting = 0 THEN Candidate ELSE r.waiting
  <2>1. w \in Nat /\ w <= r.newest
    BY <1>0, <1>2, CandidateIsFit DEF WaitsForConsecutive, IInv, ReceiverBooks,
                                      ReceiverRecord
  <2>2. r' = [r EXCEPT !.emitting = FALSE, !.waiting = w]
    BY <1>2 DEF WaitsForConsecutive
  <2>. HIDE DEF w
  <2>3. r' \in ReceiverRecord
    BY <1>0, <2>1, <2>2 DEF ReceiverRecord
  <2>. QED
    BY <1>0, <1>2, <2>1, <2>2, <2>3, PacingInv DEF WaitsForConsecutive, ReceiverRecord
<1>3. CASE SkipsLateFrame
  <2>. DEFINE next == Released([r EXCEPT !.dropped = @ \cup {Candidate}], Candidate)
  <2>1. /\ HasCandidate /\ UNCHANGED <<sender, air, spent>>
        /\ r' = next
        /\ Reports(next, {}, next) \/ UNCHANGED feedback
    BY <1>3 DEF SkipsLateFrame, Reports
  <2>2. Candidate \in Nat /\ Frames \subseteq Nat
    BY <2>1, CandidateIsFit, PacketShape
  <2>3. r.dropped \cup {Candidate} \in SUBSET Nat
    BY <1>0, <2>2 DEF ReceiverRecord
  <2>4. [g \in Frames |-> IF g <= Candidate THEN {} ELSE r.packets[g]]
          \in [Frames -> SUBSET Pairs]
    BY <1>0 DEF ReceiverRecord
  <2>5. next = [r EXCEPT !.dropped = r.dropped \cup {Candidate},
                         !.last_released = Candidate,
                         !.packets = [g \in Frames |-> IF g <= Candidate THEN {}
                                                       ELSE r.packets[g]]]
    BY <1>0 DEF Released, ReceiverRecord
  <2>6. next \in ReceiverRecord
    BY <1>0, <2>2, <2>3, <2>4, <2>5 DEF ReceiverRecord
  <2>. HIDE DEF next
  <2>7. ReceiverBooks' /\ Order' /\ r.acked <= r'.acked
    BY <1>0, <2>1, <2>5, <2>6, ReleaseKeeps DEF ReceiverRecord
  <2>8. feedback' \subseteq feedback \cup {[ack |-> r'.acked, missing |-> Missing(next, {})]}
    BY <2>1 DEF Reports
  <2>. QED
    BY <2>1, <2>6, <2>7, <2>8, ReceiverStepInv
<1>4. CASE EmitsFrame
  <2>. DEFINE c == Candidate
              acked == Acked(c)
              emitted == [acked EXCEPT !.emitted = Append(@, c), !.requested = FALSE]
              dropped == [acked EXCEPT !.dropped = @ \cup {c}]
              kept == [g \in Frames |-> IF g <= c THEN {} ELSE r.packets[g]]
  <2>1. PICK recently \in SUBSET Frames :
          Reports(acked, recently, Released(emitted, c))
            \/ Reports(acked, recently, Released(dropped, c))
    BY <1>4 DEF EmitsFrame
  <2>2. /\ HasCandidate /\ UNCHANGED <<sender, air>>
        /\ r' = Released(emitted, c) \/ r' = Released(dropped, c)
        /\ feedback' \subseteq feedback \cup {[ack |-> acked.acked, missing |-> Missing(acked, recently)]}
    BY <1>4, <2>1 DEF EmitsFrame, Reports
  <2>3. c \in Nat /\ Frames \subseteq Nat
    BY <2>2, CandidateIsFit, PacketShape
  <2>4. kept \in [Frames -> SUBSET Pairs]
    BY <1>0 DEF ReceiverRecord
  <2>5. acked = [r EXCEPT !.acked = c] /\ acked \in ReceiverRecord /\ acked.acked = c
    BY <1>0, <2>3 DEF Acked, ReceiverRecord
  <2>. HIDE DEF c, acked
  <2>6. \/ r' = [acked EXCEPT !.emitted = Append(acked.emitted, c), !.requested = FALSE,
                               !.last_released = c, !.packets = kept]
        \/ r' = [acked EXCEPT !.dropped = acked.dropped \cup {c},
                               !.last_released = c, !.packets = kept]
    <3>1. /\ emitted = [acked EXCEPT !.emitted = Append(acked.emitted, c), !.requested = FALSE]
          /\ dropped = [acked EXCEPT !.dropped = acked.dropped \cup {c}]
      OBVIOUS
    <3>2. emitted.packets = r.packets /\ dropped.packets = r.packets
      BY <1>0, <2>5, <3>1 DEF ReceiverRecord
    <3>. HIDE DEF emitted, dropped
    <3>3. \/ r' = [emitted EXCEPT !.last_released = c, !.packets = kept]
          \/ r' = [dropped EXCEPT !.last_released = c, !.packets = kept]
      BY <2>2, <3>2 DEF Released
    <3>. HIDE DEF kept
    <3>. QED
      BY <1>0, <2>5, <3>1, <3>3 DEF ReceiverRecord
  <2>7. Append(acked.emitted, c) \in Seq(Nat) /\ acked.dropped \cup {c} \in SUBSET Nat
    <3>1. acked.emitted \in Seq(Nat) /\ acked.dropped \in SUBSET Nat
      BY <2>5 DEF ReceiverRecord
    <3>. QED
      BY <2>3, <3>1
  <2>. HIDE DEF kept
  <2>8. r' \in ReceiverRecord
    BY <2>3, <2>4, <2>5, <2>6, <2>7, ZenonT(60) DEF ReceiverRecord
  <2>9. ReceiverBooks' /\ Order' /\ r.acked <= r'.acked
    BY <1>0, <2>2, <2>5, <2>6, <2>8, ReleaseKeeps, ZenonT(60) DEF ReceiverRecord, c, kept
  <2>10. r'.acked = c
    BY <2>2, <2>5, <2>6 DEF ReceiverRecord
  <2>. QED
    BY <2>2, <2>5, <2>8, <2>9, <2>10, ReceiverStepInv
<1>. QED
  BY <1>1, <1>2, <1>3, <1>4 DEF EmitAvailableEncodedFrames

(* A packet arrives: of a frame the receiver may still want it is held, and *)
(* the first of a key frame makes the receiver start there.                 *)
LEMMA ProcessPacketInv ==
  ASSUME IInv, stream' = stream, NEW p \in air, ProcessPacket(p), air' \subseteq air
  PROVE  IInv'
<1>. DEFINE f == p[1]
            starts == r.waiting_for_key /\ Key(f)
            released == IF starts THEN f - 1 ELSE r.last_released
            old == f <= released /\ (starts \/ ~r.waiting_for_key)
            known == [r EXCEPT !.last_released = released,
                               !.waiting_for_key = @ /\ ~starts,
                               !.start = IF starts THEN f ELSE @]
<1>0. UNCHANGED sender /\ feedback' = feedback
  BY DEF ProcessPacket
<1>1. /\ s' = s /\ last_sent' = last_sent /\ Frames' = Frames
      /\ \A g : PacketsOf(g)' = PacketsOf(g) /\ (Key(g)' <=> Key(g))
  BY <1>0 DEF sender, last_sent, Frames, PacketsOf, Key
<1>2. /\ f \in 1 .. last_sent /\ p \in PacketsOf(f) /\ last_sent \in Nat
      /\ Frames \subseteq Nat \ {0} /\ f \in Frames /\ p \in Pairs
      /\ r \in ReceiverRecord
  BY PacketShape, PacketOfFrame DEF IInv, Typed
<1>. DEFINE seen == IF f > r.newest THEN f ELSE r.newest
            held == [r.packets EXCEPT ![f] = @ \cup {p}]
            completes == p \notin r.packets[f] /\ r.packets[f] \cup {p} = PacketsOf(f)
<1>3. r' = IF old THEN known
           ELSE [known EXCEPT !.newest = seen, !.packets = held, !.emitting = completes]
  <2>1. known.packets = r.packets /\ known.newest = r.newest
    BY <1>2 DEF ReceiverRecord
  <2>2. [known EXCEPT !.packets[f] = @ \cup {p}] = [known EXCEPT !.packets = held]
    BY <2>1
  <2>. QED
    BY <2>1, <2>2 DEF ProcessPacket
<1>4. /\ released \in Nat /\ (r.waiting_for_key /\ ~starts) \in BOOLEAN
      /\ (IF starts THEN f ELSE r.start) \in Nat
      /\ seen \in Nat /\ completes \in BOOLEAN
  BY <1>2 DEF ReceiverRecord
<1>5. held \in [Frames -> SUBSET Pairs] /\ \A g \in Frames : held[g] = r.packets[g] \cup
                                             (IF g = f THEN {p} ELSE {})
  <2>1. r.packets \in [Frames -> SUBSET Pairs]
    BY <1>2 DEF ReceiverRecord
  <2>. QED
    BY <1>2, <2>1
<1>6. known = [r EXCEPT !.last_released = released,
                        !.waiting_for_key = r.waiting_for_key /\ ~starts,
                        !.start = IF starts THEN f ELSE r.start]
  OBVIOUS
<1>. DEFINE waits == r.waiting_for_key /\ ~starts
            from == IF starts THEN f ELSE r.start
<1>7. /\ waits \in BOOLEAN /\ from \in Nat
      /\ known = [r EXCEPT !.last_released = released, !.waiting_for_key = waits,
                           !.start = from]
  BY <1>4, <1>6
<1>8. /\ starts => waits = FALSE /\ released = f - 1 /\ from = f /\ ~old
      /\ ~starts => waits = r.waiting_for_key /\ released = r.last_released /\ from = r.start
      /\ old => ~r.waiting_for_key
      /\ ~old => f > released \/ r.waiting_for_key
      /\ starts <=> r.waiting_for_key /\ Key(f)
  BY <1>2, <1>4 DEF ReceiverRecord
<1>9. seen \in Nat /\ r.newest <= seen /\ f <= seen /\ seen <= last_sent
  BY <1>2 DEF ReceiverRecord, IInv, ReceiverBooks
<1>. HIDE DEF old, released, waits, from, seen, held, completes, known, starts
<1>10. r' \in ReceiverRecord
  BY <1>2, <1>3, <1>4, <1>5, <1>7, <1>9, ZenonT(60) DEF ReceiverRecord
<1>11. /\ r'.last_released = released /\ r'.waiting_for_key = waits /\ r'.start = from
       /\ r'.acked = r.acked /\ r'.emitted = r.emitted /\ r'.dropped = r.dropped
       /\ r'.waiting = r.waiting
       /\ \/ old /\ r'.packets = r.packets /\ r'.newest = r.newest
          \/ ~old /\ r'.packets = held /\ r'.newest = seen
  BY <1>2, <1>3, <1>4, <1>7 DEF ReceiverRecord
<1>12. Emitted' = Emitted
  BY <1>11 DEF Emitted
<1>13. Held(r)' \subseteq Held(r) \cup {f} /\ (old => Held(r)' = Held(r))
  BY <1>1, <1>5, <1>11 DEF Held
<1>14. /\ r.acked \in Nat /\ r.last_released \in Nat /\ r.acked <= r.last_released
       /\ r.waiting_for_key => r.last_released = 0 /\ r.emitted = << >>
  BY <1>2 DEF ReceiverRecord, IInv, ReceiverBooks
<1>15. ReceiverBooks'
  <2>1. /\ r'.newest <= last_sent /\ r.newest <= r'.newest
        /\ r'.newest \in Nat /\ r.newest \in Nat
    BY <1>2, <1>9, <1>11 DEF ReceiverRecord, IInv, ReceiverBooks
  <2>2. r.acked <= released /\ released <= last_sent
    BY <1>2, <1>8, <1>14 DEF IInv, ReceiverBooks
  <2>3. r.acked <= r'.newest /\ r.waiting <= r'.newest
    BY <1>2, <2>1 DEF ReceiverRecord, IInv, ReceiverBooks
  <2>4. \A g \in Frames : r'.packets[g] \subseteq PacketsOf(g)
    BY <1>2, <1>5, <1>11 DEF IInv, ReceiverBooks
  <2>5. \A g \in Held(r)' : g <= r'.newest /\ r.acked < g
    <3>1. \A g \in Held(r) : g \in Nat /\ g <= r.newest /\ r.acked < g
      BY <1>2 DEF IInv, ReceiverBooks, Held
    <3>2. ~old => f <= r'.newest /\ r.acked < f
      BY <1>2, <1>8, <1>9, <1>11, <1>14, <2>2, <1>4
    <3>. QED
      BY <1>13, <2>1, <3>1, <3>2
  <2>6. waits => /\ released = 0 /\ r.emitted = << >> /\ \A g \in Held(r)' : ~Key(g)
    BY <1>7, <1>8, <1>13, <1>14 DEF IInv, ReceiverBooks
  <2>. QED
    BY <1>1, <1>11, <2>1, <2>2, <2>3, <2>4, <2>5, <2>6 DEF ReceiverBooks
<1>16. Order'
  <2>1. \A i \in DOMAIN r.emitted : r.emitted[i] \in 1 .. r.acked
    BY DEF IInv, Order
  <2>2. /\ \A i, j \in DOMAIN r.emitted : i < j => r.emitted[i] < r.emitted[j]
        /\ \A g \in Emitted : Key(g) \/ g - 1 \in Emitted \cup r.dropped \/ g < from
    <3>1. CASE starts
      BY <1>8, <1>14, <3>1 DEF Emitted
    <3>2. CASE ~starts
      BY <1>8, <3>2 DEF IInv, Order, LossNeverCorrupts
    <3>. QED
      BY <3>1, <3>2
  <2>3. ASSUME ~waits
        PROVE  \/ released + 1 = from /\ from <= last_sent /\ Key(from)
               \/ /\ released \in Emitted \cup r.dropped
                  /\ \A g \in Held(r)' : released < g
    <3>1. CASE starts
      BY <1>2, <1>8, <3>1
    <3>2. CASE ~starts
      BY <1>2, <1>8, <1>13, <2>3, <3>2 DEF IInv, Order
    <3>. QED
      BY <3>1, <3>2
  <2>. QED
    BY <1>1, <1>11, <1>12, <2>1, <2>2, <2>3 DEF Order, LossNeverCorrupts
<1>. QED
  BY <1>0, <1>10, <1>11, <1>14, <1>15, <1>16, ReceiverStepInv

LEMMA ReceiverStepsInv ==
  ASSUME IInv, stream' = stream, ReceiverSteps PROVE IInv'
<1>0. /\ r \in ReceiverRecord /\ r.waiting <= r.newest
  BY DEF IInv, Typed, ReceiverBooks
<1>1. CASE SendNextCastMessage
  <2>1. /\ UNCHANGED <<sender, air, spent>> /\ r' = r
        /\ feedback' \subseteq feedback \cup {[ack |-> r.acked, missing |-> Missing(r, {})]}
    BY <1>1 DEF SendNextCastMessage, Reports
  <2>. QED
    BY <1>0, <2>1, PacingInv
<1>2. CASE RequestEncodedFrame
  <2>1. r' \in ReceiverRecord
    BY <1>0, <1>2 DEF RequestEncodedFrame, ReceiverRecord
  <2>. QED
    BY <1>0, <1>2, <2>1, PacingInv DEF RequestEncodedFrame, ReceiverRecord
<1>3. CASE EmitAvailableEncodedFramesAfterWaiting
  <2>1. r' \in ReceiverRecord
    BY <1>0, <1>3 DEF EmitAvailableEncodedFramesAfterWaiting, ReceiverRecord
  <2>2. r'.waiting = 0 /\ r.newest \in Nat
    BY <1>0, <1>3 DEF EmitAvailableEncodedFramesAfterWaiting, ReceiverRecord
  <2>. QED
    BY <1>0, <1>3, <2>1, <2>2, PacingInv
       DEF EmitAvailableEncodedFramesAfterWaiting, ReceiverRecord
<1>. QED
  BY <1>1, <1>2, <1>3 DEF ReceiverSteps

LEMMA SenderStepsInv ==
  ASSUME IInv, stream' = stream, SenderSteps PROVE IInv'
<1>0. /\ \A p \in paced : p[1] \in s.stored /\ p \in PacketsOf(p[1])
      /\ \A p \in air : p[1] \in 1 .. last_sent /\ p \in PacketsOf(p[1])
      /\ s.stored \subseteq 1 .. last_sent
  <2>1. s.latest_acked \in Nat /\ last_sent \in Nat
    BY PacketShape DEF IInv, Typed, SenderRecord
  <2>. QED
    BY <2>1, PacketOfFrame DEF IInv, SenderBooks
<1>1. CASE \E kind \in {"key", "dependent"} : SendEncodedFrame(kind)
  BY <1>1, SendEncodedFrameInv
<1>2. CASE OnReceivedPli
  BY <1>0, <1>2, TransportInv DEF OnReceivedPli
<1>3. CASE ResendCheck
  BY <1>0, <1>3, KickstartInv, TransportInv DEF ResendCheck
<1>4. CASE SendStoredPackets
  <2>1. \A p \in air' : p[1] \in 1 .. last_sent /\ p \in PacketsOf(p[1])
    BY <1>0, <1>4 DEF SendStoredPackets
  <2>. QED
    BY <1>4, <2>1, TransportInv DEF SendStoredPackets
<1>5. CASE \E p \in paced : Sends(p)
  <2>1. PICK p \in paced : Sends(p)
    BY <1>5
  <2>2. \A q \in air' : q[1] \in 1 .. last_sent /\ q \in PacketsOf(q[1])
    BY <1>0, <2>1 DEF Sends
  <2>. QED
    BY <1>0, <2>1, <2>2, TransportInv DEF Sends
<1>. QED
  BY <1>1, <1>2, <1>3, <1>4, <1>5 DEF SenderSteps

LEMMA NetworkStepsInv ==
  ASSUME IInv, stream' = stream, NetworkSteps PROVE IInv'
<1>0. /\ \A p \in paced : p[1] \in s.stored /\ p \in PacketsOf(p[1])
      /\ \A p \in air : p[1] \in 1 .. last_sent /\ p \in PacketsOf(p[1])
  BY PacketOfFrame
<1>1. ASSUME NEW p \in air, Arrives(p) \/ ArrivesRepeated(p) PROVE IInv'
  BY <1>1, ProcessPacketInv DEF Arrives, ArrivesRepeated
<1>2. ASSUME NEW p \in air, Lost(p) PROVE IInv'
  BY <1>0, <1>2, TransportInv DEF Lost, sender
<1>3. ASSUME NEW m \in feedback, FeedbackArrives(m) \/ FeedbackRepeated(m) PROVE IInv'
  BY <1>3, OnReceivedCastMessageInv DEF FeedbackArrives, FeedbackRepeated
<1>4. ASSUME NEW m \in feedback, FeedbackLost(m) PROVE IInv'
  BY <1>0, <1>4, TransportInv DEF FeedbackLost, sender
<1>. QED
  BY <1>1, <1>2, <1>3, <1>4 DEF NetworkSteps

LEMMA NextInv == IInv /\ [Next]_<<vars, stream>> => IInv'
<1>1. ASSUME IInv, Next PROVE IInv'
  BY <1>1, EmitAvailableEncodedFramesInv, SenderStepsInv, ReceiverStepsInv,
     NetworkStepsInv DEF Next
<1>2. ASSUME IInv, UNCHANGED <<vars, stream>> PROVE IInv'
  <2>1. /\ \A p \in paced : p[1] \in s.stored /\ p \in PacketsOf(p[1])
        /\ \A p \in air : p[1] \in 1 .. last_sent /\ p \in PacketsOf(p[1])
    BY <1>2, PacketOfFrame
  <2>. QED
    BY <1>2, <2>1, TransportInv DEF vars
<1>. QED
  BY <1>1, <1>2

LEMMA Invariance == Spec => []IInv
  BY InitInv, NextInv, PTL DEF Spec

(**************************************************************************)
(* Both ends keep their books: only unacknowledged frames are stored, only  *)
(* their packets wait to be sent, and nobody acknowledges or waits for a    *)
(* frame that was never sent.                                               *)
THEOREM TypeCorrect == Spec => []TypeOK
<1>1. IInv => TypeOK
  <2>. SUFFICES ASSUME IInv PROVE TypeOK
    OBVIOUS
  <2>1. /\ s \in SenderRecord /\ r \in ReceiverRecord /\ last_sent \in Nat
    BY PacketShape DEF IInv, Typed
  <2>2. /\ s.latest_acked \in Nat /\ r.acked \in Nat /\ r.newest \in Nat
        /\ r.last_released \in Nat /\ r.waiting \in Nat /\ s.duplicates \in 0 .. 4
    BY <2>1 DEF SenderRecord, ReceiverRecord
  <2>. QED
    BY <2>1, <2>2 DEF IInv, SenderBooks, NetworkBooks, ReceiverBooks, TypeOK,
                      Unacknowledged
<1>. QED
  BY <1>1, Invariance, PTL

(* A frame that the receiver may still want is there to be sent again,      *)
(* whatever was lost or acknowledged (CancelSendingFrames(), the books of   *)
(* PacketStorage), unless a key frame took its place.                       *)
THEOREM WantedFramesAreStored == Spec => []StoredUntilReceived
<1>1. IInv => StoredUntilReceived
  <2>. SUFFICES ASSUME IInv, NEW f \in r.last_released + 1 .. last_sent
                PROVE  f \in s.stored \/ f < s.restart
    BY DEF StoredUntilReceived
  <2>1. /\ s.latest_acked \in Nat /\ r.acked \in Nat /\ r.last_released \in Nat
        /\ s.restart \in Nat /\ last_sent \in Nat
    BY PacketShape DEF IInv, Typed, SenderRecord, ReceiverRecord
  <2>. QED
    BY <2>1, SMTT(30) DEF IInv, SenderBooks, ReceiverBooks
<1>. QED
  BY <1>1, Invariance, PTL

(* Losses, repeats and reordering never make the receiver emit a frame      *)
(* twice, out of order or without the one it refers to.                     *)
THEOREM LossIsHarmless == Spec => []LossNeverCorrupts
<1>1. IInv => LossNeverCorrupts
  BY DEF IInv, Order
<1>. QED
  BY <1>1, Invariance, PTL
=============================================================================
