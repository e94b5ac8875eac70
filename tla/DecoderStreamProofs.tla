------------------------- MODULE DecoderStreamProofs -------------------------
(***************************************************************************)
(* For every stream, number of decoders and requests, and any failures,      *)
(* config changes and resets: the members of DecoderStream agree with what   *)
(* decoder, demuxer and selector are doing.  For one request at a time, the  *)
(* decoder's contract is kept and an error stays.                            *)
(***************************************************************************)
EXTENDS DecoderStream, SequenceTheorems, TLAPS

USE DecoderStreamAssumption

(* What a handler finds and leaves.                                         *)
St == [ds : Members, sel : Selector, dec : Decoder, demux : Stream, client : Client]

Away == {"UNINITIALIZED", "INITIALIZING", "destroyed"}
Running == {"NORMAL", "FLUSHING_DECODER", "END_OF_STREAM"}

(* The requests that are counted are those of the decoder.                  *)
Counts(w) == w.ds.pending_decode_requests = Len(w.dec.todo)

Prepares(w) == w.ds.preparing_output => w.ds.unprepared_outputs # << >>

(* A read is pending where the members say so, and never while the decoder  *)
(* is flushed.                                                              *)
Reading(w) ==
  /\ w.ds.pending_demuxer_read <=> w.demux.reading # "none"
  /\ w.ds.pending_demuxer_read => w.ds.state \notin Away \cup {"FLUSHING_DECODER"}

(* During a Reset() there are no outputs; first the DecryptingDemuxerStream  *)
(* is reset, then the decoder, neither while the decoder is replaced.       *)
Empty(m) == /\ ~m.read_cb /\ ~m.preparing_output
            /\ m.ready_outputs = << >> /\ m.unprepared_outputs = << >>

Resetting(w) ==
  /\ w.ds.reset_cb => w.ds.state \notin Away /\ Empty(w.ds)
  /\ w.dec.resetting =>
       /\ w.ds.reset_cb /\ w.ds.state # "REINITIALIZING_DECODER"
       /\ w.ds.pending_demuxer_read => w.ds.decrypting_demuxer_stream
  /\ w.demux.resetting => /\ w.ds.reset_cb /\ w.ds.state # "REINITIALIZING_DECODER"
                          /\ w.ds.decrypting_demuxer_stream /\ ~w.dec.resetting

(* While a decoder is selected or initialized there are no requests, and a   *)
(* read that is pending was of a decoder that has put out nothing.          *)
Selecting(w) ==
  /\ w.sel.phase # "idle" => /\ w.ds.state \in {"INITIALIZING", "REINITIALIZING_DECODER"}
                             /\ ~w.dec.reinitializing
  /\ w.dec.reinitializing => w.ds.state = "REINITIALIZING_DECODER"
  /\ w.ds.state \in Away \cup {"REINITIALIZING_DECODER"} => w.dec.todo = << >>
  /\ w.ds.state = "REINITIALIZING_DECODER" /\ w.ds.pending_demuxer_read
       => ~w.ds.decoder_produced_a_frame /\ w.dec.held = << >>

HasDecoder(w) ==
  w.ds.state \in Running \/ w.dec.todo # << >> \/ w.dec.reinitializing => w.ds.decoder

(* One request at a time: a read is made only when the decoder has none and  *)
(* nothing is left to be decoded again; so that no fallback meets a read.   *)
OneByOne(w) ==
  /\ w.ds.pending_decode_requests <= 1
  /\ w.ds.pending_demuxer_read =>
       /\ w.ds.state = "NORMAL" /\ w.ds.pending_decode_requests = 0
       /\ w.ds.fallback_buffers = << >> /\ ~w.dec.resetting
  /\ w.demux.reading = "raw" => ~w.ds.decrypting_demuxer_stream
  /\ w.dec.resetting \/ w.demux.resetting => w.ds.state # "ERROR"
  /\ w.ds.state = "END_OF_STREAM" => w.dec.todo = << >>

Fits(w) ==
  /\ Counts(w) /\ Prepares(w) /\ Reading(w) /\ Resetting(w) /\ Selecting(w)
  /\ HasDecoder(w)
  /\ MaxRequests = 1 => OneByOne(w)

Bounded == spent \in [resets : 0 .. setup.resets, changes : 0 .. setup.changes,
                      failures : 0 .. setup.failures]

IInv == setup \in Setups /\ Now \in St /\ Bounded /\ Fits(Now)

(**************************************************************************)
(*                  What the operators do, field by field                   *)
(**************************************************************************)
(* What matters here of the members but for the requests and the outputs.    *)
SameFlags(m, n) ==
  /\ m.state = n.state /\ m.reset_cb = n.reset_cb /\ m.decoder = n.decoder
  /\ m.decoder_produced_a_frame = n.decoder_produced_a_frame
  /\ m.decrypting_demuxer_stream = n.decrypting_demuxer_stream

SameOutputs(m, n) ==
  /\ m.preparing_output = n.preparing_output
  /\ m.unprepared_outputs = n.unprepared_outputs /\ m.ready_outputs = n.ready_outputs

(* ... and but for what is to be decoded.                                    *)
LikeMembers(m, n) ==
  /\ SameFlags(m, n) /\ SameOutputs(m, n)
  /\ m.read_cb = n.read_cb /\ m.pending_demuxer_read = n.pending_demuxer_read

Requests == [buffer : Buffers, end_of_stream : BOOLEAN]

LEMMA Parts ==
  ASSUME NEW s \in St
  PROVE  /\ s.ds \in Members /\ s.sel \in Selector /\ s.dec \in Decoder
         /\ s.demux \in Stream /\ s.client \in Client
         /\ s.ds.pending_decode_requests \in Nat
         /\ s.ds.ready_outputs \in Seq(Outputs) /\ Len(s.ds.ready_outputs) \in Nat
         /\ s.ds.unprepared_outputs \in Seq(Outputs) /\ Len(s.ds.unprepared_outputs) \in Nat
  BY DEF St, Members

(* With one request at a time, another is made only when there is none.      *)
LEMMA RoomForOne ==
  ASSUME NEW s \in St, CanDecodeMore(s), MaxRequests = 1
  PROVE  s.ds.pending_decode_requests = 0
<1>1. Len(s.ds.ready_outputs) + Len(s.ds.unprepared_outputs) + s.ds.pending_decode_requests < 1
  BY DEF CanDecodeMore
<1>2. /\ Len(s.ds.ready_outputs) \in Nat /\ Len(s.ds.unprepared_outputs) \in Nat
      /\ s.ds.pending_decode_requests \in Nat
  BY Parts
<1>3. \A a, b, c \in Nat : a + b + c < 1 => c = 0
  OBVIOUS
<1>. QED
  BY <1>1, <1>2, <1>3

(* DecodeInternal(): one request more, of the decoder and counted.           *)
LEMMA Decodes ==
  ASSUME NEW s \in St, NEW buffer \in Buffers, Counts(s)
  PROVE  LET v == DecodeInternal(s, buffer)
         IN  /\ v \in St /\ Counts(v) /\ v.dec.todo # << >>
             /\ v.sel = s.sel /\ v.demux = s.demux /\ v.client = s.client
             /\ v.ds.pending_decode_requests = s.ds.pending_decode_requests + 1
             /\ LikeMembers(v.ds, s.ds) /\ v.ds.fallback_buffers = s.ds.fallback_buffers
             /\ v.dec.resetting = s.dec.resetting
             /\ v.dec.reinitializing = s.dec.reinitializing
<1>. DEFINE eos == s.ds.decoding_eos \/ buffer = EOS
            n == s.ds.pending_decode_requests + 1
            m == [s.ds EXCEPT !.decoding_eos = eos, !.pending_decode_requests = n]
            todo == Append(s.dec.todo, [buffer |-> buffer, end_of_stream |-> eos])
            held == IF buffer = EOS THEN s.dec.held ELSE Append(s.dec.held, buffer)
            d == [s.dec EXCEPT !.todo = todo, !.held = held]
            v == [[s EXCEPT !.ds = m] EXCEPT !.dec = d]
<1>1. DecodeInternal(s, buffer) = v
  BY Parts DEF DecodeInternal, Members, Decoder
<1>2. eos \in BOOLEAN /\ todo # << >> /\ todo \in Seq(Requests)
      /\ Len(todo) = Len(s.dec.todo) + 1 /\ held \in Seq(Outputs)
  <2>1. s.dec.todo \in Seq(Requests) /\ s.dec.held \in Seq(Outputs)
        /\ s.ds.decoding_eos \in BOOLEAN
    BY Parts DEF Members, Decoder, Requests
  <2>2. eos \in BOOLEAN
    BY <2>1
  <2>. HIDE DEF eos
  <2>3. [buffer |-> buffer, end_of_stream |-> eos] \in Requests
    BY <2>2 DEF Requests
  <2>4. buffer = EOS \/ buffer \in Outputs
    BY DEF Buffers
  <2>. QED
    BY <2>1, <2>2, <2>3, <2>4
<1>0. n \in Nat
  BY Parts
<1>. HIDE DEF eos, todo, held, n
<1>3. /\ m \in Members /\ LikeMembers(m, s.ds)
      /\ m.fallback_buffers = s.ds.fallback_buffers
      /\ m.pending_decode_requests = n
  BY <1>0, <1>2, Parts DEF Members, LikeMembers, SameFlags, SameOutputs
<1>4. /\ d \in Decoder /\ d.todo = todo /\ d.resetting = s.dec.resetting
      /\ d.reinitializing = s.dec.reinitializing
  BY <1>2, Parts DEF Decoder, Requests
<1>. HIDE DEF m, d
<1>5. /\ v \in St /\ v.ds = m /\ v.dec = d /\ v.sel = s.sel /\ v.demux = s.demux
      /\ v.client = s.client
  BY <1>3, <1>4 DEF St
<1>. HIDE DEF v
<1>. QED
  BY <1>1, <1>2, <1>3, <1>4, <1>5 DEF Counts, n

LEMMA Reads ==
  ASSUME NEW s \in St, Fits(s), s.ds.state = "NORMAL", ~s.ds.reset_cb
  PROVE  /\ ReadIfPossible(s) \in St /\ Fits(ReadIfPossible(s))
         /\ ReadIfPossible(s).ds.state = "NORMAL" /\ ~ReadIfPossible(s).ds.reset_cb
<1>. DEFINE q == s.ds.fallback_buffers
<1>1. CASE ~CanDecodeMore(s) \/ (q = << >> /\ s.ds.pending_demuxer_read)
  BY <1>1 DEF ReadIfPossible, ReadFromDemuxerStream
<1>2. CASE CanDecodeMore(s) /\ q = << >> /\ ~s.ds.pending_demuxer_read
  <2>. DEFINE m == [s.ds EXCEPT !.pending_demuxer_read = TRUE]
              n == [s.demux EXCEPT !.reading =
                      IF s.ds.decrypting_demuxer_stream THEN "dds" ELSE "raw"]
              v == [[s EXCEPT !.ds = m] EXCEPT !.demux = n]
  <2>1. ReadIfPossible(s) = v
    BY <1>2, Parts DEF ReadIfPossible, ReadFromDemuxerStream, Members, Stream
  <2>2. m \in Members /\ n \in Stream
    BY Parts, ZenonT(60) DEF Members, Stream
  <2>3. /\ m.pending_demuxer_read /\ m.read_cb = s.ds.read_cb
        /\ SameFlags(m, s.ds) /\ SameOutputs(m, s.ds)
        /\ m.pending_decode_requests = s.ds.pending_decode_requests
        /\ m.fallback_buffers = q
    BY Parts DEF Members, SameFlags, SameOutputs
  <2>4. /\ n.reading = IF s.ds.decrypting_demuxer_stream THEN "dds" ELSE "raw"
        /\ n.resetting = s.demux.resetting
    BY Parts DEF Stream
  <2>. HIDE DEF m, n
  <2>5. /\ v \in St /\ v.ds = m /\ v.demux = n /\ v.sel = s.sel /\ v.dec = s.dec
    BY <2>2 DEF St
  <2>. HIDE DEF v
  <2>6. MaxRequests = 1 => s.ds.pending_decode_requests = 0
    BY <1>2, RoomForOne
  <2>. QED
    BY <1>2, <2>1, <2>3, <2>4, <2>5, <2>6
       DEF Fits, Counts, Prepares, Reading, Resetting, Empty, Selecting, HasDecoder, OneByOne, Away,
           SameFlags, SameOutputs
<1>3. CASE CanDecodeMore(s) /\ q # << >>
  <2>. DEFINE m == [s.ds EXCEPT !.fallback_buffers = Tail(q)]
              w == [s EXCEPT !.ds = m]
              v == DecodeInternal(w, Head(q))
  <2>1. ReadIfPossible(s) = v
    BY <1>3, Parts DEF ReadIfPossible, ReadFromDemuxerStream, Members
  <2>2. Head(q) \in Buffers /\ Tail(q) \in Seq(Buffers)
    BY <1>3, Parts DEF Members
  <2>3. /\ m \in Members /\ LikeMembers(m, s.ds)
        /\ m.pending_decode_requests = s.ds.pending_decode_requests
    BY <2>2, Parts DEF Members, LikeMembers, SameFlags, SameOutputs
  <2>. HIDE DEF m
  <2>4. /\ w \in St /\ w.ds = m /\ w.dec = s.dec /\ w.sel = s.sel /\ w.demux = s.demux
    BY <2>3 DEF St
  <2>. HIDE DEF w
  <2>5. Counts(w)
    BY <2>3, <2>4 DEF Fits, Counts
  <2>6. MaxRequests = 1 => s.ds.pending_decode_requests = 0 /\ ~s.ds.pending_demuxer_read
    BY <1>3, RoomForOne DEF Fits, OneByOne
  <2>7. /\ v \in St /\ Counts(v) /\ v.sel = w.sel /\ v.demux = w.demux
        /\ LikeMembers(v.ds, w.ds)
        /\ v.ds.pending_decode_requests = w.ds.pending_decode_requests + 1
        /\ v.dec.resetting = w.dec.resetting
        /\ v.dec.reinitializing = w.dec.reinitializing
    BY <2>2, <2>4, <2>5, Decodes
  <2>. HIDE DEF v
  <2>8. LikeMembers(v.ds, s.ds)
    BY <2>3, <2>4, <2>7 DEF LikeMembers, SameFlags, SameOutputs
  <2>9. MaxRequests = 1 => OneByOne(v)
    BY <2>3, <2>4, <2>6, <2>7, <2>8 DEF Fits, OneByOne, LikeMembers, SameFlags
  <2>10. Prepares(v) /\ Reading(v) /\ Resetting(v) /\ Selecting(v) /\ HasDecoder(v)
    BY <2>4, <2>7, <2>8 DEF Fits, Prepares, Reading, Resetting, Empty, Selecting, HasDecoder, Away,
                            Running, LikeMembers, SameFlags, SameOutputs
  <2>11. v.ds.state = "NORMAL" /\ ~v.ds.reset_cb
    BY <2>8 DEF LikeMembers, SameFlags
  <2>. QED
    BY <2>1, <2>7, <2>9, <2>10, <2>11 DEF Fits
<1>. QED
  BY <1>1, <1>2, <1>3

(* v is s but for the outputs, the client's read and what is left of the     *)
(* buffers.                                                                  *)
Like(v, s) ==
  /\ v.sel.phase = s.sel.phase /\ v.dec = s.dec
  /\ v.demux.reading = s.demux.reading /\ v.demux.resetting = s.demux.resetting
  /\ SameFlags(v.ds, s.ds) /\ v.ds.pending_demuxer_read = s.ds.pending_demuxer_read
  /\ v.ds.pending_decode_requests = s.ds.pending_decode_requests

LEMMA OutputsFit ==
  ASSUME NEW s \in St, Fits(s), NEW v \in St, Like(v, s), Prepares(v),
         v.ds.reset_cb => Empty(v.ds),
         v.ds.fallback_buffers \in {s.ds.fallback_buffers, << >>}
  PROVE  Fits(v)
<1>1. Counts(v) /\ Reading(v) /\ Resetting(v)
  BY DEF Fits, Counts, Reading, Resetting, Like, SameFlags
<1>2. Selecting(v) /\ HasDecoder(v)
  BY DEF Fits, Selecting, HasDecoder, Like, SameFlags
<1>3. MaxRequests = 1 => OneByOne(v)
  BY DEF Fits, OneByOne, Like, SameFlags
<1>. QED
  BY <1>1, <1>2, <1>3 DEF Fits

(* The read of the client is answered.                                       *)
LEMMA ReadOver ==
  ASSUME NEW s \in St, NEW v,
         \/ v = AbortRead(s) \/ v = SatisfyReadAtEnd(s)
         \/ \E output \in Outputs : v = SatisfyRead(s, output)
  PROVE  /\ v \in St /\ v.ds.fallback_buffers = s.ds.fallback_buffers /\ Like(v, s)
         /\ ~v.ds.read_cb /\ SameOutputs(v.ds, s.ds) /\ (Fits(s) => Fits(v))
<1>. DEFINE m == [s.ds EXCEPT !.read_cb = FALSE]
<1>1. \E c \in Client : v = [[s EXCEPT !.ds = m] EXCEPT !.client = c]
  <2>1. CASE v = AbortRead(s)
    <3>1. v = [[s EXCEPT !.ds = m] EXCEPT !.client = s.client]
      BY <2>1 DEF AbortRead, St
    <3>. QED
      BY <3>1, Parts
  <2>2. CASE v = SatisfyReadAtEnd(s)
    <3>1. v = [[s EXCEPT !.ds = m] EXCEPT !.client = [s.client EXCEPT !.ended = TRUE]]
      BY <2>2 DEF SatisfyReadAtEnd, St
    <3>2. [s.client EXCEPT !.ended = TRUE] \in Client
      BY Parts DEF Client
    <3>. QED
      BY <3>1, <3>2
  <2>3. ASSUME NEW output \in Outputs, v = SatisfyRead(s, output)
        PROVE  \E c \in Client : v = [[s EXCEPT !.ds = m] EXCEPT !.client = c]
    <3>. DEFINE got == Append(s.client.got, output)
    <3>1. v = [[s EXCEPT !.ds = m] EXCEPT !.client = [s.client EXCEPT !.got = got]]
      BY <2>3 DEF SatisfyRead, St
    <3>2. got \in Seq(Outputs)
      BY Parts DEF Client
    <3>. HIDE DEF got
    <3>3. [s.client EXCEPT !.got = got] \in Client
      BY <3>2, Parts DEF Client
    <3>. QED
      BY <3>1, <3>3
  <2>. QED
    BY <2>1, <2>2, <2>3
<1>2. /\ m \in Members /\ SameFlags(m, s.ds) /\ SameOutputs(m, s.ds) /\ ~m.read_cb
      /\ m.pending_demuxer_read = s.ds.pending_demuxer_read
      /\ m.pending_decode_requests = s.ds.pending_decode_requests
      /\ m.fallback_buffers = s.ds.fallback_buffers
  BY Parts DEF Members, SameFlags, SameOutputs
<1>. HIDE DEF m
<1>3. v \in St /\ v.ds = m /\ v.sel = s.sel /\ v.dec = s.dec /\ v.demux = s.demux
  BY <1>1, <1>2 DEF St
<1>4. Like(v, s)
  BY <1>2, <1>3 DEF Like
<1>5. ASSUME Fits(s) PROVE Fits(v)
  <2>1. Prepares(v) /\ (v.ds.reset_cb => Empty(v.ds))
    BY <1>2, <1>3, <1>5 DEF Fits, Prepares, Resetting, Empty, SameFlags, SameOutputs
  <2>. QED
    BY <1>2, <1>3, <1>4, <1>5, <2>1, OutputsFit
<1>. QED
  BY <1>2, <1>3, <1>4, <1>5

LEMMA Clears ==
  ASSUME NEW s \in St
  PROVE  LET v == ClearOutputs(s)
         IN  /\ v \in St /\ v.ds.fallback_buffers = s.ds.fallback_buffers /\ Like(v, s)
             /\ v.ds.read_cb = s.ds.read_cb /\ v.client = s.client
             /\ ~v.ds.preparing_output /\ v.ds.ready_outputs = << >>
             /\ v.ds.unprepared_outputs = << >> /\ (Fits(s) => Fits(v))
<1>. DEFINE m == [s.ds EXCEPT !.preparing_output = FALSE, !.ready_outputs = << >>,
                              !.unprepared_outputs = << >>]
            v == [s EXCEPT !.ds = m]
<1>1. ClearOutputs(s) = v
  BY Parts DEF ClearOutputs, Members
<1>2. << >> \in Seq(Outputs)
  OBVIOUS
<1>3. /\ m \in Members /\ SameFlags(m, s.ds) /\ m.read_cb = s.ds.read_cb
      /\ ~m.preparing_output /\ m.ready_outputs = << >> /\ m.unprepared_outputs = << >>
      /\ m.pending_demuxer_read = s.ds.pending_demuxer_read
      /\ m.pending_decode_requests = s.ds.pending_decode_requests
      /\ m.fallback_buffers = s.ds.fallback_buffers
  BY <1>2, Parts DEF Members, SameFlags
<1>. HIDE DEF m
<1>4. /\ v \in St /\ v.ds = m /\ v.sel = s.sel /\ v.dec = s.dec /\ v.demux = s.demux
      /\ v.client = s.client
  BY <1>3 DEF St
<1>. HIDE DEF v
<1>5. Like(v, s)
  BY <1>3, <1>4 DEF Like
<1>6. ASSUME Fits(s) PROVE Fits(v)
  <2>1. Prepares(v) /\ (v.ds.reset_cb => Empty(v.ds))
    BY <1>3, <1>4, <1>6 DEF Fits, Prepares, Resetting, Empty, SameFlags
  <2>. QED
    BY <1>3, <1>4, <1>5, <1>6, <2>1, OutputsFit
<1>. QED
  BY <1>1, <1>3, <1>4, <1>5, <1>6

(* Another output may be prepared.                                           *)
LEMMA PreparesAnother ==
  ASSUME NEW s \in St, Fits(s), ~s.ds.reset_cb
  PROVE  LET v == MaybePrepareAnotherOutput(s)
         IN  /\ v \in St /\ Fits(v) /\ Like(v, s)
             /\ v.ds.ready_outputs = s.ds.ready_outputs
             /\ v.ds.unprepared_outputs = s.ds.unprepared_outputs
<1>. DEFINE m == [s.ds EXCEPT !.preparing_output = TRUE]
            v == [s EXCEPT !.ds = m]
<1>1. \/ MaybePrepareAnotherOutput(s) = s
      \/ MaybePrepareAnotherOutput(s) = v /\ s.ds.unprepared_outputs # << >>
  BY DEF MaybePrepareAnotherOutput
<1>2. Like(s, s)
  BY DEF Like, SameFlags
<1>3. /\ m \in Members /\ SameFlags(m, s.ds)
      /\ m.ready_outputs = s.ds.ready_outputs
      /\ m.unprepared_outputs = s.ds.unprepared_outputs
      /\ m.pending_demuxer_read = s.ds.pending_demuxer_read
      /\ m.pending_decode_requests = s.ds.pending_decode_requests
      /\ m.fallback_buffers = s.ds.fallback_buffers
  BY Parts DEF Members, SameFlags
<1>. HIDE DEF m
<1>4. v \in St /\ v.ds = m /\ v.sel = s.sel /\ v.dec = s.dec /\ v.demux = s.demux
  BY <1>3 DEF St
<1>. HIDE DEF v
<1>5. Like(v, s)
  BY <1>3, <1>4 DEF Like
<1>6. ASSUME s.ds.unprepared_outputs # << >> PROVE Fits(v)
  <2>1. Prepares(v) /\ ~v.ds.reset_cb
    BY <1>3, <1>4, <1>6 DEF Prepares, SameFlags
  <2>. QED
    BY <1>3, <1>4, <1>5, <2>1, OutputsFit
<1>. QED
  BY <1>1, <1>2, <1>3, <1>4, <1>5, <1>6

(* The states in which a decoder is selected.                                 *)
Choosing == {"INITIALIZING", "REINITIALIZING_DECODER"}

(* v is s but for the selector.                                              *)
SameButSel(v, s) == /\ v.ds = s.ds /\ v.dec = s.dec
                    /\ v.demux = s.demux /\ v.client = s.client

LEMMA SelectorFits ==
  ASSUME NEW s \in St, NEW n \in Selector, Fits(s),
         n.phase = "idle" \/ n.phase = s.sel.phase
           \/ (s.ds.state \in Choosing /\ ~s.dec.reinitializing)
  PROVE  LET v == [s EXCEPT !.sel = n]
         IN  v \in St /\ Fits(v) /\ v.sel = n /\ SameButSel(v, s)
<1>. DEFINE v == [s EXCEPT !.sel = n]
<1>1. v \in St /\ v.sel = n /\ SameButSel(v, s)
  BY DEF St, SameButSel
<1>. HIDE DEF v
<1>2. Selecting(v)
  BY <1>1 DEF Fits, Selecting, SameButSel, Choosing
<1>3. Counts(v) /\ Prepares(v) /\ Reading(v) /\ HasDecoder(v) /\ Resetting(v)
  BY <1>1 DEF Fits, Counts, Prepares, Reading, Resetting, HasDecoder, SameButSel
<1>4. MaxRequests = 1 => OneByOne(v)
  BY <1>1 DEF Fits, OneByOne, SameButSel
<1>. QED
  BY <1>1, <1>2, <1>3, <1>4 DEF Fits, v

LEMMA Lefts ==
  ASSUME setup \in Setups
  PROVE  0 \in 0 .. setup.decoders /\ setup.decoders \in 0 .. setup.decoders
         /\ \A i \in 0 .. setup.decoders : i > 0 => i - 1 \in 0 .. setup.decoders
  BY DEF Setup

LEMMA Finalizes ==
  ASSUME setup \in Setups, NEW s \in St, Fits(s)
  PROVE  LET v == FinalizeDecoderSelection(s)
         IN  v \in St /\ Fits(v) /\ SameButSel(v, s) /\ v.sel.phase = s.sel.phase
<1>. DEFINE n == [s.sel EXCEPT !.is_selecting_decoders = FALSE, !.left = 0]
<1>1. FinalizeDecoderSelection(s) = [s EXCEPT !.sel = n]
  BY Parts DEF FinalizeDecoderSelection, Selector
<1>0. s.sel \in Selector /\ 0 \in 0 .. setup.decoders
  BY Parts, Lefts
<1>2. n \in Selector /\ n.phase = s.sel.phase
  BY <1>0 DEF Selector
<1>. HIDE DEF n
<1>. QED
  BY <1>1, <1>2, SelectorFits

(* The next decoder, the DecryptingDemuxerStream, or none.                   *)
LEMMA Initializes ==
  ASSUME setup \in Setups, NEW s \in St, Fits(s), s.ds.state \in Choosing, ~s.dec.reinitializing
  PROVE  LET v == InitializeDecoder(s)
         IN  v \in St /\ Fits(v) /\ SameButSel(v, s)
<1>1. s.sel \in Selector /\ 0 \in 0 .. setup.decoders
  BY Parts, Lefts
<1>2. CASE s.sel.left > 0
  <2>. DEFINE left == s.sel.left - 1
              n == [s.sel EXCEPT !.left = left, !.phase = "decoder"]
  <2>1. InitializeDecoder(s) = [s EXCEPT !.sel = n]
    BY <1>1, <1>2 DEF InitializeDecoder, Selector
  <2>3. left \in 0 .. setup.decoders
    BY <1>1, <1>2, Lefts DEF Selector
  <2>. HIDE DEF left
  <2>2. n \in Selector
    BY <1>1, <2>3 DEF Selector
  <2>. HIDE DEF n
  <2>. QED
    BY <2>1, <2>2, SelectorFits
<1>3. CASE ~(s.sel.left > 0) /\ setup.encrypted /\ ~s.sel.decrypted
  <2>. DEFINE n == [s.sel EXCEPT !.phase = "dds"]
  <2>1. InitializeDecoder(s) = [s EXCEPT !.sel = n]
    BY <1>1, <1>3 DEF InitializeDecoder, Selector
  <2>2. n \in Selector
    BY <1>1 DEF Selector
  <2>. HIDE DEF n
  <2>. QED
    BY <2>1, <2>2, SelectorFits
<1>4. CASE ~(s.sel.left > 0) /\ ~(setup.encrypted /\ ~s.sel.decrypted)
  <2>. DEFINE n == [s.sel EXCEPT !.phase = "done", !.found = FALSE, !.dds = FALSE, !.left = 0]
  <2>1. InitializeDecoder(s) = [s EXCEPT !.sel = n]
    BY <1>1, <1>4 DEF InitializeDecoder, ReturnNullDecoder, Selector
  <2>2. n \in Selector
    BY <1>1 DEF Selector
  <2>. HIDE DEF n
  <2>. QED
    BY <2>1, <2>2, SelectorFits
<1>. QED
  BY <1>2, <1>3, <1>4

LEMMA SelectsADecoder ==
  ASSUME setup \in Setups, NEW s \in St, Fits(s), s.ds.state \in Choosing, ~s.dec.reinitializing
  PROVE  LET v == SelectDecoder(s)
         IN  v \in St /\ Fits(v) /\ SameButSel(v, s)
<1>. DEFINE left == IF s.sel.is_selecting_decoders THEN s.sel.left ELSE setup.decoders
            n == [s.sel EXCEPT !.is_selecting_decoders = TRUE, !.left = left]
            w == [s EXCEPT !.sel = n]
<1>1. SelectDecoder(s) = InitializeDecoder(w)
  BY Parts DEF SelectDecoder, Selector
<1>2. s.sel \in Selector /\ left \in 0 .. setup.decoders
  <2>1. s.sel \in Selector /\ setup.decoders \in 0 .. setup.decoders
    BY Parts, Lefts
  <2>. QED
    BY <2>1 DEF Selector
<1>. HIDE DEF left
<1>5. n \in Selector /\ n.phase = s.sel.phase
  BY <1>2 DEF Selector
<1>. HIDE DEF n
<1>3. w \in St /\ Fits(w) /\ SameButSel(w, s)
  BY <1>5, SelectorFits
<1>. HIDE DEF w
<1>4. LET v == InitializeDecoder(w) IN v \in St /\ Fits(v) /\ SameButSel(v, w)
  BY <1>3, Initializes DEF SameButSel
<1>. QED
  BY <1>1, <1>3, <1>4 DEF SameButSel

(* Only the state changes.                                                   *)
SameButState(m, n) ==
  /\ SameOutputs(m, n) /\ m.reset_cb = n.reset_cb /\ m.decoder = n.decoder
  /\ m.decoder_produced_a_frame = n.decoder_produced_a_frame
  /\ m.decrypting_demuxer_stream = n.decrypting_demuxer_stream
  /\ m.read_cb = n.read_cb /\ m.pending_demuxer_read = n.pending_demuxer_read
  /\ m.pending_decode_requests = n.pending_decode_requests
  /\ m.fallback_buffers = n.fallback_buffers

LEMMA InState ==
  ASSUME NEW s \in St, NEW x \in Running \cup {"REINITIALIZING_DECODER", "ERROR"}
  PROVE  LET v == [s EXCEPT !.ds.state = x]
         IN  /\ v \in St /\ v.ds.state = x /\ SameButState(v.ds, s.ds)
             /\ v.sel = s.sel /\ v.dec = s.dec /\ v.demux = s.demux /\ v.client = s.client
<1>. DEFINE m == [s.ds EXCEPT !.state = x]
            v == [s EXCEPT !.ds = m]
<1>1. [s EXCEPT !.ds.state = x] = v
  OBVIOUS
<1>2. m \in Members /\ m.state = x /\ SameButState(m, s.ds)
  BY Parts DEF Members, SameButState, SameOutputs, Running
<1>. HIDE DEF m
<1>3. /\ v \in St /\ v.ds = m /\ v.sel = s.sel /\ v.dec = s.dec /\ v.demux = s.demux
      /\ v.client = s.client
  BY <1>2 DEF St
<1>. HIDE DEF v
<1>. QED
  BY <1>1, <1>2, <1>3

(* The closure of Reset() runs.                                              *)
LEMMA ResetOver ==
  ASSUME NEW s \in St, Fits(s), ~s.dec.resetting, ~s.demux.resetting
  PROVE  LET v == ResetDone(s)
         IN  v \in St /\ Fits(v) /\ v.ds.state = s.ds.state
<1>. DEFINE m == [s.ds EXCEPT !.reset_cb = FALSE]
            n == [s.demux EXCEPT !.aborting = FALSE]
            c == [got |-> << >>, from |-> s.demux.next, ended |-> FALSE]
            v == [[[s EXCEPT !.ds = m] EXCEPT !.demux = n] EXCEPT !.client = c]
<1>1. ResetDone(s) = v
  BY Parts DEF ResetDone, Members, Stream
<1>2. /\ m \in Members /\ m.state = s.ds.state /\ ~m.reset_cb /\ SameOutputs(m, s.ds)
      /\ m.decoder = s.ds.decoder
      /\ m.decoder_produced_a_frame = s.ds.decoder_produced_a_frame
      /\ m.decrypting_demuxer_stream = s.ds.decrypting_demuxer_stream
      /\ m.pending_demuxer_read = s.ds.pending_demuxer_read
      /\ m.pending_decode_requests = s.ds.pending_decode_requests
      /\ m.fallback_buffers = s.ds.fallback_buffers
  BY Parts DEF Members, SameOutputs
<1>3. n \in Stream /\ n.reading = s.demux.reading /\ n.resetting = s.demux.resetting
  BY Parts DEF Stream
<1>4. c \in Client
  <2>1. << >> \in Seq(Outputs) /\ s.demux.next \in 1 .. MaxBuffers + 1
    BY Parts DEF Stream
  <2>. QED
    BY <2>1 DEF Client
<1>. HIDE DEF m, n, c
<1>5. v \in St /\ v.ds = m /\ v.sel = s.sel /\ v.dec = s.dec /\ v.demux = n
  BY <1>2, <1>3, <1>4 DEF St
<1>. HIDE DEF v
<1>6. Counts(v) /\ Prepares(v) /\ Reading(v) /\ Resetting(v)
  BY <1>2, <1>3, <1>5 DEF Fits, Counts, Prepares, Reading, Resetting, SameOutputs
<1>7. Selecting(v) /\ HasDecoder(v)
  BY <1>2, <1>5 DEF Fits, Selecting, HasDecoder
<1>8. MaxRequests = 1 => OneByOne(v)
  BY <1>2, <1>3, <1>5 DEF Fits, OneByOne
<1>. QED
  BY <1>1, <1>2, <1>5, <1>6, <1>7, <1>8 DEF Fits

LEMMA Fails ==
  ASSUME NEW s \in St, Fits(s), s.ds.state \notin Away \cup {"REINITIALIZING_DECODER"},
         MaxRequests = 1 => /\ ~s.dec.resetting /\ ~s.demux.resetting
                            /\ ~s.ds.pending_demuxer_read
  PROVE  LET v == DecodeFailed(s)
         IN  /\ v \in St /\ Fits(v) /\ v.ds.state = "ERROR"
             /\ v.ds.reset_cb = s.ds.reset_cb /\ v.dec = s.dec /\ v.demux = s.demux
             /\ v.ds.pending_demuxer_read = s.ds.pending_demuxer_read
             /\ v.ds.decrypting_demuxer_stream = s.ds.decrypting_demuxer_stream
<1>. DEFINE t == [s EXCEPT !.ds.state = "ERROR"]
            u == ClearOutputs(t)
            v == AbortRead(u)
<1>1. /\ t \in St /\ t.ds.state = "ERROR" /\ SameButState(t.ds, s.ds)
      /\ t.sel = s.sel /\ t.dec = s.dec /\ t.demux = s.demux
  BY InState
<1>. HIDE DEF t
<1>2. Fits(t)
  <2>1. Counts(t) /\ Prepares(t) /\ Reading(t) /\ Resetting(t)
    BY <1>1 DEF Fits, Counts, Prepares, Reading, Resetting, Empty, SameButState, SameOutputs, Away
  <2>2. Selecting(t) /\ HasDecoder(t)
    BY <1>1 DEF Fits, Selecting, HasDecoder, SameButState, Away, Running
  <2>3. MaxRequests = 1 => OneByOne(t)
    BY <1>1 DEF Fits, OneByOne, SameButState
  <2>. QED
    BY <2>1, <2>2, <2>3 DEF Fits
<1>3. u \in St /\ Fits(u) /\ Like(u, t)
  BY <1>1, <1>2, Clears
<1>3a. u.demux = t.demux
  BY <1>1, Parts DEF u, ClearOutputs, St
<1>. HIDE DEF u
<1>4. v \in St /\ Fits(v) /\ Like(v, u)
  BY <1>3, ReadOver
<1>5. v.demux = u.demux
  BY <1>3, Parts DEF v, AbortRead, St
<1>. HIDE DEF v
<1>6. v = DecodeFailed(s)
  BY DEF DecodeFailed, v, u, t
<1>. QED
  BY <1>1, <1>3, <1>3a, <1>4, <1>5, <1>6 DEF Like, SameFlags, SameButState

(* Nothing is decoded any more, and the decoder is initialized again.        *)
LEMMA ReinitializesDecoder ==
  ASSUME NEW s \in St, Fits(s), s.ds.state = "FLUSHING_DECODER", s.dec.todo = << >>,
         ~s.dec.resetting, ~s.demux.resetting
  PROVE  LET v == ReinitializeDecoder(s)
         IN  v \in St /\ Fits(v) /\ v.ds.state = "REINITIALIZING_DECODER"
<1>. DEFINE t == [s EXCEPT !.ds.state = "REINITIALIZING_DECODER"]
            d == [s.dec EXCEPT !.reinitializing = TRUE]
            v == [t EXCEPT !.dec = d]
<1>1. /\ t \in St /\ t.ds.state = "REINITIALIZING_DECODER" /\ SameButState(t.ds, s.ds)
      /\ t.sel = s.sel /\ t.dec = s.dec /\ t.demux = s.demux
  BY InState
<1>2. ReinitializeDecoder(s) = v
  BY Parts DEF ReinitializeDecoder, St, Members, Decoder
<1>. HIDE DEF t
<1>3. /\ d \in Decoder /\ d.todo = << >> /\ ~d.resetting
  BY Parts DEF Decoder
<1>. HIDE DEF d
<1>4. /\ v \in St /\ v.ds = t.ds /\ v.sel = s.sel /\ v.dec = d /\ v.demux = s.demux
  BY <1>1, <1>3 DEF St
<1>. HIDE DEF v
<1>5. Counts(v) /\ Prepares(v) /\ Reading(v) /\ Resetting(v)
  BY <1>1, <1>3, <1>4
     DEF Fits, Counts, Prepares, Reading, Resetting, Empty, SameButState, SameOutputs, Away
<1>6. Selecting(v) /\ HasDecoder(v)
  BY <1>1, <1>3, <1>4
     DEF Fits, Selecting, HasDecoder, Reading, SameButState, Away, Running
<1>7. MaxRequests = 1 => OneByOne(v)
  BY <1>1, <1>3, <1>4 DEF Fits, OneByOne, SameButState
<1>. QED
  BY <1>1, <1>2, <1>4, <1>5, <1>6, <1>7 DEF Fits

(* All has been decoded.                                                     *)
LEMMA Ends ==
  ASSUME NEW s \in St, Fits(s), s.ds.state = "NORMAL", ~s.ds.reset_cb,
         MaxRequests = 1 => s.dec.todo = << >> /\ ~s.ds.pending_demuxer_read
  PROVE  LET v == Ended(s)
         IN  v \in St /\ Fits(v) /\ v.ds.state = "END_OF_STREAM"
<1>. DEFINE t == [s EXCEPT !.ds.state = "END_OF_STREAM"]
<1>1. /\ t \in St /\ t.ds.state = "END_OF_STREAM" /\ SameButState(t.ds, s.ds)
      /\ t.sel = s.sel /\ t.dec = s.dec /\ t.demux = s.demux
  BY InState DEF Running
<1>2. Ended(s) \in {SatisfyReadAtEnd(t), t}
  BY DEF Ended
<1>. HIDE DEF t
<1>3. Fits(t)
  <2>1. Counts(t) /\ Prepares(t) /\ Reading(t) /\ Resetting(t)
    BY <1>1 DEF Fits, Counts, Prepares, Reading, Resetting, Empty, SameButState, SameOutputs, Away
  <2>2. Selecting(t) /\ HasDecoder(t)
    BY <1>1 DEF Fits, Selecting, HasDecoder, SameButState, Away, Running
  <2>3. MaxRequests = 1 => OneByOne(t)
    BY <1>1 DEF Fits, OneByOne, SameButState
  <2>. QED
    BY <2>1, <2>2, <2>3 DEF Fits
<1>4. LET v == SatisfyReadAtEnd(t) IN v \in St /\ Fits(v) /\ v.ds.state = t.ds.state
  BY <1>1, <1>3, ReadOver DEF Like, SameFlags
<1>. QED
  BY <1>1, <1>2, <1>3, <1>4

(* A decoder's first buffers fail: another one is selected.                  *)
LEMMA FallsBack ==
  ASSUME setup \in Setups, NEW s \in St, Fits(s), s.ds.state \in Running,
         ~s.ds.reset_cb, ~s.ds.decoder_produced_a_frame,
         MaxRequests = 1 => ~s.ds.pending_demuxer_read
  PROVE  LET v == FallBack(s)
         IN  v \in St /\ Fits(v) /\ v.ds.state = "REINITIALIZING_DECODER"
<1>. DEFINE m == [s.ds EXCEPT !.pending_decode_requests = 0, !.state = "REINITIALIZING_DECODER"]
            t == [[s EXCEPT !.ds = m] EXCEPT !.dec = NewDecoder]
            v == SelectDecoder(t)
<1>1. FallBack(s) = v
  BY Parts DEF FallBack, Members
<1>2. /\ m \in Members /\ m.state = "REINITIALIZING_DECODER" /\ m.pending_decode_requests = 0
      /\ ~m.reset_cb /\ ~m.decoder_produced_a_frame /\ SameOutputs(m, s.ds)
      /\ m.pending_demuxer_read = s.ds.pending_demuxer_read
      /\ m.decrypting_demuxer_stream = s.ds.decrypting_demuxer_stream
  BY Parts DEF Members, SameOutputs
<1>3. /\ NewDecoder \in Decoder /\ NewDecoder.todo = << >> /\ NewDecoder.held = << >>
      /\ ~NewDecoder.resetting /\ ~NewDecoder.reinitializing
  BY DEF NewDecoder, Decoder
<1>. HIDE DEF m
<1>4. /\ t \in St /\ t.ds = m /\ t.sel = s.sel /\ t.dec = NewDecoder /\ t.demux = s.demux
  BY <1>2, <1>3 DEF St
<1>. HIDE DEF t
<1>5. Fits(t)
  <2>0. Counts(t)
    BY <1>2, <1>3, <1>4 DEF Counts
  <2>1. Prepares(t) /\ Reading(t) /\ Resetting(t)
    BY <1>2, <1>3, <1>4
       DEF Fits, Prepares, Reading, Resetting, Empty, SameOutputs, Away
  <2>2. Selecting(t) /\ HasDecoder(t)
    BY <1>2, <1>3, <1>4 DEF Fits, Selecting, HasDecoder, Away, Running
  <2>3. MaxRequests = 1 => OneByOne(t)
    BY <1>2, <1>3, <1>4 DEF Fits, OneByOne, Resetting
  <2>. QED
    BY <2>0, <2>1, <2>2, <2>3 DEF Fits
<1>6. v \in St /\ Fits(v) /\ SameButSel(v, t)
  BY <1>2, <1>3, <1>4, <1>5, SelectsADecoder DEF Choosing
<1>. QED
  BY <1>1, <1>2, <1>4, <1>6 DEF SameButSel

(* A decoder has been selected or initialized again, or not.                 *)
LEMMA Completes ==
  ASSUME NEW s \in St, Fits(s), NEW success \in BOOLEAN,
         s.sel.phase = "idle", ~s.dec.reinitializing, success => s.ds.decoder,
         \/ s.ds.state = "REINITIALIZING_DECODER"
         \/ s.ds.state = "INITIALIZING" /\ ~success
  PROVE  LET v == CompleteDecoderReinitialization(s, success)
         IN  v \in St /\ Fits(v)
<1>. DEFINE x == IF success THEN "NORMAL" ELSE "ERROR"
            t == [s EXCEPT !.ds.state = x]
            m == [t.ds EXCEPT !.decoder_produced_a_frame = FALSE]
            u == [t EXCEPT !.ds = m]
<1>0. x \in Running \cup {"REINITIALIZING_DECODER", "ERROR"}
  BY DEF Running
<1>1. CompleteDecoderReinitialization(s, success)
        = IF s.ds.reset_cb THEN ResetDone(t)
          ELSE IF ~s.ds.read_cb THEN t
          ELSE IF ~success THEN AbortRead(t) ELSE ReadIfPossible(u)
  BY DEF CompleteDecoderReinitialization
<1>2. /\ t \in St /\ t.ds.state = x /\ SameButState(t.ds, s.ds)
      /\ t.sel = s.sel /\ t.dec = s.dec /\ t.demux = s.demux
  BY <1>0, InState
<1>. HIDE DEF t
<1>3. Fits(t) /\ ~t.dec.resetting /\ ~t.demux.resetting
  <2>1. Counts(t) /\ Prepares(t) /\ Reading(t) /\ Resetting(t)
    BY <1>2 DEF Fits, Counts, Prepares, Reading, Resetting, Empty, SameButState, SameOutputs, Away
  <2>2. Selecting(t) /\ HasDecoder(t)
    BY <1>2 DEF Fits, Selecting, HasDecoder, SameButState, Away, Running
  <2>3. MaxRequests = 1 => OneByOne(t)
    BY <1>2 DEF Fits, OneByOne, SameButState, Resetting, Away
  <2>4. ~t.dec.resetting /\ ~t.demux.resetting
    BY <1>2 DEF Fits, Resetting, Away
  <2>. QED
    BY <2>1, <2>2, <2>3, <2>4 DEF Fits
<1>4. CASE s.ds.reset_cb
  BY <1>1, <1>2, <1>3, <1>4, ResetOver
<1>5. CASE ~s.ds.reset_cb /\ ~s.ds.read_cb
  BY <1>1, <1>2, <1>3, <1>5
<1>6. CASE ~s.ds.reset_cb /\ s.ds.read_cb /\ ~success
  BY <1>1, <1>2, <1>3, <1>6, ReadOver
<1>7. CASE ~s.ds.reset_cb /\ s.ds.read_cb /\ success
  <2>1. /\ m \in Members /\ m.state = "NORMAL" /\ ~m.reset_cb /\ SameOutputs(m, t.ds)
        /\ m.decoder = t.ds.decoder
        /\ m.decrypting_demuxer_stream = t.ds.decrypting_demuxer_stream
        /\ m.pending_demuxer_read = t.ds.pending_demuxer_read
        /\ m.pending_decode_requests = t.ds.pending_decode_requests
        /\ m.fallback_buffers = t.ds.fallback_buffers
    BY <1>2, <1>7, Parts, ZenonT(60) DEF Members, SameOutputs, SameButState
  <2>. HIDE DEF m
  <2>2. /\ u \in St /\ u.ds = m /\ u.sel = t.sel /\ u.dec = t.dec /\ u.demux = t.demux
    BY <1>2, <2>1 DEF St
  <2>. HIDE DEF u
  <2>3. Counts(u) /\ Prepares(u) /\ Reading(u) /\ Resetting(u)
    BY <1>2, <1>3, <1>7, <2>1, <2>2
       DEF Fits, Counts, Prepares, Reading, Resetting, Empty, SameOutputs, Away
  <2>4. Selecting(u) /\ HasDecoder(u)
    BY <1>2, <1>3, <1>7, <2>1, <2>2 DEF Fits, Selecting, HasDecoder, Away, Running
  <2>5. MaxRequests = 1 => OneByOne(u)
    BY <1>2, <1>3, <1>7, <2>1, <2>2 DEF Fits, OneByOne
  <2>. QED
    BY <1>1, <1>7, <2>1, <2>2, <2>3, <2>4, <2>5, Reads DEF Fits
<1>. QED
  BY <1>4, <1>5, <1>6, <1>7

(* A Reset() starts, or goes on when the read of the demuxer is over.        *)
LEMMA ResetStarts ==
  ASSUME NEW s \in St, Fits(s), s.ds.state \notin Away, ~s.dec.resetting, ~s.demux.resetting
  PROVE  LET v == ResetStream(s)
         IN  v \in St /\ Fits(v) /\ v.ds.state = s.ds.state
<1>. DEFINE m == [s.ds EXCEPT !.reset_cb = TRUE]
            r == [s EXCEPT !.ds = m]
            a == AbortRead(r)
            t == ClearOutputs(a)
            n == [t.demux EXCEPT !.resetting = TRUE]
            d == [t.dec EXCEPT !.resetting = TRUE]
            w == [t EXCEPT !.demux = n]
            u == [t EXCEPT !.dec = d]
<1>1. ResetStream(s) =
        IF s.ds.state = "ERROR" /\ ~s.ds.pending_demuxer_read THEN ResetDone(t)
        ELSE IF s.ds.state = "REINITIALIZING_DECODER" THEN t
        ELSE IF s.ds.decrypting_demuxer_stream THEN w
        ELSE IF s.ds.pending_demuxer_read THEN t
        ELSE u
  BY DEF ResetStream, ResetDecoder
<1>2. /\ m \in Members /\ m.state = s.ds.state /\ m.reset_cb /\ SameOutputs(m, s.ds)
      /\ m.decoder = s.ds.decoder
      /\ m.decoder_produced_a_frame = s.ds.decoder_produced_a_frame
      /\ m.decrypting_demuxer_stream = s.ds.decrypting_demuxer_stream
      /\ m.pending_demuxer_read = s.ds.pending_demuxer_read
      /\ m.pending_decode_requests = s.ds.pending_decode_requests
      /\ m.fallback_buffers = s.ds.fallback_buffers
  BY Parts DEF Members, SameOutputs
<1>. HIDE DEF m
<1>3. /\ r \in St /\ r.ds = m /\ r.sel = s.sel /\ r.dec = s.dec /\ r.demux = s.demux
  BY <1>2 DEF St
<1>. HIDE DEF r
<1>4. /\ a \in St /\ Like(a, r) /\ ~a.ds.read_cb
      /\ a.ds.fallback_buffers = r.ds.fallback_buffers
  BY <1>3, ReadOver
<1>5. a.demux = r.demux
  BY <1>3, Parts DEF AbortRead, St
<1>. HIDE DEF a
<1>6. /\ t \in St /\ Like(t, a) /\ Empty(t.ds)
      /\ t.ds.fallback_buffers = a.ds.fallback_buffers
  BY <1>4, Clears DEF Empty
<1>7. t.demux = a.demux
  BY <1>4, Parts DEF ClearOutputs, St
<1>. HIDE DEF t
<1>8. /\ t.ds.state = s.ds.state /\ t.ds.reset_cb /\ t.ds.decoder = s.ds.decoder
      /\ t.ds.decoder_produced_a_frame = s.ds.decoder_produced_a_frame
      /\ t.ds.decrypting_demuxer_stream = s.ds.decrypting_demuxer_stream
      /\ t.ds.pending_demuxer_read = s.ds.pending_demuxer_read
      /\ t.ds.pending_decode_requests = s.ds.pending_decode_requests
      /\ t.ds.fallback_buffers = s.ds.fallback_buffers
      /\ t.sel.phase = s.sel.phase /\ t.dec = s.dec /\ t.demux = s.demux
  BY <1>2, <1>3, <1>4, <1>5, <1>6, <1>7 DEF Like, SameFlags
<1>9. Fits(t)
  <2>1. Counts(t) /\ Prepares(t) /\ Reading(t) /\ Resetting(t)
    BY <1>6, <1>8 DEF Fits, Counts, Prepares, Reading, Resetting, Empty
  <2>2. Selecting(t) /\ HasDecoder(t)
    BY <1>8 DEF Fits, Selecting, HasDecoder
  <2>3. MaxRequests = 1 => OneByOne(t)
    BY <1>8 DEF Fits, OneByOne
  <2>. QED
    BY <2>1, <2>2, <2>3 DEF Fits
<1>10. CASE s.ds.state = "ERROR" /\ ~s.ds.pending_demuxer_read
  BY <1>1, <1>6, <1>8, <1>9, <1>10, ResetOver
<1>11. CASE \/ s.ds.state = "REINITIALIZING_DECODER"
            \/ ~s.ds.decrypting_demuxer_stream /\ s.ds.pending_demuxer_read
  <2>1. s.ds.state = "REINITIALIZING_DECODER" =>
          ~(s.ds.state = "ERROR" /\ ~s.ds.pending_demuxer_read)
    OBVIOUS
  <2>. QED
    BY <1>1, <1>6, <1>8, <1>9, <1>10, <1>11, <2>1
<1>12. CASE /\ ~(s.ds.state = "ERROR" /\ ~s.ds.pending_demuxer_read)
            /\ s.ds.state # "REINITIALIZING_DECODER" /\ s.ds.decrypting_demuxer_stream
  <2>1. n \in Stream /\ n.reading = s.demux.reading /\ n.resetting
    BY <1>6, <1>8, Parts DEF Stream
  <2>. HIDE DEF n
  <2>2. w \in St /\ w.ds = t.ds /\ w.dec = t.dec /\ w.sel = t.sel /\ w.demux = n
    BY <1>6, <2>1 DEF St
  <2>. HIDE DEF w
  <2>3. Counts(w) /\ Prepares(w) /\ Reading(w) /\ Resetting(w)
    BY <1>6, <1>8, <1>9, <1>12, <2>1, <2>2 DEF Fits, Counts, Prepares, Reading, Resetting
  <2>4. Selecting(w) /\ HasDecoder(w)
    BY <1>9, <2>2 DEF Fits, Selecting, HasDecoder
  <2>5. MaxRequests = 1 => OneByOne(w)
    BY <1>8, <1>9, <1>12, <2>1, <2>2 DEF Fits, OneByOne
  <2>. QED
    BY <1>1, <1>8, <1>12, <2>2, <2>3, <2>4, <2>5 DEF Fits
<1>13. CASE /\ s.ds.state # "ERROR" /\ s.ds.state # "REINITIALIZING_DECODER"
            /\ ~s.ds.decrypting_demuxer_stream /\ ~s.ds.pending_demuxer_read
  <2>1. /\ d \in Decoder /\ d.todo = s.dec.todo /\ d.held = s.dec.held
        /\ d.reinitializing = s.dec.reinitializing
    BY <1>6, <1>8, Parts DEF Decoder
  <2>. HIDE DEF d
  <2>2. u \in St /\ u.ds = t.ds /\ u.dec = d /\ u.sel = t.sel /\ u.demux = t.demux
    BY <1>6, <2>1 DEF St
  <2>. HIDE DEF u
  <2>3. Counts(u) /\ Prepares(u) /\ Reading(u) /\ Resetting(u)
    BY <1>6, <1>8, <1>9, <1>13, <2>1, <2>2 DEF Fits, Counts, Prepares, Reading, Resetting
  <2>4. Selecting(u) /\ HasDecoder(u)
    BY <1>8, <1>9, <2>1, <2>2 DEF Fits, Selecting, HasDecoder
  <2>5. MaxRequests = 1 => OneByOne(u)
    BY <1>8, <1>9, <1>13, <2>1, <2>2 DEF Fits, OneByOne
  <2>. QED
    BY <1>1, <1>8, <1>13, <2>2, <2>3, <2>4, <2>5 DEF Fits
<1>. QED
  BY <1>10, <1>11, <1>12, <1>13

(* A handler's state is the next one.                                        *)
LEMMA Becomes ==
  ASSUME UNCHANGED setup, NEW v \in St, Fits(v), Become(v)
  PROVE  (Now \in St /\ Fits(Now))'
<1>1. Now' = v
  BY DEF Now, Become, St
<1>2. (Now \in St)'
  <2>1. (Now \in St)' <=> Now' \in St
    BY DEF St, Now, Members, Selector, Decoder, Stream, Client, Buffers, Outputs, MaxBuffers
  <2>. QED
    BY <1>1, <2>1
<1>3. Fits(Now)'
  BY <1>1
     DEF Fits, Counts, Prepares, Reading, Resetting, Empty, Selecting, HasDecoder, OneByOne,
         MaxRequests
<1>. QED
  BY <1>2, <1>3

(* What all handlers start from.                                             *)
LEMMA Found ==
  ASSUME IInv
  PROVE  /\ setup \in Setups /\ Now \in St /\ Fits(Now)
         /\ Now.ds = ds /\ Now.sel = sel /\ Now.dec = dec /\ Now.demux = demux
         /\ Now.client = client
  BY DEF IInv, Now

NewDecoderFits ==
  /\ NewDecoder \in Decoder /\ NewDecoder.todo = << >> /\ NewDecoder.held = << >>
  /\ ~NewDecoder.resetting /\ ~NewDecoder.reinitializing

LEMMA New == NewDecoderFits
  BY DEF NewDecoderFits, NewDecoder, Decoder

Holds == Now \in St /\ Fits(Now)

LEMMA AfterInitializeDone ==
  ASSUME IInv, UNCHANGED setup, NEW success \in BOOLEAN, OnDecoderInitializeDone(success)
  PROVE  Holds'
<1>. DEFINE n == [Now.sel EXCEPT !.phase = "done", !.found = TRUE]
            w == [Now EXCEPT !.sel = n]
<1>1. Now.ds.state \in Choosing /\ ~Now.dec.reinitializing
  BY Found DEF OnDecoderInitializeDone, Fits, Selecting, Choosing
<1>2. Become(w) \/ Become(InitializeDecoder(Now))
  BY Parts, Found DEF OnDecoderInitializeDone, Selector
<1>3. n \in Selector
  BY Parts, Found DEF Selector
<1>. HIDE DEF n
<1>4. w \in St /\ Fits(w)
  BY <1>1, <1>3, Found, SelectorFits
<1>. HIDE DEF w
<1>5. InitializeDecoder(Now) \in St /\ Fits(InitializeDecoder(Now))
  BY <1>1, Found, Initializes
<1>. QED
  BY <1>2, <1>4, <1>5, Becomes DEF Holds

LEMMA AfterDecryptingInitializeDone ==
  ASSUME IInv, UNCHANGED setup, NEW success \in BOOLEAN,
         OnDecryptingDemuxerStreamInitializeDone(success)
  PROVE  Holds'
<1>. DEFINE left == setup.decoders
            n == [Now.sel EXCEPT !.dds = TRUE, !.decrypted = TRUE, !.left = left]
            w == [Now EXCEPT !.sel = n]
            o == [Now.sel EXCEPT !.phase = "done", !.found = FALSE, !.dds = FALSE, !.left = 0]
            z == [Now EXCEPT !.sel = o]
<1>1. Now.ds.state \in Choosing /\ ~Now.dec.reinitializing
  BY Found DEF OnDecryptingDemuxerStreamInitializeDone, Fits, Selecting, Choosing
<1>2. Become(InitializeDecoder(w)) \/ Become(z)
  BY Parts, Found DEF OnDecryptingDemuxerStreamInitializeDone, ReturnNullDecoder, Selector
<1>3. Now.sel \in Selector /\ 0 \in 0 .. setup.decoders /\ left \in 0 .. setup.decoders
  BY Parts, Found, Lefts
<1>. HIDE DEF left
<1>4. n \in Selector /\ n.phase = Now.sel.phase /\ o \in Selector
  BY <1>3 DEF Selector
<1>. HIDE DEF n, o
<1>5. z \in St /\ Fits(z)
  BY <1>1, <1>4, Found, SelectorFits
<1>6. w \in St /\ Fits(w) /\ SameButSel(w, Now)
  BY <1>4, Found, SelectorFits
<1>. HIDE DEF z, w
<1>7. InitializeDecoder(w) \in St /\ Fits(InitializeDecoder(w))
  BY <1>1, <1>6, Found, Initializes DEF SameButSel
<1>. QED
  BY <1>2, <1>5, <1>7, Becomes DEF Holds

(* The decoder is given up; what it was doing never comes back.              *)
LEMMA WithNewDecoder ==
  ASSUME NEW s \in St, Fits(s), s.ds.state \in Choosing
  PROVE  LET v == [s EXCEPT !.dec = NewDecoder]
         IN  /\ v \in St /\ Fits(v) /\ v.dec = NewDecoder
             /\ v.ds = s.ds /\ v.sel = s.sel /\ v.demux = s.demux
<1>. DEFINE v == [s EXCEPT !.dec = NewDecoder]
<1>1. /\ v \in St /\ v.dec = NewDecoder
      /\ v.ds = s.ds /\ v.sel = s.sel /\ v.demux = s.demux
  BY New DEF St, NewDecoderFits
<1>. HIDE DEF v
<1>2. Counts(v) /\ Prepares(v) /\ Reading(v) /\ Resetting(v)
  BY <1>1, New
     DEF Fits, Counts, Prepares, Reading, Resetting, Selecting, Choosing, Away, NewDecoderFits
<1>3. Selecting(v) /\ HasDecoder(v)
  BY <1>1, New DEF Fits, Selecting, HasDecoder, NewDecoderFits
<1>4. MaxRequests = 1 => OneByOne(v)
  BY <1>1, New DEF Fits, OneByOne, NewDecoderFits
<1>. QED
  BY <1>1, <1>2, <1>3, <1>4 DEF Fits, v

LEMMA AfterReinitialized ==
  ASSUME IInv, UNCHANGED setup, NEW success \in BOOLEAN, OnDecoderReinitialized(success)
  PROVE  Holds'
<1>. DEFINE s == [Now EXCEPT !.dec = NewDecoder]
<1>1. /\ Now.ds.state = "REINITIALIZING_DECODER" /\ Now.sel.phase = "idle" /\ Now.ds.decoder
  BY Found, Parts DEF OnDecoderReinitialized, Fits, Selecting, HasDecoder, Selector
<1>2. Become(CompleteDecoderReinitialization(s, TRUE)) \/ Become(SelectDecoder(s))
  BY DEF OnDecoderReinitialized
<1>3. /\ s \in St /\ Fits(s) /\ s.dec = NewDecoder /\ s.ds = Now.ds /\ s.sel = Now.sel
  BY <1>1, Found, WithNewDecoder DEF Choosing
<1>. HIDE DEF s
<1>4. LET v == CompleteDecoderReinitialization(s, TRUE) IN v \in St /\ Fits(v)
  BY <1>1, <1>3, New, Completes DEF NewDecoderFits
<1>5. LET v == SelectDecoder(s) IN v \in St /\ Fits(v)
  BY <1>1, <1>3, New, Found, SelectsADecoder DEF NewDecoderFits, Choosing
<1>. QED
  BY <1>2, <1>4, <1>5, Becomes DEF Holds

LEMMA AfterSelected ==
  ASSUME IInv, UNCHANGED setup, OnDecoderSelected
  PROVE  Holds'
<1>. DEFINE n == [Now.sel EXCEPT !.phase = "idle", !.dds = FALSE]
            found == Now.sel.found
            decrypting == Now.ds.decrypting_demuxer_stream \/ Now.sel.dds
            m == [Now.ds EXCEPT !.decoder = found, !.decrypting_demuxer_stream = decrypting]
            f == [m EXCEPT !.fallback_buffers = ds.pending_buffers]
            i == [f EXCEPT !.init_cb = FALSE,
                           !.state = IF found THEN "NORMAL" ELSE "UNINITIALIZED"]
            o == [[Now EXCEPT !.sel = n] EXCEPT !.dec = NewDecoder]
            s == [o EXCEPT !.ds = m]
            r == [o EXCEPT !.ds = f]
            z == [r EXCEPT !.ds = i]
<1>1. Now.ds.state \in Choosing /\ ~Now.dec.reinitializing
  BY Found DEF OnDecoderSelected, Fits, Selecting, Choosing
<1>. DEFINE selected == [Now EXCEPT !.sel.phase = "idle", !.sel.dds = FALSE,
                          !.ds.decoder = sel.found, !.dec = NewDecoder,
                          !.ds.decrypting_demuxer_stream = @ \/ sel.dds]
            refilled == [selected EXCEPT !.ds.fallback_buffers = ds.pending_buffers]
            answered == [refilled EXCEPT !.ds.init_cb = FALSE,
                           !.ds.state = IF sel.found THEN "NORMAL" ELSE "UNINITIALIZED"]
<1>2. selected = s
  BY Parts, Found DEF Members, Selector, Now
<1>3. refilled = r
  <2>1. refilled = [s EXCEPT !.ds.fallback_buffers = ds.pending_buffers]
    BY <1>2
  <2>. QED
    BY <2>1, ZenonT(60) DEF Now
<1>6. /\ m \in Members /\ m.state = Now.ds.state /\ m.decoder = found
      /\ m.decrypting_demuxer_stream = decrypting
      /\ m.reset_cb = Now.ds.reset_cb /\ SameOutputs(m, Now.ds) /\ m.read_cb = Now.ds.read_cb
      /\ m.decoder_produced_a_frame = Now.ds.decoder_produced_a_frame
      /\ m.pending_demuxer_read = Now.ds.pending_demuxer_read
      /\ m.pending_decode_requests = Now.ds.pending_decode_requests
      /\ m.fallback_buffers = Now.ds.fallback_buffers
  <2>1. Now.ds \in Members /\ found \in BOOLEAN
    BY Parts, Found DEF Selector
  <2>2. decrypting \in BOOLEAN
    BY Parts, Found DEF Members, Selector
  <2>. HIDE DEF found, decrypting
  <2>3. m \in Members
    BY <2>1, <2>2 DEF Members
  <2>4. SameOutputs(m, Now.ds)
    BY <2>1 DEF Members, SameOutputs
  <2>. QED
    BY <2>1, <2>3, <2>4 DEF Members
<1>7. ds.pending_buffers \in Seq(Buffers)
  BY Parts, Found DEF Members
<1>. HIDE DEF m
<1>8. /\ f \in Members /\ SameFlags(f, m) /\ SameOutputs(f, m)
      /\ f.pending_demuxer_read = m.pending_demuxer_read
      /\ f.pending_decode_requests = m.pending_decode_requests
      /\ f.read_cb = m.read_cb
  BY <1>6, <1>7 DEF Members, SameFlags, SameOutputs
<1>9. n \in Selector /\ n.phase = "idle"
  BY Parts, Found DEF Selector
<1>10. found \in BOOLEAN
  BY Parts, Found DEF Selector
<1>. HIDE DEF n, f, found
<1>11. /\ i \in Members /\ i.state = IF found THEN "NORMAL" ELSE "UNINITIALIZED"
       /\ i.decoder = f.decoder /\ i.reset_cb = f.reset_cb
       /\ SameOutputs(i, f) /\ i.decoder_produced_a_frame = f.decoder_produced_a_frame
       /\ i.decrypting_demuxer_stream = f.decrypting_demuxer_stream
       /\ i.pending_demuxer_read = f.pending_demuxer_read
       /\ i.pending_decode_requests = f.pending_decode_requests
  BY <1>8, <1>10 DEF Members, SameOutputs
<1>12. o \in St /\ o.sel = n /\ o.dec = NewDecoder /\ o.demux = Now.demux
  BY <1>9, Found, New DEF St, NewDecoderFits
<1>. HIDE DEF o
<1>13. s \in St /\ s.sel = n /\ s.dec = NewDecoder /\ s.demux = Now.demux /\ s.ds = m
  BY <1>6, <1>12 DEF St
<1>14. r \in St /\ r.sel = n /\ r.dec = NewDecoder /\ r.demux = Now.demux /\ r.ds = f
  BY <1>8, <1>12 DEF St
<1>15. z \in St /\ z.sel = n /\ z.dec = NewDecoder /\ z.demux = Now.demux /\ z.ds = i
  <2>. HIDE DEF i, r
  <2>. QED
    BY <1>11, <1>14 DEF St
<1>4. answered = z
  <2>1. answered = [r EXCEPT !.ds.init_cb = FALSE,
                             !.ds.state = IF found THEN "NORMAL" ELSE "UNINITIALIZED"]
    BY <1>3, Found DEF found
  <2>. HIDE DEF r
  <2>2. [r EXCEPT !.ds.init_cb = FALSE,
                  !.ds.state = IF found THEN "NORMAL" ELSE "UNINITIALIZED"] = z
    BY <1>14 DEF St
  <2>. HIDE DEF answered, z
  <2>. QED
    BY <2>1, <2>2
<1>5. \/ Become(CompleteDecoderReinitialization(s, FALSE))
      \/ /\ Now.ds.state = "REINITIALIZING_DECODER"
         /\ Become(CompleteDecoderReinitialization(r, found))
      \/ Now.ds.state = "INITIALIZING" /\ Become(z)
  <2>. HIDE DEF s, r, z, selected, refilled
  <2>1. Become(IF ds.received_config_change_during_reinit
               THEN CompleteDecoderReinitialization(selected, FALSE)
               ELSE IF ds.state = "REINITIALIZING_DECODER"
               THEN CompleteDecoderReinitialization(refilled, sel.found)
               ELSE answered)
    BY DEF OnDecoderSelected, selected, refilled
  <2>. QED
    BY <1>1, <1>2, <1>3, <1>4, <2>1, Found DEF Choosing, found
<1>. HIDE DEF s, r, z, selected, refilled, answered, i
<1>16. Now.dec.todo = << >> /\ ~Now.dec.resetting /\ ~Now.demux.resetting
       /\ Now.ds.pending_decode_requests = 0
       /\ (Now.ds.pending_demuxer_read => Now.ds.state = "REINITIALIZING_DECODER")
  BY <1>1, Found DEF Fits, Counts, Selecting, Resetting, Reading, Away, Choosing
<1>17. Fits(s) /\ Fits(r)
  <2>1. ASSUME NEW w \in {s, r} PROVE Fits(w)
    <3>1. /\ w.sel = n /\ w.dec = NewDecoder /\ w.demux = Now.demux
          /\ w.ds.state = Now.ds.state /\ w.ds.decoder = found
          /\ w.ds.decrypting_demuxer_stream = decrypting
          /\ w.ds.reset_cb = Now.ds.reset_cb /\ SameOutputs(w.ds, Now.ds)
          /\ w.ds.decoder_produced_a_frame = Now.ds.decoder_produced_a_frame
          /\ w.ds.pending_demuxer_read = Now.ds.pending_demuxer_read
          /\ w.ds.pending_decode_requests = Now.ds.pending_decode_requests
      BY <1>6, <1>8, <1>13, <1>14 DEF SameFlags, SameOutputs
    <3>2. w.ds.reset_cb => Empty(w.ds)
      BY <1>6, <1>8, <1>13, <1>14, <3>1, Found DEF Fits, Resetting, Empty, SameOutputs
    <3>3. Counts(w) /\ Prepares(w) /\ Reading(w) /\ Resetting(w)
      BY <1>16, <3>1, <3>2, New, Found
         DEF Fits, Counts, Prepares, Reading, Resetting, SameOutputs, NewDecoderFits
    <3>4. Selecting(w) /\ HasDecoder(w)
      BY <1>1, <1>9, <3>1, New, Found
         DEF Fits, Selecting, HasDecoder, NewDecoderFits, Choosing, Running
    <3>5. MaxRequests = 1 => OneByOne(w)
      BY <1>1, <1>16, <3>1, New, Found DEF Fits, OneByOne, Reading, NewDecoderFits, Choosing
    <3>. QED
      BY <3>3, <3>4, <3>5 DEF Fits
  <2>. QED
    BY <2>1
<1>18. ASSUME Now.ds.state = "INITIALIZING" PROVE Fits(z)
  <2>1. /\ z.ds.state = (IF found THEN "NORMAL" ELSE "UNINITIALIZED") /\ z.ds.decoder = found
        /\ ~z.ds.reset_cb /\ SameOutputs(z.ds, Now.ds) /\ ~z.ds.pending_demuxer_read
        /\ z.ds.pending_decode_requests = 0
    BY <1>6, <1>8, <1>11, <1>15, <1>16, <1>18, Found
       DEF SameFlags, SameOutputs, Fits, Resetting, Away
  <2>2. Counts(z) /\ Prepares(z) /\ Reading(z) /\ Resetting(z)
    BY <1>15, <1>16, <1>18, <2>1, New, Found
       DEF Fits, Counts, Prepares, Reading, Resetting, SameOutputs, NewDecoderFits, Away
  <2>3. Selecting(z) /\ HasDecoder(z)
    BY <1>9, <1>15, <2>1, New DEF Selecting, HasDecoder, NewDecoderFits, Running
  <2>4. MaxRequests = 1 => OneByOne(z)
    BY <1>15, <2>1, <2>2, New DEF OneByOne, Reading, NewDecoderFits
  <2>. QED
    BY <2>2, <2>3, <2>4 DEF Fits
<1>19. /\ s.sel.phase = "idle" /\ ~s.dec.reinitializing /\ s.ds.state = Now.ds.state
       /\ r.sel.phase = "idle" /\ ~r.dec.reinitializing /\ r.ds.state = Now.ds.state
       /\ r.ds.decoder = found
  BY <1>6, <1>8, <1>9, <1>13, <1>14, New DEF NewDecoderFits, SameFlags
<1>20. LET v == CompleteDecoderReinitialization(s, FALSE) IN v \in St /\ Fits(v)
  BY <1>1, <1>13, <1>17, <1>19, Completes DEF Choosing
<1>21. ASSUME Now.ds.state = "REINITIALIZING_DECODER"
       PROVE  LET v == CompleteDecoderReinitialization(r, found) IN v \in St /\ Fits(v)
  BY <1>10, <1>14, <1>17, <1>19, <1>21, Completes
<1>. QED
  BY <1>5, <1>15, <1>18, <1>20, <1>21, Becomes DEF Holds

(* The decoder has been reset: for a config change, or for the client.       *)
LEMMA AfterDecoderReset ==
  ASSUME IInv, UNCHANGED setup, OnDecoderReset
  PROVE  Holds'
<1>. DEFINE eos == /\ Now.ds.decoding_eos
                   /\ \A i \in 1 .. Len(dec.todo) : ~dec.todo[i].end_of_stream
            m == [Now.ds EXCEPT !.pending_decode_requests = 0, !.decoding_eos = eos,
                                !.fallback_buffers = << >>, !.pending_buffers = << >>]
            c == [[Now EXCEPT !.ds = m] EXCEPT !.dec = NewDecoder]
            normal == [c EXCEPT !.ds.state = "NORMAL"]
            aborted == [Now EXCEPT !.dec = NewDecoder, !.ds.pending_decode_requests = 0,
                          !.ds.decoding_eos = eos]
            cleared == [aborted EXCEPT !.ds.fallback_buffers = << >>,
                                       !.ds.pending_buffers = << >>]
<1>1. eos \in BOOLEAN
  BY Parts, Found DEF Members
<1>2. Become(IF ds.state = "FLUSHING_DECODER" THEN ReinitializeDecoder(cleared)
             ELSE ResetDone([cleared EXCEPT !.ds.state = "NORMAL"]))
  BY DEF OnDecoderReset, Now
<1>. HIDE DEF eos
<1>3. cleared = c
  BY Parts, Found DEF Members, Now
<1>. HIDE DEF cleared
<1>4. \/ Now.ds.state = "FLUSHING_DECODER" /\ Become(ReinitializeDecoder(c))
      \/ Now.ds.state # "FLUSHING_DECODER" /\ Become(ResetDone(normal))
  BY <1>2, <1>3, Found
<1>5. << >> \in Seq(Buffers)
  OBVIOUS
<1>6. /\ m \in Members /\ SameFlags(m, Now.ds) /\ SameOutputs(m, Now.ds)
      /\ m.read_cb = Now.ds.read_cb /\ m.pending_decode_requests = 0
      /\ m.pending_demuxer_read = Now.ds.pending_demuxer_read /\ m.fallback_buffers = << >>
  BY <1>1, <1>5, Parts, Found, ZenonT(60) DEF Members, SameFlags, SameOutputs
<1>. HIDE DEF m
<1>7. /\ c \in St /\ c.ds = m /\ c.sel = Now.sel /\ c.dec = NewDecoder /\ c.demux = Now.demux
  BY <1>6, Found, New DEF St, NewDecoderFits
<1>. HIDE DEF c
<1>8. /\ Now.dec.resetting /\ Now.ds.decoder /\ Now.ds.reset_cb /\ ~Now.demux.resetting
      /\ Now.ds.state \in Running \cup {"ERROR"}
      /\ (MaxRequests = 1 => Now.ds.state # "ERROR")
      /\ Now.sel.phase = "idle" /\ ~Now.dec.reinitializing
  BY Found, Parts DEF OnDecoderReset, Fits, Resetting, OneByOne, Selecting, Away, Running, Members
<1>9. c.dec.todo = << >> /\ ~c.dec.resetting /\ ~c.demux.resetting /\ Counts(c)
  BY <1>6, <1>7, <1>8, New DEF NewDecoderFits, Counts
<1>10. (c.ds.reset_cb => Empty(c.ds)) /\ Prepares(c)
  BY <1>6, <1>7, Found DEF Fits, Resetting, Prepares, Empty, SameOutputs, SameFlags
<1>11. ASSUME Now.ds.state = "FLUSHING_DECODER" PROVE Fits(c)
  <2>1. Counts(c) /\ Prepares(c) /\ Reading(c) /\ Resetting(c)
    BY <1>6, <1>7, <1>9, <1>10, <1>11, Found DEF Fits, Reading, Resetting, SameFlags
  <2>2. Selecting(c) /\ HasDecoder(c)
    BY <1>6, <1>7, <1>8, <1>11, New, Found
       DEF Fits, Selecting, HasDecoder, SameFlags, NewDecoderFits
  <2>3. MaxRequests = 1 => OneByOne(c)
    BY <1>6, <1>7, <1>9, <1>11, New, Found DEF Fits, OneByOne, SameFlags, NewDecoderFits
  <2>. QED
    BY <2>1, <2>2, <2>3 DEF Fits
<1>12. LET v == ReinitializeDecoder(c)
       IN  Now.ds.state = "FLUSHING_DECODER" => v \in St /\ Fits(v)
  BY <1>6, <1>7, <1>9, <1>11, ReinitializesDecoder DEF SameFlags
<1>13. /\ normal \in St /\ normal.ds.state = "NORMAL" /\ SameButState(normal.ds, c.ds)
       /\ normal.sel = c.sel /\ normal.dec = c.dec /\ normal.demux = c.demux
  BY <1>7, InState DEF Running
<1>. HIDE DEF normal
<1>14. Fits(normal)
  <2>1. Counts(normal) /\ Prepares(normal) /\ Reading(normal) /\ Resetting(normal)
    BY <1>6, <1>7, <1>9, <1>10, <1>13, Found
       DEF Fits, Counts, Prepares, Reading, Resetting, Empty, SameFlags, SameButState,
           SameOutputs, Away
  <2>2. Selecting(normal) /\ HasDecoder(normal)
    BY <1>6, <1>7, <1>8, <1>13, New
       DEF Selecting, HasDecoder, SameFlags, SameButState, NewDecoderFits, Away
  <2>3. MaxRequests = 1 => OneByOne(normal)
    BY <1>6, <1>7, <1>8, <1>9, <1>13, New, Found
       DEF Fits, OneByOne, SameFlags, SameButState, NewDecoderFits
  <2>. QED
    BY <2>1, <2>2, <2>3 DEF Fits
<1>15. LET v == ResetDone(normal) IN v \in St /\ Fits(v)
  BY <1>9, <1>13, <1>14, ResetOver
<1>. QED
  BY <1>4, <1>12, <1>15, Becomes DEF Holds

(* A decoder puts an output out.                                             *)
LEMMA OutputComes ==
  ASSUME setup \in Setups, NEW s \in St, Fits(s), NEW output \in Outputs,
         ~(s.ds.state = "REINITIALIZING_DECODER" /\ s.ds.pending_demuxer_read)
  PROVE  LET v == OnDecodeOutputReady(s, output)
         IN  v \in St /\ Fits(v) /\ v.ds.state = s.ds.state
<1>. DEFINE m == [s.ds EXCEPT !.decoder_produced_a_frame = TRUE, !.pending_buffers = << >>]
            w == [s EXCEPT !.ds = m]
            first == FinalizeDecoderSelection(w)
            t == IF s.ds.decoder_produced_a_frame THEN s ELSE first
            unprepared == Append(t.ds.unprepared_outputs, output)
            a == [t.ds EXCEPT !.unprepared_outputs = unprepared]
            u == [t EXCEPT !.ds = a]
            ready == Append(t.ds.ready_outputs, output)
            b == [t.ds EXCEPT !.ready_outputs = ready]
            x == [t EXCEPT !.ds = b]
<1>0. w = [s EXCEPT !.ds.decoder_produced_a_frame = TRUE, !.ds.pending_buffers = << >>]
  BY DEF St
<1>1. OnDecodeOutputReady(s, output) =
        IF s.ds.state = "ERROR" \/ s.ds.reset_cb THEN s
        ELSE IF setup.prepares THEN MaybePrepareAnotherOutput(u)
        ELSE IF s.ds.read_cb THEN SatisfyRead(t, output) ELSE x
  <2>. HIDE DEF w
  <2>. QED
    BY <1>0 DEF OnDecodeOutputReady
<1>2. << >> \in Seq(Buffers)
  OBVIOUS
<1>3. /\ m \in Members /\ m.state = s.ds.state /\ m.reset_cb = s.ds.reset_cb
      /\ m.decoder = s.ds.decoder /\ m.read_cb = s.ds.read_cb /\ SameOutputs(m, s.ds)
      /\ m.decrypting_demuxer_stream = s.ds.decrypting_demuxer_stream
      /\ m.pending_demuxer_read = s.ds.pending_demuxer_read
      /\ m.pending_decode_requests = s.ds.pending_decode_requests
      /\ m.fallback_buffers = s.ds.fallback_buffers
  BY <1>2, Parts DEF Members, SameOutputs
<1>. HIDE DEF m
<1>4. w \in St /\ w.ds = m /\ w.sel = s.sel /\ w.dec = s.dec /\ w.demux = s.demux
  BY <1>3 DEF St
<1>. HIDE DEF w
<1>5. Fits(w)
  <2>1. Counts(w) /\ Prepares(w) /\ Reading(w) /\ Resetting(w)
    BY <1>3, <1>4 DEF Fits, Counts, Prepares, Reading, Resetting, Empty, SameOutputs
  <2>2. Selecting(w) /\ HasDecoder(w)
    BY <1>3, <1>4 DEF Fits, Selecting, HasDecoder
  <2>3. MaxRequests = 1 => OneByOne(w)
    BY <1>3, <1>4 DEF Fits, OneByOne
  <2>. QED
    BY <2>1, <2>2, <2>3 DEF Fits
<1>6. first \in St /\ Fits(first) /\ SameButSel(first, w)
  BY <1>4, <1>5, Finalizes
<1>. HIDE DEF first
<1>7. /\ t \in St /\ Fits(t) /\ t.ds.state = s.ds.state /\ t.ds.reset_cb = s.ds.reset_cb
  BY <1>3, <1>4, <1>6 DEF SameButSel
<1>. HIDE DEF t
<1>8. unprepared \in Seq(Outputs) /\ unprepared # << >> /\ ready \in Seq(Outputs)
  BY <1>7, Parts
<1>. HIDE DEF unprepared, ready
<1>9. /\ a \in Members /\ SameFlags(a, t.ds) /\ a.unprepared_outputs = unprepared
      /\ a.pending_demuxer_read = t.ds.pending_demuxer_read
      /\ a.pending_decode_requests = t.ds.pending_decode_requests
      /\ a.fallback_buffers = t.ds.fallback_buffers
  BY <1>7, <1>8, Parts DEF Members, SameFlags
<1>10. /\ b \in Members /\ SameFlags(b, t.ds) /\ b.preparing_output = t.ds.preparing_output
       /\ b.unprepared_outputs = t.ds.unprepared_outputs
       /\ b.pending_demuxer_read = t.ds.pending_demuxer_read
       /\ b.pending_decode_requests = t.ds.pending_decode_requests
       /\ b.fallback_buffers = t.ds.fallback_buffers
  BY <1>7, <1>8, Parts DEF Members, SameFlags
<1>. HIDE DEF a, b
<1>11. /\ u \in St /\ u.ds = a /\ u.sel = t.sel /\ u.dec = t.dec /\ u.demux = t.demux
       /\ x \in St /\ x.ds = b /\ x.sel = t.sel /\ x.dec = t.dec /\ x.demux = t.demux
  BY <1>7, <1>9, <1>10 DEF St
<1>. HIDE DEF u, x
<1>12. /\ Like(u, t) /\ Prepares(u) /\ u.ds.fallback_buffers = t.ds.fallback_buffers
       /\ Like(x, t) /\ Prepares(x) /\ x.ds.fallback_buffers = t.ds.fallback_buffers
  BY <1>7, <1>8, <1>9, <1>10, <1>11 DEF Like, Prepares, Fits
<1>13. CASE s.ds.state = "ERROR" \/ s.ds.reset_cb
  BY <1>1, <1>13
<1>14. CASE ~(s.ds.state = "ERROR" \/ s.ds.reset_cb)
  <2>1. ~u.ds.reset_cb /\ ~x.ds.reset_cb
    BY <1>7, <1>12, <1>14 DEF Like, SameFlags
  <2>2. Fits(u) /\ Fits(x)
    BY <1>7, <1>11, <1>12, <2>1, OutputsFit
  <2>3. LET v == MaybePrepareAnotherOutput(u) IN v \in St /\ Fits(v) /\ Like(v, u)
    BY <1>11, <2>1, <2>2, PreparesAnother
  <2>4. LET v == SatisfyRead(t, output) IN v \in St /\ Fits(v) /\ Like(v, t)
    BY <1>7, ReadOver
  <2>. QED
    BY <1>1, <1>7, <1>11, <1>12, <1>14, <2>2, <2>3, <2>4 DEF Like, SameFlags
<1>. QED
  BY <1>13, <1>14

LEMMA AfterDecoderOutputs ==
  ASSUME IInv, UNCHANGED setup, DecoderOutputs
  PROVE  Holds'
<1>. DEFINE held == Tail(dec.held)
            d == [Now.dec EXCEPT !.held = held]
            w == [Now EXCEPT !.dec = d]
            output == Head(dec.held)
<1>1. Become(OnDecodeOutputReady(w, output))
  BY Found DEF DecoderOutputs
<1>2. dec.held \in Seq(Outputs) /\ dec.held # << >>
  BY Parts, Found DEF Decoder, DecoderOutputs
<1>3. held \in Seq(Outputs) /\ output \in Outputs
  BY <1>2
<1>. HIDE DEF held, output
<1>4. /\ d \in Decoder /\ d.todo = dec.todo /\ d.resetting = dec.resetting
      /\ d.reinitializing = dec.reinitializing
  BY <1>3, Parts, Found DEF Decoder
<1>. HIDE DEF d
<1>5. w \in St /\ w.ds = ds /\ w.sel = sel /\ w.demux = demux /\ w.dec = d
  BY <1>4, Found DEF St
<1>. HIDE DEF w
<1>6. ~(ds.state = "REINITIALIZING_DECODER" /\ ds.pending_demuxer_read)
  BY <1>2, Found DEF Fits, Selecting
<1>7. Fits(w)
  <2>1. Counts(w) /\ Prepares(w) /\ Reading(w) /\ Resetting(w)
    BY <1>4, <1>5, Found DEF Fits, Counts, Prepares, Reading, Resetting
  <2>2. Selecting(w) /\ HasDecoder(w)
    BY <1>4, <1>5, <1>6, Found DEF Fits, Selecting, HasDecoder
  <2>3. MaxRequests = 1 => OneByOne(w)
    BY <1>4, <1>5, Found DEF Fits, OneByOne
  <2>. QED
    BY <2>1, <2>2, <2>3 DEF Fits
<1>8. LET v == OnDecodeOutputReady(w, output) IN v \in St /\ Fits(v)
  BY <1>3, <1>5, <1>6, <1>7, Found, OutputComes
<1>. QED
  BY <1>1, <1>8, Becomes DEF Holds

LEMMA PreparedOutputFits ==
  ASSUME IInv, OnPreparedOutputReady
  PROVE  LET output == Head(ds.unprepared_outputs)
             done == [Now EXCEPT !.ds.preparing_output = FALSE,
                                 !.ds.unprepared_outputs = Tail(ds.unprepared_outputs)]
             kept == [done EXCEPT !.ds.ready_outputs = Append(@, output)]
             next == MaybePrepareAnotherOutput(IF ds.read_cb THEN SatisfyRead(done, output)
                                               ELSE kept)
         IN  next \in St /\ Fits(next) /\ next.ds.state = ds.state /\ ~next.ds.reset_cb
<1>. DEFINE output == Head(ds.unprepared_outputs)
            rest == Tail(ds.unprepared_outputs)
            m == [Now.ds EXCEPT !.preparing_output = FALSE, !.unprepared_outputs = rest]
            done == [Now EXCEPT !.ds = m]
            ready == Append(m.ready_outputs, output)
            k == [m EXCEPT !.ready_outputs = ready]
            kept == [done EXCEPT !.ds = k]
            given == SatisfyRead(done, output)
            t == IF ds.read_cb THEN given ELSE kept
            next == MaybePrepareAnotherOutput(t)
<1>1. done = [Now EXCEPT !.ds.preparing_output = FALSE, !.ds.unprepared_outputs = rest]
  BY Found DEF St
<1>2. ds.unprepared_outputs \in Seq(Outputs) /\ ds.unprepared_outputs # << >>
  BY Parts, Found DEF OnPreparedOutputReady, Fits, Prepares
<1>3. output \in Outputs /\ rest \in Seq(Outputs)
  BY <1>2
<1>4. ~ds.reset_cb /\ ds.preparing_output
  BY Found DEF OnPreparedOutputReady, Fits, Resetting, Empty
<1>. DEFINE d0 == [Now EXCEPT !.ds.preparing_output = FALSE, !.ds.unprepared_outputs = rest]
            k0 == [d0 EXCEPT !.ds.ready_outputs = Append(@, output)]
            n0 == MaybePrepareAnotherOutput(IF ds.read_cb THEN SatisfyRead(d0, output) ELSE k0)
<1>5. n0 = next
  <2>1. kept = [done EXCEPT !.ds.ready_outputs = Append(@, output)]
    BY Found DEF St
  <2>2. d0 = done
    BY <1>1
  <2>. HIDE DEF done, kept, d0
  <2>3. k0 = kept
    BY <2>1, <2>2
  <2>. HIDE DEF k0
  <2>. QED
    BY <2>2, <2>3
<1>0. SUFFICES n0 \in St /\ Fits(n0) /\ n0.ds.state = ds.state /\ ~n0.ds.reset_cb
  OBVIOUS
<1>. HIDE DEF n0
<1>. HIDE DEF output, rest
<1>6. /\ m \in Members /\ SameFlags(m, Now.ds) /\ ~m.preparing_output
      /\ m.pending_demuxer_read = Now.ds.pending_demuxer_read
      /\ m.pending_decode_requests = Now.ds.pending_decode_requests
      /\ m.fallback_buffers = Now.ds.fallback_buffers
  BY <1>3, Parts, Found DEF Members, SameFlags
<1>. HIDE DEF m
<1>7. ready \in Seq(Outputs)
  BY <1>3, <1>6 DEF Members
<1>. HIDE DEF ready
<1>8. /\ k \in Members /\ SameFlags(k, m) /\ ~k.preparing_output
      /\ k.pending_demuxer_read = m.pending_demuxer_read
      /\ k.pending_decode_requests = m.pending_decode_requests
      /\ k.fallback_buffers = m.fallback_buffers
  BY <1>6, <1>7 DEF Members, SameFlags
<1>. HIDE DEF k
<1>9. /\ done \in St /\ done.ds = m /\ done.sel = sel /\ done.dec = dec /\ done.demux = demux
  BY <1>6, Found DEF St
<1>. HIDE DEF done
<1>10. /\ kept \in St /\ kept.ds = k /\ kept.sel = sel /\ kept.dec = dec /\ kept.demux = demux
  BY <1>8, <1>9 DEF St
<1>. HIDE DEF kept
<1>11. /\ Like(done, Now) /\ Prepares(done) /\ ~done.ds.reset_cb
       /\ done.ds.fallback_buffers = Now.ds.fallback_buffers
       /\ Like(kept, Now) /\ Prepares(kept) /\ ~kept.ds.reset_cb
       /\ kept.ds.fallback_buffers = Now.ds.fallback_buffers
  BY <1>4, <1>6, <1>8, <1>9, <1>10, Found DEF Like, SameFlags, Prepares
<1>12. Fits(done) /\ Fits(kept)
  BY <1>9, <1>10, <1>11, Found, OutputsFit
<1>13. given \in St /\ Fits(given) /\ Like(given, done)
  BY <1>3, <1>9, <1>12, ReadOver
<1>. HIDE DEF given
<1>14. t \in St /\ Fits(t) /\ ~t.ds.reset_cb /\ t.ds.state = ds.state
  BY <1>10, <1>11, <1>12, <1>13, Found DEF Like, SameFlags
<1>. HIDE DEF t
<1>15. next \in St /\ Fits(next) /\ Like(next, t)
  BY <1>14, PreparesAnother
<1>. HIDE DEF next
<1>. QED
  BY <1>5, <1>14, <1>15 DEF Like, SameFlags

LEMMA PreparedOutputIsDone ==
  ASSUME IInv, OnPreparedOutputReady
  PROVE  \E v \in St : Fits(v) /\ Become(v) /\ (ds.state = "ERROR" => v.ds.state = "ERROR")
<1>. DEFINE output == Head(ds.unprepared_outputs)
            done == [Now EXCEPT !.ds.preparing_output = FALSE,
                                !.ds.unprepared_outputs = Tail(ds.unprepared_outputs)]
            kept == [done EXCEPT !.ds.ready_outputs = Append(@, output)]
            next == MaybePrepareAnotherOutput(IF ds.read_cb THEN SatisfyRead(done, output)
                                              ELSE kept)
<1>1. Become(IF ds.state = "NORMAL" THEN ReadIfPossible(next) ELSE next)
  BY DEF OnPreparedOutputReady, Now
<1>2. next \in St /\ Fits(next) /\ next.ds.state = ds.state /\ ~next.ds.reset_cb
  BY PreparedOutputFits
<1>. HIDE DEF next
<1>3. ASSUME ds.state = "NORMAL" PROVE ReadIfPossible(next) \in St /\ Fits(ReadIfPossible(next))
  BY <1>2, <1>3, Reads
<1>. QED
  BY <1>1, <1>2, <1>3

LEMMA AfterPreparedOutput ==
  ASSUME IInv, UNCHANGED setup, OnPreparedOutputReady
  PROVE  Holds'
<1>1. PICK v \in St : Fits(v) /\ Become(v)
  BY PreparedOutputIsDone
<1>. QED
  BY <1>1, Becomes DEF Holds

(* The decoder has answered a request, and holds what is left.               *)
Took(o, held) == [o EXCEPT !.dec = [o.dec EXCEPT !.todo = Tail(o.dec.todo), !.held = held]]

RequestOver(o, held, end_of_stream, ok) ==
  LET answered == [Took(o, held) EXCEPT !.ds.pending_decode_requests = @ - 1,
                                        !.ds.decoding_eos = @ /\ ~end_of_stream]
  IN  IF end_of_stream /\ ok THEN FinalizeDecoderSelection(answered) ELSE answered

LEMMA DecodeAnswered ==
  ASSUME setup \in Setups, NEW o \in St, Fits(o), o.dec.todo # << >>,
         NEW held \in Seq(Outputs), NEW end_of_stream \in BOOLEAN, NEW ok \in BOOLEAN
  PROVE  LET t == RequestOver(o, held, end_of_stream, ok)
         IN  /\ t \in St /\ Fits(t) /\ Took(o, held).ds = o.ds
             /\ SameFlags(t.ds, o.ds) /\ SameOutputs(t.ds, o.ds)
             /\ t.ds.read_cb = o.ds.read_cb
             /\ t.ds.decoding_eos = (o.ds.decoding_eos /\ ~end_of_stream)
             /\ t.ds.fallback_buffers = o.ds.fallback_buffers
             /\ t.ds.pending_buffers = o.ds.pending_buffers
             /\ t.dec.todo = Tail(o.dec.todo) /\ t.dec.held = held
             /\ t.dec.resetting = o.dec.resetting
             /\ t.dec.reinitializing = o.dec.reinitializing
             /\ t.demux = o.demux /\ t.client = o.client
             /\ t.ds.state \in Running \cup {"ERROR"}
             /\ MaxRequests = 1 => ~t.ds.pending_demuxer_read /\ t.dec.todo = << >>
             /\ t.ds.pending_decode_requests = 0 => t.dec.todo = << >>
<1>. DEFINE todo == Tail(o.dec.todo)
            d == [o.dec EXCEPT !.todo = todo, !.held = held]
            s == [o EXCEPT !.dec = d]
            n == o.ds.pending_decode_requests - 1
            eos == o.ds.decoding_eos /\ ~end_of_stream
            m == [o.ds EXCEPT !.pending_decode_requests = n, !.decoding_eos = eos]
            answered == [s EXCEPT !.ds = m]
            t == IF end_of_stream /\ ok THEN FinalizeDecoderSelection(answered) ELSE answered
            t0 == RequestOver(o, held, end_of_stream, ok)
<1>1. t0 = t /\ s = Took(o, held)
  <2>1. [s EXCEPT !.ds.pending_decode_requests = @ - 1,
                  !.ds.decoding_eos = @ /\ ~end_of_stream] = answered
    BY DEF St
  <2>2. s = Took(o, held)
    BY DEF Took
  <2>3. [Took(o, held) EXCEPT !.ds.pending_decode_requests = @ - 1,
                              !.ds.decoding_eos = @ /\ ~end_of_stream] = answered
    <3>. HIDE DEF s, answered
    <3>. QED
      BY <2>1, <2>2
  <2>. HIDE DEF s, answered
  <2>. QED
    BY <2>2, <2>3 DEF RequestOver
<1>. HIDE DEF t0
<1>2. /\ o.dec.todo \in Seq(Requests) /\ o.ds.pending_decode_requests = Len(o.dec.todo)
      /\ o.ds.decoding_eos \in BOOLEAN
  BY Parts DEF Decoder, Fits, Counts, Requests, Members
<1>3. todo \in Seq(Requests) /\ n \in Nat /\ n = Len(todo) /\ (n = 0 => todo = << >>)
      /\ (o.ds.pending_decode_requests <= 1 => n = 0) /\ eos \in BOOLEAN
  <2>1. todo \in Seq(Requests) /\ Len(todo) = Len(o.dec.todo) - 1 /\ Len(todo) \in Nat
    BY <1>2, HeadTailProperties
  <2>2. Len(todo) = 0 => todo = << >>
    BY <2>1, EmptySeq
  <2>3. eos \in BOOLEAN
    BY <1>2
  <2>4. Len(o.dec.todo) \in Nat
    BY <1>2
  <2>. HIDE DEF todo, eos
  <2>5. n = Len(todo) /\ n \in Nat
    BY <1>2, <2>1
  <2>6. \A p \in Nat : p - 1 \in Nat /\ p <= 1 => p - 1 = 0
    OBVIOUS
  <2>7. o.ds.pending_decode_requests <= 1 => n = 0
    BY <1>2, <2>4, <2>5, <2>6
  <2>. QED
    BY <2>1, <2>2, <2>3, <2>5, <2>7
<1>. HIDE DEF todo, n, eos
<1>4. /\ d \in Decoder /\ d.todo = todo /\ d.held = held /\ d.resetting = o.dec.resetting
      /\ d.reinitializing = o.dec.reinitializing
  BY <1>3, Parts DEF Decoder, Requests
<1>5. /\ m \in Members /\ SameFlags(m, o.ds) /\ SameOutputs(m, o.ds)
      /\ m.pending_decode_requests = n /\ m.read_cb = o.ds.read_cb
      /\ m.pending_demuxer_read = o.ds.pending_demuxer_read
      /\ m.fallback_buffers = o.ds.fallback_buffers
      /\ m.pending_buffers = o.ds.pending_buffers /\ m.decoding_eos = eos
  <2>1. n \in Nat /\ eos \in BOOLEAN /\ o.ds \in Members
    BY <1>3, Parts
  <2>2. m \in Members /\ SameFlags(m, o.ds) /\ SameOutputs(m, o.ds)
    BY <2>1 DEF Members, SameFlags, SameOutputs
  <2>3. /\ m.pending_decode_requests = n /\ m.read_cb = o.ds.read_cb
        /\ m.pending_demuxer_read = o.ds.pending_demuxer_read
        /\ m.fallback_buffers = o.ds.fallback_buffers
        /\ m.pending_buffers = o.ds.pending_buffers
    BY <2>1 DEF Members
  <2>4. m.decoding_eos = eos
    BY <2>1 DEF Members
  <2>. QED
    BY <2>2, <2>3, <2>4
<1>. HIDE DEF d, m
<1>6. /\ answered \in St /\ answered.ds = m /\ answered.dec = d
      /\ answered.sel = o.sel /\ answered.demux = o.demux /\ answered.client = o.client
      /\ s.ds = o.ds
  BY <1>4, <1>5 DEF St
<1>. HIDE DEF s, answered
<1>7. /\ o.ds.state \in Running \cup {"ERROR"} /\ o.ds.decoder /\ o.sel.phase = "idle"
      /\ (MaxRequests = 1 => ~o.ds.pending_demuxer_read /\ n = 0)
      /\ o.ds.state # "REINITIALIZING_DECODER"
  <2>1. o.ds.state \in Running \cup {"ERROR"} /\ o.ds.decoder /\ o.sel.phase = "idle"
    BY Parts DEF Fits, Selecting, HasDecoder, Away, Running, Members, Selector
  <2>2. o.ds.pending_decode_requests # 0
    BY <1>2
  <2>. QED
    BY <1>3, <2>1, <2>2 DEF Fits, OneByOne, Running
<1>8. Fits(answered)
  <2>1. Counts(answered) /\ Prepares(answered) /\ Reading(answered) /\ Resetting(answered)
    BY <1>3, <1>4, <1>5, <1>6
       DEF Fits, Counts, Prepares, Reading, Resetting, Empty, SameFlags, SameOutputs
  <2>2. Selecting(answered) /\ HasDecoder(answered)
    BY <1>4, <1>5, <1>6, <1>7 DEF Fits, Selecting, HasDecoder, SameFlags, Away, Running
  <2>3. MaxRequests = 1 => OneByOne(answered)
    BY <1>3, <1>4, <1>5, <1>6, <1>7 DEF Fits, OneByOne, SameFlags
  <2>. QED
    BY <2>1, <2>2, <2>3 DEF Fits
<1>9. FinalizeDecoderSelection(answered) \in St /\ Fits(FinalizeDecoderSelection(answered))
      /\ SameButSel(FinalizeDecoderSelection(answered), answered)
  BY <1>6, <1>8, Finalizes
<1>10. /\ t \in St /\ Fits(t) /\ t.ds = m /\ t.dec = d /\ t.demux = o.demux
       /\ t.client = o.client
  BY <1>6, <1>8, <1>9 DEF SameButSel
<1>. HIDE DEF t
<1>11. /\ SameFlags(t.ds, o.ds) /\ t.ds.state \in Running \cup {"ERROR"}
       /\ SameOutputs(t.ds, o.ds)
  BY <1>5, <1>7, <1>10 DEF SameFlags
<1>12. /\ MaxRequests = 1 => ~t.ds.pending_demuxer_read /\ t.dec.todo = << >>
       /\ t.ds.pending_decode_requests = 0 => t.dec.todo = << >>
  BY <1>3, <1>4, <1>5, <1>7, <1>10
<1>. QED
  BY <1>1, <1>4, <1>5, <1>6, <1>10, <1>11, <1>12 DEF eos, todo, t0

(* ... and what it answers decides.                                          *)
LEMMA DecodeTurns ==
  ASSUME NEW o \in St, NEW held \in Seq(Outputs),
         NEW end_of_stream \in BOOLEAN, NEW ok \in BOOLEAN
  PROVE  LET t == RequestOver(o, held, end_of_stream, ok)
         IN  OnDecodeDone(Took(o, held), end_of_stream, ok) =
          IF o.ds.state = "ERROR" \/ o.ds.reset_cb THEN t
          ELSE IF ~ok THEN IF o.ds.decoder_produced_a_frame THEN DecodeFailed(t) ELSE FallBack(t)
          ELSE IF o.ds.state = "NORMAL" THEN IF end_of_stream THEN Ended(t) ELSE ReadIfPossible(t)
          ELSE IF o.ds.state = "FLUSHING_DECODER" /\ t.ds.pending_decode_requests = 0
          THEN ReinitializeDecoder(t) ELSE t
<1>1. Took(o, held).ds = o.ds
  BY DEF St, Took
<1>. QED
  BY <1>1 DEF OnDecodeDone, RequestOver

LEMMA DecodeIsDone ==
  ASSUME setup \in Setups, NEW o \in St, Fits(o), o.dec.todo # << >>,
         NEW held \in Seq(Outputs), NEW end_of_stream \in BOOLEAN, NEW ok \in BOOLEAN
  PROVE  LET v == OnDecodeDone(Took(o, held), end_of_stream, ok)
         IN  /\ v \in St /\ Fits(v)
             /\ o.ds.state = "ERROR" => v.ds.state = "ERROR"
<1>. DEFINE t == RequestOver(o, held, end_of_stream, ok)
            z == OnDecodeDone(Took(o, held), end_of_stream, ok)
<1>0. /\ t \in St /\ Fits(t) /\ SameFlags(t.ds, o.ds)
      /\ t.dec.resetting = o.dec.resetting /\ t.demux = o.demux
      /\ t.ds.state \in Running \cup {"ERROR"}
      /\ MaxRequests = 1 => ~t.ds.pending_demuxer_read /\ t.dec.todo = << >>
      /\ t.ds.pending_decode_requests = 0 => t.dec.todo = << >>
  BY DecodeAnswered
<1>1. z = IF o.ds.state = "ERROR" \/ o.ds.reset_cb THEN t
          ELSE IF ~ok THEN IF o.ds.decoder_produced_a_frame THEN DecodeFailed(t) ELSE FallBack(t)
          ELSE IF o.ds.state = "NORMAL" THEN IF end_of_stream THEN Ended(t) ELSE ReadIfPossible(t)
          ELSE IF o.ds.state = "FLUSHING_DECODER" /\ t.ds.pending_decode_requests = 0
          THEN ReinitializeDecoder(t) ELSE t
  BY DecodeTurns
<1>. HIDE DEF t, z
<1>2. SUFFICES z \in St /\ Fits(z) /\ (o.ds.state = "ERROR" => z.ds.state = "ERROR")
  BY DEF z
<1>11. CASE o.ds.state = "ERROR" \/ o.ds.reset_cb
  BY <1>0, <1>1, <1>11 DEF SameFlags
<1>12. CASE ~(o.ds.state = "ERROR" \/ o.ds.reset_cb)
  <2>1. /\ t.ds.state = o.ds.state /\ ~t.ds.reset_cb /\ t.ds.state \in Running
        /\ t.ds.decoder_produced_a_frame = o.ds.decoder_produced_a_frame
        /\ ~t.dec.resetting /\ ~t.demux.resetting
        /\ (MaxRequests = 1 => ~t.ds.pending_demuxer_read /\ t.dec.todo = << >>)
        /\ (t.ds.pending_decode_requests = 0 => t.dec.todo = << >>)
    BY <1>0, <1>12 DEF SameFlags, Fits, Resetting
  <2>2. LET v == DecodeFailed(t) IN v \in St /\ Fits(v)
    BY <1>0, <2>1, Fails DEF Running, Away
  <2>3. ASSUME ~o.ds.decoder_produced_a_frame
        PROVE  LET v == FallBack(t) IN v \in St /\ Fits(v)
    BY <1>0, <2>1, <2>3, FallsBack
  <2>4. ASSUME o.ds.state = "NORMAL"
        PROVE  LET v == Ended(t) IN v \in St /\ Fits(v)
    BY <1>0, <2>1, <2>4, Ends
  <2>5. ASSUME o.ds.state = "NORMAL"
        PROVE  LET v == ReadIfPossible(t) IN v \in St /\ Fits(v)
    BY <1>0, <2>1, <2>5, Reads
  <2>6. ASSUME o.ds.state = "FLUSHING_DECODER", t.ds.pending_decode_requests = 0
        PROVE  LET v == ReinitializeDecoder(t) IN v \in St /\ Fits(v)
    BY <1>0, <2>1, <2>6, ReinitializesDecoder
  <2>. QED
    BY <1>1, <1>0, <1>12, <2>2, <2>3, <2>4, <2>5, <2>6
<1>. QED
  BY <1>11, <1>12

LEMMA Withouts ==
  ASSUME NEW S, NEW q \in Seq(S), NEW i \in 1 .. Len(q)
  PROVE  Without(q, i) \in Seq(S)
<1>1. Len(q) \in Nat /\ Len(q) - 1 \in Nat
  OBVIOUS
<1>2. \A j \in 1 .. Len(q) - 1 : q[j] \in S /\ q[j + 1] \in S
  <2>1. TAKE j \in 1 .. Len(q) - 1
  <2>2. j \in 1 .. Len(q) /\ j + 1 \in 1 .. Len(q)
    BY <1>1
  <2>. QED
    BY <2>2, ElementOfSeq
<1>3. Without(q, i) \in [1 .. Len(q) - 1 -> S]
  BY <1>2 DEF Without
<1>. QED
  BY <1>1, <1>3, IsASeq DEF Without

(* An answer of the decoder.                                                 *)
LEMMA AnswerIsDone ==
  ASSUME IInv, NEW ok \in BOOLEAN, DecoderAnswers(ok)
  PROVE  \E v \in St : Fits(v) /\ Become(v) /\ (ds.state = "ERROR" => v.ds.state = "ERROR")
<1>. DEFINE request == Head(dec.todo)
            S(held) == Took(Now, held)
            s == [Now EXCEPT !.dec.todo = Tail(@)]
<1>1. dec.todo # << >> /\ dec.todo \in Seq(Requests) /\ dec.held \in Seq(Outputs)
  <2>1. dec.todo # << >>
    BY Zenon DEF DecoderAnswers
  <2>. QED
    BY <2>1, Parts, Found DEF Decoder, Requests
<1>2. request.end_of_stream \in BOOLEAN
  <2>1. request \in Requests
    BY <1>1
  <2>. QED
    BY <2>1 DEF Requests
<1>3. \E held \in Seq(Outputs) : Become(OnDecodeDone(S(held), request.end_of_stream, ok))
  <2>1. CASE Become(OnDecodeDone(s, request.end_of_stream, ok))
    <3>1. s = S(dec.held)
      BY Parts, Found DEF Decoder, Now, Took
    <3>. HIDE DEF s, S
    <3>. QED
      BY <1>1, <2>1, <3>1
  <2>2. ASSUME NEW i \in 1 .. Len(dec.held),
               Become(OnDecodeDone([s EXCEPT !.dec.held = Without(@, i)],
                                   request.end_of_stream, ok))
        PROVE  \E held \in Seq(Outputs) : Become(OnDecodeDone(S(held), request.end_of_stream, ok))
    <3>1. Without(dec.held, i) \in Seq(Outputs)
      BY <1>1, Withouts
    <3>2. [s EXCEPT !.dec.held = Without(@, i)] = S(Without(dec.held, i))
      BY Parts, Found DEF Decoder, Now, Took
    <3>. HIDE DEF s, S
    <3>. QED
      BY <2>2, <3>1, <3>2
  <2>3. \/ Become(OnDecodeDone(s, request.end_of_stream, ok))
        \/ \E i \in 1 .. Len(dec.held) :
             Become(OnDecodeDone([s EXCEPT !.dec.held = Without(@, i)],
                                 request.end_of_stream, ok))
    <3>1. CASE ok
      BY <3>1, Zenon DEF DecoderAnswers
    <3>2. CASE ~ok
      BY <3>2, Zenon DEF DecoderAnswers, Now
    <3>. HIDE DEF s
    <3>. QED
      BY <3>1, <3>2, Zenon
  <2>. HIDE DEF s, S
  <2>. QED
    BY <2>1, <2>2, <2>3, Zenon
<1>4. PICK held \in Seq(Outputs) : Become(OnDecodeDone(S(held), request.end_of_stream, ok))
  BY <1>3
<1>. DEFINE v == OnDecodeDone(S(held), request.end_of_stream, ok)
<1>5. v \in St /\ Fits(v) /\ (Now.ds.state = "ERROR" => v.ds.state = "ERROR")
  BY <1>1, <1>2, Found, DecodeIsDone
<1>. HIDE DEF v
<1>. QED
  BY <1>4, <1>5, Found DEF v

LEMMA AfterDecoderAnswers ==
  ASSUME IInv, UNCHANGED setup, NEW ok \in BOOLEAN, DecoderAnswers(ok)
  PROVE  Holds'
<1>1. PICK v \in St : Fits(v) /\ Become(v)
  BY AnswerIsDone
<1>. QED
  BY <1>1, Becomes DEF Holds

(* A request more, of whatever buffer.                                       *)
LEMMA RequestFits ==
  ASSUME NEW s \in St, Fits(s), NEW buffer \in Buffers,
         s.ds.state \in {"NORMAL", "FLUSHING_DECODER"},
         MaxRequests = 1 => s.ds.pending_decode_requests = 0 /\ ~s.ds.pending_demuxer_read
  PROVE  LET v == DecodeInternal(s, buffer)
         IN  /\ v \in St /\ Fits(v) /\ v.ds.state = s.ds.state
             /\ v.ds.reset_cb = s.ds.reset_cb
<1>. DEFINE v == DecodeInternal(s, buffer)
<1>1. /\ v \in St /\ Counts(v) /\ v.sel = s.sel /\ v.demux = s.demux
      /\ v.ds.pending_decode_requests = s.ds.pending_decode_requests + 1
      /\ LikeMembers(v.ds, s.ds) /\ v.dec.resetting = s.dec.resetting
      /\ v.ds.fallback_buffers = s.ds.fallback_buffers
      /\ v.dec.reinitializing = s.dec.reinitializing
  BY Decodes DEF Fits
<1>. HIDE DEF v
<1>2. Prepares(v) /\ Reading(v) /\ Resetting(v)
  BY <1>1 DEF Fits, Prepares, Reading, Resetting, Empty, LikeMembers, SameFlags, SameOutputs
<1>3. Selecting(v) /\ HasDecoder(v)
  BY <1>1 DEF Fits, Selecting, HasDecoder, LikeMembers, SameFlags, Away, Running
<1>4. MaxRequests = 1 => OneByOne(v)
  BY <1>1 DEF Fits, OneByOne, LikeMembers, SameFlags
<1>. QED
  BY <1>1, <1>2, <1>3, <1>4 DEF Fits, LikeMembers, SameFlags, v

LEMMA DecodeFits ==
  ASSUME NEW s \in St, Fits(s), NEW buffer \in Buffers, s.ds.state = "NORMAL", ~s.ds.reset_cb,
         MaxRequests = 1 => s.ds.pending_decode_requests = 0 /\ ~s.ds.pending_demuxer_read
  PROVE  LET v == Decode(s, buffer)
         IN  v \in St /\ Fits(v) /\ v.ds.state = "NORMAL" /\ ~v.ds.reset_cb
<1>. DEFINE pending == Append(s.ds.pending_buffers, buffer)
            m == [s.ds EXCEPT !.pending_buffers = pending]
            w == [s EXCEPT !.ds = m]
            kept == IF s.ds.decoder_produced_a_frame THEN s ELSE w
            fallback == s.ds.fallback_buffers
            left == Append(Tail(kept.ds.fallback_buffers), buffer)
            n == [kept.ds EXCEPT !.fallback_buffers = left]
            u == [kept EXCEPT !.ds = n]
<1>1. Decode(s, buffer) = IF fallback = << >> THEN DecodeInternal(kept, buffer)
                          ELSE DecodeInternal(u, Head(fallback))
  BY DEF Decode
<1>2. pending \in Seq(Buffers) /\ fallback \in Seq(Buffers)
  BY Parts DEF Members
<1>. HIDE DEF pending
<1>3. /\ m \in Members /\ SameFlags(m, s.ds) /\ SameOutputs(m, s.ds)
      /\ m.read_cb = s.ds.read_cb
      /\ m.pending_demuxer_read = s.ds.pending_demuxer_read
      /\ m.pending_decode_requests = s.ds.pending_decode_requests
      /\ m.fallback_buffers = fallback
  BY <1>2, Parts DEF Members, SameFlags, SameOutputs
<1>. HIDE DEF m
<1>4. w \in St /\ w.ds = m /\ w.sel = s.sel /\ w.dec = s.dec /\ w.demux = s.demux
  BY <1>3 DEF St
<1>. HIDE DEF w
<1>5. Like(w, s) /\ Prepares(w) /\ ~w.ds.reset_cb
  BY <1>3, <1>4 DEF Like, SameFlags, SameOutputs, Prepares, Fits
<1>6. Fits(w)
  BY <1>3, <1>4, <1>5, OutputsFit
<1>7. /\ kept \in St /\ Fits(kept) /\ kept.ds.state = "NORMAL" /\ ~kept.ds.reset_cb
      /\ kept.ds.pending_decode_requests = s.ds.pending_decode_requests
      /\ kept.ds.pending_demuxer_read = s.ds.pending_demuxer_read
      /\ kept.ds.fallback_buffers = fallback
  BY <1>3, <1>4, <1>6 DEF SameFlags
<1>. HIDE DEF kept
<1>8. CASE fallback = << >>
  <2>1. LET v == DecodeInternal(kept, buffer)
        IN  v \in St /\ Fits(v) /\ v.ds.state = "NORMAL" /\ ~v.ds.reset_cb
    BY <1>7, RequestFits
  <2>. QED
    BY <1>1, <1>8, <2>1
<1>9. CASE fallback # << >>
  <2>1. Head(fallback) \in Buffers /\ left \in Seq(Buffers)
    BY <1>2, <1>7, <1>9
  <2>. HIDE DEF left
  <2>2. /\ n \in Members /\ SameFlags(n, kept.ds) /\ SameOutputs(n, kept.ds)
        /\ n.read_cb = kept.ds.read_cb
        /\ n.pending_demuxer_read = kept.ds.pending_demuxer_read
        /\ n.pending_decode_requests = kept.ds.pending_decode_requests
        /\ n.fallback_buffers = left
    BY <1>7, <2>1, Parts DEF Members, SameFlags, SameOutputs
  <2>. HIDE DEF n
  <2>3. u \in St /\ u.ds = n /\ u.sel = kept.sel /\ u.dec = kept.dec /\ u.demux = kept.demux
    BY <1>7, <2>2 DEF St
  <2>. HIDE DEF u
  <2>4. Counts(u) /\ Prepares(u) /\ Reading(u) /\ Resetting(u)
    BY <1>7, <2>2, <2>3
       DEF Fits, Counts, Prepares, Reading, Resetting, Empty, SameFlags, SameOutputs
  <2>5. Selecting(u) /\ HasDecoder(u)
    BY <1>7, <2>2, <2>3 DEF Fits, Selecting, HasDecoder, SameFlags
  <2>6. MaxRequests = 1 => OneByOne(u)
    BY <1>7, <2>2, <2>3 DEF Fits, OneByOne, SameFlags
  <2>7. /\ Fits(u) /\ u.ds.state = "NORMAL" /\ ~u.ds.reset_cb
        /\ u.ds.pending_decode_requests = s.ds.pending_decode_requests
        /\ u.ds.pending_demuxer_read = s.ds.pending_demuxer_read
    BY <1>7, <2>2, <2>3, <2>4, <2>5, <2>6 DEF Fits, SameFlags
  <2>8. LET v == DecodeInternal(u, Head(fallback))
        IN  v \in St /\ Fits(v) /\ v.ds.state = "NORMAL" /\ ~v.ds.reset_cb
    BY <2>1, <2>3, <2>7, RequestFits
  <2>. QED
    BY <1>1, <1>9, <2>8
<1>. QED
  BY <1>8, <1>9

LEMMA KeepsBuffers ==
  ASSUME NEW s \in St, Fits(s), NEW p \in Seq(Buffers)
  PROVE  LET v == [s EXCEPT !.ds.pending_buffers = p]
         IN  /\ v \in St /\ Fits(v) /\ v.sel = s.sel /\ v.dec = s.dec /\ v.demux = s.demux
             /\ LikeMembers(v.ds, s.ds) /\ v.ds.fallback_buffers = s.ds.fallback_buffers
             /\ v.ds.pending_decode_requests = s.ds.pending_decode_requests
<1>. DEFINE m == [s.ds EXCEPT !.pending_buffers = p]
            v == [s EXCEPT !.ds = m]
<1>1. v = [s EXCEPT !.ds.pending_buffers = p]
  OBVIOUS
<1>2. /\ m \in Members /\ LikeMembers(m, s.ds)
      /\ m.pending_decode_requests = s.ds.pending_decode_requests
      /\ m.fallback_buffers = s.ds.fallback_buffers
  BY Parts DEF Members, LikeMembers, SameFlags, SameOutputs
<1>. HIDE DEF m
<1>3. v \in St /\ v.ds = m /\ v.sel = s.sel /\ v.dec = s.dec /\ v.demux = s.demux
  BY <1>2 DEF St
<1>. HIDE DEF v
<1>4. Like(v, s) /\ Prepares(v) /\ (v.ds.reset_cb => Empty(v.ds))
  BY <1>2, <1>3 DEF Like, LikeMembers, SameFlags, SameOutputs, Prepares, Fits, Resetting, Empty
<1>5. Fits(v)
  BY <1>2, <1>3, <1>4, OutputsFit
<1>. QED
  BY <1>1, <1>2, <1>3, <1>5

LEMMA ReadIsOver ==
  ASSUME NEW s \in St, Fits(s)
  PROVE  LET v == [s EXCEPT !.ds.pending_demuxer_read = FALSE, !.demux.reading = "none"]
         IN  /\ v \in St /\ Fits(v) /\ v.sel = s.sel /\ v.dec = s.dec
             /\ v.demux.resetting = s.demux.resetting
             /\ SameFlags(v.ds, s.ds) /\ SameOutputs(v.ds, s.ds)
             /\ ~v.ds.pending_demuxer_read /\ v.ds.read_cb = s.ds.read_cb
             /\ v.ds.pending_decode_requests = s.ds.pending_decode_requests
             /\ v.ds.fallback_buffers = s.ds.fallback_buffers
<1>. DEFINE m == [s.ds EXCEPT !.pending_demuxer_read = FALSE]
            n == [s.demux EXCEPT !.reading = "none"]
            v == [[s EXCEPT !.ds = m] EXCEPT !.demux = n]
<1>1. v = [s EXCEPT !.ds.pending_demuxer_read = FALSE, !.demux.reading = "none"]
  BY DEF St
<1>2. /\ m \in Members /\ SameFlags(m, s.ds) /\ SameOutputs(m, s.ds)
      /\ ~m.pending_demuxer_read /\ m.read_cb = s.ds.read_cb
      /\ m.pending_decode_requests = s.ds.pending_decode_requests
      /\ m.fallback_buffers = s.ds.fallback_buffers
  BY Parts DEF Members, SameFlags, SameOutputs
<1>3. n \in Stream /\ n.reading = "none" /\ n.resetting = s.demux.resetting
  BY Parts DEF Stream
<1>. HIDE DEF m, n
<1>4. v \in St /\ v.ds = m /\ v.sel = s.sel /\ v.dec = s.dec /\ v.demux = n
  BY <1>2, <1>3 DEF St
<1>. HIDE DEF v
<1>5. Counts(v) /\ Prepares(v) /\ Reading(v) /\ Resetting(v)
  BY <1>2, <1>3, <1>4
     DEF Fits, Counts, Prepares, Reading, Resetting, Empty, SameFlags, SameOutputs
<1>6. Selecting(v) /\ HasDecoder(v)
  BY <1>2, <1>4 DEF Fits, Selecting, HasDecoder, SameFlags
<1>7. MaxRequests = 1 => OneByOne(v)
  BY <1>2, <1>3, <1>4 DEF Fits, OneByOne, SameFlags
<1>. QED
  BY <1>1, <1>2, <1>3, <1>4, <1>5, <1>6, <1>7 DEF Fits

LEMMA KeptForReinitialization ==
  ASSUME NEW s \in St, Fits(s), NEW status, NEW buffer \in Buffers
  PROVE  LET v == WhileReinitializing(s, status, buffer) IN v \in St /\ Fits(v)
<1>. DEFINE appended == Append(s.ds.pending_buffers, buffer)
            m == [s.ds EXCEPT !.received_config_change_during_reinit = TRUE]
            w == [s EXCEPT !.ds = m]
            kept(u, p) == [u EXCEPT !.ds.pending_buffers = p]
<1>1. << >> \in Seq(Buffers) /\ appended \in Seq(Buffers)
  BY Parts DEF Members
<1>2. \/ WhileReinitializing(s, status, buffer) = kept(s, appended)
      \/ WhileReinitializing(s, status, buffer) = kept(s, << >>)
      \/ WhileReinitializing(s, status, buffer) = kept(w, << >>)
  BY DEF WhileReinitializing, St
<1>. HIDE DEF appended
<1>3. /\ m \in Members /\ LikeMembers(m, s.ds)
      /\ m.pending_decode_requests = s.ds.pending_decode_requests
      /\ m.fallback_buffers = s.ds.fallback_buffers
  BY Parts DEF Members, LikeMembers, SameFlags, SameOutputs
<1>. HIDE DEF m
<1>4. w \in St /\ w.ds = m /\ w.sel = s.sel /\ w.dec = s.dec /\ w.demux = s.demux
  BY <1>3 DEF St
<1>. HIDE DEF w
<1>5. Like(w, s) /\ Prepares(w) /\ (w.ds.reset_cb => Empty(w.ds))
  BY <1>3, <1>4 DEF Like, LikeMembers, SameFlags, SameOutputs, Prepares, Fits, Resetting, Empty
<1>6. Fits(w)
  BY <1>3, <1>4, <1>5, OutputsFit
<1>7. \A u \in {s, w} : \A p \in Seq(Buffers) : kept(u, p) \in St /\ Fits(kept(u, p))
  BY <1>4, <1>6, KeepsBuffers
<1>. HIDE DEF kept
<1>. QED
  BY <1>1, <1>2, <1>7

(* The reset of a DecryptingDemuxerStream goes on by itself.                 *)
LEMMA ResetContinues ==
  ASSUME NEW s \in St, Fits(s), s.ds.state \notin Away,
         ~s.ds.decrypting_demuxer_stream => ~s.dec.resetting /\ ~s.demux.resetting
  PROVE  LET v == ContinueReset(s) IN v \in St /\ Fits(v)
<1>1. CASE s.ds.decrypting_demuxer_stream
  BY <1>1 DEF ContinueReset
<1>2. CASE ~s.ds.decrypting_demuxer_stream
  BY <1>2, ResetStarts DEF ContinueReset
<1>. QED
  BY <1>1, <1>2

(* The demuxer answers the read.                                             *)
LEMMA BufferArrives ==
  ASSUME NEW s \in St, Fits(s), s.ds.pending_demuxer_read, NEW buffer \in Buffers,
         NEW status \in {"kOk", "kAborted", "kConfigChanged", "kError"},
         status = "kError" => s.demux.reading = "raw" \/ ~s.demux.resetting
  PROVE  LET v == OnBufferReady(s, status, buffer)
         IN  v \in St /\ Fits(v)
<1>. DEFINE t == [s EXCEPT !.ds.pending_demuxer_read = FALSE, !.demux.reading = "none"]
            e == [t EXCEPT !.ds.pending_buffers = << >>]
            failed == DecodeFailed(e)
            normal == [t EXCEPT !.ds.state = "NORMAL"]
            f == [t EXCEPT !.ds.state = "FLUSHING_DECODER"]
            changed == [f EXCEPT !.ds.pending_buffers = << >>]
<1>1. /\ t \in St /\ Fits(t) /\ t.sel = s.sel /\ t.dec = s.dec
      /\ t.demux.resetting = s.demux.resetting /\ t.ds.state = s.ds.state
      /\ t.ds.reset_cb = s.ds.reset_cb /\ t.ds.decoder = s.ds.decoder
      /\ t.ds.decrypting_demuxer_stream = s.ds.decrypting_demuxer_stream
      /\ SameOutputs(t.ds, s.ds) /\ ~t.ds.pending_demuxer_read
      /\ t.ds.decoder_produced_a_frame = s.ds.decoder_produced_a_frame
      /\ t.ds.pending_decode_requests = s.ds.pending_decode_requests
      /\ t.ds.fallback_buffers = s.ds.fallback_buffers
  BY ReadIsOver DEF SameFlags
<1>2. OnBufferReady(s, status, buffer) =
        LET g == IF status = "kError" THEN failed ELSE t
        IN  IF s.ds.state = "REINITIALIZING_DECODER" /\ ~s.ds.decoder_produced_a_frame
            THEN WhileReinitializing(t, status, buffer)
            ELSE IF g.ds.state = "ERROR"
            THEN IF s.ds.reset_cb THEN ContinueReset(g) ELSE g
            ELSE IF status = "kConfigChanged"
            THEN IF s.ds.reset_cb THEN ContinueReset(changed) ELSE DecodeInternal(changed, EOS)
            ELSE IF s.ds.reset_cb THEN ContinueReset(normal)
            ELSE IF status = "kAborted" THEN AbortRead(normal)
            ELSE ReadIfPossible(Decode(normal, buffer))
  <2>1. changed = [t EXCEPT !.ds.state = "FLUSHING_DECODER", !.ds.pending_buffers = << >>]
    <3>. HIDE DEF t
    <3>. QED
      BY <1>1 DEF St
  <2>. HIDE DEF changed, f
  <2>. QED
    BY <2>1 DEF OnBufferReady
<1>. HIDE DEF t
<1>3. s.ds.decrypting_demuxer_stream \/ (~s.dec.resetting /\ ~s.demux.resetting)
  BY DEF Fits, Resetting
<1>4. s.ds.state \notin Away \cup {"FLUSHING_DECODER"}
  BY DEF Fits, Reading
<1>5. MaxRequests = 1 => /\ s.ds.state = "NORMAL" /\ s.ds.pending_decode_requests = 0
                         /\ ~s.dec.resetting
                         /\ (status = "kError" => ~s.demux.resetting)
  BY DEF Fits, OneByOne, Resetting
<1>6. CASE s.ds.state = "REINITIALIZING_DECODER"
  <2>1. ~s.ds.decoder_produced_a_frame
    BY <1>6 DEF Fits, Selecting
  <2>2. LET v == WhileReinitializing(t, status, buffer) IN v \in St /\ Fits(v)
    BY <1>1, KeptForReinitialization
  <2>. QED
    BY <1>2, <1>6, <2>1, <2>2
<1>7. ASSUME s.ds.state # "REINITIALIZING_DECODER", status = "kError"
      PROVE  /\ failed \in St /\ Fits(failed) /\ failed.ds.state = "ERROR"
             /\ LET v == ContinueReset(failed) IN v \in St /\ Fits(v)
  <2>1. << >> \in Seq(Buffers)
    OBVIOUS
  <2>2. /\ e \in St /\ Fits(e) /\ e.dec = t.dec /\ e.demux = t.demux
        /\ e.ds.state = t.ds.state /\ ~e.ds.pending_demuxer_read
        /\ e.ds.decrypting_demuxer_stream = t.ds.decrypting_demuxer_stream
    BY <1>1, <2>1, KeepsBuffers DEF LikeMembers, SameFlags
  <2>. HIDE DEF e
  <2>3. /\ failed \in St /\ Fits(failed) /\ failed.ds.state = "ERROR"
        /\ failed.dec = e.dec /\ failed.demux = e.demux
        /\ failed.ds.decrypting_demuxer_stream = e.ds.decrypting_demuxer_stream
    BY <1>1, <1>4, <1>5, <1>7, <2>2, Fails
  <2>. HIDE DEF failed
  <2>4. LET v == ContinueReset(failed) IN v \in St /\ Fits(v)
    BY <1>1, <1>3, <2>2, <2>3, ResetContinues DEF Away
  <2>. QED
    BY <2>3, <2>4
<1>8. CASE s.ds.state # "REINITIALIZING_DECODER" /\ status = "kError"
  <2>. HIDE DEF failed
  <2>. QED
    BY <1>2, <1>7, <1>8
<1>9. CASE s.ds.state = "ERROR" /\ status # "kError"
  <2>1. LET v == ContinueReset(t) IN v \in St /\ Fits(v)
    BY <1>1, <1>3, <1>9, ResetContinues DEF Away
  <2>. QED
    BY <1>1, <1>2, <1>9, <2>1
<1>10. CASE /\ s.ds.state \notin {"REINITIALIZING_DECODER", "ERROR"}
            /\ status = "kConfigChanged"
  <2>0. s.ds.state \in Running /\ s.ds.decoder /\ s.sel.phase = "idle" /\ ~s.dec.reinitializing
    BY <1>4, <1>10, Parts DEF Fits, HasDecoder, Selecting, Running, Away, Members, Selector
  <2>1. /\ f \in St /\ f.ds.state = "FLUSHING_DECODER" /\ SameButState(f.ds, t.ds)
        /\ f.sel = t.sel /\ f.dec = t.dec /\ f.demux = t.demux
    BY <1>1, InState DEF Running
  <2>. HIDE DEF f
  <2>2. Fits(f)
    <3>1. Counts(f) /\ Prepares(f) /\ Reading(f) /\ Resetting(f)
      BY <1>1, <2>0, <2>1
         DEF Fits, Counts, Prepares, Reading, Resetting, Empty, SameButState, SameOutputs, Away
    <3>2. Selecting(f) /\ HasDecoder(f)
      BY <1>1, <2>0, <2>1 DEF Selecting, HasDecoder, SameButState, Away
    <3>3. MaxRequests = 1 => OneByOne(f)
      BY <1>1, <1>5, <2>1 DEF Fits, OneByOne, SameButState
    <3>. QED
      BY <3>1, <3>2, <3>3 DEF Fits
  <2>3. << >> \in Seq(Buffers) /\ EOS \in Buffers
    BY DEF Buffers
  <2>4. /\ changed \in St /\ Fits(changed) /\ changed.dec = f.dec /\ changed.demux = f.demux
        /\ changed.ds.state = "FLUSHING_DECODER"
        /\ changed.ds.decrypting_demuxer_stream = f.ds.decrypting_demuxer_stream
        /\ changed.ds.pending_demuxer_read = f.ds.pending_demuxer_read
        /\ changed.ds.pending_decode_requests = f.ds.pending_decode_requests
    BY <2>1, <2>2, <2>3, KeepsBuffers DEF LikeMembers, SameFlags
  <2>. HIDE DEF changed
  <2>5. LET v == ContinueReset(changed) IN v \in St /\ Fits(v)
    BY <1>1, <1>3, <2>1, <2>4, ResetContinues DEF Away, SameButState
  <2>6. LET v == DecodeInternal(changed, EOS) IN v \in St /\ Fits(v)
    BY <1>1, <1>5, <2>1, <2>3, <2>4, RequestFits DEF SameButState
  <2>. QED
    BY <1>1, <1>2, <1>10, <2>5, <2>6
<1>11. CASE /\ s.ds.state \notin {"REINITIALIZING_DECODER", "ERROR"}
            /\ status \notin {"kError", "kConfigChanged"}
  <2>0. s.ds.state \in Running /\ s.ds.decoder /\ s.sel.phase = "idle" /\ ~s.dec.reinitializing
    BY <1>4, <1>11, Parts DEF Fits, HasDecoder, Selecting, Running, Away, Members, Selector
  <2>1. /\ normal \in St /\ normal.ds.state = "NORMAL" /\ SameButState(normal.ds, t.ds)
        /\ normal.sel = t.sel /\ normal.dec = t.dec /\ normal.demux = t.demux
    BY <1>1, InState DEF Running
  <2>. HIDE DEF normal
  <2>2. Fits(normal)
    <3>1. Counts(normal) /\ Prepares(normal) /\ Reading(normal) /\ Resetting(normal)
      BY <1>1, <2>0, <2>1
         DEF Fits, Counts, Prepares, Reading, Resetting, Empty, SameButState, SameOutputs, Away
    <3>2. Selecting(normal) /\ HasDecoder(normal)
      BY <1>1, <2>0, <2>1 DEF Selecting, HasDecoder, SameButState, Away
    <3>3. MaxRequests = 1 => OneByOne(normal)
      BY <1>1, <1>5, <2>1 DEF Fits, OneByOne, SameButState
    <3>. QED
      BY <3>1, <3>2, <3>3 DEF Fits
  <2>3. LET v == ContinueReset(normal) IN v \in St /\ Fits(v)
    BY <1>1, <1>3, <2>1, <2>2, ResetContinues DEF Away, SameButState
  <2>4. LET v == AbortRead(normal) IN v \in St /\ Fits(v)
    BY <2>1, <2>2, ReadOver
  <2>5. ASSUME ~s.ds.reset_cb
        PROVE  LET v == ReadIfPossible(Decode(normal, buffer)) IN v \in St /\ Fits(v)
    <3>1. /\ Decode(normal, buffer) \in St /\ Fits(Decode(normal, buffer))
          /\ Decode(normal, buffer).ds.state = "NORMAL"
          /\ ~Decode(normal, buffer).ds.reset_cb
      BY <1>1, <1>5, <2>1, <2>2, <2>5, DecodeFits DEF SameButState
    <3>. QED
      BY <3>1, Reads
  <2>. QED
    BY <1>1, <1>2, <1>11, <2>3, <2>4, <2>5
<1>. QED
  BY <1>6, <1>8, <1>9, <1>10, <1>11

LEMMA Numbers ==
  ASSUME setup \in Setups
  PROVE  /\ MaxBuffers \in Nat /\ 1 \in 1 .. MaxBuffers + 1
         /\ \A n \in 1 .. MaxBuffers + 1 :
              IF n > MaxBuffers THEN n = MaxBuffers + 1
              ELSE n \in Outputs /\ n \in Buffers /\ n # EOS /\ n + 1 \in 1 .. MaxBuffers + 1
<1>1. MaxBuffers \in Nat
  BY DEF MaxBuffers, Setup
<1>2. \A n \in 1 .. MaxBuffers + 1 :
        IF n > MaxBuffers THEN n = MaxBuffers + 1
        ELSE n \in 1 .. MaxBuffers /\ n # 0 /\ n + 1 \in 1 .. MaxBuffers + 1
  BY <1>1
<1>. QED
  BY <1>1, <1>2 DEF Outputs, Buffers, EOS

LEMMA AfterStreamAnswers ==
  ASSUME IInv, UNCHANGED setup,
         NEW status \in {"kOk", "kAborted", "kConfigChanged", "kError"}, StreamAnswers(status)
  PROVE  Holds'
<1>. DEFINE buffer == IF demux.next > MaxBuffers THEN EOS ELSE demux.next
            n == [Now.demux EXCEPT !.next = @ + 1]
            w == [Now EXCEPT !.demux = n]
            after == IF status = "kOk" /\ buffer # EOS THEN w ELSE Now
<1>1. Become(OnBufferReady(after, status, buffer))
  <2>1. w = [Now EXCEPT !.demux.next = @ + 1]
    OBVIOUS
  <2>. HIDE DEF w
  <2>. QED
    BY <2>1 DEF StreamAnswers
<1>2. demux.next \in 1 .. MaxBuffers + 1
  BY Parts, Found DEF Stream
<1>3. buffer \in Buffers /\ (buffer # EOS => demux.next + 1 \in 1 .. MaxBuffers + 1)
  BY <1>2, Found, Numbers DEF Buffers
<1>4. ds.pending_demuxer_read /\ demux.reading # "none"
  BY Found DEF StreamAnswers, Fits, Reading
<1>5. status = "kError" => demux.reading = "raw" \/ ~demux.resetting
  BY DEF StreamAnswers
<1>. HIDE DEF buffer
<1>6. ASSUME buffer # EOS
      PROVE  n \in Stream /\ n.reading = demux.reading /\ n.resetting = demux.resetting
  BY <1>3, <1>6, Parts, Found DEF Stream
<1>. HIDE DEF n
<1>7. ASSUME buffer # EOS
      PROVE  /\ w \in St /\ w.ds = ds /\ w.sel = sel /\ w.dec = dec /\ w.demux = n
  BY <1>6, <1>7, Found DEF St
<1>. HIDE DEF w
<1>8. ASSUME buffer # EOS PROVE Fits(w)
  <2>1. Counts(w) /\ Prepares(w) /\ Reading(w) /\ Resetting(w)
    BY <1>6, <1>7, <1>8, Found DEF Fits, Counts, Prepares, Reading, Resetting
  <2>2. Selecting(w) /\ HasDecoder(w)
    BY <1>7, <1>8, Found DEF Fits, Selecting, HasDecoder
  <2>3. MaxRequests = 1 => OneByOne(w)
    BY <1>6, <1>7, <1>8, Found DEF Fits, OneByOne
  <2>. QED
    BY <2>1, <2>2, <2>3 DEF Fits
<1>9. /\ after \in St /\ Fits(after) /\ after.ds = ds
      /\ after.demux.reading = demux.reading /\ after.demux.resetting = demux.resetting
  BY <1>6, <1>7, <1>8, Found
<1>. HIDE DEF after
<1>10. LET v == OnBufferReady(after, status, buffer) IN v \in St /\ Fits(v)
  BY <1>3, <1>4, <1>5, <1>9, BufferArrives
<1>. QED
  BY <1>1, <1>10, Becomes DEF Holds

LEMMA AfterDecryptingReset ==
  ASSUME IInv, UNCHANGED setup, OnDecryptingDemuxerStreamReset
  PROVE  Holds'
<1>. DEFINE n == [Now.demux EXCEPT !.resetting = FALSE]
            d == [Now.dec EXCEPT !.resetting = TRUE]
            v == [[Now EXCEPT !.demux = n] EXCEPT !.dec = d]
<1>1. Become(v)
  BY Parts, Found DEF OnDecryptingDemuxerStreamReset, ResetDecoder, St
<1>2. /\ n \in Stream /\ n.reading = demux.reading /\ ~n.resetting
      /\ d \in Decoder /\ d.todo = dec.todo /\ d.held = dec.held /\ d.resetting
      /\ d.reinitializing = dec.reinitializing
  BY Parts, Found DEF Stream, Decoder
<1>. HIDE DEF n, d
<1>3. v \in St /\ v.ds = ds /\ v.sel = sel /\ v.dec = d /\ v.demux = n
  BY <1>2, Found DEF St
<1>. HIDE DEF v
<1>4. /\ demux.resetting /\ demux.reading # "dds" /\ demux.reading \in {"none", "raw", "dds"}
  BY Parts, Found DEF OnDecryptingDemuxerStreamReset, Stream
<1>5. Counts(v) /\ Prepares(v) /\ Reading(v) /\ Resetting(v)
  BY <1>2, <1>3, <1>4, Found DEF Fits, Counts, Prepares, Reading, Resetting
<1>6. Selecting(v) /\ HasDecoder(v)
  BY <1>2, <1>3, Found DEF Fits, Selecting, HasDecoder
<1>7. MaxRequests = 1 => OneByOne(v)
  BY <1>2, <1>3, <1>4, Found DEF Fits, OneByOne, Reading, Resetting
<1>. QED
  BY <1>1, <1>3, <1>5, <1>6, <1>7, Becomes DEF Holds, Fits

LEMMA AfterInitialize ==
  ASSUME IInv, UNCHANGED setup, Initialize
  PROVE  Holds'
<1>. DEFINE m == [Now.ds EXCEPT !.state = "INITIALIZING", !.init_cb = TRUE]
            s == [Now EXCEPT !.ds = m]
<1>1. Become(SelectDecoder(s)) /\ Now.ds.state = "UNINITIALIZED"
  <2>1. s = [Now EXCEPT !.ds.state = "INITIALIZING", !.ds.init_cb = TRUE]
    BY Found DEF St
  <2>. HIDE DEF s
  <2>. QED
    BY <2>1, Found DEF Initialize
<1>2. /\ m \in Members /\ m.state = "INITIALIZING" /\ SameOutputs(m, ds)
      /\ m.reset_cb = ds.reset_cb /\ m.decoder = ds.decoder
      /\ m.pending_demuxer_read = ds.pending_demuxer_read
      /\ m.pending_decode_requests = ds.pending_decode_requests
      /\ m.decrypting_demuxer_stream = ds.decrypting_demuxer_stream
      /\ m.fallback_buffers = ds.fallback_buffers
  BY Parts, Found DEF Members, SameOutputs
<1>. HIDE DEF m
<1>3. s \in St /\ s.ds = m /\ s.sel = sel /\ s.dec = dec /\ s.demux = demux
  BY <1>2, Found DEF St
<1>. HIDE DEF s
<1>4. /\ ~ds.reset_cb /\ ~ds.pending_demuxer_read /\ dec.todo = << >>
      /\ ~dec.reinitializing /\ ~dec.resetting /\ ~demux.resetting
  BY <1>1, Found DEF Fits, Reading, Resetting, Selecting, Away
<1>5. Fits(s)
  <2>1. Counts(s) /\ Prepares(s) /\ Reading(s) /\ Resetting(s)
    BY <1>2, <1>3, <1>4, Found DEF Fits, Counts, Prepares, Reading, Resetting, SameOutputs
  <2>2. Selecting(s) /\ HasDecoder(s)
    BY <1>2, <1>3, <1>4, Found DEF Fits, Selecting, HasDecoder, Running
  <2>3. MaxRequests = 1 => OneByOne(s)
    BY <1>2, <1>3, <1>4, Found DEF Fits, OneByOne
  <2>. QED
    BY <2>1, <2>2, <2>3 DEF Fits
<1>6. LET v == SelectDecoder(s) IN v \in St /\ Fits(v)
  BY <1>2, <1>3, <1>4, <1>5, Found, SelectsADecoder DEF Choosing
<1>. QED
  BY <1>1, <1>6, Becomes DEF Holds

LEMMA AfterRead ==
  ASSUME IInv, UNCHANGED setup, Read
  PROVE  Holds'
<1>. DEFINE rest == Tail(ds.ready_outputs)
            output == Head(ds.ready_outputs)
            m == [Now.ds EXCEPT !.ready_outputs = rest]
            w == [Now EXCEPT !.ds = m]
            given == SatisfyRead(w, output)
            k == [Now.ds EXCEPT !.read_cb = TRUE]
            waits == [Now EXCEPT !.ds = k]
            t == IF ds.ready_outputs # << >> THEN MaybePrepareAnotherOutput(given) ELSE waits
<1>1. Become(IF ds.state = "ERROR" THEN Now
             ELSE IF /\ ds.state = "END_OF_STREAM"
                     /\ ds.ready_outputs = << >> /\ ds.unprepared_outputs = << >>
             THEN SatisfyReadAtEnd(Now)
             ELSE IF ds.state = "NORMAL" THEN ReadIfPossible(t) ELSE t)
  <2>1. /\ w = [Now EXCEPT !.ds.ready_outputs = Tail(@)]
        /\ waits = [Now EXCEPT !.ds.read_cb = TRUE]
    BY Found
  <2>. HIDE DEF w, waits
  <2>. QED
    BY <2>1 DEF Read
<1>2. ~Now.ds.reset_cb
  BY Found DEF Read
<1>3. k \in Members /\ SameFlags(k, ds) /\ SameOutputs(k, ds)
      /\ k.pending_demuxer_read = ds.pending_demuxer_read
      /\ k.pending_decode_requests = ds.pending_decode_requests
      /\ k.fallback_buffers = ds.fallback_buffers
  BY Parts, Found DEF Members, SameFlags, SameOutputs
<1>. HIDE DEF k
<1>4. waits \in St /\ waits.ds = k /\ waits.sel = sel /\ waits.dec = dec /\ waits.demux = demux
  BY <1>3, Found DEF St
<1>. HIDE DEF waits
<1>5. Like(waits, Now) /\ Prepares(waits) /\ ~waits.ds.reset_cb
      /\ waits.ds.fallback_buffers = Now.ds.fallback_buffers
  BY <1>2, <1>3, <1>4, Found DEF Like, SameFlags, SameOutputs, Prepares, Fits
<1>6. Fits(waits)
  BY <1>4, <1>5, Found, OutputsFit
<1>7. ASSUME ds.ready_outputs # << >>
      PROVE  LET v == MaybePrepareAnotherOutput(given)
             IN  v \in St /\ Fits(v) /\ ~v.ds.reset_cb /\ v.ds.state = ds.state
  <2>1. ds.ready_outputs \in Seq(Outputs)
    BY Parts, Found
  <2>2. rest \in Seq(Outputs) /\ output \in Outputs
    BY <1>7, <2>1
  <2>. HIDE DEF rest, output
  <2>3. m \in Members /\ SameFlags(m, ds) /\ m.preparing_output = ds.preparing_output
        /\ m.unprepared_outputs = ds.unprepared_outputs
        /\ m.pending_demuxer_read = ds.pending_demuxer_read
        /\ m.pending_decode_requests = ds.pending_decode_requests
        /\ m.fallback_buffers = ds.fallback_buffers
    BY <2>2, Parts, Found DEF Members, SameFlags
  <2>. HIDE DEF m
  <2>4. w \in St /\ w.ds = m /\ w.sel = sel /\ w.dec = dec /\ w.demux = demux
    BY <2>3, Found DEF St
  <2>. HIDE DEF w
  <2>5. Like(w, Now) /\ Prepares(w) /\ ~w.ds.reset_cb
        /\ w.ds.fallback_buffers = Now.ds.fallback_buffers
    BY <1>2, <2>3, <2>4, Found DEF Like, SameFlags, Prepares, Fits
  <2>6. Fits(w)
    BY <2>4, <2>5, Found, OutputsFit
  <2>7. given \in St /\ Fits(given) /\ Like(given, w)
    BY <2>2, <2>4, <2>6, ReadOver
  <2>. HIDE DEF given
  <2>8. ~given.ds.reset_cb /\ given.ds.state = ds.state
    BY <2>5, <2>7, Found DEF Like, SameFlags
  <2>. QED
    BY <2>7, <2>8, PreparesAnother DEF Like, SameFlags
<1>8. t \in St /\ Fits(t) /\ ~t.ds.reset_cb /\ t.ds.state = ds.state
  <2>. HIDE DEF given
  <2>. QED
    BY <1>4, <1>5, <1>6, <1>7, Found DEF Like, SameFlags
<1>. HIDE DEF t
<1>9. LET v == SatisfyReadAtEnd(Now) IN v \in St /\ Fits(v)
  BY Found, ReadOver
<1>10. ds.state = "NORMAL" => ReadIfPossible(t) \in St /\ Fits(ReadIfPossible(t))
  BY <1>8, Reads
<1>. QED
  BY <1>1, <1>8, <1>9, <1>10, Found, Becomes DEF Holds

LEMMA AfterReset ==
  ASSUME IInv, UNCHANGED setup, Reset
  PROVE  Holds'
<1>1. /\ Now.ds.state \notin Away /\ ~Now.dec.resetting /\ ~Now.demux.resetting
      /\ Become(ResetStream(Now))
  BY Found DEF Reset, Alive, Away, Fits, Resetting
<1>2. LET v == ResetStream(Now) IN v \in St /\ Fits(v)
  BY <1>1, Found, ResetStarts
<1>. QED
  BY <1>1, <1>2, Becomes DEF Holds

LEMMA AfterAbort ==
  ASSUME IInv, UNCHANGED setup, AbortPendingReads
  PROVE  Holds'
<1>. DEFINE n == [Now.demux EXCEPT !.aborting = TRUE]
            v == [Now EXCEPT !.demux = n]
<1>1. Become(v)
  BY Found DEF AbortPendingReads, Become, Now
<1>2. n \in Stream /\ n.reading = demux.reading /\ n.resetting = demux.resetting
  BY Parts, Found DEF Stream
<1>. HIDE DEF n
<1>3. v \in St /\ v.ds = ds /\ v.sel = sel /\ v.dec = dec /\ v.demux = n
  BY <1>2, Found DEF St
<1>. HIDE DEF v
<1>4. Counts(v) /\ Prepares(v) /\ Reading(v) /\ Resetting(v)
  BY <1>2, <1>3, Found DEF Fits, Counts, Prepares, Reading, Resetting
<1>5. Selecting(v) /\ HasDecoder(v)
  BY <1>3, Found DEF Fits, Selecting, HasDecoder
<1>6. MaxRequests = 1 => OneByOne(v)
  BY <1>2, <1>3, Found DEF Fits, OneByOne
<1>. QED
  BY <1>1, <1>3, <1>4, <1>5, <1>6, Becomes DEF Holds, Fits

(* Nothing is under way in a state of the stream of before or after its life.*)
LEMMA NothingFits ==
  ASSUME setup \in Setups, NEW s, s.ds \in {NewStream, [NewStream EXCEPT !.state = "destroyed"]},
         s.sel = NewSelector, s.dec = NewDecoder,
         s.demux.reading = "none", ~s.demux.resetting
  PROVE  Fits(s) /\ s.ds \in Members /\ s.sel \in Selector
<1>1. << >> \in Seq(Outputs) /\ << >> \in Seq(Buffers) /\ 0 \in 0 .. setup.decoders
      /\ Len(<< >>) = 0
  BY Lefts
<1>2. NewStream \in Members /\ [NewStream EXCEPT !.state = "destroyed"] \in Members
  BY <1>1 DEF NewStream, Members
<1>3. s.sel \in Selector /\ s.sel.phase = "idle"
  BY <1>1 DEF NewSelector, Selector
<1>4. /\ s.ds.state \in {"UNINITIALIZED", "destroyed"} /\ ~s.ds.pending_demuxer_read
      /\ ~s.ds.reset_cb /\ ~s.ds.preparing_output /\ s.ds.pending_decode_requests = 0
  BY DEF NewStream
<1>5. Counts(s) /\ Prepares(s) /\ Reading(s) /\ Resetting(s)
  BY <1>1, <1>4, New DEF Counts, Prepares, Reading, Resetting, NewDecoderFits
<1>6. Selecting(s) /\ HasDecoder(s)
  BY <1>3, <1>4, New DEF Selecting, HasDecoder, Running, NewDecoderFits
<1>7. MaxRequests = 1 => OneByOne(s)
  BY <1>4, New DEF OneByOne, NewDecoderFits, Reading
<1>. QED
  BY <1>2, <1>3, <1>5, <1>6, <1>7 DEF Fits

LEMMA AfterDestroy ==
  ASSUME IInv, UNCHANGED setup, Destroy
  PROVE  Holds'
<1>. DEFINE n == [Now.demux EXCEPT !.reading = "none", !.resetting = FALSE]
            v == [ds |-> [NewStream EXCEPT !.state = "destroyed"], sel |-> NewSelector,
                  dec |-> NewDecoder, demux |-> n, client |-> client]
<1>1. Become(v)
  BY Found DEF Destroy, Become
<1>2. n \in Stream /\ n.reading = "none" /\ ~n.resetting
  BY Parts, Found DEF Stream
<1>. HIDE DEF n
<1>3. v.demux = n /\ v.client \in Client /\ v.dec \in Decoder
  BY Parts, Found, New DEF NewDecoderFits
<1>4. Fits(v) /\ v.ds \in Members /\ v.sel \in Selector
  BY <1>2, Found, NothingFits
<1>5. v \in St
  BY <1>2, <1>3, <1>4 DEF St
<1>. HIDE DEF v
<1>. QED
  BY <1>1, <1>4, <1>5, Becomes DEF Holds

LEMMA InitInv == Init => IInv
<1>. SUFFICES ASSUME Init PROVE IInv
  OBVIOUS
<1>1. setup \in Setups /\ Now.ds = NewStream /\ Now.sel = NewSelector /\ Now.dec = NewDecoder
      /\ Now.demux = [next |-> 1, reading |-> "none", aborting |-> FALSE, resetting |-> FALSE]
      /\ Now.client = [got |-> << >>, from |-> 1, ended |-> FALSE]
  BY DEF Init, Now
<1>2. Fits(Now) /\ Now.ds \in Members /\ Now.sel \in Selector
  BY <1>1, NothingFits
<1>3. Now.demux \in Stream /\ Now.client \in Client
  <2>1. 1 \in 1 .. MaxBuffers + 1 /\ << >> \in Seq(Outputs)
    BY <1>1, Numbers
  <2>. QED
    BY <1>1, <2>1 DEF Stream, Client
<1>4. Now \in St
  BY <1>1, <1>2, <1>3, New DEF St, Now, NewDecoderFits
<1>5. Bounded
  <2>1. setup \in Setup
    BY <1>1
  <2>2. 0 \in 0 .. setup.resets /\ 0 \in 0 .. setup.changes /\ 0 \in 0 .. setup.failures
    BY <2>1 DEF Setup
  <2>. QED
    BY <2>2 DEF Init, Bounded
<1>. QED
  BY <1>1, <1>2, <1>4, <1>5 DEF IInv

LEMMA Spends ==
  ASSUME IInv, UNCHANGED setup,
         \/ UNCHANGED spent
         \/ \E what \in {"resets", "changes", "failures"} : Spend(what)
  PROVE  Bounded'
<1>1. setup.resets \in Nat /\ setup.changes \in Nat /\ setup.failures \in Nat
  BY DEF IInv, Setup
<1>2. /\ spent \in [resets : 0 .. setup.resets, changes : 0 .. setup.changes,
                    failures : 0 .. setup.failures]
  BY DEF IInv, Bounded
<1>3. spent' \in [resets : 0 .. setup.resets, changes : 0 .. setup.changes,
                  failures : 0 .. setup.failures]
  <2>1. CASE UNCHANGED spent
    BY <1>2, <2>1
  <2>2. CASE Spend("resets")
    BY <1>1, <1>2, <2>2 DEF Spend
  <2>3. CASE Spend("changes")
    BY <1>1, <1>2, <2>3 DEF Spend
  <2>4. CASE Spend("failures")
    BY <1>1, <1>2, <2>4 DEF Spend
  <2>. QED
    BY <2>1, <2>2, <2>3, <2>4
<1>. QED
  BY <1>3 DEF Bounded

LEMMA NextInv ==
  ASSUME IInv, [Next]_<<vars, setup>>
  PROVE  IInv'
<1>1. CASE UNCHANGED <<vars, setup>>
  <2>1. UNCHANGED <<Now, spent, setup>>
    BY <1>1 DEF vars, Now
  <2>2. (Now \in St /\ Fits(Now))'
    <3>1. Become(Now) /\ UNCHANGED setup
      BY <1>1, Found DEF vars, Become
    <3>. QED
      BY <3>1, Found, Becomes
  <2>3. Bounded'
    BY <2>1, Spends
  <2>. QED
    BY <2>1, <2>2, <2>3 DEF IInv
<1>2. CASE Next
  <2>1. Steps /\ UNCHANGED setup
    BY <1>2 DEF Next
  <2>2. Holds'
    <3>1. CASE Initialize \/ Read \/ Reset \/ AbortPendingReads \/ Destroy
      BY <2>1, <3>1, AfterInitialize, AfterRead, AfterReset, AfterAbort, AfterDestroy
    <3>2. CASE Selects
      BY <2>1, <3>2, AfterInitializeDone, AfterDecryptingInitializeDone, AfterSelected DEF Selects
    <3>3. CASE Reinitializes
      BY <2>1, <3>3, AfterReinitialized DEF Reinitializes
    <3>4. CASE \/ \E ok \in BOOLEAN : DecoderAnswers(ok)
               \/ DecoderOutputs \/ OnDecoderReset
      BY <2>1, <3>4, AfterDecoderAnswers, AfterDecoderOutputs, AfterDecoderReset
    <3>5. CASE Answers \/ OnDecryptingDemuxerStreamReset \/ OnPreparedOutputReady
      BY <2>1, <3>5, AfterStreamAnswers, AfterDecryptingReset, AfterPreparedOutput DEF Answers
    <3>. QED
      BY <2>1, <3>1, <3>2, <3>3, <3>4, <3>5 DEF Steps
  <2>3. \/ UNCHANGED spent
        \/ \E what \in {"resets", "changes", "failures"} : Spend(what)
    <3>1. CASE Initialize \/ Read \/ Reset \/ AbortPendingReads \/ Destroy
      BY <3>1 DEF Initialize, Read, Reset, AbortPendingReads, Destroy
    <3>2. CASE Selects \/ Reinitializes
      BY <3>2 DEF Selects, Reinitializes, OnDecoderInitializeDone,
                  OnDecryptingDemuxerStreamInitializeDone, OnDecoderSelected,
                  OnDecoderReinitialized
    <3>3. ASSUME NEW ok \in BOOLEAN, DecoderAnswers(ok)
          PROVE  UNCHANGED spent \/ Spend("failures")
      BY <3>3, Zenon DEF DecoderAnswers
    <3>4. CASE DecoderOutputs \/ OnDecoderReset \/ OnDecryptingDemuxerStreamReset
                 \/ OnPreparedOutputReady
      BY <3>4 DEF DecoderOutputs, OnDecoderReset, OnDecryptingDemuxerStreamReset,
                  OnPreparedOutputReady
    <3>5. ASSUME NEW status \in {"kOk", "kAborted", "kConfigChanged", "kError"},
                 StreamAnswers(status)
          PROVE  UNCHANGED spent \/ Spend("changes") \/ Spend("failures")
      BY <3>5 DEF StreamAnswers
    <3>. QED
      BY <2>1, <3>1, <3>2, <3>3, <3>4, <3>5 DEF Steps, Answers
  <2>4. Bounded'
    BY <2>1, <2>3, Spends
  <2>. QED
    BY <2>1, <2>2, <2>4 DEF IInv, Holds
<1>. QED
  BY <1>1, <1>2

LEMMA Invariance == Spec => []IInv
<1>1. IInv /\ [Next]_<<vars, setup>> => IInv'
  BY NextInv
<1>. QED
  BY <1>1, InitInv, PTL DEF Spec

(**************************************************************************)
(*                             The theorems                                 *)
(**************************************************************************)
(* The members of DecoderStream and DecoderSelector stay what they are: the  *)
(* count of the requests never falls below none, outputs and buffers are     *)
(* those of the stream.                                                      *)
THEOREM TypeCorrect == Spec => []TypeOK
<1>1. IInv => TypeOK
  BY Found, Parts DEF IInv, Bounded, TypeOK
<1>. QED
  BY <1>1, Invariance, PTL

OneRequest == setup.requests = 1

LEMMA OneRequestStays == Spec /\ OneRequest => []OneRequest
<1>1. OneRequest /\ [Next]_<<vars, setup>> => OneRequest'
  BY DEF OneRequest, Next
<1>. QED
  BY <1>1, PTL DEF Spec

(* With one request at a time (GetMaxDecodeRequests()'s default), a decoder  *)
(* is never given more than it takes, and nothing after an end of the        *)
(* stream, while it is reset or initialized: whatever fails, falls back, is  *)
(* reset or changes its config in between.                                   *)
THEOREM ContractIsKept == Spec /\ OneRequest => []DecoderContract
<1>1. ASSUME IInv, OneRequest PROVE DecoderContract
  <2>1. MaxRequests = 1 /\ OneByOne(Now) /\ Fits(Now)
    BY <1>1, Found DEF OneRequest, MaxRequests, Fits
  <2>2. /\ dec.todo \in Seq(Requests) /\ Len(dec.todo) \in Nat /\ Len(dec.todo) <= 1
        /\ ds.state \in Running \cup Away \cup {"REINITIALIZING_DECODER", "ERROR"}
    BY <1>1, <2>1, Parts, Found
       DEF Decoder, Requests, Fits, Counts, OneByOne, Members, Running, Away
  <2>3. \A i \in 1 .. Len(dec.todo) - 1 : dec.todo[i].buffer # EOS
    BY <2>2
  <2>4. /\ dec.reinitializing => dec.todo = << >> /\ ~dec.resetting
        /\ dec.todo # << >> \/ dec.resetting => ds.decoder
        /\ dec.todo # << >> => ds.state \in {"NORMAL", "FLUSHING_DECODER", "ERROR"}
    BY <1>1, <2>1, <2>2, Found
       DEF Fits, OneByOne, Selecting, Resetting, HasDecoder, Running, Away
  <2>. QED
    BY <2>1, <2>2, <2>3, <2>4 DEF DecoderContract
<1>. QED
  BY <1>1, Invariance, OneRequestStays, PTL

(* With one request at a time, nothing leads out of STATE_ERROR: no Reset(), *)
(* and nothing that was under way when the error came.                       *)
THEOREM ErrorStays == Spec /\ OneRequest => ErrorIsFinal
<1>. DEFINE Stays == ds.state = "ERROR" => ds'.state \in {"ERROR", "destroyed"}
<1>1. ASSUME IInv, OneRequest, [Next]_<<vars, setup>> PROVE [Stays]_vars
  <2>. SUFFICES ASSUME ds.state = "ERROR", Steps PROVE ds'.state \in {"ERROR", "destroyed"}
    BY <1>1 DEF Next
  <2>1. /\ Now \in St /\ Fits(Now) /\ Now.ds = ds /\ OneByOne(Now) /\ MaxRequests = 1
        /\ Now.dec = dec /\ Now.sel = sel /\ Now.demux = demux
    BY <1>1, Found DEF OneRequest, MaxRequests, Fits
  <2>2. /\ sel.phase = "idle" /\ ~dec.reinitializing /\ ~dec.resetting /\ ~demux.resetting
        /\ demux.reading = "none"
    BY <2>1, Parts DEF Fits, OneByOne, Selecting, Reading, Selector
  <2>3. CASE Initialize \/ Reinitializes \/ Selects \/ OnDecoderReset
              \/ OnDecryptingDemuxerStreamReset \/ Answers
    BY <2>2, <2>3 DEF Initialize, Reinitializes, OnDecoderReinitialized, Selects,
         OnDecoderInitializeDone, OnDecryptingDemuxerStreamInitializeDone, OnDecoderSelected,
         OnDecoderReset, OnDecryptingDemuxerStreamReset, Answers, StreamAnswers
  <2>4. CASE Read
    BY <2>1, <2>4, Zenon DEF Read, Become
  <2>5. CASE Reset
    <3>1. Become(ResetStream(Now)) /\ ds.state \notin Away
      BY <2>5 DEF Reset, Alive, Away
    <3>. QED
      BY <2>1, <2>2, <3>1, ResetStarts DEF Become
  <2>6. CASE AbortPendingReads \/ Destroy
    BY <2>6 DEF AbortPendingReads, Destroy, NewStream
  <2>7. CASE \E ok \in BOOLEAN : DecoderAnswers(ok)
    BY <1>1, <2>7, AnswerIsDone DEF Become
  <2>8. CASE DecoderOutputs
    <3>. DEFINE w == [Now EXCEPT !.dec.held = Tail(@)]
    <3>1. Become(OnDecodeOutputReady(w, Head(dec.held))) /\ w.ds = ds
      BY <2>1, <2>8 DEF DecoderOutputs, St
    <3>. HIDE DEF w
    <3>2. OnDecodeOutputReady(w, Head(dec.held)) = w
      BY <3>1 DEF OnDecodeOutputReady
    <3>. QED
      BY <3>1, <3>2 DEF Become
  <2>9. CASE OnPreparedOutputReady
    BY <1>1, <2>9, PreparedOutputIsDone DEF Become
  <2>. QED
    BY <2>3, <2>4, <2>5, <2>6, <2>7, <2>8, <2>9 DEF Steps
<1>. QED
  BY <1>1, Invariance, OneRequestStays, PTL DEF Spec, ErrorIsFinal
=============================================================================
