---------------------------- MODULE DecoderStream ----------------------------
(***************************************************************************)
(* media::DecoderStream (filters/decoder_stream.cc) and the DecoderSelector  *)
(* it owns (filters/decoder_selector.cc): turn the buffers of a              *)
(* DemuxerStream into decoded outputs.  When the first buffers of a decoder  *)
(* fail, another decoder is selected and given the same buffers; when the    *)
(* config of the stream changes, the decoder is flushed and initialized      *)
(* again.  All of it is asynchronous: a read of the demuxer, decodes (in     *)
(* parallel), a selection, the preparation of an output and a Reset() by the *)
(* client may all be under way at once.                                      *)
(*                                                                          *)
(* Buffers are numbered in the order in which the demuxer hands them out; a  *)
(* decoder makes one output of each, in order, which bears its number.  The  *)
(* decoder, the DemuxerStream and the DecryptingDemuxerStream between them   *)
(* are those of their interfaces.  Durations, statistics and the dropping of *)
(* outputs outside of the presentation are left out.                         *)
(***************************************************************************)
EXTENDS Integers, Sequences

CONSTANT Setups   \* the streams and decoders that are tried, of type Setup

(* requests: Decoder::GetMaxDecodeRequests().  decoders: how many            *)
(* CreateDecodersCB offers.  encrypted: the stream is, and there is a CDM.   *)
(* prepares: outputs are prepared by a PrepareCB.  buffers: those of the     *)
(* stream, then comes its end.  The others bound the calls of Reset(), the   *)
(* config changes and the errors.                                            *)
Setup == [ requests : Nat \ {0}, decoders : Nat \ {0}, encrypted : BOOLEAN,
           prepares : BOOLEAN, buffers : Nat, resets : Nat, changes : Nat,
           failures : Nat ]

ASSUME DecoderStreamAssumption == \A choice \in Setups : choice \in Setup

VARIABLES
  setup,    \* one of Setups
  ds,       \* members of DecoderStream
  sel,      \* members of DecoderSelector
  dec,      \* decoder_
  demux,    \* stream_
  client,   \* what the client has been given
  spent     \* what has been used of the bounds

vars == <<ds, sel, dec, demux, client, spent>>

EOS == 0
MaxRequests == setup.requests
MaxBuffers == setup.buffers

Outputs == 1 .. MaxBuffers
Buffers == Outputs \cup {EOS}

Members ==
  [ state : {"UNINITIALIZED", "INITIALIZING", "NORMAL", "FLUSHING_DECODER",
             "REINITIALIZING_DECODER", "END_OF_STREAM", "ERROR", "destroyed"},
    init_cb : BOOLEAN, read_cb : BOOLEAN, reset_cb : BOOLEAN,
    decoder                  : BOOLEAN,
    decoder_produced_a_frame : BOOLEAN,
    decrypting_demuxer_stream : BOOLEAN,
    decoding_eos             : BOOLEAN,
    preparing_output         : BOOLEAN,
    unprepared_outputs : Seq(Outputs), ready_outputs : Seq(Outputs),
    pending_decode_requests : Nat,
    pending_buffers : Seq(Buffers), fallback_buffers : Seq(Buffers),
    received_config_change_during_reinit : BOOLEAN,
    pending_demuxer_read : BOOLEAN ]

(* left: decoders_.  phase: whether a decoder or a DecryptingDemuxerStream   *)
(* is being initialized, or the task OnDecoderSelected() has been posted.    *)
(* found: with a decoder.  dds: decrypting_demuxer_stream_.  decrypted:      *)
(* stream_ is one.                                                           *)
Selector ==
  [ is_selecting_decoders : BOOLEAN, left : 0 .. setup.decoders,
    phase : {"idle", "decoder", "dds", "done"},
    found : BOOLEAN, dds : BOOLEAN, decrypted : BOOLEAN ]

(* todo: the requests whose DecodeCB has not run, with the end_of_stream     *)
(* bound to it.  held: what has not been output.                             *)
Decoder ==
  [ todo : Seq([buffer : Buffers, end_of_stream : BOOLEAN]), held : Seq(Outputs),
    reinitializing : BOOLEAN, resetting : BOOLEAN ]

(* reading: the read that is pending, of the stream itself or of the         *)
(* DecryptingDemuxerStream.  aborting: the demuxer awaits a seek.            *)
Stream ==
  [ next : 1 .. MaxBuffers + 1, reading : {"none", "raw", "dds"},
    aborting : BOOLEAN, resetting : BOOLEAN ]

(* got: the outputs read since the last Reset(), from: the first there is.   *)
Client == [ got : Seq(Outputs), from : 1 .. MaxBuffers + 1, ended : BOOLEAN ]

TypeOK ==
  /\ ds \in Members /\ sel \in Selector /\ dec \in Decoder
  /\ demux \in Stream /\ client \in Client
  /\ spent \in [resets : 0 .. setup.resets, changes : 0 .. setup.changes,
               failures : 0 .. setup.failures]

NewDecoder == [ todo |-> << >>, held |-> << >>, reinitializing |-> FALSE, resetting |-> FALSE ]

NewStream ==
  [ state |-> "UNINITIALIZED", init_cb |-> FALSE, read_cb |-> FALSE, reset_cb |-> FALSE,
    decoder |-> FALSE, decoder_produced_a_frame |-> FALSE,
    decrypting_demuxer_stream |-> FALSE, decoding_eos |-> FALSE,
    preparing_output |-> FALSE, unprepared_outputs |-> << >>, ready_outputs |-> << >>,
    pending_decode_requests |-> 0, pending_buffers |-> << >>, fallback_buffers |-> << >>,
    received_config_change_during_reinit |-> FALSE, pending_demuxer_read |-> FALSE ]

NewSelector ==
  [ is_selecting_decoders |-> FALSE, left |-> 0, phase |-> "idle",
    found |-> FALSE, dds |-> FALSE, decrypted |-> FALSE ]

Init ==
  /\ setup \in Setups
  /\ ds = NewStream /\ sel = NewSelector /\ dec = NewDecoder
  /\ demux = [next |-> 1, reading |-> "none", aborting |-> FALSE, resetting |-> FALSE]
  /\ client = [got |-> << >>, from |-> 1, ended |-> FALSE]
  /\ spent = [resets |-> 0, changes |-> 0, failures |-> 0]

(* A handler maps the state it finds to the state it leaves.                 *)
Now == [ds |-> ds, sel |-> sel, dec |-> dec, demux |-> demux, client |-> client]
Become(s) == /\ ds' = s.ds /\ sel' = s.sel /\ dec' = s.dec
             /\ demux' = s.demux /\ client' = s.client

Spend(what) == spent[what] < setup[what] /\ spent' = [spent EXCEPT ![what] = @ + 1]

(**************************************************************************)
(*                            DecoderSelector                               *)
(**************************************************************************)
ReturnNullDecoder(s) ==
  [s EXCEPT !.sel.phase = "done", !.sel.found = FALSE, !.sel.dds = FALSE, !.sel.left = 0]

InitializeDecoder(s) ==
  IF s.sel.left > 0 THEN [s EXCEPT !.sel.left = @ - 1, !.sel.phase = "decoder"]
  ELSE IF setup.encrypted /\ ~s.sel.decrypted THEN [s EXCEPT !.sel.phase = "dds"]
  ELSE ReturnNullDecoder(s)

SelectDecoder(s) ==
  InitializeDecoder([s EXCEPT !.sel.is_selecting_decoders = TRUE,
                              !.sel.left = IF s.sel.is_selecting_decoders THEN @ ELSE setup.decoders])

FinalizeDecoderSelection(s) ==
  [s EXCEPT !.sel.is_selecting_decoders = FALSE, !.sel.left = 0]

OnDecoderInitializeDone(success) ==
  /\ sel.phase = "decoder"
  /\ Become(IF success THEN [Now EXCEPT !.sel.phase = "done", !.sel.found = TRUE]
                       ELSE InitializeDecoder(Now))
  /\ UNCHANGED spent

OnDecryptingDemuxerStreamInitializeDone(success) ==
  /\ sel.phase = "dds"
  /\ Become(IF success
            THEN InitializeDecoder([Now EXCEPT !.sel.dds = TRUE, !.sel.decrypted = TRUE,
                                               !.sel.left = setup.decoders])
            ELSE ReturnNullDecoder(Now))
  /\ UNCHANGED spent

(**************************************************************************)
(*                       Decoding and the outputs                           *)
(**************************************************************************)
(* Defect: the requests under way are not counted.                           *)
CanDecodeMore_Idle(s) ==
  /\ s.ds.fallback_buffers # << >> \/ ~s.ds.decoding_eos
  /\ Len(s.ds.ready_outputs) + Len(s.ds.unprepared_outputs) < MaxRequests

CanDecodeMore(s) ==
  /\ s.ds.fallback_buffers # << >> \/ ~s.ds.decoding_eos
  /\ Len(s.ds.ready_outputs) + Len(s.ds.unprepared_outputs) + s.ds.pending_decode_requests
       < MaxRequests

(* SatisfyRead(): with an output, with the end of the stream, or with none.  *)
SatisfyRead(s, output) ==
  [s EXCEPT !.ds.read_cb = FALSE, !.client.got = Append(@, output)]
SatisfyReadAtEnd(s) == [s EXCEPT !.ds.read_cb = FALSE, !.client.ended = TRUE]
AbortRead(s) == [s EXCEPT !.ds.read_cb = FALSE]

ClearOutputs(s) ==
  [s EXCEPT !.ds.preparing_output = FALSE, !.ds.ready_outputs = << >>,
            !.ds.unprepared_outputs = << >>]

(* Defect: the request is not counted.                                       *)
DecodeInternal_Uncounted(s, buffer) ==
  LET eos == s.ds.decoding_eos \/ buffer = EOS
  IN  [s EXCEPT !.ds.decoding_eos = eos,
                !.dec.todo = Append(@, [buffer |-> buffer, end_of_stream |-> eos]),
                !.dec.held = IF buffer = EOS THEN @ ELSE Append(@, buffer)]

DecodeInternal(s, buffer) ==
  LET eos == s.ds.decoding_eos \/ buffer = EOS
  IN  [s EXCEPT !.ds.decoding_eos = eos,
                !.ds.pending_decode_requests = @ + 1,
                !.dec.todo = Append(@, [buffer |-> buffer, end_of_stream |-> eos]),
                !.dec.held = IF buffer = EOS THEN @ ELSE Append(@, buffer)]

(* Defect: buffers are not kept for a fallback.                              *)
Decode_NotKept(s, buffer) == DecodeInternal(s, buffer)

Decode(s, buffer) ==
  LET kept == IF s.ds.decoder_produced_a_frame THEN s
              ELSE [s EXCEPT !.ds.pending_buffers = Append(@, buffer)]
      fallback == s.ds.fallback_buffers
  IN  IF fallback = << >> THEN DecodeInternal(kept, buffer)
      ELSE DecodeInternal([kept EXCEPT !.ds.fallback_buffers = Append(Tail(@), buffer)],
                          Head(fallback))

ReadFromDemuxerStream(s) ==
  IF s.ds.fallback_buffers # << >>
  THEN DecodeInternal([s EXCEPT !.ds.fallback_buffers = Tail(@)], Head(s.ds.fallback_buffers))
  ELSE IF s.ds.pending_demuxer_read THEN s
  ELSE [s EXCEPT !.ds.pending_demuxer_read = TRUE,
                 !.demux.reading = IF s.ds.decrypting_demuxer_stream THEN "dds" ELSE "raw"]

ReadIfPossible(s) == IF CanDecodeMore(s) THEN ReadFromDemuxerStream(s) ELSE s

MaybePrepareAnotherOutput(s) ==
  IF setup.prepares /\ s.ds.unprepared_outputs # << >> /\ Len(s.ds.ready_outputs) < MaxRequests
  THEN [s EXCEPT !.ds.preparing_output = TRUE] ELSE s

OnDecodeOutputReady(s, output) ==
  LET first == FinalizeDecoderSelection([s EXCEPT !.ds.decoder_produced_a_frame = TRUE,
                                                  !.ds.pending_buffers = << >>])
      t == IF s.ds.decoder_produced_a_frame THEN s ELSE first
  IN  IF s.ds.state = "ERROR" \/ s.ds.reset_cb THEN s
      ELSE IF setup.prepares
      THEN MaybePrepareAnotherOutput([t EXCEPT !.ds.unprepared_outputs = Append(@, output)])
      ELSE IF s.ds.read_cb THEN SatisfyRead(t, output)
      ELSE [t EXCEPT !.ds.ready_outputs = Append(@, output)]

OnPreparedOutputReady ==
  /\ ds.preparing_output
  /\ LET output == Head(ds.unprepared_outputs)
         done == [Now EXCEPT !.ds.preparing_output = FALSE, !.ds.unprepared_outputs = Tail(@)]
         kept == [done EXCEPT !.ds.ready_outputs = Append(@, output)]
         next == MaybePrepareAnotherOutput(IF ds.read_cb THEN SatisfyRead(done, output) ELSE kept)
     IN  Become(IF ds.state = "NORMAL" THEN ReadIfPossible(next) ELSE next)
  /\ UNCHANGED spent

(**************************************************************************)
(*                    Reset, reinitialization, fallback                     *)
(**************************************************************************)
(* The client's closure runs: it seeks the demuxer.                          *)
ResetDone(s) ==
  [s EXCEPT !.ds.reset_cb = FALSE, !.demux.aborting = FALSE,
            !.client = [got |-> << >>, from |-> s.demux.next, ended |-> FALSE]]

ResetDecoder(s) == [s EXCEPT !.dec.resetting = TRUE]

(* Defect: an error does not stop a Reset() from going through.              *)
ResetStream_Error(s) ==
  LET t == ClearOutputs(AbortRead([s EXCEPT !.ds.reset_cb = TRUE]))
  IN  IF s.ds.state = "REINITIALIZING_DECODER" THEN t
      ELSE IF s.ds.decrypting_demuxer_stream THEN [t EXCEPT !.demux.resetting = TRUE]
      ELSE IF s.ds.pending_demuxer_read THEN t
      ELSE ResetDecoder(t)

ResetStream(s) ==
  LET t == ClearOutputs(AbortRead([s EXCEPT !.ds.reset_cb = TRUE]))
  IN  IF s.ds.state = "ERROR" /\ ~s.ds.pending_demuxer_read THEN ResetDone(t)
      ELSE IF s.ds.state = "REINITIALIZING_DECODER" THEN t
      ELSE IF s.ds.decrypting_demuxer_stream THEN [t EXCEPT !.demux.resetting = TRUE]
      ELSE IF s.ds.pending_demuxer_read THEN t
      ELSE ResetDecoder(t)

CompleteDecoderReinitialization(s, success) ==
  LET t == [s EXCEPT !.ds.state = IF success THEN "NORMAL" ELSE "ERROR"]
  IN  IF s.ds.reset_cb THEN ResetDone(t)
      ELSE IF ~s.ds.read_cb THEN t
      ELSE IF ~success THEN AbortRead(t)
      ELSE ReadIfPossible([t EXCEPT !.ds.decoder_produced_a_frame = FALSE])

OnDecoderSelected ==
  /\ sel.phase = "done"
  /\ LET selected == [Now EXCEPT !.sel.phase = "idle", !.sel.dds = FALSE,
                        !.ds.decoder = sel.found, !.dec = NewDecoder,
                        !.ds.decrypting_demuxer_stream = @ \/ sel.dds]
         refilled == [selected EXCEPT !.ds.fallback_buffers = ds.pending_buffers]
     IN  Become(
           IF ds.received_config_change_during_reinit
           THEN CompleteDecoderReinitialization(selected, FALSE)
           ELSE IF ds.state = "REINITIALIZING_DECODER"
           THEN CompleteDecoderReinitialization(refilled, sel.found)
           ELSE [refilled EXCEPT !.ds.init_cb = FALSE,
                   !.ds.state = IF sel.found THEN "NORMAL" ELSE "UNINITIALIZED"])
  /\ UNCHANGED spent

ReinitializeDecoder(s) ==
  [s EXCEPT !.ds.state = "REINITIALIZING_DECODER", !.dec.reinitializing = TRUE]

OnDecoderReinitialized(success) ==
  /\ dec.reinitializing
  /\ LET s == [Now EXCEPT !.dec = NewDecoder]
     IN  Become(IF success THEN CompleteDecoderReinitialization(s, TRUE) ELSE SelectDecoder(s))
  /\ UNCHANGED spent

(* The requests under way are aborted first.  Without a decoder the call of  *)
(* its Reset() does not come back.                                           *)
OnDecoderReset ==
  /\ dec.resetting /\ ds.decoder
  /\ LET aborted == [Now EXCEPT !.dec = NewDecoder, !.ds.pending_decode_requests = 0,
                       !.ds.decoding_eos =
                         @ /\ \A i \in 1 .. Len(dec.todo) : ~dec.todo[i].end_of_stream]
         cleared == [aborted EXCEPT !.ds.fallback_buffers = << >>, !.ds.pending_buffers = << >>]
     IN  Become(IF ds.state = "FLUSHING_DECODER" THEN ReinitializeDecoder(cleared)
                ELSE ResetDone([cleared EXCEPT !.ds.state = "NORMAL"]))
  /\ UNCHANGED spent

(**************************************************************************)
(*                     What the decoder answers                             *)
(**************************************************************************)
(* Pending requests and outputs of the decoder given up are not called back. *)
FallBack(s) ==
  SelectDecoder([s EXCEPT !.ds.pending_decode_requests = 0, !.dec = NewDecoder,
                          !.ds.state = "REINITIALIZING_DECODER"])

DecodeFailed(s) == AbortRead(ClearOutputs([s EXCEPT !.ds.state = "ERROR"]))

(* Defect: outputs not prepared yet do not delay the end.                    *)
Ended_Ready(s) ==
  LET t == [s EXCEPT !.ds.state = "END_OF_STREAM"]
  IN  IF s.ds.read_cb /\ s.ds.ready_outputs = << >> THEN SatisfyReadAtEnd(t) ELSE t

Ended(s) ==
  LET t == [s EXCEPT !.ds.state = "END_OF_STREAM"]
  IN  IF s.ds.read_cb /\ s.ds.ready_outputs = << >> /\ s.ds.unprepared_outputs = << >>
      THEN SatisfyReadAtEnd(t) ELSE t

OnDecodeDone(s, end_of_stream, ok) ==
  LET answered == [s EXCEPT !.ds.pending_decode_requests = @ - 1,
                            !.ds.decoding_eos = @ /\ ~end_of_stream]
      t == IF end_of_stream /\ ok THEN FinalizeDecoderSelection(answered) ELSE answered
  IN  IF s.ds.state = "ERROR" \/ s.ds.reset_cb THEN t
      ELSE IF ~ok
      THEN IF s.ds.decoder_produced_a_frame THEN DecodeFailed(t) ELSE FallBack(t)
      ELSE IF s.ds.state = "NORMAL"
      THEN IF end_of_stream THEN Ended(t) ELSE ReadIfPossible(t)
      ELSE IF s.ds.state = "FLUSHING_DECODER" /\ t.ds.pending_decode_requests = 0
      THEN ReinitializeDecoder(t)
      ELSE t

Without(q, i) == [j \in 1 .. Len(q) - 1 |-> IF j < i THEN q[j] ELSE q[j + 1]]

(* Requests are answered in order, an end of the stream when all that was    *)
(* held has been output.  A buffer that fails is not output.                 *)
DecoderAnswers(ok) ==
  /\ dec.todo # << >>
  /\ LET request == Head(dec.todo)
         s == [Now EXCEPT !.dec.todo = Tail(@)]
     IN  IF ok
         THEN /\ request.buffer = EOS => dec.held = << >>
              /\ Become(OnDecodeDone(s, request.end_of_stream, TRUE))
              /\ UNCHANGED spent
         ELSE /\ Spend("failures")
              /\ \/ /\ request.buffer = EOS
                    /\ Become(OnDecodeDone(s, request.end_of_stream, FALSE))
                 \/ \E i \in 1 .. Len(dec.held) :
                      /\ dec.held[i] = request.buffer
                      /\ Become(OnDecodeDone([s EXCEPT !.dec.held = Without(@, i)],
                                             request.end_of_stream, FALSE))

DecoderOutputs ==
  /\ dec.held # << >>
  /\ Become(OnDecodeOutputReady([Now EXCEPT !.dec.held = Tail(@)], Head(dec.held)))
  /\ UNCHANGED spent

(**************************************************************************)
(*                     What the demuxer answers                             *)
(**************************************************************************)
WhileReinitializing(s, status, buffer) ==
  CASE status = "kOk" -> [s EXCEPT !.ds.pending_buffers = Append(@, buffer)]
    [] status = "kConfigChanged" ->
         [s EXCEPT !.ds.received_config_change_during_reinit = TRUE,
                   !.ds.pending_buffers = << >>]
    [] OTHER -> [s EXCEPT !.ds.pending_buffers = << >>]

(* Defect: a Reset() that waits for a read of the demuxer is forgotten.      *)
ContinueReset_Never(s) == s

(* If there is a DecryptingDemuxerStream, its reset continues that of the    *)
(* stream.                                                                   *)
ContinueReset(s) == IF s.ds.decrypting_demuxer_stream THEN s ELSE ResetStream(s)

OnBufferReady(s, status, buffer) ==
  LET t == [s EXCEPT !.ds.pending_demuxer_read = FALSE, !.demux.reading = "none"]
      failed == IF status = "kError"
                THEN DecodeFailed([t EXCEPT !.ds.pending_buffers = << >>]) ELSE t
      normal == [t EXCEPT !.ds.state = "NORMAL"]
      changed == [t EXCEPT !.ds.state = "FLUSHING_DECODER", !.ds.pending_buffers = << >>]
  IN  IF s.ds.state = "REINITIALIZING_DECODER" /\ ~s.ds.decoder_produced_a_frame
      THEN WhileReinitializing(t, status, buffer)
      ELSE IF failed.ds.state = "ERROR"
      THEN IF s.ds.reset_cb THEN ContinueReset(failed) ELSE failed
      ELSE IF status = "kConfigChanged"
      THEN IF s.ds.reset_cb THEN ContinueReset(changed) ELSE DecodeInternal(changed, EOS)
      ELSE IF s.ds.reset_cb THEN ContinueReset(normal)
      ELSE IF status = "kAborted" THEN AbortRead(normal)
      ELSE ReadIfPossible(Decode(normal, buffer))

(* A DecryptingDemuxerStream that is being reset lets through only a config  *)
(* change.                                                                   *)
StreamAnswers(status) ==
  LET buffer == IF demux.next > MaxBuffers THEN EOS ELSE demux.next
      passes == demux.reading = "raw" \/ ~demux.resetting
      after  == IF status = "kOk" /\ buffer # EOS THEN [Now EXCEPT !.demux.next = @ + 1] ELSE Now
  IN  /\ demux.reading # "none"
      /\ CASE status = "kOk"            -> passes /\ ~demux.aborting /\ UNCHANGED spent
           [] status = "kAborted"       -> (demux.aborting \/ ~passes) /\ UNCHANGED spent
           [] status = "kConfigChanged" -> ~demux.aborting /\ Spend("changes")
           [] status = "kError"         -> passes /\ Spend("failures")
      /\ Become(OnBufferReady(after, status, buffer))

(* DecryptingDemuxerStream::DoReset(), when no read of it is pending.        *)
OnDecryptingDemuxerStreamReset ==
  /\ demux.resetting /\ demux.reading # "dds"
  /\ Become(ResetDecoder([Now EXCEPT !.demux.resetting = FALSE]))
  /\ UNCHANGED spent

(**************************************************************************)
(*                        The calls of the client                           *)
(**************************************************************************)
Initialize ==
  /\ ds.state = "UNINITIALIZED" /\ sel = NewSelector
  /\ Become(SelectDecoder([Now EXCEPT !.ds.state = "INITIALIZING", !.ds.init_cb = TRUE]))
  /\ UNCHANGED spent

Alive == ds.state \notin {"UNINITIALIZED", "INITIALIZING", "destroyed"}

(* A renderer does not read beyond the end of the stream.                    *)
Read ==
  /\ Alive /\ ~ds.read_cb /\ ~ds.reset_cb /\ ~client.ended
  /\ LET given == SatisfyRead([Now EXCEPT !.ds.ready_outputs = Tail(@)], Head(ds.ready_outputs))
         t == IF ds.ready_outputs # << >> THEN MaybePrepareAnotherOutput(given)
              ELSE [Now EXCEPT !.ds.read_cb = TRUE]
     IN  Become(
           IF ds.state = "ERROR" THEN Now
           ELSE IF /\ ds.state = "END_OF_STREAM"
                   /\ ds.ready_outputs = << >> /\ ds.unprepared_outputs = << >>
           THEN SatisfyReadAtEnd(Now)
           ELSE IF ds.state = "NORMAL" THEN ReadIfPossible(t) ELSE t)
  /\ UNCHANGED spent

Reset ==
  /\ Alive /\ ~ds.reset_cb /\ Spend("resets")
  /\ Become(ResetStream(Now))

(* Demuxer::StartWaitingForSeek(): reads are aborted until the seek.         *)
AbortPendingReads ==
  /\ Alive /\ ~demux.aborting /\ spent.resets < setup.resets
  /\ demux' = [demux EXCEPT !.aborting = TRUE]
  /\ UNCHANGED <<ds, sel, dec, client, spent>>

(* ~DecoderStream(): every callback still to be run is.                      *)
Destroy ==
  /\ ds.state # "destroyed"
  /\ ds' = [NewStream EXCEPT !.state = "destroyed"]
  /\ sel' = NewSelector /\ dec' = NewDecoder
  /\ demux' = [demux EXCEPT !.reading = "none", !.resetting = FALSE]
  /\ UNCHANGED <<client, spent>>

Selects ==
  \/ \E success \in BOOLEAN : \/ OnDecoderInitializeDone(success)
                              \/ OnDecryptingDemuxerStreamInitializeDone(success)
  \/ OnDecoderSelected

Reinitializes == \E success \in BOOLEAN : OnDecoderReinitialized(success)

Answers == \E status \in {"kOk", "kAborted", "kConfigChanged", "kError"} : StreamAnswers(status)

Steps ==
  \/ Initialize \/ Read \/ Reset \/ AbortPendingReads \/ Destroy
  \/ Selects \/ Reinitializes
  \/ \E ok \in BOOLEAN : DecoderAnswers(ok)
  \/ DecoderOutputs \/ OnDecoderReset
  \/ Answers \/ OnDecryptingDemuxerStreamReset
  \/ OnPreparedOutputReady

Next == Steps /\ UNCHANGED setup

Flushing == dec.todo # << >> /\ Head(dec.todo).buffer = EOS

(* Decoders, demuxer, selector and the PrepareCB answer.  A decoder may keep *)
(* its outputs until it has more buffers or is flushed.                      *)
AnswersCome ==
  /\ WF_vars(Selects) /\ WF_vars(Reinitializes)
  /\ WF_vars(\E ok \in BOOLEAN : DecoderAnswers(ok))
  /\ WF_vars(Flushing /\ DecoderOutputs)
  /\ WF_vars(OnDecoderReset)
  /\ WF_vars(Answers) /\ WF_vars(OnDecryptingDemuxerStreamReset)
  /\ WF_vars(OnPreparedOutputReady)

Spec ==
  /\ Init
  /\ [][Next]_<<vars, setup>>
  /\ AnswersCome

(**************************************************************************)
(*                              Properties                                  *)
(**************************************************************************)
(* A decoder that fails in the flush for a config change, before its first   *)
(* output, loses its buffers: the comments of OnBufferReady() accept that.   *)
Lossless == spent.changes = 0 \/ spent.failures = 0

(* Whatever fails, falls back, is aborted, prepared or decoded in parallel,  *)
(* the client is given every output of the stream from the last seek on,     *)
(* once and in order: the buffers of a decoder that failed are decoded again.*)
Fresh == {i \in 1 .. Len(client.got) : client.got[i] >= client.from}
Given(n) == \E i \in Fresh : client.got[i] = n
InOrder ==
  /\ \A i, j \in Fresh : i < j => client.got[i] < client.got[j]
  /\ Lossless => \A i \in Fresh : \A n \in client.from .. client.got[i] : Given(n)

(* The end of the stream is reported once all of it has been given           *)
(* (OnDecodeDone() of the end of the stream, Read() in END_OF_STREAM; the    *)
(* header: "End of stream reached; returns EOS on all reads.").  A fallback  *)
(* with several requests under way breaks it.                                *)
EndIsReal == client.ended /\ Lossless => \A n \in client.from .. MaxBuffers : Given(n)

(* The decoder is never given more than it takes                             *)
(* (DCHECK_LT(pending_decode_requests_, GetMaxDecodeRequests())), and nothing *)
(* after an end of the stream or during a reset or an initialization         *)
(* (VideoDecoder::Decode(), Initialize(), Reset()).  A fallback with several *)
(* requests under way breaks this too.                                       *)
DecoderContract ==
  /\ Len(dec.todo) <= MaxRequests
  /\ \A i \in 1 .. Len(dec.todo) - 1 : dec.todo[i].buffer # EOS
  /\ dec.reinitializing => dec.todo = << >> /\ ~dec.resetting
  /\ dec.todo # << >> \/ dec.resetting => ds.decoder
  /\ dec.todo # << >> => ds.state \in {"NORMAL", "FLUSHING_DECODER", "ERROR"}

(* An output is prepared only in a state in which OnPreparedOutputReady()    *)
(* may run, and is still the first one that waits (its DCHECKs).             *)
PreparedInTime ==
  ds.preparing_output =>
    /\ ds.unprepared_outputs # << >> /\ ~ds.reset_cb
    /\ ds.state \in {"NORMAL", "FLUSHING_DECODER", "END_OF_STREAM", "REINITIALIZING_DECODER"}

(* decoder_stream.h: "Resets the decoder, flushes all decoded outputs and/or *)
(* internal buffers": the client is given nothing from before its Reset().   *)
NothingStale == \A i \in 1 .. Len(client.got) : client.got[i] >= client.from

(* decoder_stream.h: "If the decoder stream has run into an error, calling   *)
(* this method does not 'reset' it to a normal state."                       *)
ErrorIsFinal == [][ds.state = "ERROR" => ds'.state \in {"ERROR", "destroyed"}]_vars

(* Every callback is run: that of Initialize(), Read() and Reset().          *)
Answered ==
  /\ ds.init_cb ~> ~ds.init_cb
  /\ ds.read_cb ~> ~ds.read_cb
  /\ ds.reset_cb ~> ~ds.reset_cb
=============================================================================
