----------------------- MODULE DecoderStreamOrderProofs -----------------------
(***************************************************************************)
(* With one request at a time, the client is given every output from the     *)
(* last seek on, once and in order, and told of the end only when it has     *)
(* been given all: whatever fails, falls back, is reset or prepared.         *)
(***************************************************************************)
EXTENDS DecoderStreamProofs

(**************************************************************************)
(*                        Sequences of buffers                              *)
(**************************************************************************)
Elements(q) == {q[i] : i \in 1 .. Len(q)}

(* Each number once, rising, and the end of the stream last.                 *)
Rising(q) ==
  \A i, j \in 1 .. Len(q) : i < j /\ q[j] # EOS => q[i] # EOS /\ q[i] < q[j]

Before(S, T) == \A x \in S, y \in T : y # EOS => x < y

(* Nothing is in an empty queue.                                            *)
LEMMA NoElements == Elements(<< >>) = {} /\ Rising(<< >>)
  BY DEF Elements, Rising

(* A buffer that follows all of a queue is put at its end.                  *)
LEMMA Appends ==
  ASSUME NEW S, NEW q \in Seq(S), NEW x \in S
  PROVE  /\ Append(q, x) \in Seq(S) /\ Elements(Append(q, x)) = Elements(q) \cup {x}
         /\ Rising(q) /\ Before(Elements(q), {x}) /\ (x # EOS => EOS \notin Elements(q))
              => Rising(Append(q, x))
<1>. DEFINE p == Append(q, x)
<1>1. /\ p \in Seq(S) /\ Len(p) = Len(q) + 1 /\ Len(q) \in Nat /\ p[Len(p)] = x
      /\ \A i \in 1 .. Len(q) : p[i] = q[i]
  BY AppendProperties
<1>. HIDE DEF p
<1>2. Elements(p) = Elements(q) \cup {x}
  <2>1. \A i \in 1 .. Len(p) : i \in 1 .. Len(q) \/ i = Len(p)
    BY <1>1
  <2>2. Len(p) \in 1 .. Len(p) /\ \A i \in 1 .. Len(q) : i \in 1 .. Len(p)
    BY <1>1
  <2>. QED
    BY <1>1, <2>1, <2>2 DEF Elements
<1>3. ASSUME Rising(q), Before(Elements(q), {x}), x # EOS => EOS \notin Elements(q)
      PROVE  Rising(p)
  <2>1. SUFFICES ASSUME NEW i \in 1 .. Len(p), NEW j \in 1 .. Len(p), i < j, p[j] # EOS
                 PROVE  p[i] # EOS /\ p[i] < p[j]
    BY DEF Rising
  <2>2. i \in 1 .. Len(q) /\ (j \in 1 .. Len(q) \/ j = Len(p))
    BY <1>1, <2>1
  <2>3. p[i] = q[i] /\ q[i] \in Elements(q)
    BY <1>1, <2>2 DEF Elements
  <2>4. CASE j \in 1 .. Len(q)
    BY <1>1, <1>3, <2>1, <2>2, <2>3, <2>4 DEF Rising
  <2>5. CASE j = Len(p)
    BY <1>1, <1>3, <2>1, <2>3, <2>5 DEF Before
  <2>. QED
    BY <2>2, <2>4, <2>5
<1>. QED
  BY <1>1, <1>2, <1>3 DEF p

(* The first of a queue is taken.                                           *)
LEMMA Tails ==
  ASSUME NEW S, NEW q \in Seq(S), q # << >>
  PROVE  /\ Tail(q) \in Seq(S) /\ Head(q) \in S
         /\ Elements(q) = {Head(q)} \cup Elements(Tail(q))
         /\ Rising(q) => /\ Rising(Tail(q)) /\ Before({Head(q)}, Elements(Tail(q)))
                         /\ Head(q) = EOS => Elements(Tail(q)) \subseteq {EOS}
<1>. DEFINE t == Tail(q)
<1>1. /\ t \in Seq(S) /\ Head(q) \in S /\ Len(q) \in Nat /\ Len(q) # 0 /\ Len(t) = Len(q) - 1
      /\ Head(q) = q[1] /\ \A i \in 1 .. Len(t) : t[i] = q[i + 1]
  BY HeadTailProperties, EmptySeq
<1>. HIDE DEF t
<1>2. 1 \in 1 .. Len(q) /\ \A i \in 1 .. Len(t) : i + 1 \in 1 .. Len(q) /\ 1 < i + 1
  BY <1>1
<1>3. Elements(q) = {Head(q)} \cup Elements(t)
  <2>1. \A i \in 1 .. Len(q) : i = 1 \/ (i - 1 \in 1 .. Len(t) /\ q[i] = t[i - 1])
    BY <1>1
  <2>. QED
    BY <1>1, <1>2, <2>1 DEF Elements
<1>4. ASSUME Rising(q)
      PROVE  Rising(t) /\ Before({Head(q)}, Elements(t)) /\ (Head(q) = EOS => Elements(t) \subseteq {EOS})
  <2>1. Rising(t)
    <3>1. SUFFICES ASSUME NEW i \in 1 .. Len(t), NEW j \in 1 .. Len(t), i < j, t[j] # EOS
                   PROVE  t[i] # EOS /\ t[i] < t[j]
      BY DEF Rising
    <3>2. i + 1 < j + 1 /\ t[i] = q[i + 1] /\ t[j] = q[j + 1]
      BY <1>1, <3>1
    <3>. QED
      BY <1>2, <1>4, <3>1, <3>2 DEF Rising
  <2>2. \A j \in 1 .. Len(t) : t[j] # EOS => q[1] # EOS /\ q[1] < t[j]
    BY <1>1, <1>2, <1>4 DEF Rising
  <2>. QED
    BY <1>1, <2>1, <2>2 DEF Before, Elements
<1>. QED
  BY <1>1, <1>3, <1>4 DEF t

(**************************************************************************)
(*                          The buffers of a state                          *)
(**************************************************************************)
(* Where the buffers are, and what tells where they go.                      *)
Data(w) ==
  [ state |-> w.ds.state, reset |-> w.ds.reset_cb, read |-> w.ds.read_cb,
    produced |-> w.ds.decoder_produced_a_frame, eos |-> w.ds.decoding_eos,
    got |-> w.client.got, from |-> w.client.from, ended |-> w.client.ended,
    ready |-> w.ds.ready_outputs, unprepared |-> w.ds.unprepared_outputs,
    held |-> w.dec.held, again |-> w.ds.fallback_buffers, kept |-> w.ds.pending_buffers,
    todo |-> w.dec.todo, initializing |-> w.dec.reinitializing, next |-> w.demux.next ]

States == {"UNINITIALIZED", "INITIALIZING", "NORMAL", "FLUSHING_DECODER",
           "REINITIALIZING_DECODER", "END_OF_STREAM", "ERROR", "destroyed"}

Datas ==
  [ state : States, reset : BOOLEAN, read : BOOLEAN, produced : BOOLEAN, eos : BOOLEAN,
    got : Seq(Outputs), from : 1 .. MaxBuffers + 1, ended : BOOLEAN,
    ready : Seq(Outputs), unprepared : Seq(Outputs),
    held : Seq(Outputs), again : Seq(Buffers), kept : Seq(Buffers),
    todo : Seq(Requests), initializing : BOOLEAN, next : 1 .. MaxBuffers + 1 ]

(* What the client has been given, or will be without a decoder.             *)
Put(d) == Elements(d.got) \cup Elements(d.ready) \cup Elements(d.unprepared)

(* What a decoder will put out.                                              *)
ToCome(d) == IF d.state = "REINITIALIZING_DECODER" THEN Elements(d.kept)
             ELSE Elements(d.held) \cup Elements(d.again)

(* The queues follow one another, and precede what the demuxer has left.     *)
Ordered(d) ==
  /\ Rising(d.got) /\ Rising(d.ready) /\ Rising(d.unprepared)
  /\ Rising(d.held) /\ Rising(d.again) /\ Rising(d.kept)
  /\ Before(Elements(d.got), Elements(d.ready))
  /\ Before(Elements(d.got), Elements(d.unprepared))
  /\ Before(Elements(d.ready), Elements(d.unprepared))
  /\ Before(Put(d), Elements(d.held) \cup Elements(d.again) \cup Elements(d.kept))
  /\ Before(Elements(d.held), Elements(d.again))
  /\ \A x \in Put(d) \cup Elements(d.held) \cup Elements(d.again) \cup Elements(d.kept) :
       x < d.next
  /\ EOS \in Elements(d.again) \cup Elements(d.kept) => d.next = MaxBuffers + 1

(* A decoder that has put out nothing can be replaced: what it was given is  *)
(* kept.                                                                     *)
Keeps(d) ==
  /\ d.produced => d.kept = << >>
  /\ d.state = "NORMAL" /\ ~d.produced
       => Elements(d.held) \cup Elements(d.again) \subseteq Elements(d.kept)
  /\ d.state = "FLUSHING_DECODER" \/ d.initializing => d.again = << >> /\ d.kept = << >>
  /\ d.state \in Away \cup {"REINITIALIZING_DECODER"} => d.held = << >>
  /\ d.state \in {"UNINITIALIZED", "INITIALIZING"} => d.from = d.next

(* The end of the stream is decoded last.                                    *)
EndsLast(d) ==
  /\ d.eos => d.todo # << >> /\ d.todo[1].end_of_stream
  /\ d.todo # << >> =>
       /\ d.todo[1].end_of_stream <=> d.todo[1].buffer = EOS
       /\ d.state = "FLUSHING_DECODER" => d.todo[1].buffer = EOS
       /\ d.state = "NORMAL" /\ d.todo[1].buffer = EOS =>
            d.next = MaxBuffers + 1 /\ Elements(d.again) \subseteq {EOS}
  /\ d.state = "END_OF_STREAM" =>
       /\ d.next = MaxBuffers + 1
       /\ d.held = << >> /\ Elements(d.again) \subseteq {EOS}

(* The client waits only for what is not there.                              *)
Waits(d) ==
  /\ d.read => d.ready = << >>
  /\ setup.prepares \/ d.unprepared = << >>

Sound(d) == Ordered(d) /\ Keeps(d) /\ EndsLast(d) /\ Waits(d)

(* Nothing is lost: what is given leaves no gap; all that the demuxer has    *)
(* handed out is given or to come; the end is told when all has been given.  *)
NoGap(d) == \A x \in Put(d) : \A n \in d.from .. x : n \in Put(d)

AllThere(d) ==
  d.reset \/ d.state \in {"ERROR", "destroyed"}
    \/ \A n \in d.from .. d.next - 1 : n \in Put(d) \cup ToCome(d)

AllGiven(d) == d.ended => \A n \in d.from .. MaxBuffers : n \in Elements(d.got)

Full(d) == NoGap(d) /\ AllThere(d) /\ AllGiven(d)

(* From s to v nothing goes wrong.                                           *)
Moves(d, e) == Sound(d) => Sound(e) /\ (Full(d) => Full(e))

(**************************************************************************)
(*                    What may happen to the buffers                        *)
(**************************************************************************)
LEMMA Kinds ==
  ASSUME NEW d \in Datas
  PROVE  /\ Elements(d.got) \subseteq Outputs /\ Elements(d.ready) \subseteq Outputs
         /\ Elements(d.unprepared) \subseteq Outputs /\ Elements(d.held) \subseteq Outputs
         /\ Put(d) \subseteq Outputs
         /\ Elements(d.again) \subseteq Buffers /\ Elements(d.kept) \subseteq Buffers
         /\ EOS \notin Put(d) /\ EOS \notin Elements(d.held)
<1>1. ASSUME NEW S, NEW q \in Seq(S) PROVE Elements(q) \subseteq S
  BY ElementOfSeq DEF Elements
<1>2. /\ d.got \in Seq(Outputs) /\ d.ready \in Seq(Outputs) /\ d.unprepared \in Seq(Outputs)
      /\ d.held \in Seq(Outputs) /\ d.again \in Seq(Buffers) /\ d.kept \in Seq(Buffers)
  BY DEF Datas
<1>3. /\ Elements(d.got) \subseteq Outputs /\ Elements(d.ready) \subseteq Outputs
      /\ Elements(d.unprepared) \subseteq Outputs /\ Elements(d.held) \subseteq Outputs
      /\ Elements(d.again) \subseteq Buffers /\ Elements(d.kept) \subseteq Buffers
  BY <1>1, <1>2
<1>4. EOS \notin Outputs
  BY DEF Outputs, EOS
<1>. QED
  BY <1>3, <1>4 DEF Put

(* Queues that have been shortened or cleared are still in order.            *)
Part(p, q) == Rising(p) /\ Elements(p) \subseteq Elements(q)

Less(e, d) ==
  /\ Part(e.got, d.got) /\ Part(e.ready, d.ready) /\ Part(e.unprepared, d.unprepared)
  /\ Part(e.held, d.held) /\ Part(e.again, d.again) /\ Part(e.kept, d.kept)
  /\ d.next <= e.next

(* Where nothing is added, nothing gets out of order.                       *)
LEMMA StillOrdered ==
  ASSUME NEW d \in Datas, NEW e \in Datas, setup \in Setups, Ordered(d), Less(e, d)
  PROVE  Ordered(e)
<1>1. Put(e) \subseteq Put(d)
  BY DEF Less, Part, Put
<1>2. /\ Before(Elements(e.got), Elements(e.ready))
      /\ Before(Elements(e.got), Elements(e.unprepared))
      /\ Before(Elements(e.ready), Elements(e.unprepared))
      /\ Before(Elements(e.held), Elements(e.again))
  BY DEF Less, Part, Ordered, Before
<1>3. Before(Put(e), Elements(e.held) \cup Elements(e.again) \cup Elements(e.kept))
  BY <1>1 DEF Less, Part, Ordered, Before
<1>4. d.next \in 1 .. MaxBuffers + 1 /\ e.next \in 1 .. MaxBuffers + 1 /\ MaxBuffers \in Nat
  BY Numbers DEF Datas
<1>5. ASSUME NEW x \in Put(e) \cup Elements(e.held) \cup Elements(e.again) \cup Elements(e.kept)
      PROVE  x < e.next
  <2>1. x \in Put(d) \cup Elements(d.held) \cup Elements(d.again) \cup Elements(d.kept)
    BY <1>1, <1>5 DEF Less, Part
  <2>2. x \in Int
    BY <2>1, <1>4, Kinds DEF Outputs, Buffers, EOS
  <2>3. x < d.next
    BY <2>1 DEF Ordered
  <2>. QED
    BY <1>4, <2>2, <2>3 DEF Less
<1>6. EOS \in Elements(e.again) \cup Elements(e.kept) => e.next = MaxBuffers + 1
  BY <1>4 DEF Less, Part, Ordered
<1>. QED
  BY <1>2, <1>3, <1>5, <1>6 DEF Less, Part, Ordered

(* A queue, or none, is a part of that queue.                               *)
LEMMA Parted ==
  ASSUME NEW d \in Datas, Ordered(d)
  PROVE  /\ Part(d.got, d.got) /\ Part(d.ready, d.ready) /\ Part(d.unprepared, d.unprepared)
         /\ Part(d.held, d.held) /\ Part(d.again, d.again) /\ Part(d.kept, d.kept)
         /\ \A q : Part(<< >>, q)
         /\ \A n \in 1 .. MaxBuffers + 1 : n <= n
  BY NoElements DEF Part, Ordered

(* What the client has been given leaves no gap, when the outputs that wait  *)
(* stay or are dropped.                                                      *)
LEMMA StillNoGap ==
  ASSUME NEW d \in Datas, NEW e \in Datas, setup \in Setups, Ordered(d), NoGap(d),
         e.from = d.from, e.got = d.got,
         \/ e.ready = d.ready /\ e.unprepared = d.unprepared
         \/ e.ready = << >> /\ e.unprepared = << >>
  PROVE  NoGap(e)
<1>1. CASE e.ready = d.ready /\ e.unprepared = d.unprepared
  BY <1>1 DEF NoGap, Put
<1>2. CASE e.ready = << >> /\ e.unprepared = << >>
  <2>1. Put(e) = Elements(d.got)
    BY <1>2, NoElements DEF Put
  <2>2. SUFFICES ASSUME NEW x \in Elements(d.got), NEW n \in d.from .. x
                 PROVE  n \in Elements(d.got)
    BY <2>1 DEF NoGap
  <2>3. n \in Put(d)
    <3>1. x \in Put(d)
      BY DEF Put
    <3>. QED
      BY <3>1 DEF NoGap
  <2>4. /\ x \in Int /\ n \in Int /\ n # EOS /\ n <= x
    BY <2>3, Kinds, Numbers DEF Outputs, EOS
  <2>5. n \in Elements(d.ready) \cup Elements(d.unprepared) => x < n
    BY <2>4 DEF Ordered, Before
  <2>. QED
    BY <2>3, <2>4, <2>5 DEF Put
<1>. QED
  BY <1>1, <1>2

(* A read of the client is answered without an output, or there is one.      *)
LEMMA ReadChanges ==
  ASSUME NEW d \in Datas, NEW e \in Datas, e.read => d.ready = << >>,
         e.state = d.state, e.reset = d.reset, e.produced = d.produced,
         e.eos = d.eos, e.got = d.got, e.from = d.from, e.ended = d.ended, e.ready = d.ready,
         e.unprepared = d.unprepared, e.held = d.held, e.again = d.again, e.kept = d.kept,
         e.todo = d.todo, e.initializing = d.initializing, e.next = d.next
  PROVE  Moves(d, e)
<1>1. Put(e) = Put(d) /\ ToCome(e) = ToCome(d)
  BY DEF Put, ToCome
<1>2. Ordered(d) => Ordered(e)
  BY <1>1 DEF Ordered
<1>3. Keeps(d) => Keeps(e)
  BY DEF Keeps
<1>4. EndsLast(d) => EndsLast(e)
  BY DEF EndsLast
<1>5. Waits(d) => Waits(e)
  BY DEF Waits
<1>6. Full(d) => Full(e)
  BY <1>1 DEF Full, NoGap, AllThere, AllGiven
<1>. QED
  BY <1>2, <1>3, <1>4, <1>5, <1>6 DEF Moves, Sound

(* The client is told of the end.                                            *)
LEMMA EndTold ==
  ASSUME NEW d \in Datas, setup \in Setups, d.state = "END_OF_STREAM", ~d.reset,
         d.ready = << >>, d.unprepared = << >>, NEW e \in Datas, ~e.read,
         e.state = d.state, e.reset = d.reset, e.produced = d.produced,
         e.eos = d.eos, e.got = d.got, e.from = d.from, e.ready = d.ready,
         e.unprepared = d.unprepared, e.held = d.held, e.again = d.again, e.kept = d.kept,
         e.todo = d.todo, e.initializing = d.initializing, e.next = d.next
  PROVE  Moves(d, e)
<1>1. Put(e) = Put(d) /\ ToCome(e) = ToCome(d)
  BY DEF Put, ToCome
<1>2. Sound(d) => Sound(e)
  BY <1>1 DEF Sound, Ordered, Keeps, EndsLast, Waits
<1>3. ASSUME Sound(d), Full(d) PROVE AllGiven(e)
  <2>1. /\ d.next = MaxBuffers + 1 /\ MaxBuffers \in Nat /\ d.from \in Int
        /\ d.held = << >> /\ Elements(d.again) \subseteq {EOS}
    BY <1>3, Numbers DEF Sound, EndsLast, Datas
  <2>2. SUFFICES ASSUME NEW n \in d.from .. MaxBuffers PROVE n \in Elements(d.got)
    BY DEF AllGiven
  <2>3. n \in d.from .. d.next - 1 /\ n # EOS
    BY <2>1, Numbers DEF Datas, EOS
  <2>4. n \in Put(d) \cup ToCome(d)
    BY <1>3, <2>3 DEF Full, AllThere
  <2>. QED
    BY <2>1, <2>3, <2>4, NoElements DEF Put, ToCome
<1>4. Full(d) => NoGap(e) /\ AllThere(e)
  BY <1>1 DEF Full, NoGap, AllThere
<1>. QED
  BY <1>2, <1>3, <1>4 DEF Moves, Full

(* Outputs that wait are dropped: by a Reset() or an error.                  *)
LEMMA Dropped ==
  ASSUME NEW d \in Datas, setup \in Setups, NEW e \in Datas,
         (e.state = d.state /\ e.reset) \/ (e.state = "ERROR" /\ e.reset = d.reset),
         ~e.read, e.produced = d.produced, e.eos = d.eos, e.got = d.got, e.from = d.from,
         e.ended = d.ended, e.ready = << >>, e.unprepared = << >>, e.held = d.held,
         e.again = d.again, e.kept = d.kept \/ (e.kept = << >> /\ e.state = "ERROR"),
         e.todo = d.todo, e.initializing = d.initializing, e.next = d.next
  PROVE  Moves(d, e)
<1>1. ASSUME Ordered(d) PROVE Ordered(e)
  <2>1. d.next <= e.next
    BY Parted, <1>1, Numbers DEF Datas
  <2>2. Less(e, d)
    BY Parted, <1>1, <2>1 DEF Less
  <2>. QED
    BY <1>1, <2>2, StillOrdered
<1>2. Keeps(d) => Keeps(e)
  BY NoElements DEF Keeps, Away
<1>3. EndsLast(d) => EndsLast(e)
  BY DEF EndsLast
<1>4. Waits(d) => Waits(e)
  BY DEF Waits
<1>5. ASSUME Sound(d), Full(d) PROVE Full(e)
  <2>1. NoGap(e)
    BY <1>5, StillNoGap DEF Sound, Full
  <2>2. AllThere(e) /\ AllGiven(e)
    BY <1>5 DEF Full, AllThere, AllGiven
  <2>. QED
    BY <2>1, <2>2 DEF Full
<1>. QED
  BY <1>1, <1>2, <1>3, <1>4, <1>5 DEF Moves, Sound

(* The closure of a Reset() seeks the demuxer: what comes is new.            *)
LEMMA FromHere ==
  ASSUME NEW d \in Datas, NEW e \in Datas, setup \in Setups, ~e.reset, e.got = << >>,
         e.from = d.next, ~e.ended, e.state = d.state, e.read = d.read,
         e.produced = d.produced, e.eos = d.eos, e.ready = d.ready,
         e.unprepared = d.unprepared, e.held = d.held, e.again = d.again, e.kept = d.kept,
         e.todo = d.todo, e.initializing = d.initializing, e.next = d.next
  PROVE  Sound(d) => Sound(e) /\ Full(e)
<1>1. ASSUME Ordered(d) PROVE Ordered(e)
  <2>1. d.next <= e.next
    BY Parted, <1>1, Numbers DEF Datas
  <2>2. Less(e, d)
    BY Parted, <1>1, <2>1 DEF Less
  <2>. QED
    BY <1>1, <2>2, StillOrdered
<1>2. Keeps(d) => Keeps(e)
  BY DEF Keeps
<1>3. EndsLast(d) => EndsLast(e)
  BY DEF EndsLast
<1>4. Waits(d) => Waits(e)
  BY DEF Waits
<1>5. ASSUME Ordered(d) PROVE Full(e)
  <2>1. \A x \in Put(e) : x \in Int /\ x < e.from
    BY <1>1, <1>5, Kinds DEF Ordered, Outputs
  <2>2. e.from \in Int /\ e.next = e.from
    BY Numbers DEF Datas
  <2>3. NoGap(e)
    BY <2>1, <2>2 DEF NoGap
  <2>4. AllThere(e)
    BY <2>2 DEF AllThere
  <2>. QED
    BY <2>3, <2>4 DEF Full, AllGiven
<1>. QED
  BY <1>1, <1>2, <1>3, <1>4, <1>5 DEF Sound

(* The first of a queue goes to the end of the one before it.                *)
LEMMA Shifts ==
  ASSUME NEW p \in Seq(Outputs), NEW q \in Seq(Outputs), q # << >>,
         Rising(p), Rising(q), Before(Elements(p), Elements(q))
  PROVE  LET x == Head(q) IN
         /\ x \in Outputs /\ x # EOS /\ x \in Int
         /\ Append(p, x) \in Seq(Outputs) /\ Tail(q) \in Seq(Outputs)
         /\ Rising(Append(p, x)) /\ Rising(Tail(q))
         /\ Elements(Append(p, x)) = Elements(p) \cup {x}
         /\ Elements(q) = {x} \cup Elements(Tail(q))
         /\ Before({x}, Elements(Tail(q)))
<1>. DEFINE x == Head(q)
<1>1. /\ Tail(q) \in Seq(Outputs) /\ x \in Outputs /\ Elements(q) = {x} \cup Elements(Tail(q))
      /\ Rising(Tail(q)) /\ Before({x}, Elements(Tail(q)))
  BY Tails
<1>2. x # EOS /\ x \in Int
  BY <1>1 DEF Outputs, EOS
<1>3. EOS \notin Elements(p)
  <2>1. \A i \in 1 .. Len(p) : p[i] \in Outputs
    BY ElementOfSeq
  <2>2. EOS \notin Outputs
    BY DEF Outputs, EOS
  <2>. QED
    BY <2>1, <2>2 DEF Elements
<1>4. Before(Elements(p), {x})
  BY <1>1 DEF Before
<1>. HIDE DEF x
<1>5. /\ Append(p, x) \in Seq(Outputs) /\ Elements(Append(p, x)) = Elements(p) \cup {x}
      /\ Rising(Append(p, x))
  BY <1>1, <1>3, <1>4, Appends
<1>. QED
  BY <1>1, <1>2, <1>5 DEF x

(* What does not change when an output is handed on.                         *)
Rest(e, d) ==
  /\ e.state = d.state /\ e.reset = d.reset /\ e.eos = d.eos /\ e.from = d.from
  /\ e.ended = d.ended /\ e.again = d.again /\ e.todo = d.todo
  /\ e.initializing = d.initializing /\ e.next = d.next

(* An output that waits is given, or prepared.                               *)
LEMMA HandedOn ==
  ASSUME NEW d \in Datas, NEW e \in Datas, Rest(e, d),
         e.produced = d.produced, e.held = d.held, e.kept = d.kept,
         \/ /\ d.ready # << >> /\ e.ready = Tail(d.ready) /\ e.got = Append(d.got, Head(d.ready))
            /\ e.unprepared = d.unprepared /\ ~e.read
         \/ /\ d.unprepared # << >> /\ e.unprepared = Tail(d.unprepared)
            /\ \/ /\ e.got = Append(d.got, Head(d.unprepared)) /\ ~e.read
                  /\ d.ready = << >> /\ e.ready = d.ready
               \/ /\ e.ready = Append(d.ready, Head(d.unprepared)) /\ e.got = d.got
                  /\ ~e.read
  PROVE  Moves(d, e)
<1>. SUFFICES ASSUME Sound(d) PROVE Sound(e) /\ (Full(d) => Full(e))
  BY DEF Moves
<1>1. /\ d.got \in Seq(Outputs) /\ d.ready \in Seq(Outputs) /\ d.unprepared \in Seq(Outputs)
  BY DEF Datas
<1>2. /\ Rising(d.got) /\ Rising(d.ready) /\ Rising(d.unprepared)
      /\ Before(Elements(d.got), Elements(d.ready))
      /\ Before(Elements(d.got), Elements(d.unprepared))
      /\ Before(Elements(d.ready), Elements(d.unprepared))
  BY DEF Sound, Ordered
<1>3. /\ Rising(e.got) /\ Rising(e.ready) /\ Rising(e.unprepared) /\ Put(e) = Put(d)
      /\ Before(Elements(e.got), Elements(e.ready))
      /\ Before(Elements(e.got), Elements(e.unprepared))
      /\ Before(Elements(e.ready), Elements(e.unprepared))
      /\ Elements(d.got) \subseteq Elements(e.got)
      /\ e.unprepared = << >> \/ d.unprepared # << >>
  <2>1. CASE d.ready # << >> /\ e.ready = Tail(d.ready) /\ e.got = Append(d.got, Head(d.ready))
             /\ e.unprepared = d.unprepared
    <3>. DEFINE x == Head(d.ready)
    <3>1. /\ Rising(e.got) /\ Rising(e.ready)
          /\ Elements(e.got) = Elements(d.got) \cup {x}
          /\ Elements(d.ready) = {x} \cup Elements(e.ready) /\ Before({x}, Elements(e.ready))
      BY <1>1, <1>2, <2>1, Shifts
    <3>. HIDE DEF x
    <3>. QED
      BY <1>2, <2>1, <3>1 DEF Put, Before
  <2>2. CASE d.unprepared # << >> /\ e.unprepared = Tail(d.unprepared)
             /\ e.got = Append(d.got, Head(d.unprepared)) /\ d.ready = << >> /\ e.ready = d.ready
    <3>. DEFINE x == Head(d.unprepared)
    <3>1. /\ Rising(e.got) /\ Rising(e.unprepared)
          /\ Elements(e.got) = Elements(d.got) \cup {x}
          /\ Elements(d.unprepared) = {x} \cup Elements(e.unprepared)
          /\ Before({x}, Elements(e.unprepared))
      BY <1>1, <1>2, <2>2, Shifts
    <3>. HIDE DEF x
    <3>. QED
      BY <1>2, <2>2, <3>1, NoElements DEF Put, Before
  <2>3. CASE d.unprepared # << >> /\ e.unprepared = Tail(d.unprepared)
             /\ e.ready = Append(d.ready, Head(d.unprepared)) /\ e.got = d.got
    <3>. DEFINE x == Head(d.unprepared)
    <3>1. /\ Rising(e.ready) /\ Rising(e.unprepared)
          /\ Elements(e.ready) = Elements(d.ready) \cup {x}
          /\ Elements(d.unprepared) = {x} \cup Elements(e.unprepared)
          /\ Before({x}, Elements(e.unprepared))
      BY <1>1, <1>2, <2>3, Shifts
    <3>. HIDE DEF x
    <3>. QED
      BY <1>2, <2>3, <3>1 DEF Put, Before
  <2>. QED
    BY <2>1, <2>2, <2>3
<1>4. ToCome(e) = ToCome(d)
  BY DEF Rest, ToCome
<1>5. Ordered(e)
  BY <1>3 DEF Sound, Ordered, Rest
<1>6. Keeps(e) /\ EndsLast(e)
  BY DEF Sound, Keeps, EndsLast, Rest
<1>7. Waits(e)
  BY <1>3 DEF Sound, Waits
<1>8. Full(d) => Full(e)
  BY <1>3, <1>4 DEF Full, NoGap, AllThere, AllGiven, Rest
<1>. QED
  BY <1>5, <1>6, <1>7, <1>8 DEF Sound

(* The first output that a decoder holds is put out.                         *)
LEMMA PutOut ==
  ASSUME NEW d \in Datas, NEW e \in Datas, setup \in Setups, Rest(e, d),
         ~d.reset, d.state # "ERROR", d.held # << >>, e.held = Tail(d.held),
         e.produced, e.kept = << >>,
         \/ /\ setup.prepares /\ e.unprepared = Append(d.unprepared, Head(d.held))
            /\ e.got = d.got /\ e.ready = d.ready /\ e.read = d.read
         \/ /\ ~setup.prepares /\ d.read /\ ~e.read /\ e.got = Append(d.got, Head(d.held))
            /\ e.ready = d.ready /\ e.unprepared = d.unprepared
         \/ /\ ~setup.prepares /\ ~e.read /\ e.ready = Append(d.ready, Head(d.held))
            /\ e.got = d.got /\ e.unprepared = d.unprepared
  PROVE  Moves(d, e)
<1>. SUFFICES ASSUME Sound(d) PROVE Sound(e) /\ (Full(d) => Full(e))
  BY DEF Moves
<1>. DEFINE x == Head(d.held)
<1>1. /\ d.got \in Seq(Outputs) /\ d.ready \in Seq(Outputs) /\ d.unprepared \in Seq(Outputs)
      /\ d.held \in Seq(Outputs)
  BY DEF Datas
<1>2. /\ Rising(d.got) /\ Rising(d.ready) /\ Rising(d.unprepared) /\ Rising(d.held)
      /\ Before(Elements(d.got), Elements(d.held))
      /\ Before(Elements(d.ready), Elements(d.held))
      /\ Before(Elements(d.unprepared), Elements(d.held))
  BY DEF Sound, Ordered, Put, Before
<1>3. /\ \/ d.ready = << >> /\ d.unprepared = << >> /\ e.got = Append(d.got, x)
            /\ e.ready = << >> /\ e.unprepared = << >>
         \/ d.unprepared = << >> /\ e.ready = Append(d.ready, x) /\ e.got = d.got
            /\ e.unprepared = << >>
         \/ e.unprepared = Append(d.unprepared, x) /\ e.got = d.got /\ e.ready = d.ready
      /\ Waits(e)
  BY DEF Sound, Waits
<1>4. /\ x \in Int /\ x # EOS /\ Rising(e.held)
      /\ Elements(d.held) = {x} \cup Elements(e.held) /\ Before({x}, Elements(e.held))
      /\ \A q \in {d.got, d.ready, d.unprepared} :
           Rising(Append(q, x)) /\ Elements(Append(q, x)) = Elements(q) \cup {x}
  <2>1. ASSUME NEW q \in {d.got, d.ready, d.unprepared}
        PROVE  /\ x \in Int /\ x # EOS /\ Rising(Tail(d.held))
               /\ Elements(d.held) = {x} \cup Elements(Tail(d.held))
               /\ Before({x}, Elements(Tail(d.held)))
               /\ Rising(Append(q, x)) /\ Elements(Append(q, x)) = Elements(q) \cup {x}
    <3>1. q \in Seq(Outputs) /\ Rising(q) /\ Before(Elements(q), Elements(d.held))
      BY <1>1, <1>2
    <3>. QED
      BY <1>1, <1>2, <3>1, Shifts
  <2>. QED
    BY <2>1
<1>. HIDE DEF x
<1>5. /\ Rising(e.got) /\ Rising(e.ready) /\ Rising(e.unprepared)
      /\ Put(e) = Put(d) \cup {x} /\ Elements(d.got) \subseteq Elements(e.got)
      /\ Before(Elements(e.got), Elements(e.ready))
      /\ Before(Elements(e.got), Elements(e.unprepared))
      /\ Before(Elements(e.ready), Elements(e.unprepared))
  <2>1. /\ Before(Elements(d.got), Elements(d.ready))
        /\ Before(Elements(d.got), Elements(d.unprepared))
        /\ Before(Elements(d.ready), Elements(d.unprepared))
        /\ Before(Elements(d.got), {x}) /\ Before(Elements(d.ready), {x})
    BY <1>2, <1>4 DEF Sound, Ordered, Before
  <2>. QED
    BY <1>2, <1>3, <1>4, <2>1, NoElements DEF Put, Before
<1>6. x \in Elements(d.held) /\ x < d.next /\ Before({x}, Elements(d.again))
  BY <1>4 DEF Sound, Ordered, Before
<1>7. Ordered(e)
  <2>1. Before(Put(e), Elements(e.held) \cup Elements(e.again) \cup Elements(e.kept))
    <3>1. Before(Put(d), Elements(e.held) \cup Elements(e.again))
      BY <1>4 DEF Sound, Ordered, Before, Rest
    <3>2. Before({x}, Elements(e.held) \cup Elements(e.again))
      BY <1>4, <1>6 DEF Before, Rest
    <3>. QED
      BY <1>5, <3>1, <3>2, NoElements DEF Before
  <2>2. Before(Elements(e.held), Elements(e.again))
    BY <1>4 DEF Sound, Ordered, Before, Rest
  <2>3. \A y \in Put(e) \cup Elements(e.held) \cup Elements(e.again) \cup Elements(e.kept) :
          y < e.next
    BY <1>4, <1>5, <1>6, NoElements DEF Sound, Ordered, Rest
  <2>. QED
    BY <1>4, <1>5, <2>1, <2>2, <2>3, NoElements DEF Sound, Ordered, Rest
<1>8. d.state \notin Away \cup {"REINITIALIZING_DECODER", "END_OF_STREAM"}
  BY DEF Sound, Keeps, EndsLast
<1>9. Keeps(e) /\ EndsLast(e)
  BY <1>8 DEF Sound, Keeps, EndsLast, Rest, Away
<1>10. ASSUME Full(d) PROVE Full(e)
  <2>1. ToCome(d) \subseteq {x} \cup ToCome(e) /\ ToCome(d) = Elements(d.held) \cup Elements(d.again)
    BY <1>4, <1>8 DEF ToCome, Rest
  <2>2. \A n \in d.from .. d.next - 1 : n \in Put(d) \cup ToCome(d)
    BY <1>8, <1>10 DEF Full, AllThere, Away
  <2>3. NoGap(e)
    <3>1. \A y \in Put(d) : \A n \in e.from .. y : n \in Put(e)
      BY <1>5, <1>10 DEF Full, NoGap, Rest
    <3>2. ASSUME NEW n \in d.from .. x PROVE n \in Put(e)
      <4>1. d.from \in 1 .. MaxBuffers + 1 /\ d.next \in 1 .. MaxBuffers + 1 /\ MaxBuffers \in Nat
        BY Numbers DEF Datas
      <4>2. n \in d.from .. d.next - 1 /\ n <= x /\ n # EOS /\ n \in Int
        BY <1>4, <1>6, <3>2, <4>1 DEF EOS
      <4>3. n \in Elements(e.held) \cup Elements(d.again) => x < n
        BY <1>4, <1>6, <4>2 DEF Before
      <4>. QED
        BY <1>4, <1>5, <2>1, <2>2, <4>2, <4>3
    <3>. QED
      BY <1>5, <3>1, <3>2 DEF NoGap, Rest
  <2>4. AllThere(e)
    BY <1>5, <2>1, <2>2 DEF AllThere, Rest
  <2>5. AllGiven(e)
    BY <1>5, <1>10 DEF Full, AllGiven, Rest
  <2>. QED
    BY <2>3, <2>4, <2>5 DEF Full
<1>. QED
  BY <1>3, <1>7, <1>9, <1>10 DEF Sound

Request(buffer) == [buffer |-> buffer, end_of_stream |-> buffer = EOS]

(* What does not change when a decoder is given a buffer.                    *)
Still(e, d) ==
  /\ e.reset = d.reset /\ e.read = d.read /\ e.produced = d.produced
  /\ e.got = d.got /\ e.from = d.from /\ e.ended = d.ended /\ e.ready = d.ready
  /\ e.unprepared = d.unprepared /\ e.initializing = d.initializing

(* The first buffer that is to be decoded again is.                          *)
LEMMA DecodedAgain ==
  ASSUME NEW d \in Datas, NEW e \in Datas, setup \in Setups, Still(e, d),
         d.state = "NORMAL", e.state = d.state, d.todo = << >>, d.again # << >>,
         e.again = Tail(d.again), e.kept = d.kept, e.next = d.next,
         e.todo = << Request(Head(d.again)) >>, e.eos = (Head(d.again) = EOS),
         e.held = IF Head(d.again) = EOS THEN d.held ELSE Append(d.held, Head(d.again))
  PROVE  Moves(d, e)
<1>. SUFFICES ASSUME Sound(d) PROVE Sound(e) /\ (Full(d) => Full(e))
  BY DEF Moves
<1>. DEFINE x == Head(d.again)
<1>1. /\ x \in Buffers /\ Elements(d.again) = {x} \cup Elements(e.again)
      /\ Rising(e.again) /\ Before({x}, Elements(e.again))
      /\ x = EOS => Elements(e.again) \subseteq {EOS}
  <2>1. d.again \in Seq(Buffers) /\ Rising(d.again)
    BY DEF Sound, Ordered, Datas
  <2>. DEFINE r == Tail(d.again)
  <2>2. /\ x \in Buffers /\ Elements(d.again) = {x} \cup Elements(r)
        /\ Rising(r) /\ Before({x}, Elements(r))
        /\ x = EOS => Elements(r) \subseteq {EOS}
    BY <2>1, Tails
  <2>3. e.again = r
    OBVIOUS
  <2>. QED
    BY <2>2, <2>3
<1>2. /\ e.todo # << >> /\ e.todo[1].end_of_stream = (x = EOS) /\ e.todo[1].buffer = x
      /\ e.eos = (x = EOS) /\ e.held = IF x = EOS THEN d.held ELSE Append(d.held, x)
  BY DEF Request
<1>3. /\ d.held \in Seq(Outputs) /\ d.next \in 1 .. MaxBuffers + 1 /\ MaxBuffers \in Nat
      /\ EOS \notin Elements(d.held)
  BY Kinds, Numbers DEF Datas
<1>. HIDE DEF x
<1>4. /\ Rising(e.held) /\ Elements(d.held) \subseteq Elements(e.held)
      /\ Elements(e.held) \subseteq Elements(d.held) \cup {x}
      /\ x # EOS => x \in Elements(e.held)
  <2>1. CASE x = EOS
    BY <1>2, <2>1 DEF Sound, Ordered
  <2>2. CASE x # EOS
    <3>1. x \in Outputs /\ Before(Elements(d.held), {x})
      BY <1>1, <2>2 DEF Buffers, Sound, Ordered, Before
    <3>2. /\ Elements(Append(d.held, x)) = Elements(d.held) \cup {x}
          /\ Rising(Append(d.held, x))
      BY <1>3, <3>1, Appends DEF Sound, Ordered
    <3>. QED
      BY <1>2, <2>2, <3>2
  <2>. QED
    BY <2>1, <2>2
<1>5. Put(e) = Put(d) /\ EOS \notin Put(d)
  BY Kinds DEF Put, Still
<1>6. Ordered(e)
  <2>1. Before(Put(e), Elements(e.held) \cup Elements(e.again) \cup Elements(e.kept))
    BY <1>1, <1>4, <1>5 DEF Sound, Ordered, Before
  <2>2. Before(Elements(e.held), Elements(e.again))
    <3>1. Before(Elements(d.held), Elements(e.again))
      BY <1>1 DEF Sound, Ordered, Before
    <3>. QED
      BY <1>1, <1>4, <3>1 DEF Before
  <2>3. \A y \in Put(e) \cup Elements(e.held) \cup Elements(e.again) \cup Elements(e.kept) :
          y < e.next
    BY <1>1, <1>4, <1>5 DEF Sound, Ordered
  <2>. QED
    BY <1>1, <1>4, <2>1, <2>2, <2>3 DEF Sound, Ordered, Still
<1>7. Keeps(e)
  BY <1>1, <1>4 DEF Sound, Keeps, Still, Away
<1>8. EndsLast(e)
  BY <1>1, <1>2 DEF Sound, Ordered, EndsLast
<1>9. Waits(e)
  BY DEF Sound, Waits, Still
<1>10. ASSUME Full(d) PROVE Full(e)
  <2>1. \A n \in ToCome(d) : n # EOS => n \in ToCome(e)
    BY <1>1, <1>4 DEF ToCome
  <2>2. \A n \in d.from .. d.next - 1 : n # EOS
    BY <1>3, SMTT(30) DEF Datas, EOS
  <2>. QED
    BY <1>5, <1>10, <2>1, <2>2 DEF Full, NoGap, AllThere, AllGiven, Still
<1>. QED
  BY <1>6, <1>7, <1>8, <1>9, <1>10 DEF Sound

(* The next buffer of the demuxer, or the end of the stream, is decoded.     *)
LEMMA DecodedNext ==
  ASSUME NEW d \in Datas, NEW e \in Datas, setup \in Setups, Still(e, d),
         d.state = "NORMAL", ~d.initializing, e.state = d.state, d.todo = << >>, d.again = << >>,
         e.again = d.again, NEW x \in Buffers,
         \/ x = d.next /\ x # EOS /\ e.next = d.next + 1
         \/ x = EOS /\ d.next = MaxBuffers + 1 /\ e.next = d.next,
         e.kept = IF d.produced THEN d.kept ELSE Append(d.kept, x),
         e.todo = << Request(x) >>, e.eos = (x = EOS),
         e.held = IF x = EOS THEN d.held ELSE Append(d.held, x)
  PROVE  Moves(d, e)
<1>. SUFFICES ASSUME Sound(d) PROVE Sound(e) /\ (Full(d) => Full(e))
  BY DEF Moves
<1>1. /\ e.todo # << >> /\ e.todo[1].end_of_stream = (x = EOS) /\ e.todo[1].buffer = x
  BY DEF Request
<1>2. /\ d.held \in Seq(Outputs) /\ d.kept \in Seq(Buffers)
      /\ d.next \in 1 .. MaxBuffers + 1 /\ MaxBuffers \in Nat /\ EOS \notin Elements(d.held)
      /\ e.next \in 1 .. MaxBuffers + 1 /\ d.next <= e.next
      /\ x # EOS => d.next < MaxBuffers + 1
      /\ \A y \in Put(d) \cup Elements(d.held) \cup Elements(d.kept) : y \in Int
  <2>1. d.next \in 1 .. MaxBuffers + 1 /\ e.next \in 1 .. MaxBuffers + 1 /\ MaxBuffers \in Nat
    BY Numbers DEF Datas
  <2>2. d.next <= e.next /\ (x # EOS => d.next < MaxBuffers + 1)
    BY <2>1
  <2>3. \A y \in Put(d) \cup Elements(d.held) \cup Elements(d.kept) : y \in Int
    BY <2>1, Kinds DEF Outputs, Buffers, EOS
  <2>4. /\ d.held \in Seq(Outputs) /\ d.kept \in Seq(Buffers) /\ EOS \notin Elements(d.held)
    BY Kinds DEF Datas
  <2>. QED
    BY <2>1, <2>2, <2>3, <2>4
<1>3. /\ Rising(e.held) /\ Elements(e.held) \subseteq Elements(d.held) \cup {x}
      /\ Elements(d.held) \subseteq Elements(e.held)
      /\ x # EOS => x \in Elements(e.held)
      /\ x = EOS => Elements(e.held) = Elements(d.held)
  <2>1. CASE x = EOS
    BY <2>1 DEF Sound, Ordered
  <2>2. CASE x # EOS
    <3>1. x \in Outputs /\ Before(Elements(d.held), {x})
      BY <2>2 DEF Buffers, Sound, Ordered, Before
    <3>2. /\ Elements(Append(d.held, x)) = Elements(d.held) \cup {x}
          /\ Rising(Append(d.held, x))
      BY <1>2, <3>1, Appends DEF Sound, Ordered
    <3>. QED
      BY <2>2, <3>2
  <2>. QED
    BY <2>1, <2>2
<1>4. /\ Rising(e.kept) /\ Elements(e.kept) \subseteq Elements(d.kept) \cup {x}
      /\ ~d.produced => x \in Elements(e.kept) /\ Elements(d.kept) \subseteq Elements(e.kept)
  <2>1. CASE d.produced
    BY <2>1 DEF Sound, Ordered
  <2>2. CASE ~d.produced
    <3>1. Before(Elements(d.kept), {x}) /\ (x # EOS => EOS \notin Elements(d.kept))
      BY <1>2 DEF Sound, Ordered, Before
    <3>. QED
      BY <1>2, <2>2, <3>1, Appends DEF Sound, Ordered
  <2>. QED
    BY <2>1, <2>2
<1>5. Put(e) = Put(d)
  BY DEF Put, Still
<1>6. Ordered(e)
  <2>1. Before(Put(e), Elements(e.held) \cup Elements(e.again) \cup Elements(e.kept))
    <3>1. Before(Put(d), {x})
      BY DEF Sound, Ordered, Before
    <3>. QED
      BY <1>3, <1>4, <1>5, <3>1 DEF Sound, Ordered, Before
  <2>2. Before(Elements(e.held), Elements(e.again))
    BY NoElements DEF Before
  <2>3. x < e.next
    BY <1>2 DEF EOS
  <2>4. \A y \in Put(e) \cup Elements(e.held) \cup Elements(e.again) \cup Elements(e.kept) :
          y < e.next
    <3>1. \A y \in Put(d) \cup Elements(d.held) \cup Elements(d.kept) : y < e.next
      BY <1>2 DEF Sound, Ordered
    <3>. QED
      BY <1>3, <1>4, <1>5, <2>3, <3>1, NoElements
  <2>5. EOS \in Elements(e.again) \cup Elements(e.kept) => e.next = MaxBuffers + 1
    <3>1. EOS \in Elements(d.kept) => e.next = MaxBuffers + 1
      BY <1>2 DEF Sound, Ordered
    <3>. QED
      BY <1>4, <3>1, NoElements
  <2>. QED
    BY <1>3, <1>4, <2>1, <2>2, <2>4, <2>5, NoElements DEF Sound, Ordered, Still
<1>7. Keeps(e)
  BY <1>3, <1>4, NoElements DEF Sound, Keeps, Still, Away
<1>8. EndsLast(e)
  BY <1>1, NoElements DEF EndsLast
<1>9. Waits(e)
  BY DEF Sound, Waits, Still
<1>10. ASSUME Full(d) PROVE Full(e)
  <2>1. ToCome(d) \subseteq ToCome(e) /\ (x # EOS => x \in ToCome(e))
    BY <1>3 DEF ToCome
  <2>2. \A n \in d.from .. e.next - 1 : n \in d.from .. d.next - 1 \/ (n = x /\ x # EOS)
    <3>1. d.from \in Int /\ d.next \in Int
      BY <1>2 DEF Datas
    <3>2. CASE x = d.next /\ x # EOS /\ e.next = d.next + 1
      BY <3>1, <3>2
    <3>3. CASE e.next = d.next
      BY <3>1, <3>3
    <3>. QED
      BY <3>2, <3>3
  <2>. QED
    BY <1>5, <1>10, <2>1, <2>2 DEF Full, NoGap, AllThere, AllGiven, Still
<1>. QED
  BY <1>6, <1>7, <1>8, <1>9, <1>10 DEF Sound

(* The decoder has answered; then there is no request.                       *)
Answered1(e, d) ==
  /\ e.todo = << >> /\ ~e.eos /\ e.produced = d.produced /\ e.again = d.again
  /\ e.kept = d.kept /\ e.next = d.next /\ e.got = d.got /\ e.from = d.from
  /\ e.ended = d.ended /\ e.reset = d.reset /\ Part(e.held, d.held)

SameOut(e, d) ==
  /\ e.read = d.read /\ e.ready = d.ready /\ e.unprepared = d.unprepared

(* An answer leaves the queues in order.                                    *)
LEMMA StillOrderedAnswered ==
  ASSUME NEW d \in Datas, NEW e \in Datas, setup \in Setups, Ordered(d), Answered1(e, d),
         \/ e.ready = d.ready /\ e.unprepared = d.unprepared
         \/ e.ready = << >> /\ e.unprepared = << >>
  PROVE  Ordered(e) /\ (NoGap(d) => NoGap(e)) /\ (AllGiven(d) => AllGiven(e))
<1>1. d.next <= e.next
  BY Parted, Numbers DEF Datas, Answered1
<1>2. Less(e, d)
  BY Parted, <1>1 DEF Less, Answered1
<1>3. Ordered(e)
  BY <1>2, StillOrdered
<1>4. NoGap(d) => NoGap(e)
  BY StillNoGap DEF Answered1
<1>5. AllGiven(d) => AllGiven(e)
  BY DEF AllGiven, Answered1
<1>. QED
  BY <1>3, <1>4, <1>5

(* A request is done, and nothing else.                                     *)
LEMMA RequestDone ==
  ASSUME NEW d \in Datas, NEW e \in Datas, setup \in Setups, Answered1(e, d), SameOut(e, d),
         e.state = d.state, e.initializing = d.initializing, e.held = d.held
  PROVE  Moves(d, e)
<1>. SUFFICES ASSUME Sound(d) PROVE Sound(e) /\ (Full(d) => Full(e))
  BY DEF Moves
<1>1. Ordered(e) /\ (NoGap(d) => NoGap(e)) /\ (AllGiven(d) => AllGiven(e))
  BY StillOrderedAnswered DEF SameOut, Sound
<1>2. Keeps(e) /\ EndsLast(e) /\ Waits(e)
  BY DEF Sound, Keeps, EndsLast, Waits, Answered1, SameOut
<1>3. AllThere(d) => AllThere(e)
  BY DEF AllThere, Answered1, SameOut, Put, ToCome
<1>. QED
  BY <1>1, <1>2, <1>3 DEF Sound, Full

(* The end of the stream has been decoded: all that was held is out.         *)
LEMMA AtEnd ==
  ASSUME NEW d \in Datas, NEW e \in Datas, setup \in Setups, Answered1(e, d), SameOut(e, d),
         d.state = "NORMAL", e.state = "END_OF_STREAM", e.initializing = d.initializing,
         d.todo # << >>, d.todo[1].buffer = EOS, d.held = << >>, e.held = << >>
  PROVE  Moves(d, e)
<1>. SUFFICES ASSUME Sound(d) PROVE Sound(e) /\ (Full(d) => Full(e))
  BY DEF Moves
<1>1. Ordered(e) /\ (NoGap(d) => NoGap(e)) /\ (AllGiven(d) => AllGiven(e))
  BY StillOrderedAnswered DEF SameOut, Sound
<1>2. Keeps(e) /\ EndsLast(e) /\ Waits(e)
  BY DEF Sound, Keeps, EndsLast, Waits, Answered1, SameOut, Away
<1>3. AllThere(d) => AllThere(e)
  BY DEF AllThere, Answered1, SameOut, Put, ToCome
<1>. QED
  BY <1>1, <1>2, <1>3 DEF Sound, Full

(* A request fails: during a Reset() or after an error; the second, when the *)
(* decoder has put something out; the last, when it is replaced.  Then what  *)
(* it was given has been kept, but for what came before a config change.     *)
LEMMA RequestFails ==
  ASSUME NEW d \in Datas, NEW e \in Datas, setup \in Setups, Answered1(e, d),
         \/ /\ e.state = d.state /\ e.initializing = d.initializing /\ SameOut(e, d)
            /\ d.reset \/ d.state = "ERROR"
         \/ /\ e.state = "ERROR" /\ ~e.read /\ e.ready = << >> /\ e.unprepared = << >>
            /\ ~e.initializing
         \/ /\ e.state = "REINITIALIZING_DECODER" /\ ~d.produced /\ e.held = << >>
            /\ SameOut(e, d) /\ ~e.initializing /\ d.state \in {"NORMAL", "FLUSHING_DECODER"}
  PROVE  Sound(d) => Sound(e) /\ (d.state # "FLUSHING_DECODER" /\ Full(d) => Full(e))
<1>. SUFFICES ASSUME Sound(d)
              PROVE  Sound(e) /\ (d.state # "FLUSHING_DECODER" /\ Full(d) => Full(e))
  OBVIOUS
<1>1. Ordered(e) /\ (NoGap(d) => NoGap(e)) /\ (AllGiven(d) => AllGiven(e))
  BY StillOrderedAnswered DEF SameOut, Sound
<1>2. Waits(e)
  BY DEF Sound, Waits, SameOut
<1>3. d.held = << >> => e.held = << >>
  <2>1. e.held \in Seq(Outputs) /\ (d.held = << >> => Elements(e.held) = {})
    BY NoElements DEF Answered1, Part, Datas
  <2>2. ASSUME e.held # << >> PROVE Head(e.held) \in Elements(e.held)
    <3>1. Elements(e.held) = {Head(e.held)} \cup Elements(Tail(e.held))
      BY <2>1, <2>2, Tails
    <3>. QED
      BY <3>1
  <2>. QED
    BY <2>1, <2>2
<1>4. EndsLast(e)
  BY <1>3, NoElements DEF Sound, EndsLast, Answered1, Part
<1>5. Keeps(e)
  BY <1>3 DEF Sound, Keeps, Answered1, Part, Away
<1>6. ASSUME d.state # "FLUSHING_DECODER", Full(d) PROVE AllThere(e)
  <2>1. CASE d.reset \/ e.state = "ERROR"
    BY <2>1 DEF AllThere, Answered1
  <2>2. CASE /\ e.state = "REINITIALIZING_DECODER" /\ ~d.produced /\ SameOut(e, d)
             /\ d.state = "NORMAL"
    <3>1. ToCome(d) \subseteq ToCome(e) /\ Put(d) = Put(e)
      BY <2>2 DEF ToCome, Put, Sound, Keeps, Answered1, SameOut
    <3>. QED
      BY <1>6, <2>2, <3>1 DEF Full, AllThere, Answered1
  <2>. QED
    BY <1>6, <2>1, <2>2
<1>. QED
  BY <1>1, <1>2, <1>4, <1>5, <1>6 DEF Sound, Full

(* The outputs are where they were, and the decoder has no more than before. *)
LEMMA NoMore ==
  ASSUME NEW d \in Datas, NEW e \in Datas, setup \in Setups, Ordered(d),
         e.got = d.got, e.from = d.from, e.ended = d.ended,
         \/ e.ready = d.ready /\ e.unprepared = d.unprepared
         \/ e.ready = << >> /\ e.unprepared = << >>,
         e.held \in {d.held, << >>}, e.again \in {d.again, << >>}, e.kept \in {d.kept, << >>},
         d.next <= e.next
  PROVE  Ordered(e) /\ (NoGap(d) => NoGap(e)) /\ (AllGiven(d) => AllGiven(e))
<1>1. Less(e, d)
  BY Parted DEF Less
<1>2. Ordered(e)
  BY <1>1, StillOrdered
<1>3. NoGap(d) => NoGap(e)
  BY StillNoGap
<1>4. AllGiven(d) => AllGiven(e)
  BY DEF AllGiven
<1>. QED
  BY <1>2, <1>3, <1>4

LEMMA AtMost == \A n \in Int : n <= n
  OBVIOUS

(* The config has changed: what was kept is forgotten.                       *)
LEMMA Flushed ==
  ASSUME NEW d \in Datas, NEW e \in Datas, setup \in Setups, Still(e, d),
         d.state = "NORMAL", e.state = "FLUSHING_DECODER", d.todo = << >>, e.todo = d.todo,
         e.eos = d.eos, d.again = << >>, e.again = d.again, e.kept = << >>, e.held = d.held,
         e.next = d.next
  PROVE  Moves(d, e)
<1>. SUFFICES ASSUME Sound(d) PROVE Sound(e) /\ (Full(d) => Full(e))
  BY DEF Moves
<1>1. Ordered(e) /\ (NoGap(d) => NoGap(e)) /\ (AllGiven(d) => AllGiven(e))
  <2>1. d.next <= e.next
    BY AtMost, Numbers DEF Datas
  <2>. QED
    BY <2>1, NoMore DEF Sound, Still
<1>2. Keeps(e) /\ EndsLast(e) /\ Waits(e)
  BY DEF Sound, Keeps, EndsLast, Waits, Still, Away
<1>3. AllThere(d) => AllThere(e)
  BY DEF AllThere, Still, Put, ToCome
<1>. QED
  BY <1>1, <1>2, <1>3 DEF Sound, Full

(* ... and the decoder is asked for what it holds.                           *)
LEMMA FlushAsked ==
  ASSUME NEW d \in Datas, NEW e \in Datas, Still(e, d),
         d.state = "FLUSHING_DECODER", e.state = d.state, e.again = d.again, e.kept = d.kept,
         e.held = d.held, e.next = d.next, e.todo = << Request(EOS) >>
  PROVE  Moves(d, e)
<1>1. e.todo # << >> /\ e.todo[1].end_of_stream /\ e.todo[1].buffer = EOS
  <2>1. Request(EOS).end_of_stream /\ Request(EOS).buffer = EOS
    BY DEF Request
  <2>. QED
    BY <2>1
<1>2. Put(e) = Put(d) /\ ToCome(e) = ToCome(d)
  BY DEF Put, ToCome, Still
<1>3. Sound(d) => Sound(e)
  BY <1>1, <1>2 DEF Sound, Ordered, Keeps, EndsLast, Waits, Still
<1>4. Full(d) => Full(e)
  BY <1>2 DEF Full, NoGap, AllThere, AllGiven, Still
<1>. QED
  BY <1>3, <1>4 DEF Moves

(* A buffer that comes during a Reset() is dropped.                          *)
LEMMA Missed ==
  ASSUME NEW d \in Datas, NEW e \in Datas, setup \in Setups, Still(e, d), d.reset,
         d.state = "NORMAL", e.state = d.state, d.todo = << >>, e.todo = d.todo, e.eos = d.eos,
         e.again = d.again, e.kept = d.kept, e.held = d.held,
         d.next <= e.next
  PROVE  Moves(d, e)
<1>. SUFFICES ASSUME Sound(d) PROVE Sound(e) /\ (Full(d) => Full(e))
  BY DEF Moves
<1>1. Ordered(e) /\ (NoGap(d) => NoGap(e)) /\ (AllGiven(d) => AllGiven(e))
  BY NoMore DEF Sound, Still
<1>2. Keeps(e) /\ EndsLast(e) /\ Waits(e)
  BY DEF Sound, Keeps, EndsLast, Waits, Still, Away
<1>3. AllThere(e)
  BY DEF AllThere, Still
<1>. QED
  BY <1>1, <1>2, <1>3 DEF Sound, Full

(* The decoder has been flushed, or reset, for a config change.              *)
LEMMA InitializedAgain ==
  ASSUME NEW d \in Datas, NEW e \in Datas, setup \in Setups,
         e.reset = d.reset, e.read = d.read, e.produced = d.produced, e.got = d.got,
         e.from = d.from, e.ended = d.ended, e.ready = d.ready, e.unprepared = d.unprepared,
         d.state = "FLUSHING_DECODER", e.state = "REINITIALIZING_DECODER",
         e.todo = << >>, ~e.eos, e.again = << >>, e.kept = << >>,
         e.held = << >>, d.reset \/ d.held = << >>, e.next = d.next
  PROVE  Moves(d, e)
<1>. SUFFICES ASSUME Sound(d) PROVE Sound(e) /\ (Full(d) => Full(e))
  BY DEF Moves
<1>1. Ordered(e) /\ (NoGap(d) => NoGap(e)) /\ (AllGiven(d) => AllGiven(e))
  <2>1. d.next <= e.next
    BY AtMost, Numbers DEF Datas
  <2>. QED
    BY <2>1, NoMore DEF Sound
<1>2. Keeps(e) /\ EndsLast(e) /\ Waits(e)
  BY DEF Sound, Keeps, EndsLast, Waits, Away
<1>3. AllThere(d) => AllThere(e)
  BY NoElements DEF AllThere, Put, ToCome, Sound, Keeps
<1>. QED
  BY <1>1, <1>2, <1>3 DEF Sound, Full

(* The decoder has been reset for the client.                                *)
LEMMA Emptied ==
  ASSUME NEW d \in Datas, NEW e \in Datas, setup \in Setups, d.reset,
         e.reset = d.reset, e.read = d.read, e.produced = d.produced, e.got = d.got,
         e.from = d.from, e.ended = d.ended, e.ready = d.ready, e.unprepared = d.unprepared,
         e.state = "NORMAL", e.todo = << >>, ~e.eos, e.again = << >>, e.kept = << >>,
         e.held = << >>, ~e.initializing, e.next = d.next
  PROVE  Moves(d, e)
<1>. SUFFICES ASSUME Sound(d) PROVE Sound(e) /\ (Full(d) => Full(e))
  BY DEF Moves
<1>1. Ordered(e) /\ (NoGap(d) => NoGap(e)) /\ (AllGiven(d) => AllGiven(e))
  <2>1. d.next <= e.next
    BY AtMost, Numbers DEF Datas
  <2>. QED
    BY <2>1, NoMore DEF Sound
<1>2. Keeps(e) /\ EndsLast(e) /\ Waits(e)
  BY NoElements DEF Sound, Keeps, EndsLast, Waits, Away
<1>3. AllThere(e)
  BY DEF AllThere
<1>. QED
  BY <1>1, <1>2, <1>3 DEF Sound, Full

(* A decoder has been found, or initialized again, or not: the buffers that  *)
(* were kept are to be decoded again.                                        *)
LEMMA Refilled ==
  ASSUME NEW d \in Datas, NEW e \in Datas, setup \in Setups,
         e.reset = d.reset, e.read = d.read, e.produced = d.produced, e.got = d.got,
         e.from = d.from, e.ended = d.ended, e.ready = d.ready, e.unprepared = d.unprepared,
         d.state \in Choosing, e.state = d.state, d.todo = << >>, e.todo = << >>,
         e.eos = d.eos, e.again \in {d.again, d.kept}, e.kept = d.kept, e.held = << >>,
         ~e.initializing, e.next = d.next
  PROVE  Moves(d, e)
<1>. SUFFICES ASSUME Sound(d) PROVE Sound(e) /\ (Full(d) => Full(e))
  BY DEF Moves
<1>1. d.held = << >>
  BY DEF Sound, Keeps, Choosing, Away
<1>2. Put(e) = Put(d)
  BY DEF Put
<1>3. Ordered(e)
  <2>1. Before(Elements(e.held), Elements(e.again))
    BY NoElements DEF Before
  <2>2. Rising(e.again) /\ Elements(e.again) \subseteq Elements(d.again) \cup Elements(d.kept)
    BY DEF Sound, Ordered
  <2>3. Before(Put(e), Elements(e.held) \cup Elements(e.again) \cup Elements(e.kept))
    BY <1>1, <1>2, <2>2 DEF Sound, Ordered, Before
  <2>. QED
    BY <1>1, <1>2, <2>1, <2>2, <2>3 DEF Sound, Ordered
<1>4. Keeps(e) /\ EndsLast(e) /\ Waits(e)
  BY NoElements DEF Sound, Keeps, EndsLast, Waits, Choosing
<1>5. Full(d) => Full(e)
  <2>1. d.state = "INITIALIZING" => \A n \in d.from .. d.next - 1 : FALSE
    BY Numbers DEF Sound, Keeps, Datas
  <2>2. d.state # "INITIALIZING" => ToCome(e) = ToCome(d)
    BY DEF ToCome, Choosing
  <2>3. AllThere(d) => AllThere(e)
    BY <1>2, <2>1, <2>2 DEF AllThere
  <2>. QED
    BY <1>2, <2>3 DEF Full, NoGap, AllGiven
<1>. QED
  BY <1>3, <1>4, <1>5 DEF Sound

(* The stream goes on with it, or not.                                       *)
LEMMA Completed ==
  ASSUME NEW d \in Datas, NEW e \in Datas, setup \in Setups,
         e.reset = d.reset, e.read = d.read, e.got = d.got,
         e.from = d.from, e.ended = d.ended, e.ready = d.ready, e.unprepared = d.unprepared,
         d.state \in Choosing, d.todo = << >>, e.todo = << >>, ~e.initializing,
         e.eos = d.eos, e.again = d.again, e.kept = d.kept, e.held = d.held, e.next = d.next,
         \/ /\ e.state = "NORMAL" /\ e.produced \in {d.produced, FALSE}
            /\ Elements(d.again) = Elements(d.kept)
         \/ e.state = "ERROR" /\ e.produced = d.produced
         \/ d.state = "INITIALIZING" /\ e.state = "UNINITIALIZED" /\ e.produced = d.produced
  PROVE  Moves(d, e)
<1>. SUFFICES ASSUME Sound(d) PROVE Sound(e) /\ (Full(d) => Full(e))
  BY DEF Moves
<1>1. d.held = << >>
  BY DEF Sound, Keeps, Choosing, Away
<1>2. Put(e) = Put(d)
  BY DEF Put
<1>3. Ordered(e)
  BY <1>2 DEF Sound, Ordered
<1>4. Keeps(e)
  BY <1>1, NoElements DEF Sound, Keeps, Choosing, Away
<1>5. EndsLast(e) /\ Waits(e)
  BY DEF Sound, EndsLast, Waits, Choosing
<1>6. Full(d) => Full(e)
  <2>1. d.state = "INITIALIZING" => \A n \in d.from .. d.next - 1 : FALSE
    BY Numbers DEF Sound, Keeps, Datas
  <2>2. d.state # "INITIALIZING" /\ e.state = "NORMAL" => ToCome(e) = ToCome(d)
    BY <1>1, NoElements DEF ToCome, Choosing
  <2>3. AllThere(d) => AllThere(e)
    BY <1>2, <2>1, <2>2 DEF AllThere, Choosing
  <2>. QED
    BY <1>2, <2>3 DEF Full, NoGap, AllGiven
<1>. QED
  BY <1>3, <1>4, <1>5, <1>6 DEF Sound

(* Initialize() is called.                                                   *)
LEMMA Started ==
  ASSUME NEW d \in Datas, NEW e \in Datas, d.state = "UNINITIALIZED",
         e.state = "INITIALIZING", e.read = d.read, e.reset = d.reset,
         e.produced = d.produced, e.eos = d.eos, e.got = d.got, e.from = d.from,
         e.ended = d.ended, e.ready = d.ready, e.unprepared = d.unprepared,
         e.held = d.held, e.again = d.again, e.kept = d.kept, e.todo = d.todo,
         e.initializing = d.initializing, e.next = d.next
  PROVE  Moves(d, e)
<1>1. Put(e) = Put(d) /\ ToCome(e) = ToCome(d)
  BY DEF Put, ToCome
<1>2. Sound(d) => Sound(e)
  BY <1>1 DEF Sound, Ordered, Keeps, EndsLast, Waits, Away
<1>3. Full(d) => Full(e)
  BY <1>1 DEF Full, NoGap, AllThere, AllGiven
<1>. QED
  BY <1>2, <1>3 DEF Moves

(* The stream is destroyed: what has been given is not taken back.           *)
LEMMA Destroyed ==
  ASSUME NEW d \in Datas, NEW e \in Datas, setup \in Setups,
         e.state = "destroyed", ~e.read, ~e.eos, e.ready = << >>, e.unprepared = << >>,
         e.held = << >>, e.again = << >>, e.kept = << >>, e.todo = << >>, ~e.initializing,
         e.got = d.got, e.from = d.from, e.ended = d.ended, e.next = d.next
  PROVE  Moves(d, e)
<1>. SUFFICES ASSUME Sound(d) PROVE Sound(e) /\ (Full(d) => Full(e))
  BY DEF Moves
<1>1. Ordered(e) /\ (NoGap(d) => NoGap(e)) /\ (AllGiven(d) => AllGiven(e))
  <2>1. d.next <= e.next
    BY AtMost, Numbers DEF Datas
  <2>. QED
    BY <2>1, NoMore DEF Sound
<1>2. Keeps(e) /\ EndsLast(e) /\ Waits(e)
  BY DEF Keeps, EndsLast, Waits
<1>3. AllThere(e)
  BY DEF AllThere
<1>. QED
  BY <1>1, <1>2, <1>3 DEF Sound, Full

(**************************************************************************)
(*                     What the operators do to them                        *)
(**************************************************************************)
LEMMA Kind ==
  ASSUME NEW s \in St
  PROVE  Data(s) \in Datas
<1>1. /\ s.ds \in Members /\ s.dec \in Decoder /\ s.demux \in Stream /\ s.client \in Client
  BY Parts
<1>2. /\ s.ds.state \in States /\ s.ds.reset_cb \in BOOLEAN /\ s.ds.read_cb \in BOOLEAN
      /\ s.ds.decoder_produced_a_frame \in BOOLEAN /\ s.ds.decoding_eos \in BOOLEAN
      /\ s.ds.ready_outputs \in Seq(Outputs) /\ s.ds.unprepared_outputs \in Seq(Outputs)
      /\ s.ds.fallback_buffers \in Seq(Buffers) /\ s.ds.pending_buffers \in Seq(Buffers)
  BY <1>1 DEF Members, States
<1>3. /\ s.dec.todo \in Seq(Requests) /\ s.dec.held \in Seq(Outputs)
      /\ s.dec.reinitializing \in BOOLEAN /\ s.demux.next \in 1 .. MaxBuffers + 1
  BY <1>1 DEF Decoder, Stream, Requests
<1>4. /\ s.client.got \in Seq(Outputs) /\ s.client.from \in 1 .. MaxBuffers + 1
      /\ s.client.ended \in BOOLEAN
  BY <1>1 DEF Client
<1>. QED
  BY <1>2, <1>3, <1>4 DEF Data, Datas

Goes(s, v) == Moves(Data(s), Data(v))

(* Steps follow one another.                                                *)
LEMMA GoesOn ==
  /\ \A s : Goes(s, s)
  /\ \A s, v, w : Goes(s, v) /\ Goes(v, w) => Goes(s, w)
  BY DEF Goes, Moves

(* What of the members and the client is the same.                           *)
SameSide(m, n) ==
  /\ m.state = n.state /\ m.reset_cb = n.reset_cb /\ m.decoding_eos = n.decoding_eos
  /\ m.decoder_produced_a_frame = n.decoder_produced_a_frame
SameIn(m, n) ==
  m.fallback_buffers = n.fallback_buffers /\ m.pending_buffers = n.pending_buffers
SameOutQueues(m, n) ==
  m.ready_outputs = n.ready_outputs /\ m.unprepared_outputs = n.unprepared_outputs

(* A read is answered without an output.                                    *)
LEMMA AbortGoes ==
  ASSUME NEW s \in St
  PROVE  LET v == AbortRead(s) IN v \in St /\ Goes(s, v) /\ SameSide(v.ds, s.ds)
<1>. DEFINE v == AbortRead(s)
<1>1. v \in St
  BY ReadOver
<1>2. /\ SameSide(v.ds, s.ds) /\ SameIn(v.ds, s.ds) /\ SameOutQueues(v.ds, s.ds)
      /\ ~v.ds.read_cb /\ v.dec = s.dec /\ v.demux = s.demux /\ v.client = s.client
  BY Parts DEF AbortRead, St, Members, SameSide, SameIn, SameOutQueues
<1>. HIDE DEF v
<1>3. Data(s) \in Datas /\ Data(v) \in Datas
  BY <1>1, Kind
<1>4. Goes(s, v)
  BY <1>2, <1>3, ReadChanges DEF Goes, Data, SameSide, SameIn, SameOutQueues
<1>. QED
  BY <1>1, <1>2, <1>4 DEF v

(* A read is answered by the end of the stream.                             *)
LEMMA EndGoes ==
  ASSUME NEW s \in St, setup \in Setups, s.ds.state = "END_OF_STREAM", ~s.ds.reset_cb,
         s.ds.ready_outputs = << >>, s.ds.unprepared_outputs = << >>
  PROVE  Goes(s, SatisfyReadAtEnd(s))
<1>. DEFINE v == SatisfyReadAtEnd(s)
<1>1. v \in St
  BY ReadOver
<1>2. /\ SameSide(v.ds, s.ds) /\ SameIn(v.ds, s.ds) /\ SameOutQueues(v.ds, s.ds)
      /\ ~v.ds.read_cb /\ v.dec = s.dec /\ v.demux = s.demux
      /\ v.client.got = s.client.got /\ v.client.from = s.client.from
  BY Parts DEF SatisfyReadAtEnd, St, Members, Client, SameSide, SameIn, SameOutQueues
<1>. HIDE DEF v
<1>3. Data(s) \in Datas /\ Data(v) \in Datas
  BY <1>1, Kind
<1>4. Goes(s, v)
  BY <1>2, <1>3, EndTold DEF Goes, Data, SameSide, SameIn, SameOutQueues
<1>. QED
  BY <1>4 DEF v

(* An error: what waits is dropped, and the read is answered.               *)
LEMMA FailFields ==
  ASSUME NEW s \in St
  PROVE  LET v == DecodeFailed(s) IN
         /\ v \in St /\ v.ds.state = "ERROR" /\ ~v.ds.read_cb /\ v.ds.ready_outputs = << >>
         /\ v.ds.unprepared_outputs = << >> /\ v.ds.reset_cb = s.ds.reset_cb
         /\ v.ds.decoder_produced_a_frame = s.ds.decoder_produced_a_frame
         /\ v.ds.decoding_eos = s.ds.decoding_eos /\ SameIn(v.ds, s.ds)
         /\ v.dec = s.dec /\ v.demux = s.demux /\ v.client = s.client
<1>. DEFINE t == [s EXCEPT !.ds.state = "ERROR"]
            c == ClearOutputs(t)
            v == AbortRead(c)
<1>1. t \in St
  BY InState
<1>2. c \in St
  BY <1>1, Clears
<1>3. v \in St
  BY <1>2, ReadOver
<1>4. /\ v.ds.state = "ERROR" /\ ~v.ds.read_cb /\ v.ds.ready_outputs = << >>
      /\ v.ds.unprepared_outputs = << >> /\ v.ds.reset_cb = s.ds.reset_cb
      /\ v.ds.decoder_produced_a_frame = s.ds.decoder_produced_a_frame
      /\ v.ds.decoding_eos = s.ds.decoding_eos /\ SameIn(v.ds, s.ds)
      /\ v.dec = s.dec /\ v.demux = s.demux /\ v.client = s.client
  BY Parts DEF AbortRead, ClearOutputs, St, Members, SameIn
<1>. HIDE DEF v
<1>. QED
  BY <1>3, <1>4 DEF DecodeFailed, v

(* ... which loses nothing of which the client is told that it is all.      *)
LEMMA FailGoes ==
  ASSUME NEW s \in St, setup \in Setups
  PROVE  Goes(s, DecodeFailed(s))
<1>. DEFINE v == DecodeFailed(s)
<1>1. /\ v \in St /\ v.ds.state = "ERROR" /\ ~v.ds.read_cb /\ v.ds.ready_outputs = << >>
      /\ v.ds.unprepared_outputs = << >> /\ v.ds.reset_cb = s.ds.reset_cb
      /\ v.ds.decoder_produced_a_frame = s.ds.decoder_produced_a_frame
      /\ v.ds.decoding_eos = s.ds.decoding_eos /\ SameIn(v.ds, s.ds)
      /\ v.dec = s.dec /\ v.demux = s.demux /\ v.client = s.client
  BY FailFields
<1>. HIDE DEF v
<1>2. Data(s) \in Datas /\ Data(v) \in Datas
  BY <1>1, Kind
<1>3. Goes(s, v)
  BY <1>1, <1>2, Dropped DEF Goes, Data, SameIn
<1>. QED
  BY <1>3 DEF v

(* After a Reset() all is new, and nothing of what is new is lost yet.       *)
LEMMA ResetGoes ==
  ASSUME NEW s \in St, setup \in Setups
  PROVE  LET v == ResetDone(s)
         IN  v \in St /\ Goes(s, v) /\ v.ds.state = s.ds.state
<1>. DEFINE v == ResetDone(s)
            c == [got |-> << >>, from |-> s.demux.next, ended |-> FALSE]
<1>1. v \in St
  <2>. DEFINE m == [s.ds EXCEPT !.reset_cb = FALSE]
              n == [s.demux EXCEPT !.aborting = FALSE]
  <2>1. v = [[[s EXCEPT !.ds = m] EXCEPT !.demux = n] EXCEPT !.client = c]
    BY Parts DEF ResetDone
  <2>2. m \in Members /\ n \in Stream
    BY Parts, ZenonT(60) DEF Members, Stream
  <2>3. c \in Client
    BY Parts DEF Client, Stream
  <2>. HIDE DEF m, n, c
  <2>4. v = [ds |-> m, sel |-> s.sel, dec |-> s.dec, demux |-> n, client |-> c]
    BY <2>1 DEF St
  <2>. QED
    BY <2>2, <2>3, <2>4, Parts DEF St
<1>2. /\ v.ds.state = s.ds.state /\ ~v.ds.reset_cb /\ v.ds.read_cb = s.ds.read_cb
      /\ v.ds.decoder_produced_a_frame = s.ds.decoder_produced_a_frame
      /\ v.ds.decoding_eos = s.ds.decoding_eos
      /\ SameIn(v.ds, s.ds) /\ SameOutQueues(v.ds, s.ds)
      /\ v.dec = s.dec /\ v.demux.next = s.demux.next /\ v.client = c
  BY Parts DEF ResetDone, St, Members, Stream, SameIn, SameOutQueues
<1>3. v.client.got = << >> /\ v.client.from = s.demux.next /\ ~v.client.ended
  BY <1>2
<1>. HIDE DEF v, c
<1>4. Data(s) \in Datas /\ Data(v) \in Datas
  BY <1>1, Kind
<1>5. Goes(s, v)
  BY <1>2, <1>3, <1>4, FromHere DEF Data, Goes, Moves, SameIn, SameOutQueues
<1>. QED
  BY <1>1, <1>2, <1>5 DEF v

(* A request when there is none.                                             *)
LEMMA DecodeFields ==
  ASSUME NEW s \in St, NEW x \in Buffers, s.dec.todo = << >>, ~s.ds.decoding_eos
  PROVE  LET v == DecodeInternal(s, x) IN
         /\ v.ds.decoding_eos = (x = EOS) /\ v.dec.todo = << Request(x) >>
         /\ v.dec.held = IF x = EOS THEN s.dec.held ELSE Append(s.dec.held, x)
         /\ v.dec.reinitializing = s.dec.reinitializing
         /\ v.demux = s.demux /\ v.client = s.client
         /\ v.ds.state = s.ds.state /\ v.ds.reset_cb = s.ds.reset_cb
         /\ v.ds.read_cb = s.ds.read_cb
         /\ v.ds.decoder_produced_a_frame = s.ds.decoder_produced_a_frame
         /\ SameIn(v.ds, s.ds) /\ SameOutQueues(v.ds, s.ds)
<1>. DEFINE n == s.ds.pending_decode_requests + 1
            m == [s.ds EXCEPT !.decoding_eos = (x = EOS), !.pending_decode_requests = n]
            todo == << Request(x) >>
            held == IF x = EOS THEN s.dec.held ELSE Append(s.dec.held, x)
            d == [s.dec EXCEPT !.todo = todo, !.held = held]
            v == [[s EXCEPT !.ds = m] EXCEPT !.dec = d]
<1>1. DecodeInternal(s, x) = v
  <2>1. Append(<< >>, Request(x)) = todo
    BY AppendProperties
  <2>2. (s.ds.decoding_eos \/ x = EOS) = (x = EOS)
    OBVIOUS
  <2>. HIDE DEF todo
  <2>. QED
    BY <2>1, <2>2, Parts DEF DecodeInternal, Members, Decoder, Request
<1>. HIDE DEF todo, held, n
<1>2. /\ m.decoding_eos = (x = EOS) /\ SameIn(m, s.ds) /\ SameOutQueues(m, s.ds)
      /\ m.state = s.ds.state /\ m.reset_cb = s.ds.reset_cb /\ m.read_cb = s.ds.read_cb
      /\ m.decoder_produced_a_frame = s.ds.decoder_produced_a_frame
  BY Parts DEF Members, SameIn, SameOutQueues
<1>3. d.todo = todo /\ d.held = held /\ d.reinitializing = s.dec.reinitializing
  BY Parts DEF Decoder
<1>. HIDE DEF m, d
<1>4. v.ds = m /\ v.dec = d /\ v.demux = s.demux /\ v.client = s.client
  BY DEF St
<1>. HIDE DEF v
<1>. QED
  BY <1>1, <1>2, <1>3, <1>4 DEF todo, held

OneAtATime == setup \in Setups /\ MaxRequests = 1

(* The stream reads on, in STATE_NORMAL: what is to be decoded again first. *)
LEMMA ReadsOn ==
  ASSUME OneAtATime, NEW s \in St, Counts(s), s.ds.state = "NORMAL"
  PROVE  Goes(s, ReadIfPossible(s))
<1>. DEFINE q == s.ds.fallback_buffers
            v == ReadIfPossible(s)
<1>1. CASE ~CanDecodeMore(s) \/ (q = << >> /\ s.ds.pending_demuxer_read)
  BY <1>1, GoesOn DEF ReadIfPossible, ReadFromDemuxerStream
<1>2. CASE CanDecodeMore(s) /\ q = << >> /\ ~s.ds.pending_demuxer_read
  <2>1. Data(v) = Data(s)
    BY <1>2, Parts DEF ReadIfPossible, ReadFromDemuxerStream, Members, Stream, St, Data
  <2>. QED
    BY <2>1 DEF Goes, Moves
<1>3. CASE CanDecodeMore(s) /\ q # << >>
  <2>. DEFINE m == [s.ds EXCEPT !.fallback_buffers = Tail(q)]
              w == [s EXCEPT !.ds = m]
              x == Head(q)
  <2>1. v = DecodeInternal(w, x)
    BY <1>3, Parts DEF ReadIfPossible, ReadFromDemuxerStream, Members
  <2>2. x \in Buffers /\ Tail(q) \in Seq(Buffers)
    BY <1>3, Parts DEF Members
  <2>3. /\ m \in Members /\ SameSide(m, s.ds) /\ SameOutQueues(m, s.ds)
        /\ m.read_cb = s.ds.read_cb
        /\ m.pending_buffers = s.ds.pending_buffers /\ m.fallback_buffers = Tail(q)
        /\ m.pending_decode_requests = s.ds.pending_decode_requests
    BY <2>2, Parts DEF Members, SameSide, SameOutQueues
  <2>. HIDE DEF m
  <2>4. w \in St /\ w.ds = m /\ w.dec = s.dec /\ w.demux = s.demux /\ w.client = s.client
    BY <2>3 DEF St
  <2>5. s.dec.todo = << >>
    <3>1. Len(s.dec.todo) = 0 /\ s.dec.todo \in Seq(Requests)
      BY <1>3, RoomForOne, Parts DEF Counts, OneAtATime, Decoder, Requests
    <3>. QED
      BY <3>1, EmptySeq
  <2>. HIDE DEF w, x
  <2>6. v \in St
    BY <2>1, <2>2, <2>3, <2>4, Decodes DEF Counts
  <2>7. ASSUME Sound(Data(s)) PROVE Moves(Data(s), Data(v))
    <3>1. ~w.ds.decoding_eos
      BY <2>3, <2>4, <2>5, <2>7 DEF Sound, EndsLast, Data, SameSide
    <3>2. /\ v.ds.decoding_eos = (x = EOS) /\ v.dec.todo = << Request(x) >>
          /\ v.dec.held = IF x = EOS THEN w.dec.held ELSE Append(w.dec.held, x)
          /\ v.dec.reinitializing = w.dec.reinitializing
          /\ v.demux = w.demux /\ v.client = w.client
          /\ v.ds.state = w.ds.state /\ v.ds.reset_cb = w.ds.reset_cb
          /\ v.ds.read_cb = w.ds.read_cb
          /\ v.ds.decoder_produced_a_frame = w.ds.decoder_produced_a_frame
          /\ SameIn(v.ds, w.ds) /\ SameOutQueues(v.ds, w.ds)
      BY <2>1, <2>2, <2>4, <2>5, <3>1, DecodeFields
    <3>. HIDE DEF v
    <3>3. Data(s) \in Datas /\ Data(v) \in Datas
      BY <2>6, Kind
    <3>. DEFINE d == Data(s)
                e == Data(v)
    <3>4. /\ Still(e, d) /\ d.state = "NORMAL" /\ e.state = d.state /\ d.todo = << >>
          /\ d.again # << >> /\ e.again = Tail(d.again) /\ e.kept = d.kept /\ e.next = d.next
          /\ e.todo = << Request(Head(d.again)) >> /\ e.eos = (Head(d.again) = EOS)
          /\ e.held = IF Head(d.again) = EOS THEN d.held ELSE Append(d.held, Head(d.again))
      BY <1>3, <2>3, <2>4, <2>5, <3>2 DEF Data, Still, SameSide, SameIn, SameOutQueues, x
    <3>. HIDE DEF d, e
    <3>5. Moves(d, e)
      BY <3>3, <3>4, DecodedAgain DEF OneAtATime, d, e
    <3>. QED
      BY <3>5 DEF d, e
  <2>8. Goes(s, v)
    BY <2>7 DEF Goes, Moves
  <2>. QED
    BY <2>8
<1>. QED
  BY <1>1, <1>2, <1>3

(* An output of the decoder: what OnDecodeOutputReady() does with it.        *)
LEMMA OutputFields ==
  ASSUME NEW s \in St, NEW x \in Outputs, s.ds.state # "ERROR", ~s.ds.reset_cb
  PROVE  LET v == OnDecodeOutputReady(s, x) IN
         /\ v.dec = s.dec /\ v.demux = s.demux /\ v.ds.decoder_produced_a_frame
         /\ v.client.from = s.client.from /\ v.client.ended = s.client.ended
         /\ v.ds.state = s.ds.state /\ v.ds.reset_cb = s.ds.reset_cb
         /\ v.ds.decoding_eos = s.ds.decoding_eos
         /\ v.ds.fallback_buffers = s.ds.fallback_buffers
         /\ v.ds.pending_buffers = IF s.ds.decoder_produced_a_frame
                                   THEN s.ds.pending_buffers ELSE << >>
         /\ \/ /\ setup.prepares /\ v.client.got = s.client.got
               /\ v.ds.ready_outputs = s.ds.ready_outputs /\ v.ds.read_cb = s.ds.read_cb
               /\ v.ds.unprepared_outputs = Append(s.ds.unprepared_outputs, x)
            \/ /\ ~setup.prepares /\ s.ds.read_cb /\ ~v.ds.read_cb
               /\ v.client.got = Append(s.client.got, x)
               /\ SameOutQueues(v.ds, s.ds)
            \/ /\ ~setup.prepares /\ ~v.ds.read_cb /\ v.client.got = s.client.got
               /\ v.ds.ready_outputs = Append(s.ds.ready_outputs, x)
               /\ v.ds.unprepared_outputs = s.ds.unprepared_outputs
<1>1. CASE setup.prepares
  BY <1>1, Parts DEF OnDecodeOutputReady, FinalizeDecoderSelection, MaybePrepareAnotherOutput,
                     St, Members, Selector, SameOutQueues
<1>2. CASE ~setup.prepares
  BY <1>2, Parts, ZenonT(60) DEF OnDecodeOutputReady, FinalizeDecoderSelection, SatisfyRead,
                     St, Members, Selector, Client, SameOutQueues
<1>. QED
  BY <1>1, <1>2

(* ... and nothing, after an error or during a Reset().                      *)
LEMMA Unheard ==
  ASSUME NEW d \in Datas, NEW e \in Datas, setup \in Setups,
         d.state = "ERROR" \/ d.reset, d.held # << >>, e.held = Tail(d.held), Rest(e, d),
         e.read = d.read, e.produced = d.produced, e.got = d.got, e.ready = d.ready,
         e.unprepared = d.unprepared, e.kept = d.kept
  PROVE  Moves(d, e)
<1>. SUFFICES ASSUME Sound(d) PROVE Sound(e) /\ (Full(d) => Full(e))
  BY DEF Moves
<1>1. Part(e.held, d.held)
  <2>1. d.held \in Seq(Outputs) /\ Rising(d.held)
    BY DEF Sound, Ordered, Datas
  <2>. DEFINE r == Tail(d.held)
  <2>2. Rising(r) /\ Elements(d.held) = {Head(d.held)} \cup Elements(r)
    BY <2>1, Tails
  <2>3. e.held = r
    OBVIOUS
  <2>. HIDE DEF r
  <2>. QED
    BY <2>2, <2>3 DEF Part
<1>2. Ordered(e)
  <2>1. d.next <= e.next
    BY AtMost, Numbers DEF Datas, Rest
  <2>2. Less(e, d)
    BY <1>1, <2>1, Parted DEF Less, Sound, Rest
  <2>. QED
    BY <2>2, StillOrdered DEF Sound
<1>3. Keeps(e) /\ EndsLast(e) /\ Waits(e)
  BY <1>1 DEF Sound, Keeps, EndsLast, Waits, Rest, Part
<1>4. Put(e) = Put(d)
  BY DEF Put
<1>5. Full(d) => Full(e)
  BY <1>4 DEF Full, NoGap, AllThere, AllGiven, Rest
<1>. QED
  BY <1>2, <1>3, <1>5 DEF Sound

(* The decoder puts an output out.                                          *)
LEMMA OutputGoes ==
  ASSUME setup \in Setups, IInv, DecoderOutputs, Data(Now)' \in Datas
  PROVE  Moves(Data(Now), Data(Now)')
<1>. DEFINE held == Tail(dec.held)
            c == [Now.dec EXCEPT !.held = held]
            s == [Now EXCEPT !.dec = c]
            x == Head(dec.held)
            v == OnDecodeOutputReady(s, x)
            d == Data(Now)
            e == Data(Now)'
<1>1. Become(v)
  BY Found DEF DecoderOutputs
<1>2. dec.held \in Seq(Outputs) /\ dec.held # << >>
  BY Parts, Found DEF Decoder, DecoderOutputs
<1>3. held \in Seq(Outputs) /\ x \in Outputs
  BY <1>2
<1>. HIDE DEF held, x
<1>4. /\ c \in Decoder /\ c.held = held /\ c.todo = dec.todo
      /\ c.reinitializing = dec.reinitializing
  BY <1>3, Parts, Found DEF Decoder
<1>. HIDE DEF c
<1>5. s \in St /\ s.ds = ds /\ s.demux = demux /\ s.dec = c /\ s.client = client
  BY <1>4, Found DEF St
<1>. HIDE DEF s
<1>6. d \in Datas
  BY Found, Kind
<1>7. CASE ds.state = "ERROR" \/ ds.reset_cb
  <2>1. v = s
    BY <1>5, <1>7 DEF OnDecodeOutputReady
  <2>2. /\ d.state = "ERROR" \/ d.reset
        /\ d.held # << >> /\ e.held = Tail(d.held) /\ Rest(e, d)
        /\ e.read = d.read /\ e.produced = d.produced /\ e.got = d.got /\ e.ready = d.ready
        /\ e.unprepared = d.unprepared /\ e.kept = d.kept
    BY <1>1, <1>2, <1>4, <1>5, <1>7, <2>1 DEF Become, Data, Now, Rest, held
  <2>. HIDE DEF d, e
  <2>3. Moves(d, e)
    BY <1>6, <2>2, Unheard DEF e
  <2>. QED
    BY <2>3 DEF d, e
<1>8. CASE ~(ds.state = "ERROR" \/ ds.reset_cb)
  <2>1. /\ v.dec = s.dec /\ v.demux = s.demux /\ v.ds.decoder_produced_a_frame
        /\ v.client.from = s.client.from /\ v.client.ended = s.client.ended
        /\ v.ds.state = s.ds.state /\ v.ds.reset_cb = s.ds.reset_cb
        /\ v.ds.decoding_eos = s.ds.decoding_eos
        /\ v.ds.fallback_buffers = s.ds.fallback_buffers
        /\ v.ds.pending_buffers = IF s.ds.decoder_produced_a_frame
                                  THEN s.ds.pending_buffers ELSE << >>
        /\ \/ /\ setup.prepares /\ v.client.got = s.client.got
              /\ v.ds.ready_outputs = s.ds.ready_outputs /\ v.ds.read_cb = s.ds.read_cb
              /\ v.ds.unprepared_outputs = Append(s.ds.unprepared_outputs, x)
           \/ /\ ~setup.prepares /\ s.ds.read_cb /\ ~v.ds.read_cb
              /\ v.client.got = Append(s.client.got, x)
              /\ SameOutQueues(v.ds, s.ds)
           \/ /\ ~setup.prepares /\ ~v.ds.read_cb /\ v.client.got = s.client.got
              /\ v.ds.ready_outputs = Append(s.ds.ready_outputs, x)
              /\ v.ds.unprepared_outputs = s.ds.unprepared_outputs
    BY <1>3, <1>5, <1>8, OutputFields
  <2>. HIDE DEF v
  <2>2. ASSUME Sound(d) PROVE Moves(d, e)
    <3>1. /\ Rest(e, d) /\ ~d.reset /\ d.state # "ERROR" /\ d.held # << >>
          /\ e.held = Tail(d.held) /\ e.produced
      BY <1>1, <1>2, <1>4, <1>5, <1>8, <2>1 DEF Become, Data, Now, Rest, held
    <3>2. \/ /\ setup.prepares /\ e.unprepared = Append(d.unprepared, Head(d.held))
             /\ e.got = d.got /\ e.ready = d.ready /\ e.read = d.read
          \/ /\ ~setup.prepares /\ d.read /\ ~e.read /\ e.got = Append(d.got, Head(d.held))
             /\ e.ready = d.ready /\ e.unprepared = d.unprepared
          \/ /\ ~setup.prepares /\ ~e.read /\ e.ready = Append(d.ready, Head(d.held))
             /\ e.got = d.got /\ e.unprepared = d.unprepared
      BY <1>1, <1>5, <2>1 DEF Become, Data, Now, SameOutQueues, x
    <3>3. e.kept = << >>
      BY <1>1, <1>5, <2>1, <2>2 DEF Become, Data, Now, Sound, Keeps
    <3>. HIDE DEF d, e
    <3>. QED
      BY <1>6, <3>1, <3>2, <3>3, PutOut DEF e
  <2>. QED
    BY <2>2 DEF Moves
<1>. QED
  BY <1>7, <1>8

(* An output has been prepared: it is given, or kept.                        *)
LEMMA PreparedGoes ==
  ASSUME OneAtATime, IInv, OnPreparedOutputReady, Data(Now)' \in Datas
  PROVE  Moves(Data(Now), Data(Now)')
<1>. DEFINE x == Head(ds.unprepared_outputs)
            rest == Tail(ds.unprepared_outputs)
            done == [Now EXCEPT !.ds.preparing_output = FALSE, !.ds.unprepared_outputs = rest]
            kept == [done EXCEPT !.ds.ready_outputs = Append(@, x)]
            t == IF ds.read_cb THEN SatisfyRead(done, x) ELSE kept
            next == MaybePrepareAnotherOutput(t)
<1>1. Become(IF ds.state = "NORMAL" THEN ReadIfPossible(next) ELSE next)
  BY DEF OnPreparedOutputReady, Now
<1>2. ds.unprepared_outputs \in Seq(Outputs) /\ ds.unprepared_outputs # << >>
  BY Parts, Found DEF OnPreparedOutputReady, Fits, Prepares
<1>3. x \in Outputs /\ rest \in Seq(Outputs)
  BY <1>2
<1>. HIDE DEF x, rest
<1>4. /\ t.dec = dec /\ t.demux = demux /\ SameSide(t.ds, ds) /\ SameIn(t.ds, ds) /\ ~t.ds.read_cb
      /\ t.client.from = client.from /\ t.client.ended = client.ended
      /\ t.ds.unprepared_outputs = rest
      /\ \/ /\ ds.read_cb /\ t.client.got = Append(client.got, x)
            /\ t.ds.ready_outputs = ds.ready_outputs
         \/ t.client.got = client.got /\ t.ds.ready_outputs = Append(ds.ready_outputs, x)
  BY Parts, Found, ZenonT(60) DEF SatisfyRead, St, Members, Client, SameSide, SameIn
<1>5. next \in St /\ Fits(next) /\ next.ds.state = ds.state /\ ~next.ds.reset_cb
  BY PreparedOutputFits DEF x, rest
<1>6. /\ next.dec = t.dec /\ next.demux = t.demux /\ next.client = t.client
      /\ SameSide(next.ds, t.ds) /\ SameIn(next.ds, t.ds) /\ SameOutQueues(next.ds, t.ds)
      /\ next.ds.read_cb = t.ds.read_cb
  BY Parts, Found DEF MaybePrepareAnotherOutput, SatisfyRead, St, Members, Client,
                      SameSide, SameIn, SameOutQueues
<1>. HIDE DEF t, next
<1>. DEFINE d == Data(Now)
            e == Data(next)
<1>7. d \in Datas /\ e \in Datas
  BY <1>5, Found, Kind
<1>8. ASSUME Sound(d) PROVE Moves(d, e)
  <2>1. d.read => d.ready = << >>
    BY <1>8 DEF Sound, Waits
  <2>2. /\ Rest(e, d) /\ e.produced = d.produced /\ e.held = d.held /\ e.kept = d.kept
        /\ d.unprepared # << >> /\ e.unprepared = Tail(d.unprepared) /\ ~e.read
        /\ \/ /\ e.got = Append(d.got, Head(d.unprepared))
              /\ d.ready = << >> /\ e.ready = d.ready
           \/ e.ready = Append(d.ready, Head(d.unprepared)) /\ e.got = d.got
    BY <1>2, <1>4, <1>6, <2>1
       DEF Data, Now, Rest, SameSide, SameIn, SameOutQueues, x, rest
  <2>. HIDE DEF d, e
  <2>. QED
    BY <1>7, <2>2, HandedOn
<1>9. Goes(Now, next)
  BY <1>8 DEF Goes, Moves
<1>10. ds.state = "NORMAL" => Goes(next, ReadIfPossible(next))
  BY <1>5, ReadsOn DEF Fits
<1>11. ASSUME NEW v, Become(v), Goes(Now, v) PROVE Moves(Data(Now), Data(Now)')
  BY <1>11 DEF Become, Goes, Data, Now
<1>12. Goes(Now, IF ds.state = "NORMAL" THEN ReadIfPossible(next) ELSE next)
  BY <1>9, <1>10, GoesOn
<1>. QED
  BY <1>1, <1>11, <1>12

(* The selector has members of its own.                                      *)
LEMMA SelectorOnly ==
  ASSUME NEW s \in St
  PROVE  SameButSel(SelectDecoder(s), s) /\ SameButSel(InitializeDecoder(s), s)
  BY Parts DEF SelectDecoder, InitializeDecoder, ReturnNullDecoder, SameButSel, St, Selector

(* Another decoder is to be given what has been kept.                        *)
LEMMA FallBackFields ==
  ASSUME NEW s \in St
  PROVE  LET v == FallBack(s) IN
         /\ v.ds.state = "REINITIALIZING_DECODER" /\ v.dec = NewDecoder
         /\ v.ds.reset_cb = s.ds.reset_cb /\ v.ds.read_cb = s.ds.read_cb
         /\ v.ds.decoder_produced_a_frame = s.ds.decoder_produced_a_frame
         /\ v.ds.decoding_eos = s.ds.decoding_eos
         /\ SameIn(v.ds, s.ds) /\ SameOutQueues(v.ds, s.ds)
         /\ v.demux = s.demux /\ v.client = s.client
<1>. DEFINE m == [s.ds EXCEPT !.pending_decode_requests = 0, !.state = "REINITIALIZING_DECODER"]
            w == [[s EXCEPT !.ds = m] EXCEPT !.dec = NewDecoder]
<1>1. FallBack(s) = SelectDecoder(w)
  BY Parts DEF FallBack, Members
<1>2. m \in Members
  BY Parts DEF Members
<1>3. /\ m.state = "REINITIALIZING_DECODER"
      /\ m.reset_cb = s.ds.reset_cb /\ m.read_cb = s.ds.read_cb
      /\ m.decoder_produced_a_frame = s.ds.decoder_produced_a_frame
      /\ m.decoding_eos = s.ds.decoding_eos /\ SameIn(m, s.ds) /\ SameOutQueues(m, s.ds)
  BY Parts DEF Members, SameIn, SameOutQueues
<1>. HIDE DEF m
<1>4. /\ w \in St /\ w.ds = m /\ w.dec = NewDecoder /\ w.demux = s.demux
      /\ w.client = s.client
  BY <1>2, New DEF St, NewDecoderFits
<1>. HIDE DEF w
<1>5. SameButSel(SelectDecoder(w), w)
  BY <1>4, SelectorOnly
<1>. QED
  BY <1>1, <1>3, <1>4, <1>5 DEF SameButSel

(* The decoder answers a request, and holds what is left of what it held.    *)
LEMMA AnsweredGoes ==
  ASSUME OneAtATime, NEW o \in St, Fits(o), o.dec.todo # << >>,
         NEW held \in Seq(Outputs), NEW ok \in BOOLEAN, Sound(Data(o)),
         ok => held = o.dec.held /\ (o.dec.todo[1].buffer = EOS => held = << >>),
         Part(held, o.dec.held)
  PROVE  LET v == OnDecodeDone(Took(o, held), o.dec.todo[1].end_of_stream, ok) IN
         /\ v \in St /\ Sound(Data(v))
         /\ (ok \/ o.ds.state # "FLUSHING_DECODER") /\ Full(Data(o)) => Full(Data(v))
<1>. DEFINE end_of_stream == o.dec.todo[1].end_of_stream
            t == RequestOver(o, held, end_of_stream, ok)
            v == OnDecodeDone(Took(o, held), end_of_stream, ok)
            d == Data(o)
            e == Data(t)
            f == Data(v)
<1>1. /\ o.dec.todo \in Seq(Requests) /\ Len(o.dec.todo) = 1
      /\ end_of_stream \in BOOLEAN
  <2>1. o.dec.todo \in Seq(Requests)
    BY Parts DEF Decoder, Requests
  <2>2. Len(o.dec.todo) \in Nat /\ Len(o.dec.todo) # 0
    BY <2>1, EmptySeq
  <2>3. Len(o.dec.todo) <= 1
    BY DEF Fits, Counts, OneByOne, OneAtATime
  <2>4. Len(o.dec.todo) = 1
    <3>1. \A n \in Nat : n # 0 /\ n <= 1 => n = 1
      OBVIOUS
    <3>. QED
      BY <2>2, <2>3, <3>1
  <2>5. o.dec.todo[1] \in Requests
    BY <2>1, <2>4, ElementOfSeq
  <2>6. \A r \in Requests : r.end_of_stream \in BOOLEAN
    BY DEF Requests
  <2>. QED
    BY <2>1, <2>4, <2>5, <2>6
<1>. HIDE DEF end_of_stream
<1>2. /\ t \in St /\ Fits(t)
      /\ SameFlags(t.ds, o.ds) /\ SameOutputs(t.ds, o.ds)
      /\ t.ds.read_cb = o.ds.read_cb
      /\ t.ds.decoding_eos = (o.ds.decoding_eos /\ ~end_of_stream)
      /\ t.ds.fallback_buffers = o.ds.fallback_buffers
      /\ t.ds.pending_buffers = o.ds.pending_buffers
      /\ t.dec.held = held /\ t.dec.reinitializing = o.dec.reinitializing
      /\ t.demux = o.demux /\ t.client = o.client
      /\ t.ds.state \in Running \cup {"ERROR"} /\ t.dec.todo = << >>
  BY <1>1, DecodeAnswered DEF OneAtATime
<1>3. v = IF o.ds.state = "ERROR" \/ o.ds.reset_cb THEN t
          ELSE IF ~ok THEN IF o.ds.decoder_produced_a_frame THEN DecodeFailed(t) ELSE FallBack(t)
          ELSE IF o.ds.state = "NORMAL" THEN IF end_of_stream THEN Ended(t) ELSE ReadIfPossible(t)
          ELSE IF o.ds.state = "FLUSHING_DECODER" /\ t.ds.pending_decode_requests = 0
          THEN ReinitializeDecoder(t) ELSE t
  BY <1>1, DecodeTurns
<1>4. v \in St
  <2>1. Head(o.dec.todo) = o.dec.todo[1]
    BY <1>1
  <2>. QED
    BY <1>1, DecodeIsDone DEF OneAtATime
<1>. HIDE DEF t, v
<1>5. d \in Datas /\ e \in Datas /\ f \in Datas
  BY <1>2, <1>4, Kind
<1>6. /\ ~o.dec.reinitializing /\ o.ds.state # "END_OF_STREAM"
      /\ t.ds.pending_decode_requests = 0
  <2>1. Len(<< >>) = 0
    OBVIOUS
  <2>. QED
    BY <1>2, <2>1 DEF Fits, Selecting, OneByOne, OneAtATime, Counts
<1>7. Answered1(e, d) /\ SameOut(e, d) /\ e.state = d.state /\ e.initializing = d.initializing
  <2>1. ~e.eos
    BY <1>2 DEF Sound, EndsLast, Data, end_of_stream
  <2>. QED
    BY <1>2, <2>1 DEF Answered1, SameOut, Data, SameFlags, SameOutputs
<1>8. /\ end_of_stream <=> o.dec.todo[1].buffer = EOS
      /\ o.ds.state = "FLUSHING_DECODER" => o.dec.todo[1].buffer = EOS
  BY DEF Sound, EndsLast, Data, end_of_stream
<1>. SUFFICES /\ Sound(f)
              /\ (ok \/ o.ds.state # "FLUSHING_DECODER") /\ Full(d) => Full(f)
  BY <1>4 DEF v, end_of_stream
<1>9. setup \in Setups
  BY DEF OneAtATime
<1>10. ASSUME ok PROVE Moves(d, e) /\ e.held = d.held
  <2>1. e.held = d.held
    BY <1>2, <1>10 DEF Data
  <2>. HIDE DEF d, e
  <2>. QED
    BY <1>5, <1>7, <1>9, <2>1, RequestDone
<1>11. CASE o.ds.state = "ERROR" \/ o.ds.reset_cb
  <2>1. f = e /\ (d.reset \/ d.state = "ERROR")
    BY <1>3, <1>11 DEF Data
  <2>2. CASE ok
    BY <1>10, <2>1, <2>2 DEF Moves
  <2>3. Sound(e) /\ (d.state # "FLUSHING_DECODER" /\ Full(d) => Full(e))
    <3>1. Sound(d)
      OBVIOUS
    <3>. HIDE DEF d, e
    <3>. QED
      BY <1>5, <1>7, <1>9, <2>1, <3>1, RequestFails
  <2>4. CASE ~ok
    BY <2>1, <2>3, <2>4 DEF Data
  <2>. QED
    BY <2>2, <2>4
<1>12. CASE ~(o.ds.state = "ERROR" \/ o.ds.reset_cb) /\ ~ok
  <2>1. CASE o.ds.decoder_produced_a_frame
    <3>1. v = DecodeFailed(t)
      BY <1>3, <1>12, <2>1
    <3>2. /\ v.ds.state = "ERROR" /\ ~v.ds.read_cb /\ v.ds.ready_outputs = << >>
          /\ v.ds.unprepared_outputs = << >> /\ v.ds.reset_cb = t.ds.reset_cb
          /\ v.ds.decoder_produced_a_frame = t.ds.decoder_produced_a_frame
          /\ v.ds.decoding_eos = t.ds.decoding_eos /\ SameIn(v.ds, t.ds)
          /\ v.dec = t.dec /\ v.demux = t.demux /\ v.client = t.client
      BY <1>2, <3>1, FailFields
    <3>3. /\ Answered1(f, d) /\ f.state = "ERROR" /\ ~f.read /\ f.ready = << >>
          /\ f.unprepared = << >> /\ ~f.initializing
      BY <1>2, <1>6, <1>7, <3>2 DEF Data, Answered1, SameIn
    <3>4. Sound(f) /\ (d.state # "FLUSHING_DECODER" /\ Full(d) => Full(f))
      <4>1. Sound(d)
        OBVIOUS
      <4>. HIDE DEF d, e, f
      <4>. QED
        BY <1>5, <1>9, <3>3, <4>1, RequestFails
    <3>. QED
      BY <1>12, <3>4 DEF Data
  <2>2. CASE ~o.ds.decoder_produced_a_frame
    <3>1. v = FallBack(t)
      BY <1>3, <1>12, <2>2
    <3>2. /\ v.ds.state = "REINITIALIZING_DECODER" /\ v.dec = NewDecoder
          /\ v.ds.reset_cb = t.ds.reset_cb /\ v.ds.read_cb = t.ds.read_cb
          /\ v.ds.decoder_produced_a_frame = t.ds.decoder_produced_a_frame
          /\ v.ds.decoding_eos = t.ds.decoding_eos
          /\ SameIn(v.ds, t.ds) /\ SameOutQueues(v.ds, t.ds)
          /\ v.demux = t.demux /\ v.client = t.client
      BY <1>2, <3>1, FallBackFields
    <3>3. Part(<< >>, d.held)
      <4>1. Ordered(d)
        BY DEF Sound
      <4>. HIDE DEF d
      <4>. QED
        BY <1>5, <4>1, Parted
    <3>4. /\ Answered1(f, d) /\ SameOut(f, d) /\ f.state = "REINITIALIZING_DECODER"
          /\ ~d.produced /\ f.held = << >> /\ ~f.initializing
          /\ d.state \in {"NORMAL", "FLUSHING_DECODER"}
      BY <1>2, <1>6, <1>7, <1>12, <2>2, <3>2, <3>3, New
         DEF Data, Answered1, SameOut, SameIn, SameOutQueues, SameFlags, NewDecoderFits, Running
    <3>5. Sound(f) /\ (d.state # "FLUSHING_DECODER" /\ Full(d) => Full(f))
      <4>1. Sound(d)
        OBVIOUS
      <4>. HIDE DEF d, e, f
      <4>. QED
        BY <1>5, <1>9, <3>4, <4>1, RequestFails
    <3>. QED
      BY <1>12, <3>5 DEF Data
  <2>. QED
    BY <2>1, <2>2
<1>13. CASE ~(o.ds.state = "ERROR" \/ o.ds.reset_cb) /\ ok /\ o.ds.state = "NORMAL"
  <2>1. CASE ~end_of_stream
    <3>1. v = ReadIfPossible(t)
      BY <1>3, <1>13, <2>1
    <3>2. Goes(t, v)
      BY <1>2, <1>13, <3>1, ReadsOn DEF SameFlags, Fits
    <3>. QED
      BY <1>10, <1>13, <3>2 DEF Goes, Moves
  <2>2. CASE end_of_stream
    <3>. DEFINE w == [t EXCEPT !.ds.state = "END_OF_STREAM"]
                g == Data(w)
    <3>1. v \in {SatisfyReadAtEnd(w), w} /\ (v # w => w.ds.ready_outputs = << >>
                                                   /\ w.ds.unprepared_outputs = << >>)
      BY <1>2, <1>3, <1>13, <2>2, Parts DEF Ended, St, Members
    <3>2. /\ w \in St /\ w.ds.state = "END_OF_STREAM" /\ SameButState(w.ds, t.ds)
          /\ w.dec = t.dec /\ w.demux = t.demux
      BY <1>2, InState DEF Running
    <3>3. /\ w.client = t.client /\ SameSide([w.ds EXCEPT !.state = t.ds.state], t.ds)
          /\ w.ds.read_cb = t.ds.read_cb /\ w.ds.reset_cb = t.ds.reset_cb
          /\ w.ds.decoder_produced_a_frame = t.ds.decoder_produced_a_frame
          /\ w.ds.decoding_eos = t.ds.decoding_eos
          /\ SameIn(w.ds, t.ds) /\ SameOutQueues(w.ds, t.ds)
      BY <1>2, Parts DEF St, Members, SameSide, SameIn, SameOutQueues
    <3>4. g \in Datas
      BY <3>2, Kind
    <3>. HIDE DEF w
    <3>5. /\ Answered1(g, d) /\ SameOut(g, d) /\ d.state = "NORMAL" /\ g.state = "END_OF_STREAM"
          /\ g.initializing = d.initializing /\ d.todo # << >> /\ d.todo[1].buffer = EOS
          /\ d.held = << >> /\ g.held = << >>
      BY <1>2, <1>7, <1>8, <1>13, <2>2, <3>2, <3>3
         DEF Data, Answered1, SameOut, SameIn, SameOutQueues
    <3>6. Moves(d, g)
      <4>. HIDE DEF d, g
      <4>. QED
        BY <1>5, <1>9, <3>4, <3>5, AtEnd
    <3>7. Goes(w, v)
      <4>1. CASE v = w
        BY <4>1, GoesOn
      <4>2. CASE v # w
        BY <1>2, <1>9, <1>13, <3>1, <3>2, <3>3, <4>2, EndGoes DEF SameFlags
      <4>. QED
        BY <4>1, <4>2
    <3>. QED
      BY <1>13, <3>6, <3>7 DEF Goes, Moves
  <2>. QED
    BY <2>1, <2>2
<1>14. CASE ~(o.ds.state = "ERROR" \/ o.ds.reset_cb) /\ ok /\ o.ds.state = "FLUSHING_DECODER"
  <2>1. v = ReinitializeDecoder(t)
    BY <1>3, <1>6, <1>14
  <2>2. /\ v.ds.state = "REINITIALIZING_DECODER" /\ v.ds.reset_cb = t.ds.reset_cb
        /\ v.ds.read_cb = t.ds.read_cb
        /\ v.ds.decoder_produced_a_frame = t.ds.decoder_produced_a_frame
        /\ v.ds.decoding_eos = t.ds.decoding_eos
        /\ SameIn(v.ds, t.ds) /\ SameOutQueues(v.ds, t.ds)
        /\ v.dec.held = t.dec.held /\ v.dec.todo = t.dec.todo
        /\ v.demux = t.demux /\ v.client = t.client
    BY <1>2, <2>1, Parts DEF ReinitializeDecoder, St, Members, Decoder, SameIn, SameOutQueues
  <2>3. d.again = << >> /\ d.kept = << >>
    BY <1>14 DEF Sound, Keeps, Data
  <2>4. /\ f.reset = d.reset /\ f.read = d.read /\ f.produced = d.produced /\ f.got = d.got
        /\ f.from = d.from /\ f.ended = d.ended /\ f.ready = d.ready
        /\ f.unprepared = d.unprepared
        /\ d.state = "FLUSHING_DECODER" /\ f.state = "REINITIALIZING_DECODER"
        /\ f.todo = << >> /\ ~f.eos /\ f.again = << >> /\ f.kept = << >>
        /\ f.held = << >> /\ d.held = << >> /\ f.next = d.next
    BY <1>2, <1>7, <1>8, <1>14, <2>2, <2>3
       DEF Data, Answered1, SameFlags, SameOutputs, SameIn, SameOutQueues
  <2>5. Moves(d, f)
    <3>. HIDE DEF d, f
    <3>. QED
      BY <1>5, <1>9, <2>4, InitializedAgain
  <2>. QED
    BY <1>14, <2>5 DEF Moves
<1>. QED
  BY <1>2, <1>6, <1>11, <1>12, <1>13, <1>14 DEF Running, SameFlags

(* What state a handler leaves.                                             *)
LEMMA SameState ==
  ASSUME NEW s \in St
  PROVE  /\ ReadIfPossible(s).ds.state = s.ds.state
         /\ AbortRead(s).ds.state = s.ds.state
         /\ SatisfyReadAtEnd(s).ds.state = s.ds.state
         /\ ClearOutputs(s).ds.state = s.ds.state
         /\ ResetDone(s).ds.state = s.ds.state
         /\ ResetStream(s).ds.state = s.ds.state
         /\ ContinueReset(s).ds.state = s.ds.state
<1>1. ReadIfPossible(s).ds.state = s.ds.state
  BY DEF ReadIfPossible, ReadFromDemuxerStream, DecodeInternal, St, Members
<1>2. /\ AbortRead(s).ds.state = s.ds.state
      /\ SatisfyReadAtEnd(s).ds.state = s.ds.state
      /\ ClearOutputs(s).ds.state = s.ds.state
      /\ ResetDone(s).ds.state = s.ds.state
  BY DEF AbortRead, SatisfyReadAtEnd, ClearOutputs, ResetDone, St, Members
<1>3. ResetStream(s).ds.state = s.ds.state
  BY DEF ResetStream, ResetDecoder, AbortRead, ClearOutputs, ResetDone, St, Members
<1>. QED
  BY <1>1, <1>2, <1>3 DEF ContinueReset

LEMMA CompletedState ==
  ASSUME NEW s \in St, NEW success \in BOOLEAN
  PROVE  CompleteDecoderReinitialization(s, success).ds.state \in {"NORMAL", "ERROR"}
<1>. DEFINE x == IF success THEN "NORMAL" ELSE "ERROR"
            t == [s EXCEPT !.ds.state = x]
            u == [t EXCEPT !.ds.decoder_produced_a_frame = FALSE]
            v == CompleteDecoderReinitialization(s, success)
<1>1. v = IF s.ds.reset_cb THEN ResetDone(t)
          ELSE IF ~s.ds.read_cb THEN t
          ELSE IF ~success THEN AbortRead(t) ELSE ReadIfPossible(u)
  BY DEF CompleteDecoderReinitialization
<1>2. t \in St /\ t.ds.state = x /\ x \in {"NORMAL", "ERROR"}
  <2>1. x \in {"NORMAL", "ERROR"} /\ x \in Running \cup {"REINITIALIZING_DECODER", "ERROR"}
    BY DEF Running
  <2>. HIDE DEF x
  <2>. QED
    BY <2>1, InState
<1>3. u \in St /\ u.ds.state = t.ds.state
  <2>. HIDE DEF t
  <2>. QED
    BY <1>2, Parts DEF St, Members
<1>. HIDE DEF t, u, v
<1>. QED
  BY <1>1, <1>2, <1>3, SameState DEF v

LEMMA AnsweredState ==
  ASSUME setup \in Setups, NEW o \in St, Fits(o), o.dec.todo # << >>,
         NEW held \in Seq(Outputs), NEW end_of_stream \in BOOLEAN, NEW ok \in BOOLEAN
  PROVE  LET v == OnDecodeDone(Took(o, held), end_of_stream, ok)
         IN  v.ds.state = "FLUSHING_DECODER" => o.ds.state = "FLUSHING_DECODER"
<1>. DEFINE t == RequestOver(o, held, end_of_stream, ok)
<1>1. t \in St /\ t.ds.state = o.ds.state
  BY DecodeAnswered DEF SameFlags
<1>. HIDE DEF t
<1>2. DecodeFailed(t).ds.state = "ERROR" /\ FallBack(t).ds.state = "REINITIALIZING_DECODER"
  BY <1>1, FailFields, FallBackFields
<1>3. Ended(t).ds.state = "END_OF_STREAM"
  BY <1>1 DEF Ended, SatisfyReadAtEnd, St, Members
<1>4. ReinitializeDecoder(t).ds.state = "REINITIALIZING_DECODER"
  BY <1>1 DEF ReinitializeDecoder, St, Members
<1>5. ReadIfPossible(t).ds.state = t.ds.state
  BY <1>1, SameState
<1>. QED
  BY <1>1, <1>2, <1>3, <1>4, <1>5, DecodeTurns DEF t

LEMMA ArrivedState ==
  ASSUME OneAtATime, NEW s \in St, Fits(s), s.ds.pending_demuxer_read, NEW buffer \in Buffers,
         NEW status \in {"kOk", "kAborted", "kError"}
  PROVE  OnBufferReady(s, status, buffer).ds.state \in {"NORMAL", "ERROR"}
<1>. DEFINE t == [s EXCEPT !.ds.pending_demuxer_read = FALSE, !.demux.reading = "none"]
            emptied == [t EXCEPT !.ds.pending_buffers = << >>]
            failed == IF status = "kError" THEN DecodeFailed(emptied) ELSE t
            normal == [t EXCEPT !.ds.state = "NORMAL"]
            v == OnBufferReady(s, status, buffer)
<1>1. s.ds.state = "NORMAL"
  BY DEF OneAtATime, Fits, OneByOne
<1>2. /\ t \in St /\ Fits(t) /\ ~t.ds.pending_demuxer_read /\ t.ds.state = "NORMAL"
      /\ t.ds.pending_decode_requests = s.ds.pending_decode_requests
      /\ t.ds.reset_cb = s.ds.reset_cb
  BY <1>1, ReadIsOver DEF SameFlags
<1>3. v = IF failed.ds.state = "ERROR"
          THEN IF s.ds.reset_cb THEN ContinueReset(failed) ELSE failed
          ELSE IF s.ds.reset_cb THEN ContinueReset(normal)
          ELSE IF status = "kAborted" THEN AbortRead(normal)
          ELSE ReadIfPossible(Decode(normal, buffer))
  BY <1>1 DEF OnBufferReady
<1>4. normal = t
  <2>. HIDE DEF t
  <2>. QED
    BY <1>2, Parts DEF St, Members
<1>. HIDE DEF t, normal, v
<1>5. failed \in St /\ failed.ds.state \in {"NORMAL", "ERROR"}
  <2>1. << >> \in Seq(Buffers)
    OBVIOUS
  <2>2. emptied \in St
    BY <1>2, <2>1, KeepsBuffers
  <2>3. DecodeFailed(emptied) \in St /\ DecodeFailed(emptied).ds.state = "ERROR"
    BY <2>2, FailFields
  <2>. HIDE DEF emptied
  <2>. QED
    BY <1>2, <2>3
<1>6. ASSUME ~s.ds.reset_cb PROVE ReadIfPossible(Decode(t, buffer)).ds.state = "NORMAL"
  <2>1. MaxRequests = 1 => t.ds.pending_decode_requests = 0 /\ ~t.ds.pending_demuxer_read
    BY <1>2 DEF OneAtATime, Fits, OneByOne
  <2>2. Decode(t, buffer) \in St /\ Decode(t, buffer).ds.state = "NORMAL"
    BY <1>2, <1>6, <2>1, DecodeFits
  <2>. QED
    BY <2>2, SameState
<1>. HIDE DEF failed
<1>. QED
  BY <1>2, <1>3, <1>4, <1>5, <1>6, SameState DEF v

(* A buffer that fails is taken out of what the decoder holds.              *)
LEMMA WithoutParts ==
  ASSUME NEW q \in Seq(Outputs), NEW i \in 1 .. Len(q), Rising(q)
  PROVE  Part(Without(q, i), q)
<1>. DEFINE p == Without(q, i)
            At(j) == IF j < i THEN j ELSE j + 1
<1>1. Len(q) \in Nat /\ i \in Nat
  OBVIOUS
<1>2. p \in Seq(Outputs)
  BY Withouts
<1>3. Len(p) = Len(q) - 1
  <2>1. Len(q) - 1 \in Nat
    BY <1>1
  <2>2. \A j \in 1 .. Len(q) - 1 : p[j] \in Outputs
    <3>1. \A j \in 1 .. Len(q) - 1 : j \in 1 .. Len(q) /\ j + 1 \in 1 .. Len(q)
      BY <1>1
    <3>. QED
      BY <3>1 DEF Without
  <2>3. DOMAIN p = 1 .. Len(q) - 1
    BY DEF Without
  <2>. HIDE DEF p
  <2>. QED
    BY <1>2, <2>1, <2>3
<1>4. \A j \in 1 .. Len(p) : At(j) \in 1 .. Len(q) /\ p[j] = q[At(j)]
  BY <1>1, <1>3 DEF Without
<1>5. \A j, k \in 1 .. Len(p) : j < k => At(j) < At(k)
  BY <1>1, <1>3
<1>. HIDE DEF p, At
<1>6. Rising(p)
  <2>1. SUFFICES ASSUME NEW j \in 1 .. Len(p), NEW k \in 1 .. Len(p), j < k, p[k] # EOS
                 PROVE  p[j] # EOS /\ p[j] < p[k]
    BY DEF Rising
  <2>. QED
    BY <1>4, <1>5, <2>1 DEF Rising
<1>7. Elements(p) \subseteq Elements(q)
  BY <1>4 DEF Elements
<1>. QED
  BY <1>6, <1>7 DEF Part, p

(* The decoder answers its request, or fails it.                            *)
LEMMA AnswersGo ==
  ASSUME OneAtATime, IInv, NEW ok \in BOOLEAN, DecoderAnswers(ok), Sound(Data(Now))
  PROVE  /\ Sound(Data(Now)')
         /\ (ok \/ ds.state # "FLUSHING_DECODER") /\ Full(Data(Now)) => Full(Data(Now)')
         /\ ds'.state = "FLUSHING_DECODER" => ds.state = "FLUSHING_DECODER"
<1>. DEFINE request == dec.todo[1]
            s == [Now EXCEPT !.dec.todo = Tail(@)]
            V(held) == OnDecodeDone(Took(Now, held), request.end_of_stream, ok)
            Left(held) == /\ held \in Seq(Outputs) /\ Part(held, dec.held)
                          /\ ok => /\ held = dec.held
                                   /\ request.buffer = EOS => held = << >>
<1>1. dec.todo # << >> /\ dec.held \in Seq(Outputs) /\ Rising(dec.held)
  <2>1. dec.todo # << >>
    BY Zenon DEF DecoderAnswers
  <2>2. Rising(dec.held)
    BY Found DEF Sound, Ordered, Data
  <2>. QED
    BY <2>1, <2>2, Parts, Found DEF Decoder
<1>2. Head(dec.todo) = request
  <2>1. dec.todo \in Seq(Requests)
    BY Parts, Found DEF Decoder, Requests
  <2>. QED
    BY <1>1, <2>1
<1>. HIDE DEF request
<1>3. Part(dec.held, dec.held)
  BY <1>1 DEF Part
<1>4. \E held : Left(held) /\ Become(V(held))
  <2>1. ASSUME ok => (request.buffer = EOS => dec.held = << >>),
               Become(OnDecodeDone(s, request.end_of_stream, ok))
        PROVE  \E held : Left(held) /\ Become(V(held))
    <3>1. s = Took(Now, dec.held)
      BY Parts, Found DEF Decoder, Now, Took
    <3>2. Left(dec.held)
      BY <1>1, <1>3, <2>1
    <3>. HIDE DEF s, Left
    <3>. QED
      BY <2>1, <3>1, <3>2, Zenon
  <2>2. ASSUME ~ok, NEW i \in 1 .. Len(dec.held),
               Become(OnDecodeDone([s EXCEPT !.dec.held = Without(@, i)],
                                   request.end_of_stream, ok))
        PROVE  \E held : Left(held) /\ Become(V(held))
    <3>1. Left(Without(dec.held, i))
      <4>1. Without(dec.held, i) \in Seq(Outputs)
        BY <1>1, Withouts
      <4>2. Part(Without(dec.held, i), dec.held)
        BY <1>1, WithoutParts
      <4>. QED
        BY <2>2, <4>1, <4>2
    <3>2. [s EXCEPT !.dec.held = Without(@, i)] = Took(Now, Without(dec.held, i))
      BY Parts, Found DEF Decoder, Now, Took
    <3>. HIDE DEF s, Left
    <3>. QED
      BY <2>2, <3>1, <3>2, Zenon
  <2>3. CASE ok
    <3>1. /\ request.buffer = EOS => dec.held = << >>
          /\ Become(OnDecodeDone(s, request.end_of_stream, ok))
      BY <1>2, <2>3, Zenon DEF DecoderAnswers
    <3>. HIDE DEF s, V, Left
    <3>. QED
      BY <2>1, <3>1, Zenon
  <2>4. CASE ~ok
    <3>1. \/ Become(OnDecodeDone(s, request.end_of_stream, ok))
          \/ \E i \in 1 .. Len(dec.held) :
               Become(OnDecodeDone([s EXCEPT !.dec.held = Without(@, i)],
                                   request.end_of_stream, ok))
      BY <1>2, <2>4, Zenon DEF DecoderAnswers, Now
    <3>. HIDE DEF s, V, Left
    <3>. QED
      BY <2>1, <2>2, <2>4, <3>1, Zenon
  <2>. QED
    BY <2>3, <2>4
<1>5. PICK held : Left(held) /\ Become(V(held))
  BY <1>4, Zenon
<1>6. /\ Sound(Data(V(held)))
      /\ (ok \/ ds.state # "FLUSHING_DECODER") /\ Full(Data(Now)) => Full(Data(V(held)))
      /\ V(held).ds.state = "FLUSHING_DECODER" => ds.state = "FLUSHING_DECODER"
  <2>1. Left(held)
    BY <1>5, Zenon
  <2>2. request.end_of_stream \in BOOLEAN
    <3>1. dec.todo \in Seq(Requests)
      BY Parts, Found DEF Decoder, Requests
    <3>2. dec.todo[1] \in Requests
      BY <1>1, <3>1
    <3>. QED
      BY <3>2 DEF request, Requests
  <2>3. V(held).ds.state = "FLUSHING_DECODER" => ds.state = "FLUSHING_DECODER"
    BY <1>1, <2>1, <2>2, Found, AnsweredState DEF OneAtATime
  <2>. QED
    BY <1>1, <2>1, <2>3, Found, AnsweredGoes DEF request
<1>7. Become(V(held))
  BY <1>5, Zenon
<1>. HIDE DEF V
<1>8. Data(Now)' = Data(V(held)) /\ ds'.state = V(held).ds.state
  BY <1>7 DEF Become, Data, Now
<1>. QED
  BY <1>6, <1>8

(* A Reset() begins, or goes on.                                             *)
LEMMA ResetStreamGoes ==
  ASSUME NEW s \in St, setup \in Setups
  PROVE  Goes(s, ResetStream(s)) /\ Goes(s, ContinueReset(s))
<1>. DEFINE m == [s.ds EXCEPT !.reset_cb = TRUE]
            r == [s EXCEPT !.ds = m]
            a == AbortRead(r)
            w == ClearOutputs(a)
            x == [w EXCEPT !.demux.resetting = TRUE]
            y == ResetDecoder(w)
<1>1. ResetStream(s) \in {ResetDone(w), w, x, y}
  BY DEF ResetStream
<1>2. m \in Members
  BY Parts DEF Members
<1>3. /\ m.reset_cb /\ m.state = s.ds.state
      /\ m.decoder_produced_a_frame = s.ds.decoder_produced_a_frame
      /\ m.decoding_eos = s.ds.decoding_eos /\ SameIn(m, s.ds)
  BY Parts DEF Members, SameIn
<1>. HIDE DEF m
<1>4. r \in St /\ r.ds = m /\ r.dec = s.dec /\ r.demux = s.demux /\ r.client = s.client
  BY <1>2 DEF St
<1>. HIDE DEF r
<1>5. a \in St
  BY <1>4, ReadOver
<1>6. w \in St
  BY <1>5, Clears
<1>7. /\ w.ds.state = r.ds.state /\ w.ds.reset_cb = r.ds.reset_cb /\ ~w.ds.read_cb
      /\ w.ds.decoder_produced_a_frame = r.ds.decoder_produced_a_frame
      /\ w.ds.decoding_eos = r.ds.decoding_eos /\ SameIn(w.ds, r.ds)
      /\ w.ds.ready_outputs = << >> /\ w.ds.unprepared_outputs = << >>
      /\ w.dec = r.dec /\ w.demux = r.demux /\ w.client = r.client
  BY <1>4, Parts DEF AbortRead, ClearOutputs, St, Members, SameIn
<1>. HIDE DEF w
<1>8. Data(s) \in Datas /\ Data(w) \in Datas
  BY <1>6, Kind
<1>9. Goes(s, w)
  <2>. DEFINE d == Data(s)
              e == Data(w)
  <2>1. /\ \/ e.state = d.state /\ e.reset
           \/ e.state = "ERROR" /\ e.reset = d.reset
        /\ ~e.read /\ e.produced = d.produced /\ e.eos = d.eos
        /\ e.got = d.got /\ e.from = d.from /\ e.ended = d.ended /\ e.ready = << >>
        /\ e.unprepared = << >> /\ e.held = d.held /\ e.again = d.again
        /\ (e.kept = d.kept \/ (e.kept = << >> /\ e.state = "ERROR"))
        /\ e.todo = d.todo /\ e.initializing = d.initializing /\ e.next = d.next
    BY <1>3, <1>4, <1>7 DEF Data, SameIn
  <2>2. d \in Datas /\ e \in Datas
    BY <1>8
  <2>3. Moves(d, e)
    <3>. HIDE DEF d, e
    <3>. QED
      BY <2>1, <2>2, Dropped
  <2>. QED
    BY <2>3 DEF Goes
<1>10. Data(x) = Data(w) /\ Data(y) = Data(w)
  BY <1>6, Parts DEF ResetDecoder, Data, St, Stream, Decoder
<1>11. Goes(w, ResetDone(w))
  BY <1>6, ResetGoes
<1>12. Goes(s, ResetStream(s))
  <2>1. Goes(w, x) /\ Goes(w, y) /\ Goes(w, w)
    BY <1>10 DEF Goes, Moves
  <2>. HIDE DEF x, y
  <2>. QED
    BY <1>1, <1>9, <1>11, <2>1, GoesOn
<1>. QED
  BY <1>12, GoesOn DEF ContinueReset

(* The demuxer answers the read that finds o; s is what it leaves to be      *)
(* handled.                                                                  *)
LEMMA BufferGoes ==
  ASSUME OneAtATime, NEW o \in St, NEW s \in St, Fits(s), s.ds.pending_demuxer_read,
         s.ds = o.ds, s.dec = o.dec, s.client = o.client, NEW buffer \in Buffers,
         NEW status \in {"kOk", "kAborted", "kConfigChanged", "kError"},
         status = "kError" => s.demux.reading = "raw" \/ ~s.demux.resetting,
         IF status = "kOk"
         THEN \/ buffer = o.demux.next /\ buffer # EOS /\ s.demux.next = o.demux.next + 1
              \/ buffer = EOS /\ o.demux.next = MaxBuffers + 1 /\ s.demux.next = o.demux.next
         ELSE s.demux.next = o.demux.next
  PROVE  Moves(Data(o), Data(OnBufferReady(s, status, buffer)))
<1>. DEFINE t == [s EXCEPT !.ds.pending_demuxer_read = FALSE, !.demux.reading = "none"]
            emptied == [t EXCEPT !.ds.pending_buffers = << >>]
            failed == DecodeFailed(emptied)
            normal == [t EXCEPT !.ds.state = "NORMAL"]
            changed == [t EXCEPT !.ds.state = "FLUSHING_DECODER", !.ds.pending_buffers = << >>]
            v == OnBufferReady(s, status, buffer)
            d == Data(o)
            e == Data(v)
<1>1. /\ s.ds.state = "NORMAL" /\ s.dec.todo = << >> /\ s.ds.fallback_buffers = << >>
      /\ ~s.dec.reinitializing
  <2>1. s.ds.state = "NORMAL" /\ Len(s.dec.todo) = 0 /\ s.ds.fallback_buffers = << >>
    BY DEF OneAtATime, Fits, OneByOne, Counts
  <2>2. s.dec.todo \in Seq(Requests)
    BY Parts DEF Decoder, Requests
  <2>. QED
    BY <2>1, <2>2, EmptySeq DEF Fits, Selecting
<1>2. v \in St /\ setup \in Setups
  BY BufferArrives DEF OneAtATime
<1>3. d \in Datas /\ e \in Datas
  BY <1>2, Kind
<1>4. /\ t \in St /\ Fits(t) /\ t.dec = s.dec /\ ~t.ds.pending_demuxer_read
      /\ t.ds.state = s.ds.state /\ t.ds.pending_decode_requests = s.ds.pending_decode_requests
  BY ReadIsOver DEF SameFlags
<1>5. /\ SameSide(t.ds, s.ds) /\ SameIn(t.ds, s.ds) /\ SameOutQueues(t.ds, s.ds)
      /\ t.ds.read_cb = s.ds.read_cb /\ t.demux.next = s.demux.next /\ t.client = s.client
  BY Parts DEF St, Members, Stream, SameSide, SameIn, SameOutQueues
<1>6. v = LET g == IF status = "kError" THEN failed ELSE t
          IN  IF g.ds.state = "ERROR"
              THEN IF s.ds.reset_cb THEN ContinueReset(g) ELSE g
              ELSE IF status = "kConfigChanged"
              THEN IF s.ds.reset_cb THEN ContinueReset(changed) ELSE DecodeInternal(changed, EOS)
              ELSE IF s.ds.reset_cb THEN ContinueReset(normal)
              ELSE IF status = "kAborted" THEN AbortRead(normal)
              ELSE ReadIfPossible(Decode(normal, buffer))
  BY <1>1 DEF OnBufferReady
<1>7. normal = t
  <2>. HIDE DEF t
  <2>. QED
    BY <1>1, <1>4, Parts DEF St, Members
<1>. HIDE DEF t, v, normal
<1>. SUFFICES Moves(d, e)
  BY DEF v
<1>8. << >> \in Seq(Buffers) /\ EOS \in Buffers
  BY DEF Buffers
<1>9. CASE status = "kError"
  <2>1. /\ emptied \in St /\ emptied.ds.pending_buffers = << >>
        /\ emptied.ds.fallback_buffers = << >>
        /\ SameSide(emptied.ds, t.ds) /\ SameOutQueues(emptied.ds, t.ds)
        /\ emptied.ds.read_cb = t.ds.read_cb
        /\ emptied.dec = t.dec /\ emptied.demux = t.demux /\ emptied.client = t.client
    <3>1. emptied \in St
      BY <1>4, <1>8, KeepsBuffers
    <3>2. /\ emptied.ds.pending_buffers = << >>
          /\ emptied.ds.fallback_buffers = t.ds.fallback_buffers
          /\ SameSide(emptied.ds, t.ds) /\ SameOutQueues(emptied.ds, t.ds)
          /\ emptied.ds.read_cb = t.ds.read_cb
          /\ emptied.dec = t.dec /\ emptied.demux = t.demux /\ emptied.client = t.client
      BY <1>4, Parts DEF St, Members, SameSide, SameOutQueues
    <3>. QED
      BY <1>1, <1>5, <3>1, <3>2 DEF SameIn
  <2>. HIDE DEF emptied
  <2>2. /\ failed \in St /\ failed.ds.state = "ERROR" /\ ~failed.ds.read_cb
        /\ failed.ds.ready_outputs = << >> /\ failed.ds.unprepared_outputs = << >>
        /\ failed.ds.reset_cb = emptied.ds.reset_cb
        /\ failed.ds.decoder_produced_a_frame = emptied.ds.decoder_produced_a_frame
        /\ failed.ds.decoding_eos = emptied.ds.decoding_eos /\ SameIn(failed.ds, emptied.ds)
        /\ failed.dec = emptied.dec /\ failed.demux = emptied.demux
        /\ failed.client = emptied.client
    BY <2>1, FailFields
  <2>. HIDE DEF failed
  <2>3. v \in {failed, ContinueReset(failed)}
    BY <1>6, <1>9, <2>2
  <2>4. Goes(o, failed)
    <3>. DEFINE f == Data(failed)
    <3>1. f \in Datas
      BY <2>2, Kind
    <3>2. /\ f.state = "ERROR" /\ f.reset = d.reset
          /\ ~f.read /\ f.produced = d.produced /\ f.eos = d.eos /\ f.got = d.got
          /\ f.from = d.from /\ f.ended = d.ended /\ f.ready = << >> /\ f.unprepared = << >>
          /\ f.held = d.held /\ f.again = d.again /\ f.kept = << >> /\ f.todo = d.todo
          /\ f.initializing = d.initializing /\ f.next = d.next
      BY <1>1, <1>4, <1>5, <1>9, <2>1, <2>2 DEF Data, SameSide, SameIn
    <3>3. Moves(d, f)
      <4>. HIDE DEF d, f
      <4>. QED
        BY <1>2, <1>3, <3>1, <3>2, Dropped
    <3>. QED
      BY <3>3 DEF Goes
  <2>5. Goes(failed, ContinueReset(failed))
    BY <1>2, <2>2, ResetStreamGoes
  <2>6. Goes(o, v)
    BY <2>3, <2>4, <2>5, GoesOn
  <2>. QED
    BY <2>6 DEF Goes
<1>10. CASE status = "kConfigChanged"
  <2>1. changed \in St
    <3>1. changed = [[t EXCEPT !.ds.state = "FLUSHING_DECODER"] EXCEPT !.ds.pending_buffers = << >>]
      BY <1>4 DEF St
    <3>. DEFINE u == [t EXCEPT !.ds.state = "FLUSHING_DECODER"]
                n == [u.ds EXCEPT !.pending_buffers = << >>]
    <3>2. u \in St
      BY <1>4, InState DEF Running
    <3>3. changed = [u EXCEPT !.ds = n]
      BY <3>1
    <3>. HIDE DEF u
    <3>4. n \in Members
      <4>1. u.ds \in Members
        BY <3>2, Parts
      <4>. QED
        BY <1>8, <4>1 DEF Members
    <3>. HIDE DEF n
    <3>. QED
      BY <3>2, <3>3, <3>4 DEF St
  <2>2. /\ changed.ds.state = "FLUSHING_DECODER" /\ changed.ds.pending_buffers = << >>
        /\ changed.ds.fallback_buffers = t.ds.fallback_buffers
        /\ changed.ds.reset_cb = t.ds.reset_cb /\ changed.ds.read_cb = t.ds.read_cb
        /\ changed.ds.decoder_produced_a_frame = t.ds.decoder_produced_a_frame
        /\ changed.ds.decoding_eos = t.ds.decoding_eos /\ SameOutQueues(changed.ds, t.ds)
        /\ changed.dec = t.dec /\ changed.demux = t.demux /\ changed.client = t.client
    BY <1>4, Parts DEF St, Members, SameOutQueues
  <2>. HIDE DEF changed
  <2>. DEFINE f == Data(changed)
  <2>3. f \in Datas
    BY <2>1, Kind
  <2>4. Moves(d, f)
    <3>1. /\ Still(f, d) /\ d.state = "NORMAL" /\ f.state = "FLUSHING_DECODER"
          /\ d.todo = << >> /\ f.todo = d.todo
          /\ f.eos = d.eos /\ d.again = << >> /\ f.again = d.again /\ f.kept = << >>
          /\ f.held = d.held /\ f.next = d.next
      BY <1>1, <1>4, <1>5, <1>10, <2>2
         DEF Data, Still, SameSide, SameIn, SameOutQueues
    <3>. HIDE DEF d, f
    <3>. QED
      BY <1>2, <1>3, <2>3, <3>1, Flushed
  <2>5. CASE s.ds.reset_cb
    <3>1. v = ContinueReset(changed)
      BY <1>1, <1>4, <1>6, <1>10, <2>5
    <3>2. Goes(changed, v)
      BY <1>2, <2>1, <3>1, ResetStreamGoes
    <3>. QED
      BY <2>4, <3>2 DEF Goes, Moves
  <2>6. CASE ~s.ds.reset_cb
    <3>1. v = DecodeInternal(changed, EOS)
      BY <1>1, <1>4, <1>6, <1>10, <2>6
    <3>2. ASSUME Sound(d) PROVE Moves(f, e)
      <4>1. ~changed.ds.decoding_eos /\ changed.dec.todo = << >>
        BY <1>1, <1>4, <1>5, <2>2, <3>2 DEF Sound, EndsLast, Data, SameSide
      <4>2. /\ v.ds.decoding_eos = (EOS = EOS) /\ v.dec.todo = << Request(EOS) >>
            /\ v.dec.held = IF EOS = EOS THEN changed.dec.held ELSE Append(changed.dec.held, EOS)
            /\ v.dec.reinitializing = changed.dec.reinitializing
            /\ v.demux = changed.demux /\ v.client = changed.client
            /\ v.ds.state = changed.ds.state /\ v.ds.reset_cb = changed.ds.reset_cb
            /\ v.ds.read_cb = changed.ds.read_cb
            /\ v.ds.decoder_produced_a_frame = changed.ds.decoder_produced_a_frame
            /\ SameIn(v.ds, changed.ds) /\ SameOutQueues(v.ds, changed.ds)
        BY <1>8, <2>1, <3>1, <4>1, DecodeFields
      <4>3. /\ Still(e, f) /\ f.state = "FLUSHING_DECODER" /\ e.state = f.state
            /\ e.again = f.again /\ e.kept = f.kept
            /\ e.held = f.held /\ e.next = f.next /\ e.todo = << Request(EOS) >>
        BY <2>2, <4>2 DEF Data, Still, SameIn, SameOutQueues
      <4>. HIDE DEF e, f
      <4>. QED
        BY <1>3, <2>3, <4>3, FlushAsked
    <3>. QED
      BY <2>4, <3>2 DEF Moves
  <2>. QED
    BY <2>5, <2>6
<1>11. CASE status \in {"kOk", "kAborted"} /\ s.ds.reset_cb
  <2>1. v = ContinueReset(t)
    BY <1>1, <1>4, <1>6, <1>7, <1>11
  <2>. DEFINE f == Data(t)
  <2>2. f \in Datas
    BY <1>4, Kind
  <2>3. Moves(d, f)
    <3>1. /\ Still(f, d) /\ d.reset /\ d.state = "NORMAL" /\ f.state = d.state
          /\ d.todo = << >> /\ f.todo = d.todo /\ f.eos = d.eos
          /\ f.again = d.again /\ f.kept = d.kept /\ f.held = d.held
      BY <1>1, <1>4, <1>5, <1>11 DEF Data, Still, SameSide, SameIn, SameOutQueues
    <3>2. d.next <= f.next
      <4>1. o.demux.next \in 1 .. MaxBuffers + 1
        BY Parts DEF Stream
      <4>2. \A n \in 1 .. MaxBuffers + 1 : n \in Int /\ n <= n /\ n <= n + 1
        OBVIOUS
      <4>. QED
        BY <1>5, <4>1, <4>2 DEF Data
    <3>. HIDE DEF d, f
    <3>. QED
      BY <1>2, <1>3, <2>2, <3>1, <3>2, Missed
  <2>4. Goes(t, v)
    BY <1>2, <1>4, <2>1, ResetStreamGoes
  <2>. QED
    BY <2>3, <2>4 DEF Goes, Moves
<1>12. CASE status = "kAborted" /\ ~s.ds.reset_cb
  <2>1. v = AbortRead(t)
    BY <1>1, <1>4, <1>6, <1>7, <1>12
  <2>2. Data(t) = d
    BY <1>4, <1>5, <1>12 DEF Data, SameSide, SameIn, SameOutQueues
  <2>3. Goes(t, v)
    BY <1>4, <2>1, AbortGoes
  <2>. QED
    BY <2>2, <2>3 DEF Goes
<1>13. CASE status = "kOk" /\ ~s.ds.reset_cb
  <2>. DEFINE p == IF t.ds.decoder_produced_a_frame THEN t.ds.pending_buffers
                   ELSE Append(t.ds.pending_buffers, buffer)
              k == [t EXCEPT !.ds.pending_buffers = p]
              w == DecodeInternal(k, buffer)
  <2>1. Decode(t, buffer) = w
    <3>1. k = IF t.ds.decoder_produced_a_frame THEN t
              ELSE [t EXCEPT !.ds.pending_buffers = Append(@, buffer)]
      BY <1>4, Parts DEF St, Members
    <3>2. t.ds.fallback_buffers = << >>
      BY <1>1, <1>5 DEF SameIn
    <3>. HIDE DEF k
    <3>. QED
      BY <3>1, <3>2 DEF Decode
  <2>2. p \in Seq(Buffers)
    BY <1>4, Parts DEF Members
  <2>. HIDE DEF p
  <2>3. k \in St /\ Fits(k) /\ k.ds.pending_decode_requests = t.ds.pending_decode_requests
    BY <1>4, <2>2, KeepsBuffers
  <2>4. /\ SameSide(k.ds, t.ds) /\ SameOutQueues(k.ds, t.ds) /\ k.ds.read_cb = t.ds.read_cb
        /\ k.ds.pending_buffers = p /\ k.ds.fallback_buffers = t.ds.fallback_buffers
        /\ k.dec = t.dec /\ k.demux = t.demux /\ k.client = t.client
    BY <1>4, <2>2, Parts DEF St, Members, SameSide, SameOutQueues
  <2>. HIDE DEF k
  <2>5. w \in St /\ w.ds.pending_decode_requests = k.ds.pending_decode_requests + 1
    BY <2>3, Decodes DEF Fits
  <2>6. v = w
    <3>1. w.ds.pending_decode_requests # 0
      <4>1. k.ds.pending_decode_requests \in Nat
        BY <2>3, Parts
      <4>2. \A n \in Nat : n + 1 # 0
        OBVIOUS
      <4>. QED
        BY <2>5, <4>1, <4>2
    <3>2. ReadIfPossible(w) = w
      BY <2>5, <3>1, RoomForOne DEF ReadIfPossible, OneAtATime
    <3>. QED
      BY <1>1, <1>4, <1>6, <1>7, <1>13, <2>1, <3>2
  <2>. HIDE DEF w
  <2>7. ASSUME Sound(d) PROVE Moves(d, e)
    <3>1. ~k.ds.decoding_eos /\ k.dec.todo = << >>
      BY <1>1, <1>4, <1>5, <2>4, <2>7 DEF Sound, EndsLast, Data, SameSide
    <3>2. /\ v.ds.decoding_eos = (buffer = EOS) /\ v.dec.todo = << Request(buffer) >>
          /\ v.dec.held = IF buffer = EOS THEN k.dec.held ELSE Append(k.dec.held, buffer)
          /\ v.dec.reinitializing = k.dec.reinitializing
          /\ v.demux = k.demux /\ v.client = k.client
          /\ v.ds.state = k.ds.state /\ v.ds.reset_cb = k.ds.reset_cb
          /\ v.ds.read_cb = k.ds.read_cb
          /\ v.ds.decoder_produced_a_frame = k.ds.decoder_produced_a_frame
          /\ SameIn(v.ds, k.ds) /\ SameOutQueues(v.ds, k.ds)
      BY <2>3, <2>6, <3>1, DecodeFields DEF w
    <3>3. /\ Still(e, d) /\ d.state = "NORMAL" /\ ~d.initializing /\ e.state = d.state
          /\ d.todo = << >> /\ d.again = << >> /\ e.again = d.again
          /\ e.todo = << Request(buffer) >> /\ e.eos = (buffer = EOS)
      BY <1>1, <1>4, <1>5, <2>4, <3>2 DEF Data, Still, SameSide, SameIn, SameOutQueues
    <3>4. /\ e.kept = IF d.produced THEN d.kept ELSE Append(d.kept, buffer)
          /\ e.held = IF buffer = EOS THEN d.held ELSE Append(d.held, buffer)
      BY <1>4, <1>5, <2>4, <3>2 DEF Data, SameSide, SameIn, p
    <3>5. \/ buffer = d.next /\ buffer # EOS /\ e.next = d.next + 1
          \/ buffer = EOS /\ d.next = MaxBuffers + 1 /\ e.next = d.next
      BY <1>5, <1>13, <2>4, <3>2 DEF Data
    <3>. HIDE DEF d, e
    <3>. QED
      BY <1>2, <1>3, <3>3, <3>4, <3>5, DecodedNext
  <2>. QED
    BY <2>7 DEF Moves
<1>. QED
  BY <1>9, <1>10, <1>11, <1>12, <1>13

(* What a step leaves is what its handler leaves.                            *)
LEMMA Left ==
  ASSUME NEW v, Become(v)
  PROVE  Data(Now)' = Data(v)
  BY DEF Become, Data, Now

(* The demuxer answers the read.                                            *)
LEMMA StreamAnswersGo ==
  ASSUME OneAtATime, IInv, NEW status \in {"kOk", "kAborted", "kConfigChanged", "kError"},
         StreamAnswers(status)
  PROVE  /\ Moves(Data(Now), Data(Now)')
         /\ status = "kConfigChanged" \/ ds'.state # "FLUSHING_DECODER"
<1>. DEFINE buffer == IF demux.next > MaxBuffers THEN EOS ELSE demux.next
            n == [Now.demux EXCEPT !.next = @ + 1]
            w == [Now EXCEPT !.demux = n]
            after == IF status = "kOk" /\ buffer # EOS THEN w ELSE Now
            v == OnBufferReady(after, status, buffer)
<1>1. Become(v)
  <2>1. w = [Now EXCEPT !.demux.next = @ + 1]
    OBVIOUS
  <2>. HIDE DEF w
  <2>. QED
    BY <2>1 DEF StreamAnswers
<1>2. demux.next \in 1 .. MaxBuffers + 1
  BY Parts, Found DEF Stream
<1>3. /\ buffer \in Buffers /\ (buffer # EOS => demux.next + 1 \in 1 .. MaxBuffers + 1)
      /\ IF buffer = EOS THEN demux.next = MaxBuffers + 1 ELSE buffer = demux.next
  BY <1>2, Found, Numbers DEF Buffers
<1>4. ds.pending_demuxer_read /\ demux.reading # "none"
  BY Found DEF StreamAnswers, Fits, Reading
<1>5. status = "kError" => demux.reading = "raw" \/ ~demux.resetting
  BY DEF StreamAnswers
<1>. HIDE DEF buffer
<1>6. ASSUME buffer # EOS
      PROVE  /\ n \in Stream /\ n.reading = demux.reading /\ n.resetting = demux.resetting
             /\ n.next = demux.next + 1
  BY <1>3, <1>6, Parts, Found DEF Stream
<1>. HIDE DEF n
<1>7. ASSUME buffer # EOS
      PROVE  /\ w \in St /\ w.ds = ds /\ w.sel = sel /\ w.dec = dec /\ w.demux = n
             /\ w.client = client
  BY <1>6, <1>7, Found DEF St
<1>. HIDE DEF w
<1>8. ASSUME buffer # EOS PROVE Fits(w)
  <2>1. Counts(w) /\ Prepares(w) /\ Reading(w) /\ Resetting(w)
    BY <1>6, <1>7, <1>8, Found DEF Fits, Counts, Prepares, Reading, Resetting
  <2>2. Selecting(w) /\ HasDecoder(w)
    BY <1>7, <1>8, Found DEF Fits, Selecting, HasDecoder
  <2>3. MaxRequests = 1 => OneByOne(w)
    BY <1>6, <1>7, <1>8, Found DEF Fits, OneByOne
  <2>. QED
    BY <2>1, <2>2, <2>3 DEF Fits
<1>9. /\ after \in St /\ Fits(after) /\ after.ds = ds /\ after.dec = dec
      /\ after.client = client
      /\ after.demux.reading = demux.reading /\ after.demux.resetting = demux.resetting
      /\ IF status = "kOk"
         THEN \/ buffer = demux.next /\ buffer # EOS /\ after.demux.next = demux.next + 1
              \/ buffer = EOS /\ demux.next = MaxBuffers + 1 /\ after.demux.next = demux.next
         ELSE after.demux.next = demux.next
  BY <1>3, <1>6, <1>7, <1>8, Found
<1>. HIDE DEF after
<1>10. Moves(Data(Now), Data(v))
  BY <1>3, <1>4, <1>5, <1>9, Found, BufferGoes
<1>11. status = "kConfigChanged" \/ v.ds.state # "FLUSHING_DECODER"
  BY <1>3, <1>4, <1>9, ArrivedState
<1>. HIDE DEF v
<1>. QED
  BY <1>1, <1>10, <1>11, Left DEF Become

(* The selector goes on; only OnDecoderSelected() tells the stream.          *)
LEMMA SelectorGoes ==
  ASSUME IInv, NEW success \in BOOLEAN,
         \/ OnDecoderInitializeDone(success)
         \/ OnDecryptingDemuxerStreamInitializeDone(success)
  PROVE  Data(Now)' = Data(Now)
<1>1. CASE OnDecoderInitializeDone(success)
  <2>. DEFINE w == [Now EXCEPT !.sel.phase = "done", !.sel.found = TRUE]
              v == IF success THEN w ELSE InitializeDecoder(Now)
  <2>1. Become(v)
    BY <1>1 DEF OnDecoderInitializeDone
  <2>2. SameButSel(w, Now)
    BY Found DEF SameButSel, St
  <2>3. SameButSel(InitializeDecoder(Now), Now)
    BY Found, SelectorOnly
  <2>. HIDE DEF w
  <2>4. SameButSel(v, Now)
    BY <2>2, <2>3
  <2>. HIDE DEF v
  <2>. QED
    BY <2>1, <2>4, Left DEF SameButSel, Data
<1>2. CASE OnDecryptingDemuxerStreamInitializeDone(success)
  <2>. DEFINE n == [Now.sel EXCEPT !.dds = TRUE, !.decrypted = TRUE, !.left = setup.decoders]
              w == [Now EXCEPT !.sel = n]
              v == IF success THEN InitializeDecoder(w) ELSE ReturnNullDecoder(Now)
  <2>1. Become(v)
    <3>1. w = [Now EXCEPT !.sel.dds = TRUE, !.sel.decrypted = TRUE, !.sel.left = setup.decoders]
      BY Parts, Found DEF St, Selector
    <3>. HIDE DEF w
    <3>. QED
      BY <1>2, <3>1 DEF OnDecryptingDemuxerStreamInitializeDone
  <2>2. n \in Selector
    BY Parts, Found, Lefts DEF Selector
  <2>. HIDE DEF n
  <2>3. w \in St /\ SameButSel(w, Now)
    BY <2>2, Found DEF St, SameButSel
  <2>. HIDE DEF w
  <2>4. SameButSel(InitializeDecoder(w), w)
    BY <2>3, SelectorOnly
  <2>5. SameButSel(ReturnNullDecoder(Now), Now)
    BY Parts, Found DEF ReturnNullDecoder, SameButSel, St, Selector
  <2>6. SameButSel(v, Now)
    BY <2>3, <2>4, <2>5 DEF SameButSel
  <2>. HIDE DEF v
  <2>. QED
    BY <2>1, <2>6, Left DEF SameButSel, Data
<1>. QED
  BY <1>1, <1>2

(* A decoder has been selected or initialized again, or not.                 *)
LEMMA CompletesGoes ==
  ASSUME OneAtATime, NEW s \in St, NEW success \in BOOLEAN, Counts(s),
         s.ds.state \in Choosing, s.dec.todo = << >>, ~s.dec.reinitializing,
         success => Elements(s.ds.fallback_buffers) = Elements(s.ds.pending_buffers)
  PROVE  Goes(s, CompleteDecoderReinitialization(s, success))
<1>. DEFINE x == IF success THEN "NORMAL" ELSE "ERROR"
            t == [s EXCEPT !.ds.state = x]
            m == [t.ds EXCEPT !.decoder_produced_a_frame = FALSE]
            u == [t EXCEPT !.ds = m]
            v == CompleteDecoderReinitialization(s, success)
<1>1. x \in Running \cup {"REINITIALIZING_DECODER", "ERROR"} /\ setup \in Setups
  BY DEF Running, OneAtATime
<1>2. v = IF s.ds.reset_cb THEN ResetDone(t)
          ELSE IF ~s.ds.read_cb THEN t
          ELSE IF ~success THEN AbortRead(t) ELSE ReadIfPossible(u)
  BY DEF CompleteDecoderReinitialization
<1>. HIDE DEF v
<1>3. /\ t \in St /\ t.ds.state = x /\ t.dec = s.dec /\ t.demux = s.demux
      /\ t.client = s.client
      /\ t.ds.pending_decode_requests = s.ds.pending_decode_requests
  BY <1>1, InState DEF SameButState
<1>4. /\ t.ds.reset_cb = s.ds.reset_cb /\ t.ds.read_cb = s.ds.read_cb
      /\ t.ds.decoder_produced_a_frame = s.ds.decoder_produced_a_frame
      /\ t.ds.decoding_eos = s.ds.decoding_eos
      /\ SameIn(t.ds, s.ds) /\ SameOutQueues(t.ds, s.ds)
  BY Parts DEF St, Members, SameIn, SameOutQueues
<1>. HIDE DEF t
<1>5. /\ m \in Members /\ m.state = t.ds.state
      /\ m.reset_cb = t.ds.reset_cb /\ m.read_cb = t.ds.read_cb
      /\ m.decoder_produced_a_frame = FALSE /\ m.decoding_eos = t.ds.decoding_eos
      /\ m.pending_decode_requests = t.ds.pending_decode_requests
      /\ SameIn(m, t.ds) /\ SameOutQueues(m, t.ds)
  BY <1>3, Parts DEF Members, SameIn, SameOutQueues
<1>. HIDE DEF m
<1>6. /\ u \in St /\ u.ds = m /\ u.dec = t.dec /\ u.demux = t.demux /\ u.client = t.client
  BY <1>3, <1>5 DEF St
<1>. HIDE DEF u
<1>. DEFINE d == Data(s)
<1>7. d \in Datas /\ Data(t) \in Datas /\ Data(u) \in Datas
  BY <1>3, <1>6, Kind
<1>8. ASSUME NEW w \in {t, u}, w = t \/ success PROVE Goes(s, w)
  <2>. DEFINE e == Data(w)
  <2>1. /\ e.reset = d.reset /\ e.read = d.read /\ e.got = d.got
        /\ e.from = d.from /\ e.ended = d.ended /\ e.ready = d.ready
        /\ e.unprepared = d.unprepared
        /\ d.state \in Choosing /\ d.todo = << >> /\ e.todo = << >> /\ ~e.initializing
        /\ e.eos = d.eos /\ e.again = d.again /\ e.kept = d.kept /\ e.held = d.held
        /\ e.next = d.next
    BY <1>3, <1>4, <1>5, <1>6 DEF Data, SameIn, SameOutQueues
  <2>2. \/ /\ e.state = "NORMAL" /\ e.produced \in {d.produced, FALSE}
           /\ Elements(d.again) = Elements(d.kept)
        \/ e.state = "ERROR" /\ e.produced = d.produced
    <3>1. success => Elements(d.again) = Elements(d.kept)
      BY DEF Data
    <3>2. CASE w = t
      BY <1>3, <1>4, <3>1, <3>2 DEF Data
    <3>3. CASE w = u /\ success
      <4>1. e.produced = FALSE /\ e.state = "NORMAL"
        BY <1>3, <1>5, <1>6, <3>3 DEF Data
      <4>. HIDE DEF d, e
      <4>. QED
        BY <3>1, <3>3, <4>1
    <3>. QED
      BY <1>8, <3>2, <3>3
  <2>3. Moves(d, e)
    <3>1. e \in Datas
      BY <1>7, <1>8
    <3>. HIDE DEF d, e
    <3>. QED
      BY <1>1, <1>7, <2>1, <2>2, <3>1, Completed
  <2>. QED
    BY <2>3 DEF Goes
<1>9. Goes(t, ResetDone(t)) /\ Goes(t, AbortRead(t))
  BY <1>1, <1>3, ResetGoes, AbortGoes
<1>10. success => Goes(u, ReadIfPossible(u))
  BY <1>3, <1>5, <1>6, ReadsOn DEF Counts
<1>11. Goes(s, v)
  BY <1>2, <1>8, <1>9, <1>10, GoesOn
<1>. QED
  BY <1>11 DEF v

(* The decoder has been initialized again for another config, or not.       *)
LEMMA ReinitializedGoes ==
  ASSUME OneAtATime, IInv, NEW success \in BOOLEAN, OnDecoderReinitialized(success)
  PROVE  Moves(Data(Now), Data(Now)') /\ ds'.state # "FLUSHING_DECODER"
<1>. DEFINE s == [Now EXCEPT !.dec = NewDecoder]
            v == IF success THEN CompleteDecoderReinitialization(s, TRUE) ELSE SelectDecoder(s)
            d == Data(Now)
            e == Data(s)
<1>1. Become(v)
  BY DEF OnDecoderReinitialized
<1>2. /\ Now.ds.state = "REINITIALIZING_DECODER" /\ Now.dec.reinitializing
      /\ Now.dec.todo = << >> /\ Counts(Now)
  BY Found DEF OnDecoderReinitialized, Fits, Selecting
<1>3. /\ s \in St /\ s.dec = NewDecoder /\ s.ds = Now.ds /\ s.demux = Now.demux
      /\ s.client = Now.client
  BY Found, New DEF St, NewDecoderFits
<1>. HIDE DEF s
<1>4. Moves(d, e)
  <2>1. d \in Datas /\ e \in Datas
    BY <1>3, Found, Kind
  <2>2. /\ e.reset = d.reset /\ e.read = d.read /\ e.produced = d.produced /\ e.got = d.got
        /\ e.from = d.from /\ e.ended = d.ended /\ e.ready = d.ready
        /\ e.unprepared = d.unprepared
        /\ d.state \in Choosing /\ e.state = d.state /\ d.todo = << >> /\ e.todo = << >>
        /\ e.eos = d.eos /\ e.again \in {d.again, d.kept} /\ e.kept = d.kept
        /\ e.held = << >> /\ ~e.initializing /\ e.next = d.next
    BY <1>2, <1>3, New DEF Data, NewDecoderFits, Choosing
  <2>. HIDE DEF d, e
  <2>. QED
    BY <2>1, <2>2, Refilled, Found
<1>5. ASSUME Sound(d) PROVE Moves(e, Data(v))
  <2>1. CASE success
    <3>1. s.ds.fallback_buffers = << >> /\ s.ds.pending_buffers = << >>
      BY <1>2, <1>3, <1>5 DEF Sound, Keeps, Data
    <3>2. Counts(s)
      BY <1>2, <1>3, New DEF Counts, NewDecoderFits
    <3>3. Goes(s, CompleteDecoderReinitialization(s, TRUE))
      BY <1>2, <1>3, <3>1, <3>2, New, CompletesGoes DEF NewDecoderFits, Choosing
    <3>. QED
      BY <2>1, <3>3 DEF Goes
  <2>2. CASE ~success
    <3>1. SameButSel(SelectDecoder(s), s)
      BY <1>3, SelectorOnly
    <3>2. Data(SelectDecoder(s)) = e
      BY <3>1 DEF SameButSel, Data
    <3>. QED
      BY <2>2, <3>2 DEF Moves
  <2>. QED
    BY <2>1, <2>2
<1>6. Moves(d, Data(v))
  BY <1>4, <1>5 DEF Moves
<1>7. v.ds.state # "FLUSHING_DECODER"
  <2>1. TRUE \in BOOLEAN
    OBVIOUS
  <2>2. CompleteDecoderReinitialization(s, TRUE).ds.state # "FLUSHING_DECODER"
    BY <1>3, <2>1, CompletedState
  <2>3. SelectDecoder(s).ds.state # "FLUSHING_DECODER"
    BY <1>2, <1>3, SelectorOnly DEF SameButSel
  <2>. QED
    BY <2>2, <2>3
<1>. HIDE DEF v
<1>. QED
  BY <1>1, <1>6, <1>7, Left DEF Become

(* OnDecoderSelected(): the stream has another decoder, or none.             *)
LEMMA SelectedGoes ==
  ASSUME OneAtATime, IInv, OnDecoderSelected
  PROVE  Moves(Data(Now), Data(Now)') /\ ds'.state # "FLUSHING_DECODER"
<1>. DEFINE selected == [Now EXCEPT !.sel.phase = "idle", !.sel.dds = FALSE,
                           !.ds.decoder = sel.found, !.dec = NewDecoder,
                           !.ds.decrypting_demuxer_stream = @ \/ sel.dds]
            refilled == [selected EXCEPT !.ds.fallback_buffers = ds.pending_buffers]
            started == [refilled EXCEPT !.ds.init_cb = FALSE,
                          !.ds.state = IF sel.found THEN "NORMAL" ELSE "UNINITIALIZED"]
            v == IF ds.received_config_change_during_reinit
                 THEN CompleteDecoderReinitialization(selected, FALSE)
                 ELSE IF ds.state = "REINITIALIZING_DECODER"
                 THEN CompleteDecoderReinitialization(refilled, sel.found)
                 ELSE started
            d == Data(Now)
            e == Data(selected)
            f == Data(refilled)
            g == Data(started)
<1>1. Become(v)
  BY DEF OnDecoderSelected
<1>. HIDE DEF v
<1>2. /\ ds.state \in Choosing /\ dec.todo = << >> /\ ds.pending_decode_requests = 0
      /\ setup \in Setups
  BY Found DEF OnDecoderSelected, Fits, Counts, Selecting, Choosing, Away
<1>3. ds \in Members /\ sel \in Selector /\ Now \in St
  BY Parts, Found
<1>4. ds.pending_buffers \in Seq(Buffers) /\ sel.found \in BOOLEAN
  BY <1>3 DEF Members, Selector
<1>. DEFINE p == ds.pending_buffers
            found == Now.sel.found
            decrypting == Now.ds.decrypting_demuxer_stream \/ Now.sel.dds
            n == [Now.sel EXCEPT !.phase = "idle", !.dds = FALSE]
            m == [Now.ds EXCEPT !.decoder = found, !.decrypting_demuxer_stream = decrypting]
            o == [m EXCEPT !.fallback_buffers = p]
            i == [o EXCEPT !.init_cb = FALSE,
                           !.state = IF sel.found THEN "NORMAL" ELSE "UNINITIALIZED"]
            Of(k) == [ds |-> k, sel |-> n, dec |-> NewDecoder, demux |-> demux, client |-> client]
<1>5. selected = Of(m)
  <2>. DEFINE j == [[Now EXCEPT !.sel = n] EXCEPT !.dec = NewDecoder]
  <2>1. selected = [j EXCEPT !.ds = m]
    BY Parts, Found DEF Members, Selector, Now
  <2>. HIDE DEF m, n, selected
  <2>. QED
    BY <2>1 DEF Now
<1>6. refilled = Of(o)
  <2>. HIDE DEF selected, m, n
  <2>. QED
    BY <1>5
<1>7. started = Of(i)
  <2>. DEFINE x == IF sel.found THEN "NORMAL" ELSE "UNINITIALIZED"
  <2>. HIDE DEF refilled, o
  <2>1. /\ started = [refilled EXCEPT !.ds.init_cb = FALSE, !.ds.state = x]
        /\ i = [o EXCEPT !.init_cb = FALSE, !.state = x]
    BY Zenon
  <2>. HIDE DEF started, i, n, x
  <2>2. refilled.ds = o
    BY <1>6
  <2>3. [refilled EXCEPT !.ds.init_cb = FALSE, !.ds.state = x]
          = [refilled EXCEPT !.ds = [refilled.ds EXCEPT !.init_cb = FALSE, !.state = x]]
    BY <1>6
  <2>4. [refilled EXCEPT !.ds = i] = Of(i)
    BY <1>6
  <2>. QED
    BY <2>1, <2>2, <2>3, <2>4
<1>. HIDE DEF selected, refilled, started
<1>8. n \in Selector
  BY <1>3, Parts DEF Selector
<1>9. decrypting \in BOOLEAN /\ found \in BOOLEAN /\ p \in Seq(Buffers)
  BY <1>3, <1>4, Parts DEF Members, Selector
<1>. HIDE DEF n, found, decrypting, p
<1>10. /\ m \in Members /\ SameSide(m, ds) /\ SameIn(m, ds) /\ SameOutQueues(m, ds)
       /\ m.read_cb = ds.read_cb /\ m.pending_decode_requests = ds.pending_decode_requests
  <2>1. Now.ds = ds
    BY DEF Now
  <2>. QED
    BY <1>3, <1>9, <2>1 DEF Members, SameSide, SameIn, SameOutQueues
<1>. HIDE DEF m
<1>11. /\ o \in Members /\ SameSide(o, m) /\ SameOutQueues(o, m) /\ o.read_cb = m.read_cb
       /\ o.pending_decode_requests = m.pending_decode_requests
       /\ o.fallback_buffers = p /\ o.pending_buffers = m.pending_buffers
  BY <1>9, <1>10 DEF Members, SameSide, SameOutQueues
<1>. HIDE DEF o
<1>12. /\ i \in Members /\ i.state = IF sel.found THEN "NORMAL" ELSE "UNINITIALIZED"
       /\ i.reset_cb = o.reset_cb /\ i.decoder_produced_a_frame = o.decoder_produced_a_frame
       /\ i.decoding_eos = o.decoding_eos /\ i.read_cb = o.read_cb
       /\ SameIn(i, o) /\ SameOutQueues(i, o)
  BY <1>4, <1>9, <1>11 DEF Members, SameIn, SameOutQueues
<1>. HIDE DEF i
<1>13. \A k \in Members :
         /\ Of(k) \in St /\ Of(k).ds = k /\ Of(k).dec = NewDecoder
         /\ Of(k).demux = demux /\ Of(k).client = client
  BY <1>3, <1>8, New, Parts, Found DEF St, NewDecoderFits
<1>. HIDE DEF Of
<1>14. /\ selected \in St /\ selected.ds = m /\ selected.dec = NewDecoder
       /\ selected.demux = demux /\ selected.client = client
       /\ refilled \in St /\ refilled.ds = o /\ refilled.dec = NewDecoder
       /\ refilled.demux = demux /\ refilled.client = client
       /\ started \in St /\ started.ds = i /\ started.dec = NewDecoder
       /\ started.demux = demux /\ started.client = client
  BY <1>5, <1>6, <1>7, <1>10, <1>11, <1>12, <1>13
<1>15. d \in Datas /\ e \in Datas /\ f \in Datas /\ g \in Datas
  BY <1>3, <1>14, Kind
<1>16. Moves(d, e) /\ Moves(d, f)
  <2>1. /\ e.reset = d.reset /\ e.read = d.read /\ e.produced = d.produced /\ e.got = d.got
        /\ e.from = d.from /\ e.ended = d.ended /\ e.ready = d.ready
        /\ e.unprepared = d.unprepared
        /\ d.state \in Choosing /\ e.state = d.state /\ d.todo = << >> /\ e.todo = << >>
        /\ e.eos = d.eos /\ e.again \in {d.again, d.kept} /\ e.kept = d.kept
        /\ e.held = << >> /\ ~e.initializing /\ e.next = d.next
    BY <1>2, <1>10, <1>14, New
       DEF Data, Now, NewDecoderFits, SameSide, SameIn, SameOutQueues
  <2>2. /\ f.reset = d.reset /\ f.read = d.read /\ f.produced = d.produced /\ f.got = d.got
        /\ f.from = d.from /\ f.ended = d.ended /\ f.ready = d.ready
        /\ f.unprepared = d.unprepared
        /\ f.state = d.state /\ f.todo = << >>
        /\ f.eos = d.eos /\ f.again \in {d.again, d.kept} /\ f.kept = d.kept
        /\ f.held = << >> /\ ~f.initializing /\ f.next = d.next
    BY <1>2, <1>10, <1>11, <1>14, New
       DEF Data, Now, NewDecoderFits, SameSide, SameIn, SameOutQueues, p
  <2>. HIDE DEF d, e, f
  <2>. QED
    BY <1>2, <1>15, <2>1, <2>2, Refilled
<1>17. v.ds.state # "FLUSHING_DECODER"
  <2>1. /\ CompleteDecoderReinitialization(selected, FALSE).ds.state \in {"NORMAL", "ERROR"}
        /\ CompleteDecoderReinitialization(refilled, sel.found).ds.state \in {"NORMAL", "ERROR"}
    BY <1>4, <1>14, CompletedState
  <2>2. started.ds.state # "FLUSHING_DECODER"
    BY <1>12, <1>14
  <2>. QED
    BY <2>1, <2>2 DEF v
<1>18. ds'.state # "FLUSHING_DECODER"
  BY <1>1, <1>17 DEF Become
<1>19. CASE ds.received_config_change_during_reinit
  <2>1. Goes(selected, CompleteDecoderReinitialization(selected, FALSE))
    <3>1. /\ Counts(selected) /\ selected.ds.state \in Choosing
          /\ selected.dec.todo = << >> /\ ~selected.dec.reinitializing
      BY <1>2, <1>10, <1>14, New DEF NewDecoderFits, Counts, SameSide
    <3>2. FALSE \in BOOLEAN /\ selected \in St
      BY <1>14
    <3>. QED
      BY <3>1, <3>2, CompletesGoes
  <2>2. v = CompleteDecoderReinitialization(selected, FALSE)
    BY <1>19 DEF v
  <2>3. Moves(d, Data(v))
    BY <1>16, <2>1, <2>2 DEF Goes, Moves
  <2>. QED
    BY <1>1, <1>18, <2>3, Left
<1>20. CASE ~ds.received_config_change_during_reinit /\ ds.state = "REINITIALIZING_DECODER"
  <2>1. Elements(refilled.ds.fallback_buffers) = Elements(refilled.ds.pending_buffers)
    BY <1>10, <1>11, <1>14 DEF SameIn, p
  <2>2. Goes(refilled, CompleteDecoderReinitialization(refilled, sel.found))
    BY <1>2, <1>4, <1>10, <1>11, <1>14, <2>1, New, CompletesGoes
       DEF NewDecoderFits, Counts, SameSide
  <2>3. v = CompleteDecoderReinitialization(refilled, sel.found)
    BY <1>20 DEF v
  <2>4. Moves(d, Data(v))
    BY <1>16, <2>2, <2>3 DEF Goes, Moves
  <2>. QED
    BY <1>1, <1>18, <2>4, Left
<1>21. CASE ~ds.received_config_change_during_reinit /\ ds.state = "INITIALIZING"
  <2>1. v = started
    BY <1>21 DEF v
  <2>2. /\ g.reset = f.reset /\ g.read = f.read /\ g.got = f.got
        /\ g.from = f.from /\ g.ended = f.ended /\ g.ready = f.ready
        /\ g.unprepared = f.unprepared
        /\ f.state = "INITIALIZING" /\ f.todo = << >> /\ g.todo = << >> /\ ~g.initializing
        /\ g.eos = f.eos /\ g.again = f.again /\ g.kept = f.kept /\ g.held = f.held
        /\ g.next = f.next /\ g.produced = f.produced
        /\ Elements(f.again) = Elements(f.kept)
    BY <1>10, <1>11, <1>12, <1>14, <1>21, New
       DEF Data, NewDecoderFits, SameSide, SameIn, SameOutQueues, p
  <2>3. g.state = "NORMAL" \/ g.state = "UNINITIALIZED"
    BY <1>12, <1>14 DEF Data
  <2>4. Moves(f, g)
    <3>. HIDE DEF f, g
    <3>. QED
      BY <1>2, <1>15, <2>2, <2>3, Completed DEF Choosing
  <2>5. Moves(d, Data(v))
    BY <1>16, <2>1, <2>4 DEF Moves
  <2>. QED
    BY <1>1, <1>18, <2>5, Left
<1>. QED
  BY <1>2, <1>19, <1>20, <1>21, <1>18 DEF Choosing

(* The decoder has been reset, for a config change or for the client.        *)
LEMMA DecoderResetGoes ==
  ASSUME OneAtATime, IInv, Sound(Data(Now)), OnDecoderReset
  PROVE  Moves(Data(Now), Data(Now)') /\ ds'.state # "FLUSHING_DECODER"
<1>. DEFINE eos == /\ Now.ds.decoding_eos
                   /\ \A i \in 1 .. Len(dec.todo) : ~dec.todo[i].end_of_stream
            m == [Now.ds EXCEPT !.pending_decode_requests = 0, !.decoding_eos = eos,
                                !.fallback_buffers = << >>, !.pending_buffers = << >>]
            c == [[Now EXCEPT !.ds = m] EXCEPT !.dec = NewDecoder]
            normal == [c EXCEPT !.ds.state = "NORMAL"]
            aborted == [Now EXCEPT !.dec = NewDecoder, !.ds.pending_decode_requests = 0,
                          !.ds.decoding_eos = eos]
            cleared == [aborted EXCEPT !.ds.fallback_buffers = << >>,
                                       !.ds.pending_buffers = << >>]
            d == Data(Now)
            e == Data(normal)
<1>1. eos \in BOOLEAN
  BY Parts, Found DEF Members
<1>2. ~eos
  <2>1. ds.decoding_eos => dec.todo # << >> /\ dec.todo[1].end_of_stream
    BY DEF Sound, EndsLast, Data, Now
  <2>2. dec.todo \in Seq(Requests)
    BY Parts, Found DEF Decoder, Requests
  <2>3. dec.todo # << >> => 1 \in 1 .. Len(dec.todo)
    BY <2>2
  <2>. QED
    BY <2>1, <2>3, Found
<1>3. Become(IF ds.state = "FLUSHING_DECODER" THEN ReinitializeDecoder(cleared)
             ELSE ResetDone([cleared EXCEPT !.ds.state = "NORMAL"]))
  BY DEF OnDecoderReset, Now
<1>. HIDE DEF eos
<1>4. cleared = c
  BY Parts, Found DEF Members, Now
<1>. HIDE DEF cleared
<1>5. \/ Now.ds.state = "FLUSHING_DECODER" /\ Become(ReinitializeDecoder(c))
      \/ Now.ds.state # "FLUSHING_DECODER" /\ Become(ResetDone(normal))
  BY <1>3, <1>4, Found
<1>6. << >> \in Seq(Buffers)
  OBVIOUS
<1>7. /\ m \in Members /\ m.reset_cb = Now.ds.reset_cb /\ m.read_cb = Now.ds.read_cb
      /\ m.decoder_produced_a_frame = Now.ds.decoder_produced_a_frame
      /\ m.decoding_eos = FALSE /\ m.state = Now.ds.state
      /\ m.fallback_buffers = << >> /\ m.pending_buffers = << >>
      /\ SameOutQueues(m, Now.ds)
  BY <1>1, <1>2, <1>6, Parts, Found DEF Members, SameOutQueues
<1>. HIDE DEF m
<1>8. /\ c \in St /\ c.ds = m /\ c.dec = NewDecoder /\ c.demux = Now.demux
      /\ c.client = Now.client
  BY <1>7, Found, New DEF St, NewDecoderFits
<1>. HIDE DEF c
<1>9. Now.ds.reset_cb
  BY Found DEF OnDecoderReset, Fits, Resetting
<1>10. /\ normal \in St /\ normal.ds.state = "NORMAL"
       /\ normal.dec = c.dec /\ normal.demux = c.demux /\ normal.client = c.client
  BY <1>8, InState DEF Running
<1>11. /\ normal.ds.reset_cb = m.reset_cb /\ normal.ds.read_cb = m.read_cb
       /\ normal.ds.decoder_produced_a_frame = m.decoder_produced_a_frame
       /\ normal.ds.decoding_eos = m.decoding_eos
       /\ SameIn(normal.ds, m) /\ SameOutQueues(normal.ds, m)
  BY <1>7, <1>8 DEF St, Members, SameIn, SameOutQueues
<1>. HIDE DEF normal
<1>12. d \in Datas /\ e \in Datas
  BY <1>10, Found, Kind
<1>13. CASE Now.ds.state = "FLUSHING_DECODER" /\ Become(ReinitializeDecoder(c))
  <2>. DEFINE v == ReinitializeDecoder(c)
              f == Data(v)
  <2>1. /\ v.ds.state = "REINITIALIZING_DECODER" /\ v.ds.reset_cb = m.reset_cb
        /\ v.ds.read_cb = m.read_cb
        /\ v.ds.decoder_produced_a_frame = m.decoder_produced_a_frame
        /\ v.ds.decoding_eos = m.decoding_eos
        /\ SameIn(v.ds, m) /\ SameOutQueues(v.ds, m)
        /\ v.dec = [NewDecoder EXCEPT !.reinitializing = TRUE] /\ v.demux = Now.demux
        /\ v.client = Now.client
    BY <1>7, <1>8 DEF ReinitializeDecoder, St, Members, SameIn, SameOutQueues
  <2>2. v \in St
    <3>1. [NewDecoder EXCEPT !.reinitializing = TRUE] \in Decoder
      BY New DEF NewDecoderFits, Decoder
    <3>2. v = [[c EXCEPT !.ds = [m EXCEPT !.state = "REINITIALIZING_DECODER"]]
                 EXCEPT !.dec = [NewDecoder EXCEPT !.reinitializing = TRUE]]
      BY <1>8 DEF ReinitializeDecoder, St
    <3>3. [m EXCEPT !.state = "REINITIALIZING_DECODER"] \in Members
      BY <1>7 DEF Members
    <3>. QED
      BY <1>8, <3>1, <3>2, <3>3 DEF St
  <2>. HIDE DEF v
  <2>3. f \in Datas
    BY <2>2, Kind
  <2>4. /\ f.reset = d.reset /\ f.read = d.read /\ f.produced = d.produced /\ f.got = d.got
        /\ f.from = d.from /\ f.ended = d.ended /\ f.ready = d.ready
        /\ f.unprepared = d.unprepared
        /\ d.state = "FLUSHING_DECODER" /\ f.state = "REINITIALIZING_DECODER"
        /\ f.todo = << >> /\ ~f.eos /\ f.again = << >> /\ f.kept = << >>
        /\ f.held = << >> /\ d.reset /\ f.next = d.next
    BY <1>7, <1>8, <1>9, <1>13, <2>1 DEF Data, SameIn, SameOutQueues, NewDecoder
  <2>5. Moves(d, f)
    <3>. HIDE DEF d, f
    <3>. QED
      BY <1>12, <2>3, <2>4, InitializedAgain DEF OneAtATime
  <2>. QED
    BY <1>13, <2>1, <2>5, Left DEF Become, v
<1>14. CASE Become(ResetDone(normal))
  <2>1. /\ e.reset = d.reset /\ e.read = d.read /\ e.produced = d.produced /\ d.reset
    BY <1>7, <1>9, <1>11 DEF Data
  <2>2. /\ e.got = d.got /\ e.from = d.from /\ e.ended = d.ended /\ e.next = d.next
        /\ e.todo = << >> /\ e.held = << >> /\ ~e.initializing
    BY <1>8, <1>10, New DEF Data, NewDecoderFits
  <2>3. /\ e.ready = d.ready /\ e.unprepared = d.unprepared
        /\ e.state = "NORMAL" /\ ~e.eos /\ e.again = << >> /\ e.kept = << >>
    BY <1>7, <1>10, <1>11 DEF Data, SameIn, SameOutQueues
  <2>4. Moves(d, e)
    <3>. HIDE DEF d, e
    <3>. QED
      BY <1>12, <2>1, <2>2, <2>3, Emptied DEF OneAtATime
  <2>5. Goes(normal, ResetDone(normal)) /\ ResetDone(normal).ds.state = "NORMAL"
    BY <1>10, ResetGoes DEF OneAtATime
  <2>6. Moves(d, Data(ResetDone(normal)))
    BY <2>4, <2>5 DEF Moves, Goes
  <2>. QED
    BY <1>14, <2>5, <2>6, Left DEF Become
<1>. QED
  BY <1>5, <1>13, <1>14

(* A reset of the demuxer, or of the DecryptingDemuxerStream.                *)
LEMMA DemuxerResetGoes ==
  ASSUME IInv, OnDecryptingDemuxerStreamReset \/ AbortPendingReads
  PROVE  Data(Now)' = Data(Now)
<1>1. CASE OnDecryptingDemuxerStreamReset
  <2>. DEFINE n == [Now.demux EXCEPT !.resetting = FALSE]
              g == [Now.dec EXCEPT !.resetting = TRUE]
              v == [[Now EXCEPT !.demux = n] EXCEPT !.dec = g]
  <2>1. Become(v)
    BY <1>1, Parts, Found DEF OnDecryptingDemuxerStreamReset, ResetDecoder, St
  <2>2. /\ n.next = demux.next /\ g.todo = dec.todo /\ g.held = dec.held
        /\ g.reinitializing = dec.reinitializing
    BY Parts, Found DEF Stream, Decoder
  <2>. HIDE DEF n, g
  <2>3. v.ds = ds /\ v.dec = g /\ v.demux = n /\ v.client = client
    BY Found DEF St
  <2>. HIDE DEF v
  <2>. QED
    BY <2>1, <2>2, <2>3, Found, Left DEF Data
<1>2. CASE AbortPendingReads
  <2>1. demux'.next = demux.next
    BY <1>2, Parts, Found DEF AbortPendingReads, Stream
  <2>. QED
    BY <1>2, <2>1 DEF AbortPendingReads, Data, Now
<1>. QED
  BY <1>1, <1>2

(* The client reads: it is given what is ready, or waits.                    *)
LEMMA ReadGoes ==
  ASSUME OneAtATime, IInv, UNCHANGED setup, Read
  PROVE  Moves(Data(Now), Data(Now)') /\ ds'.state = ds.state
<1>. DEFINE rest == Tail(ds.ready_outputs)
            x == Head(ds.ready_outputs)
            m == [Now.ds EXCEPT !.ready_outputs = rest]
            w == [Now EXCEPT !.ds = m]
            given == MaybePrepareAnotherOutput(SatisfyRead(w, x))
            k == [Now.ds EXCEPT !.read_cb = TRUE]
            waits == [Now EXCEPT !.ds = k]
            t == IF ds.ready_outputs # << >> THEN given ELSE waits
            v == IF ds.state = "ERROR" THEN Now
                 ELSE IF /\ ds.state = "END_OF_STREAM"
                         /\ ds.ready_outputs = << >> /\ ds.unprepared_outputs = << >>
                 THEN SatisfyReadAtEnd(Now)
                 ELSE IF ds.state = "NORMAL" THEN ReadIfPossible(t) ELSE t
            d == Data(Now)
<1>1. Become(v)
  <2>1. /\ w = [Now EXCEPT !.ds.ready_outputs = Tail(@)]
        /\ waits = [Now EXCEPT !.ds.read_cb = TRUE]
    BY Found
  <2>. HIDE DEF w, waits
  <2>. QED
    BY <2>1 DEF Read
<1>2. ~ds.reset_cb /\ setup \in Setups /\ d \in Datas
  BY Found, Kind DEF Read
<1>3. ds.ready_outputs \in Seq(Outputs)
  BY Parts, Found
<1>4. ASSUME ds.ready_outputs = << >>
      PROVE  waits \in St /\ Counts(waits) /\ waits.ds.state = ds.state /\ Goes(Now, waits)
  <2>1. /\ k \in Members /\ SameSide(k, ds) /\ SameIn(k, ds) /\ SameOutQueues(k, ds)
        /\ k.pending_decode_requests = ds.pending_decode_requests
    BY Parts, Found DEF Members, SameSide, SameIn, SameOutQueues
  <2>. HIDE DEF k
  <2>2. /\ waits \in St /\ waits.ds = k /\ waits.dec = dec /\ waits.demux = demux
        /\ waits.client = client
    BY <2>1, Found DEF St
  <2>. HIDE DEF waits
  <2>3. Counts(waits)
    BY <2>1, <2>2, Found DEF Fits, Counts
  <2>. DEFINE e == Data(waits)
  <2>4. e \in Datas
    BY <2>2, Kind
  <2>5. /\ e.state = d.state /\ e.reset = d.reset /\ e.produced = d.produced
        /\ e.eos = d.eos /\ e.got = d.got /\ e.from = d.from /\ e.ended = d.ended
        /\ e.ready = d.ready /\ e.unprepared = d.unprepared /\ e.held = d.held
        /\ e.again = d.again /\ e.kept = d.kept /\ e.todo = d.todo
        /\ e.initializing = d.initializing /\ e.next = d.next /\ d.ready = << >>
    BY <1>4, <2>1, <2>2 DEF Data, Now, SameSide, SameIn, SameOutQueues
  <2>6. Moves(d, e)
    <3>. HIDE DEF d, e
    <3>. QED
      BY <1>2, <2>4, <2>5, ReadChanges
  <2>. QED
    BY <2>1, <2>2, <2>3, <2>6 DEF Goes, SameSide
<1>5. ASSUME ds.ready_outputs # << >>
      PROVE  given \in St /\ Counts(given) /\ given.ds.state = ds.state /\ Goes(Now, given)
  <2>1. rest \in Seq(Outputs) /\ x \in Outputs
    BY <1>3, <1>5
  <2>. HIDE DEF rest, x
  <2>2. /\ m \in Members /\ SameSide(m, ds) /\ SameIn(m, ds) /\ SameFlags(m, ds)
        /\ m.ready_outputs = rest
        /\ m.unprepared_outputs = ds.unprepared_outputs /\ m.read_cb = ds.read_cb
        /\ m.pending_decode_requests = ds.pending_decode_requests
        /\ m.preparing_output = ds.preparing_output
        /\ m.pending_demuxer_read = ds.pending_demuxer_read
    BY <2>1, Parts, Found DEF Members, SameSide, SameIn, SameFlags
  <2>. HIDE DEF m
  <2>3. /\ w \in St /\ w.ds = m /\ w.sel = sel /\ w.dec = dec /\ w.demux = demux
        /\ w.client = client
    BY <2>2, Found DEF St
  <2>. HIDE DEF w
  <2>4. Like(w, Now) /\ Prepares(w) /\ ~w.ds.reset_cb
        /\ w.ds.fallback_buffers = Now.ds.fallback_buffers
    BY <1>2, <2>2, <2>3, Found DEF Like, SameIn, SameFlags, Prepares, Fits
  <2>5. Fits(w)
    BY <2>3, <2>4, Found, OutputsFit
  <2>. DEFINE o == SatisfyRead(w, x)
  <2>6. o \in St /\ Fits(o) /\ Like(o, w)
    BY <2>1, <2>3, <2>5, ReadOver
  <2>7. /\ o.dec = dec /\ o.demux = demux /\ SameSide(o.ds, ds) /\ SameIn(o.ds, ds)
        /\ ~o.ds.read_cb /\ o.client.from = client.from /\ o.client.ended = client.ended
        /\ o.client.got = Append(client.got, x)
        /\ o.ds.ready_outputs = rest /\ o.ds.unprepared_outputs = ds.unprepared_outputs
    BY <2>2, <2>3, Parts, Found DEF SatisfyRead, St, Members, Client, SameSide, SameIn
  <2>. HIDE DEF o
  <2>8. /\ given.dec = o.dec /\ given.demux = o.demux /\ given.client = o.client
        /\ SameSide(given.ds, o.ds) /\ SameIn(given.ds, o.ds) /\ SameOutQueues(given.ds, o.ds)
        /\ given.ds.read_cb = o.ds.read_cb
    BY <2>6, Parts
       DEF MaybePrepareAnotherOutput, St, Members, SameSide, SameIn, SameOutQueues, o
  <2>9. given \in St /\ Fits(given)
    <3>1. ~o.ds.reset_cb
      BY <1>2, <2>7 DEF SameSide
    <3>. QED
      BY <2>6, <3>1, PreparesAnother DEF o
  <2>. HIDE DEF given
  <2>. DEFINE e == Data(given)
  <2>10. /\ Rest(e, d) /\ e.produced = d.produced /\ e.held = d.held /\ e.kept = d.kept
         /\ d.ready # << >> /\ e.ready = Tail(d.ready) /\ e.got = Append(d.got, Head(d.ready))
         /\ e.unprepared = d.unprepared /\ ~e.read
    BY <1>5, <2>7, <2>8 DEF Data, Now, Rest, SameSide, SameIn, SameOutQueues, x, rest
  <2>11. Moves(d, e)
    <3>1. e \in Datas
      BY <2>9, Kind
    <3>. HIDE DEF d, e
    <3>. QED
      BY <1>2, <2>10, <3>1, HandedOn
  <2>. QED
    BY <2>7, <2>8, <2>9, <2>11 DEF Goes, Fits, SameSide
<1>6. t \in St /\ Counts(t) /\ t.ds.state = ds.state /\ Goes(Now, t)
  <2>. HIDE DEF given, waits
  <2>. QED
    BY <1>4, <1>5
<1>. HIDE DEF t
<1>7. /\ ds.state = "END_OF_STREAM" /\ ds.ready_outputs = << >> /\ ds.unprepared_outputs = << >>
           => Goes(Now, SatisfyReadAtEnd(Now))
  BY <1>2, Found, EndGoes
<1>8. ds.state = "NORMAL" => Goes(t, ReadIfPossible(t))
  BY <1>6, ReadsOn
<1>9. Goes(Now, v)
  BY <1>6, <1>7, <1>8, GoesOn
<1>10. v.ds.state = ds.state
  BY <1>6, Found, SameState
<1>. HIDE DEF v
<1>. QED
  BY <1>1, <1>9, <1>10, Left DEF Goes, Become

(* The client asks for a Reset(), or lets the stream go.                     *)
LEMMA CallsGo ==
  ASSUME OneAtATime, IInv, Data(Now)' \in Datas, Initialize \/ Reset \/ Destroy
  PROVE  Moves(Data(Now), Data(Now)')
<1>. DEFINE d == Data(Now)
<1>1. d \in Datas /\ setup \in Setups
  BY Found, Kind
<1>2. CASE Initialize
  <2>. DEFINE m == [Now.ds EXCEPT !.state = "INITIALIZING", !.init_cb = TRUE]
              s == [Now EXCEPT !.ds = m]
              e == Data(s)
  <2>1. Become(SelectDecoder(s)) /\ ds.state = "UNINITIALIZED"
    <3>1. s = [Now EXCEPT !.ds.state = "INITIALIZING", !.ds.init_cb = TRUE]
      BY Found DEF St
    <3>. HIDE DEF s
    <3>. QED
      BY <1>2, <3>1, Found DEF Initialize
  <2>2. /\ m \in Members /\ m.state = "INITIALIZING" /\ SameIn(m, ds) /\ SameOutQueues(m, ds)
        /\ m.reset_cb = ds.reset_cb /\ m.read_cb = ds.read_cb
        /\ m.decoder_produced_a_frame = ds.decoder_produced_a_frame
        /\ m.decoding_eos = ds.decoding_eos
    BY Parts, Found DEF Members, SameIn, SameOutQueues
  <2>. HIDE DEF m
  <2>3. s \in St /\ s.ds = m /\ s.dec = dec /\ s.demux = demux /\ s.client = client
    BY <2>2, Found DEF St
  <2>. HIDE DEF s
  <2>4. /\ d.state = "UNINITIALIZED" /\ e.state = "INITIALIZING" /\ e.read = d.read
        /\ e.reset = d.reset /\ e.produced = d.produced /\ e.eos = d.eos /\ e.got = d.got
        /\ e.from = d.from /\ e.ended = d.ended /\ e.ready = d.ready
        /\ e.unprepared = d.unprepared /\ e.held = d.held /\ e.again = d.again
        /\ e.kept = d.kept /\ e.todo = d.todo
        /\ e.initializing = d.initializing /\ e.next = d.next
    BY <2>1, <2>2, <2>3 DEF Data, Now, SameIn, SameOutQueues
  <2>5. Data(SelectDecoder(s)) = e
    BY <2>3, SelectorOnly DEF SameButSel, Data
  <2>6. Moves(d, e)
    <3>1. e \in Datas
      BY <2>3, Kind
    <3>. HIDE DEF d, e
    <3>. QED
      BY <1>1, <2>4, <3>1, Started
  <2>. QED
    BY <2>1, <2>5, <2>6, Left
<1>3. CASE Reset
  <2>1. Become(ResetStream(Now))
    BY <1>3 DEF Reset
  <2>. QED
    BY <1>1, <2>1, Found, Left, ResetStreamGoes DEF Goes
<1>4. CASE Destroy
  <2>. DEFINE e == Data(Now)'
  <2>1. demux'.next = demux.next
    BY <1>4, Parts, Found DEF Destroy, Stream
  <2>2. /\ e.state = "destroyed" /\ ~e.read /\ ~e.eos /\ e.ready = << >>
        /\ e.unprepared = << >> /\ e.again = << >> /\ e.kept = << >>
    BY <1>4 DEF Destroy, NewStream, Data, Now
  <2>3. /\ e.held = << >> /\ e.todo = << >> /\ ~e.initializing
        /\ e.got = d.got /\ e.from = d.from /\ e.ended = d.ended /\ e.next = d.next
    BY <1>4, <2>1 DEF Destroy, NewDecoder, Data, Now
  <2>4. e \in Datas
    OBVIOUS
  <2>5. Moves(d, e)
    <3>. HIDE DEF d, e
    <3>. QED
      BY <1>1, <2>2, <2>3, <2>4, Destroyed
  <2>. QED
    BY <2>5
<1>. QED
  BY <1>2, <1>3, <1>4

(**************************************************************************)
(*                    What may be lost, and when                            *)
(**************************************************************************)
(* A decoder is flushed for a config change only.                            *)
Cautious == ds.state = "FLUSHING_DECODER" => spent.changes > 0

LEMMA FlushedForAChange ==
  ASSUME OneAtATime, IInv, UNCHANGED setup, Steps, Sound(Data(Now)),
         ds'.state = "FLUSHING_DECODER"
  PROVE  ds.state = "FLUSHING_DECODER" \/ Spend("changes")
<1>1. Data(Now).state = ds.state /\ Data(Now)'.state = ds'.state
  BY DEF Data, Now
<1>2. CASE Initialize
  <2>. DEFINE s == [Now EXCEPT !.ds.state = "INITIALIZING", !.ds.init_cb = TRUE]
  <2>1. s \in St /\ s.ds.state = "INITIALIZING"
    BY Parts, Found DEF St, Members
  <2>2. Become(SelectDecoder(s))
    BY <1>2 DEF Initialize
  <2>. HIDE DEF s
  <2>3. SelectDecoder(s).ds.state = "INITIALIZING"
    BY <2>1, SelectorOnly DEF SameButSel
  <2>. QED
    BY <2>2, <2>3 DEF Become
<1>3. CASE Read
  BY <1>3, ReadGoes
<1>4. CASE Reset
  BY <1>4, Found, SameState DEF Reset, Become
<1>5. CASE Destroy
  BY <1>5 DEF Destroy, NewStream
<1>6. CASE AbortPendingReads \/ OnDecryptingDemuxerStreamReset
  BY <1>1, <1>6, DemuxerResetGoes
<1>7. CASE Selects
  <2>1. ASSUME NEW success \in BOOLEAN,
               \/ OnDecoderInitializeDone(success)
               \/ OnDecryptingDemuxerStreamInitializeDone(success)
        PROVE  ds'.state = ds.state
    BY <1>1, <2>1, SelectorGoes
  <2>. QED
    BY <1>7, <2>1, SelectedGoes DEF Selects
<1>8. CASE Reinitializes
  BY <1>8, ReinitializedGoes DEF Reinitializes
<1>9. CASE \E ok \in BOOLEAN : DecoderAnswers(ok)
  BY <1>9, AnswersGo
<1>10. CASE DecoderOutputs
  <2>. DEFINE s == [Now EXCEPT !.dec.held = Tail(@)]
  <2>1. Become(OnDecodeOutputReady(s, Head(dec.held)))
    BY <1>10 DEF DecoderOutputs
  <2>2. s \in St /\ s.ds = ds
    <3>1. Tail(dec.held) \in Seq(Outputs)
      BY <1>10, Parts, Found DEF DecoderOutputs, Decoder
    <3>2. [Now.dec EXCEPT !.held = Tail(dec.held)] \in Decoder
      BY <3>1, Parts, Found DEF Decoder
    <3>3. s = [Now EXCEPT !.dec = [Now.dec EXCEPT !.held = Tail(dec.held)]]
      BY Found
    <3>. HIDE DEF s
    <3>. QED
      BY <3>2, <3>3, Found DEF St
  <2>. HIDE DEF s
  <2>3. OnDecodeOutputReady(s, Head(dec.held)).ds.state = s.ds.state
    <3>. HIDE DEF s
    <3>. QED
      BY <2>2 DEF OnDecodeOutputReady, MaybePrepareAnotherOutput, SatisfyRead,
                  FinalizeDecoderSelection, St, Members
  <2>. QED
    BY <2>1, <2>2, <2>3 DEF Become
<1>11. CASE OnDecoderReset
  BY <1>11, DecoderResetGoes
<1>12. CASE Answers
  <2>1. PICK status \in {"kOk", "kAborted", "kConfigChanged", "kError"} : StreamAnswers(status)
    BY <1>12 DEF Answers
  <2>2. status = "kConfigChanged"
    BY <2>1, StreamAnswersGo
  <2>. QED
    BY <2>1, <2>2 DEF StreamAnswers
<1>13. CASE OnPreparedOutputReady
  <2>. DEFINE x == Head(ds.unprepared_outputs)
              done == [Now EXCEPT !.ds.preparing_output = FALSE,
                                  !.ds.unprepared_outputs = Tail(ds.unprepared_outputs)]
              kept == [done EXCEPT !.ds.ready_outputs = Append(@, x)]
              next == MaybePrepareAnotherOutput(IF ds.read_cb THEN SatisfyRead(done, x) ELSE kept)
  <2>1. Become(IF ds.state = "NORMAL" THEN ReadIfPossible(next) ELSE next)
    BY <1>13 DEF OnPreparedOutputReady, Now
  <2>2. next \in St /\ next.ds.state = ds.state
    BY <1>13, PreparedOutputFits
  <2>. HIDE DEF next
  <2>. QED
    BY <2>1, <2>2, SameState DEF Become
<1>. QED
  BY <1>2, <1>3, <1>4, <1>5, <1>6, <1>7, <1>8, <1>9, <1>10, <1>11, <1>12, <1>13 DEF Steps

(* What has been lost stays lost.                                            *)
LEMMA Counted ==
  ASSUME IInv,
         UNCHANGED spent \/ \E what \in {"resets", "changes", "failures"} : Spend(what)
  PROVE  /\ Lossless' => Lossless
         /\ spent.changes > 0 => spent'.changes > 0
         /\ Spend("changes") => spent'.changes > 0
         /\ Spend("failures") => spent'.failures > 0 /\ spent'.changes = spent.changes
<1>1. /\ DOMAIN spent = {"resets", "changes", "failures"}
      /\ spent.changes \in Nat /\ spent.failures \in Nat
      /\ spent = [what \in DOMAIN spent |-> spent[what]]
  <2>1. setup.changes \in Nat /\ setup.failures \in Nat
    <3>1. setup \in Setup
      BY Found, DecoderStreamAssumption
    <3>. QED
      BY <3>1 DEF Setup
  <2>2. spent \in [resets : 0 .. setup.resets, changes : 0 .. setup.changes,
                   failures : 0 .. setup.failures]
    BY DEF IInv, Bounded
  <2>. QED
    BY <2>1, <2>2
<1>2. ASSUME NEW what \in {"resets", "changes", "failures"}, Spend(what)
      PROVE  /\ spent'[what] = spent[what] + 1
             /\ \A other \in {"resets", "changes", "failures"} :
                  other # what => spent'[other] = spent[other]
  BY <1>1, <1>2 DEF Spend
<1>3. CASE UNCHANGED spent
  <2>1. ~Spend("changes") /\ ~Spend("failures")
    <3>1. Spend("changes") => spent.changes = spent.changes + 1
      BY <1>2, <1>3
    <3>2. Spend("failures") => spent.failures = spent.failures + 1
      BY <1>2, <1>3
    <3>. QED
      BY <1>1, <3>1, <3>2
  <2>. QED
    BY <1>3, <2>1 DEF Lossless
<1>4. ASSUME NEW what \in {"resets", "changes", "failures"}, Spend(what)
      PROVE  /\ Lossless' => Lossless
             /\ spent.changes > 0 => spent'.changes > 0
  BY <1>1, <1>2, <1>4 DEF Lossless
<1>5. Spend("changes") => spent'.changes > 0
  BY <1>1, <1>2
<1>6. Spend("failures") => spent'.failures > 0 /\ spent'.changes = spent.changes
  BY <1>1, <1>2
<1>. QED
  BY <1>3, <1>4, <1>5, <1>6

LEMMA StepSpends ==
  ASSUME Steps
  PROVE  UNCHANGED spent \/ \E what \in {"resets", "changes", "failures"} : Spend(what)
<1>1. CASE Initialize \/ Read \/ Reset \/ AbortPendingReads \/ Destroy
  BY <1>1 DEF Initialize, Read, Reset, AbortPendingReads, Destroy
<1>2. CASE Selects \/ Reinitializes
  BY <1>2 DEF Selects, Reinitializes, OnDecoderInitializeDone,
              OnDecryptingDemuxerStreamInitializeDone, OnDecoderSelected,
              OnDecoderReinitialized
<1>3. ASSUME NEW ok \in BOOLEAN, DecoderAnswers(ok)
      PROVE  UNCHANGED spent \/ Spend("failures")
  BY <1>3, Zenon DEF DecoderAnswers
<1>4. CASE DecoderOutputs \/ OnDecoderReset \/ OnDecryptingDemuxerStreamReset
             \/ OnPreparedOutputReady
  BY <1>4 DEF DecoderOutputs, OnDecoderReset, OnDecryptingDemuxerStreamReset,
              OnPreparedOutputReady
<1>5. ASSUME NEW status \in {"kOk", "kAborted", "kConfigChanged", "kError"},
             StreamAnswers(status)
      PROVE  UNCHANGED spent \/ Spend("changes") \/ Spend("failures")
  BY <1>5 DEF StreamAnswers
<1>. QED
  BY <1>1, <1>2, <1>3, <1>4, <1>5 DEF Steps, Answers

(* One step, whatever it is.                                                 *)
LEMMA StepGoes ==
  ASSUME OneAtATime, IInv, UNCHANGED setup, Steps, Data(Now)' \in Datas,
         Sound(Data(Now)), Cautious
  PROVE  /\ Sound(Data(Now)') /\ Cautious' /\ (Lossless' => Lossless)
         /\ Lossless' /\ Full(Data(Now)) => Full(Data(Now)')
<1>1. /\ Lossless' => Lossless
      /\ spent.changes > 0 => spent'.changes > 0
      /\ Spend("changes") => spent'.changes > 0
      /\ Spend("failures") => spent'.failures > 0 /\ spent'.changes = spent.changes
  BY StepSpends, Counted
<1>2. Cautious'
  BY <1>1, FlushedForAChange DEF Cautious
<1>3. CASE \E ok \in BOOLEAN : DecoderAnswers(ok)
  <2>1. PICK ok \in BOOLEAN : DecoderAnswers(ok)
    BY <1>3, Zenon
  <2>2. Spend("failures") \/ ok
    BY <2>1, Zenon DEF DecoderAnswers
  <2>3. Lossless' => ok \/ ds.state # "FLUSHING_DECODER"
    <3>1. SUFFICES ASSUME Spend("failures"), ds.state = "FLUSHING_DECODER" PROVE ~Lossless'
      BY <2>2
    <3>2. spent'.changes > 0 /\ spent'.failures > 0
      BY <1>1, <3>1 DEF Cautious
    <3>. QED
      BY <3>2 DEF Lossless
  <2>. QED
    BY <1>1, <1>2, <2>1, <2>3, AnswersGo
<1>4. CASE Steps /\ ~\E ok \in BOOLEAN : DecoderAnswers(ok)
  <2>. SUFFICES Moves(Data(Now), Data(Now)')
    BY <1>1, <1>2 DEF Moves
  <2>1. CASE Initialize \/ Read \/ Reset \/ Destroy
    BY <2>1, CallsGo, ReadGoes
  <2>2. CASE AbortPendingReads \/ OnDecryptingDemuxerStreamReset
    BY <2>2, DemuxerResetGoes DEF Moves
  <2>3. CASE Selects
    BY <2>3, SelectorGoes, SelectedGoes DEF Selects, Moves
  <2>4. CASE Reinitializes
    BY <2>4, ReinitializedGoes DEF Reinitializes
  <2>5. CASE DecoderOutputs \/ OnDecoderReset
    BY <2>5, OutputGoes, DecoderResetGoes DEF OneAtATime
  <2>6. CASE Answers \/ OnPreparedOutputReady
    BY <2>6, StreamAnswersGo, PreparedGoes DEF Answers
  <2>. QED
    BY <1>4, <2>1, <2>2, <2>3, <2>4, <2>5, <2>6 DEF Steps
<1>. QED
  BY <1>3, <1>4

(**************************************************************************)
(*                        The inductive invariant                           *)
(**************************************************************************)
OrderInv ==
  /\ OneAtATime /\ IInv /\ Cautious
  /\ Sound(Data(Now)) /\ (Lossless => Full(Data(Now)))

LEMMA InitOrder == ASSUME Init, OneRequest PROVE OrderInv
<1>1. IInv /\ OneAtATime
  BY InitInv DEF Init, OneRequest, OneAtATime, MaxRequests
<1>. DEFINE d == Data(Now)
<1>2. /\ d.state = "UNINITIALIZED" /\ ~d.read /\ ~d.produced /\ ~d.eos /\ ~d.ended
      /\ d.got = << >> /\ d.ready = << >> /\ d.unprepared = << >> /\ d.held = << >>
      /\ d.again = << >> /\ d.kept = << >> /\ d.todo = << >> /\ ~d.initializing
      /\ d.from = 1 /\ d.next = 1
  BY DEF Init, Data, Now, NewStream, NewDecoder
<1>. HIDE DEF d
<1>3. Put(d) = {}
  BY <1>2, NoElements DEF Put
<1>4. Ordered(d)
  BY <1>2, <1>3, NoElements DEF Ordered, Before
<1>5. Keeps(d) /\ EndsLast(d) /\ Waits(d)
  BY <1>2, NoElements DEF Keeps, EndsLast, Waits
<1>6. Full(d)
  <2>1. 1 .. d.next - 1 = {}
    BY <1>2
  <2>. QED
    BY <1>2, <1>3, <2>1 DEF Full, NoGap, AllThere, AllGiven
<1>7. Cautious
  BY <1>2 DEF Cautious, d, Data, Now
<1>. QED
  BY <1>1, <1>4, <1>5, <1>6, <1>7 DEF OrderInv, Sound, d

(* What holds of the data of the next state holds in it.                     *)
LEMMA NextData ==
  ASSUME UNCHANGED setup
  PROVE  /\ Sound(Data(Now)') => Sound(Data(Now))'
         /\ Full(Data(Now)') => Full(Data(Now))'
         /\ (Now \in St)' => Data(Now)' \in Datas
<1>1. Sound(Data(Now)') => Sound(Data(Now))'
  BY DEF Sound, Ordered, Keeps, EndsLast, Waits, Put, MaxBuffers
<1>2. Full(Data(Now)') => Full(Data(Now))'
  BY DEF Full, NoGap, AllThere, AllGiven, Put, ToCome, MaxBuffers
<1>3. ASSUME (Now \in St)' PROVE Data(Now)' \in Datas
  <2>1. (Now \in St)' <=> Now' \in St
    BY DEF St, Now, Members, Selector, Decoder, Stream, Client, Buffers, Outputs, MaxBuffers
  <2>2. Now' \in St
    BY <1>3, <2>1
  <2>3. Data(Now)' = Data(Now')
    BY DEF Data, Now
  <2>. QED
    BY <2>2, <2>3, Kind
<1>. QED
  BY <1>1, <1>2, <1>3

LEMMA NextOrder ==
  ASSUME OrderInv, [Next]_<<vars, setup>>
  PROVE  OrderInv'
<1>1. UNCHANGED setup /\ OneAtATime' /\ IInv'
  <2>1. UNCHANGED setup
    BY DEF Next
  <2>2. OneAtATime'
    BY <2>1 DEF OrderInv, OneAtATime, MaxRequests
  <2>. QED
    BY <2>1, <2>2, NextInv DEF OrderInv
<1>2. CASE UNCHANGED <<vars, setup>>
  <2>1. UNCHANGED <<Now, spent, setup, ds>>
    BY <1>2 DEF vars, Now
  <2>2. Data(Now)' = Data(Now)
    BY <2>1 DEF Data
  <2>3. Sound(Data(Now))' /\ (Full(Data(Now)) => Full(Data(Now))')
    BY <1>1, <2>2, NextData DEF OrderInv
  <2>4. Cautious' /\ (Lossless' <=> Lossless)
    BY <2>1 DEF OrderInv, Cautious, Lossless
  <2>. QED
    BY <1>1, <2>3, <2>4 DEF OrderInv
<1>3. CASE Next
  <2>1. Steps
    BY <1>3 DEF Next
  <2>2. Data(Now)' \in Datas
    BY <1>1, NextData DEF IInv
  <2>3. /\ Sound(Data(Now)') /\ Cautious' /\ (Lossless' => Lossless)
        /\ Lossless' /\ Full(Data(Now)) => Full(Data(Now)')
    BY <1>1, <2>1, <2>2, StepGoes DEF OrderInv
  <2>. QED
    BY <1>1, <2>3, NextData DEF OrderInv
<1>. QED
  BY <1>2, <1>3

LEMMA OrderInvariance == Spec /\ OneRequest => []OrderInv
<1>1. Init /\ OneRequest => OrderInv
  BY InitOrder
<1>2. OrderInv /\ [Next]_<<vars, setup>> => OrderInv'
  BY NextOrder
<1>. QED
  BY <1>1, <1>2, PTL DEF Spec

(**************************************************************************)
(*                             The theorems                                 *)
(**************************************************************************)
(* With one request at a time, the client of DecoderStream is given the      *)
(* outputs from the last seek on once and in order, and, but for what a      *)
(* decoder that fails in the flush for a config change takes with it, all of *)
(* them: whatever fails, falls back to another decoder, is reset or prepared.*)
THEOREM OutputsAreInOrder == Spec /\ OneRequest => []InOrder
<1>. DEFINE d == Data(Now)
<1>1. ASSUME OrderInv PROVE InOrder
  <2>1. /\ d \in Datas /\ d.got = client.got /\ d.from = client.from
        /\ Rising(d.got) /\ (Lossless => NoGap(d))
        /\ Before(Elements(d.got), Elements(d.ready) \cup Elements(d.unprepared))
    <3>1. d \in Datas
      BY <1>1, Found, Kind DEF OrderInv
    <3>2. d.got = client.got /\ d.from = client.from
      BY DEF Data, Now
    <3>. QED
      BY <1>1, <3>1, <3>2 DEF OrderInv, Sound, Full, Ordered, Before
  <2>. HIDE DEF d
  <2>2. /\ client.got \in Seq(Outputs) /\ Len(client.got) \in Nat
        /\ \A i \in 1 .. Len(client.got) : client.got[i] \in Outputs /\ client.got[i] # EOS
    <3>1. client.got \in Seq(Outputs)
      BY <2>1 DEF Datas
    <3>2. EOS \notin Outputs
      BY DEF Outputs, EOS
    <3>. QED
      BY <3>1, <3>2
  <2>3. ASSUME NEW i \in Fresh, NEW j \in Fresh, i < j
        PROVE  client.got[i] < client.got[j]
    BY <2>1, <2>2, <2>3 DEF Fresh, Rising
  <2>4. ASSUME Lossless, NEW i \in Fresh, NEW n \in client.from .. client.got[i]
        PROVE  Given(n)
    <3>1. /\ i \in 1 .. Len(d.got) /\ d.got[i] \in Elements(d.got) /\ d.got[i] \in Outputs
          /\ n \in d.from .. d.got[i]
      BY <2>1, <2>2, <2>4 DEF Fresh, Elements
    <3>2. n \in Put(d)
      BY <2>1, <2>4, <3>1 DEF NoGap, Put
    <3>3. n \in Int /\ n # EOS /\ n <= d.got[i] /\ d.got[i] \in Int /\ n >= client.from
      <4>1. n \in Outputs /\ n # EOS
        BY <2>1, <3>2, Kinds
      <4>2. \A x \in Outputs : x \in Int
        BY DEF Outputs
      <4>3. client.from \in Int
        BY <1>1, <2>1, Found, Numbers DEF Datas, OrderInv
      <4>4. \A a, b \in Int : \A k \in a .. b : a <= k /\ k <= b
        OBVIOUS
      <4>5. d.from <= n /\ n <= d.got[i]
        BY <2>1, <3>1, <4>2, <4>3, <4>4
      <4>. QED
        BY <2>1, <3>1, <4>1, <4>2, <4>3, <4>5
    <3>4. n \in Elements(d.ready) \cup Elements(d.unprepared) => d.got[i] < n
      BY <2>1, <3>1, <3>3 DEF Before
    <3>5. n \in Elements(d.got)
      BY <3>2, <3>3, <3>4 DEF Put
    <3>. QED
      BY <2>1, <3>3, <3>5 DEF Given, Fresh, Elements
  <2>. QED
    BY <2>3, <2>4 DEF InOrder
<1>. QED
  BY <1>1, OrderInvariance, PTL

(* With one request at a time, the client is told of the end of the stream   *)
(* when it has been given every output from the last seek on, but for what   *)
(* is lost in the flush for a config change.                                 *)
THEOREM TheEndIsReal == Spec /\ OneRequest => []EndIsReal
<1>. DEFINE d == Data(Now)
<1>1. ASSUME OrderInv PROVE EndIsReal
  <2>1. SUFFICES ASSUME client.ended, Lossless, NEW n \in client.from .. MaxBuffers
                 PROVE  Given(n)
    BY DEF EndIsReal
  <2>2. /\ d \in Datas /\ d.got = client.got /\ d.from = client.from /\ d.ended
        /\ AllGiven(d)
    <3>1. d \in Datas
      BY <1>1, Found, Kind DEF OrderInv
    <3>2. d.got = client.got /\ d.from = client.from /\ d.ended
      BY <2>1 DEF Data, Now
    <3>. QED
      BY <1>1, <2>1, <3>1, <3>2 DEF OrderInv, Full
  <2>. HIDE DEF d
  <2>3. n \in Elements(d.got)
    BY <2>1, <2>2 DEF AllGiven
  <2>4. n >= client.from
    <3>1. client.from \in Int /\ MaxBuffers \in Int
      BY <1>1, <2>2, Found, Numbers DEF Datas, OrderInv
    <3>. QED
      BY <3>1
  <2>. QED
    BY <2>2, <2>3, <2>4 DEF Given, Fresh, Elements
<1>. QED
  BY <1>1, OrderInvariance, PTL
=============================================================================
