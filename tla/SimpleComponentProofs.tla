------------------------ MODULE SimpleComponentProofs ------------------------
(***************************************************************************)
(* Proofs about SimpleComponent, for every set of client threads, every    *)
(* decoder and number of entries: type correctness, with the bounds of the *)
(* ring buffer, the accounting of works while output is sent in a loop of  *)
(* critical sections, the contract, and what flush_sm returns with; then,  *)
(* while the calls that change the state of the component come one at a    *)
(* time, that no step uses a codec which is not there and that the sound   *)
(* an AAC decoder holds back goes out under the works it belongs to; and,  *)
(* for one client, that the end of a stream leaves no work behind.         *)
(***************************************************************************)
EXTENDS SimpleComponent, WorkDequeProofs, SequenceTheorems

Outcomes == {"none", "ok", "notFound", "flushed", "lost"}

-----------------------------------------------------------------------------
(* What the callbacks make of a codec.                                      *)

\* A codec as it may be: the ring buffer holds no more than its size, and no more
\* sound is owed than the decoder delays.
GoodCodecs == {c \in Codecs : c.filled <= RingSize /\ c.compensated <= c.delay}

\* The fields of a good codec.
LEMMA GoodFields ==
  ASSUME NEW c \in GoodCodecs
  PROVE  /\ c \in Codecs /\ c.conf \in BOOLEAN /\ c.lib \in BOOLEAN /\ c.setUp \in BOOLEAN
         /\ c.open \in BOOLEAN /\ c.infos \in Seq(Infos) /\ c.known \in BOOLEAN
         /\ c.error \in BOOLEAN /\ c.filled \in Nat /\ c.compensated \in Nat /\ c.delay \in Nat
         /\ c.filled <= RingSize /\ c.compensated <= c.delay
BY DEF GoodCodecs, Codecs

\* The changes the callbacks are made of, one field or a few at a time.
LEMMA GoodChanges ==
  ASSUME NEW c \in GoodCodecs
  PROVE  /\ \A b \in BOOLEAN : [c EXCEPT !.conf = b] \in GoodCodecs /\ [c EXCEPT !.lib = b] \in GoodCodecs
         /\ \A b \in BOOLEAN : [c EXCEPT !.setUp = b] \in GoodCodecs /\ [c EXCEPT !.open = b] \in GoodCodecs
         /\ \A b \in BOOLEAN : [c EXCEPT !.known = b] \in GoodCodecs /\ [c EXCEPT !.error = b] \in GoodCodecs
         /\ \A s \in Seq(Infos) : [c EXCEPT !.infos = s] \in GoodCodecs
<1>1. c \in Codecs /\ c.filled <= RingSize /\ c.compensated <= c.delay
  BY DEF GoodCodecs
<1>2. \A b \in BOOLEAN : [c EXCEPT !.conf = b] \in GoodCodecs /\ [c EXCEPT !.lib = b] \in GoodCodecs
  BY <1>1 DEF GoodCodecs, Codecs
<1>3. \A b \in BOOLEAN : [c EXCEPT !.setUp = b] \in GoodCodecs /\ [c EXCEPT !.open = b] \in GoodCodecs
  BY <1>1 DEF GoodCodecs, Codecs
<1>4. \A b \in BOOLEAN : [c EXCEPT !.known = b] \in GoodCodecs /\ [c EXCEPT !.error = b] \in GoodCodecs
  BY <1>1 DEF GoodCodecs, Codecs
<1>5. \A s \in Seq(Infos) : [c EXCEPT !.infos = s] \in GoodCodecs
  BY <1>1 DEF GoodCodecs, Codecs
<1> QED BY <1>2, <1>3, <1>4, <1>5

\* The number of frames, and of those owed, change within their bounds.
LEMMA GoodAmounts ==
  ASSUME NEW c \in GoodCodecs, NEW f \in Nat, f <= RingSize, NEW k \in Nat, k <= c.delay
  PROVE  /\ [c EXCEPT !.filled = f, !.compensated = k] \in GoodCodecs
         /\ [c EXCEPT !.filled = f] \in GoodCodecs
         /\ \A b \in BOOLEAN : [c EXCEPT !.filled = f, !.known = b] \in GoodCodecs
         /\ \A b \in BOOLEAN : [c EXCEPT !.filled = f, !.compensated = k, !.error = b] \in GoodCodecs
         /\ \A s \in Seq(Infos) : [c EXCEPT !.filled = f, !.infos = s] \in GoodCodecs
<1>1. c \in Codecs /\ c.filled <= RingSize /\ c.compensated <= c.delay
  BY DEF GoodCodecs
<1>2. [c EXCEPT !.filled = f, !.compensated = k] \in GoodCodecs
  BY <1>1 DEF GoodCodecs, Codecs
<1>3. [c EXCEPT !.filled = f] \in GoodCodecs
  BY <1>1 DEF GoodCodecs, Codecs
<1>4. \A b \in BOOLEAN : [c EXCEPT !.filled = f, !.known = b] \in GoodCodecs
  BY <1>1 DEF GoodCodecs, Codecs
<1>5. \A b \in BOOLEAN : [c EXCEPT !.filled = f, !.compensated = k, !.error = b] \in GoodCodecs
  BY <1>1 DEF GoodCodecs, Codecs
<1>6. \A s \in Seq(Infos) : [c EXCEPT !.filled = f, !.infos = s] \in GoodCodecs
  BY <1>1 DEF GoodCodecs, Codecs
<1> QED BY <1>2, <1>3, <1>4, <1>5, <1>6

\* The parts the callbacks share.
LEMMA GoodParts ==
  ASSUME NEW c \in GoodCodecs
  PROVE  NoInfos(c) \in GoodCodecs /\ Opened(c) \in GoodCodecs /\ TornDown(c) \in GoodCodecs
<1>1. c \in Codecs /\ c.filled <= RingSize /\ c.compensated <= c.delay
  BY DEF GoodCodecs
<1>2. <<>> \in Seq(Infos)
  BY EmptySeq
<1>3. NoInfos(c) \in GoodCodecs
  BY <1>2, GoodChanges DEF NoInfos
<1>4. Opened(c) \in GoodCodecs
  BY <1>1 DEF Opened, GoodCodecs, Codecs
<1>5. TornDown(c) \in GoodCodecs
  BY <1>1 DEF TornDown, GoodCodecs, Codecs
<1> QED BY <1>3, <1>4, <1>5

\* The lesser of two amounts.
LEMMA LeastProperty ==
  ASSUME NEW a \in Nat, NEW b \in Nat
  PROVE  Least(a, b) \in Nat /\ Least(a, b) <= a /\ Least(a, b) <= b
BY DEF Least

\* The result of a callback as it may be.
GoodResult(r) == r.codec \in GoodCodecs /\ r.faults \in Nat

\* A result made with a good codec.
LEMMA ResultGood ==
  ASSUME NEW c \in GoodCodecs, NEW how, NEW n \in Nat
  PROVE  GoodResult(Result(c, how, n))
BY DEF Result, GoodResult

\* A new codec.
LEMMA GoodNew ==
  ASSUME NEW d, NEW delay \in Nat
  PROVE  NewCodec(d, delay) \in GoodCodecs
<1>1. <<>> \in Seq(Infos)
  BY EmptySeq
<1>2. (d \in {"aac", "ffmpeg", "ffmpegInit", "image"}) \in BOOLEAN /\ (d = "image") \in BOOLEAN
  OBVIOUS
<1>3. \A lib, open \in BOOLEAN :
        [conf |-> TRUE, lib |-> lib, setUp |-> FALSE, open |-> open, infos |-> <<>>,
         filled |-> 0, compensated |-> 0, delay |-> delay, known |-> FALSE, error |-> FALSE]
          \in GoodCodecs
  BY <1>1, FramesAssumption DEF GoodCodecs, Codecs
<1> QED BY <1>2, <1>3 DEF NewCodec

-----------------------------------------------------------------------------
(* The AAC decoder.                                                         *)

\* The delayed frames that come out fit into the ring buffer.
LEMMA DrainDecoderGood ==
  ASSUME NEW c \in GoodCodecs
  PROVE  DrainDecoder(c) \in GoodCodecs
<1> DEFINE k == Least(c.compensated, RingSize - c.filled)
<1>1. /\ c.filled \in Nat /\ c.compensated \in Nat /\ c.delay \in Nat /\ c.error \in BOOLEAN
      /\ c.filled <= RingSize /\ c.compensated <= c.delay /\ RingSize \in Nat
  BY GoodFields, FramesAssumption
<1>2. k \in Nat /\ k <= c.compensated /\ k <= RingSize - c.filled
  BY <1>1 DEF Least
<1> HIDE DEF k
<1>3. c.filled + k \in Nat /\ c.filled + k <= RingSize
  BY <1>1, <1>2
<1>4. c.compensated - k \in Nat /\ c.compensated - k <= c.delay
  BY <1>1, <1>2
<1>5. (c.error \/ k < c.compensated) \in BOOLEAN
  BY <1>1
<1>6. [c EXCEPT !.filled = c.filled + k, !.compensated = c.compensated - k,
                !.error = (c.error \/ k < c.compensated)] \in GoodCodecs
  BY <1>3, <1>4, <1>5, GoodAmounts
<1> QED BY <1>6 DEF DrainDecoder, k

\* A flush leaves the ring buffer empty.
LEMMA AacFlushGood ==
  ASSUME NEW c \in GoodCodecs
  PROVE  AacFlush(c) \in GoodCodecs
<1>1. NoInfos(DrainDecoder(c)) \in GoodCodecs
  BY DrainDecoderGood, GoodParts
<1>2. 0 \in Nat /\ 0 <= RingSize
  BY FramesAssumption
<1> QED BY <1>1, <1>2, GoodAmounts, GoodFields DEF AacFlush

\* What a work decodes to fits into the ring buffer.
LEMMA AacDecodedGood ==
  ASSUME NEW c \in GoodCodecs, NEW d \in AacDecoded(c)
  PROVE  d \in GoodCodecs /\ d.filled - c.filled \in Nat
<1>1. /\ c \in Codecs /\ c.filled \in Nat /\ c.compensated \in Nat /\ c.delay \in Nat
      /\ c.known \in BOOLEAN /\ c.filled <= RingSize /\ c.compensated <= c.delay /\ RingSize \in Nat
  BY GoodFields, FramesAssumption
<1>2. PICK n \in 0 .. Least(MaxFrames, RingSize - c.filled) :
        d = [c EXCEPT !.filled = c.filled + n, !.known = (c.known \/ n > 0)]
  BY DEF AacDecoded
<1>3. Least(MaxFrames, RingSize - c.filled) \in Nat
      /\ Least(MaxFrames, RingSize - c.filled) <= RingSize - c.filled
  BY <1>1, FramesAssumption DEF Least
<1>4. n \in Nat /\ n <= RingSize - c.filled
  BY <1>1, <1>3
<1>5. c.filled + n \in Nat /\ c.filled + n <= RingSize /\ (c.known \/ n > 0) \in BOOLEAN
  BY <1>1, <1>4
<1>6. d \in GoodCodecs
  BY <1>1, <1>2, <1>5, GoodAmounts
<1>7. d.filled = c.filled + n
  BY <1>1, <1>2 DEF Codecs
<1> QED BY <1>1, <1>4, <1>6, <1>7

\* Discarded frames are owed, and never more than the decoder delays.
LEMMA DiscardGood ==
  ASSUME NEW c \in GoodCodecs
  PROVE  Discard(c) \in GoodCodecs
<1> DEFINE k == Least(c.filled, c.delay - c.compensated)
<1>1. /\ c.filled \in Nat /\ c.compensated \in Nat /\ c.delay \in Nat
      /\ c.filled <= RingSize /\ c.compensated <= c.delay /\ RingSize \in Nat
  BY GoodFields, FramesAssumption
<1>2. k \in Nat /\ k <= c.filled /\ k <= c.delay - c.compensated
  BY <1>1 DEF Least
<1> HIDE DEF k
<1>3. c.filled - k \in Nat /\ c.filled - k <= RingSize
  BY <1>1, <1>2
<1>4. c.compensated + k \in Nat /\ c.compensated + k <= c.delay
  BY <1>1, <1>2
<1>5. [c EXCEPT !.filled = c.filled - k, !.compensated = c.compensated + k] \in GoodCodecs
  BY <1>3, <1>4, GoodAmounts
<1> QED BY <1>5 DEF Discard, k

\* The decoder goes on with a good codec.
LEMMA AacGoesOnGood ==
  ASSUME NEW c \in GoodCodecs, NEW k
  PROVE  GoodResult(AacGoesOn(c, k))
BY DrainDecoderGood, DiscardGood, ResultGood DEF AacGoesOn

\* Every result of process() of AAC.
LEMMA AacProcessGood ==
  ASSUME NEW c \in GoodCodecs, NEW k, NEW w \in Entries, NEW r \in AacProcess(c, k, w)
  PROVE  GoodResult(r)
<1>1. CASE r \in AacConfigures(c)
  <2>1. \A b \in BOOLEAN : [c EXCEPT !.known = b] \in GoodCodecs /\ [c EXCEPT !.error = b] \in GoodCodecs
    BY GoodChanges
  <2>2. c.known \in BOOLEAN
    BY GoodFields
  <2>3. CASE \E known \in {c.known, TRUE} : r = Result([c EXCEPT !.known = known], "processed", 0)
    BY <2>1, <2>2, <2>3, ResultGood
  <2>4. CASE \E n \in {0, 1} : r = Result([c EXCEPT !.error = TRUE], "processed", n)
    BY <2>1, <2>4, ResultGood
  <2> QED BY <1>1, <2>3, <2>4 DEF AacConfigures
<1>2. CASE r \in AacFails(c)
  <2>1. PICK d \in AacDecoded(c) : r = Result([d EXCEPT !.error = TRUE], "processed", 1)
    BY <1>2 DEF AacFails
  <2>2. [d EXCEPT !.error = TRUE] \in GoodCodecs
    BY AacDecodedGood, GoodChanges
  <2> QED BY <2>1, <2>2, ResultGood
<1>3. CASE \E d \in AacDecoded(c) :
             r = AacGoesOn([d EXCEPT !.infos = Append(d.infos, Info(w, d.filled - c.filled))], k)
  <2>1. PICK d \in AacDecoded(c) :
             r = AacGoesOn([d EXCEPT !.infos = Append(d.infos, Info(w, d.filled - c.filled))], k)
    BY <1>3
  <2>2. Info(w, d.filled - c.filled) \in Infos
    BY AacDecodedGood DEF Info, Infos
  <2>3. Append(d.infos, Info(w, d.filled - c.filled)) \in Seq(Infos)
    BY <2>2, AacDecodedGood, GoodFields, AppendProperties
  <2>4. [d EXCEPT !.infos = Append(d.infos, Info(w, d.filled - c.filled))] \in GoodCodecs
    BY <2>3, AacDecodedGood, GoodChanges
  <2> QED BY <2>1, <2>4, AacGoesOnGood
<1>4. CASE r = Result(c, "processed", 0) \/ r = Result(c, "broken", 0)
  BY <1>4, ResultGood
<1> QED BY <1>1, <1>2, <1>3, <1>4 DEF AacProcess

\* Sending takes no more frames than there are.
LEMMA AacSentGood ==
  ASSUME NEW c \in GoodCodecs, c.infos # <<>>
  PROVE  AacSent(c) \in GoodCodecs
<1>1. /\ c.filled \in Nat /\ c.filled <= RingSize /\ c.infos \in Seq(Infos)
      /\ c.compensated \in Nat /\ c.compensated <= c.delay
  BY GoodFields
<1>2. Head(c.infos) \in Infos /\ Tail(c.infos) \in Seq(Infos)
  BY <1>1, HeadTailProperties
<1>3. AacSamples(c) \in Nat /\ AacSamples(c) <= c.filled
  BY <1>1, <1>2, LeastProperty DEF AacSamples, Infos
<1>4. c.filled - AacSamples(c) \in Nat /\ c.filled - AacSamples(c) <= RingSize
  BY <1>1, <1>3, FramesAssumption
<1>5. [c EXCEPT !.filled = c.filled - AacSamples(c), !.infos = Tail(c.infos)] \in GoodCodecs
  BY <1>1, <1>2, <1>4, GoodAmounts
<1> QED BY <1>5 DEF AacSent

\* initDecoder and onStop.
LEMMA AacStopGood ==
  ASSUME NEW c \in GoodCodecs, NEW r \in AacInit(c) \cup AacStop(c)
  PROVE  GoodResult(r)
<1>1. ASSUME NEW d \in GoodCodecs PROVE AacEmpty(d) \in GoodCodecs
  <2>1. 0 \in Nat /\ 0 <= RingSize /\ 0 <= d.delay
    BY GoodFields, FramesAssumption
  <2> QED BY <2>1, GoodAmounts DEF AacEmpty
<1>2. ASSUME NEW d \in GoodCodecs, NEW s \in AacInit(d) PROVE GoodResult(s)
  <2>1. AacEmpty(d) \in Codecs /\ AacEmpty(d).filled <= RingSize
        /\ AacEmpty(d).compensated <= AacEmpty(d).delay
    BY <1>1 DEF GoodCodecs
  <2>2. \A b \in BOOLEAN : [AacEmpty(d) EXCEPT !.open = b, !.known = FALSE] \in GoodCodecs
    BY <2>1 DEF GoodCodecs, Codecs
  <2>3. \E b \in BOOLEAN, how \in {"ok", "failed"}, n \in Nat :
          s = Result([AacEmpty(d) EXCEPT !.open = b, !.known = FALSE], how, n)
    BY <1>2 DEF AacInit
  <2> QED BY <2>2, <2>3, ResultGood
<1>3. [NoInfos(AacEmpty(c)) EXCEPT !.error = FALSE] \in GoodCodecs
  BY <1>1, GoodParts, GoodChanges
<1>4. CASE r \in AacInit(c)
  BY <1>2, <1>4
<1>5. CASE r \in AacStop(c)
  <2> DEFINE stopped == [NoInfos(AacEmpty(c)) EXCEPT !.error = FALSE]
  <2>1. r \in AacInit(stopped) \/ r = Result(stopped, "failed", 0)
    BY <1>5 DEF AacStop
  <2>2. stopped \in GoodCodecs
    BY <1>3
  <2> HIDE DEF stopped
  <2>3. CASE r = Result(stopped, "failed", 0)
    BY <2>2, <2>3, ResultGood
  <2> QED BY <1>2, <2>1, <2>2, <2>3
<1> QED BY <1>4, <1>5

-----------------------------------------------------------------------------
(* All decoders.                                                            *)

\* The set-up of the decoders whose library is loaded.
LEMMA LibrarySetUpGood ==
  ASSUME NEW c \in GoodCodecs,
         NEW r \in Eac3SetUp(c) \cup DtsSetUp(c) \cup DtsxSetUp(c) \cup Ac4SetUp(c) \cup FfmpegSetUp(c)
  PROVE  GoodResult(r)
<1>1. Opened(c) \in GoodCodecs /\ TornDown(c) \in GoodCodecs
  BY GoodParts
<1>2. GoodResult(UsesConfig(c)) /\ GoodResult(LoadFails(c))
  BY <1>1, ResultGood DEF UsesConfig, LoadFails
<1>3. [Opened(c) EXCEPT !.lib = FALSE, !.open = FALSE] \in GoodCodecs
  <2>1. /\ Opened(c) \in Codecs /\ Opened(c).filled <= RingSize
        /\ Opened(c).compensated <= Opened(c).delay
    BY <1>1 DEF GoodCodecs
  <2> QED BY <2>1 DEF GoodCodecs, Codecs
<1>4. ASSUME NEW s \in DtsxInitFails(c) PROVE GoodResult(s)
  BY <1>3, <1>4, ResultGood DEF DtsxInitFails
<1>5. GoodResult(Result(c, "ok", 0))
  BY ResultGood
<1>6. CASE r \in FfmpegSetUp(c)
  BY <1>1, <1>6, ResultGood DEF FfmpegSetUp
<1>7. CASE r \in Eac3SetUp(c) \cup DtsSetUp(c) \cup Ac4SetUp(c)
  BY <1>2, <1>5, <1>7 DEF Eac3SetUp, DtsSetUp, Ac4SetUp
<1>8. CASE r \in DtsxSetUp(c)
  BY <1>2, <1>4, <1>5, <1>8 DEF DtsxSetUp
<1> QED BY <1>6, <1>7, <1>8

\* onInit, onStop, onReset.
LEMMA CallbackGood ==
  ASSUME NEW d, NEW c \in GoodCodecs, NEW r \in SetUp(d, c) \cup Stop(d, c) \cup Reset(d, c)
  PROVE  GoodResult(r)
<1>1. NoInfos(c) \in GoodCodecs
  BY GoodParts
<1>2. CASE r \in SetUp(d, c)
  <2>1. r \in AacInit(c) \cup Eac3SetUp(c) \cup DtsSetUp(c) \cup DtsxSetUp(c) \cup Ac4SetUp(c)
              \cup FfmpegSetUp(c) \cup {Result(c, "ok", 0)}
    BY <1>2, Zenon DEF SetUp
  <2>2. GoodResult(Result(c, "ok", 0))
    BY ResultGood
  <2> QED BY <2>1, <2>2, LibrarySetUpGood, AacStopGood
<1>3. CASE r \in Stop(d, c)
  BY <1>1, <1>3, AacStopGood, ResultGood DEF Stop, Stopped
<1>4. CASE r \in Reset(d, c)
  <2>1. FfmpegReset(c) \in GoodCodecs /\ FfmpegResetInit(c) \in GoodCodecs
    BY <1>1, GoodChanges, GoodFields DEF FfmpegReset, FfmpegResetInit
  <2>2. r \in {[s EXCEPT !.how = "ok"] : s \in AacStop(c)}
              \cup {Result(Eac3Reset(c), "ok", 0), Result(FfmpegReset(c), "ok", 0),
                    Result(FfmpegResetInit(c), "ok", 0), Result(c, "ok", 0)}
    BY <1>4, Zenon DEF Reset
  <2>3. ASSUME NEW s \in AacStop(c) PROVE GoodResult([s EXCEPT !.how = "ok"])
    <3>1. \A e : AacInit(e) = {Result([AacEmpty(e) EXCEPT !.open = TRUE, !.known = FALSE], "ok", 0),
                               Result([AacEmpty(e) EXCEPT !.open = FALSE, !.known = FALSE], "failed", 1)}
      BY DEF AacInit
    <3>2. \E e, how, n : s = Result(e, how, n)
      BY <2>3, <3>1 DEF AacStop
    <3>3. /\ [s EXCEPT !.how = "ok"].codec = s.codec
          /\ [s EXCEPT !.how = "ok"].faults = s.faults
      BY <3>2 DEF Result
    <3> QED BY <3>3, AacStopGood DEF GoodResult
  <2>4. CASE r \in {[s EXCEPT !.how = "ok"] : s \in AacStop(c)}
    BY <2>3, <2>4
  <2>5. CASE r \in {Result(Eac3Reset(c), "ok", 0), Result(FfmpegReset(c), "ok", 0),
                    Result(FfmpegResetInit(c), "ok", 0), Result(c, "ok", 0)}
    BY <2>1, <2>5, ResultGood DEF Eac3Reset
  <2> QED BY <2>2, <2>4, <2>5
<1> QED BY <1>2, <1>3, <1>4

\* process().
LEMMA ProcessGood ==
  ASSUME NEW d, NEW c \in GoodCodecs, NEW k, NEW w \in Entries, NEW r \in Process(d, c, k, w)
  PROVE  GoodResult(r)
<1>1. Noted(c, w) \in GoodCodecs
  <2>1. Info(w, 0) \in Infos
    BY DEF Info, Infos
  <2>2. Append(c.infos, Info(w, 0)) \in Seq(Infos)
    BY <2>1, GoodFields, AppendProperties
  <2> QED BY <2>2, GoodChanges DEF Noted
<1>2. ASSUME NEW s \in Yields(c, w) PROVE GoodResult(s)
  BY <1>1, <1>2, ResultGood DEF Yields, ConfigFails
<1>3. ASSUME NEW s \in Eac3Process(c, w) PROVE GoodResult(s)
  BY <1>1, <1>3, ResultGood DEF Eac3Process, ConfigFails
<1>4. ASSUME NEW s \in FfmpegProcess(c, k, w) PROVE GoodResult(s)
  BY <1>1, <1>4, ResultGood DEF FfmpegProcess, ConfigFails
<1>5. ASSUME NEW s \in ImageProcess(c) PROVE GoodResult(s)
  BY <1>5, ResultGood DEF ImageProcess, ImageFails
<1>6. ASSUME NEW s \in DtsProcess(c, w) \cup DtsxProcess(c, w) \cup Ac4Process(c, w)
      PROVE  GoodResult(s)
  BY <1>2, <1>6, ResultGood DEF DtsProcess, DtsxProcess, Ac4Process
<1>7. \/ r \in AacProcess(c, k, w) \/ r \in Eac3Process(c, w) \/ r \in DtsProcess(c, w)
      \/ r \in DtsxProcess(c, w) \/ r \in Ac4Process(c, w) \/ r \in ImageProcess(c)
      \/ r \in FfmpegProcess(c, k, w)
  BY Zenon DEF Process
<1> QED BY <1>3, <1>4, <1>5, <1>6, <1>7, AacProcessGood

\* onFlush_sm, drain(), onRelease and the loops that send output.
LEMMA OtherCallsGood ==
  ASSUME NEW d, NEW c \in GoodCodecs
  PROVE  /\ FlushedCodec(d, c) \in GoodCodecs /\ DrainedCodec(d, c) \in GoodCodecs
         /\ Released(d, c) \in GoodCodecs
         /\ c.infos # <<>> => /\ Sent(d, c) \in GoodCodecs /\ SentWithoutBlock(c) \in GoodCodecs
                              /\ [c EXCEPT !.infos = Tail(c.infos)] \in GoodCodecs
<1>1. FlushedCodec(d, c) \in GoodCodecs
  <2>1. FlushedCodec(d, c) \in {AacFlush(c), c, NoInfos(c)}
    BY Zenon DEF FlushedCodec
  <2> QED BY <2>1, AacFlushGood, GoodParts
<1>2. DrainedCodec(d, c) \in GoodCodecs
  BY DrainDecoderGood DEF DrainedCodec
<1>3. Released(d, c) \in GoodCodecs
  <2>1. [c EXCEPT !.open = FALSE] \in GoodCodecs
    BY GoodChanges
  <2>2. [TornDown(c) EXCEPT !.setUp = FALSE] \in GoodCodecs
    BY GoodParts, GoodChanges
  <2>3. \A e \in GoodCodecs : Stopped(d, e) \in GoodCodecs
    BY GoodParts DEF Stopped
  <2>4. Released(d, c) \in {[c EXCEPT !.open = FALSE], c, Stopped(d, c),
                            Stopped(d, [TornDown(c) EXCEPT !.setUp = FALSE])}
    BY Zenon DEF Released
  <2> QED BY <2>1, <2>2, <2>3, <2>4
<1>4. ASSUME c.infos # <<>>
      PROVE  /\ Sent(d, c) \in GoodCodecs /\ SentWithoutBlock(c) \in GoodCodecs
             /\ [c EXCEPT !.infos = Tail(c.infos)] \in GoodCodecs
  <2>1. Tail(c.infos) \in Seq(Infos)
    BY <1>4, GoodFields, HeadTailProperties
  <2>2. [c EXCEPT !.infos = Tail(c.infos)] \in GoodCodecs
    BY <2>1, GoodChanges
  <2> QED BY <1>4, <2>2, AacSentGood DEF Sent, SentWithoutBlock
<1> QED BY <1>1, <1>2, <1>3, <1>4

-----------------------------------------------------------------------------
(* Type correctness of the component.                                       *)

\* What the whole of TypeOK says of the codec.
LEMMA CodecType ==
  TypeOK => codec \in GoodCodecs
BY DEF TypeOK, GoodCodecs

\* The decoder a stream is for, and how much of it there is.
LEMMA StreamType ==
  ASSUME TypeOK
  PROVE  /\ stream.entries \in 0 .. MaxEntries /\ stream.kinds \subseteq AllKinds
         /\ stream.failures \in Nat
BY StreamsAssumption DEF TypeOK

\* Posting keeps the messages well formed.
LEMMA PostType ==
  ASSUME TypeOK, NEW m \in Messages, messages' = Append(messages, m)
  PROVE  messages' \in Seq(Messages)
BY AppendProperties DEF TypeOK

\* So does taking the first one, which is a message.
LEMMA HeadType ==
  ASSUME TypeOK, messages # <<>>
  PROVE  Head(messages) \in Messages /\ Tail(messages) \in Seq(Messages)
BY HeadTailProperties DEF TypeOK

\* A message that is awaited names the thread that awaits it; the others name none.
LEMMA MessageType ==
  /\ \A what \in Awaited, c \in Callers : [what |-> what, from |-> c] \in Messages
  /\ \A what \in {"start", "process"} : [what |-> what, from |-> NoCaller] \in Messages
BY DEF Messages

\* A thread that moves stays at a known place.
LEMMA GoToType ==
  ASSUME TypeOK, NEW c, NEW place \in Places, GoTo(c, place)
  PROVE  pc' \in [Callers -> Places]
BY DEF GoTo, TypeOK

\* Giving entries back yields a well-formed table of answers.
LEMMA AnswerType ==
  ASSUME TypeOK, NEW S, NEW how \in Outcomes
  PROVE  Answer(S, how) \in [Entries -> Outcomes]
BY DEF Answer, TypeOK, Outcomes

\* The steps of the client threads keep the types.
LEMMA ClientsType ==
  ASSUME TypeOK, NEW c \in Callers, Calls(c) \/ Continues(c)
  PROVE  TypeOK'
<1> USE DEF clientVars, queueVars, handlerVars, entryVars
<1>1. ASSUME NEW place \in Places, Passes(c, place) PROVE TypeOK'
  <2>1. pc' \in [Callers -> Places]
    BY <1>1, GoToType DEF Passes
  <2> QED BY <1>1, <2>1 DEF Passes, TypeOK
<1>2. ASSUME NEW place \in Places, NEW what, NEW from, [what |-> what, from |-> from] \in Messages,
             Posts(c, what, from, place)
      PROVE  TypeOK'
  <2>1. pc' \in [Callers -> Places] /\ messages' \in Seq(Messages)
    BY <1>2, GoToType, PostType DEF Posts, Post
  <2> QED BY <1>2, <2>1 DEF Posts, TypeOK
<1>3. ASSUME NEW s \in {"UNINITIALIZED", "STOPPED", "RUNNING"}, NEW place \in Places,
             SetState(c, s, place)
      PROVE  TypeOK'
  <2>1. pc' \in [Callers -> Places]
    BY <1>3, GoToType DEF SetState
  <2> QED BY <1>3, <2>1 DEF SetState, TypeOK
<1>4. CASE StartCheck(c) \/ QueueCheck(c) \/ FlushCheck(c) \/ ReleaseCall(c)
  <2>1. \E place \in Places : Passes(c, place)
    BY <1>4 DEF StartCheck, QueueCheck, FlushCheck, ReleaseCall, Places
  <2> QED BY <2>1, <1>1
<1>5. CASE StopCheck(c) \/ ResetCall(c) \/ StartReturn(c)
  <2>1. \E s \in {"UNINITIALIZED", "STOPPED", "RUNNING"}, place \in Places : SetState(c, s, place)
    BY <1>5 DEF StopCheck, ResetCall, StartReturn, Places
  <2> QED BY <2>1, <1>3
<1>6. CASE StartPost(c)
  BY <1>6, <1>2, MessageType DEF StartPost, Awaited, Places
<1>7. CASE QueuePost(c)
  BY <1>7, <1>2, MessageType DEF QueuePost, Places
<1>8. CASE ClearPost(c)
  BY <1>8, <1>2, MessageType DEF ClearPost, Awaited, Places
<1>9. CASE FlushTake(c)
  <2>1. answer' \in [Entries -> Outcomes]
    BY <1>9, AnswerType DEF FlushTake, Outcomes
  <2>2. pc' \in [Callers -> Places] /\ before' \in [Callers -> 0 .. MaxEntries]
    BY <1>9, GoToType DEF FlushTake, Places, TypeOK
  <2> QED BY <1>9, <2>1, <2>2 DEF FlushTake, TypeOK, Outcomes
<1>10. CASE FlushReturn(c)
  <2>1. pc' \in [Callers -> Places] /\ before' \in [Callers -> 0 .. MaxEntries]
    BY <1>10, GoToType, BoundsAssumption DEF FlushReturn, Places, TypeOK
  <2> QED BY <1>10, <2>1 DEF FlushReturn, TypeOK
<1>11. CASE Clear(c)
  <2>1. answer' \in [Entries -> Outcomes]
    BY <1>11, AnswerType DEF Clear, Outcomes
  <2>2. pc' \in [Callers -> Places]
    BY <1>11, GoToType DEF Clear, Places
  <2> QED BY <1>11, <2>1, <2>2 DEF Clear, TypeOK, Outcomes
<1>12. ASSUME NEW k \in stream.kinds, QueuePush(c, k) PROVE TypeOK'
  <2>1. next + 1 \in Entries /\ next' \in 0 .. MaxEntries
    BY <1>12, StreamType, BoundsAssumption DEF QueuePush, TypeOK, Entries
  <2>2. kind' \in [Entries -> AllKinds] /\ queue' \in SUBSET Entries
    BY <1>12, <2>1, StreamType DEF QueuePush, TypeOK
  <2>3. pc' \in [Callers -> Places]
    BY <1>12, GoToType DEF QueuePush, Places
  <2> QED BY <1>12, <2>1, <2>2, <2>3 DEF QueuePush, TypeOK
<1> QED BY <1>4, <1>5, <1>6, <1>7, <1>8, <1>9, <1>10, <1>11, <1>12 DEF Calls, Continues

\* The entry processQueue takes is one of those queued.
LEMMA TakesQueued ==
  ASSUME TypeOK, queue # {}
  PROVE  Front(queue) \in queue /\ Front(queue) \in Entries
<1>1. queue \in SUBSET Nat
  BY BoundsAssumption DEF TypeOK, Entries
<1> QED BY <1>1, FrontProperty DEF TypeOK

\* finish(w) fills in the work in hand, or leaves it alone and gives w back if it is
\* pending.
LEMMA FillInType ==
  ASSUME TypeOK, NEW w, FillIn(w)
  PROVE  /\ pending' \in SUBSET Entries /\ answer' \in [Entries -> Outcomes]
         /\ processed' \in BOOLEAN
<1>1. answer \in [Entries -> Outcomes] /\ Answer({w}, "ok") \in [Entries -> Outcomes]
  BY AnswerType DEF TypeOK, Outcomes
<1>2. answer' = answer \/ answer' = Answer({w}, "ok")
  BY DEF FillIn
<1>3. pending' \in SUBSET Entries /\ processed' \in BOOLEAN
  BY DEF FillIn, TypeOK
<1> QED BY <1>1, <1>2, <1>3

\* The steps that send output keep the types.
LEMMA SendType ==
  ASSUME TypeOK, SendFrames \/ SendWithoutBlock \/ SendRest
  PROVE  TypeOK'
<1>1. codec \in GoodCodecs /\ left \in Nat /\ (left > 0 => left - 1 \in Nat)
  BY CodecType DEF TypeOK
<1>2. codec.infos # <<>>
  <2>1. CASE SendRest
    BY <1>1, <2>1, EmptySeq DEF SendRest, WorksWait
  <2>2. CASE Sending
    BY <2>2 DEF Sending, MaySend, AacMaySend
  <2> QED BY <2>1, <2>2 DEF SendFrames, SendWithoutBlock
<1>3. codec' \in GoodCodecs /\ left' \in Nat /\ \E w : FillIn(w)
  BY <1>1, <1>2, OtherCallsGood DEF SendFrames, SendWithoutBlock, SendRest
<1>4. SendStep
  BY DEF SendFrames, SendWithoutBlock, SendRest
<1> QED BY <1>3, <1>4, FillInType
        DEF TypeOK, GoodCodecs, SendStep, clientVars, entryVars, Outcomes

\* The results of a callback on the handler thread.
LEMMA ReturnsType ==
  ASSUME TypeOK, NEW r, GoodResult(r), Returns(r)
  PROVE  codec' \in GoodCodecs /\ left' \in Nat /\ handler' \in {"idle", "broken"}
BY DEF Returns, GoodResult, TypeOK

\* The steps of the handler thread keep the types.
LEMMA HandlerType ==
  ASSUME TypeOK, HandleMessage, handler \in {"taken", "sending", "processed"} => current \in Entries
  PROVE  TypeOK'
<1> USE DEF clientVars, queueVars, handlerVars, entryVars
<1>1. codec \in GoodCodecs /\ left \in Nat /\ (left > 0 => left - 1 \in Nat)
  BY CodecType DEF TypeOK
<1>2. ASSUME messages # <<>>, HandlerStep, pc' \in [Callers -> Places], codec' \in GoodCodecs,
             running' \in BOOLEAN, left' \in Nat, handler' \in {"idle", "broken"}
      PROVE  TypeOK'
  <2>1. messages' \in Seq(Messages)
    BY <1>2, HeadType DEF HandlerStep, Dispatched
  <2> QED BY <1>2, <2>1 DEF HandlerStep, TypeOK, GoodCodecs
<1>3. \A place \in Places : Reply(place) => pc' \in [Callers -> Places]
  BY GoToType DEF Reply
<1>4. ASSUME OnInit \/ OnStop \/ OnReset, messages # <<>>
      PROVE  TypeOK'
  <2>1. \E r \in SetUp(decoder, codec) \cup Stop(decoder, codec) \cup Reset(decoder, codec) : Returns(r)
    BY <1>4 DEF OnInit, OnStop, OnReset
  <2>2. codec' \in GoodCodecs /\ left' \in Nat /\ handler' \in {"idle", "broken"}
    BY <1>1, <2>1, CallbackGood, ReturnsType
  <2>3. pc' \in [Callers -> Places]
    BY <1>3, <1>4 DEF OnInit, OnStop, OnReset, Places
  <2>4. HandlerStep /\ running' \in BOOLEAN
    BY <1>4 DEF OnInit, OnStop, OnReset, TypeOK
  <2> QED BY <1>2, <1>4, <2>2, <2>3, <2>4
<1>5. CASE OnInit \/ OnStop \/ OnReset
  BY <1>4, <1>5 DEF OnInit, OnStop, OnReset, Handles
<1>6. CASE OnRelease
  <2>1. codec' \in GoodCodecs /\ pc' \in [Callers -> Places] /\ handler' = "idle"
    BY <1>1, <1>3, <1>6, OtherCallsGood DEF OnRelease, Handles, Places
  <2> QED BY <1>1, <1>2, <1>6, <2>1 DEF OnRelease, Handles
<1>7. CASE OnStart \/ ProcessNothing
  BY <1>1, <1>2, <1>7 DEF OnStart, ProcessNothing, Handles, TypeOK
<1>8. CASE Take
  <2>1. messages' \in Seq(Messages)
    BY <1>8, HeadType DEF Take, Handles, Dispatched
  <2>2. current' \in Entries /\ codec' \in GoodCodecs /\ more' \in BOOLEAN
    BY <1>1, <1>8, TakesQueued, OtherCallsGood DEF Take
  <2> QED BY <1>8, <2>1, <2>2 DEF Take, TypeOK, GoodCodecs
<1>9. CASE NoPool
  <2>1. answer' \in [Entries -> Outcomes]
    BY <1>9, AnswerType DEF NoPool, Gone, Outcomes
  <2> QED BY <1>1, <1>9, <2>1 DEF NoPool, Gone, CodecStep, TypeOK, Outcomes
<1>10. CASE Drain
  <2>1. answer' \in [Entries -> Outcomes] /\ handler' \in {"sending", "done"}
    BY <1>10, AnswerType DEF Drain, Gone, Outcomes, TypeOK
  <2>2. codec' \in GoodCodecs
    BY <1>1, <1>10, OtherCallsGood DEF Drain
  <2> QED BY <1>10, <2>1, <2>2 DEF Drain, CodecStep, TypeOK, GoodCodecs, Outcomes
<1>11. CASE ProcessWork
  <2>1. PICK r \in Process(decoder, codec, kind[current], current) :
          /\ left >= r.faults /\ left' = left - r.faults /\ codec' = r.codec
          /\ processed' = (r.how = "processed" \/ decoder # "aac")
    BY <1>11, Zenon DEF ProcessWork
  <2>2. GoodResult(r)
    BY <1>1, <1>11, ProcessGood DEF ProcessWork
  <2>3. codec' \in GoodCodecs /\ left' \in Nat /\ processed' \in BOOLEAN
    BY <1>1, <2>1, <2>2 DEF GoodResult
  <2>4. /\ handler' \in {"sending", "broken", "done", "processed"}
        /\ answer' = answer \/ answer' = Answer({current}, "lost")
    BY <1>11, Zenon DEF ProcessWork, Gone
  <2>5. answer' \in [Entries -> Outcomes]
    BY <2>4, AnswerType DEF TypeOK, Outcomes
  <2>6. CodecStep
    BY <1>11 DEF ProcessWork
  <2> QED BY <2>3, <2>4, <2>5, <2>6 DEF CodecStep, TypeOK, GoodCodecs, Outcomes
<1>12. CASE SendFrames \/ SendWithoutBlock \/ SendRest
  BY <1>12, SendType
<1>13. CASE SendEnds
  <2>1. codec' \in GoodCodecs /\ processed' \in BOOLEAN
    BY <1>1, <1>13, GoodParts DEF SendEnds, TypeOK, AtEnd
  <2>2. answer' \in [Entries -> Outcomes] /\ handler' \in {"processed", "done"}
    BY <1>13, AnswerType DEF SendEnds, Gone, Outcomes, TypeOK
  <2> QED BY <1>13, <2>1, <2>2 DEF SendEnds, CodecStep, TypeOK, GoodCodecs, Outcomes
<1>14. CASE Dispose
  <2>1. answer' \in [Entries -> Outcomes]
    BY <1>14, AnswerType DEF Dispose, Outcomes, TypeOK
  <2>2. pending' \in SUBSET Entries
    BY <1>14 DEF Dispose, TypeOK
  <2> QED BY <1>14, <2>1, <2>2 DEF Dispose, TypeOK, Outcomes
<1>15. CASE GoOn
  <2>1. messages' \in Seq(Messages)
    BY <1>15, MessageType, PostType DEF GoOn, Post, TypeOK
  <2> QED BY <1>15, <2>1 DEF GoOn, TypeOK
<1> QED BY <1>5, <1>6, <1>7, <1>8, <1>9, <1>10, <1>11, <1>12, <1>13, <1>14, <1>15
        DEF HandleMessage

-----------------------------------------------------------------------------
(* The strengthened invariant.                                              *)

\* processQueue works on an entry, and the handler thread has none in hand when it is
\* idle (a callback that breaks leaves it so).
HandsFull ==
  /\ handler \in {"taken", "sending", "processed"} => current \in Entries
  /\ handler = "idle" => current = NoEntry

\* An entry that was not pushed was not given back.
NotYet == \A w \in Entries : w > next => answer[w] = "none"

\* What a thread in flush_sm has not seen given back is the entry processQueue has in
\* hand, and processQueue will find the generation changed.
AwaitedFlush ==
  \A c \in Callers : pc[c] = "flushWait" =>
    \A w \in 1 .. before[c] : answer[w] # "none" \/ (w \in InHand /\ outdated)

AccountInv == HandsFull /\ WorkAccounting /\ NotYet /\ AwaitedFlush
Held == queue \cup InHand \cup pending

\* No other thread begins to wait in flush_sm.
NoNewFlush ==
  \A c \in Callers : pc'[c] = "flushWait" => pc[c] = "flushWait" /\ before'[c] = before[c]

\* Only entries held are given back.
GivesBack ==
  /\ next' = next
  /\ \A w \in Entries : answer'[w] # answer[w] => w \in Held /\ answer'[w] # "none"

\* A thread that goes elsewhere than to wait in flush_sm, in a step that leaves
\* before alone, begins no wait.
LEMMA GoesElsewhere ==
  ASSUME TypeOK, NEW c, NEW place, place # "flushWait", GoTo(c, place), before' = before
  PROVE  NoNewFlush
BY DEF GoTo, NoNewFlush, TypeOK

\* A step that leaves the works where they are keeps the invariant.
LEMMA Undisturbed ==
  ASSUME TypeOK, AccountInv, UNCHANGED <<queue, pending, answer, next, outdated>>,
         InHand' = InHand, HandsFull', NoNewFlush
  PROVE  AccountInv' /\ GivesBack
<1>1. WorkAccounting' /\ NotYet'
  BY DEF AccountInv, WorkAccounting, NotYet
<1>2. AwaitedFlush'
  <2>1. SUFFICES ASSUME NEW c \in Callers, pc'[c] = "flushWait", NEW w \in 1 .. before'[c]
                 PROVE  answer[w] # "none" \/ (w \in InHand /\ outdated)
    BY DEF AwaitedFlush
  <2> QED BY <2>1 DEF AccountInv, AwaitedFlush, NoNewFlush
<1> QED BY <1>1, <1>2 DEF AccountInv, GivesBack

\* What is held is pushed and not given back.
LEMMA HeldProperty ==
  ASSUME TypeOK, AccountInv
  PROVE  /\ Held \subseteq Entries
         /\ \A w \in Entries : w \in Held <=> w \in 1 .. next /\ answer[w] = "none"
BY DEF AccountInv, WorkAccounting, Held, InHand, TypeOK

\* A step that gives back all and only the entries that leave Held, with no new
\* entry, keeps the invariant, given that it keeps queued, taken and pending apart.
LEMMA AnswersWhatLeaves ==
  ASSUME TypeOK, AccountInv, NEW S \in SUBSET Held, NEW how \in Outcomes \ {"none"},
         answer' = Answer(S, how), next' = next, Held' = Held \ S, HandsFull',
         queue' \cap InHand' = {}, (queue' \cup InHand') \cap pending' = {}
  PROVE  HandsFull' /\ WorkAccounting' /\ NotYet' /\ GivesBack
<1>1. \A w \in Entries : answer'[w] = IF w \in S THEN how ELSE answer[w]
  BY DEF Answer
<1>2. \A w \in Entries : w \in Held' <=> w \in 1 .. next' /\ answer'[w] = "none"
  BY <1>1, HeldProperty
<1>3. WorkAccounting'
  BY <1>2 DEF WorkAccounting, Held
<1>4. NotYet'
  BY <1>1, HeldProperty DEF NotYet, AccountInv, Entries, TypeOK
<1> QED BY <1>1, <1>3, <1>4 DEF GivesBack

\* Outside flush_sm and its wait, a step in which every entry given back stays so, and
\* an outdated entry stays in hand or is given back, lets no flush miss an entry.
LEMMA FlushGoesOn ==
  ASSUME TypeOK, AccountInv, GivesBack, NoNewFlush,
         \A w \in InHand : outdated /\ answer'[w] = "none" => w \in InHand' /\ outdated'
  PROVE  AwaitedFlush'
<1>1. SUFFICES ASSUME NEW c \in Callers, pc'[c] = "flushWait", NEW w \in 1 .. before'[c]
               PROVE  answer'[w] # "none" \/ (w \in InHand' /\ outdated')
  BY DEF AwaitedFlush
<1>2. w \in Entries /\ before'[c] = before[c] /\ pc[c] = "flushWait"
  BY <1>1, BoundsAssumption DEF NoNewFlush, TypeOK, Entries
<1>3. answer[w] # "none" \/ (w \in InHand /\ outdated)
  BY <1>1, <1>2 DEF AccountInv, AwaitedFlush
<1> QED BY <1>2, <1>3 DEF GivesBack

-----------------------------------------------------------------------------
(* The invariant is inductive.                                              *)

\* A push adds an entry, not given back; it gives nothing back.
LEMMA PushAccounted ==
  ASSUME TypeOK, AccountInv, NEW c \in Callers, NEW k \in stream.kinds, QueuePush(c, k)
  PROVE  AccountInv' /\ next' = next + 1 /\ next < MaxEntries /\ answer' = answer
<1> USE DEF QueuePush, handlerVars
<1>1. InHand' = InHand
  BY DEF InHand, Processing
<1>2. next \in 0 .. MaxEntries /\ MaxEntries \in Nat /\ next + 1 \in Entries /\ next < MaxEntries
  BY BoundsAssumption, StreamType DEF TypeOK, Entries
<1>3. answer[next + 1] = "none" /\ next + 1 \notin Held
  BY <1>2, HeldProperty DEF AccountInv, NotYet
<1>4. WorkAccounting'
  <2>1. queue' = queue \cup {next + 1} /\ pending' = pending
    OBVIOUS
  <2>2. \A w \in Entries : w \in 1 .. next' <=> w \in 1 .. next \/ w = next + 1
    BY <1>2 DEF Entries
  <2> QED BY <1>1, <1>3, <2>1, <2>2 DEF AccountInv, WorkAccounting, Held
<1>5. NotYet'
  BY <1>2 DEF AccountInv, NotYet, Entries
<1>6. HandsFull'
  BY DEF AccountInv, HandsFull
<1>7. NoNewFlush
  BY GoesElsewhere
<1>8. AwaitedFlush'
  BY <1>1, <1>7 DEF AccountInv, AwaitedFlush, NoNewFlush
<1> QED BY <1>2, <1>4, <1>5, <1>6, <1>8 DEF AccountInv

\* flush_sm gives back what is queued and pending; what is in hand is outdated.
LEMMA FlushAccounted ==
  ASSUME TypeOK, AccountInv, NEW c \in Callers, FlushTake(c)
  PROVE  AccountInv' /\ GivesBack
<1> USE DEF FlushTake, handlerVars
<1>1. InHand' = InHand
  BY DEF InHand, Processing
<1>2. HandsFull'
  BY DEF AccountInv, HandsFull
<1>3. Held' = Held \ Flushed /\ Flushed \in SUBSET Held
  BY <1>1 DEF Held, Flushed, AccountInv, WorkAccounting
<1>4. WorkAccounting' /\ NotYet' /\ GivesBack
  BY <1>1, <1>2, <1>3, AnswersWhatLeaves DEF entryVars, Outcomes
<1>5. AwaitedFlush'
  <2>1. SUFFICES ASSUME NEW d \in Callers, pc'[d] = "flushWait", NEW w \in 1 .. before'[d],
                        answer'[w] = "none"
                 PROVE  w \in InHand' /\ outdated'
    BY DEF AwaitedFlush
  <2>2. CASE d = c
    <3>1. before'[d] = next /\ w \in Entries
      BY <2>2, BoundsAssumption DEF TypeOK, Entries
    <3>2. w \in Held'
      BY <2>1, <3>1, <1>4 DEF WorkAccounting, Held, entryVars
    <3> QED BY <3>2 DEF Held
  <2>3. CASE d # c
    <3>1. pc[d] = "flushWait" /\ before'[d] = before[d] /\ w \in Entries
      BY <2>1, <2>3, BoundsAssumption DEF GoTo, TypeOK, Entries
    <3>2. answer[w] = "none"
      BY <2>1, <3>1, <1>4 DEF GivesBack
    <3> QED BY <1>1, <2>1, <3>1, <3>2 DEF AccountInv, AwaitedFlush
  <2> QED BY <2>2, <2>3
<1> QED BY <1>2, <1>4, <1>5 DEF AccountInv

\* stop and reset destroy what is queued and pending.
LEMMA ClearAccounted ==
  ASSUME TypeOK, AccountInv, NEW c \in Callers, Clear(c)
  PROVE  AccountInv' /\ GivesBack
<1> USE DEF Clear, handlerVars
<1>1. InHand' = InHand
  BY DEF InHand, Processing
<1>2. HandsFull'
  BY DEF AccountInv, HandsFull
<1>3. /\ Held' = Held \ (queue \cup pending) /\ queue \cup pending \in SUBSET Held
      /\ answer' = Answer(queue \cup pending, "lost")
  BY <1>1 DEF Held, AccountInv, WorkAccounting
<1>4. WorkAccounting' /\ NotYet' /\ GivesBack
  BY <1>1, <1>2, <1>3, AnswersWhatLeaves DEF entryVars, Outcomes
<1>5. NoNewFlush
  BY GoesElsewhere
<1>6. AwaitedFlush'
  BY <1>1, <1>4, <1>5, FlushGoesOn
<1> QED BY <1>2, <1>4, <1>6 DEF AccountInv

\* The end of flush_sm.
LEMMA FlushReturnAccounted ==
  ASSUME TypeOK, AccountInv, NEW c \in Callers, FlushReturn(c)
  PROVE  AccountInv' /\ GivesBack
<1>1. NoNewFlush
  BY DEF FlushReturn, GoTo, NoNewFlush, TypeOK
<1>2. UNCHANGED <<queue, pending, answer, next, outdated, current, handler>>
  BY DEF FlushReturn, queueVars, handlerVars, entryVars
<1>3. InHand' = InHand /\ HandsFull'
  BY <1>2 DEF InHand, Processing, AccountInv, HandsFull
<1> QED BY <1>1, <1>2, <1>3, Undisturbed

\* The other steps of the calls.
LEMMA ClientsAccounted ==
  ASSUME TypeOK, AccountInv, NEW c \in Callers, Calls(c) \/ Continues(c),
         ~(\E k \in stream.kinds : QueuePush(c, k))
  PROVE  AccountInv' /\ GivesBack
<1>1. ASSUME NEW place, place # "flushWait", GoTo(c, place),
             UNCHANGED <<queue, pending, answer, next, outdated, current, handler, before>>
      PROVE  AccountInv' /\ GivesBack
  <2>1. InHand' = InHand /\ HandsFull'
    BY <1>1 DEF InHand, Processing, AccountInv, HandsFull
  <2> QED BY <1>1, <2>1, GoesElsewhere, Undisturbed
<1> USE DEF queueVars, handlerVars, entryVars
<1>2. CASE StartCheck(c) \/ QueueCheck(c) \/ FlushCheck(c) \/ ReleaseCall(c)
  BY <1>1, <1>2 DEF StartCheck, QueueCheck, FlushCheck, ReleaseCall, Passes
<1>3. CASE StopCheck(c) \/ ResetCall(c) \/ StartReturn(c)
  BY <1>1, <1>3 DEF StopCheck, ResetCall, StartReturn, SetState
<1>4. CASE StartPost(c) \/ QueuePost(c) \/ ClearPost(c)
  BY <1>1, <1>4 DEF StartPost, QueuePost, ClearPost, Posts
<1> QED BY <1>2, <1>3, <1>4, FlushAccounted, ClearAccounted, FlushReturnAccounted
        DEF Calls, Continues

\* processQueue takes an entry.
LEMMA TakeAccounted ==
  ASSUME TypeOK, AccountInv, Take
  PROVE  AccountInv' /\ GivesBack
<1> DEFINE w == Front(queue)
<1>1. w \in queue /\ w \in Entries /\ w # NoEntry
  BY TakesQueued, BoundsAssumption DEF Take, NoEntry, Entries
<1>2. InHand = {} /\ handler' = "taken" /\ current' = w /\ InHand' = {w}
  BY <1>1 DEF Take, Handles, Processing, InHand
<1>3. queue' = queue \ {w} /\ UNCHANGED <<pending, answer, next, before, pc>>
  BY DEF Take, clientVars, entryVars
<1> HIDE DEF w
<1>4. HandsFull' /\ NotYet' /\ GivesBack
  BY <1>1, <1>2, <1>3 DEF AccountInv, HandsFull, NotYet, GivesBack
<1>5. WorkAccounting'
  BY <1>1, <1>2, <1>3 DEF AccountInv, WorkAccounting
<1>6. AwaitedFlush'
  BY <1>2, <1>3 DEF AccountInv, AwaitedFlush
<1> QED BY <1>4, <1>5, <1>6 DEF AccountInv

\* A step of processQueue that leaves its entry in hand and the works where they are.
LEMMA KeepsInHand ==
  ASSUME TypeOK, AccountInv, handler \in {"taken", "sending", "processed"},
         handler' \in {"taken", "sending", "processed", "broken"},
         UNCHANGED <<queue, pending, answer, next, outdated, current, pc, before>>
  PROVE  AccountInv' /\ GivesBack
<1>1. InHand' = InHand /\ HandsFull'
  BY DEF InHand, Processing, AccountInv, HandsFull
<1>2. NoNewFlush
  BY DEF NoNewFlush
<1> QED BY <1>1, <1>2, Undisturbed

\* A step of processQueue that gives its entry back.
LEMMA GivesItsOwnBack ==
  ASSUME TypeOK, AccountInv, handler \in {"taken", "sending", "processed"}, handler' = "done",
         UNCHANGED <<queue, pending, next, outdated, current, pc, before>>,
         NEW how \in Outcomes \ {"none"}, answer' = Answer({current}, how)
  PROVE  AccountInv' /\ GivesBack
<1>1. InHand = {current} /\ current \in Entries
  BY BoundsAssumption DEF Processing, InHand, AccountInv, HandsFull, NoEntry, Entries
<1>2. InHand' = {} /\ HandsFull'
  BY DEF Processing, InHand, HandsFull
<1>3. NoNewFlush
  BY DEF NoNewFlush
<1>4. Held' = Held \ {current} /\ {current} \in SUBSET Held
  BY <1>1, <1>2 DEF Held, AccountInv, WorkAccounting
<1>5. WorkAccounting' /\ NotYet' /\ GivesBack
  BY <1>1, <1>2, <1>4, AnswersWhatLeaves DEF AccountInv, WorkAccounting
<1>6. answer'[current] # "none"
  BY <1>1 DEF Answer
<1>7. AwaitedFlush'
  BY <1>1, <1>3, <1>5, <1>6, FlushGoesOn
<1> QED BY <1>2, <1>5, <1>7 DEF AccountInv

\* The end of processQueue: its entry is given back, or kept pending.
LEMMA DisposeAccounted ==
  ASSUME TypeOK, AccountInv, Dispose
  PROVE  AccountInv' /\ GivesBack
<1>1. /\ handler = "processed" /\ handler' = "done"
      /\ UNCHANGED <<queue, next, outdated, current, pc, before>>
  BY DEF Dispose, clientVars, entryVars
<1>2. CASE pending' = pending /\ \E how \in {"notFound", "ok"} : answer' = Answer({current}, how)
  BY <1>1, <1>2, GivesItsOwnBack DEF Outcomes
<1>3. CASE ~outdated /\ pending' = pending \cup {current} /\ answer' = answer
  <2>1. InHand = {current} /\ InHand' = {} /\ HandsFull'
    BY <1>1, BoundsAssumption DEF Processing, InHand, AccountInv, HandsFull, NoEntry, Entries
  <2>2. WorkAccounting' /\ NotYet' /\ GivesBack
    BY <1>1, <1>3, <2>1 DEF AccountInv, WorkAccounting, NotYet, GivesBack
  <2>3. NoNewFlush
    BY <1>1 DEF NoNewFlush
  <2> QED BY <1>3, <2>1, <2>2, <2>3, FlushGoesOn DEF AccountInv
<1> QED BY <1>2, <1>3 DEF Dispose

\* process() and drain() leave the entry in hand, or give it back.
LEMMA ProcessAccounted ==
  ASSUME TypeOK, AccountInv, NoPool \/ Drain \/ ProcessWork \/ SendEnds
  PROVE  AccountInv' /\ GivesBack
<1>1. /\ handler \in {"taken", "sending", "processed"}
      /\ UNCHANGED <<queue, pending, next, outdated, current, pc, before>>
  BY DEF NoPool, Drain, ProcessWork, SendEnds, CodecStep, clientVars, queueVars, entryVars
<1>2. \/ \E how \in {"ok", "lost"} : handler' = "done" /\ answer' = Answer({current}, how)
      \/ handler' \in {"sending", "processed", "broken"} /\ answer' = answer
  <2>1. CASE ProcessWork
    BY <2>1, Zenon DEF ProcessWork, Gone
  <2>2. CASE NoPool \/ Drain \/ SendEnds
    BY <2>2 DEF NoPool, Drain, SendEnds, Gone
  <2> QED BY <2>1, <2>2
<1> QED BY <1>1, <1>2, KeepsInHand, GivesItsOwnBack DEF Outcomes

\* Each round of the loop that sends output gives back at most the pending work its
\* output belongs to.
LEMMA SendAccounted ==
  ASSUME TypeOK, AccountInv, SendFrames \/ SendWithoutBlock \/ SendRest
  PROVE  AccountInv' /\ GivesBack
<1>1. PICK w : FillIn(w)
  BY DEF SendFrames, SendWithoutBlock, SendRest
<1>2. UNCHANGED <<queue, next, outdated, current, pc, before, handler>>
  BY DEF SendFrames, SendWithoutBlock, SendRest, SendStep, clientVars, entryVars
<1>3. handler \in {"taken", "sending", "processed"}
  BY DEF SendFrames, SendWithoutBlock, SendRest, Sending
<1>4. CASE w = current \/ w \notin pending
  <2>1. UNCHANGED <<pending, answer>>
    BY <1>1, <1>4 DEF FillIn, TypeOK
  <2> QED BY <1>2, <1>3, <2>1, KeepsInHand
<1>5. CASE w # current /\ w \in pending
  <2>1. pending' = pending \ {w} /\ answer' = Answer({w}, "ok")
    BY <1>1, <1>5 DEF FillIn
  <2>2. InHand' = InHand /\ HandsFull'
    BY <1>2 DEF InHand, Processing, AccountInv, HandsFull
  <2>3. Held' = Held \ {w} /\ {w} \in SUBSET Held
    BY <1>2, <1>5, <2>1, <2>2 DEF Held, AccountInv, WorkAccounting
  <2>4. WorkAccounting' /\ NotYet' /\ GivesBack
    BY <1>2, <2>1, <2>2, <2>3, AnswersWhatLeaves DEF AccountInv, WorkAccounting, Outcomes
  <2>5. NoNewFlush
    BY <1>2 DEF NoNewFlush
  <2>6. AwaitedFlush'
    BY <1>2, <2>2, <2>4, <2>5, FlushGoesOn
  <2> QED BY <2>2, <2>4, <2>6 DEF AccountInv
<1> QED BY <1>4, <1>5

\* The steps of the handler thread.
LEMMA HandlerAccounted ==
  ASSUME TypeOK, AccountInv, HandleMessage
  PROVE  AccountInv' /\ GivesBack
<1> USE DEF queueVars, entryVars, clientVars
<1>1. ASSUME HandlerStep, NoNewFlush, handler = "idle", handler' \in {"idle", "broken"}
      PROVE  AccountInv' /\ GivesBack
  <2>1. InHand' = InHand /\ HandsFull'
    BY <1>1 DEF HandlerStep, InHand, Processing, AccountInv, HandsFull
  <2> QED BY <1>1, <2>1, Undisturbed DEF HandlerStep
<1>2. CASE OnInit \/ OnStop \/ OnReset \/ OnRelease
  <2>1. HandlerStep /\ \E place : place # "flushWait" /\ Reply(place)
    BY <1>2 DEF OnInit, OnStop, OnReset, OnRelease
  <2>2. NoNewFlush
    BY <2>1, GoesElsewhere DEF Reply, HandlerStep
  <2>3. handler = "idle" /\ handler' \in {"idle", "broken"}
    BY <1>2 DEF OnInit, OnStop, OnReset, OnRelease, Handles, Returns
  <2> QED BY <1>1, <2>1, <2>2, <2>3
<1>3. CASE OnStart \/ ProcessNothing
  <2>1. HandlerStep /\ NoNewFlush /\ handler = "idle" /\ handler' = "idle"
    BY <1>3 DEF OnStart, ProcessNothing, HandlerStep, NoNewFlush, Handles
  <2> QED BY <1>1, <2>1
<1>4. CASE GoOn
  <2>1. InHand' = InHand /\ HandsFull' /\ NoNewFlush
    BY <1>4 DEF GoOn, InHand, Processing, HandsFull, NoNewFlush
  <2> QED BY <1>4, <2>1, Undisturbed DEF GoOn
<1> QED BY <1>2, <1>3, <1>4, TakeAccounted, ProcessAccounted, SendAccounted, DisposeAccounted
        DEF HandleMessage

\* Every step keeps the types.
LEMMA TypeStep ==
  ASSUME TypeOK, AccountInv, [Next]_vars
  PROVE  TypeOK'
<1>1. CASE Done \/ UNCHANGED vars
  BY <1>1 DEF Done, TypeOK, vars, clientVars, queueVars, handlerVars, entryVars
<1>2. CASE HandleMessage
  BY <1>2, HandlerType DEF AccountInv, HandsFull
<1> QED BY <1>1, <1>2, ClientsType DEF Next

\* Every step keeps the accounting, and either pushes one entry or gives back some
\* that were held.
LEMMA AccountStep ==
  ASSUME TypeOK, AccountInv, [Next]_vars
  PROVE  /\ AccountInv'
         /\ GivesBack \/ (next' = next + 1 /\ next < MaxEntries /\ answer' = answer)
<1>1. CASE Done \/ UNCHANGED vars
  <2>1. UNCHANGED vars
    BY <1>1 DEF Done
  <2>2. InHand' = InHand /\ HandsFull' /\ NoNewFlush
    BY <2>1 DEF vars, clientVars, handlerVars, InHand, Processing, AccountInv, HandsFull, NoNewFlush
  <2> QED BY <2>1, <2>2, Undisturbed DEF vars, queueVars, entryVars
<1>2. CASE HandleMessage
  BY <1>2, HandlerAccounted
<1>3. ASSUME NEW c \in Callers, Calls(c) \/ Continues(c)
      PROVE  /\ AccountInv'
             /\ GivesBack \/ (next' = next + 1 /\ next < MaxEntries /\ answer' = answer)
  BY <1>3, ClientsAccounted, PushAccounted
<1> QED BY <1>1, <1>2, <1>3 DEF Next

\* The component as it is created.
LEMMA InitInv == Init => TypeOK /\ AccountInv
<1> SUFFICES ASSUME Init PROVE TypeOK /\ AccountInv
  OBVIOUS
<1>1. messages \in Seq(Messages)
  BY EmptySeq DEF Init
<1>2. codec \in GoodCodecs
  <2>1. PICK delay \in IF decoder = "aac" THEN 0 .. MaxDelay ELSE {0} :
          codec = NewCodec(decoder, delay)
    BY DEF Init
  <2>2. delay \in Nat
    BY FramesAssumption
  <2> QED BY <2>1, <2>2, GoodNew
<1>3. TypeOK
  <2>1. /\ pc \in [Callers -> Places] /\ kind \in [Entries -> AllKinds]
        /\ answer \in [Entries -> {"none", "ok", "notFound", "flushed", "lost"}]
    BY DEF Init, Places, AllKinds
  <2>2. before \in [Callers -> 0 .. MaxEntries] /\ next \in 0 .. MaxEntries
        /\ cleared \in 0 .. MaxEntries
    BY BoundsAssumption DEF Init
  <2>3. left \in Nat
    BY StreamsAssumption DEF Init
  <2> QED BY <1>1, <1>2, <2>1, <2>2, <2>3 DEF Init, TypeOK, NoEntry, GoodCodecs
<1>4. AccountInv
  BY DEF Init, AccountInv, HandsFull, WorkAccounting, NotYet, AwaitedFlush, Processing, InHand
<1> QED BY <1>3, <1>4

-----------------------------------------------------------------------------
(* Replies.                                                                 *)

\* The thread a message names waits for its reply, and no other message names it:
\* no reply reaches a thread that has gone on to another call.
WaitPlaces == {"initWait", "stopWait", "resetWait", "relWait"}
RepliesAwaited ==
  /\ \A i \in 1 .. Len(messages) :
       messages[i].from \in Callers => pc[messages[i].from] \in WaitPlaces
  /\ \A i, j \in 1 .. Len(messages) :
       messages[i].from \in Callers /\ messages[i].from = messages[j].from => i = j

\* No thread that waits for a reply moves.
WaitersStay == \A c \in Callers : pc[c] \in WaitPlaces => pc'[c] = pc[c]

\* Steps that post nothing.
LEMMA RepliesKept ==
  ASSUME RepliesAwaited, WaitersStay, messages' = messages
  PROVE  RepliesAwaited'
BY DEF RepliesAwaited, WaitersStay

\* Steps that post a message: one nobody awaits, or one the thread that posts it
\* awaits from now on.
LEMMA RepliesPosted ==
  ASSUME TypeOK, RepliesAwaited, NEW m \in Messages, messages' = Append(messages, m),
         \/ m.from \notin Callers /\ WaitersStay
         \/ /\ m.from \in Callers /\ pc[m.from] \notin WaitPlaces
            /\ \E place \in WaitPlaces : GoTo(m.from, place)
  PROVE  RepliesAwaited'
<1>1. messages \in Seq(Messages)
  BY DEF TypeOK
<1>2. /\ Len(messages') = Len(messages) + 1 /\ Len(messages) \in Nat
      /\ \A i \in 1 .. Len(messages) : messages'[i] = messages[i]
      /\ messages'[Len(messages) + 1] = m
  BY <1>1, AppendProperties, LenProperties
<1>3. \A i \in 1 .. Len(messages') : i \in 1 .. Len(messages) \/ i = Len(messages) + 1
  BY <1>2
<1>4. CASE m.from \notin Callers /\ WaitersStay
  BY <1>2, <1>3, <1>4 DEF RepliesAwaited, WaitersStay
<1>5. CASE /\ m.from \in Callers /\ pc[m.from] \notin WaitPlaces
           /\ \E place \in WaitPlaces : GoTo(m.from, place)
  <2>1. pc'[m.from] \in WaitPlaces /\ \A d \in Callers : d # m.from => pc'[d] = pc[d]
    BY <1>5 DEF GoTo, TypeOK
  <2>2. \A i \in 1 .. Len(messages) : messages[i].from # m.from
    BY <1>5 DEF RepliesAwaited
  <2> QED BY <1>2, <1>3, <1>5, <2>1, <2>2 DEF RepliesAwaited
<1> QED BY <1>4, <1>5

\* The handler takes a message; nobody moves but, if it replies, the thread the
\* message names.
LEMMA RepliesGiven ==
  ASSUME TypeOK, RepliesAwaited, messages # <<>>, Dispatched,
         pc' = pc \/ (Head(messages).from \in Callers /\ \E place : Reply(place))
  PROVE  RepliesAwaited'
<1>1. messages \in Seq(Messages)
  BY DEF TypeOK
<1>2. /\ Len(messages) \in Nat /\ Len(messages) > 0 /\ Head(messages) = messages[1]
      /\ Len(messages') = Len(messages) - 1
      /\ \A i \in 1 .. Len(messages') : messages'[i] = messages[i + 1]
  BY <1>1, HeadTailProperties, LenProperties, EmptySeq DEF Dispatched
<1>3. \A i \in 1 .. Len(messages') :
        /\ i + 1 \in 1 .. Len(messages) /\ 1 \in 1 .. Len(messages) /\ i + 1 # 1
        /\ messages'[i].from \in Callers => messages'[i].from # Head(messages).from
  BY <1>2 DEF RepliesAwaited
<1>4. \A c \in Callers : c # Head(messages).from => pc'[c] = pc[c]
  BY DEF Reply, GoTo, TypeOK
<1>5. \A i \in 1 .. Len(messages') :
        messages'[i].from \in Callers => pc'[messages'[i].from] \in WaitPlaces
  BY <1>2, <1>3, <1>4 DEF RepliesAwaited
<1>6. \A i, j \in 1 .. Len(messages') :
        messages'[i].from \in Callers /\ messages'[i].from = messages'[j].from => i = j
  <2>1. SUFFICES ASSUME NEW i \in 1 .. Len(messages'), NEW j \in 1 .. Len(messages'),
                        messages'[i].from \in Callers, messages'[i].from = messages'[j].from
                 PROVE  i = j
    OBVIOUS
  <2>2. i + 1 = j + 1
    BY <1>2, <1>3, <2>1 DEF RepliesAwaited
  <2> QED BY <2>2, <1>2
<1> QED BY <1>5, <1>6 DEF RepliesAwaited

\* A message the handler replies to names a client thread.
LEMMA ReplyToCaller ==
  ASSUME TypeOK, messages # <<>>, Head(messages).what \in Awaited
  PROVE  Head(messages).from \in Callers
BY HeadType DEF Messages, Awaited

\* Only the replies of the handler thread move client threads.
LEMMA HandlerReplies ==
  ASSUME TypeOK, HandleMessage
  PROVE  \/ /\ messages # <<>> /\ Head(messages).what \in Awaited /\ Dispatched
            /\ \E place : Reply(place)
         \/ messages # <<>> /\ Dispatched /\ pc' = pc
         \/ UNCHANGED <<pc, messages>>
         \/ Post("process", NoCaller) /\ pc' = pc
<1> USE DEF clientVars
<1>1. CASE OnInit \/ OnStop \/ OnReset \/ OnRelease
  BY <1>1 DEF OnInit, OnStop, OnReset, OnRelease, Handles, HandlerStep, Awaited
<1>2. CASE OnStart \/ ProcessNothing \/ Take
  BY <1>2 DEF OnStart, ProcessNothing, Take, Handles, HandlerStep
<1>3. CASE NoPool \/ Drain \/ ProcessWork \/ SendEnds
  BY <1>3 DEF NoPool, Drain, ProcessWork, SendEnds, CodecStep
<1>4. CASE SendFrames \/ SendWithoutBlock \/ SendRest \/ Dispose
  BY <1>4 DEF SendFrames, SendWithoutBlock, SendRest, SendStep, Dispose
<1>5. CASE GoOn
  BY <1>5 DEF GoOn
<1> QED BY <1>1, <1>2, <1>3, <1>4, <1>5 DEF HandleMessage

\* A thread that waits for a reply has nothing to do, and any other moves alone.
LEMMA CallerMoves ==
  ASSUME TypeOK, NEW c \in Callers, Calls(c) \/ Continues(c)
  PROVE  /\ pc[c] \notin WaitPlaces /\ \E place : GoTo(c, place)
         /\ \/ messages' = messages
            \/ \E what \in {"start", "process"} : Post(what, NoCaller)
            \/ \E what \in Awaited, place \in WaitPlaces : Post(what, c) /\ GoTo(c, place)
<1>1. pc[c] \notin WaitPlaces
  BY DEF Calls, Continues, StartCheck, QueueCheck, FlushCheck, StopCheck, ResetCall,
         ReleaseCall, MayCall, StartPost, StartReturn, QueuePost, FlushTake, FlushReturn,
         Clear, ClearPost, QueuePush, WaitPlaces
<1>2. CASE StartPost(c) \/ QueuePost(c) \/ ClearPost(c)
  BY <1>1, <1>2 DEF StartPost, QueuePost, ClearPost, Posts, WaitPlaces, Awaited
<1>3. CASE Calls(c) \/ StartReturn(c) \/ FlushTake(c) \/ FlushReturn(c) \/ Clear(c)
             \/ \E k \in stream.kinds : QueuePush(c, k)
  BY <1>1, <1>3 DEF Calls, StartCheck, QueueCheck, FlushCheck, StopCheck, ResetCall,
       ReleaseCall, StartReturn, FlushTake, FlushReturn, Clear, QueuePush, Passes, SetState
<1> QED BY <1>2, <1>3 DEF Continues

\* Every step of the component keeps replies awaited.
LEMMA RepliesStep ==
  ASSUME TypeOK, RepliesAwaited, [Next]_vars
  PROVE  RepliesAwaited'
<1>1. ASSUME UNCHANGED pc PROVE WaitersStay
  BY <1>1 DEF WaitersStay
<1>2. ASSUME NEW what, NEW from, [what |-> what, from |-> from] \in Messages, Post(what, from),
             \/ from \notin Callers /\ WaitersStay
             \/ /\ from \in Callers /\ pc[from] \notin WaitPlaces
                /\ \E place \in WaitPlaces : GoTo(from, place)
      PROVE  RepliesAwaited'
  BY <1>2, RepliesPosted DEF Post
<1>3. CASE Done \/ UNCHANGED vars
  BY <1>1, <1>3, RepliesKept DEF Done, vars, clientVars
<1>4. CASE HandleMessage
  BY <1>1, <1>2, <1>4, HandlerReplies, ReplyToCaller, RepliesGiven, RepliesKept, MessageType,
     CallersAssumption
<1>5. ASSUME NEW c \in Callers, Calls(c) \/ Continues(c) PROVE RepliesAwaited'
  <2>1. WaitersStay
    BY <1>5, CallerMoves DEF WaitersStay, GoTo, TypeOK
  <2> QED BY <1>2, <1>5, <2>1, CallerMoves, RepliesKept, MessageType, CallersAssumption
<1> QED BY <1>3, <1>4, <1>5 DEF Next

-----------------------------------------------------------------------------
(* The theorems.                                                            *)

\* Every reachable state is well formed, and all entries are accounted for.
THEOREM Invariants == Spec => [](TypeOK /\ AccountInv)
BY InitInv, TypeStep, AccountStep, PTL DEF Spec

\* Every reachable state is well formed: among others, the ring buffer of the AAC
\* decoder never holds more frames than fit into it, and its decoder owes no more
\* than it delays.
THEOREM TypeCorrect == Spec => []TypeOK
BY Invariants, PTL

\* A work is in exactly one place until it is given back, and in none afterwards,
\* whatever client threads do between the critical sections of processQueue.
THEOREM WorksAccounted == Spec => []WorkAccounting
<1>1. TypeOK /\ AccountInv => WorkAccounting
  BY DEF AccountInv
<1> QED BY <1>1, Invariants, PTL

\* The component keeps the contract of WorkContract: no work is given back twice, none
\* before it was accepted.
THEOREM ContractKept == Spec => GivenBackOnce
<1> USE DEF Contract!Works, Contract!vars, Entries
<1>1. Init => Contract!Init
  BY DEF Init, Contract!Init
<1>2. ASSUME TypeOK, AccountInv, TypeOK', [Next]_vars PROVE [Contract!Next]_(Contract!vars)
  <2>1. CASE next' = next + 1 /\ next < MaxEntries /\ answer' = answer
    BY <2>1 DEF Contract!Next, Contract!Accept
  <2>2. CASE GivesBack
    <3>1. answer' \in [1 .. MaxEntries -> {"ok", "notFound", "flushed", "lost"} \cup {"none"}]
      BY <1>2 DEF TypeOK
    <3>2. \A w \in Entries : answer'[w] # answer[w] => w \in Contract!Outstanding
      BY <1>2, <2>2, HeldProperty DEF GivesBack, Contract!Outstanding
    <3> QED BY <2>2, <3>1, <3>2 DEF GivesBack, Contract!Next, Contract!GiveBack
  <2> QED BY <1>2, <2>1, <2>2, AccountStep
<1> QED BY <1>1, <1>2, Invariants, PTL DEF Spec, GivenBackOnce, Contract!Spec

\* A reply goes to the thread that waits for it, and to no other.
THEOREM RepliesMatch == Spec => []RepliesAwaited
<1>1. Init => RepliesAwaited
  BY DEF Init, RepliesAwaited
<1> QED BY <1>1, RepliesStep, TypeCorrect, PTL DEF Spec

\* When flush_sm returns, every work pushed before it emptied the queue has been given
\* back, except the one an audio decoder has in its hands.
THEOREM FlushComplete == Spec => FlushGivesAllBack
<1>1. ASSUME TypeOK, RepliesAwaited, Next, NEW c \in Callers,
             pc[c] = "flushWait", pc'[c] = "idle", decoder = "image"
      PROVE  ~Processing
  <2>1. ASSUME NEW d, NEW place, GoTo(d, place) PROVE d = c
    BY <1>1, <2>1 DEF GoTo, TypeOK
  <2>2. pc' # pc
    BY <1>1
  <2>3. CASE HandleMessage
    <3>1. /\ messages # <<>> /\ Head(messages).what \in Awaited
          /\ \E place : Reply(place)
      BY <1>1, <2>2, <2>3, HandlerReplies
    <3>2. Head(messages).from = c
      BY <2>1, <3>1 DEF Reply
    <3>3. 1 \in 1 .. Len(messages) /\ Head(messages) = messages[1]
      BY <1>1, <3>1, HeadTailProperties, LenProperties, EmptySeq DEF TypeOK
    <3> QED BY <1>1, <3>2, <3>3 DEF RepliesAwaited, WaitPlaces
  <2>4. ASSUME NEW d \in Callers, Calls(d) \/ Continues(d) PROVE ~Processing
    <3>1. d = c
      BY <1>1, <2>1, <2>4, CallerMoves
    <3>2. FlushReturn(c)
      BY <1>1, <2>4, <3>1 DEF Calls, Continues, StartCheck, QueueCheck, FlushCheck, StopCheck,
              ResetCall, ReleaseCall, MayCall, StartPost, StartReturn, QueuePost, FlushTake,
              Clear, ClearPost, QueuePush
    <3> QED BY <1>1, <3>2 DEF FlushReturn, FlushMayReturn
  <2> QED BY <1>1, <2>2, <2>3, <2>4 DEF Next, Done, vars, clientVars
<1>2. ASSUME TypeOK, AccountInv, RepliesAwaited, [Next]_vars
      PROVE  [\A c \in Callers : pc[c] = "flushWait" /\ pc'[c] = "idle" =>
                \A w \in 1 .. before[c] :
                  answer[w] # "none" \/ (decoder # "image" /\ w \in InHand)]_vars
  <2>1. SUFFICES ASSUME Next, NEW c \in Callers, pc[c] = "flushWait", pc'[c] = "idle",
                        NEW w \in 1 .. before[c], answer[w] = "none"
                 PROVE  decoder # "image" /\ w \in InHand
    BY <1>2
  <2>2. w \in InHand
    BY <1>2, <2>1 DEF AccountInv, AwaitedFlush
  <2> QED BY <1>1, <1>2, <2>1, <2>2 DEF InHand
<1> QED BY <1>2, Invariants, RepliesMatch, PTL DEF Spec, FlushGivesAllBack

-----------------------------------------------------------------------------
(* Frames of the works that wait.                                           *)

\* The sums FramesOf takes, one for each prefix: the recursive function exists, and
\* its values are numbers.
LEMMA FrameSums ==
  ASSUME NEW s \in Seq(Infos)
  PROVE  \E f \in [0 .. Len(s) -> Nat] :
           /\ f[0] = 0 /\ \A i \in 1 .. Len(s) : f[i] = f[i - 1] + s[i].frames
           /\ FramesOf(s) = f[Len(s)]
<1> DEFINE N == Len(s)
           Rec(f) == [i \in 0 .. N |-> IF i = 0 THEN 0 ELSE f[i - 1] + s[i].frames]
           Sums(n, f) == f[0] = 0 /\ \A i \in 1 .. n : f[i] = f[i - 1] + s[i].frames
           Has(n) == \E f \in [0 .. n -> Nat] : Sums(n, f)
<1>1. N \in Nat /\ \A i \in 1 .. N : s[i].frames \in Nat
  <2>1. N \in Nat
    BY LenProperties
  <2>2. ASSUME NEW i \in 1 .. N PROVE s[i] \in Infos
    BY ElementOfSeq
  <2> QED BY <2>1, <2>2 DEF Infos
<1> HIDE DEF N
<1>2. \A n \in 0 .. N : Has(n)
  <2> SUFFICES ASSUME {n \in 0 .. N : ~Has(n)} # {} PROVE FALSE
    OBVIOUS
  <2>1. PICK n \in 0 .. N : ~Has(n) /\ \A v \in {m \in 0 .. N : ~Has(m)} : n <= v
    <3> DEFINE S == {m \in 0 .. N : ~Has(m)}
    <3> HIDE DEF Has
    <3>1. S \in SUBSET Nat /\ S # {}
      BY <1>1
    <3> HIDE DEF S
    <3>2. \E m \in S : \A v \in S : m <= v
      BY <3>1, LeastExists
    <3> QED BY <3>2 DEF S
  <2>2. n # 0
    <3>1. [i \in 0 .. 0 |-> 0] \in [0 .. 0 -> Nat] /\ Sums(0, [i \in 0 .. 0 |-> 0])
      OBVIOUS
    <3> QED BY <3>1, <2>1
  <2>3. n - 1 \in 0 .. N /\ ~(n <= n - 1)
    BY <2>1, <2>2, <1>1
  <2>4. PICK f \in [0 .. n - 1 -> Nat] : Sums(n - 1, f)
    BY <2>1, <2>3
  <2> DEFINE g == [i \in 0 .. n |-> IF i < n THEN f[i] ELSE f[n - 1] + s[n].frames]
  <2>5. g \in [0 .. n -> Nat]
    BY <2>2, <2>4, <1>1
  <2>6. Sums(n, g)
    BY <2>2, <2>4, <1>1
  <2> QED BY <2>1, <2>5, <2>6
<1>3. PICK f \in [0 .. N -> Nat] : Sums(N, f)
  <2>1. N \in 0 .. N
    BY <1>1
  <2>2. Has(N)
    BY <1>2, <2>1
  <2> QED BY <2>2
<1>4. f = Rec(f)
  BY <1>3, <1>1
<1> DEFINE sum == CHOOSE g : g = Rec(g)
<1>5. sum = Rec(sum)
  BY <1>4
<1>6. FramesOf(s) = sum[N]
  BY DEF FramesOf, N
<1> HIDE DEF sum
<1>7. sum[0] = 0 /\ \A i \in 1 .. N : sum[i] = sum[i - 1] + s[i].frames
  BY <1>5, <1>1
<1>8. \A n \in 0 .. N : sum[n] = f[n]
  <2> SUFFICES ASSUME {n \in 0 .. N : sum[n] # f[n]} # {} PROVE FALSE
    OBVIOUS
  <2> DEFINE S == {n \in 0 .. N : sum[n] # f[n]}
  <2>1. S \in SUBSET Nat /\ S # {}
    BY <1>1
  <2> HIDE DEF S
  <2>2. PICK n \in S : \A v \in S : n <= v
    BY <2>1, LeastExists
  <2>3. n \in 0 .. N /\ sum[n] # f[n] /\ n # 0
    BY <2>2, <1>3, <1>7 DEF S
  <2>4. n - 1 \in 0 .. N /\ n \in 1 .. N /\ ~(n <= n - 1)
    BY <2>3, <1>1
  <2>5. sum[n - 1] = f[n - 1]
    BY <2>2, <2>4 DEF S
  <2> QED BY <2>3, <2>4, <2>5, <1>3, <1>7
<1> QED BY <1>1, <1>3, <1>6, <1>8 DEF N

\* Two such sums that grow alike differ by what they differ at the beginning.
LEMMA SumsAgree ==
  ASSUME NEW n \in Nat, NEW f \in [0 .. n -> Nat], NEW g \in [0 .. n -> Nat], NEW a \in Nat,
         f[0] = g[0] + a,
         \A i \in 1 .. n : \E x \in Nat : f[i] = f[i - 1] + x /\ g[i] = g[i - 1] + x
  PROVE  f[n] = g[n] + a
<1> DEFINE S == {i \in 0 .. n : f[i] # g[i] + a}
<1> SUFFICES ASSUME S # {} PROVE FALSE
  <2>1. n \in 0 .. n
    OBVIOUS
  <2> QED BY <2>1
<1>1. S \in SUBSET Nat
  OBVIOUS
<1> HIDE DEF S
<1>2. PICK i \in S : \A v \in S : i <= v
  BY <1>1, LeastExists
<1>3. i \in 0 .. n /\ f[i] # g[i] + a /\ i # 0
  BY <1>2 DEF S
<1>4. i - 1 \in 0 .. n /\ i \in 1 .. n /\ ~(i <= i - 1)
  BY <1>3
<1>5. f[i - 1] = g[i - 1] + a
  BY <1>2, <1>4 DEF S
<1>6. PICK x \in Nat : f[i] = f[i - 1] + x /\ g[i] = g[i - 1] + x
  BY <1>4
<1>7. f[i - 1] \in Nat /\ g[i - 1] \in Nat
  BY <1>4
<1> QED BY <1>3, <1>5, <1>6, <1>7

\* Nothing waits: no frames.
LEMMA FramesOfNone == FramesOf(<<>>) = 0
<1>1. <<>> \in Seq(Infos) /\ Len(<<>>) = 0
  BY EmptySeq
<1> QED BY <1>1, FrameSums

\* A work that is noted adds its frames.
LEMMA FramesOfAppend ==
  ASSUME NEW s \in Seq(Infos), NEW x \in Infos
  PROVE  FramesOf(s) \in Nat /\ FramesOf(Append(s, x)) = FramesOf(s) + x.frames
<1> DEFINE t == Append(s, x)
           n == Len(s)
<1>1. /\ t \in Seq(Infos) /\ Len(t) = n + 1 /\ n \in Nat /\ t[n + 1] = x
      /\ \A i \in 1 .. n : t[i] = s[i] /\ s[i].frames \in Nat
      /\ x.frames \in Nat
  <2>1. /\ t \in Seq(Infos) /\ Len(t) = n + 1 /\ n \in Nat /\ t[n + 1] = x
        /\ \A i \in 1 .. n : t[i] = s[i]
    BY AppendProperties, LenProperties
  <2>2. \A i \in 1 .. n : s[i] \in Infos
    BY ElementOfSeq
  <2> HIDE DEF t, n
  <2> QED BY <2>1, <2>2 DEF Infos
<1> HIDE DEF t, n
<1>2. PICK f \in [0 .. n -> Nat] :
           /\ f[0] = 0 /\ \A i \in 1 .. n : f[i] = f[i - 1] + s[i].frames
           /\ FramesOf(s) = f[n]
  BY FrameSums DEF n
<1>3. PICK g \in [0 .. n + 1 -> Nat] :
           /\ g[0] = 0 /\ \A i \in 1 .. n + 1 : g[i] = g[i - 1] + t[i].frames
           /\ FramesOf(t) = g[n + 1]
  BY <1>1, FrameSums
<1> DEFINE h == [i \in 0 .. n |-> g[i]]
<1>4. h \in [0 .. n -> Nat] /\ h[0] = f[0] + 0
  BY <1>1, <1>2, <1>3
<1>5. \A i \in 1 .. n : \E y \in Nat : h[i] = h[i - 1] + y /\ f[i] = f[i - 1] + y
  <2> SUFFICES ASSUME NEW i \in 1 .. n PROVE h[i] = h[i - 1] + s[i].frames /\ f[i] = f[i - 1] + s[i].frames
    BY <1>1
  <2>1. i \in 0 .. n /\ i - 1 \in 0 .. n /\ i \in 1 .. n + 1
    BY <1>1
  <2> QED BY <1>1, <1>2, <1>3, <2>1
<1>6. n \in Nat
  BY <1>1
<1>6a. 0 \in Nat
  OBVIOUS
<1> HIDE DEF h
<1>7. h[n] = f[n] + 0
  BY <1>4, <1>5, <1>6, <1>6a, SumsAgree
<1>8. h[n] = g[n] /\ g[n + 1] = g[n] + x.frames /\ f[n] \in Nat
  BY <1>1, <1>2, <1>3 DEF h
<1> QED BY <1>2, <1>3, <1>7, <1>8 DEF t

\* The frames of the first work and those of the others.
LEMMA FramesOfTail ==
  ASSUME NEW s \in Seq(Infos), s # <<>>
  PROVE  /\ Head(s).frames \in Nat /\ Tail(s) \in Seq(Infos) /\ FramesOf(Tail(s)) \in Nat
         /\ FramesOf(s) = Head(s).frames + FramesOf(Tail(s))
<1> DEFINE t == Tail(s)
           n == Len(t)
<1>1. /\ t \in Seq(Infos) /\ Len(s) = n + 1 /\ n \in Nat /\ Head(s) = s[1]
      /\ \A i \in 1 .. n : t[i] = s[i + 1]
      /\ \A i \in 1 .. n + 1 : s[i].frames \in Nat
  <2>1. /\ t \in Seq(Infos) /\ Len(s) = n + 1 /\ n \in Nat /\ Head(s) = s[1]
        /\ \A i \in 1 .. n : t[i] = s[i + 1]
    BY HeadTailProperties, LenProperties, EmptySeq
  <2>2. \A i \in 1 .. Len(s) : s[i] \in Infos
    BY ElementOfSeq
  <2> HIDE DEF t, n
  <2> QED BY <2>1, <2>2 DEF Infos
<1> HIDE DEF t, n
<1>2. PICK f \in [0 .. n -> Nat] :
           /\ f[0] = 0 /\ \A i \in 1 .. n : f[i] = f[i - 1] + t[i].frames
           /\ FramesOf(t) = f[n]
  BY <1>1, FrameSums DEF n
<1>3. PICK g \in [0 .. n + 1 -> Nat] :
           /\ g[0] = 0 /\ \A i \in 1 .. n + 1 : g[i] = g[i - 1] + s[i].frames
           /\ FramesOf(s) = g[n + 1]
  BY <1>1, FrameSums
<1> DEFINE h == [i \in 0 .. n |-> g[i + 1]]
           a == s[1].frames
<1>4. /\ h \in [0 .. n -> Nat] /\ a \in Nat
      /\ h[0] = f[0] + a
  BY <1>1, <1>2, <1>3
<1>5. \A i \in 1 .. n : \E y \in Nat : h[i] = h[i - 1] + y /\ f[i] = f[i - 1] + y
  <2> SUFFICES ASSUME NEW i \in 1 .. n PROVE h[i] = h[i - 1] + t[i].frames /\ f[i] = f[i - 1] + t[i].frames
    <3>1. ASSUME NEW j \in 1 .. n PROVE t[j].frames \in Nat
      <4>1. j + 1 \in 1 .. n + 1 /\ t[j] = s[j + 1]
        BY <1>1
      <4> QED BY <1>1, <4>1
    <3> QED BY <3>1
  <2>1. /\ i \in 0 .. n /\ i - 1 \in 0 .. n /\ i + 1 \in 1 .. n + 1
        /\ (i + 1) - 1 = i /\ (i - 1) + 1 = i
    BY <1>1
  <2>2. g[i + 1] = g[i] + t[i].frames
    BY <1>1, <1>3, <2>1
  <2> QED BY <1>2, <2>1, <2>2
<1> HIDE DEF h, a
<1>7. h[n] = f[n] + a
  BY <1>1, <1>4, <1>5, SumsAgree
<1>8. h[n] = g[n + 1] /\ f[n] \in Nat
  BY <1>1, <1>2, <1>3 DEF h
<1> QED BY <1>1, <1>2, <1>3, <1>4, <1>7, <1>8 DEF t, a

-----------------------------------------------------------------------------
(* A codec that is set up stays usable.                                     *)

\* Nothing about the set-up of the codec has changed.
SameSetUp(c, d) == d.conf = c.conf /\ d.lib = c.lib /\ d.setUp = c.setUp /\ d.open = c.open

\* The codec has what it needs to be set up, or was set up and has what it needs.
Usable(d, c) == d \notin {"aac", "image"} => c.conf /\ (c.setUp => c.lib /\ c.open)

\* onInit has come to its end.
IsSetUp(d, c) == IF d = "aac" THEN c.open ELSE d = "image" \/ c.setUp

\* Both say the same of a codec whose set-up is the same.
LEMMA SetUpCarries ==
  ASSUME NEW d, NEW c, NEW e, SameSetUp(c, e)
  PROVE  Usable(d, e) = Usable(d, c) /\ IsSetUp(d, e) = IsSetUp(d, c)
BY DEF SameSetUp, Usable, IsSetUp

\* The changes process() and the loops that send output make.
LEMMA ChangesSame ==
  ASSUME NEW c \in GoodCodecs
  PROVE  /\ SameSetUp(c, c) /\ SameSetUp(c, NoInfos(c))
         /\ \A b : SameSetUp(c, [c EXCEPT !.known = b]) /\ SameSetUp(c, [c EXCEPT !.error = b])
         /\ \A s : SameSetUp(c, [c EXCEPT !.infos = s])
         /\ \A f, k : SameSetUp(c, [c EXCEPT !.filled = f, !.compensated = k])
         /\ \A f, b : SameSetUp(c, [c EXCEPT !.filled = f, !.known = b])
         /\ \A f, k, b : SameSetUp(c, [c EXCEPT !.filled = f, !.compensated = k, !.error = b])
         /\ \A f, s : SameSetUp(c, [c EXCEPT !.filled = f, !.infos = s])
         /\ \A f : SameSetUp(c, [c EXCEPT !.filled = f])
<1>1. c \in Codecs
  BY DEF GoodCodecs
<1>2. /\ SameSetUp(c, c) /\ SameSetUp(c, NoInfos(c))
      /\ \A b : SameSetUp(c, [c EXCEPT !.known = b]) /\ SameSetUp(c, [c EXCEPT !.error = b])
      /\ \A s : SameSetUp(c, [c EXCEPT !.infos = s])
      /\ \A f : SameSetUp(c, [c EXCEPT !.filled = f])
  BY <1>1 DEF Codecs, SameSetUp, NoInfos
<1>3. \A f, k : SameSetUp(c, [c EXCEPT !.filled = f, !.compensated = k])
  BY <1>1 DEF Codecs, SameSetUp
<1>4. \A f, b : SameSetUp(c, [c EXCEPT !.filled = f, !.known = b])
  BY <1>1 DEF Codecs, SameSetUp
<1>5. \A f, k, b : SameSetUp(c, [c EXCEPT !.filled = f, !.compensated = k, !.error = b])
  BY <1>1 DEF Codecs, SameSetUp
<1>6. \A f, s : SameSetUp(c, [c EXCEPT !.filled = f, !.infos = s])
  BY <1>1 DEF Codecs, SameSetUp
<1> QED BY <1>2, <1>3, <1>4, <1>5, <1>6

\* Set-ups that are the same one after another.
LEMMA SameTwice ==
  ASSUME NEW c, NEW d, NEW e, SameSetUp(c, d), SameSetUp(d, e)
  PROVE  SameSetUp(c, e)
BY DEF SameSetUp

\* drainDecoder, onFlush_sm and the loops that send output leave the set-up alone.
LEMMA SendingSame ==
  ASSUME NEW d, NEW c \in GoodCodecs
  PROVE  /\ SameSetUp(c, DrainDecoder(c)) /\ SameSetUp(c, FlushedCodec(d, c))
         /\ SameSetUp(c, DrainedCodec(d, c)) /\ SameSetUp(c, Discard(c))
         /\ SameSetUp(c, Sent(d, c)) /\ SameSetUp(c, SentWithoutBlock(c))
         /\ SameSetUp(c, [c EXCEPT !.infos = Tail(c.infos)]) /\ SameSetUp(c, NoInfos(c))
<1>1. SameSetUp(c, DrainDecoder(c)) /\ SameSetUp(c, Discard(c))
  BY ChangesSame DEF DrainDecoder, Discard
<1>2. SameSetUp(c, Sent(d, c)) /\ SameSetUp(c, SentWithoutBlock(c))
      /\ SameSetUp(c, [c EXCEPT !.infos = Tail(c.infos)]) /\ SameSetUp(c, NoInfos(c))
  BY ChangesSame DEF Sent, AacSent, SentWithoutBlock
<1>3. SameSetUp(c, AacFlush(c))
  <2>1. DrainDecoder(c) \in GoodCodecs /\ NoInfos(DrainDecoder(c)) \in GoodCodecs
    BY DrainDecoderGood, GoodParts
  <2>2. SameSetUp(DrainDecoder(c), NoInfos(DrainDecoder(c)))
        /\ SameSetUp(NoInfos(DrainDecoder(c)), AacFlush(c))
    BY <2>1, ChangesSame DEF AacFlush
  <2> QED BY <1>1, <2>2, SameTwice
<1>4. FlushedCodec(d, c) \in {AacFlush(c), c, NoInfos(c)}
  BY Zenon DEF FlushedCodec
<1> QED BY <1>1, <1>2, <1>3, <1>4, ChangesSame DEF DrainedCodec

\* So does process(), of every decoder.
LEMMA ProcessSame ==
  ASSUME NEW d, NEW c \in GoodCodecs, NEW k, NEW w \in Entries, NEW r \in Process(d, c, k, w)
  PROVE  SameSetUp(c, r.codec)
<1>1. \A e, how, n : Result(e, how, n).codec = e
  BY DEF Result
<1>2. ASSUME NEW e \in AacDecoded(c) PROVE e \in GoodCodecs /\ SameSetUp(c, e)
  <2>1. PICK n : e = [c EXCEPT !.filled = c.filled + n, !.known = (c.known \/ n > 0)]
    BY <1>2 DEF AacDecoded
  <2>2. \A f, b : SameSetUp(c, [c EXCEPT !.filled = f, !.known = b])
    BY ChangesSame
  <2>3. SameSetUp(c, [c EXCEPT !.filled = c.filled + n, !.known = (c.known \/ n > 0)])
    BY <2>2
  <2> QED BY <1>2, <2>1, <2>3, AacDecodedGood
<1>3. ASSUME NEW s \in AacProcess(c, k, w) PROVE SameSetUp(c, s.codec)
  <2>1. CASE s \in AacConfigures(c)
    <3>1. PICK known, n : \/ s = Result([c EXCEPT !.known = known], "processed", 0)
                          \/ s = Result([c EXCEPT !.error = TRUE], "processed", n)
      BY <2>1 DEF AacConfigures
    <3>2. s.codec = [c EXCEPT !.known = known] \/ s.codec = [c EXCEPT !.error = TRUE]
      BY <1>1, <3>1
    <3> QED BY <3>2, ChangesSame
  <2>2. CASE s \in AacFails(c)
    <3>1. PICK e \in AacDecoded(c) : s = Result([e EXCEPT !.error = TRUE], "processed", 1)
      BY <2>2 DEF AacFails
    <3>2. s.codec = [e EXCEPT !.error = TRUE] /\ e \in GoodCodecs
      BY <1>1, <1>2, <3>1
    <3>3. SameSetUp(e, s.codec)
      BY <3>2, ChangesSame
    <3> QED BY <1>2, <3>3, SameTwice
  <2>3. CASE \E e \in AacDecoded(c) :
               s = AacGoesOn([e EXCEPT !.infos = Append(e.infos, Info(w, e.filled - c.filled))], k)
    <3>1. PICK e \in AacDecoded(c) :
               s = AacGoesOn([e EXCEPT !.infos = Append(e.infos, Info(w, e.filled - c.filled))], k)
      BY <2>3
    <3> DEFINE noted == [e EXCEPT !.infos = Append(e.infos, Info(w, e.filled - c.filled))]
    <3>2. noted \in GoodCodecs
      <4>1. Info(w, e.filled - c.filled) \in Infos
        BY AacDecodedGood DEF Info, Infos
      <4>2. Append(e.infos, Info(w, e.filled - c.filled)) \in Seq(Infos)
        BY <4>1, AacDecodedGood, GoodFields, AppendProperties
      <4> QED BY <4>2, AacDecodedGood, GoodChanges
    <3>3. SameSetUp(e, noted)
      BY <1>2, ChangesSame
    <3> HIDE DEF noted
    <3>4. s = AacGoesOn(noted, k)
      BY <3>1 DEF noted
    <3>5. s.codec \in {noted, DrainDecoder(noted), Discard(noted)}
      BY <1>1, <3>4 DEF AacGoesOn
    <3>6. SameSetUp(noted, s.codec)
      BY <3>2, <3>5, SendingSame, ChangesSame
    <3> QED BY <1>2, <3>3, <3>6, SameTwice
  <2>4. CASE s = Result(c, "processed", 0) \/ s = Result(c, "broken", 0)
    <3>1. s.codec = c
      BY <1>1, <2>4
    <3> QED BY <3>1, ChangesSame
  <2> QED BY <1>3, <2>1, <2>2, <2>3, <2>4 DEF AacProcess
<1>4. SameSetUp(c, c) /\ SameSetUp(c, Noted(c, w))
  BY ChangesSame DEF Noted
<1>5. ASSUME NEW s \in Eac3Process(c, w) \cup Yields(c, w) \cup FfmpegProcess(c, k, w)
                       \cup ImageProcess(c) \cup {Result(c, "broken", 0)}
      PROVE  SameSetUp(c, s.codec)
  <2>1. s.codec \in {c, Noted(c, w)}
    BY <1>1, <1>5 DEF Eac3Process, Yields, FfmpegProcess, ImageProcess, ConfigFails, ImageFails
  <2> QED BY <1>4, <2>1
<1>6. \/ r \in AacProcess(c, k, w) \/ r \in Eac3Process(c, w) \/ r \in DtsProcess(c, w)
      \/ r \in DtsxProcess(c, w) \/ r \in Ac4Process(c, w) \/ r \in ImageProcess(c)
      \/ r \in FfmpegProcess(c, k, w)
  BY Zenon DEF Process
<1>7. DtsProcess(c, w) \cup DtsxProcess(c, w) \cup Ac4Process(c, w)
        \subseteq Yields(c, w) \cup {Result(c, "broken", 0)}
  BY DEF DtsProcess, DtsxProcess, Ac4Process
<1> QED BY <1>3, <1>5, <1>6, <1>7

\* What a codec is used by, of the decoder it is for.
LEMMA ProcessReady ==
  ASSUME NEW d \in AllDecoders, NEW c \in GoodCodecs, NEW k, NEW w \in Entries,
         NEW r \in Process(d, c, k, w), Usable(d, c), IsSetUp(d, c)
  PROVE  r.how # "broken"
<1>1. \A e, how, n : Result(e, how, n).how = how
  BY DEF Result
<1>2. CASE d = "aac"
  <2>1. r \in AacProcess(c, k, w)
    BY <1>2, Zenon DEF Process
  <2>2. c.open
    BY <1>2 DEF IsSetUp
  <2>3. \A e : AacGoesOn(e, k).how \in {"send", "waits"}
    BY <1>1 DEF AacGoesOn
  <2>4. r.how \in {"processed", "send", "waits"}
    <3>1. ASSUME r \in AacConfigures(c) PROVE r.how = "processed"
      <4>1. \E e, n : r = Result(e, "processed", n)
        BY <3>1 DEF AacConfigures
      <4> QED BY <1>1, <4>1
    <3>2. ASSUME r \in AacFails(c) PROVE r.how = "processed"
      <4>1. \E e, n : r = Result(e, "processed", n)
        BY <3>2 DEF AacFails
      <4> QED BY <1>1, <4>1
    <3>3. \/ r = Result(c, "processed", 0) \/ r \in AacConfigures(c) \/ r \in AacFails(c)
          \/ \E e : r = AacGoesOn(e, k)
      BY <2>1, <2>2 DEF AacProcess
    <3> QED BY <1>1, <2>3, <3>1, <3>2, <3>3
  <2> QED BY <2>4
<1>3. CASE d = "image"
  <2>1. r \in ImageProcess(c)
    BY <1>3, Zenon DEF Process
  <2> QED BY <1>1, <2>1 DEF ImageProcess, ImageFails
<1>4. CASE d \notin {"aac", "image"}
  <2>1. c.conf /\ c.lib /\ c.open
    BY <1>4 DEF Usable, IsSetUp
  <2>2. r \in Eac3Process(c, w) \cup DtsProcess(c, w) \cup DtsxProcess(c, w)
              \cup Ac4Process(c, w) \cup FfmpegProcess(c, k, w)
    BY <1>4, Zenon DEF Process
  <2>3. r.how \in {"send", "processed"}
    BY <1>1, <2>1, <2>2 DEF Eac3Process, DtsProcess, DtsxProcess, Ac4Process, FfmpegProcess,
            Yields, ConfigFails
  <2> QED BY <2>3
<1> QED BY <1>2, <1>3, <1>4

\* Without a failure onInit comes to its end: the codec is set up, and usable.
LEMMA SetUpReady ==
  ASSUME NEW d \in AllDecoders, NEW c \in GoodCodecs, Usable(d, c),
         NEW r \in SetUp(d, c), r.faults = 0
  PROVE  r.how = "ok" /\ Usable(d, r.codec) /\ IsSetUp(d, r.codec)
<1>1. \A e, how, n : Result(e, how, n) = [codec |-> e, how |-> how, faults |-> n]
  BY DEF Result
<1>2. CASE d = "aac"
  <2>1. r \in AacInit(c)
    BY <1>2, Zenon DEF SetUp
  <2>2. r.how = "ok" /\ r.codec = [AacEmpty(c) EXCEPT !.open = TRUE, !.known = FALSE]
    BY <1>1, <2>1 DEF AacInit
  <2>3. c \in Codecs
    BY DEF GoodCodecs
  <2>4. r.codec.open = TRUE
    BY <2>2, <2>3 DEF AacEmpty, Codecs
  <2> QED BY <1>2, <2>2, <2>4 DEF Usable, IsSetUp
<1>3. CASE d = "image"
  <2>1. r = Result(c, "ok", 0)
    BY <1>3, Zenon DEF SetUp
  <2> QED BY <1>1, <1>3, <2>1 DEF Usable, IsSetUp
<1>4. CASE d \notin {"aac", "image"}
  <2>1. c \in Codecs /\ c.conf
    BY <1>4 DEF GoodCodecs, Usable
  <2>2. r \in Eac3SetUp(c) \cup DtsSetUp(c) \cup DtsxSetUp(c) \cup Ac4SetUp(c) \cup FfmpegSetUp(c)
    BY <1>4, Zenon DEF SetUp
  <2>3. CASE c.setUp
    <3>1. r = Result(c, "ok", 0)
      BY <2>2, <2>3 DEF Eac3SetUp, DtsSetUp, DtsxSetUp, Ac4SetUp, FfmpegSetUp
    <3> QED BY <1>1, <1>4, <2>3, <3>1 DEF IsSetUp
  <2>4. CASE ~c.setUp
    <3>1. r \in {Result(Opened(c), "ok", 0), LoadFails(c)} \cup DtsxInitFails(c)
      BY <2>1, <2>2, <2>4 DEF Eac3SetUp, DtsSetUp, DtsxSetUp, Ac4SetUp, FfmpegSetUp, UsesConfig
    <3>2. r = Result(Opened(c), "ok", 0)
      BY <1>1, <2>1, <3>1 DEF LoadFails, DtsxInitFails
    <3>3. r.codec = Opened(c) /\ r.how = "ok"
      BY <1>1, <3>2
    <3>4. Opened(c).conf = c.conf /\ Opened(c).lib /\ Opened(c).open /\ Opened(c).setUp
      BY <2>1 DEF Opened, Codecs
    <3> QED BY <1>4, <2>1, <3>3, <3>4 DEF Usable, IsSetUp
  <2> QED BY <2>3, <2>4
<1> QED BY <1>2, <1>3, <1>4

\* Without a failure onStop and onReset leave the codec usable, and set up if it was;
\* FFMPEG codecs that onReset does not initialise again are the exception.
LEMMA StopReady ==
  ASSUME NEW d \in AllDecoders \ {"ffmpeg"}, NEW c \in GoodCodecs,
         NEW r \in Stop(d, c) \cup Reset(d, c), r.faults = 0
  PROVE  /\ r.how # "broken"
         /\ Usable(d, c) => Usable(d, r.codec) /\ (IsSetUp(d, c) => IsSetUp(d, r.codec))
<1>1. \A e, how, n : Result(e, how, n) = [codec |-> e, how |-> how, faults |-> n]
  BY DEF Result
<1>2. SameSetUp(c, c) /\ SameSetUp(c, NoInfos(c))
  BY ChangesSame
<1>3. ASSUME r.how # "broken", SameSetUp(c, r.codec)
      PROVE  /\ r.how # "broken"
             /\ Usable(d, c) => Usable(d, r.codec) /\ (IsSetUp(d, c) => IsSetUp(d, r.codec))
  BY <1>3, SetUpCarries
<1>4. CASE d = "aac"
  <2> DEFINE stopped == [NoInfos(AacEmpty(c)) EXCEPT !.error = FALSE]
  <2>1. c \in Codecs
    BY DEF GoodCodecs
  <2>2. PICK s \in AacStop(c) : r.codec = s.codec /\ r.how \in {s.how, "ok"} /\ r.faults = s.faults
    <3>1. r \in AacStop(c) \/ \E s \in AacStop(c) : r = [s EXCEPT !.how = "ok"]
      BY <1>4, Zenon DEF Stop, Reset
    <3>2. \A s \in AacStop(c) : \E e, how, n : s = [codec |-> e, how |-> how, faults |-> n]
      BY <1>1 DEF AacStop, AacInit
    <3> QED BY <3>1, <3>2
  <2>3. s.how \in {"ok", "failed"}
    BY <1>1 DEF AacStop, AacInit
  <2>4. ASSUME c.open PROVE s.codec.open
    <3>1. s.codec = [AacEmpty(stopped) EXCEPT !.open = TRUE, !.known = FALSE]
      BY <1>1, <2>2, <2>4 DEF AacStop, AacInit
    <3>2. AacEmpty(stopped) \in [conf : BOOLEAN, lib : BOOLEAN, setUp : BOOLEAN, open : BOOLEAN,
             infos : {<<>>}, filled : {0}, compensated : {0}, delay : Nat, known : BOOLEAN,
             error : {FALSE}]
      BY <2>1 DEF Codecs, AacEmpty, NoInfos
    <3> HIDE DEF stopped
    <3> QED BY <3>1, <3>2
  <2> QED BY <1>4, <2>2, <2>3, <2>4 DEF Usable, IsSetUp
<1>5. CASE d # "aac" /\ r \in Stop(d, c)
  <2>1. r = Result(c, "ok", 0) \/ r = Result(NoInfos(c), "ok", 0)
    BY <1>5 DEF Stop, Stopped
  <2> QED BY <1>1, <1>2, <1>3, <2>1
<1>6. CASE d \notin {"aac", "ffmpegInit"} /\ r \in Reset(d, c)
  <2>1. r = Result(c, "ok", 0)
    BY <1>6, Zenon DEF Reset, Eac3Reset
  <2> QED BY <1>1, <1>2, <1>3, <2>1
<1>7. CASE d = "ffmpegInit" /\ r \in Reset(d, c)
  <2>1. r = Result(FfmpegResetInit(c), "ok", 0)
    BY <1>7, Zenon DEF Reset
  <2>2. c \in Codecs
    BY DEF GoodCodecs
  <2>3. /\ FfmpegResetInit(c).conf = c.conf /\ FfmpegResetInit(c).lib = c.lib
        /\ FfmpegResetInit(c).setUp = c.setUp /\ FfmpegResetInit(c).open = c.lib
    BY <2>2 DEF FfmpegResetInit, NoInfos, Codecs
  <2> QED BY <1>1, <1>7, <2>1, <2>3 DEF Usable, IsSetUp
<1> QED BY <1>4, <1>5, <1>6, <1>7

-----------------------------------------------------------------------------
(* Sound stays with its work.                                               *)

\* The frames in the ring buffer and those owed are the ones of the works noted; none
\* is owed any more.
Sound(c) == ~c.error => c.filled + c.compensated = FramesOf(c.infos)
Paid(c) == ~c.error => c.compensated = 0

\* The delayed frames come out, all of them or the decoder has an error.
LEMMA DrainDecoderSound ==
  ASSUME NEW c \in GoodCodecs, Sound(c)
  PROVE  Sound(DrainDecoder(c)) /\ Paid(DrainDecoder(c))
<1> DEFINE k == Least(c.compensated, RingSize - c.filled)
           d == DrainDecoder(c)
<1>1. /\ c \in Codecs /\ c.filled \in Nat /\ c.compensated \in Nat /\ c.error \in BOOLEAN
      /\ c.filled <= RingSize /\ RingSize \in Nat
  BY GoodFields, FramesAssumption
<1>2. k \in Nat /\ k <= c.compensated
  BY <1>1 DEF Least
<1>3. /\ d.filled = c.filled + k /\ d.compensated = c.compensated - k
      /\ d.error = (c.error \/ k < c.compensated) /\ d.infos = c.infos
  <2> HIDE DEF k
  <2>1. d = [c EXCEPT !.filled = c.filled + k, !.compensated = c.compensated - k,
                      !.error = (c.error \/ k < c.compensated)]
    BY DEF DrainDecoder, k
  <2> HIDE DEF d
  <2> QED BY <1>1, <2>1 DEF Codecs
<1> HIDE DEF k, d
<1>4. d.filled + d.compensated = c.filled + c.compensated
  BY <1>1, <1>2, <1>3
<1>5. ~d.error => d.compensated = 0 /\ ~c.error
  <2>1. ~d.error => ~c.error /\ ~(k < c.compensated)
    BY <1>3, Zenon
  <2> QED BY <1>1, <1>2, <1>3, <2>1
<1>6. Sound(d) /\ Paid(d)
  BY <1>3, <1>4, <1>5 DEF Sound, Paid
<1> QED BY <1>6 DEF d

\* After a flush nothing is noted, in the ring buffer or owed.
LEMMA AacFlushSound ==
  ASSUME NEW c \in GoodCodecs, Sound(c)
  PROVE  Sound(AacFlush(c))
<1> DEFINE d == DrainDecoder(c)
           e == AacFlush(c)
<1>1. d \in Codecs /\ Paid(d) /\ d.compensated \in Nat
  BY DrainDecoderGood, DrainDecoderSound DEF GoodCodecs, Codecs
<1>2. e = [NoInfos(d) EXCEPT !.filled = 0]
  BY DEF AacFlush
<1> HIDE DEF d, e
<1>3. e.filled = 0 /\ e.compensated = d.compensated /\ e.error = d.error /\ e.infos = <<>>
  BY <1>1, <1>2 DEF Codecs, NoInfos
<1>4. Sound(e)
  BY <1>1, <1>3, FramesOfNone DEF Sound, Paid
<1> QED BY <1>4 DEF e

\* initDecoder, when no work is noted.
LEMMA AacInitSound ==
  ASSUME NEW c \in GoodCodecs, c.infos = <<>>, NEW r \in AacInit(c)
  PROVE  Sound(r.codec) /\ r.codec.infos = <<>>
<1>1. c \in Codecs
  BY DEF GoodCodecs
<1>2. PICK b : r.codec = [AacEmpty(c) EXCEPT !.open = b, !.known = FALSE]
  <2>1. PICK b, how, n : r = Result([AacEmpty(c) EXCEPT !.open = b, !.known = FALSE], how, n)
    BY DEF AacInit
  <2>2. r.codec = [AacEmpty(c) EXCEPT !.open = b, !.known = FALSE]
    BY <2>1 DEF Result
  <2> QED BY <2>2
<1>3. r.codec.filled = 0 /\ r.codec.compensated = 0 /\ r.codec.infos = <<>>
  <2>1. AacEmpty(c) = [c EXCEPT !.filled = 0, !.compensated = 0]
    BY DEF AacEmpty
  <2> QED BY <1>1, <1>2, <2>1 DEF Codecs
<1> QED BY <1>3, FramesOfNone DEF Sound

\* onStop and onReset, whatever is noted.
LEMMA AacStopSound ==
  ASSUME NEW c \in GoodCodecs, NEW r \in Stop("aac", c) \cup Reset("aac", c)
  PROVE  Sound(r.codec) /\ r.codec.infos = <<>>
<1> DEFINE stopped == [NoInfos(AacEmpty(c)) EXCEPT !.error = FALSE]
<1>1. c \in Codecs
  BY DEF GoodCodecs
<1>2. stopped.filled = 0 /\ stopped.compensated = 0 /\ stopped.infos = <<>>
  BY <1>1 DEF Codecs, NoInfos, AacEmpty
<1>3. stopped \in GoodCodecs
  <2>1. 0 \in Nat /\ 0 <= RingSize /\ 0 <= c.delay
    BY GoodFields, FramesAssumption
  <2>2. AacEmpty(c) \in GoodCodecs
    BY <2>1, GoodAmounts DEF AacEmpty
  <2> QED BY <2>2, GoodParts, GoodChanges
<1>4. AacStop(c) = IF c.open THEN AacInit(stopped) ELSE {Result(stopped, "failed", 0)}
  BY DEF AacStop
<1> HIDE DEF stopped
<1>5. ASSUME NEW s \in AacStop(c) PROVE Sound(s.codec) /\ s.codec.infos = <<>>
  <2>1. CASE s \in AacInit(stopped)
    BY <1>2, <1>3, <2>1, AacInitSound
  <2>2. CASE s = Result(stopped, "failed", 0)
    <3>1. s.codec = stopped
      BY <2>2 DEF Result
    <3> QED BY <1>2, <3>1, FramesOfNone DEF Sound
  <2> QED BY <1>4, <1>5, <2>1, <2>2
<1>6. r \in AacStop(c) \/ \E s \in AacStop(c) : r = [s EXCEPT !.how = "ok"]
  BY Zenon DEF Stop, Reset
<1>7. \A s \in AacStop(c) : [s EXCEPT !.how = "ok"].codec = s.codec
  <2>1. \A s \in AacStop(c) : \E e, how, n : s = Result(e, how, n)
    BY <1>4 DEF AacInit
  <2> QED BY <2>1 DEF Result
<1> QED BY <1>5, <1>6, <1>7

\* What a work is decoded to is noted with the work.
LEMMA AacNotedSound ==
  ASSUME NEW c \in GoodCodecs, Sound(c), NEW w \in Entries, NEW d \in AacDecoded(c)
  PROVE  LET noted == [d EXCEPT !.infos = Append(d.infos, Info(w, d.filled - c.filled))]
         IN  noted \in GoodCodecs /\ Sound(noted)
<1> DEFINE x == Info(w, d.filled - c.filled)
           noted == [d EXCEPT !.infos = Append(d.infos, x)]
<1>1. /\ c \in Codecs /\ c.filled \in Nat /\ c.compensated \in Nat /\ c.infos \in Seq(Infos)
  BY GoodFields
<1>2. d \in GoodCodecs /\ d.filled - c.filled \in Nat /\ d.filled \in Nat /\ d \in Codecs
  BY AacDecodedGood, GoodFields
<1>3. d.compensated = c.compensated /\ d.infos = c.infos /\ d.error = c.error
  BY <1>1 DEF AacDecoded, Codecs
<1>4. x \in Infos /\ x.frames = d.filled - c.filled
  BY <1>2 DEF Info, Infos
<1>5. Append(d.infos, x) \in Seq(Infos)
  BY <1>1, <1>3, <1>4, AppendProperties
<1>6. noted \in GoodCodecs
  BY <1>2, <1>5, GoodChanges
<1>7. FramesOf(c.infos) \in Nat
      /\ FramesOf(Append(c.infos, x)) = FramesOf(c.infos) + (d.filled - c.filled)
  BY <1>1, <1>4, FramesOfAppend
<1>8. /\ noted.filled = d.filled /\ noted.compensated = d.compensated /\ noted.error = d.error
      /\ noted.infos = Append(c.infos, x)
  BY <1>2, <1>3 DEF Codecs
<1> HIDE DEF noted, x
<1>9. Sound(noted)
  BY <1>1, <1>2, <1>3, <1>7, <1>8 DEF Sound
<1> QED BY <1>6, <1>9 DEF noted, x

\* Discarded frames are owed.
LEMMA DiscardSound ==
  ASSUME NEW c \in GoodCodecs, Sound(c)
  PROVE  Sound(Discard(c))
<1> DEFINE k == Least(c.filled, c.delay - c.compensated)
           d == Discard(c)
<1>1. /\ c \in Codecs /\ c.filled \in Nat /\ c.compensated \in Nat /\ c.delay \in Nat
      /\ c.compensated <= c.delay
  BY GoodFields
<1>2. k \in Nat
  BY <1>1 DEF Least
<1>3. d.filled = c.filled - k /\ d.compensated = c.compensated + k /\ d.error = c.error
      /\ d.infos = c.infos
  <2> HIDE DEF k
  <2>1. d = [c EXCEPT !.filled = c.filled - k, !.compensated = c.compensated + k]
    BY DEF Discard, k
  <2> HIDE DEF d
  <2> QED BY <1>1, <2>1 DEF Codecs
<1> HIDE DEF k, d
<1>4. Sound(d)
  BY <1>1, <1>2, <1>3 DEF Sound
<1> QED BY <1>4 DEF d

\* process(), as long as nothing fails; at the end of the stream nothing is owed.
LEMMA AacProcessSound ==
  ASSUME NEW c \in GoodCodecs, Sound(c), NEW k, NEW w \in Entries, NEW r \in AacProcess(c, k, w),
         r.faults = 0
  PROVE  Sound(r.codec) /\ (r.how = "send" /\ k \in EosKinds => Paid(r.codec))
<1>1. \A e, how, n : Result(e, how, n) = [codec |-> e, how |-> how, faults |-> n]
  BY DEF Result
<1>2. c \in Codecs
  BY DEF GoodCodecs
<1>3. CASE r \in AacConfigures(c)
  <2>1. PICK known, n : \/ r = Result([c EXCEPT !.known = known], "processed", 0)
                        \/ r = Result([c EXCEPT !.error = TRUE], "processed", n)
    BY <1>3 DEF AacConfigures
  <2>2. r.how = "processed"
        /\ (r.codec = [c EXCEPT !.known = known] \/ r.codec = [c EXCEPT !.error = TRUE])
    BY <1>1, <2>1
  <2>3. /\ [c EXCEPT !.known = known].filled = c.filled /\ [c EXCEPT !.known = known].infos = c.infos
        /\ [c EXCEPT !.known = known].compensated = c.compensated
        /\ [c EXCEPT !.known = known].error = c.error /\ [c EXCEPT !.error = TRUE].error = TRUE
    BY <1>2 DEF Codecs
  <2> QED BY <2>2, <2>3 DEF Sound
<1>4. CASE r \in AacFails(c)
  <2>1. \E e : r = Result(e, "processed", 1)
    BY <1>4 DEF AacFails
  <2> QED BY <1>1, <2>1
<1>5. CASE r = Result(c, "processed", 0) \/ r = Result(c, "broken", 0)
  BY <1>1, <1>5
<1>6. CASE \E d \in AacDecoded(c) :
             r = AacGoesOn([d EXCEPT !.infos = Append(d.infos, Info(w, d.filled - c.filled))], k)
  <2>1. PICK d \in AacDecoded(c) :
             r = AacGoesOn([d EXCEPT !.infos = Append(d.infos, Info(w, d.filled - c.filled))], k)
    BY <1>6
  <2> DEFINE e == [d EXCEPT !.infos = Append(d.infos, Info(w, d.filled - c.filled))]
  <2>2. e \in GoodCodecs /\ Sound(e) /\ r = AacGoesOn(e, k)
    BY <2>1, AacNotedSound
  <2> HIDE DEF e
  <2>3. \/ r = Result(DrainDecoder(e), "send", 0)
        \/ k \notin EosKinds /\ (r = Result(Discard(e), "waits", 0) \/ r = Result(e, "send", 0))
    BY <2>2 DEF AacGoesOn
  <2> QED BY <1>1, <2>2, <2>3, DrainDecoderSound, DiscardSound
<1> QED BY <1>3, <1>4, <1>5, <1>6 DEF AacProcess

\* A work goes out with all its frames: they are there, also at the end of the stream.
LEMMA AacSentSound ==
  ASSUME NEW c \in GoodCodecs, Sound(c), NEW atEnd, AacMaySend(c, atEnd), atEnd => Paid(c)
  PROVE  Sound(AacSent(c)) /\ (atEnd => Paid(AacSent(c)))
<1> DEFINE k == AacSamples(c)
           d == AacSent(c)
<1>1. /\ c \in Codecs /\ c.filled \in Nat /\ c.compensated \in Nat /\ c.infos \in Seq(Infos)
      /\ c.infos # <<>> /\ (c.filled >= Head(c.infos).frames \/ atEnd)
  BY GoodFields DEF AacMaySend
<1>2. /\ Head(c.infos).frames \in Nat /\ FramesOf(Tail(c.infos)) \in Nat
      /\ FramesOf(c.infos) = Head(c.infos).frames + FramesOf(Tail(c.infos))
  BY <1>1, FramesOfTail
<1>3. /\ d.filled = c.filled - k /\ d.compensated = c.compensated /\ d.error = c.error
      /\ d.infos = Tail(c.infos)
  <2> HIDE DEF k
  <2> QED BY <1>1 DEF AacSent, Codecs, k
<1>4. ~c.error => k = Head(c.infos).frames
  <2>1. ~c.error => c.filled >= Head(c.infos).frames
    BY <1>1, <1>2 DEF Sound, Paid
  <2> QED BY <1>1, <1>2, <2>1 DEF AacSamples, Least
<1> HIDE DEF k, d
<1>5. Sound(d) /\ (atEnd => Paid(d))
  BY <1>1, <1>2, <1>3, <1>4 DEF Sound, Paid
<1> QED BY <1>5 DEF d

\* At the end of the stream works that wait when no frame is left have none.
LEMMA AacRestSound ==
  ASSUME NEW c \in GoodCodecs, Sound(c), Paid(c), ~AacMaySend(c, TRUE)
  PROVE  /\ c.infos # <<>> => /\ Sound([c EXCEPT !.infos = Tail(c.infos)])
                              /\ Paid([c EXCEPT !.infos = Tail(c.infos)])
         /\ Len(c.infos) <= 1 => Sound(NoInfos(c))
<1>1. c \in Codecs /\ c.filled \in Nat /\ c.compensated \in Nat /\ c.infos \in Seq(Infos)
  BY GoodFields
<1>2. c.infos # <<>> => c.filled = 0
  BY <1>1 DEF AacMaySend
<1>3. ASSUME c.infos # <<>>
      PROVE  ~c.error => FramesOf(c.infos) = 0 /\ FramesOf(Tail(c.infos)) = 0
  <2>1. /\ Head(c.infos).frames \in Nat /\ FramesOf(Tail(c.infos)) \in Nat
        /\ FramesOf(c.infos) = Head(c.infos).frames + FramesOf(Tail(c.infos))
    BY <1>1, <1>3, FramesOfTail
  <2>2. ~c.error => FramesOf(c.infos) = 0
    BY <1>2, <1>3 DEF Sound, Paid
  <2> QED BY <2>1, <2>2
<1>4. \A s : /\ [c EXCEPT !.infos = s].infos = s /\ [c EXCEPT !.infos = s].filled = c.filled
             /\ [c EXCEPT !.infos = s].compensated = c.compensated
             /\ [c EXCEPT !.infos = s].error = c.error
  BY <1>1 DEF Codecs
<1>5. ASSUME c.infos # <<>>
      PROVE  /\ Sound([c EXCEPT !.infos = Tail(c.infos)])
             /\ Paid([c EXCEPT !.infos = Tail(c.infos)])
  BY <1>2, <1>3, <1>4, <1>5 DEF Sound, Paid
<1>6. Sound(NoInfos(c))
  <2>1. /\ NoInfos(c).infos = <<>> /\ NoInfos(c).filled = c.filled
        /\ NoInfos(c).compensated = c.compensated /\ NoInfos(c).error = c.error
    BY <1>4 DEF NoInfos
  <2>2. ~c.error => c.filled + c.compensated = 0
    <3>1. CASE c.infos = <<>>
      BY <3>1, FramesOfNone DEF Sound
    <3>2. CASE c.infos # <<>>
      BY <1>2, <3>2 DEF Paid
    <3> QED BY <3>1, <3>2
  <2> QED BY <2>1, <2>2, FramesOfNone DEF Sound
<1> QED BY <1>5, <1>6

-----------------------------------------------------------------------------
(* The calls that start and stop the component.                             *)

\* start, stop, reset and release are not called by two threads at once; queue_nb,
\* drain_nb and flush_sm may be, at any time.
StatePlaces == {"init", "initWait", "start", "started", "stopping", "stopPost", "stopWait",
                "resetting", "resetPost", "resetWait", "releasing", "relWait", "released"}
OneStateCall ==
  \A c, d \in Callers : pc[c] \in StatePlaces /\ pc[d] \in StatePlaces => c = d

InLooper == {messages[i] : i \in 1 .. Len(messages)}
Starts(m) == m.what \in {"init", "start"}
WaitPlace(what) ==
  CASE what = "init" -> "initWait" [] what = "stop" -> "stopWait"
    [] what = "reset" -> "resetWait" [] OTHER -> "relWait"

\* A thread waits for the message it posted, and behind a message somebody waits for
\* there is none that starts the component.
MessagesInv ==
  /\ \A m \in InLooper : m.from \in Callers => pc[m.from] = WaitPlace(m.what)
  /\ \A i, j \in 1 .. Len(messages) :
       i < j /\ messages[i].from \in Callers => ~Starts(messages[j])

\* processQueue runs while the component does, and a component released does not run
\* and is not going to.
Unreleased == \A c \in Callers : pc[c] # "released"
RunInv ==
  /\ left <= stream.failures
  /\ handler \in {"taken", "sending", "processed", "done"} => running
  /\ ~Unreleased => ~running /\ \A m \in InLooper : ~Starts(m)

\* An AAC component that is to be initialised does not run, and has noted no work.
Resetting == \E c \in Callers : pc[c] \in {"resetting", "resetPost", "resetWait", "started"}
UninitInv ==
  /\ \A c \in Callers : pc[c] \in {"init", "initWait"} => execState = "UNINITIALIZED"
  /\ \A c \in Callers : pc[c] = "start" => execState # "UNINITIALIZED"
  /\ decoder = "aac" /\ NothingFailed /\ execState = "UNINITIALIZED" /\ ~Resetting =>
       ~running /\ codec.infos = <<>> /\ \A m \in InLooper : m.what # "start"

\* Once it is started, and until it is released, the codec is set up.
Begun ==
  \/ running \/ execState # "UNINITIALIZED" \/ \E m \in InLooper : m.what = "start"
  \/ \E c \in Callers : pc[c] \in {"start", "started"}
SetUpInv ==
  decoder # "ffmpeg" /\ NothingFailed =>
    /\ ~Broken
    /\ Unreleased => Usable(decoder, codec) /\ (Begun => IsSetUp(decoder, codec))

\* Sound stays with its work, and none is owed while the end of the stream is sent.
FramesInv ==
  decoder = "aac" /\ NothingFailed =>
    Sound(codec) /\ (handler = "sending" /\ AtEnd => Paid(codec))

CodecInv == MessagesInv /\ RunInv /\ UninitInv /\ SetUpInv /\ FramesInv

\* Posting and taking messages.
LEMMA LooperChanges ==
  ASSUME TypeOK
  PROVE  /\ \A m : messages' = Append(messages, m) /\ m \in Messages => InLooper' = InLooper \cup {m}
         /\ messages # <<>> /\ messages' = Tail(messages) => InLooper' \subseteq InLooper
         /\ messages # <<>> => Head(messages) \in InLooper /\ Head(messages) = messages[1]
         /\ InLooper \subseteq Messages
<1>1. messages \in Seq(Messages)
  BY DEF TypeOK
<1>2. ASSUME NEW m \in Messages, messages' = Append(messages, m) PROVE InLooper' = InLooper \cup {m}
  <2>1. /\ Len(messages') = Len(messages) + 1 /\ Len(messages) \in Nat
        /\ \A i \in 1 .. Len(messages) : messages'[i] = messages[i]
        /\ messages'[Len(messages) + 1] = m
    BY <1>1, <1>2, AppendProperties, LenProperties
  <2>2. 1 .. Len(messages') = (1 .. Len(messages)) \cup {Len(messages) + 1}
    BY <2>1
  <2> QED BY <2>1, <2>2 DEF InLooper
<1>3. ASSUME messages # <<>>, messages' = Tail(messages) PROVE InLooper' \subseteq InLooper
  <2>1. /\ Len(messages) \in Nat /\ Len(messages') = Len(messages) - 1
        /\ \A i \in 1 .. Len(messages') : messages'[i] = messages[i + 1]
    BY <1>1, <1>3, HeadTailProperties, LenProperties
  <2>2. \A i \in 1 .. Len(messages') : i + 1 \in 1 .. Len(messages)
    BY <2>1
  <2> QED BY <2>1, <2>2 DEF InLooper
<1>4. ASSUME messages # <<>> PROVE Head(messages) \in InLooper /\ Head(messages) = messages[1]
  <2>1. Len(messages) \in Nat /\ Len(messages) > 0 /\ Head(messages) = messages[1]
    BY <1>1, <1>4, HeadTailProperties, LenProperties, EmptySeq
  <2>2. 1 \in 1 .. Len(messages)
    BY <2>1
  <2> QED BY <2>1, <2>2 DEF InLooper
<1>5. InLooper \subseteq Messages
  BY <1>1, ElementOfSeq DEF InLooper
<1> QED BY <1>2, <1>3, <1>4, <1>5

\* What a client thread posts, and where it stands.
LEMMA CallerPosts ==
  ASSUME NEW c \in Callers, Calls(c) \/ Continues(c)
  PROVE  \/ messages' = messages
         \/ Post("process", NoCaller)
         \/ pc[c] = "start" /\ Post("start", NoCaller)
         \/ \E what \in Awaited : /\ Post(what, c) /\ GoTo(c, WaitPlace(what))
                                  /\ what = "init" => pc[c] = "init"
<1>1. CASE StartPost(c) \/ QueuePost(c)
  BY <1>1 DEF StartPost, QueuePost, Posts, Awaited, WaitPlace
<1>2. CASE ClearPost(c)
  <2>1. WaitPlace("stop") = "stopWait" /\ WaitPlace("reset") = "resetWait"
        /\ WaitPlace("release") = "relWait"
    BY DEF WaitPlace
  <2> QED BY <1>2, <2>1 DEF ClearPost, Posts, Awaited
<1>3. CASE Calls(c) \/ StartReturn(c) \/ FlushTake(c) \/ FlushReturn(c) \/ Clear(c)
             \/ \E k \in stream.kinds : QueuePush(c, k)
  BY <1>3 DEF Calls, StartCheck, QueueCheck, FlushCheck, StopCheck, ResetCall,
       ReleaseCall, StartReturn, FlushTake, FlushReturn, Clear, QueuePush, Passes, SetState
<1> QED BY <1>1, <1>2, <1>3 DEF Continues

\* Posting behind the others: a message that does not start the component, or one by
\* a thread beside which no other waits.
LEMMA OrderPosted ==
  ASSUME TypeOK, MessagesInv, NEW m \in Messages, messages' = Append(messages, m),
         Starts(m) => \A n \in InLooper : n.from \notin Callers
  PROVE  \A i, j \in 1 .. Len(messages') :
           i < j /\ messages'[i].from \in Callers => ~Starts(messages'[j])
<1>1. /\ Len(messages') = Len(messages) + 1 /\ Len(messages) \in Nat
      /\ \A i \in 1 .. Len(messages) : messages'[i] = messages[i]
      /\ messages'[Len(messages) + 1] = m
  BY AppendProperties, LenProperties DEF TypeOK
<1>2. SUFFICES ASSUME NEW i \in 1 .. Len(messages'), NEW j \in 1 .. Len(messages'),
                      i < j, messages'[i].from \in Callers
               PROVE  ~Starts(messages'[j])
  OBVIOUS
<1>3. i \in 1 .. Len(messages) /\ messages'[i] = messages[i]
  BY <1>1, <1>2
<1>4. CASE j \in 1 .. Len(messages)
  BY <1>1, <1>2, <1>3, <1>4 DEF MessagesInv
<1>5. CASE j = Len(messages) + 1
  BY <1>1, <1>2, <1>3, <1>5 DEF InLooper
<1> QED BY <1>1, <1>4, <1>5

\* Every step keeps the order of the messages.
LEMMA MessagesStep ==
  ASSUME TypeOK, RepliesAwaited, OneStateCall, MessagesInv, [Next]_vars
  PROVE  MessagesInv'
<1>1. CASE Done \/ UNCHANGED vars
  BY <1>1 DEF Done, vars, clientVars, MessagesInv, InLooper
<1>2. ASSUME messages' = messages, \A c \in Callers : pc[c] \in WaitPlaces => pc'[c] = pc[c]
      PROVE  MessagesInv'
  <2>1. \A m \in InLooper : m.from \in Callers => pc[m.from] \in WaitPlaces
    BY DEF RepliesAwaited, InLooper
  <2> QED BY <1>2, <2>1 DEF MessagesInv, InLooper
<1>3. ASSUME NEW what \in {"start", "process"}, Post(what, NoCaller),
             what = "start" => \A n \in InLooper : n.from \notin Callers,
             \A c \in Callers : pc[c] \in WaitPlaces => pc'[c] = pc[c]
      PROVE  MessagesInv'
  <2> DEFINE m == [what |-> what, from |-> NoCaller]
  <2>1. m \in Messages /\ messages' = Append(messages, m) /\ m.from = NoCaller /\ m.what = what
    BY <1>3, MessageType DEF Post
  <2> HIDE DEF m
  <2>2. InLooper' = InLooper \cup {m} /\ NoCaller \notin Callers
    BY <2>1, LooperChanges, CallersAssumption
  <2>3. \A n \in InLooper : n.from \in Callers => pc[n.from] \in WaitPlaces
    BY DEF RepliesAwaited, InLooper
  <2>4. \A n \in InLooper' : n.from \in Callers => pc'[n.from] = WaitPlace(n.what)
    BY <1>3, <2>1, <2>2, <2>3 DEF MessagesInv
  <2>5. Starts(m) => \A n \in InLooper : n.from \notin Callers
    BY <1>3, <2>1 DEF Starts
  <2> QED BY <2>1, <2>4, <2>5, OrderPosted DEF MessagesInv
<1>4. ASSUME messages # <<>>, Dispatched,
             pc' = pc \/ (Head(messages).from \in Callers /\ \E place : Reply(place))
      PROVE  MessagesInv'
  <2>1. messages \in Seq(Messages)
    BY DEF TypeOK
  <2>2. /\ Len(messages) \in Nat /\ Len(messages) > 0 /\ Head(messages) = messages[1]
        /\ Len(messages') = Len(messages) - 1
        /\ \A i \in 1 .. Len(messages') : messages'[i] = messages[i + 1]
    BY <1>4, <2>1, HeadTailProperties, LenProperties, EmptySeq DEF Dispatched
  <2>3. \A i \in 1 .. Len(messages') :
          /\ i + 1 \in 1 .. Len(messages) /\ 1 \in 1 .. Len(messages) /\ i + 1 # 1
          /\ messages'[i].from \in Callers /\ Head(messages).from \in Callers =>
               messages'[i].from # Head(messages).from
    BY <2>2 DEF RepliesAwaited
  <2>4. \A c \in Callers : c # Head(messages).from => pc'[c] = pc[c]
    BY <1>4 DEF Reply, GoTo, TypeOK
  <2>5. \A i \in 1 .. Len(messages') :
          messages'[i].from \in Callers => pc'[messages'[i].from] = WaitPlace(messages'[i].what)
    <3> SUFFICES ASSUME NEW i \in 1 .. Len(messages'), messages'[i].from \in Callers
                 PROVE  pc'[messages'[i].from] = WaitPlace(messages'[i].what)
      OBVIOUS
    <3>1. messages'[i] \in InLooper
      BY <2>2, <2>3 DEF InLooper
    <3>2. pc[messages'[i].from] = WaitPlace(messages'[i].what)
      BY <3>1 DEF MessagesInv
    <3>3. pc'[messages'[i].from] = pc[messages'[i].from]
      BY <1>4, <2>3, <2>4
    <3> QED BY <3>2, <3>3
  <2>6. \A i, j \in 1 .. Len(messages') :
          i < j /\ messages'[i].from \in Callers => ~Starts(messages'[j])
    <3> SUFFICES ASSUME NEW i \in 1 .. Len(messages'), NEW j \in 1 .. Len(messages'), i < j,
                        messages'[i].from \in Callers
                 PROVE  ~Starts(messages'[j])
      OBVIOUS
    <3>1. i + 1 < j + 1 /\ i + 1 \in 1 .. Len(messages) /\ j + 1 \in 1 .. Len(messages)
      BY <2>2, <2>3
    <3> QED BY <2>2, <3>1 DEF MessagesInv
  <2> QED BY <2>5, <2>6 DEF MessagesInv, InLooper
<1>5. CASE HandleMessage
  <2>1. CASE /\ messages # <<>> /\ Head(messages).what \in Awaited /\ Dispatched
             /\ \E place : Reply(place)
    BY <1>4, <2>1, ReplyToCaller
  <2>2. CASE messages # <<>> /\ Dispatched /\ pc' = pc
    BY <1>4, <2>2
  <2>3. CASE UNCHANGED <<pc, messages>>
    BY <1>2, <2>3
  <2>4. CASE Post("process", NoCaller) /\ pc' = pc
    BY <1>3, <2>4
  <2> QED BY <1>5, <2>1, <2>2, <2>3, <2>4, HandlerReplies
<1>6. ASSUME NEW c \in Callers, Calls(c) \/ Continues(c)
      PROVE  MessagesInv'
  <2>1. pc[c] \notin WaitPlaces /\ \A d \in Callers : d # c => pc'[d] = pc[d]
    BY <1>6, CallerMoves DEF GoTo, TypeOK
  <2>2. \A d \in Callers : pc[d] \in WaitPlaces => pc'[d] = pc[d]
    BY <2>1
  <2>3. ASSUME pc[c] \in {"init", "start"}, NEW n \in InLooper PROVE n.from \notin Callers
    <3>1. n.from \in Callers => pc[n.from] \in WaitPlaces
      BY DEF RepliesAwaited, InLooper
    <3>2. pc[c] \in StatePlaces /\ WaitPlaces \subseteq StatePlaces
      BY <2>3 DEF StatePlaces, WaitPlaces
    <3> QED BY <2>1, <3>1, <3>2 DEF OneStateCall
  <2>4. CASE messages' = messages
    BY <1>2, <2>2, <2>4
  <2>5. CASE Post("process", NoCaller)
    BY <1>3, <2>2, <2>5
  <2>6. CASE pc[c] = "start" /\ Post("start", NoCaller)
    BY <1>3, <2>2, <2>3, <2>6
  <2>7. ASSUME NEW what \in Awaited, Post(what, c), GoTo(c, WaitPlace(what)),
               what = "init" => pc[c] = "init"
        PROVE  MessagesInv'
    <3> DEFINE m == [what |-> what, from |-> c]
    <3>1. m \in Messages /\ messages' = Append(messages, m) /\ m.from = c /\ m.what = what
      BY <2>7, MessageType DEF Post
    <3> HIDE DEF m
    <3>2. InLooper' = InLooper \cup {m}
      BY <3>1, LooperChanges
    <3>3. pc'[c] = WaitPlace(what)
      BY <2>7 DEF GoTo, TypeOK
    <3>4. \A n \in InLooper : n.from \in Callers => pc[n.from] \in WaitPlaces
      BY DEF RepliesAwaited, InLooper
    <3>5. \A n \in InLooper' : n.from \in Callers => pc'[n.from] = WaitPlace(n.what)
      BY <2>2, <3>1, <3>2, <3>3, <3>4 DEF MessagesInv
    <3>6. Starts(m) => \A n \in InLooper : n.from \notin Callers
      BY <2>3, <2>7, <3>1 DEF Starts, Awaited
    <3> QED BY <3>1, <3>5, <3>6, OrderPosted DEF MessagesInv
  <2> QED BY <1>6, <2>4, <2>5, <2>6, <2>7, CallerPosts
<1> QED BY <1>1, <1>5, <1>6 DEF Next

\* What the steps of the client threads leave alone.
LEMMA ClientsKeep ==
  ASSUME TypeOK, AccountInv, NEW c \in Callers, Calls(c) \/ Continues(c)
  PROVE  /\ UNCHANGED <<stream, codec, handler, running, left, current>>
         /\ handler = "sending" => AtEnd' = AtEnd
         /\ pc[c] \in Places \ {"released"} /\ \A d \in Callers : d # c => pc'[d] = pc[d]
<1> USE DEF clientVars, queueVars, handlerVars, entryVars
<1>1. \A d \in Callers : d # c => pc'[d] = pc[d]
  BY CallerMoves DEF GoTo, TypeOK
<1>2. pc[c] \in Places \ {"released"}
  BY DEF Calls, Continues, StartCheck, QueueCheck, FlushCheck, StopCheck, ResetCall,
         ReleaseCall, MayCall, StartPost, StartReturn, QueuePost, FlushTake, FlushReturn,
         Clear, ClearPost, QueuePush, TypeOK
<1>3. CASE Calls(c) \/ StartPost(c) \/ StartReturn(c) \/ QueuePost(c) \/ FlushTake(c)
           \/ FlushReturn(c) \/ Clear(c) \/ ClearPost(c)
  <2>1. UNCHANGED <<stream, codec, handler, running, left, current, kind>>
    BY <1>3 DEF Calls, StartCheck, QueueCheck, FlushCheck, StopCheck, ResetCall, ReleaseCall,
         StartPost, StartReturn, QueuePost, FlushTake, FlushReturn, Clear, ClearPost,
         Passes, Posts, SetState
  <2> QED BY <1>1, <1>2, <2>1 DEF AtEnd
<1>4. ASSUME NEW k \in stream.kinds, QueuePush(c, k)
      PROVE  /\ UNCHANGED <<stream, codec, handler, running, left, current>>
             /\ handler = "sending" => AtEnd' = AtEnd
  <2>1. UNCHANGED <<stream, codec, handler, running, left, current>>
    BY <1>4 DEF QueuePush
  <2>2. ASSUME handler = "sending" PROVE kind'[current] = kind[current]
    <3>1. current \in Entries /\ current # NoEntry /\ current \in InHand
      BY <2>2, BoundsAssumption DEF AccountInv, HandsFull, InHand, Processing, NoEntry, Entries
    <3>2. current \in 1 .. next
      BY <3>1, HeldProperty DEF Held
    <3>3. next \in Nat /\ current # next + 1
      BY <3>2, BoundsAssumption DEF TypeOK
    <3> QED BY <1>4, <3>1, <3>3 DEF QueuePush, TypeOK
  <2> QED BY <2>1, <2>2 DEF AtEnd
<1> QED BY <1>1, <1>2, <1>3, <1>4 DEF Continues

\* The steps of processQueue between taking a work and giving it back.
WorkStep ==
  \/ NoPool \/ Drain \/ ProcessWork \/ SendFrames \/ SendWithoutBlock \/ SendRest \/ SendEnds
  \/ Dispose

\* They touch neither the client threads nor the messages, and leave the set-up of the
\* codec alone; one that breaks had no failure, and a codec that was not usable.
LEMMA WorkSteps ==
  ASSUME TypeOK, AccountInv, WorkStep
  PROVE  /\ UNCHANGED <<stream, execState, pc, messages, running, current, kind>>
         /\ handler \in {"taken", "sending", "processed"}
         /\ handler' \in {"sending", "processed", "done", "broken"}
         /\ left' \in Nat /\ left' <= left
         /\ SameSetUp(codec, codec')
         /\ handler' = "broken" =>
              \E r \in Process(decoder, codec, kind[current], current) : r.how = "broken"
<1> USE DEF clientVars, queueVars, handlerVars, entryVars
<1>1. codec \in GoodCodecs /\ left \in Nat
      /\ (left > 0 => left - 1 \in Nat /\ left - 1 <= left) /\ left <= left
  BY CodecType DEF TypeOK
<1>2. SameSetUp(codec, codec)
  BY <1>1, ChangesSame
<1>3. CASE NoPool \/ Dispose
  BY <1>1, <1>2, <1>3 DEF NoPool, Dispose, Gone, CodecStep
<1>4. CASE Drain
  <2>1. SameSetUp(codec, codec')
    BY <1>1, <1>4, SendingSame DEF Drain
  <2>2. handler' \in {"sending", "done"}
    BY <1>4 DEF Drain, Gone
  <2> QED BY <1>1, <1>4, <2>1, <2>2 DEF Drain, CodecStep
<1>5. CASE SendFrames \/ SendWithoutBlock \/ SendRest
  <2>1. SameSetUp(codec, codec')
    BY <1>1, <1>5, SendingSame DEF SendFrames, SendWithoutBlock, SendRest
  <2> QED BY <1>1, <1>5, <2>1 DEF SendFrames, SendWithoutBlock, SendRest, Sending, SendStep
<1>6. CASE SendEnds
  <2>1. SameSetUp(codec, codec')
    BY <1>1, <1>2, <1>6, SendingSame DEF SendEnds
  <2>2. handler' \in {"processed", "done"}
    BY <1>6 DEF SendEnds, Gone
  <2> QED BY <1>1, <1>6, <2>1, <2>2 DEF SendEnds, CodecStep
<1>7. CASE ProcessWork
  <2>1. PICK r \in Process(decoder, codec, kind[current], current) :
          /\ left >= r.faults /\ left' = left - r.faults /\ codec' = r.codec
          /\ handler' = "broken" => r.how = "broken"
    <3>1. PICK r \in Process(decoder, codec, kind[current], current) :
            /\ left >= r.faults /\ left' = left - r.faults
            /\ codec' = r.codec
            /\ CASE r.how = "send"   -> handler' = "sending" /\ answer' = answer
                 [] r.how = "broken" -> handler' = "broken" /\ answer' = answer
                 [] r.how = "failed" -> Gone("lost")
                 [] OTHER            -> handler' = "processed" /\ answer' = answer
      BY <1>7, Zenon DEF ProcessWork
    <3>2. \/ r.how = "broken" \/ handler' = "sending" \/ handler' = "processed" \/ Gone("lost")
      BY <3>1, Zenon
    <3>3. handler' = "broken" => r.how = "broken"
      BY <3>2 DEF Gone
    <3> QED BY <3>1, <3>3
  <2>2. current \in Entries
    BY <1>7 DEF ProcessWork, AccountInv, HandsFull
  <2>3. GoodResult(r) /\ SameSetUp(codec, r.codec)
    BY <1>1, <2>2, ProcessGood, ProcessSame
  <2>4. left' \in Nat /\ left' <= left
    BY <1>1, <2>1, <2>3 DEF GoodResult
  <2>5. handler' \in {"sending", "broken", "done", "processed"}
    BY <1>7, Zenon DEF ProcessWork, Gone
  <2> QED BY <1>7, <2>1, <2>3, <2>4, <2>5 DEF ProcessWork, CodecStep
<1> QED BY <1>3, <1>4, <1>5, <1>6, <1>7 DEF WorkStep

\* The message the handler takes, and the thread that waits for it.
LEMMA Answered ==
  ASSUME TypeOK, MessagesInv, NEW what, Handles(what), Dispatched
  PROVE  /\ handler = "idle" /\ messages # <<>> /\ Head(messages) \in InLooper
         /\ Head(messages).what = what
         /\ InLooper' \subseteq InLooper
         /\ what \in Awaited => /\ Head(messages).from \in Callers
                                /\ pc[Head(messages).from] = WaitPlace(what)
                                /\ \A m \in InLooper' : ~Starts(m)
<1>1. /\ handler = "idle" /\ messages # <<>> /\ Head(messages) \in InLooper
      /\ Head(messages).what = what /\ InLooper' \subseteq InLooper
      /\ Head(messages) = messages[1]
  BY LooperChanges DEF Handles, Dispatched
<1>2. ASSUME what \in Awaited
      PROVE  /\ Head(messages).from \in Callers
             /\ pc[Head(messages).from] = WaitPlace(what)
             /\ \A m \in InLooper' : ~Starts(m)
  <2>1. Head(messages).from \in Callers
    BY <1>1, <1>2, ReplyToCaller
  <2>2. pc[Head(messages).from] = WaitPlace(what)
    BY <1>1, <2>1 DEF MessagesInv
  <2>3. /\ Len(messages) \in Nat /\ Len(messages') = Len(messages) - 1
        /\ \A i \in 1 .. Len(messages') : messages'[i] = messages[i + 1]
    BY <1>1, HeadTailProperties, LenProperties DEF TypeOK, Dispatched
  <2>4. \A i \in 1 .. Len(messages') : i + 1 \in 1 .. Len(messages) /\ 1 < i + 1
                                       /\ 1 \in 1 .. Len(messages)
    BY <2>3
  <2>5. \A i \in 1 .. Len(messages') : ~Starts(messages'[i])
    BY <1>1, <2>1, <2>3, <2>4 DEF MessagesInv
  <2> QED BY <2>1, <2>2, <2>5 DEF InLooper
<1> QED BY <1>1, <1>2

\* A callback that returns costs failures; if nothing has failed it had none.
LEMMA ReturnsLeft ==
  ASSUME TypeOK, left <= stream.failures, NEW r, GoodResult(r), Returns(r), stream' = stream
  PROVE  /\ left' \in Nat /\ left' <= left /\ codec' = r.codec
         /\ NothingFailed' => NothingFailed /\ r.faults = 0
         /\ handler' = "broken" => r.how = "broken"
         /\ handler' \in {"idle", "broken"}
<1>1. left \in Nat /\ stream.failures \in Nat /\ r.faults \in Nat
  BY StreamType DEF TypeOK, GoodResult
<1>2. left' = left - r.faults /\ left >= r.faults /\ codec' = r.codec
  BY DEF Returns
<1>3. left' \in Nat /\ left' <= left
  BY <1>1, <1>2
<1>4. NothingFailed' => NothingFailed /\ r.faults = 0
  BY <1>1, <1>2 DEF NothingFailed
<1> QED BY <1>2, <1>3, <1>4 DEF Returns

\* Nothing has failed before either, if failures are not given back.
LEMMA FailuresStay ==
  ASSUME TypeOK, left <= stream.failures, left' \in Nat, left' <= left, stream' = stream
  PROVE  left' <= stream'.failures /\ (NothingFailed' => NothingFailed /\ left' = left)
BY StreamType DEF TypeOK, NothingFailed

\* What running and the messages say of a component released, and the failures.
LEMMA RunStep ==
  ASSUME TypeOK, AccountInv, RepliesAwaited, OneStateCall, MessagesInv, RunInv, [Next]_vars
  PROVE  RunInv'
<1> USE DEF clientVars, queueVars, handlerVars, entryVars
<1>1. CASE Done \/ UNCHANGED vars
  BY <1>1 DEF Done, vars, RunInv, Unreleased, InLooper
<1>2. codec \in GoodCodecs /\ left \in Nat /\ left <= stream.failures
  BY CodecType DEF TypeOK, RunInv
<1>3. ASSUME left' \in Nat, left' <= left, stream' = stream PROVE left' <= stream'.failures
  BY <1>2, <1>3, FailuresStay
<1>4. CASE WorkStep
  <2>1. /\ UNCHANGED <<stream, execState, pc, messages, running, current, kind>>
        /\ handler \in {"taken", "sending", "processed"} /\ left' \in Nat /\ left' <= left
    BY <1>4, WorkSteps
  <2> QED BY <1>3, <2>1 DEF RunInv, Unreleased, InLooper
<1>5. CASE OnInit \/ OnStop \/ OnReset
  <2>1. HandlerStep /\ Dispatched /\ stream' = stream
    BY <1>5 DEF OnInit, OnStop, OnReset, HandlerStep
  <2>2. PICK what \in {"init", "stop", "reset"} :
          Handles(what) /\ (running' = TRUE => what = "init" \/ running)
    BY <1>5 DEF OnInit, OnStop, OnReset
  <2>3. PICK place \in {"started", "idle"} : Reply(place)
    BY <1>5 DEF OnInit, OnStop, OnReset
  <2>4. PICK r \in SetUp(decoder, codec) \cup Stop(decoder, codec) \cup Reset(decoder, codec) : Returns(r)
    BY <1>5 DEF OnInit, OnStop, OnReset
  <2>5. left' \in Nat /\ left' <= left /\ handler' \in {"idle", "broken"}
    BY <1>2, <2>1, <2>4, CallbackGood, ReturnsLeft
  <2>6. what \in Awaited
    BY <2>2 DEF Awaited
  <2>7. /\ Head(messages).from \in Callers /\ pc[Head(messages).from] = WaitPlace(what)
        /\ \A m \in InLooper' : ~Starts(m)
        /\ Head(messages) \in InLooper /\ Head(messages).what = what
    BY <2>1, <2>2, <2>6, Answered
  <2>8. ~Unreleased' => ~Unreleased
    BY <2>3 DEF Reply, GoTo, Unreleased, TypeOK
  <2>9. what = "init" => Unreleased
    BY <2>7 DEF RunInv, Starts
  <2>10. running \in BOOLEAN /\ running' \in BOOLEAN
    BY <1>5 DEF OnInit, OnStop, OnReset, TypeOK
  <2>11. ~Unreleased' => ~running'
    BY <2>2, <2>8, <2>9, <2>10 DEF RunInv
  <2> QED BY <1>3, <2>1, <2>5, <2>7, <2>11 DEF RunInv
<1>6. CASE OnRelease
  <2>1. HandlerStep /\ Dispatched /\ stream' = stream /\ Handles("release")
        /\ running' = FALSE /\ handler' = handler /\ left' = left
    BY <1>6 DEF OnRelease, HandlerStep
  <2>2. "release" \in Awaited
    BY DEF Awaited
  <2>3. handler = "idle" /\ \A m \in InLooper' : ~Starts(m)
    BY <2>1, <2>2, Answered
  <2> QED BY <1>2, <2>1, <2>3 DEF RunInv
<1>7. CASE OnStart \/ ProcessNothing \/ Take
  <2>1. PICK what \in {"start", "process"} :
          Handles(what) /\ (running' = TRUE => what = "start" \/ running)
    BY <1>7 DEF OnStart, ProcessNothing, Take
  <2>2. /\ Dispatched /\ pc' = pc /\ stream' = stream /\ left' = left
        /\ running' \in BOOLEAN /\ running \in BOOLEAN
        /\ handler' = "idle" \/ running'
    BY <1>7 DEF OnStart, ProcessNothing, Take, HandlerStep, Handles, TypeOK
  <2>3. /\ Head(messages) \in InLooper /\ Head(messages).what = what /\ InLooper' \subseteq InLooper
    BY <2>1, <2>2, Answered
  <2>4. what = "start" => Unreleased
    BY <2>3 DEF RunInv, Starts
  <2>5. ~Unreleased' => ~running' /\ \A m \in InLooper' : ~Starts(m)
    BY <2>1, <2>2, <2>3, <2>4 DEF RunInv, Unreleased
  <2> QED BY <1>2, <2>2, <2>5 DEF RunInv
<1>8. CASE GoOn
  <2>1. handler' = "idle" /\ UNCHANGED <<stream, pc, running, left>>
        /\ (Post("process", NoCaller) \/ messages' = messages)
    BY <1>8 DEF GoOn
  <2>2. ASSUME Post("process", NoCaller)
        PROVE  InLooper' = InLooper \cup {[what |-> "process", from |-> NoCaller]}
    BY <2>2, LooperChanges, MessageType DEF Post
  <2>3. \A m \in InLooper' : Starts(m) => m \in InLooper
    BY <2>1, <2>2 DEF Starts, InLooper
  <2> QED BY <1>2, <2>1, <2>3 DEF RunInv, Unreleased
<1>9. ASSUME NEW c \in Callers, Calls(c) \/ Continues(c) PROVE RunInv'
  <2>1. /\ UNCHANGED <<stream, handler, running, left>> /\ pc[c] # "released"
        /\ \A d \in Callers : d # c => pc'[d] = pc[d]
        /\ \E place : GoTo(c, place)
    BY <1>9, ClientsKeep, CallerMoves
  <2>2. ASSUME pc'[c] = "released" PROVE FALSE
    BY <1>9, <2>2 DEF Calls, Continues, StartCheck, QueueCheck, FlushCheck, StopCheck, ResetCall,
         ReleaseCall, MayCall, StartPost, StartReturn, QueuePost, FlushTake, FlushReturn,
         Clear, ClearPost, QueuePush, TypeOK, Passes, Posts, SetState, GoTo
  <2>3. ~Unreleased' => ~Unreleased
    BY <2>1, <2>2 DEF Unreleased
  <2>4. ASSUME ~Unreleased, NEW m \in InLooper' PROVE ~Starts(m)
    <3>1. pc[c] \notin StatePlaces
      BY <2>1, <2>4 DEF OneStateCall, Unreleased, StatePlaces
    <3>2. pc[c] \notin {"init", "start"}
      BY <3>1 DEF StatePlaces
    <3>3. \/ messages' = messages
          \/ \E what \in Awaited \cup {"process"} : \E from :
               /\ what # "init" /\ Post(what, from)
               /\ [what |-> what, from |-> from] \in Messages
      BY <1>9, <3>2, CallerPosts, MessageType
    <3>4. CASE messages' = messages
      BY <2>4, <3>4 DEF RunInv, InLooper
    <3>5. ASSUME NEW what \in Awaited \cup {"process"}, NEW from, what # "init", Post(what, from),
                 [what |-> what, from |-> from] \in Messages
          PROVE  ~Starts(m)
      <4>1. InLooper' = InLooper \cup {[what |-> what, from |-> from]}
        BY <3>5, LooperChanges DEF Post
      <4> QED BY <2>4, <3>5, <4>1 DEF RunInv, Starts, Awaited
    <3> QED BY <3>3, <3>4, <3>5
  <2> QED BY <2>1, <2>3, <2>4 DEF RunInv
<1> QED BY <1>1, <1>4, <1>5, <1>6, <1>7, <1>8, <1>9 DEF Next, HandleMessage, WorkStep

\* Where the callers go that the handler does not answer.
LEMMA CallerStates ==
  ASSUME TypeOK, NEW c \in Callers, Calls(c) \/ Continues(c)
  PROVE  \/ execState' = execState
         \/ pc[c] = "started" /\ execState' = "RUNNING"
         \/ execState = "RUNNING" /\ execState' = "STOPPED" /\ pc'[c] = "stopping"
         \/ execState' = "UNINITIALIZED" /\ pc'[c] = "resetting"
<1>1. CASE StartReturn(c)
  BY <1>1 DEF StartReturn, SetState
<1>2. CASE StopCheck(c)
  BY <1>2 DEF StopCheck, SetState, GoTo, TypeOK
<1>3. CASE ResetCall(c)
  BY <1>3 DEF ResetCall, SetState, GoTo, TypeOK
<1>4. CASE StartCheck(c) \/ QueueCheck(c) \/ FlushCheck(c) \/ ReleaseCall(c) \/ StartPost(c)
           \/ QueuePost(c) \/ FlushTake(c) \/ FlushReturn(c) \/ Clear(c) \/ ClearPost(c)
           \/ \E k \in stream.kinds : QueuePush(c, k)
  BY <1>4 DEF StartCheck, QueueCheck, FlushCheck, ReleaseCall, StartPost, QueuePost, FlushTake,
       FlushReturn, Clear, ClearPost, QueuePush, Passes, Posts
<1> QED BY <1>1, <1>2, <1>3, <1>4 DEF Calls, Continues

\* The places a caller comes to by itself.
LEMMA CallerPlaces ==
  ASSUME TypeOK, NEW c \in Callers, Calls(c) \/ Continues(c)
  PROVE  /\ pc'[c] = "init" => execState = "UNINITIALIZED" /\ execState' = execState /\ pc[c] = "idle"
         /\ pc'[c] = "initWait" => pc[c] = "init" /\ execState' = execState
         /\ pc'[c] = "start" => execState # "UNINITIALIZED" /\ execState' = execState
         /\ pc'[c] = "started" => pc[c] = "start"
         /\ pc[c] \in {"resetting", "resetPost", "resetWait"}
              => pc'[c] \in {"resetting", "resetPost", "resetWait"}
         /\ pc[c] = "started" => execState' = "RUNNING"
         /\ pc'[c] # "released"
<1>1. \A place : GoTo(c, place) => pc'[c] = place
  BY DEF GoTo, TypeOK
<1>2. CASE StartCheck(c)
  BY <1>1, <1>2 DEF StartCheck, MayCall, Passes
<1>3. CASE StartPost(c)
  BY <1>1, <1>3 DEF StartPost, Posts
<1>4. CASE StartReturn(c)
  BY <1>1, <1>4 DEF StartReturn, SetState
<1>5. CASE QueueCheck(c) \/ FlushCheck(c) \/ ReleaseCall(c)
  BY <1>1, <1>5 DEF QueueCheck, FlushCheck, ReleaseCall, MayCall, Passes
<1>6. CASE StopCheck(c) \/ ResetCall(c)
  BY <1>1, <1>6 DEF StopCheck, ResetCall, MayCall, SetState
<1>7. CASE QueuePost(c) \/ ClearPost(c)
  BY <1>1, <1>7 DEF QueuePost, ClearPost, Posts
<1>8. CASE FlushTake(c) \/ FlushReturn(c) \/ Clear(c)
  BY <1>1, <1>8 DEF FlushTake, FlushReturn, Clear
<1>9. CASE \E k \in stream.kinds : QueuePush(c, k)
  BY <1>1, <1>9 DEF QueuePush
<1> QED BY <1>2, <1>3, <1>4, <1>5, <1>6, <1>7, <1>8, <1>9 DEF Calls, Continues

\* A message that starts the component comes from a thread in start().
LEMMA StartPosted ==
  ASSUME TypeOK, NEW c \in Callers, Calls(c) \/ Continues(c), NEW m \in InLooper', m.what = "start"
  PROVE  m \in InLooper \/ pc[c] = "start"
<1>1. CASE messages' = messages
  BY <1>1 DEF InLooper
<1>2. ASSUME NEW what \in Awaited \cup {"process"}, NEW from, Post(what, from),
             [what |-> what, from |-> from] \in Messages
      PROVE  m \in InLooper
  <2>1. InLooper' = InLooper \cup {[what |-> what, from |-> from]}
    BY <1>2, LooperChanges DEF Post
  <2> QED BY <1>2, <2>1 DEF Awaited
<1> QED BY <1>1, <1>2, CallerPosts, MessageType

\* An AAC component that is to be initialised has nothing noted, and does not run.
LEMMA UninitStep ==
  ASSUME TypeOK, AccountInv, RepliesAwaited, OneStateCall, OneStateCall', MessagesInv, RunInv,
         UninitInv, [Next]_vars
  PROVE  UninitInv'
<1> USE DEF clientVars, queueVars, handlerVars, entryVars
<1> DEFINE Before == decoder = "aac" /\ NothingFailed /\ execState = "UNINITIALIZED" /\ ~Resetting
<1>1. CASE Done \/ UNCHANGED vars
  BY <1>1 DEF Done, vars, UninitInv, Resetting, InLooper, NothingFailed, decoder
<1>2. codec \in GoodCodecs /\ left \in Nat /\ left <= stream.failures /\ execState \in {"UNINITIALIZED", "STOPPED", "RUNNING"}
  BY CodecType DEF TypeOK, RunInv
<1>3. Before => ~running /\ codec.infos = <<>> /\ \A m \in InLooper : m.what # "start"
  BY DEF UninitInv
<1>4. CASE WorkStep
  <2>1. /\ UNCHANGED <<stream, execState, pc, messages, running>>
        /\ handler \in {"taken", "sending", "processed"} /\ left' \in Nat /\ left' <= left
    BY <1>4, WorkSteps
  <2>2. running /\ (NothingFailed' => NothingFailed)
    BY <1>2, <2>1, FailuresStay DEF RunInv
  <2> QED BY <2>1, <2>2 DEF UninitInv, Resetting, decoder
<1>5. CASE OnInit \/ OnStop \/ OnReset \/ OnRelease
  <2>1. HandlerStep /\ Dispatched /\ stream' = stream /\ execState' = execState
    BY <1>5 DEF OnInit, OnStop, OnReset, OnRelease, HandlerStep
  <2>2. PICK what \in Awaited :
          Handles(what) /\ (what = "init" => OnInit) /\ (what = "stop" => OnStop)
          /\ (what = "reset" => OnReset) /\ (what = "release" => OnRelease)
    BY <1>5 DEF OnInit, OnStop, OnReset, OnRelease, Awaited, Handles
  <2> DEFINE c == Head(messages).from
  <2>3. c \in Callers /\ pc[c] = WaitPlace(what) /\ \A m \in InLooper' : ~Starts(m)
    BY <2>1, <2>2, Answered
  <2>4. PICK place \in {"started", "idle", "released"} :
          Reply(place) /\ (what # "init" => place # "started")
    BY <1>5, <2>2 DEF OnInit, OnStop, OnReset, OnRelease, Handles, Awaited
  <2>5. pc'[c] = place /\ \A d \in Callers : d # c => pc'[d] = pc[d]
    BY <2>3, <2>4 DEF Reply, GoTo, TypeOK
  <2>6. /\ \A d \in Callers : pc'[d] \in {"init", "initWait"} => execState' = "UNINITIALIZED"
        /\ \A d \in Callers : pc'[d] = "start" => execState' # "UNINITIALIZED"
    BY <2>1, <2>4, <2>5 DEF UninitInv
  <2>7. ASSUME decoder' = "aac", NothingFailed', execState' = "UNINITIALIZED", ~Resetting'
        PROVE  ~running' /\ codec'.infos = <<>> /\ \A m \in InLooper' : m.what # "start"
    <3>1. decoder = "aac" /\ execState = "UNINITIALIZED" /\ \A m \in InLooper' : m.what # "start"
      BY <2>1, <2>3, <2>7 DEF decoder, Starts
    <3>2. CASE what = "init"
      <4>1. PICK r \in SetUp("aac", codec) :
              Returns(r) /\ Reply(IF r.how = "ok" THEN "started" ELSE "idle")
        BY <2>2, <3>1, <3>2 DEF OnInit
      <4>2. r.faults = 0
        BY <1>2, <2>1, <2>7, <4>1, CallbackGood, ReturnsLeft
      <4>3. r.how = "ok"
        BY <1>2, <4>1, <4>2, SetUpReady DEF Usable, AllDecoders
      <4>4. pc'[c] = "started"
        BY <2>3, <4>1, <4>3 DEF Reply, GoTo, TypeOK
      <4> QED BY <2>3, <2>7, <4>4 DEF Resetting
    <3>3. CASE what = "reset"
      <4>1. running' = FALSE /\ \E r \in Reset("aac", codec) : Returns(r)
        BY <2>2, <3>1, <3>3 DEF OnReset
      <4>2. codec'.infos = <<>>
        BY <1>2, <4>1, AacStopSound DEF Returns
      <4> QED BY <3>1, <4>1, <4>2
    <3>4. CASE what = "stop"
      <4>1. running' = running /\ \E r \in Stop("aac", codec) : Returns(r)
        BY <2>2, <3>1, <3>4 DEF OnStop
      <4>2. codec'.infos = <<>>
        BY <1>2, <4>1, AacStopSound DEF Returns
      <4>3. PICK r \in Stop("aac", codec) : Returns(r)
        BY <4>1
      <4>4. NothingFailed
        BY <1>2, <2>1, <2>7, <4>3, CallbackGood, ReturnsLeft
      <4>5. pc[c] = "stopWait"
        BY <2>3, <3>4 DEF WaitPlace
      <4>6. ~Resetting
        BY <2>3, <2>5, <2>7, <4>5 DEF Resetting
      <4> QED BY <1>3, <3>1, <4>1, <4>2, <4>4, <4>6
    <3>5. CASE what = "release"
      <4>1. running' = FALSE /\ codec' = Released("aac", codec) /\ left' = left
        BY <2>2, <3>1, <3>5 DEF OnRelease
      <4>2. codec'.infos = codec.infos
        <5>1. Released("aac", codec) = [codec EXCEPT !.open = FALSE]
          BY DEF Released
        <5> QED BY <1>2, <4>1, <5>1 DEF GoodCodecs, Codecs
      <4>3. NothingFailed
        BY <2>1, <2>7, <4>1 DEF NothingFailed
      <4>4. pc[c] = "relWait"
        <5>1. WaitPlace("release") = "relWait"
          BY DEF WaitPlace
        <5> QED BY <2>3, <3>5, <5>1
      <4>5. ~Resetting
        BY <2>3, <2>5, <2>7, <4>4 DEF Resetting
      <4> QED BY <1>3, <3>1, <4>1, <4>2, <4>3, <4>5
    <3> QED BY <2>2, <3>2, <3>3, <3>4, <3>5 DEF Awaited
  <2> QED BY <2>6, <2>7 DEF UninitInv
<1>6. CASE OnStart \/ ProcessNothing \/ Take
  <2>1. PICK what \in {"start", "process"} :
          /\ Handles(what) /\ (what = "start" => OnStart)
          /\ (what # "start" => running' = running /\ (running \/ codec' = codec))
    BY <1>6 DEF OnStart, ProcessNothing, Take
  <2>2. /\ Dispatched /\ UNCHANGED <<stream, pc, execState, left>>
    BY <1>6 DEF OnStart, ProcessNothing, Take, HandlerStep
  <2>3. Head(messages) \in InLooper /\ Head(messages).what = what /\ InLooper' \subseteq InLooper
    BY <2>1, <2>2, Answered
  <2>4. ASSUME decoder' = "aac", NothingFailed', execState' = "UNINITIALIZED", ~Resetting'
        PROVE  ~running' /\ codec'.infos = <<>> /\ \A m \in InLooper' : m.what # "start"
    <3>1. Before
      BY <2>2, <2>4 DEF decoder, NothingFailed, Resetting
    <3> QED BY <1>3, <2>1, <2>3, <3>1
  <2> QED BY <2>2, <2>4 DEF UninitInv
<1>7. CASE GoOn
  <2>1. UNCHANGED <<stream, pc, execState, left, running>> /\ running
    BY <1>7 DEF GoOn, RunInv
  <2> QED BY <2>1 DEF UninitInv, decoder, NothingFailed, Resetting
<1>8. ASSUME NEW c \in Callers, Calls(c) \/ Continues(c) PROVE UninitInv'
  <2>1. /\ UNCHANGED <<stream, codec, handler, running, left>>
        /\ \A d \in Callers : d # c => pc'[d] = pc[d]
        /\ pc[c] \in Places \ {"released"}
    BY <1>8, ClientsKeep
  <2>2. \A d \in Callers : d # c /\ pc[d] \in {"init", "initWait", "start"} =>
          pc[c] \notin StatePlaces /\ pc'[c] \notin StatePlaces
    BY <2>1 DEF OneStateCall, StatePlaces
  <2>3. \A d \in Callers : d # c /\ pc[d] \in {"init", "initWait", "start"} => execState' = execState
    BY <1>8, <2>2, CallerStates DEF StatePlaces
  <2>4. pc[c] = "init" => execState = "UNINITIALIZED"
    BY DEF UninitInv
  <2>5. \A d \in Callers : pc'[d] \in {"init", "initWait"} => execState' = "UNINITIALIZED"
    BY <1>8, <2>1, <2>3, <2>4, CallerPlaces DEF UninitInv
  <2>6. \A d \in Callers : pc'[d] = "start" => execState' # "UNINITIALIZED"
    BY <1>8, <2>1, <2>3, CallerPlaces DEF UninitInv
  <2>7. ASSUME decoder' = "aac", NothingFailed', execState' = "UNINITIALIZED", ~Resetting'
        PROVE  ~running' /\ codec'.infos = <<>> /\ \A m \in InLooper' : m.what # "start"
    <3>1. pc'[c] \notin {"resetting", "resetPost", "resetWait", "started"}
      BY <2>7 DEF Resetting
    <3>2. execState = "UNINITIALIZED" /\ pc[c] # "started"
      BY <1>8, <2>7, <3>1, CallerStates, CallerPlaces
    <3>3. pc[c] \notin {"resetting", "resetPost", "resetWait", "started"}
      BY <1>8, <3>1, <3>2, CallerPlaces
    <3>4. Before
      BY <2>1, <2>7, <3>2, <3>3 DEF decoder, NothingFailed, Resetting
    <3>5. pc[c] # "start"
      BY <3>2 DEF UninitInv
    <3>6. \A m \in InLooper' : m.what # "start"
      BY <1>3, <1>8, <3>4, <3>5, StartPosted
    <3> QED BY <1>3, <2>1, <3>4, <3>6
  <2> QED BY <2>5, <2>6, <2>7 DEF UninitInv
<1> QED BY <1>1, <1>4, <1>5, <1>6, <1>7, <1>8 DEF Next, HandleMessage, WorkStep

\* Once it is started, and until it is released, the codec is set up: no step breaks.
LEMMA SetUpStep ==
  ASSUME TypeOK, AccountInv, RepliesAwaited, OneStateCall, MessagesInv, RunInv, UninitInv,
         SetUpInv, [Next]_vars
  PROVE  SetUpInv'
<1> USE DEF clientVars, queueVars, handlerVars, entryVars
<1>1. CASE Done \/ UNCHANGED vars
  BY <1>1 DEF Done, vars, SetUpInv, Unreleased, Begun, InLooper, NothingFailed, decoder, Broken
<1>2. codec \in GoodCodecs /\ left \in Nat /\ left <= stream.failures /\ decoder \in AllDecoders
  BY CodecType, StreamsAssumption DEF TypeOK, RunInv, decoder
<1>3. CASE WorkStep
  <2>1. /\ UNCHANGED <<stream, execState, pc, messages, running>>
        /\ handler \in {"taken", "sending", "processed"} /\ left' \in Nat /\ left' <= left
        /\ SameSetUp(codec, codec')
        /\ handler' = "broken" =>
             \E r \in Process(decoder, codec, kind[current], current) : r.how = "broken"
    BY <1>3, WorkSteps
  <2>2. running /\ (NothingFailed' => NothingFailed) /\ current \in Entries
    BY <1>2, <2>1, FailuresStay DEF RunInv, AccountInv, HandsFull
  <2>3. Unreleased
    BY <2>2 DEF RunInv
  <2>4. SUFFICES ASSUME decoder' # "ffmpeg", NothingFailed'
                 PROVE  ~Broken' /\ Usable(decoder', codec') /\ IsSetUp(decoder', codec')
    BY DEF SetUpInv
  <2>5. Usable(decoder, codec) /\ IsSetUp(decoder, codec) /\ decoder' = decoder
    BY <2>1, <2>2, <2>3, <2>4 DEF SetUpInv, Begun, decoder
  <2>6. ~Broken'
    BY <1>2, <2>1, <2>2, <2>5, ProcessReady DEF Broken
  <2> QED BY <2>1, <2>5, <2>6, SetUpCarries
<1>4. CASE OnInit \/ OnStop \/ OnReset
  <2>1. HandlerStep /\ Dispatched /\ UNCHANGED <<stream, execState>>
    BY <1>4 DEF OnInit, OnStop, OnReset, HandlerStep
  <2>2. PICK what \in {"init", "stop", "reset"} :
          Handles(what) /\ (what = "init" => OnInit) /\ (what = "stop" => OnStop)
          /\ (what = "reset" => OnReset)
    BY <1>4 DEF OnInit, OnStop, OnReset
  <2> DEFINE c == Head(messages).from
  <2>3. /\ c \in Callers /\ pc[c] = WaitPlace(what) /\ InLooper' \subseteq InLooper
        /\ Head(messages) \in InLooper /\ Head(messages).what = what
    BY <2>1, <2>2, Answered DEF Awaited
  <2>4. PICK place \in {"started", "idle"} : Reply(place) /\ (what # "init" => place = "idle")
    BY <1>4, <2>2 DEF OnInit, OnStop, OnReset, Handles
  <2>5. pc'[c] = place /\ \A d \in Callers : d # c => pc'[d] = pc[d]
    BY <2>3, <2>4 DEF Reply, GoTo, TypeOK
  <2>6. pc[c] # "released"
    BY <2>3 DEF WaitPlace
  <2>7. Unreleased' => Unreleased
    BY <2>5, <2>6 DEF Unreleased
  <2>8. PICK r \in SetUp(decoder, codec) \cup Stop(decoder, codec) \cup Reset(decoder, codec) :
          /\ Returns(r) /\ (what = "init" => r \in SetUp(decoder, codec))
          /\ (what # "init" => r \in Stop(decoder, codec) \cup Reset(decoder, codec))
    BY <2>2 DEF OnInit, OnStop, OnReset
  <2>9. /\ codec' = r.codec /\ (NothingFailed' => NothingFailed /\ r.faults = 0)
        /\ (handler' = "broken" => r.how = "broken")
    BY <1>2, <2>1, <2>8, CallbackGood, ReturnsLeft
  <2>10. SUFFICES ASSUME decoder' # "ffmpeg", NothingFailed'
                  PROVE  /\ ~Broken'
                         /\ Unreleased' => Usable(decoder', codec') /\ (Begun' => IsSetUp(decoder', codec'))
    BY DEF SetUpInv
  <2>11. /\ decoder' = decoder /\ decoder # "ffmpeg" /\ r.faults = 0
         /\ Unreleased => Usable(decoder, codec) /\ (Begun => IsSetUp(decoder, codec))
    BY <2>1, <2>9, <2>10 DEF decoder, SetUpInv
  <2>12. CASE what = "init"
    <3>1. Unreleased
      BY <2>3, <2>12 DEF RunInv, Starts
    <3>2. r.how = "ok" /\ Usable(decoder, r.codec) /\ IsSetUp(decoder, r.codec)
      BY <1>2, <2>8, <2>11, <2>12, <3>1, SetUpReady
    <3> QED BY <2>9, <2>11, <3>2 DEF Broken
  <2>13. CASE what # "init"
    <3>1. /\ r.how # "broken"
          /\ Usable(decoder, codec) =>
               Usable(decoder, r.codec) /\ (IsSetUp(decoder, codec) => IsSetUp(decoder, r.codec))
      BY <1>2, <2>8, <2>11, <2>13, StopReady
    <3>2. running' => running
      BY <2>2, <2>13 DEF OnStop, OnReset
    <3>3. Begun' => Begun
      BY <2>1, <2>3, <2>4, <2>5, <2>13, <3>2 DEF Begun
    <3> QED BY <2>7, <2>9, <2>11, <3>1, <3>3 DEF Broken
  <2> QED BY <2>12, <2>13
<1>5. CASE OnRelease
  <2>1. HandlerStep /\ Dispatched /\ Handles("release") /\ handler' = handler /\ Reply("released")
    BY <1>5 DEF OnRelease, HandlerStep
  <2>2. Head(messages).from \in Callers /\ handler = "idle"
    BY <2>1, Answered DEF Awaited
  <2>3. pc'[Head(messages).from] = "released"
    BY <2>1, <2>2 DEF Reply, GoTo, TypeOK
  <2>4. ~Unreleased' /\ ~Broken'
    BY <2>1, <2>2, <2>3 DEF Unreleased, Broken
  <2> QED BY <2>4 DEF SetUpInv
<1>6. CASE OnStart \/ ProcessNothing \/ Take
  <2>1. PICK what \in {"start", "process"} :
          Handles(what) /\ (running' = TRUE => what = "start" \/ running)
    BY <1>6 DEF OnStart, ProcessNothing, Take
  <2>2. /\ Dispatched /\ UNCHANGED <<stream, pc, execState, left>> /\ handler' \in {"idle", "taken"}
        /\ running \in BOOLEAN /\ running' \in BOOLEAN
        /\ (codec' = codec \/ codec' = FlushedCodec(decoder, codec))
    BY <1>6 DEF OnStart, ProcessNothing, Take, HandlerStep, Handles, TypeOK
  <2>3. Head(messages) \in InLooper /\ Head(messages).what = what /\ InLooper' \subseteq InLooper
    BY <2>1, <2>2, Answered
  <2>4. SameSetUp(codec, codec')
    <3>1. SameSetUp(codec, codec) /\ SameSetUp(codec, FlushedCodec(decoder, codec))
      BY <1>2, SendingSame, ChangesSame
    <3> QED BY <2>2, <3>1
  <2>5. Begun' => Begun
    BY <2>1, <2>2, <2>3 DEF Begun
  <2>6. /\ ~Broken' /\ (Unreleased' => Unreleased) /\ decoder' = decoder
        /\ (NothingFailed' => NothingFailed)
    BY <2>2 DEF Broken, Unreleased, decoder, NothingFailed
  <2> QED BY <2>4, <2>5, <2>6, SetUpCarries DEF SetUpInv
<1>7. CASE GoOn
  <2>1. /\ UNCHANGED <<stream, pc, execState, left, running, codec>> /\ handler' = "idle"
        /\ (Post("process", NoCaller) \/ messages' = messages)
    BY <1>7 DEF GoOn
  <2>2. ASSUME Post("process", NoCaller)
        PROVE  InLooper' = InLooper \cup {[what |-> "process", from |-> NoCaller]}
    BY <2>2, LooperChanges, MessageType DEF Post
  <2>3. Begun' => Begun
    BY <2>1, <2>2 DEF Begun, InLooper
  <2> QED BY <2>1, <2>3 DEF SetUpInv, Broken, Unreleased, decoder, NothingFailed
<1>8. ASSUME NEW c \in Callers, Calls(c) \/ Continues(c) PROVE SetUpInv'
  <2>1. /\ UNCHANGED <<stream, codec, handler, running, left>>
        /\ \A d \in Callers : d # c => pc'[d] = pc[d]
        /\ pc[c] \in Places \ {"released"}
    BY <1>8, ClientsKeep
  <2>2. Begun' => Begun
    <3>1. pc'[c] \in {"start", "started"} => Begun
      BY <1>8, CallerPlaces DEF Begun
    <3>2. execState' # "UNINITIALIZED" => Begun
      BY <1>8, CallerStates DEF Begun
    <3>3. \A m \in InLooper' : m.what = "start" => Begun
      BY <1>8, StartPosted DEF Begun
    <3>4. \A d \in Callers : pc'[d] \in {"start", "started"} => Begun
      BY <2>1, <3>1 DEF Begun
    <3> QED BY <2>1, <3>2, <3>3, <3>4 DEF Begun
  <2>3. Unreleased' => Unreleased
    BY <2>1 DEF Unreleased
  <2> QED BY <2>1, <2>2, <2>3 DEF SetUpInv, Broken, decoder, NothingFailed
<1> QED BY <1>1, <1>3, <1>4, <1>5, <1>6, <1>7, <1>8 DEF Next, HandleMessage, WorkStep

\* Sound stays with its work from step to step.
LEMMA FramesStep ==
  ASSUME TypeOK, AccountInv, RepliesAwaited, OneStateCall, MessagesInv, RunInv, UninitInv,
         FramesInv, [Next]_vars
  PROVE  FramesInv'
<1> USE DEF clientVars, queueVars, handlerVars, entryVars
<1>1. CASE Done \/ UNCHANGED vars
  BY <1>1 DEF Done, vars, FramesInv, NothingFailed, decoder, AtEnd
<1>2. codec \in GoodCodecs /\ left \in Nat /\ left <= stream.failures
  BY CodecType DEF TypeOK, RunInv
<1>3. CASE WorkStep
  <2>1. /\ UNCHANGED <<stream, current, kind>> /\ left' \in Nat /\ left' <= left
        /\ decoder' = decoder /\ AtEnd' = AtEnd
    BY <1>3, WorkSteps DEF decoder, AtEnd
  <2>2. SUFFICES ASSUME decoder = "aac", NothingFailed'
                 PROVE  Sound(codec') /\ (handler' = "sending" /\ AtEnd => Paid(codec'))
    BY <2>1 DEF FramesInv
  <2>3. left' = left /\ Sound(codec) /\ (handler = "sending" /\ AtEnd => Paid(codec))
    BY <1>2, <2>1, <2>2, FailuresStay DEF FramesInv
  <2>4. CASE NoPool \/ SendWithoutBlock
    BY <1>2, <2>3, <2>4 DEF NoPool, SendWithoutBlock
  <2>5. CASE Drain
    BY <1>2, <2>2, <2>3, <2>5, DrainDecoderSound DEF Drain, DrainedCodec
  <2>6. CASE ProcessWork
    <3>1. PICK r \in Process(decoder, codec, kind[current], current) :
            /\ left >= r.faults /\ left' = left - r.faults
            /\ codec' = r.codec
            /\ CASE r.how = "send"   -> handler' = "sending" /\ answer' = answer
                 [] r.how = "broken" -> handler' = "broken" /\ answer' = answer
                 [] r.how = "failed" -> Gone("lost")
                 [] OTHER            -> handler' = "processed" /\ answer' = answer
      BY <2>6, Zenon DEF ProcessWork
    <3>2. \/ r.how = "send" \/ handler' = "broken" \/ handler' = "processed" \/ Gone("lost")
      BY <3>1, Zenon
    <3>3. handler' = "sending" => r.how = "send"
      BY <3>2 DEF Gone
    <3>4. r \in AacProcess(codec, kind[current], current)
      BY <2>2, <3>1, Zenon DEF Process
    <3>5. current \in Entries
      BY <2>6 DEF ProcessWork, AccountInv, HandsFull
    <3>6. GoodResult(r)
      BY <1>2, <3>4, <3>5, AacProcessGood
    <3>7. r.faults = 0
      BY <1>2, <2>3, <3>1, <3>6 DEF GoodResult
    <3> QED BY <1>2, <2>3, <3>1, <3>3, <3>4, <3>5, <3>7, AacProcessSound DEF AtEnd
  <2>7. CASE SendFrames
    <3>1. AacMaySend(codec, AtEnd) /\ handler = "sending" /\ codec' = AacSent(codec)
      BY <2>2, <2>7 DEF SendFrames, Sending, MaySend, Sent
    <3> QED BY <1>2, <2>3, <3>1, AacSentSound
  <2>8. CASE SendRest
    <3>1. /\ ~AacMaySend(codec, AtEnd) /\ AtEnd /\ handler = "sending"
          /\ codec' = [codec EXCEPT !.infos = Tail(codec.infos)] /\ Len(codec.infos) > 1
      BY <2>2, <2>8 DEF SendRest, MaySend, WorksWait
    <3>2. ~AacMaySend(codec, TRUE)
      BY <3>1 DEF AacMaySend
    <3>3. codec.infos # <<>>
      BY <3>1, EmptySeq
    <3> QED BY <1>2, <2>3, <3>1, <3>2, <3>3, AacRestSound
  <2>9. CASE SendEnds
    <3>1. /\ ~AacMaySend(codec, AtEnd) /\ (AtEnd => ~(Len(codec.infos) > 1)) /\ handler = "sending"
          /\ codec' = (IF AtEnd THEN NoInfos(codec) ELSE codec) /\ handler' # "sending"
      BY <2>2, <2>9 DEF SendEnds, MaySend, WorksWait, Gone
    <3>2. CASE ~AtEnd
      BY <2>3, <3>1, <3>2
    <3>3. CASE AtEnd
      <4>1. ~AacMaySend(codec, TRUE)
        BY <3>1, <3>3 DEF AacMaySend
      <4>2. Len(codec.infos) <= 1
        BY <1>2, <3>1, <3>3, GoodFields, LenProperties
      <4> QED BY <1>2, <2>3, <3>1, <3>3, <4>1, <4>2, AacRestSound
    <3> QED BY <3>2, <3>3
  <2>10. CASE Dispose
    BY <2>3, <2>10 DEF Dispose
  <2> QED BY <1>3, <2>4, <2>5, <2>6, <2>7, <2>8, <2>9, <2>10 DEF WorkStep
<1>4. CASE OnInit \/ OnStop \/ OnReset
  <2>1. HandlerStep /\ Dispatched /\ UNCHANGED <<stream, execState>> /\ decoder' = decoder
    BY <1>4 DEF OnInit, OnStop, OnReset, HandlerStep, decoder
  <2>2. SUFFICES ASSUME decoder = "aac", NothingFailed'
                 PROVE  Sound(codec') /\ handler' # "sending"
    BY <2>1 DEF FramesInv
  <2>3. PICK r \in SetUp(decoder, codec) \cup Stop(decoder, codec) \cup Reset(decoder, codec) :
          /\ Returns(r)
          /\ \/ OnInit /\ r \in SetUp(decoder, codec)
             \/ r \in Stop(decoder, codec) \cup Reset(decoder, codec)
    BY <1>4 DEF OnInit, OnStop, OnReset
  <2>4. codec' = r.codec /\ NothingFailed /\ handler' \in {"idle", "broken"}
    BY <1>2, <2>1, <2>2, <2>3, CallbackGood, ReturnsLeft
  <2>5. CASE r \in Stop(decoder, codec) \cup Reset(decoder, codec)
    BY <1>2, <2>2, <2>4, <2>5, AacStopSound
  <2>6. CASE OnInit /\ r \in SetUp(decoder, codec)
    <3> DEFINE c == Head(messages).from
    <3>1. c \in Callers /\ pc[c] = WaitPlace("init")
      BY <2>1, <2>6, Answered DEF OnInit, Awaited
    <3>2. pc[c] = "initWait"
      BY <3>1 DEF WaitPlace
    <3>3. execState = "UNINITIALIZED" /\ ~Resetting
      BY <3>1, <3>2 DEF UninitInv, OneStateCall, StatePlaces, Resetting
    <3>4. codec.infos = <<>>
      BY <2>2, <2>4, <3>3 DEF UninitInv
    <3>5. r \in AacInit(codec)
      BY <2>2, <2>6, Zenon DEF SetUp
    <3> QED BY <1>2, <2>4, <3>4, <3>5, AacInitSound
  <2> QED BY <2>3, <2>5, <2>6
<1>5. CASE OnRelease
  <2>1. HandlerStep /\ stream' = stream /\ left' = left /\ handler' = handler /\ handler = "idle"
        /\ codec' = Released(decoder, codec)
    BY <1>5 DEF OnRelease, HandlerStep, Handles
  <2>2. SUFFICES ASSUME decoder = "aac", NothingFailed'
                 PROVE  Sound(codec')
    BY <2>1 DEF FramesInv, decoder
  <2>3. Sound(codec)
    BY <2>1, <2>2 DEF FramesInv, NothingFailed
  <2>4. codec' = [codec EXCEPT !.open = FALSE]
    BY <2>1, <2>2, Zenon DEF Released
  <2>5. /\ codec'.filled = codec.filled /\ codec'.compensated = codec.compensated
        /\ codec'.infos = codec.infos /\ codec'.error = codec.error
    BY <1>2, <2>4 DEF GoodCodecs, Codecs
  <2> QED BY <2>3, <2>5 DEF Sound
<1>6. CASE OnStart \/ ProcessNothing \/ Take
  <2>1. /\ UNCHANGED <<stream, left>> /\ handler' \in {"idle", "taken"}
        /\ (codec' = codec \/ codec' = FlushedCodec(decoder, codec))
    BY <1>6 DEF OnStart, ProcessNothing, Take, HandlerStep, Handles
  <2>2. SUFFICES ASSUME decoder = "aac", NothingFailed'
                 PROVE  Sound(codec')
    BY <2>1 DEF FramesInv, decoder
  <2>3. Sound(codec) /\ FlushedCodec(decoder, codec) = AacFlush(codec)
    BY <2>1, <2>2 DEF FramesInv, NothingFailed, FlushedCodec
  <2> QED BY <1>2, <2>1, <2>3, AacFlushSound
<1>7. CASE GoOn
  <2>1. UNCHANGED <<stream, left, codec>> /\ handler' = "idle"
    BY <1>7 DEF GoOn
  <2> QED BY <2>1 DEF FramesInv, decoder, NothingFailed
<1>8. ASSUME NEW c \in Callers, Calls(c) \/ Continues(c) PROVE FramesInv'
  BY <1>8, ClientsKeep DEF FramesInv, decoder, NothingFailed
<1> QED BY <1>1, <1>3, <1>4, <1>5, <1>6, <1>7, <1>8 DEF Next, HandleMessage, WorkStep

\* A component as it is created.
LEMMA InitCodec == Init => CodecInv
<1> SUFFICES ASSUME Init PROVE CodecInv
  OBVIOUS
<1>1. InLooper = {} /\ Len(messages) = 0 /\ \A c \in Callers : pc[c] = "idle"
  <2>1. Len(messages) = 0
    BY EmptySeq DEF Init
  <2> QED BY <2>1 DEF Init, InLooper
<1>2. left = stream.failures /\ stream.failures \in Nat
  BY StreamsAssumption DEF Init
<1>3. /\ running = FALSE /\ handler = "idle" /\ execState = "UNINITIALIZED"
      /\ codec.infos = <<>> /\ codec.filled = 0 /\ codec.compensated = 0
      /\ codec.conf = TRUE /\ codec.setUp = FALSE
  BY DEF Init, NewCodec
<1>4. MessagesInv
  BY <1>1 DEF MessagesInv
<1>5. RunInv
  BY <1>1, <1>2, <1>3 DEF RunInv, Unreleased
<1>6. UninitInv
  BY <1>1, <1>3 DEF UninitInv
<1>7. SetUpInv
  BY <1>1, <1>3 DEF SetUpInv, Broken, Begun, Usable
<1>8. FramesInv
  BY <1>3, FramesOfNone DEF FramesInv, Sound
<1> QED BY <1>4, <1>5, <1>6, <1>7, <1>8 DEF CodecInv

\* The state of a codec is as its decoder, the calls and the messages say.
THEOREM CodecKept == Spec /\ []OneStateCall => []CodecInv
<1>1. TypeOK /\ AccountInv /\ RepliesAwaited /\ OneStateCall /\ OneStateCall' /\ CodecInv
        /\ [Next]_vars => CodecInv'
  BY MessagesStep, RunStep, UninitStep, SetUpStep, FramesStep DEF CodecInv
<1> QED BY <1>1, InitCodec, Invariants, RepliesMatch, PTL DEF Spec

\* Without a failure no sequence of calls makes a decoder use what it has let go:
\* stop, reset and start leave it usable.
THEOREM NeverUsesWhatIsGone == Spec /\ []OneStateCall => []NeverBroken
<1>1. CodecInv => NeverBroken
  BY DEF CodecInv, SetUpInv, NeverBroken
<1> QED BY <1>1, CodecKept, PTL

\* Sound goes out with the work it was decoded from, as long as nothing failed.
THEOREM SoundKept == Spec /\ []OneStateCall => []SoundStaysWithItsWork
<1>1. CodecInv => SoundStaysWithItsWork
  BY DEF CodecInv, FramesInv, Sound, SoundStaysWithItsWork
<1> QED BY <1>1, CodecKept, PTL

\* One client thread makes one call at a time.
THEOREM OneClientIsSafe ==
  ASSUME NEW c, Callers = {c}
  PROVE  Spec => [](NeverBroken /\ SoundStaysWithItsWork)
<1>1. OneStateCall
  BY DEF OneStateCall
<1> QED BY <1>1, NeverUsesWhatIsGone, SoundKept, PTL

-----------------------------------------------------------------------------
(* The end of a stream.  A work an AAC decoder keeps pending is noted, or a *)
(* drain with EOS has forgotten it; the works noted are given back before   *)
(* the work that ends the stream, which is the last of them.                *)

Works(infos) == {infos[i].work : i \in 1 .. Len(infos)}
LastWork(infos) == infos[Len(infos)].work

\* Works are taken in the order they were pushed.
InOrder ==
  /\ \A p \in pending \cup InHand, q \in queue : p < q
  /\ \A p \in pending, h \in InHand : p < h

\* A drain with EOS that came since the component was last emptied, and has been taken.
Forgotten ==
  \E u \in cleared + 1 .. next :
    /\ kind[u] = "drainEos" /\ \A q \in queue : u < q
    /\ \A h \in InHand : u <= h

\* What a flush leaves pending: nothing, until processQueue has told the codec.
FlushInv == (flush => outdated) /\ (outdated => pending = {})

\* A stop or reset under way has emptied the component, and nothing was queued since.
ClearedInv(c) == pc[c] \in {"stopPost", "stopWait", "resetPost", "resetWait"} => next = cleared

\* Only AAC keeps works, and never one that ends the stream.
KeptInv ==
  /\ \A v \in pending : kind[v] # "eos"
  /\ handler = "processed" => ~IsMark /\ (kind[current] = "eos" \/ decoder # "aac" => processed)
  /\ decoder # "aac" => pending = {} /\ (handler = "sending" => processed /\ ~IsMark)

Fine == decoder = "aac" /\ NothingFailed /\ ~codec.error
Remembered(v) == v <= cleared \/ v \in Works(codec.infos) \/ Forgotten

\* A pending work is noted or forgotten; the work in hand is the last one noted.
NotedInv ==
  Fine =>
    /\ \A v \in pending : Remembered(v)
    /\ handler = "sending" /\ ~IsMark /\ codec.infos # <<>> => LastWork(codec.infos) = current
    /\ handler \in {"sending", "processed"} /\ ~IsMark /\ ~processed => current \in Works(codec.infos)
    /\ handler = "processed" /\ kind[current] = "eos" => codec.infos = <<>>

EosInv(c) == InOrder /\ FlushInv /\ ClearedInv(c) /\ KeptInv /\ NotedInv

\* The works of a list of notes.
LEMMA WorksOfNotes ==
  ASSUME NEW s \in Seq(Infos)
  PROVE  /\ s = <<>> => Works(s) = {}
         /\ \A x \in Infos : /\ Works(Append(s, x)) = Works(s) \cup {x.work}
                             /\ LastWork(Append(s, x)) = x.work
         /\ s # <<>> => /\ Tail(s) \in Seq(Infos) /\ Works(s) = Works(Tail(s)) \cup {Head(s).work}
                        /\ Tail(s) # <<>> => LastWork(Tail(s)) = LastWork(s)
         /\ Len(s) <= 1 => \A w \in Works(s) : w = LastWork(s)
<1>1. Len(s) \in Nat /\ (s = <<>> <=> Len(s) = 0)
  BY LenProperties, EmptySeq
<1>2. s = <<>> => Works(s) = {}
  BY <1>1 DEF Works
<1>3. ASSUME NEW x \in Infos
      PROVE  Works(Append(s, x)) = Works(s) \cup {x.work} /\ LastWork(Append(s, x)) = x.work
  <2> DEFINE t == Append(s, x)
  <2>1. Len(t) = Len(s) + 1 /\ t[Len(s) + 1] = x /\ \A i \in 1 .. Len(s) : t[i] = s[i]
    BY <1>3, AppendProperties
  <2> HIDE DEF t
  <2>2. Works(t) = Works(s) \cup {x.work} /\ LastWork(t) = x.work
    BY <1>1, <2>1 DEF Works, LastWork
  <2> QED BY <2>2 DEF t
<1>4. ASSUME s # <<>>
      PROVE  /\ Tail(s) \in Seq(Infos) /\ Works(s) = Works(Tail(s)) \cup {Head(s).work}
             /\ Tail(s) # <<>> => LastWork(Tail(s)) = LastWork(s)
  <2> DEFINE t == Tail(s)
  <2>1. /\ t \in Seq(Infos) /\ Len(t) = Len(s) - 1 /\ Head(s) = s[1]
        /\ \A i \in 1 .. Len(t) : t[i] = s[i + 1]
    BY <1>4, HeadTailProperties
  <2>2. Len(t) \in Nat /\ (t = <<>> <=> Len(t) = 0)
    BY <2>1, LenProperties, EmptySeq
  <2> HIDE DEF t
  <2>3. Works(s) = Works(t) \cup {s[1].work}
    <3>1. \A i \in 1 .. Len(s) : i = 1 \/ (i - 1 \in 1 .. Len(t) /\ s[i] = t[i - 1])
      BY <1>1, <2>1, <2>2
    <3>2. \A i \in 1 .. Len(t) : i + 1 \in 1 .. Len(s) /\ t[i] = s[i + 1]
      BY <1>1, <2>1, <2>2
    <3>3. 1 \in 1 .. Len(s)
      BY <1>1, <1>4
    <3>4. Works(s) \subseteq Works(t) \cup {s[1].work}
      BY <3>1 DEF Works
    <3>5. Works(t) \cup {s[1].work} \subseteq Works(s)
      BY <3>2, <3>3 DEF Works
    <3> QED BY <3>4, <3>5
  <2>4. t # <<>> => LastWork(t) = LastWork(s)
    BY <1>1, <2>1, <2>2 DEF LastWork
  <2> QED BY <2>1, <2>3, <2>4 DEF t
<1>5. Len(s) <= 1 => \A w \in Works(s) : w = LastWork(s)
  BY <1>1 DEF Works, LastWork
<1> QED BY <1>2, <1>3, <1>4, <1>5

\* What the AAC decoder does to its notes, and that its error stays.
LEMMA AacNotes ==
  ASSUME NEW c \in GoodCodecs
  PROVE  /\ DrainDecoder(c).infos = c.infos /\ (c.error => DrainDecoder(c).error)
         /\ Discard(c).infos = c.infos /\ Discard(c).error = c.error
         /\ NoInfos(c).infos = <<>> /\ NoInfos(c).error = c.error
         /\ AacFlush(c).infos = <<>> /\ (c.error => AacFlush(c).error)
         /\ c.infos # <<>> => /\ AacSent(c).infos = Tail(c.infos) /\ AacSent(c).error = c.error
         /\ SentWithoutBlock(c).infos = Tail(c.infos) /\ SentWithoutBlock(c).error = c.error
<1>1. c \in Codecs
  BY GoodFields
<1>2. DrainDecoder(c).infos = c.infos /\ (c.error => DrainDecoder(c).error)
  BY <1>1 DEF DrainDecoder, Codecs
<1>3. Discard(c).infos = c.infos /\ Discard(c).error = c.error
  BY <1>1 DEF Discard, Codecs
<1>4. \A d \in Codecs : NoInfos(d).infos = <<>> /\ NoInfos(d).error = d.error
  BY DEF NoInfos, Codecs
<1>5. AacFlush(c).infos = <<>> /\ (c.error => AacFlush(c).error)
  <2> DEFINE d == DrainDecoder(c)
  <2>1. d \in Codecs /\ NoInfos(d) \in Codecs
    BY DrainDecoderGood, GoodParts, GoodFields
  <2>2. /\ [NoInfos(d) EXCEPT !.filled = 0].infos = NoInfos(d).infos
        /\ [NoInfos(d) EXCEPT !.filled = 0].error = NoInfos(d).error
    BY <2>1 DEF Codecs
  <2> QED BY <1>2, <1>4, <2>1, <2>2 DEF AacFlush
<1>6. AacSent(c).infos = Tail(c.infos) /\ AacSent(c).error = c.error
  BY <1>1 DEF AacSent, Codecs
<1>7. SentWithoutBlock(c).infos = Tail(c.infos) /\ SentWithoutBlock(c).error = c.error
  BY <1>1 DEF SentWithoutBlock, Codecs
<1> QED BY <1>1, <1>2, <1>3, <1>4, <1>5, <1>6, <1>7

\* process() of AAC, if nothing fails: a work with sound is noted, and only one that
\* does not end the stream waits.
LEMMA AacNotesWork ==
  ASSUME NEW c \in GoodCodecs, NEW k, NEW w \in Entries, NEW r \in AacProcess(c, k, w),
         r.faults = 0, ~r.codec.error
  PROVE  /\ ~c.error
         /\ \/ /\ r.how \in {"processed", "broken"} /\ r.codec.infos = c.infos
               /\ r.how = "processed" => k = "csd"
            \/ /\ r.how = "send" \/ (r.how = "waits" /\ k \notin EosKinds)
               /\ \E x \in Infos : x.work = w /\ r.codec.infos = Append(c.infos, x)
<1>1. \A e, how, n : /\ Result(e, how, n).codec = e /\ Result(e, how, n).how = how
                     /\ Result(e, how, n).faults = n
  BY DEF Result
<1>2. c \in Codecs
  BY GoodFields
<1>3. ~c.error
  BY <1>1 DEF AacProcess
<1>4. CASE k = "csd"
  <2>1. r \in AacConfigures(c)
    BY <1>3, <1>4 DEF AacProcess
  <2>2. PICK known, n : \/ r = Result([c EXCEPT !.known = known], "processed", 0)
                        \/ r = Result([c EXCEPT !.error = TRUE], "processed", n)
    BY <2>1 DEF AacConfigures
  <2>3. [c EXCEPT !.known = known].infos = c.infos /\ [c EXCEPT !.error = TRUE].error = TRUE
    BY <1>2 DEF Codecs
  <2>4. CASE r = Result([c EXCEPT !.error = TRUE], "processed", n)
    BY <2>3, <2>4 DEF Result
  <2>5. CASE r = Result([c EXCEPT !.known = known], "processed", 0)
    <3>1. r.how = "processed" /\ r.codec = [c EXCEPT !.known = known]
      BY <2>5 DEF Result
    <3> QED BY <1>3, <1>4, <2>3, <3>1
  <2> QED BY <2>2, <2>4, <2>5
<1>5. CASE k # "csd" /\ ~c.open
  BY <1>1, <1>3, <1>5 DEF AacProcess
<1>6. CASE k # "csd" /\ c.open
  <2>1. r \notin AacFails(c)
    <3>1. \A s \in AacFails(c) : \E e : s = Result(e, "processed", 1)
      BY DEF AacFails
    <3> QED BY <1>1, <3>1
  <2>2. PICK d \in AacDecoded(c) :
             r = AacGoesOn([d EXCEPT !.infos = Append(d.infos, Info(w, d.filled - c.filled))], k)
    BY <1>3, <1>6, <2>1 DEF AacProcess
  <2> DEFINE x == Info(w, d.filled - c.filled)
             e == [d EXCEPT !.infos = Append(d.infos, x)]
  <2>3. d \in GoodCodecs /\ d.filled - c.filled \in Nat /\ d.infos = c.infos
    <3>1. d.infos = c.infos
      BY <1>2 DEF AacDecoded, Codecs
    <3> QED BY <3>1, AacDecodedGood
  <2>4. x \in Infos /\ x.work = w
    BY <2>3 DEF Info, Infos
  <2>5. Append(d.infos, x) \in Seq(Infos)
    BY <2>3, <2>4, GoodFields, AppendProperties
  <2>6. e \in GoodCodecs /\ e.infos = Append(c.infos, x)
    BY <2>3, <2>5, GoodChanges, GoodFields DEF Codecs
  <2> HIDE DEF e, x
  <2>7. r = AacGoesOn(e, k)
    BY <2>2 DEF e, x
  <2>8. \/ r = Result(DrainDecoder(e), "send", 0) \/ r = Result(e, "send", 0)
        \/ k \notin EosKinds /\ r = Result(Discard(e), "waits", 0)
    BY <2>7 DEF AacGoesOn
  <2> QED BY <1>1, <1>3, <2>4, <2>6, <2>8, AacNotes
<1> QED BY <1>4, <1>5, <1>6

\* Setting up does not touch the notes.
LEMMA AacInitNotes ==
  ASSUME NEW c \in GoodCodecs, NEW r \in AacInit(c)
  PROVE  r.codec.infos = c.infos /\ r.codec.error = c.error
<1>1. c \in Codecs
  BY GoodFields
<1>2. AacEmpty(c) \in Codecs /\ AacEmpty(c).infos = c.infos /\ AacEmpty(c).error = c.error
  BY <1>1 DEF AacEmpty, Codecs
<1>3. \A e \in Codecs : \A b :
        /\ [e EXCEPT !.open = b, !.known = FALSE].infos = e.infos
        /\ [e EXCEPT !.open = b, !.known = FALSE].error = e.error
  BY DEF Codecs
<1>4. \E b : r.codec = [AacEmpty(c) EXCEPT !.open = b, !.known = FALSE]
  <2>1. PICK b, how, n : r = Result([AacEmpty(c) EXCEPT !.open = b, !.known = FALSE], how, n)
    BY DEF AacInit
  <2>2. r.codec = [AacEmpty(c) EXCEPT !.open = b, !.known = FALSE]
    BY <2>1 DEF Result
  <2> QED BY <2>2
<1> QED BY <1>2, <1>3, <1>4

\* The steps of processQueue: nothing is queued or pushed, its work stays in hand or
\* leaves it, and only the end of processQueue keeps a work pending.
LEMMA WorkMoves ==
  ASSUME TypeOK, AccountInv, WorkStep
  PROVE  /\ UNCHANGED <<stream, pc, cleared, queue, flush, outdated, next, kind, current>>
         /\ InHand = {current} /\ current \in Entries /\ InHand' \subseteq InHand
         /\ \/ pending' \subseteq pending
            \/ /\ Dispose /\ ~outdated /\ ~processed
               /\ pending' = pending \cup {current} /\ InHand' = {}
<1> USE DEF clientVars, queueVars, handlerVars, entryVars
<1>1. /\ handler \in {"taken", "sending", "processed"} /\ current' = current
      /\ UNCHANGED <<stream, pc, kind>>
  BY WorkSteps
<1>2. InHand = {current} /\ current \in Entries
  BY <1>1, BoundsAssumption DEF InHand, Processing, AccountInv, HandsFull, NoEntry, Entries
<1>3. InHand' \subseteq InHand
  BY <1>1, <1>2 DEF InHand
<1>4. CASE NoPool \/ Drain \/ ProcessWork \/ SendEnds
  BY <1>1, <1>2, <1>3, <1>4 DEF NoPool, Drain, ProcessWork, SendEnds, CodecStep
<1>5. CASE SendFrames \/ SendWithoutBlock \/ SendRest
  <2>1. UNCHANGED <<cleared, queue, flush, outdated, next>>
    BY <1>5 DEF SendFrames, SendWithoutBlock, SendRest, SendStep
  <2>2. pending' \subseteq pending
    BY <1>5 DEF SendFrames, SendWithoutBlock, SendRest, FillIn
  <2> QED BY <1>1, <1>2, <1>3, <2>1, <2>2
<1>6. CASE Dispose
  <2>1. UNCHANGED <<cleared, queue, flush, outdated, next>> /\ handler' = "done"
    BY <1>6 DEF Dispose
  <2>2. InHand' = {}
    BY <2>1 DEF InHand, Processing
  <2> QED BY <1>1, <1>2, <1>3, <1>6, <2>1, <2>2 DEF Dispose
<1> QED BY <1>4, <1>5, <1>6 DEF WorkStep

\* The other steps of the handler, which has no work in hand.
OtherStep ==
  OnInit \/ OnStart \/ OnStop \/ OnReset \/ OnRelease \/ ProcessNothing \/ GoOn

\* They leave the works alone.
LEMMA OtherMoves ==
  ASSUME TypeOK, AccountInv, OtherStep
  PROVE  /\ UNCHANGED <<stream, cleared, queue, pending, flush, outdated, next, kind>>
         /\ InHand = {} /\ InHand' = {} /\ handler' \notin {"taken", "sending", "processed"}
<1> USE DEF clientVars, queueVars, handlerVars, entryVars
<1>1. CASE GoOn
  BY <1>1 DEF GoOn, InHand, Processing
<1>2. CASE ~GoOn
  <2>1. HandlerStep /\ handler = "idle"
    BY <1>2 DEF OtherStep, OnInit, OnStart, OnStop, OnReset, OnRelease, ProcessNothing, Handles
  <2>2. current = NoEntry /\ current' = NoEntry
    BY <2>1 DEF AccountInv, HandsFull, HandlerStep
  <2>3. handler' \in {"idle", "broken"}
    BY <1>2, <2>1 DEF OtherStep, OnInit, OnStart, OnStop, OnReset, OnRelease, ProcessNothing, Returns
  <2> QED BY <2>1, <2>2, <2>3 DEF HandlerStep, InHand
<1> QED BY <1>1, <1>2

\* The steps of the client threads: what is in hand stays there, what was pushed is what
\* it was, and the queue and the pending works grow by a push or are emptied.
LEMMA ClientMoves ==
  ASSUME TypeOK, AccountInv, NEW c \in Callers, Calls(c) \/ Continues(c)
  PROVE  /\ UNCHANGED <<stream, codec, handler, current, processed, left>> /\ InHand' = InHand
         /\ \A w \in 1 .. next : kind'[w] = kind[w]
         /\ \/ UNCHANGED <<queue, pending, next, cleared, flush, outdated>>
            \/ /\ pc[c] = "queueing" /\ queue' = queue \cup {next + 1} /\ next' = next + 1
               /\ UNCHANGED <<pending, cleared, flush, outdated>>
            \/ /\ FlushTake(c) /\ queue' = {} /\ pending' = {} /\ outdated' = TRUE
               /\ UNCHANGED <<next, cleared>>
            \/ /\ Clear(c) /\ queue' = {} /\ pending' = {} /\ cleared' = next
               /\ UNCHANGED <<next, flush, outdated>>
<1> USE DEF clientVars, queueVars, handlerVars, entryVars
<1>1. /\ UNCHANGED <<stream, codec, handler, current, left>>
      /\ InHand' = InHand
  BY ClientsKeep DEF InHand, Processing
<1>2. ASSUME NEW k \in stream.kinds, QueuePush(c, k)
      PROVE  \A w \in 1 .. next : kind'[w] = kind[w]
  BY <1>2, BoundsAssumption DEF QueuePush, TypeOK, Entries
<1>3. CASE FlushTake(c)
  BY <1>1, <1>3 DEF FlushTake
<1>4. CASE Clear(c)
  BY <1>1, <1>4 DEF Clear
<1>5. ASSUME NEW k \in stream.kinds, QueuePush(c, k)
      PROVE  /\ pc[c] = "queueing" /\ queue' = queue \cup {next + 1} /\ next' = next + 1
             /\ UNCHANGED <<pending, cleared, flush, outdated, processed>>
  BY <1>5 DEF QueuePush
<1>6. CASE \/ StartCheck(c) \/ QueueCheck(c) \/ FlushCheck(c) \/ StopCheck(c) \/ ResetCall(c)
           \/ ReleaseCall(c) \/ StartPost(c) \/ StartReturn(c) \/ QueuePost(c)
           \/ FlushReturn(c) \/ ClearPost(c)
  BY <1>1, <1>6 DEF StartCheck, QueueCheck, FlushCheck, StopCheck, ResetCall, ReleaseCall,
       StartPost, StartReturn, QueuePost, FlushReturn, ClearPost, Passes, Posts, SetState
<1> QED BY <1>1, <1>2, <1>3, <1>4, <1>5, <1>6 DEF Calls, Continues

\* processQueue takes the first of the queue.
LEMMA TakeMoves ==
  ASSUME TypeOK, AccountInv, Take
  PROVE  /\ UNCHANGED <<stream, pc, cleared, pending, next, kind, left>>
         /\ InHand = {} /\ InHand' = {current'} /\ handler' = "taken" /\ outdated' = FALSE
         /\ flush' = FALSE /\ current' \in queue /\ queue' = queue \ {current'}
         /\ \A q \in queue : current' <= q
         /\ codec' = IF flush THEN FlushedCodec(decoder, codec) ELSE codec
<1> USE DEF clientVars, entryVars
<1>1. queue # {} /\ current' = Front(queue) /\ queue \in SUBSET Nat
  BY BoundsAssumption DEF Take, TypeOK, Entries
<1>2. Front(queue) \in queue /\ \A q \in queue : Front(queue) <= q
  BY <1>1, FrontProperty
<1>3. Front(queue) # NoEntry
  BY <1>2, BoundsAssumption DEF TypeOK, Entries, NoEntry
<1>4. InHand = {} /\ InHand' = {current'}
  BY <1>1, <1>3 DEF Take, Handles, InHand, Processing
<1> QED BY <1>1, <1>2, <1>4 DEF Take

\* Works are taken in the order they were pushed.
LEMMA OrderStep ==
  ASSUME TypeOK, AccountInv, InOrder, [Next]_vars
  PROVE  InOrder'
<1>1. queue \in SUBSET Nat /\ pending \in SUBSET Nat /\ next \in Nat
  BY BoundsAssumption DEF TypeOK, Entries
<1>2. \A w \in queue \cup InHand \cup pending : w \in 1 .. next
  BY HeldProperty DEF Held
<1>3. CASE UNCHANGED <<queue, pending>> /\ InHand' = InHand
  BY <1>3 DEF InOrder
<1>4. CASE Done \/ UNCHANGED vars
  <2>1. UNCHANGED vars
    BY <1>4 DEF Done
  <2> QED BY <1>3, <2>1 DEF vars, queueVars, handlerVars, InHand, Processing
<1>5. CASE WorkStep
  BY <1>5, WorkMoves DEF InOrder
<1>6. CASE OtherStep
  BY <1>3, <1>6, OtherMoves
<1>7. CASE Take
  <2>1. /\ pending' = pending /\ InHand' = {current'} /\ current' \in queue
        /\ queue' = queue \ {current'} /\ \A q \in queue : current' <= q
    BY <1>7, TakeMoves
  <2> QED BY <1>1, <2>1 DEF InOrder
<1>8. ASSUME NEW c \in Callers, Calls(c) \/ Continues(c) PROVE InOrder'
  <2>1. InHand' = InHand
    BY <1>8, ClientMoves
  <2>2. CASE queue' = {} /\ pending' = {}
    BY <2>2 DEF InOrder
  <2>3. CASE queue' = queue \cup {next + 1} /\ pending' = pending
    BY <1>1, <1>2, <2>1, <2>3 DEF InOrder
  <2> QED BY <1>3, <1>8, <2>1, <2>2, <2>3, ClientMoves
<1> QED BY <1>4, <1>5, <1>6, <1>7, <1>8 DEF Next, HandleMessage, WorkStep, OtherStep

\* A flush has left nothing pending.
LEMMA FlushInvStep ==
  ASSUME TypeOK, AccountInv, FlushInv, [Next]_vars
  PROVE  FlushInv'
<1>1. CASE Done \/ UNCHANGED vars
  BY <1>1 DEF Done, vars, queueVars, FlushInv
<1>2. CASE WorkStep
  BY <1>2, WorkMoves DEF FlushInv, TypeOK
<1>3. CASE OtherStep
  BY <1>3, OtherMoves DEF FlushInv
<1>4. CASE Take
  BY <1>4, TakeMoves DEF FlushInv
<1>5. ASSUME NEW c \in Callers, Calls(c) \/ Continues(c) PROVE FlushInv'
  BY <1>5, ClientMoves DEF FlushInv
<1> QED BY <1>1, <1>2, <1>3, <1>4, <1>5 DEF Next, HandleMessage, WorkStep, OtherStep

\* While its stop is under way the only client queues nothing.
LEMMA ClearedStep ==
  ASSUME TypeOK, AccountInv, NEW c, Callers = {c}, ClearedInv(c), [Next]_vars
  PROVE  ClearedInv(c)'
<1>1. CASE Done \/ UNCHANGED vars
  BY <1>1 DEF Done, vars, clientVars, entryVars, ClearedInv
<1>2. CASE HandleMessage
  <2>1. UNCHANGED <<next, cleared>>
    BY <1>2, WorkMoves, OtherMoves, TakeMoves DEF HandleMessage, WorkStep, OtherStep
  <2>2. pc' = pc \/ \E place \in {"idle", "started", "released"} : Reply(place)
    <3>1. CASE WorkStep \/ Take
      BY <3>1, WorkMoves, TakeMoves
    <3>2. CASE OtherStep
      BY <3>2 DEF OtherStep, OnInit, OnStart, OnStop, OnReset, OnRelease, ProcessNothing, GoOn,
           clientVars
    <3> QED BY <1>2, <3>1, <3>2 DEF HandleMessage, WorkStep, OtherStep
  <2>3. pc'[c] = pc[c] \/ pc'[c] \in {"idle", "started", "released"}
    BY <2>2 DEF Reply, GoTo, TypeOK
  <2> QED BY <2>1, <2>3 DEF ClearedInv
<1>3. CASE Calls(c) \/ Continues(c)
  <2>1. \A place : GoTo(c, place) => pc'[c] = place
    BY DEF GoTo, TypeOK
  <2>2. CASE Clear(c)
    BY <2>2 DEF Clear, ClearedInv, entryVars
  <2>3. CASE ClearPost(c)
    BY <2>1, <2>3 DEF ClearPost, Posts, ClearedInv, entryVars
  <2>4. CASE StartCheck(c) \/ QueueCheck(c) \/ FlushCheck(c) \/ ReleaseCall(c) \/ StopCheck(c)
             \/ ResetCall(c)
    BY <2>1, <2>4 DEF StartCheck, QueueCheck, FlushCheck, ReleaseCall, StopCheck, ResetCall,
         Passes, SetState, ClearedInv
  <2>5. CASE StartPost(c) \/ StartReturn(c) \/ QueuePost(c) \/ FlushTake(c) \/ FlushReturn(c)
             \/ \E k \in stream.kinds : QueuePush(c, k)
    BY <2>1, <2>5 DEF StartPost, StartReturn, QueuePost, FlushTake, FlushReturn, QueuePush,
         Posts, SetState, ClearedInv
  <2> QED BY <1>3, <2>2, <2>3, <2>4, <2>5 DEF Calls, Continues
<1> QED BY <1>1, <1>2, <1>3 DEF Next

\* What process() of AAC comes to; a work that ends the stream does not wait.
LEMMA AacOutcomes ==
  ASSUME NEW c, NEW k, NEW w, NEW r \in AacProcess(c, k, w)
  PROVE  r.how \in {"processed", "broken", "send"} \/ (r.how = "waits" /\ k \notin EosKinds)
<1>1. CASE r \in AacConfigures(c) \cup AacFails(c)
  <2>1. \E e, n : r = Result(e, "processed", n)
    BY <1>1 DEF AacConfigures, AacFails
  <2> QED BY <2>1 DEF Result
<1>2. CASE \E e, how : how \in {"processed", "broken"} /\ r = Result(e, how, 0)
  BY <1>2 DEF Result
<1>3. CASE \E e : r = AacGoesOn(e, k)
  <2>1. \E e, how : /\ r = Result(e, how, 0)
                    /\ how = "send" \/ (how = "waits" /\ k \notin EosKinds)
    BY <1>3 DEF AacGoesOn
  <2> QED BY <2>1 DEF Result
<1> QED BY <1>1, <1>2, <1>3 DEF AacProcess

\* How process() leaves processQueue.
LEMMA ProcessWorkSteps ==
  ASSUME TypeOK, AccountInv, ProcessWork
  PROVE  \E r \in Process(decoder, codec, kind[current], current) :
           /\ left >= r.faults /\ left' = left - r.faults /\ codec' = r.codec
           /\ processed' = (r.how = "processed" \/ decoder # "aac")
           /\ handler' = "sending" => r.how = "send"
           /\ handler' = "processed" => r.how \notin {"send", "broken", "failed"}
<1>1. PICK r \in Process(decoder, codec, kind[current], current) :
        /\ left >= r.faults /\ left' = left - r.faults
        /\ codec' = r.codec
        /\ processed' = (r.how = "processed" \/ decoder # "aac")
        /\ CASE r.how = "send"   -> handler' = "sending" /\ answer' = answer
             [] r.how = "broken" -> handler' = "broken" /\ answer' = answer
             [] r.how = "failed" -> Gone("lost")
             [] OTHER            -> handler' = "processed" /\ answer' = answer
  BY Zenon DEF ProcessWork
<1>2. \/ r.how = "send" /\ handler' = "sending"
      \/ r.how = "broken" /\ handler' = "broken"
      \/ r.how = "failed" /\ Gone("lost")
      \/ r.how \notin {"send", "broken", "failed"} /\ handler' = "processed"
  BY <1>1, Zenon
<1>3. /\ handler' = "sending" => r.how = "send"
      /\ handler' = "processed" => r.how \notin {"send", "broken", "failed"}
  BY <1>2 DEF Gone
<1> QED BY <1>1, <1>3

\* Which works may be kept, from step to step.
LEMMA KeptStep ==
  ASSUME TypeOK, AccountInv, KeptInv, [Next]_vars
  PROVE  KeptInv'
<1>1. CASE Done \/ UNCHANGED vars
  BY <1>1 DEF Done, vars, queueVars, handlerVars, entryVars, KeptInv, IsMark, decoder
<1>2. CASE WorkStep
  <2>1. /\ UNCHANGED <<stream, kind, current>> /\ decoder' = decoder /\ IsMark' = IsMark
        /\ \/ pending' \subseteq pending
           \/ Dispose /\ ~processed /\ pending' = pending \cup {current}
    BY <1>2, WorkMoves DEF decoder, IsMark
  <2>2. (\A v \in pending' : kind[v] # "eos") /\ (decoder # "aac" => pending' = {})
    BY <2>1 DEF KeptInv, Dispose
  <2>3. SUFFICES /\ handler' = "processed" =>
                      ~IsMark /\ (kind[current] = "eos" \/ decoder # "aac" => processed')
                 /\ decoder # "aac" /\ handler' = "sending" => processed' /\ ~IsMark
    BY <2>1, <2>2 DEF KeptInv
  <2>4. CASE NoPool \/ Dispose
    BY <2>4 DEF NoPool, Dispose, Gone
  <2>5. CASE Drain
    BY <2>5 DEF Drain, Gone
  <2>6. CASE ProcessWork
    <3>1. PICK r \in Process(decoder, codec, kind[current], current) :
            /\ processed' = (r.how = "processed" \/ decoder # "aac")
            /\ handler' = "processed" => r.how \notin {"send", "broken", "failed"}
      BY <2>6, ProcessWorkSteps
    <3>2. ~IsMark
      BY <2>6 DEF ProcessWork
    <3>3. CASE decoder # "aac"
      BY <3>1, <3>2, <3>3
    <3>4. CASE decoder = "aac"
      <4>1. r \in AacProcess(codec, kind[current], current)
        BY <3>1, <3>4, Zenon DEF Process
      <4>2. handler' = "processed" /\ kind[current] = "eos" => r.how = "processed"
        BY <3>1, <4>1, AacOutcomes DEF EosKinds
      <4> QED BY <3>1, <3>2, <3>4, <4>2
    <3> QED BY <3>3, <3>4
  <2>7. CASE SendFrames \/ SendWithoutBlock \/ SendRest
    <3>1. handler = "sending" /\ handler' = "sending" /\ (processed => processed')
      BY <2>7 DEF SendFrames, SendWithoutBlock, SendRest, Sending, SendStep, FillIn
    <3> QED BY <3>1 DEF KeptInv
  <2>8. CASE SendEnds
    <3>1. /\ handler = "sending" /\ processed' = (processed \/ AtEnd)
          /\ handler' = "done" \/ (handler' = "processed" /\ ~IsMark)
      BY <2>8 DEF SendEnds, Gone
    <3>2. kind[current] = "eos" => AtEnd
      BY DEF AtEnd, EosKinds
    <3> QED BY <3>1, <3>2 DEF KeptInv
  <2> QED BY <1>2, <2>4, <2>5, <2>6, <2>7, <2>8 DEF WorkStep
<1>3. CASE OtherStep \/ Take
  <2>1. UNCHANGED <<stream, pending, kind>> /\ handler' \notin {"sending", "processed"}
    BY <1>3, OtherMoves, TakeMoves
  <2> QED BY <2>1 DEF KeptInv, decoder
<1>4. ASSUME NEW c \in Callers, Calls(c) \/ Continues(c) PROVE KeptInv'
  <2>1. /\ UNCHANGED <<stream, handler, current, processed>> /\ decoder' = decoder
        /\ \A w \in 1 .. next : kind'[w] = kind[w]
        /\ pending' \subseteq pending
    BY <1>4, ClientMoves DEF decoder
  <2>2. \A v \in pending : v \in 1 .. next
    BY HeldProperty DEF Held
  <2>3. handler \in {"sending", "processed"} => current \in 1 .. next
    <3>1. handler \in {"sending", "processed"} => current \in InHand
      BY BoundsAssumption DEF AccountInv, HandsFull, InHand, Processing, NoEntry, Entries
    <3> QED BY <3>1, HeldProperty DEF Held
  <2> QED BY <2>1, <2>2, <2>3 DEF KeptInv, IsMark
<1> QED BY <1>1, <1>2, <1>3, <1>4 DEF Next, HandleMessage, WorkStep, OtherStep

\* What a drain has forgotten stays forgotten until the component is emptied.
LEMMA ForgottenStays ==
  ASSUME TypeOK, AccountInv, Forgotten, cleared' = cleared, next' \in Nat, next <= next',
         \A w \in 1 .. next : kind'[w] = kind[w],
         \A q \in queue' : q \in queue \/ q = next + 1,
         \A h \in InHand' : h \in InHand \cup queue
  PROVE  Forgotten'
<1>1. PICK u \in cleared + 1 .. next : /\ kind[u] = "drainEos" /\ \A q \in queue : u < q
                                       /\ \A h \in InHand : u <= h
  BY DEF Forgotten
<1>2. cleared \in Nat /\ next \in Nat /\ queue \in SUBSET Nat /\ u \in 1 .. next
  BY <1>1, BoundsAssumption DEF TypeOK, Entries
<1>3. u \in cleared' + 1 .. next' /\ kind'[u] = "drainEos"
  BY <1>1, <1>2
<1>4. ASSUME NEW q \in queue' PROVE u < q
  <2>1. CASE q \in queue
    BY <1>1, <2>1
  <2>2. CASE q = next + 1
    <3>1. u < next + 1
      BY <1>2
    <3> QED BY <2>2, <3>1
  <2> QED BY <2>1, <2>2
<1>5. \A q \in queue : u <= q
  BY <1>1, <1>2
<1>6. \A h \in InHand' : u <= h
  BY <1>1, <1>5
<1> QED BY <1>3, <1>4, <1>6 DEF Forgotten

\* A round of the loop that sends output takes the first note off, and gives its work
\* back if it is pending.
LEMMA NotedSend ==
  ASSUME TypeOK, AccountInv, NotedInv, SendFrames \/ SendWithoutBlock \/ SendRest,
         left <= stream.failures, Fine', Forgotten => Forgotten'
  PROVE  NotedInv'
<1> DEFINE w == Head(codec.infos).work
<1>1. codec \in GoodCodecs /\ codec.infos \in Seq(Infos)
  BY CodecType, GoodFields
<1>2. /\ UNCHANGED <<stream, kind, current, cleared>> /\ handler = "sending"
      /\ handler' = "sending" /\ IsMark' = IsMark
  <2>1. WorkStep
    BY DEF WorkStep
  <2>2. handler = "sending" /\ handler' = "sending"
    BY DEF SendFrames, SendWithoutBlock, SendRest, Sending, SendStep
  <2> QED BY <2>1, <2>2, WorkMoves DEF IsMark
<1>3. decoder = "aac" /\ left' = stream.failures
  BY <1>2 DEF Fine, decoder, NothingFailed
<1>4. codec.infos # <<>>
  <2>1. SendRest => Len(codec.infos) > 1
    BY DEF SendRest, WorksWait
  <2>2. codec.infos = <<>> => Len(codec.infos) = 0
    BY <1>1, EmptySeq
  <2>3. ~SendWithoutBlock
    <3>1. left \in Nat /\ stream.failures \in Nat
      BY StreamType DEF TypeOK
    <3> QED BY <1>3, <3>1 DEF SendWithoutBlock
  <2>4. SendFrames => codec.infos # <<>>
    BY <1>3 DEF SendFrames, Sending, MaySend, AacMaySend
  <2> QED BY <2>1, <2>2, <2>3, <2>4
<1>5. codec'.infos = Tail(codec.infos) /\ codec'.error = codec.error /\ left' = left
  <2>1. CASE SendFrames
    BY <1>1, <1>3, <1>4, <2>1, AacNotes DEF SendFrames, Sent
  <2>2. CASE SendRest
    <3>1. codec \in Codecs /\ codec' = [codec EXCEPT !.infos = Tail(codec.infos)] /\ left' = left
      BY <1>1, <2>2, GoodFields DEF SendRest
    <3> QED BY <3>1 DEF Codecs
  <2>3. CASE SendWithoutBlock
    <3>1. left \in Nat /\ stream.failures \in Nat
      BY StreamType DEF TypeOK
    <3> QED BY <1>3, <2>3, <3>1 DEF SendWithoutBlock
  <2> QED BY <2>1, <2>2, <2>3
<1>6. Fine
  BY <1>2, <1>3, <1>5 DEF Fine, NothingFailed
<1>7. FillIn(w)
  BY DEF SendFrames, SendWithoutBlock, SendRest
<1>8. /\ Works(codec.infos) = Works(codec'.infos) \cup {w}
      /\ codec'.infos # <<>> => LastWork(codec'.infos) = LastWork(codec.infos)
  BY <1>1, <1>4, <1>5, WorksOfNotes
<1> HIDE DEF w
<1>9. current \notin pending
  BY WorkMoves DEF WorkStep, AccountInv, WorkAccounting
<1>10. w \notin pending' /\ pending' \subseteq pending
  BY <1>7, <1>9 DEF FillIn
<1>11. \A v \in pending' : Remembered(v)'
  <2>1. ASSUME NEW v \in pending' PROVE Remembered(v)'
    <3>1. v <= cleared \/ v \in Works(codec.infos) \/ Forgotten
      BY <1>6, <1>10, <2>1 DEF NotedInv, Remembered
    <3>2. v # w
      BY <1>10, <2>1
    <3> QED BY <1>2, <1>8, <3>1, <3>2 DEF Remembered
  <2> QED BY <2>1
<1>12. ~IsMark /\ codec'.infos # <<>> => LastWork(codec'.infos) = current
  BY <1>2, <1>4, <1>6, <1>8 DEF NotedInv
<1>13. ~IsMark /\ ~processed' => current \in Works(codec'.infos)
  <2>1. ASSUME ~IsMark, ~processed' PROVE w # current /\ ~processed
    BY <1>7, <2>1 DEF FillIn
  <2> QED BY <1>2, <1>6, <1>8, <2>1 DEF NotedInv
<1> QED BY <1>2, <1>11, <1>12, <1>13 DEF NotedInv

\* process() notes its work behind the others, or needs no note for it.
LEMMA NotedProcess ==
  ASSUME TypeOK, AccountInv, NotedInv, ProcessWork, left <= stream.failures, Fine',
         Forgotten => Forgotten'
  PROVE  NotedInv'
<1>1. codec \in GoodCodecs /\ codec.infos \in Seq(Infos)
  BY CodecType, GoodFields
<1>2. /\ UNCHANGED <<stream, kind, current, cleared, pending>> /\ IsMark' = IsMark
      /\ current \in Entries /\ decoder = "aac" /\ left' = stream.failures /\ ~codec'.error
  <2>1. WorkStep
    BY DEF WorkStep
  <2>2. pending' = pending
    BY DEF ProcessWork, CodecStep, queueVars
  <2> QED BY <2>1, <2>2, WorkMoves DEF IsMark, Fine, decoder, NothingFailed
<1>3. PICK r \in Process(decoder, codec, kind[current], current) :
        /\ left >= r.faults /\ left' = left - r.faults /\ codec' = r.codec
        /\ processed' = (r.how = "processed" \/ decoder # "aac")
        /\ handler' = "sending" => r.how = "send"
        /\ handler' = "processed" => r.how \notin {"send", "broken", "failed"}
  BY ProcessWorkSteps
<1>4. r \in AacProcess(codec, kind[current], current)
  BY <1>2, <1>3, Zenon DEF Process
<1>5. r.faults = 0 /\ left' = left
  <2>1. r.faults \in Nat /\ left \in Nat /\ stream.failures \in Nat
    BY <1>1, <1>2, <1>4, AacProcessGood, StreamType DEF GoodResult, TypeOK
  <2> QED BY <1>2, <1>3, <2>1
<1>6. /\ ~codec.error
      /\ \/ /\ r.how \in {"processed", "broken"} /\ codec'.infos = codec.infos
            /\ r.how = "processed" => kind[current] = "csd"
         \/ /\ r.how = "send" \/ (r.how = "waits" /\ kind[current] \notin EosKinds)
            /\ \E x \in Infos : x.work = current /\ codec'.infos = Append(codec.infos, x)
  BY <1>1, <1>2, <1>3, <1>4, <1>5, AacNotesWork
<1>7. Fine
  BY <1>2, <1>5, <1>6 DEF Fine, NothingFailed
<1>8. \A v \in pending : Remembered(v)
  BY <1>7 DEF NotedInv
<1>9. CASE r.how \in {"processed", "broken"} /\ codec'.infos = codec.infos
           /\ (r.how = "processed" => kind[current] = "csd")
  <2>1. \A v \in pending' : Remembered(v)'
    BY <1>2, <1>8, <1>9 DEF Remembered
  <2>2. handler' # "sending" /\ (handler' = "processed" => processed' /\ kind[current] # "eos")
    BY <1>3, <1>9
  <2> QED BY <1>2, <2>1, <2>2 DEF NotedInv
<1>10. CASE /\ r.how = "send" \/ (r.how = "waits" /\ kind[current] \notin EosKinds)
            /\ \E x \in Infos : x.work = current /\ codec'.infos = Append(codec.infos, x)
  <2>1. Works(codec'.infos) = Works(codec.infos) \cup {current} /\ LastWork(codec'.infos) = current
    BY <1>1, <1>10, WorksOfNotes
  <2>2. \A v \in pending' : Remembered(v)'
    BY <1>2, <1>8, <2>1 DEF Remembered
  <2>3. handler' = "processed" => kind[current] # "eos"
    BY <1>3, <1>10 DEF EosKinds
  <2> QED BY <1>2, <2>1, <2>2, <2>3 DEF NotedInv
<1> QED BY <1>6, <1>9, <1>10

\* At the end of the stream the notes are dropped: at most that of the work in hand is
\* left, or a drain forgets the work.
LEMMA NotedEnds ==
  ASSUME TypeOK, AccountInv, InOrder, NotedInv, SendEnds, Fine', Forgotten => Forgotten'
  PROVE  NotedInv'
<1>1. codec \in GoodCodecs /\ codec.infos \in Seq(Infos)
  BY CodecType, GoodFields
<1>2. /\ UNCHANGED <<stream, kind, current, cleared, pending, queue, next>> /\ IsMark' = IsMark
      /\ current \in Entries /\ InHand = {current} /\ decoder' = decoder
  <2>1. WorkStep
    BY DEF WorkStep
  <2>2. pending' = pending
    BY DEF SendEnds, CodecStep, queueVars
  <2> QED BY <2>1, <2>2, WorkMoves DEF IsMark, decoder
<1>3. /\ handler = "sending" /\ left' = left
      /\ codec' = (IF AtEnd THEN NoInfos(codec) ELSE codec)
      /\ processed' = (processed \/ AtEnd)
      /\ AtEnd => ~(Len(codec.infos) > 1)
      /\ IF IsMark THEN handler' = "done" ELSE handler' = "processed"
  BY DEF SendEnds, WorksWait, Gone
<1>4. Fine
  BY <1>1, <1>2, <1>3, AacNotes DEF Fine, NothingFailed
<1>5. \A v \in pending : Remembered(v)
  BY <1>4 DEF NotedInv
<1>6. CASE ~AtEnd
  <2>1. codec' = codec /\ (processed' => processed) /\ kind[current] # "eos"
    <3>1. codec' = codec /\ (processed' => processed)
      BY <1>3, <1>6
    <3>2. kind[current] # "eos"
      BY <1>6 DEF AtEnd, EosKinds
    <3> QED BY <3>1, <3>2
  <2>2. \A v \in pending' : Remembered(v)'
    BY <1>2, <1>5, <2>1 DEF Remembered
  <2> QED BY <1>2, <1>3, <1>4, <2>1, <2>2 DEF NotedInv
<1>7. CASE AtEnd
  <2>1. codec'.infos = <<>> /\ processed' /\ handler' # "sending"
    BY <1>1, <1>3, <1>7, AacNotes
  <2>2. ASSUME NEW v \in pending PROVE v <= cleared \/ Forgotten'
    <3>1. v < current /\ v # current /\ v \in 1 .. next /\ current \in 1 .. next
      <4>1. v \in Held /\ current \in Held /\ v \in Entries
        BY <1>2 DEF Held, TypeOK
      <4>2. v < current
        BY <1>2 DEF InOrder
      <4>3. v # current
        BY <1>2 DEF AccountInv, WorkAccounting
      <4> QED BY <1>2, <4>1, <4>2, <4>3, HeldProperty
    <3>2. CASE ~IsMark
      <4>1. Len(codec.infos) <= 1
        BY <1>1, <1>3, <1>7, LenProperties
      <4>2. v \notin Works(codec.infos)
        <5>1. v \in Works(codec.infos) => v = LastWork(codec.infos) /\ codec.infos # <<>>
          BY <1>1, <4>1, WorksOfNotes
        <5> QED BY <1>3, <1>4, <3>1, <3>2, <5>1 DEF NotedInv
      <4> QED BY <1>5, <4>2 DEF Remembered
    <3>3. CASE IsMark
      <4>1. kind[current] = "drainEos" /\ InHand' = {}
        <5>1. kind[current] = "drainEos"
          BY <1>7, <3>3 DEF AtEnd, IsMark, EosKinds
        <5>2. handler' = "done"
          BY <1>3, <3>3
        <5> QED BY <5>1, <5>2 DEF InHand, Processing
      <4>2. cleared \in Nat /\ next \in Nat
        BY BoundsAssumption DEF TypeOK
      <4>3. v <= cleared \/ current \in cleared + 1 .. next
        BY <3>1, <4>2
      <4>4. \A q \in queue' : current < q
        BY <1>2 DEF InOrder
      <4> QED BY <1>2, <4>1, <4>3, <4>4 DEF Forgotten
    <3> QED BY <3>2, <3>3
  <2>3. \A v \in pending' : Remembered(v)'
    BY <1>2, <2>2 DEF Remembered
  <2> QED BY <2>1, <2>3 DEF NotedInv
<1> QED BY <1>6, <1>7

\* The notes of an AAC decoder, from step to step.
LEMMA NotedStep ==
  ASSUME TypeOK, AccountInv, OneStateCall, MessagesInv, RunInv, NEW c, Callers = {c},
         EosInv(c), [Next]_vars
  PROVE  NotedInv'
<1> USE DEF clientVars, queueVars, handlerVars, entryVars
<1>1. CASE Done \/ UNCHANGED vars
  <2>1. UNCHANGED vars
    BY <1>1 DEF Done
  <2>2. Forgotten' <=> Forgotten
    BY <2>1 DEF vars, Forgotten, InHand, Processing
  <2> QED BY <2>1, <2>2 DEF vars, EosInv, NotedInv, Remembered, IsMark, Fine, NothingFailed, decoder
<1>2. codec \in GoodCodecs /\ left \in Nat /\ left <= stream.failures
      /\ next \in Nat /\ cleared \in Nat
  BY CodecType, BoundsAssumption DEF TypeOK, RunInv
<1>3. NotedInv /\ \A w \in Held : w \in 1 .. next
  BY HeldProperty DEF EosInv
<1>4. SUFFICES ASSUME Fine' PROVE NotedInv'
  BY DEF NotedInv
<1>5. CASE WorkStep
  <2>1. /\ UNCHANGED <<stream, cleared, queue, next, kind, current>>
        /\ InHand = {current} /\ InHand' \subseteq InHand /\ IsMark' = IsMark
    BY <1>5, WorkMoves DEF IsMark
  <2>2. Forgotten => Forgotten'
    BY <1>2, <2>1, ForgottenStays
  <2>3. CASE Drain
    <3>1. decoder = "aac" /\ UNCHANGED <<pending, left>> /\ codec' = DrainDecoder(codec)
          /\ handler' = "sending" /\ IsMark
      BY <1>4, <2>1, <2>3 DEF Fine, decoder, Drain, DrainedCodec, CodecStep
    <3>2. codec'.infos = codec.infos /\ Fine
      BY <1>2, <1>4, <2>1, <3>1, AacNotes DEF Fine, NothingFailed
    <3>3. \A v \in pending' : Remembered(v)'
      BY <1>3, <2>1, <2>2, <3>1, <3>2 DEF NotedInv, Remembered
    <3> QED BY <2>1, <3>1, <3>3 DEF NotedInv
  <2>4. CASE NoPool
    <3>1. left' = left - 1 /\ left' = stream.failures
      BY <1>4, <2>1, <2>4 DEF NoPool, Fine, NothingFailed
    <3>2. stream.failures \in Nat
      BY StreamType
    <3> QED BY <1>2, <3>1, <3>2
  <2>5. CASE Dispose
    <3>1. UNCHANGED <<left, codec>> /\ handler = "processed" /\ handler' = "done"
      BY <2>5 DEF Dispose
    <3>2. Fine
      BY <1>4, <2>1, <3>1 DEF Fine, NothingFailed, decoder
    <3>3. pending' \subseteq pending \/ (~processed /\ pending' = pending \cup {current})
      BY <1>5, WorkMoves
    <3>4. ~IsMark /\ (~processed => current \in Works(codec.infos))
      BY <1>3, <3>1, <3>2 DEF NotedInv, EosInv, KeptInv
    <3>5. \A v \in pending' : Remembered(v)'
      BY <1>3, <2>1, <2>2, <3>1, <3>2, <3>3, <3>4 DEF NotedInv, Remembered
    <3> QED BY <3>1, <3>5 DEF NotedInv
  <2> QED BY <1>2, <1>3, <1>4, <1>5, <2>2, <2>3, <2>4, <2>5, NotedSend, NotedProcess, NotedEnds
          DEF WorkStep, EosInv
<1>6. CASE OtherStep
  <2>1. /\ UNCHANGED <<stream, cleared, queue, pending, next, kind>>
        /\ InHand = {} /\ InHand' = {} /\ handler' \notin {"taken", "sending", "processed"}
    BY <1>6, OtherMoves
  <2>2. decoder = "aac"
    BY <1>4, <2>1 DEF Fine, decoder
  <2>3. SUFFICES \A v \in pending : v <= cleared \/ v \in Works(codec'.infos) \/ Forgotten'
    BY <2>1 DEF NotedInv, Remembered
  <2>4. Forgotten => Forgotten'
    BY <1>2, <2>1, ForgottenStays
  <2>5. ASSUME codec'.infos = codec.infos, codec'.error = codec.error, left' <= left
        PROVE  \A v \in pending : v <= cleared \/ v \in Works(codec'.infos) \/ Forgotten'
    <3>1. left' = stream.failures /\ stream.failures \in Nat
      BY <1>4, <2>1, StreamType DEF Fine, NothingFailed
    <3>2. left = stream.failures
      BY <1>2, <2>5, <3>1
    <3>3. Fine
      BY <1>4, <2>2, <2>5, <3>2 DEF Fine, NothingFailed
    <3> QED BY <1>3, <2>4, <2>5, <3>3 DEF NotedInv, Remembered
  <2>6. CASE OnStart \/ ProcessNothing \/ GoOn
    BY <1>2, <2>5, <2>6 DEF OnStart, ProcessNothing, GoOn
  <2>7. CASE OnRelease
    <3>1. codec' = [codec EXCEPT !.open = FALSE] /\ left' = left
      BY <2>2, <2>7, Zenon DEF OnRelease, Released
    <3>2. codec'.infos = codec.infos /\ codec'.error = codec.error
      BY <1>2, <3>1 DEF GoodCodecs, Codecs
    <3> QED BY <1>2, <2>5, <3>1, <3>2
  <2>8. CASE OnInit
    <3>1. PICK r \in AacInit(codec) : Returns(r)
      BY <2>2, <2>8, Zenon DEF OnInit, SetUp
    <3>2. codec' = r.codec /\ left' <= left
      <4>1. r \in SetUp(decoder, codec)
        BY <2>2, <3>1, Zenon DEF SetUp
      <4>2. GoodResult(r)
        BY <1>2, <4>1, CallbackGood
      <4> QED BY <1>2, <2>1, <3>1, <4>2, ReturnsLeft
    <3> QED BY <1>2, <2>5, <3>1, <3>2, AacInitNotes
  <2>9. CASE OnStop \/ OnReset
    <3>1. /\ Head(messages).from = c
          /\ pc[c] \in {"stopWait", "resetWait"}
      <4>1. Dispatched /\ (Handles("stop") \/ Handles("reset"))
        BY <2>9 DEF OnStop, OnReset, HandlerStep
      <4>2. /\ Head(messages).from \in Callers
            /\ pc[Head(messages).from] \in {WaitPlace("stop"), WaitPlace("reset")}
        BY <4>1, Answered DEF Awaited
      <4> QED BY <4>2 DEF WaitPlace
    <3>2. next = cleared
      BY <3>1 DEF EosInv, ClearedInv
    <3> QED BY <1>2, <1>3, <3>2 DEF Held
  <2> QED BY <1>6, <2>6, <2>7, <2>8, <2>9 DEF OtherStep
<1>7. CASE Take
  <2>1. /\ UNCHANGED <<stream, cleared, pending, next, kind, left>>
        /\ InHand' = {current'} /\ handler' = "taken"
        /\ current' \in queue /\ queue' = queue \ {current'}
        /\ codec' = IF flush THEN FlushedCodec(decoder, codec) ELSE codec
    BY <1>7, TakeMoves
  <2>2. decoder = "aac"
    BY <1>4, <2>1 DEF Fine, decoder
  <2>3. SUFFICES \A v \in pending : v <= cleared \/ v \in Works(codec'.infos) \/ Forgotten'
    BY <2>1 DEF NotedInv, Remembered
  <2>4. CASE flush
    BY <2>4 DEF EosInv, FlushInv
  <2>5. CASE ~flush
    <3>1. codec' = codec /\ Fine
      BY <1>4, <2>1, <2>2, <2>5 DEF Fine, NothingFailed
    <3>2. Forgotten => Forgotten'
      BY <1>2, <2>1, ForgottenStays
    <3> QED BY <1>3, <3>1, <3>2 DEF NotedInv, Remembered
  <2> QED BY <2>4, <2>5
<1>8. CASE Calls(c) \/ Continues(c)
  <2>1. /\ UNCHANGED <<stream, codec, handler, current, processed, left>> /\ InHand' = InHand
        /\ \A w \in 1 .. next : kind'[w] = kind[w]
    BY <1>8, ClientMoves
  <2>2. Fine
    BY <1>4, <2>1 DEF Fine, NothingFailed, decoder
  <2>3. handler \in {"sending", "processed"} => kind'[current] = kind[current]
    <3>1. handler \in {"sending", "processed"} => current \in InHand
      BY BoundsAssumption DEF AccountInv, HandsFull, InHand, Processing, NoEntry, Entries
    <3> QED BY <1>3, <2>1, <3>1 DEF Held
  <2>4. \A v \in pending' : Remembered(v)'
    <3>1. CASE pending' = {}
      BY <3>1
    <3>2. CASE /\ UNCHANGED <<pending, cleared>>
               /\ \/ UNCHANGED <<queue, next>>
                  \/ queue' = queue \cup {next + 1} /\ next' = next + 1
      <4>1. Forgotten => Forgotten'
        BY <1>2, <2>1, <3>2, ForgottenStays
      <4> QED BY <1>3, <2>1, <2>2, <3>2, <4>1 DEF NotedInv, Remembered
    <3> QED BY <1>8, <3>1, <3>2, ClientMoves
  <2> QED BY <1>3, <2>1, <2>2, <2>3, <2>4 DEF NotedInv, IsMark
<1> QED BY <1>1, <1>5, <1>6, <1>7, <1>8 DEF Next, HandleMessage, WorkStep, OtherStep

\* To a single client the end of a stream is given back after every earlier work of the
\* stream, as long as nothing failed: none waits for sound that will not come.
THEOREM NothingIsLeft ==
  ASSUME NEW only, Callers = {only}
  PROVE  Spec => EosLeavesNothing
<1>1. OneStateCall
  BY DEF OneStateCall
<1>2. Init => EosInv(only)
  BY DEF Init, EosInv, InOrder, FlushInv, ClearedInv, KeptInv, NotedInv, NewCodec
<1>3. TypeOK /\ AccountInv /\ CodecInv /\ EosInv(only) /\ [Next]_vars => EosInv(only)'
  BY <1>1, OrderStep, FlushInvStep, ClearedStep, KeptStep, NotedStep DEF EosInv, CodecInv
<1>4. TypeOK /\ AccountInv /\ EosInv(only) /\ [Next]_vars =>
        [\A w \in cleared + 1 .. next :
           answer[w] = "none" /\ answer'[w] = "ok" /\ kind[w] = "eos"
             /\ NothingFailed /\ ~codec.error
             /\ (\A v \in cleared + 1 .. w : kind[v] # "drainEos")
           => \A v \in cleared + 1 .. w : answer'[v] # "none"]_vars
  <2>1. SUFFICES ASSUME TypeOK, AccountInv, EosInv(only), Next,
                        NEW w \in cleared + 1 .. next,
                        answer[w] = "none", answer'[w] = "ok", kind[w] = "eos",
                        NothingFailed, ~codec.error,
                        \A v \in cleared + 1 .. w : kind[v] # "drainEos",
                        NEW v \in cleared + 1 .. w
                 PROVE  answer'[v] # "none"
    OBVIOUS
  <2>2. /\ cleared \in Nat /\ next \in Nat /\ next <= MaxEntries /\ MaxEntries \in Nat
        /\ w \in Entries /\ w \in 1 .. next /\ v \in Entries /\ v \in 1 .. next
        /\ v <= w /\ v > cleared /\ w # NoEntry
    BY <2>1, BoundsAssumption DEF TypeOK, Entries, NoEntry
  <2>3. \A S, how : answer' = Answer(S, how) => how = "ok" /\ w \in S
    BY <2>1, <2>2 DEF Answer
  <2>4. answer' # answer
    BY <2>1
  <2>5. w \notin pending
    BY <2>1 DEF EosInv, KeptInv
  <2>6. Dispose /\ processed /\ w = current /\ handler = "processed" /\ answer' = Answer({current}, "ok")
    <3> USE DEF clientVars, queueVars, handlerVars, entryVars
    <3>1. IsMark => w # current
      BY <2>1 DEF IsMark
    <3>2. ASSUME NEW c \in Callers, Calls(c) \/ Continues(c) PROVE FALSE
      <4>1. CASE FlushTake(c) \/ Clear(c)
        BY <2>3, <4>1 DEF FlushTake, Clear
      <4>2. CASE \/ StartCheck(c) \/ QueueCheck(c) \/ FlushCheck(c) \/ StopCheck(c) \/ ResetCall(c)
                 \/ ReleaseCall(c) \/ StartPost(c) \/ StartReturn(c) \/ QueuePost(c)
                 \/ FlushReturn(c) \/ ClearPost(c) \/ \E k \in stream.kinds : QueuePush(c, k)
        BY <2>4, <4>2 DEF StartCheck, QueueCheck, FlushCheck, StopCheck, ResetCall, ReleaseCall,
             StartPost, StartReturn, QueuePost, FlushReturn, ClearPost, QueuePush, Passes, Posts,
             SetState
      <4> QED BY <3>2, <4>1, <4>2 DEF Calls, Continues
    <3>3. ~(OtherStep \/ Take \/ Done)
      BY <2>4 DEF OtherStep, OnInit, OnStart, OnStop, OnReset, OnRelease, ProcessNothing, GoOn,
         HandlerStep, Take, Done, vars
    <3>4. ~(NoPool \/ Drain \/ SendEnds)
      <4>1. CASE Gone("lost") \/ (Gone("ok") /\ IsMark)
        BY <2>3, <3>1, <4>1 DEF Gone
      <4> QED BY <2>4, <4>1 DEF NoPool, Drain, SendEnds
    <3>5. ~ProcessWork
      <4>1. ProcessWork => answer' = answer \/ Gone("lost")
        BY Zenon DEF ProcessWork
      <4> QED BY <2>3, <2>4, <4>1 DEF Gone
    <3>6. ~(SendFrames \/ SendWithoutBlock \/ SendRest)
      <4>1. ASSUME NEW u, FillIn(u) PROVE FALSE
        BY <2>3, <2>4, <2>5, <4>1 DEF FillIn
      <4> QED BY <4>1 DEF SendFrames, SendWithoutBlock, SendRest
    <3>7. Dispose
      BY <2>1, <3>2, <3>3, <3>4, <3>5, <3>6 DEF Next, HandleMessage, OtherStep
    <3> QED BY <2>3, <2>4, <3>7 DEF Dispose
  <2>7. InHand = {w} /\ \A q \in queue : w < q
    <3>1. InHand = {w}
      BY <2>2, <2>6 DEF InHand, Processing
    <3> QED BY <2>1, <3>1 DEF EosInv, InOrder
  <2>8. \A p \in pending : p <= cleared
    <3>1. CASE decoder # "aac"
      BY <2>1, <3>1 DEF EosInv, KeptInv
    <3>2. CASE decoder = "aac"
      <4>1. Fine /\ codec.infos = <<>>
        BY <2>1, <2>6, <3>2 DEF Fine, EosInv, NotedInv
      <4>2. Works(codec.infos) = {}
        BY <4>1, EmptySeq, WorksOfNotes
      <4>3. ~Forgotten
        <5>1. ASSUME NEW u \in cleared + 1 .. next, kind[u] = "drainEos", \A h \in InHand : u <= h
              PROVE  FALSE
          <6>1. u \in cleared + 1 .. w
            BY <2>2, <2>7, <5>1
          <6> QED BY <2>1, <5>1, <6>1
        <5> QED BY <5>1 DEF Forgotten
      <4> QED BY <2>1, <4>1, <4>2, <4>3 DEF EosInv, NotedInv, Remembered
    <3> QED BY <3>1, <3>2
  <2>9. answer[v] # "none" \/ v = w
    <3>1. v \in Held => v = w
      BY <2>2, <2>7, <2>8 DEF Held
    <3> QED BY <2>1, <2>2, <3>1, HeldProperty
  <2> QED BY <2>1, <2>2, <2>6, <2>9 DEF Answer
<1> QED BY <1>1, <1>2, <1>3, <1>4, Invariants, CodecKept, PTL DEF Spec, EosLeavesNothing
=============================================================================
