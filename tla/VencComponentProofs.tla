------------------------ MODULE VencComponentProofs ------------------------
(***************************************************************************)
(* Proofs about VencComponent, for every encoder, set of client threads    *)
(* and number of works: type correctness; what the library is told, and    *)
(* the level of the interface; where works are, although flush_sm takes no *)
(* lock; the contract; the order of pictures; why works are lost; the end  *)
(* of the stream, the codec specific data and the sync frames; and that a  *)
(* client that does not flush never breaks it.                             *)
(***************************************************************************)
EXTENDS VencComponent, WorkDequeProofs, SequenceTheorems

-----------------------------------------------------------------------------
(* Parameters.                                                              *)

Types == {"I", "P"}
Layers == UNION {[1 .. n -> [type : Types, min : Int, max : Int]] : n \in Nat}
LegalQps == CodecQpMin .. CodecQpMax
LegalLayers == UNION {[1 .. n -> [type : Types, min : LegalQps, max : LegalQps]] : n \in Nat}

\* Parameters whose bitrate and quantization the library takes.
Legal(e, p) ==
  /\ p = [width |-> p.width, height |-> p.height, rate |-> p.rate, bitrate |-> p.bitrate,
          level |-> p.level, qp |-> p.qp]
  /\ p.bitrate \in Nat /\ p.bitrate >= MinBitrate(e)
  /\ p.qp \in LegalLayers

\* The last layer of a type is one of them, and of that type.
LEMMA LastLayer ==
  ASSUME NEW layers \in Layers, NEW type, NEW default,
         NEW i \in DOMAIN layers, layers[i].type = type
  PROVE  \E j \in DOMAIN layers : QpRange(layers, type, default) = layers[j]
<1> DEFINE of == {j \in DOMAIN layers : layers[j].type = type}
<1>1. PICK n \in Nat : DOMAIN layers = 1 .. n
  BY DEF Layers
<1>2. of \in SUBSET (0 .. n) /\ of # {}
  BY <1>1
<1>3. Back(of) \in of
  <2> HIDE DEF of
  <2> QED BY <1>1, <1>2, BackProperty
<1>4. QpRange(layers, type, default) = layers[Back(of)]
  BY <1>2 DEF QpRange, Back
<1> QED BY <1>3, <1>4

\* A clamped number is in its range.
LEMMA ClampProperty ==
  ASSUME NEW n \in Int
  PROVE  ClampQp(n) \in LegalQps
BY DEF ClampQp, Clamp, LegalQps, CodecQpMin, CodecQpMax

\* The layers the setter leaves are legal, whatever the client set.
LEMMA SetterIsLegal ==
  ASSUME NEW layers \in Layers
  PROVE  PictureQuantizationSetter(layers) \in LegalLayers
<1>1. PICK n \in Nat : layers \in [1 .. n -> [type : Types, min : Int, max : Int]]
  BY DEF Layers
<1>2. ASSUME NEW i \in 1 .. n
      PROVE  PictureQuantizationSetter(layers)[i] \in [type : Types, min : LegalQps, max : LegalQps]
  <2> DEFINE range == QpRange(layers, layers[i].type, layers[i])
  <2>1. PICK j \in 1 .. n : range = layers[j]
    BY <1>1, LastLayer
  <2>2. ClampQp(range.min) \in LegalQps /\ ClampQp(range.max) \in LegalQps
    BY <1>1, <2>1, ClampProperty
  <2>3. PictureQuantizationSetter(layers)[i]
          = [layers[i] EXCEPT !.min = ClampQp(range.min), !.max = ClampQp(range.max)]
    BY <1>1 DEF PictureQuantizationSetter
  <2> HIDE DEF range
  <2> QED BY <1>1, <2>2, <2>3
<1>3. PictureQuantizationSetter(layers) = [i \in 1 .. n |-> PictureQuantizationSetter(layers)[i]]
  BY <1>1 DEF PictureQuantizationSetter
<1>4. PictureQuantizationSetter(layers)
        \in [1 .. n -> [type : Types, min : LegalQps, max : LegalQps]]
  BY <1>2, <1>3
<1> QED BY <1>4 DEF LegalLayers

\* What the library is told of legal layers is in its range.
LEMMA LegalQp ==
  ASSUME NEW layers \in LegalLayers, NEW type
  PROVE  GetQp(layers, type).min \in LegalQps /\ GetQp(layers, type).max \in LegalQps
<1>1. PICK n \in Nat : layers \in [1 .. n -> [type : Types, min : LegalQps, max : LegalQps]]
  BY DEF LegalLayers
<1>2. LegalQps \subseteq Int
  BY DEF LegalQps, CodecQpMin, CodecQpMax
<1>3. layers \in Layers
  <2>1. layers \in [1 .. n -> [type : Types, min : Int, max : Int]]
    BY <1>1, <1>2
  <2> QED BY <2>1 DEF Layers
<1>4. CASE \E i \in DOMAIN layers : layers[i].type = type
  <2>1. PICK j \in DOMAIN layers : QpRange(layers, type, DefaultQp) = layers[j]
    BY <1>3, <1>4, LastLayer
  <2> QED BY <1>1, <2>1 DEF GetQp
<1>5. CASE ~(\E i \in DOMAIN layers : layers[i].type = type)
  <2>1. QpRange(layers, type, DefaultQp) = DefaultQp
    BY <1>5 DEF QpRange
  <2> QED BY <2>1 DEF GetQp, DefaultQp, LegalQps, CodecQpMin, CodecQpMax
<1> QED BY <1>4, <1>5

\* The setter of the level leaves the rest alone, and so do those of size and rate.
LEMMA SettersLegal ==
  ASSUME NEW e, NEW p, Legal(e, p)
  PROVE  /\ \A w, h : Legal(e, SetSize(e, p, w, h))
         /\ \A r : Legal(e, SetRate(e, p, r))
         /\ \A b \in Nat : Legal(e, SetBitrate(e, p, b))
         /\ \A l : Legal(e, SetLevel(e, p, l))
         /\ \A q \in Layers : Legal(e, SetQp(p, q))
<1>1. ASSUME NEW o, Legal(e, o) PROVE \A l : Legal(e, [o EXCEPT !.level = l])
  BY <1>1 DEF Legal
<1>2. ASSUME NEW o, Legal(e, o) PROVE Legal(e, WithLevel(e, o))
  BY <1>1, <1>2 DEF WithLevel
<1>3. \A w, h : Legal(e, SetSize(e, p, w, h))
  <2>1. ASSUME NEW w, NEW h PROVE Legal(e, [p EXCEPT !.width = w, !.height = h])
    <3>1. Legal(e, [p EXCEPT !.width = w])
      BY DEF Legal
    <3>2. \A o : Legal(e, o) => Legal(e, [o EXCEPT !.height = h])
      BY DEF Legal
    <3>3. [p EXCEPT !.width = w, !.height = h] = [[p EXCEPT !.width = w] EXCEPT !.height = h]
      BY DEF Legal
    <3> QED BY <3>1, <3>2, <3>3
  <2>2. \A w, h : Legal(e, SizeSetter(e, p, w, h))
    BY <2>1 DEF SizeSetter
  <2> QED BY <1>2, <2>2 DEF SetSize
<1>4. \A r : Legal(e, SetRate(e, p, r))
  <2>1. \A r : Legal(e, [p EXCEPT !.rate = r])
    BY DEF Legal
  <2> QED BY <1>2, <2>1 DEF SetRate
<1>5. \A b \in Nat : Legal(e, SetBitrate(e, p, b))
  <2>1. MinBitrate(e) \in Nat
    BY DEF MinBitrate
  <2>2. \A b \in Nat : b >= MinBitrate(e) => Legal(e, [p EXCEPT !.bitrate = b])
    BY DEF Legal
  <2>3. \A b \in Nat : Legal(e, BitrateSetter(e, p, b))
    BY <2>1, <2>2 DEF BitrateSetter
  <2> QED BY <1>2, <2>3 DEF SetBitrate
<1>6. \A l : Legal(e, SetLevel(e, p, l))
  BY <1>1, <1>2 DEF SetLevel
<1>7. \A q \in Layers : Legal(e, SetQp(p, q))
  <2>1. \A q \in LegalLayers : Legal(e, [p EXCEPT !.qp = q])
    BY DEF Legal
  <2> QED BY <2>1, SetterIsLegal DEF SetQp
<1> QED BY <1>3, <1>4, <1>5, <1>6, <1>7

\* Whatever a client sets.
LEMMA SetLegal ==
  ASSUME NEW e, NEW p, Legal(e, p), NEW q \in Set(e, p)
  PROVE  Legal(e, q)
<1>1. QpLayers \subseteq Layers
  <2>1. <<>> \in [1 .. 0 -> [type : Types, min : Int, max : Int]]
    OBVIOUS
  <2>2. \A t \in Types :
          <<[type |-> "I", min |-> 0, max |-> 30], [type |-> t, min |-> 20, max |-> 60]>>
            \in [1 .. 2 -> [type : Types, min : Int, max : Int]]
    BY DEF Types
  <2>3. SUFFICES ASSUME NEW layers \in QpLayers
                 PROVE  \E n \in Nat : layers \in [1 .. n -> [type : Types, min : Int, max : Int]]
    BY DEF Layers
  <2>4. layers = <<>> \/ \E t \in Types :
          layers = <<[type |-> "I", min |-> 0, max |-> 30], [type |-> t, min |-> 20, max |-> 60]>>
    BY DEF QpLayers, Types
  <2> QED BY <2>1, <2>2, <2>4
<1>2. Bitrates \subseteq Nat
  BY DEF Bitrates
<1>3. CASE q \in {SetSize(e, p, s[1], s[2]) : s \in Sizes}
  BY <1>3, SettersLegal
<1>4. CASE q \in {SetRate(e, p, r) : r \in Rates}
  BY <1>4, SettersLegal
<1>5. CASE q \in {SetBitrate(e, p, b) : b \in Bitrates}
  BY <1>2, <1>5, SettersLegal
<1>6. CASE q \in {SetLevel(e, p, l) : l \in Levels(e)}
  BY <1>6, SettersLegal
<1>7. CASE q \in {SetQp(p, l) : l \in QpLayers}
  BY <1>1, <1>7, SettersLegal
<1> QED BY <1>3, <1>4, <1>5, <1>6, <1>7, Zenon DEF Set

\* The parameters of a new component.
LEMMA DefaultLegal ==
  ASSUME NEW e
  PROVE  Legal(e, DefaultParams(e))
<1>1. <<>> \in LegalLayers
  <2>1. <<>> \in [1 .. 0 -> [type : Types, min : LegalQps, max : LegalQps]]
    OBVIOUS
  <2> QED BY <2>1 DEF LegalLayers
<1>2. \A w, h, l : Legal(e, Defaults(w, h, l))
  BY <1>1 DEF Defaults, Legal, MinBitrate
<1>3. \E w, h, l : DefaultParams(e) = Defaults(w, h, l)
  <2>1. \/ DefaultParams(e) = HCodecDefaults \/ DefaultParams(e) = W420Defaults
        \/ DefaultParams(e) = MultiDefaults(e) \/ DefaultParams(e) = CompDefaults(e)
    BY Zenon DEF DefaultParams
  <2> QED BY <2>1, Zenon DEF HCodecDefaults, W420Defaults, MultiDefaults, CompDefaults
<1> QED BY <1>2, <1>3

-----------------------------------------------------------------------------
(* Types, and what the library is told.                                     *)

\* The worker has a work in hand from the moment it took one until it is done with it.
Holding == worker \in {"taken", "ready", "read", "encode"} => current \in Entries

\* The parameters of the interface are legal, and so are those the library was opened with
\* and the bitrate it is about to be told.
LegalParams ==
  /\ Legal(stream.encoder, params) /\ Legal(stream.encoder, opened)
  /\ worker \in {"read", "encode"} => read.bitrate >= MinBitrate(stream.encoder)

Typed == TypeOK /\ Holding /\ LegalParams

\* What a stream is.
LEMMA StreamFields ==
  ASSUME NEW s \in Streams
  PROVE  /\ s.encoder \in AllEncoders /\ s.threads \subseteq Callers /\ s.entries \in 0 .. MaxEntries
         /\ s.kinds \subseteq AllKinds /\ s.starts \in Nat /\ s.failures \in Nat
         /\ s.requests \in Nat /\ s.settings \in Nat
BY StreamsAssumption

\* What may still happen only becomes less.
LEMMA MayProperty ==
  ASSUME TypeOK, NEW what \in {"starts", "failures", "requests", "settings"}, May(what)
  PROVE  /\ left' \in [{"starts", "failures", "requests", "settings"} -> Nat]
         /\ left'[what] = left[what] - 1 /\ left[what] > 0
         /\ \A other \in {"starts", "failures", "requests", "settings"} \ {what} :
              left'[other] = left[other]
BY DEF TypeOK, May

\* A thread goes on.
LEMMA GoToTyped ==
  ASSUME TypeOK, NEW c \in Callers, NEW place \in Places, GoTo(c, place)
  PROVE  pc' \in [Callers -> Places]
BY DEF TypeOK, GoTo

\* Works are given back.
LEMMA AnswerTyped ==
  ASSUME TypeOK, NEW S, NEW how \in Outcomes, Answer(S, how)
  PROVE  answer' \in [Entries -> Outcomes \cup {"none"}]
BY DEF TypeOK, Answer

\* The list after a push, a move out of it, and a pop.
LEMMA ListTyped ==
  ASSUME NEW q \in Seq(Entries \cup {Null})
  PROVE  /\ \A w \in Entries : Append(q, w) \in Seq(Entries \cup {Null})
         /\ q # <<>> => /\ Head(q) \in Entries \cup {Null}
                        /\ Tail(q) \in Seq(Entries \cup {Null})
                        /\ [q EXCEPT ![1] = Null] \in Seq(Entries \cup {Null})
<1> DEFINE T == Entries \cup {Null}
<1>1. \A w \in T : Append(q, w) \in Seq(T)
  BY AppendProperties
<1>2. ASSUME q # <<>> PROVE Head(q) \in T /\ Tail(q) \in Seq(T)
  BY <1>2, HeadTailProperties
<1>3. [q EXCEPT ![1] = Null] \in Seq(T)
  <2>1. Len(q) \in Nat /\ q \in [1 .. Len(q) -> T]
    BY LenProperties
  <2>2. Null \in T
    OBVIOUS
  <2> HIDE DEF T
  <2>3. [q EXCEPT ![1] = Null] \in [1 .. Len(q) -> T]
    BY <2>1, <2>2
  <2> QED BY <2>1, <2>3, IsASeq
<1> QED BY <1>1, <1>2, <1>3

\* A request is one.
LEMMA SyncTyped ==
  ASSUME sync \in Request, NEW value \in BOOLEAN, NEW s \in Sync(value)
  PROVE  s \in Request /\ s.value = value /\ s.object \in {sync.object, sync.object + 1}
BY DEF Sync, Request

\* The steps of a start.
LEMMA TypedStart ==
  ASSUME Typed, NEW c \in Callers, StartCheck(c) \/ Starting(c)
  PROVE  Typed'
<1> USE DEF Places, Positions, StartStep, outVars, entryVars, threadVars, codecVars
<1>1. CASE StartCheck(c)
  <2>1. pc' \in [Callers -> Places]
    BY <1>1, GoToTyped DEF StartCheck, Typed
  <2>2. left' \in [{"starts", "failures", "requests", "settings"} -> Nat]
    BY <1>1, MayProperty DEF StartCheck, Typed
  <2> QED BY <1>1, <2>1, <2>2 DEF StartCheck, Typed, TypeOK, Holding, LegalParams
<1>2. CASE StartInit(c)
  <2>1. pc' \in [Callers -> Places]
    BY <1>2, GoToTyped DEF StartInit, Opened, NotOpened, Typed
  <2>2. left' \in [{"starts", "failures", "requests", "settings"} -> Nat]
    BY <1>2, MayProperty DEF StartInit, Opened, NotOpened, Typed, TypeOK
  <2>3. handle' \in BOOLEAN /\ opened' \in {opened, params}
    BY <1>2 DEF StartInit, Opened, NotOpened, Typed, TypeOK
  <2> QED BY <1>2, <2>1, <2>2, <2>3 DEF StartInit, Typed, TypeOK, Holding, LegalParams
<1>3. CASE StartThread(c)
  <2>1. pc' \in [Callers -> Places]
    BY <1>3, GoToTyped DEF StartThread, Typed
  <2>2. left' \in [{"starts", "failures", "requests", "settings"} -> Nat]
    BY <1>3, MayProperty DEF StartThread, Typed, TypeOK
  <2>3. running' \in BOOLEAN /\ exit' \in BOOLEAN /\ worker' \in {"loop", "none", worker}
    BY <1>3 DEF StartThread, Typed, TypeOK
  <2>4. late' \in BOOLEAN
    BY <1>3 DEF StartThread, Typed, TypeOK
  <2> QED BY <1>3, <2>1, <2>2, <2>3, <2>4 DEF StartThread, Typed, TypeOK, Holding, LegalParams
<1>4. CASE StartRejoin(c) \/ StartReturn(c)
  <2>1. pc' \in [Callers -> Places]
    BY <1>4, GoToTyped DEF StartRejoin, StartReturn, Typed
  <2> QED BY <1>4, <2>1 DEF StartRejoin, StartReturn, Typed, TypeOK, Holding, LegalParams
<1> QED BY <1>1, <1>2, <1>3, <1>4 DEF Starting

\* The steps of a stop.
LEMMA TypedStop ==
  ASSUME Typed, NEW c \in Callers, StopCheck(c) \/ Stopping(c)
  PROVE  Typed'
<1> USE DEF Places, Positions, StopStep, entryVars, threadVars
<1>1. pc' \in [Callers -> Places]
  BY GoToTyped DEF StopCheck, Stopping, StopClear, StopAskThread, StopRequest, StopWaited,
                   StopThread, StopJoined, StopDone, Close, Typed
<1>2. CASE StopClear(c)
  <2>1. answer' \in [Entries -> Outcomes \cup {"none"}]
    BY <1>2, AnswerTyped DEF StopClear, Outcomes, Typed
  <2>2. queue' \in Seq(Entries \cup {Null})
    BY <1>2, EmptySeq DEF StopClear
  <2> QED BY <1>1, <1>2, <2>1, <2>2 DEF StopClear, Typed, TypeOK, Holding, LegalParams
<1>3. CASE StopJoined(c)
  BY <1>1, <1>3 DEF StopJoined, Typed, TypeOK, Holding, LegalParams
<1>4. CASE StopCheck(c) \/ StopAskThread(c) \/ StopRequest(c) \/ StopDone(c)
  <2>1. /\ StopStep /\ UNCHANGED <<queue, running, worker, handle, answer, late>>
    BY <1>4 DEF StopCheck, StopAskThread, StopRequest, StopDone
  <2>2. state' \in {"STARTED", "STOPPING", "UNINITIALIZED"} /\ exit' \in BOOLEAN
    BY <1>4 DEF StopCheck, StopAskThread, StopRequest, StopDone, Typed, TypeOK
  <2> QED BY <1>1, <2>1, <2>2 DEF Typed, TypeOK, Holding, LegalParams
<1>5. CASE StopWaited(c) \/ StopThread(c) \/ Close(c)
  <2>1. late' \in BOOLEAN /\ exit' \in BOOLEAN /\ handle' \in BOOLEAN
    BY <1>5 DEF StopWaited, StopThread, Close, Typed, TypeOK
  <2>2. UNCHANGED <<queue, running, worker, answer>> /\ state' = state
    BY <1>5 DEF StopWaited, StopThread, Close
  <2>3. StopStep
    BY <1>5 DEF StopWaited, StopThread, Close
  <2> QED BY <1>1, <2>1, <2>2, <2>3 DEF Typed, TypeOK, Holding, LegalParams
<1> QED BY <1>2, <1>3, <1>4, <1>5 DEF Stopping

\* queue_nb, flush_sm, and the interface.
LEMMA TypedCall ==
  ASSUME Typed, NEW c \in Callers,
         \/ FlushTest(c) \/ Flushing(c) \/ RequestSync(c) \/ Configure(c)
         \/ \E k \in stream.kinds : QueuePush(c, k)
  PROVE  Typed'
<1> USE DEF Places, Positions, FeedStep, FlushStep, entryVars, threadVars, codecVars, workerVars,
            outVars
<1>1. CASE FlushTest(c)
  <2>1. pc' \in [Callers -> Places]
    BY <1>1, GoToTyped DEF FlushTest, Typed
  <2> QED BY <1>1, <2>1 DEF FlushTest, Typed, TypeOK, Holding, LegalParams
<1>2. CASE FlushMove(c)
  <2>1. pc' \in [Callers -> Places]
    BY <1>2, GoToTyped DEF FlushMove, Typed
  <2>2. Head(queue) \in Entries \cup {Null} /\ queue' \in Seq(Entries \cup {Null})
    BY <1>2, ListTyped DEF FlushMove, Typed, TypeOK
  <2>3. hand' \in [Callers -> Entries \cup {Null}]
    BY <1>2, <2>2 DEF FlushMove, Typed, TypeOK
  <2> QED BY <1>2, <2>1, <2>2, <2>3 DEF FlushMove, Typed, TypeOK, Holding, LegalParams
<1>3. CASE FlushPop(c)
  <2>1. pc' \in [Callers -> Places]
    BY <1>3, GoToTyped DEF FlushPop, Typed
  <2>2. queue' \in Seq(Entries \cup {Null})
    BY <1>3, ListTyped DEF FlushPop, Typed, TypeOK
  <2>3. hand' \in [Callers -> Entries \cup {Null}]
    BY <1>3 DEF FlushPop, Typed, TypeOK
  <2>4. answer' \in [Entries -> Outcomes \cup {"none"}]
    BY <1>3 DEF FlushPop, FlushAnswers, Outcomes, Typed, TypeOK
  <2> QED BY <1>3, <2>1, <2>2, <2>3, <2>4 DEF FlushPop, Typed, TypeOK, Holding, LegalParams
<1>4. CASE FlushBreaks(c)
  BY <1>4 DEF FlushBreaks, Typed, TypeOK, Holding, LegalParams
<1>5. CASE RequestSync(c)
  <2>1. left' \in [{"starts", "failures", "requests", "settings"} -> Nat]
    BY <1>5, MayProperty DEF RequestSync, Typed
  <2>2. sync' \in Request
    BY <1>5, SyncTyped DEF RequestSync, Typed, TypeOK
  <2> QED BY <1>5, <2>1, <2>2 DEF RequestSync, Typed, TypeOK, Holding, LegalParams
<1>6. CASE Configure(c)
  <2>1. left' \in [{"starts", "failures", "requests", "settings"} -> Nat]
    BY <1>6, MayProperty DEF Configure, Typed
  <2>2. Legal(stream.encoder, params')
    BY <1>6, SetLegal DEF Configure, Typed, LegalParams
  <2> QED BY <1>6, <2>1, <2>2 DEF Configure, Typed, TypeOK, Holding, LegalParams, Legal
<1>7. ASSUME NEW k \in stream.kinds, QueuePush(c, k) PROVE Typed'
  <2>1. next' \in 0 .. MaxEntries /\ next + 1 \in Entries
    BY <1>7, StreamFields, BoundsAssumption DEF QueuePush, Entries, Typed, TypeOK
  <2>2. kind' \in [Entries -> AllKinds]
    BY <1>7, <2>1, StreamFields DEF QueuePush, Typed, TypeOK
  <2>3. queue' \in Seq(Entries \cup {Null})
    BY <1>7, <2>1, ListTyped DEF QueuePush, Pushed, Typed, TypeOK
  <2> QED BY <1>7, <2>1, <2>2, <2>3 DEF QueuePush, Typed, TypeOK, Holding, LegalParams
<1> QED BY <1>1, <1>2, <1>3, <1>4, <1>5, <1>6, <1>7 DEF Flushing

\* What comes with a work.
LEMMA UpdateTyped ==
  ASSUME TypeOK, ConfigUpdate
  PROVE  sync' \in Request /\ unserved' \in BOOLEAN
<1>1. CASE kind[current] = "sync"
  BY <1>1, SyncTyped DEF ConfigUpdate, TypeOK
<1>2. CASE kind[current] # "sync"
  BY <1>2 DEF ConfigUpdate, TypeOK
<1> QED BY <1>1, <1>2

\* The first work may change the size.
LEMMA ResizedLegal ==
  ASSUME NEW w, Legal(stream.encoder, params)
  PROVE  Legal(stream.encoder, Resized(w))
BY SettersLegal DEF Resized

\* A work is given back by WorkDone.
LEMMA DoneTyped ==
  ASSUME TypeOK, NEW w \in Entries, WorkDone(w)
  PROVE  answer' \in [Entries -> Outcomes \cup {"none"}] /\ eosOut' \subseteq Entries
BY AnswerTyped DEF WorkDone, Outcomes, TypeOK

\* The steps of the worker up to the picture.
LEMMA TypedTake ==
  ASSUME Typed, LoopTest \/ TakeMove \/ TakePop \/ Signal
  PROVE  Typed'
<1> USE DEF Places, Positions, WorkerStep, entryVars, threadVars, outVars
<1>1. CASE LoopTest
  BY <1>1 DEF LoopTest, Typed, TypeOK, Holding, LegalParams
<1>2. CASE TakeMove
  <2>1. /\ worker' \in {"loop", "taking"} /\ current' \in Entries \cup {Null}
        /\ queue' \in Seq(Entries \cup {Null})
    BY <1>2, ListTyped DEF TakeMove, MovedOut, Typed, TypeOK
  <2> QED BY <1>2, <2>1 DEF TakeMove, Typed, TypeOK, Holding, LegalParams
<1>3. CASE TakePop
  <2>1. queue' \in Seq(Entries \cup {Null})
    BY <1>3, ListTyped DEF TakePop, Typed, TypeOK
  <2>2. answer' \in [Entries -> Outcomes \cup {"none"}]
    BY <1>3, AnswerTyped DEF TakePop, Outcomes, Typed, TypeOK
  <2>3. worker' \in {"broken", "loop", "taken"} /\ (worker' = "taken" => current \in Entries)
    BY <1>3 DEF TakePop, Typed, TypeOK
  <2> QED BY <1>3, <2>1, <2>2, <2>3 DEF TakePop, Typed, TypeOK, Holding, LegalParams
<1>4. CASE Signal
  <2>1. pc' \in [Callers -> Places]
    BY <1>4, GoToTyped DEF Signal, Typed, TypeOK
  <2> QED BY <1>4, <2>1 DEF Signal, Typed, TypeOK, Holding, LegalParams
<1> QED BY <1>1, <1>2, <1>3, <1>4

\* The steps that look at a work.
LEMMA TypedReceive ==
  ASSUME Typed, ReceiveEmpty \/ ReceiveFails \/ ReceiveDrops \/ Receive
  PROVE  Typed'
<1> USE DEF Places, Positions, WorkerStep, ReceiveStep, entryVars, threadVars
<1>0. current \in Entries /\ TypeOK /\ LegalParams
  BY DEF ReceiveEmpty, ReceiveFails, ReceiveDrops, Receive, Typed, Holding
<1>1. sawEos' \in BOOLEAN
  BY <1>0 DEF ReceiveEmpty, ReceiveFails, ReceiveDrops, Receive, SeesEos, HasEos, TypeOK
<1>2. CASE ReceiveEmpty
  <2>1. answer' \in [Entries -> Outcomes \cup {"none"}] /\ eosOut' \subseteq Entries
    BY <1>0, <1>2, DoneTyped DEF ReceiveEmpty
  <2> QED BY <1>0, <1>1, <1>2, <2>1 DEF ReceiveEmpty, Typed, TypeOK, Holding, LegalParams
<1>3. CASE ReceiveFails
  <2>1. answer' \in [Entries -> Outcomes \cup {"none"}] /\ eosOut' \subseteq Entries
    BY <1>0, <1>3, DoneTyped DEF ReceiveFails
  <2>2. sync' \in Request /\ unserved' \in BOOLEAN
    BY <1>0, <1>3, UpdateTyped DEF ReceiveFails
  <2>3. left' \in [{"starts", "failures", "requests", "settings"} -> Nat]
    BY <1>0, <1>3, MayProperty DEF ReceiveFails, TypeOK
  <2>4. Legal(stream.encoder, params') /\ header' \in BOOLEAN
    BY <1>0, <1>3, ResizedLegal DEF ReceiveFails, TypeOK, LegalParams
  <2> QED BY <1>0, <1>1, <1>3, <2>1, <2>2, <2>3, <2>4
          DEF ReceiveFails, Typed, TypeOK, Holding, LegalParams, Legal
<1>4. CASE ReceiveDrops
  <2>1. answer' \in [Entries -> Outcomes \cup {"none"}]
    BY <1>0, <1>4, AnswerTyped DEF ReceiveDrops, Outcomes, TypeOK
  <2>2. sync' \in Request /\ unserved' \in BOOLEAN
    BY <1>0, <1>4, UpdateTyped DEF ReceiveDrops
  <2>3. left' \in [{"starts", "failures", "requests", "settings"} -> Nat]
    BY <1>0, <1>4, MayProperty DEF ReceiveDrops
  <2>4. worker' \in {"loop", "broken"} /\ current' \in {current, Null}
    BY <1>4 DEF ReceiveDrops
  <2> QED BY <1>0, <1>1, <1>4, <2>1, <2>2, <2>3, <2>4
          DEF ReceiveDrops, Typed, TypeOK, Holding, LegalParams
<1>5. CASE Receive
  <2>1. sync' \in Request /\ unserved' \in BOOLEAN
    BY <1>0, <1>5, UpdateTyped DEF Receive
  <2>2. Legal(stream.encoder, params')
    BY <1>0, <1>5, ResizedLegal DEF Receive, LegalParams
  <2>3. worker' \in {"ready", "broken"} /\ header' \in BOOLEAN /\ csdOut' \subseteq Entries
    BY <1>0, <1>5 DEF Receive, TypeOK
  <2> QED BY <1>0, <1>1, <1>5, <2>1, <2>2, <2>3
          DEF Receive, Typed, TypeOK, Holding, LegalParams, Legal
<1> QED BY <1>2, <1>3, <1>4, <1>5

\* The steps with a picture.
LEMMA TypedEncode ==
  ASSUME Typed, ReadSync \/ ApplySync \/ Encode \/ EncodeFails \/ EncodeBreaks
  PROVE  Typed'
<1> USE DEF Places, Positions, WorkerStep, EncodeStep, entryVars, threadVars, outVars
<1>0. TypeOK /\ LegalParams /\ current \in Entries
  BY DEF ReadSync, ApplySync, Encode, EncodeFails, EncodeBreaks, Typed, Holding
<1>1. CASE ReadSync
  <2>1. read' \in [request : Request, bitrate : Nat]
        /\ read'.bitrate >= MinBitrate(stream.encoder)
    BY <1>0, <1>1 DEF ReadSync, TypeOK, LegalParams, Legal
  <2> QED BY <1>0, <1>1, <2>1 DEF ReadSync, Typed, TypeOK, Holding, LegalParams
<1>2. CASE ApplySync
  <2>1. sync' \in Request
    BY <1>0, <1>2, SyncTyped DEF ApplySync, TypeOK
  <2>2. idr' \in BOOLEAN /\ seen' \in Nat
    BY <1>0, <1>2 DEF ApplySync, TypeOK, Request
  <2> QED BY <1>0, <1>2, <2>1, <2>2 DEF ApplySync, Typed, TypeOK, Holding, LegalParams
<1>3. ASSUME worker = "encode" PROVE Legal(stream.encoder, Told)
  BY <1>0, <1>3 DEF Told, TypeOK, LegalParams, Legal
<1>4. CASE Encode
  <2>1. answer' \in [Entries -> Outcomes \cup {"none"}]
    BY <1>0, <1>4, AnswerTyped DEF Encode, Outcomes
  <2>2. eosOut' \subseteq Entries /\ unserved' \in BOOLEAN
    BY <1>0, <1>4 DEF Encode, TypeOK
  <2>3. Legal(stream.encoder, opened')
    BY <1>3, <1>4 DEF Encode
  <2> QED BY <1>0, <1>4, <2>1, <2>2, <2>3 DEF Encode, Typed, TypeOK, Holding, LegalParams
<1>5. CASE EncodeFails
  <2>1. answer' \in [Entries -> Outcomes \cup {"none"}]
    BY <1>0, <1>5, AnswerTyped DEF EncodeFails, Outcomes
  <2>2. csdOut' \subseteq Entries
    BY <1>0, <1>5 DEF EncodeFails, TypeOK
  <2>3. Legal(stream.encoder, opened')
    BY <1>3, <1>5 DEF EncodeFails
  <2>4. left' \in [{"starts", "failures", "requests", "settings"} -> Nat]
    BY <1>0, <1>5, MayProperty DEF EncodeFails
  <2> QED BY <1>0, <1>5, <2>1, <2>2, <2>3, <2>4 DEF EncodeFails, Typed, TypeOK, Holding, LegalParams
<1>6. CASE EncodeBreaks
  BY <1>0, <1>6 DEF EncodeBreaks, Typed, TypeOK, Holding, LegalParams
<1> QED BY <1>1, <1>2, <1>4, <1>5, <1>6

\* The states an encoder begins in.
LEMMA TypedInit == Init => Typed
<1> SUFFICES ASSUME Init PROVE Typed
  OBVIOUS
<1>1. Legal(stream.encoder, params) /\ opened = params
  BY DefaultLegal DEF Init
<1>2. params.bitrate \in Nat /\ params.bitrate >= MinBitrate(stream.encoder)
  BY <1>1 DEF Legal
<1>3. left \in [{"starts", "failures", "requests", "settings"} -> Nat]
  BY StreamFields DEF Init
<1>4. queue \in Seq(Entries \cup {Null})
  BY EmptySeq DEF Init
<1>5. /\ answer \in [Entries -> Outcomes \cup {"none"}] /\ kind \in [Entries -> AllKinds]
      /\ next \in 0 .. MaxEntries /\ pc \in [Callers -> Places]
      /\ hand \in [Callers -> Entries \cup {Null}]
  BY BoundsAssumption DEF Init, AllKinds, Places
<1>6. sync \in Request /\ read \in [request : Request, bitrate : Nat]
  BY DEF Init, Request
<1>7. TypeOK
  BY <1>2, <1>3, <1>4, <1>5, <1>6 DEF Init, TypeOK, Positions
<1>8. Holding /\ LegalParams
  BY <1>1 DEF Init, Holding, LegalParams
<1> QED BY <1>7, <1>8 DEF Typed

\* A step is one of a client thread, or one of the worker.
LEMMA WhoSteps ==
  ASSUME Next
  PROVE  \/ UNCHANGED vars
         \/ worker # "broken" /\ \E c \in Callers : StartCheck(c) \/ Starting(c)
         \/ worker # "broken" /\ \E c \in Callers : StopCheck(c) \/ Stopping(c)
         \/ worker # "broken" /\ \E c \in Callers :
              \/ FlushTest(c) \/ Flushing(c) \/ RequestSync(c) \/ Configure(c)
              \/ \E k \in stream.kinds : QueuePush(c, k)
         \/ worker # "broken" /\ (LoopTest \/ TakeMove \/ TakePop \/ Signal)
         \/ worker # "broken" /\ (ReceiveEmpty \/ ReceiveFails \/ ReceiveDrops \/ Receive)
         \/ worker # "broken" /\ (ReadSync \/ ApplySync \/ Encode \/ EncodeFails \/ EncodeBreaks)
<1>1. CASE Ends
  BY <1>1 DEF Ends
<1>2. CASE worker # "broken" /\ Works
  BY <1>2 DEF Works
<1>3. ASSUME worker # "broken", NEW c \in Callers,
             Calls(c) \/ Starting(c) \/ Stopping(c) \/ Flushing(c)
      PROVE  \/ StartCheck(c) \/ Starting(c)
             \/ StopCheck(c) \/ Stopping(c)
             \/ FlushTest(c) \/ Flushing(c) \/ RequestSync(c) \/ Configure(c)
             \/ \E k \in stream.kinds : QueuePush(c, k)
  BY <1>3 DEF Calls
<1> QED BY <1>1, <1>2, <1>3 DEF Next

\* Every step keeps the types and the parameters legal.
LEMMA TypedStep == Typed /\ [Next]_vars => Typed'
<1> SUFFICES ASSUME Typed, [Next]_vars PROVE Typed'
  OBVIOUS
<1>1. CASE UNCHANGED vars
  BY <1>1 DEF vars, workerVars, threadVars, codecVars, entryVars, outVars, ghostVars,
              Typed, TypeOK, Holding, LegalParams
<1>2. CASE Next
  BY <1>1, <1>2, WhoSteps, TypedStart, TypedStop, TypedCall, TypedTake, TypedReceive, TypedEncode
<1> QED BY <1>1, <1>2

\* Every variable has its type, and the parameters of the interface are legal, whatever the
\* clients set and in whatever order.
THEOREM TypeCorrect == Spec => []TypeOK
<1>1. Typed => TypeOK
  BY DEF Typed
<1> QED BY TypedInit, TypedStep, <1>1, PTL DEF Spec

\* The library is told a bitrate and ranges of quantization it takes.
THEOREM EncoderLegal == Spec => []EncoderGetsLegal
<1>1. Typed => EncoderGetsLegal
  <2> SUFFICES ASSUME Typed PROVE EncoderGetsLegal
    OBVIOUS
  <2>1. opened.qp \in LegalLayers /\ opened.bitrate >= MinBitrate(stream.encoder)
    BY DEF Typed, LegalParams, Legal
  <2>2. \A type : LET qp == GetQp(opened.qp, type)
                  IN  {qp.min, qp.max} \subseteq CodecQpMin .. CodecQpMax
    BY <2>1, LegalQp DEF LegalQps
  <2> QED BY <2>1, <2>2 DEF EncoderGetsLegal
<1> QED BY TypedInit, TypedStep, <1>1, PTL DEF Spec

-----------------------------------------------------------------------------
(* Where the works are.                                                     *)

Listed(q) == Elements(q) \ {Null}
Sorted(q) ==
  \A i, j \in DOMAIN q : i < j /\ q[i] # Null /\ q[j] # Null => q[i] < q[j]

\* A work that is to be given back is in the list, with the worker, or with a flush.
Accounted ==
  \A w \in Entries :
    w <= next /\ answer[w] = "none" <=> w \in Listed(queue) \cup {current} \cup InHands

\* It is in one of these places only, and the worker has the oldest of those a flush has
\* not got.
Apart ==
  /\ current # Null => \A v \in Listed(queue) : current < v
  /\ InHands \cap (Listed(queue) \cup {current}) = {}
  /\ \A c, d \in Callers : c # d /\ hand[c] # Null => hand[c] # hand[d]

HandsFull == \A c \in Callers : hand[c] # Null => pc[c] = "flushPop"
NotYet == \A w \in Entries : w > next => answer[w] = "none"

Placed == Accounted /\ Sorted(queue) /\ Apart /\ HandsFull /\ NotYet

\* Only the work the worker has is done or fails; an answer stays; what leaves a hand is
\* answered; the list gets no older works, and the worker one of the list.
Kept ==
  /\ next <= next'
  /\ \A w \in Listed(queue') : w \in Listed(queue) \/ w > next
  /\ current' \in {current, Null} \cup Listed(queue)
  /\ \A w \in Entries : answer'[w] \in {"done", "failed"} => answer[w] = answer'[w] \/ w = current
  /\ \A w \in Entries : answer[w] # "none" => answer'[w] = answer[w]
  /\ \A w \in InHands : w \in InHands' \/ answer'[w] # "none"

\* What a push, a move out and a pop do to a list of works in their order.
LEMMA ListMoves ==
  ASSUME NEW q \in Seq(Entries \cup {Null}), Sorted(q)
  PROVE  /\ Listed(q) \subseteq Entries
         /\ \A w \in Entries : (\A v \in Listed(q) : v < w) =>
              Sorted(Append(q, w)) /\ Listed(Append(q, w)) = Listed(q) \cup {w}
         /\ q # <<>> =>
              /\ Head(q) \in Listed(q) \cup {Null}
              /\ Head(q) # Null => \A v \in Listed(q) \ {Head(q)} : Head(q) < v
              /\ Sorted(Tail(q)) /\ Listed(Tail(q)) = Listed(q) \ {Head(q)}
              /\ Sorted([q EXCEPT ![1] = Null])
              /\ Listed([q EXCEPT ![1] = Null]) = Listed(q) \ {Head(q)}
<1>0. /\ Len(q) \in Nat /\ DOMAIN q = 1 .. Len(q)
      /\ \A i \in 1 .. Len(q) : q[i] \in Entries \cup {Null}
  BY LenProperties
<1>1. Listed(q) \subseteq Entries
  BY <1>0 DEF Listed, Elements
<1>2. ASSUME NEW w \in Entries, \A v \in Listed(q) : v < w
      PROVE  Sorted(Append(q, w)) /\ Listed(Append(q, w)) = Listed(q) \cup {w}
  <2>1. /\ DOMAIN Append(q, w) = 1 .. Len(q) + 1 /\ Append(q, w)[Len(q) + 1] = w
        /\ \A i \in 1 .. Len(q) : Append(q, w)[i] = q[i]
    BY <1>0, AppendProperties
  <2>2. w # Null
    BY DEF Entries, Null
  <2>3. Listed(Append(q, w)) = Listed(q) \cup {w}
    BY <1>0, <2>1, <2>2 DEF Listed, Elements
  <2>4. \A i \in 1 .. Len(q) : q[i] # Null => q[i] < w
    BY <1>0, <1>2 DEF Listed, Elements
  <2>5. Sorted(Append(q, w))
    BY <1>0, <2>1, <2>4 DEF Sorted
  <2> QED BY <2>3, <2>5
<1>3. ASSUME q # <<>>
      PROVE  /\ Head(q) \in Listed(q) \cup {Null}
             /\ Head(q) # Null => \A v \in Listed(q) \ {Head(q)} : Head(q) < v
             /\ Sorted(Tail(q)) /\ Listed(Tail(q)) = Listed(q) \ {Head(q)}
             /\ Sorted([q EXCEPT ![1] = Null])
             /\ Listed([q EXCEPT ![1] = Null]) = Listed(q) \ {Head(q)}
  <2>1. Len(q) >= 1 /\ Head(q) = q[1]
    BY <1>0, <1>3, EmptySeq, HeadTailProperties
  <2>2. /\ DOMAIN Tail(q) = 1 .. Len(q) - 1
        /\ \A i \in 1 .. Len(q) - 1 : Tail(q)[i] = q[i + 1]
    BY <1>0, <1>3, HeadTailProperties
  <2>3. Head(q) # Null => \A i \in 2 .. Len(q) : q[i] # Null => Head(q) < q[i]
    BY <1>0, <2>1 DEF Sorted
  <2>4. Head(q) # Null => \A v \in Listed(q) \ {Head(q)} : Head(q) < v
    BY <1>0, <2>1, <2>3 DEF Listed, Elements
  <2>5. Sorted(Tail(q))
    BY <1>0, <2>2 DEF Sorted
  <2>6. \A i \in 2 .. Len(q) : q[i] # Null => q[i] # Head(q)
    BY <1>0, <2>1, <2>3 DEF Entries, Null
  <2>7. Listed(Tail(q)) = Listed(q) \ {Head(q)}
    <3>1. \A v \in Listed(Tail(q)) : v \in Listed(q) \ {Head(q)}
      BY <1>0, <2>1, <2>2, <2>6 DEF Listed, Elements
    <3>2. ASSUME NEW v \in Listed(q) \ {Head(q)} PROVE v \in Listed(Tail(q))
      <4>1. PICK i \in 2 .. Len(q) : v = q[i]
        BY <1>0, <2>1 DEF Listed, Elements
      <4>2. i - 1 \in DOMAIN Tail(q) /\ Tail(q)[i - 1] = v
        BY <1>0, <2>2, <4>1
      <4> QED BY <4>2 DEF Listed, Elements
    <3> QED BY <3>1, <3>2
  <2>8. /\ DOMAIN [q EXCEPT ![1] = Null] = 1 .. Len(q) /\ [q EXCEPT ![1] = Null][1] = Null
        /\ \A i \in 2 .. Len(q) : [q EXCEPT ![1] = Null][i] = q[i]
    BY <1>0, <2>1
  <2>9. Sorted([q EXCEPT ![1] = Null])
    BY <1>0, <2>8 DEF Sorted
  <2>10. Listed([q EXCEPT ![1] = Null]) = Listed(q) \ {Head(q)}
    BY <1>0, <2>1, <2>6, <2>8 DEF Listed, Elements
  <2>11. Head(q) \in Listed(q) \cup {Null}
    BY <1>0, <2>1 DEF Listed, Elements
  <2> QED BY <2>4, <2>5, <2>7, <2>9, <2>10, <2>11
<1> QED BY <1>1, <1>2, <1>3

\* What the hands hold after a move into one, and out of one.
LEMMA HandMoves ==
  ASSUME TypeOK, NEW c \in Callers, NEW w \in Entries \cup {Null},
         hand' = [hand EXCEPT ![c] = w], w = Null \/ w \notin InHands, HandsFull, Apart
  PROVE  /\ InHands' = (InHands \ {hand[c]}) \cup ({w} \ {Null})
         /\ \A b, d \in Callers : b # d /\ hand'[b] # Null => hand'[b] # hand'[d]
<1>1. hand \in [Callers -> Entries \cup {Null}]
  BY DEF TypeOK
<1>2. hand'[c] = w /\ \A d \in Callers : d # c => hand'[d] = hand[d]
  BY <1>1
<1>3. \A d \in Callers : d # c /\ hand[d] # Null => hand[d] # hand[c]
  BY DEF Apart
<1>4. InHands' = (InHands \ {hand[c]}) \cup ({w} \ {Null})
  BY <1>1, <1>2, <1>3 DEF InHands
<1>5. ASSUME NEW b \in Callers, NEW d \in Callers, b # d, hand'[b] # Null
      PROVE  hand'[b] # hand'[d]
  BY <1>1, <1>2, <1>3, <1>5 DEF InHands, Apart
<1> QED BY <1>4, <1>5

\* Where the worker is tells whether it has a work; it is somewhere only when it runs.
Position ==
  /\ worker \in {"none", "loop", "entered", "exiting", "exited"} => current = Null
  /\ ~running => worker \in {"none", "broken"}

\* Works and threads with a full hand stay where they are.
LEMMA Undisturbed ==
  ASSUME TypeOK, Placed, UNCHANGED <<queue, current, hand, next, answer>>,
         \A c \in Callers : pc[c] = "flushPop" => pc'[c] = "flushPop"
  PROVE  Placed' /\ Kept
<1>1. InHands' = InHands
  BY DEF InHands
<1>2. Accounted' /\ Sorted(queue)' /\ NotYet'
  BY <1>1 DEF Placed, Accounted, Sorted, NotYet, Listed, Elements
<1>3. Apart' /\ HandsFull'
  BY <1>1 DEF Placed, Apart, HandsFull, Listed, Elements
<1>4. Kept
  <2>1. Listed(queue') = Listed(queue) /\ next' = next /\ next \in Nat
    BY DEF TypeOK
  <2> QED BY <1>1, <2>1 DEF Kept
<1> QED BY <1>2, <1>3, <1>4 DEF Placed

\* A thread whose hand is not full goes on.
LEMMA GoesOn ==
  ASSUME TypeOK, NEW c \in Callers, NEW place, GoTo(c, place), pc[c] # "flushPop"
  PROVE  \A d \in Callers : pc[d] = "flushPop" => pc'[d] = "flushPop"
BY DEF TypeOK, GoTo

\* The numbers of the works that are to be given back.
LEMMA PlacedBound ==
  ASSUME TypeOK, Placed
  PROVE  /\ Listed(queue) \subseteq Entries /\ InHands \subseteq Entries
         /\ \A w \in Listed(queue) \cup InHands : w <= next /\ answer[w] = "none"
         /\ current # Null => current \in Entries /\ current <= next /\ answer[current] = "none"
         /\ Entries \subseteq Nat /\ Null \notin Entries /\ next \in Nat
<1>1. Listed(queue) \subseteq Entries
  BY ListMoves DEF TypeOK, Placed
<1>2. InHands \subseteq Entries
  BY DEF TypeOK, InHands
<1>3. current # Null => current \in Entries
  BY DEF TypeOK
<1>4. Entries \subseteq Nat /\ Null \notin Entries /\ next \in Nat
  BY BoundsAssumption DEF Entries, Null, TypeOK
<1> QED BY <1>1, <1>2, <1>3, <1>4 DEF Placed, Accounted

\* A work is queued.
LEMMA PlacedPush ==
  ASSUME TypeOK, Placed, next + 1 \in Entries, next' = next + 1, queue' = Pushed(next + 1),
         UNCHANGED <<pc, hand, current, answer>>
  PROVE  Placed' /\ Kept
<1>0. /\ queue \in Seq(Entries \cup {Null}) /\ next \in Nat /\ Entries \subseteq Nat
      /\ next + 1 # Null
  BY BoundsAssumption DEF TypeOK, Entries, Null
<1>1. /\ \A v \in Listed(queue) \cup InHands : v \in Nat /\ v < next + 1
      /\ current # Null => current \in Nat /\ current < next + 1
  <2>1. /\ \A v \in Listed(queue) \cup InHands : v \in Nat /\ v <= next
        /\ current # Null => current \in Nat /\ current <= next
    BY PlacedBound
  <2> QED BY <1>0, <2>1
<1>2. Sorted(queue)' /\ Listed(queue') = Listed(queue) \cup {next + 1}
  BY <1>0, <1>1, ListMoves DEF Pushed, Placed
<1>3. InHands' = InHands
  BY DEF InHands
<1>4. next + 1 \notin InHands /\ current # next + 1
  BY <1>0, <1>1
<1>5. answer[next + 1] = "none"
  BY <1>0 DEF Placed, NotYet
<1>6. Accounted'
  <2> SUFFICES ASSUME NEW w \in Entries
               PROVE  w <= next + 1 /\ answer[w] = "none"
                        <=> w \in Listed(queue') \cup {current} \cup InHands
    BY <1>3 DEF Accounted
  <2>1. CASE w = next + 1
    BY <1>0, <1>2, <1>5, <2>1
  <2>2. CASE w # next + 1
    <3>1. w <= next + 1 <=> w <= next
      BY <1>0, <2>2
    <3> QED BY <1>2, <2>2, <3>1 DEF Placed, Accounted
  <2> QED BY <2>1, <2>2
<1>7. Apart'
  BY <1>1, <1>2, <1>3, <1>4 DEF Placed, Apart
<1>8. NotYet' /\ HandsFull'
  <2>1. \A w \in Entries : w > next + 1 => w > next
    BY <1>0
  <2> QED BY <2>1 DEF Placed, NotYet, HandsFull
<1>9. Kept
  <2>1. next <= next' /\ next + 1 > next
    BY <1>0
  <2> QED BY <1>2, <1>3, <2>1 DEF Kept
<1> QED BY <1>2, <1>6, <1>7, <1>8, <1>9 DEF Placed

\* Works leave the list: some are lost, the front of what stays is as it was.
LEMMA PlacedLoses ==
  ASSUME TypeOK, Placed, NEW S, Listed(queue') = Listed(queue) \ S, S \subseteq Listed(queue),
         Sorted(queue'), Answer(S, "lost"), UNCHANGED <<hand, current, next>>,
         \A c \in Callers : pc[c] = "flushPop" => pc'[c] = "flushPop"
  PROVE  Placed' /\ Kept
<1>0. S \subseteq Entries /\ \A w \in S : w <= next
  BY PlacedBound
<1>1. InHands' = InHands
  BY DEF InHands
<1>2. \A w \in Entries : answer'[w] = IF w \in S THEN "lost" ELSE answer[w]
  BY DEF Answer
<1>3. S \cap InHands = {} /\ current \notin S
  BY <1>0, PlacedBound DEF Placed, Apart, Entries, Null
<1>4. Accounted'
  BY <1>0, <1>1, <1>2, <1>3 DEF Placed, Accounted
<1>5. Apart' /\ HandsFull'
  BY <1>1 DEF Placed, Apart, HandsFull
<1>6. NotYet'
  <2>1. \A w \in S : ~(w > next)
    BY <1>0, PlacedBound
  <2> QED BY <1>2, <2>1 DEF Placed, NotYet
<1>7. Kept
  <2>1. next <= next' /\ \A w \in S : answer[w] = "none"
    BY PlacedBound
  <2> QED BY <1>1, <1>2, <1>3, <2>1 DEF Kept
<1>8. Sorted(queue)'
  OBVIOUS
<1> QED BY <1>4, <1>5, <1>6, <1>7, <1>8 DEF Placed

\* The worker gives back what it has.
LEMMA PlacedGives ==
  ASSUME TypeOK, Placed, current # Null, NEW how \in Outcomes, Answer({current}, how),
         current' = Null, UNCHANGED <<pc, hand, queue, next>>
  PROVE  Placed' /\ Kept
<1>0. current \in Entries /\ current <= next /\ answer[current] = "none" /\ Null \notin Entries
  BY PlacedBound DEF Entries, Null
<1>1. InHands' = InHands /\ Listed(queue') = Listed(queue)
  BY DEF InHands
<1>2. \A w \in Entries : answer'[w] = IF w = current THEN how ELSE answer[w]
  BY DEF Answer
<1>3. current \notin Listed(queue) \cup InHands
  BY PlacedBound DEF Placed, Apart, Entries
<1>4. how # "none"
  BY DEF Outcomes
<1>5. Accounted'
  BY <1>0, <1>1, <1>2, <1>3, <1>4 DEF Placed, Accounted
<1>6. Apart' /\ HandsFull' /\ Sorted(queue)'
  BY <1>1 DEF Placed, Apart, HandsFull, InHands
<1>7. NotYet'
  <2>1. ~(current > next)
    BY <1>0, PlacedBound
  <2> QED BY <1>2, <2>1 DEF Placed, NotYet
<1>8. Kept
  <2>1. next <= next'
    BY PlacedBound
  <2> QED BY <1>0, <1>1, <1>2, <2>1 DEF Kept
<1> QED BY <1>5, <1>6, <1>7, <1>8 DEF Placed

\* A flush moves the front of the list into its hand.
LEMMA PlacedFlushMove ==
  ASSUME TypeOK, Placed, NEW c \in Callers, FlushMove(c)
  PROVE  Placed' /\ Kept
<1> DEFINE w == Head(queue)
<1>1. /\ pc[c] = "flushMove" /\ queue # <<>> /\ hand' = [hand EXCEPT ![c] = w]
      /\ queue' = [queue EXCEPT ![1] = Null] /\ GoTo(c, "flushPop")
      /\ UNCHANGED <<current, answer, next>>
  BY DEF FlushMove, FlushStep, entryVars
<1>2. /\ w \in Listed(queue) \cup {Null} /\ Sorted(queue') /\ Listed(queue') = Listed(queue) \ {w}
      /\ w \in Entries \cup {Null}
  BY <1>1, ListMoves, ListTyped DEF Placed, TypeOK
<1>3. hand[c] = Null
  BY <1>1 DEF Placed, HandsFull
<1>4. w = Null \/ w \notin InHands
  BY <1>2, PlacedBound DEF Placed, Apart
<1> HIDE DEF w
<1>5. /\ InHands' = InHands \cup ({w} \ {Null})
      /\ \A b, d \in Callers : b # d /\ hand'[b] # Null => hand'[b] # hand'[d]
  <2>1. Null \notin InHands
    BY DEF InHands
  <2>2. HandsFull /\ Apart
    BY DEF Placed
  <2>3. /\ InHands' = (InHands \ {hand[c]}) \cup ({w} \ {Null})
        /\ \A b, d \in Callers : b # d /\ hand'[b] # Null => hand'[b] # hand'[d]
    BY <1>1, <1>2, <1>4, <2>2, HandMoves
  <2> QED BY <1>3, <2>1, <2>3
<1>6. Null \notin Listed(queue) /\ (current # Null => current # w)
  <2>1. current # Null => \A v \in Listed(queue) : current < v
    BY DEF Placed, Apart
  <2>2. current # Null => current \in Nat
    BY PlacedBound
  <2> QED BY <1>2, <2>1, <2>2 DEF Listed
<1>7. Accounted'
  <2> SUFFICES ASSUME NEW v \in Entries
               PROVE  v \in Listed(queue') \cup {current} \cup InHands'
                        <=> v \in Listed(queue) \cup {current} \cup InHands
    BY <1>1 DEF Placed, Accounted
  <2>1. v # Null
    BY PlacedBound
  <2> QED BY <1>2, <1>5, <2>1
<1>8. Apart'
  BY <1>1, <1>2, <1>5, <1>6 DEF Placed, Apart, InHands
<1>9. HandsFull'
  <2> SUFFICES ASSUME NEW d \in Callers, hand'[d] # Null PROVE pc'[d] = "flushPop"
    BY DEF HandsFull
  <2>1. CASE d = c
    BY <1>1, <2>1 DEF GoTo, TypeOK
  <2>2. CASE d # c
    BY <1>1, <2>2 DEF GoTo, TypeOK, Placed, HandsFull
  <2> QED BY <2>1, <2>2
<1>10. NotYet' /\ Sorted(queue)'
  BY <1>1, <1>2 DEF Placed, NotYet
<1>11. Kept
  <2>1. next <= next'
    BY <1>1, PlacedBound
  <2> QED BY <1>1, <1>2, <1>5, <2>1 DEF Kept
<1> QED BY <1>7, <1>8, <1>9, <1>10, <1>11 DEF Placed

\* A flush pops the front: a work there is destroyed, the one in its hand is given back.
LEMMA PlacedFlushPop ==
  ASSUME TypeOK, Placed, NEW c \in Callers, FlushPop(c)
  PROVE  Placed' /\ Kept
<1> DEFINE w == Head(queue)
<1>1. /\ pc[c] = "flushPop" /\ queue # <<>> /\ hand' = [hand EXCEPT ![c] = Null]
      /\ queue' = Tail(queue) /\ GoTo(c, "flushTest") /\ UNCHANGED <<current, next>>
      /\ \A v \in Entries : answer'[v] = IF v = hand[c] THEN "flushed"
                                         ELSE IF v = w THEN "lost" ELSE answer[v]
  BY DEF FlushPop, FlushStep, FlushAnswers, entryVars
<1>2. /\ w \in Listed(queue) \cup {Null} /\ Sorted(queue') /\ Listed(queue') = Listed(queue) \ {w}
  BY <1>1, ListMoves DEF Placed, TypeOK
<1> HIDE DEF w
<1>3. /\ InHands' = InHands \ {hand[c]}
      /\ \A b, d \in Callers : b # d /\ hand'[b] # Null => hand'[b] # hand'[d]
  BY <1>1, HandMoves DEF Placed
<1>4. hand[c] \in InHands \cup {Null} /\ Null \notin InHands /\ Null \notin Listed(queue)
  BY DEF InHands, Listed
<1>5. /\ \A v \in Listed(queue) \cup InHands : v # current /\ v \in Entries /\ ~(v > next)
      /\ InHands \cap Listed(queue) = {}
  <2>1. current # Null => \A v \in Listed(queue) : current < v
    BY DEF Placed, Apart
  <2>2. current # Null => current \in Nat
    BY PlacedBound
  <2>3. \A v \in Listed(queue) \cup InHands : v \in Entries /\ ~(v > next)
    BY PlacedBound
  <2>4. InHands \cap (Listed(queue) \cup {current}) = {}
    BY DEF Placed, Apart
  <2>5. \A v \in Listed(queue) : v # current
    BY <1>4, <2>1, <2>2, <2>3, PlacedBound
  <2> QED BY <2>3, <2>4, <2>5
<1>6. Accounted'
  <2> SUFFICES ASSUME NEW v \in Entries
               PROVE  v <= next /\ answer'[v] = "none"
                        <=> v \in Listed(queue') \cup {current} \cup InHands'
    BY <1>1 DEF Accounted
  <2>1. v <= next /\ answer[v] = "none" <=> v \in Listed(queue) \cup {current} \cup InHands
    BY DEF Placed, Accounted
  <2>2. v # Null
    BY PlacedBound
  <2>3. CASE v = hand[c]
    BY <1>1, <1>2, <1>3, <1>4, <1>5, <2>2, <2>3
  <2>4. CASE v # hand[c] /\ v = w
    BY <1>1, <1>2, <1>3, <1>4, <1>5, <2>2, <2>4
  <2>5. CASE v # hand[c] /\ v # w
    BY <1>1, <1>2, <1>3, <2>1, <2>5
  <2> QED BY <2>3, <2>4, <2>5
<1>7. Apart'
  BY <1>1, <1>2, <1>3 DEF Placed, Apart, InHands
<1>8. HandsFull'
  <2> SUFFICES ASSUME NEW d \in Callers, hand'[d] # Null PROVE pc'[d] = "flushPop"
    BY DEF HandsFull
  <2>1. d # c
    BY <1>1 DEF TypeOK
  <2> QED BY <1>1, <2>1 DEF GoTo, TypeOK, Placed, HandsFull
<1>9. NotYet' /\ Sorted(queue)'
  <2>1. \A v \in Entries : v > next => v # hand[c] /\ v # w
    BY <1>2, <1>4, <1>5, PlacedBound
  <2> QED BY <1>1, <1>2, <2>1 DEF Placed, NotYet
<1>10. Kept
  <2>1. \A v \in Entries : answer[v] # "none" => v # hand[c] /\ v # w
    BY <1>2, <1>4, PlacedBound
  <2>2. next <= next'
    BY <1>1, PlacedBound
  <2> QED BY <1>1, <1>2, <1>3, <1>4, <1>5, <2>1, <2>2 DEF Kept
<1> QED BY <1>2, <1>6, <1>7, <1>8, <1>9, <1>10 DEF Placed

\* The worker moves the front out of the list.
LEMMA PlacedTakeMove ==
  ASSUME TypeOK, Placed, current = Null, queue # <<>>, current' = Head(queue), queue' = MovedOut,
         UNCHANGED <<pc, hand, next, answer>>
  PROVE  Placed' /\ Kept
<1> DEFINE w == Head(queue)
<1>1. /\ w \in Listed(queue) \cup {Null} /\ Sorted(queue') /\ Listed(queue') = Listed(queue) \ {w}
      /\ w # Null => \A v \in Listed(queue) \ {w} : w < v
  BY ListMoves DEF MovedOut, Placed, TypeOK
<1>2. InHands' = InHands /\ current' = w /\ Null \notin InHands
  BY DEF InHands
<1> HIDE DEF w
<1>3. Accounted'
  <2> SUFFICES ASSUME NEW v \in Entries
               PROVE  v \in Listed(queue') \cup {w} \cup InHands
                        <=> v \in Listed(queue) \cup {current} \cup InHands
    BY <1>2 DEF Placed, Accounted
  <2>1. v # Null
    BY PlacedBound
  <2> QED BY <1>1, <2>1
<1>4. Apart'
  <2>1. InHands \cap (Listed(queue') \cup {w}) = {}
    BY <1>1, <1>2 DEF Placed, Apart
  <2> QED BY <1>1, <1>2, <2>1 DEF Placed, Apart
<1>5. HandsFull' /\ NotYet' /\ Sorted(queue)'
  BY <1>1 DEF Placed, HandsFull, NotYet
<1>6. Kept
  <2>1. next <= next'
    BY PlacedBound
  <2> QED BY <1>1, <1>2, <2>1 DEF Kept
<1> QED BY <1>3, <1>4, <1>5, <1>6 DEF Placed

\* A pop destroys a work it finds.
LEMMA PlacedPop ==
  ASSUME TypeOK, Placed, queue # <<>>, queue' = Tail(queue), Answer({Head(queue)}, "lost"),
         UNCHANGED <<pc, hand, next, current>>
  PROVE  Placed' /\ Kept
<1> DEFINE S == {Head(queue)} \ {Null}
<1>1. /\ Head(queue) \in Listed(queue) \cup {Null} /\ Sorted(queue')
      /\ Listed(queue') = Listed(queue) \ {Head(queue)}
  BY ListMoves DEF Placed, TypeOK
<1>2. S \subseteq Listed(queue) /\ Listed(queue') = Listed(queue) \ S
  BY <1>1 DEF Listed
<1>3. Answer(S, "lost")
  BY PlacedBound DEF Answer
<1> HIDE DEF S
<1> QED BY <1>1, <1>2, <1>3, PlacedLoses

\* A stop clears the list.
LEMMA PlacedClear ==
  ASSUME TypeOK, Placed, NEW c \in Callers, StopClear(c)
  PROVE  Placed' /\ Kept
<1>1. queue' = <<>> /\ Listed(<<>>) = {} /\ Sorted(<<>>)
  BY DEF StopClear, Listed, Elements, Sorted
<1>2. Answer(Listed(queue), "lost") /\ UNCHANGED <<hand, current, next>>
  BY DEF StopClear, StopStep, entryVars, Listed
<1>3. \A d \in Callers : pc[d] = "flushPop" => pc'[d] = "flushPop"
  BY GoesOn DEF StopClear
<1> QED BY <1>1, <1>2, <1>3, PlacedLoses

\* The steps of a client thread.
LEMMA PlacedStart ==
  ASSUME TypeOK, Placed, NEW c \in Callers, StartCheck(c) \/ Starting(c)
  PROVE  Placed' /\ Kept
<1>1. UNCHANGED <<queue, current, hand, next, answer>>
  BY DEF StartCheck, Starting, StartInit, StartThread, StartRejoin, StartReturn, StartStep,
         entryVars, outVars
<1>2. pc[c] # "flushPop" /\ \E place : GoTo(c, place)
  <2>1. CASE StartCheck(c)
    BY <2>1 DEF StartCheck, MayCall
  <2>2. CASE Starting(c)
    BY <2>2 DEF Starting, StartInit, Opened, NotOpened, StartThread, StartRejoin, StartReturn
  <2> QED BY <2>1, <2>2
<1> QED BY <1>1, <1>2, GoesOn, Undisturbed

\* The steps of a stop.
LEMMA PlacedStop ==
  ASSUME TypeOK, Placed, NEW c \in Callers, StopCheck(c) \/ Stopping(c)
  PROVE  Placed' /\ Kept
<1>1. CASE StopClear(c)
  BY <1>1, PlacedClear
<1>2. CASE ~StopClear(c)
  <2>1. UNCHANGED <<queue, current, hand, next, answer>>
    BY <1>2 DEF StopCheck, Stopping, StopAskThread, StopRequest, StopWaited, StopThread, StopJoined,
                StopDone, Close, StopStep, entryVars
  <2>2. pc[c] # "flushPop" /\ \E place : GoTo(c, place)
    BY <1>2 DEF StopCheck, MayCall, Stopping, StopAskThread, StopRequest, StopWaited, StopThread,
                StopJoined, StopDone, Close
  <2> QED BY <2>1, <2>2, GoesOn, Undisturbed
<1> QED BY <1>1, <1>2

\* The other calls.
LEMMA PlacedCall ==
  ASSUME TypeOK, Placed, NEW c \in Callers,
         \/ FlushTest(c) \/ Flushing(c) \/ RequestSync(c) \/ Configure(c)
         \/ \E k \in stream.kinds : QueuePush(c, k)
  PROVE  Placed' /\ Kept
<1>1. CASE FlushTest(c)
  <2>1. pc[c] # "flushPop" /\ \E place : GoTo(c, place)
    BY <1>1 DEF FlushTest, MayCall
  <2>2. UNCHANGED <<queue, current, hand, next, answer>>
    BY <1>1 DEF FlushTest, FlushStep, entryVars
  <2> QED BY <2>1, <2>2, GoesOn, Undisturbed
<1>2. CASE FlushBreaks(c) \/ RequestSync(c) \/ Configure(c)
  <2>1. UNCHANGED <<pc, queue, current, hand, next, answer>>
    BY <1>2 DEF FlushBreaks, RequestSync, Configure, FlushStep, FeedStep, workerVars, entryVars,
                outVars
  <2> QED BY <2>1, Undisturbed
<1>3. ASSUME NEW k \in stream.kinds, QueuePush(c, k) PROVE Placed' /\ Kept
  <2>1. next + 1 \in Entries
    BY <1>3, StreamFields, BoundsAssumption DEF QueuePush, Entries, TypeOK
  <2>2. /\ next' = next + 1 /\ queue' = Pushed(next + 1)
        /\ UNCHANGED <<pc, hand, current, answer>>
    BY <1>3 DEF QueuePush, workerVars, outVars
  <2> QED BY <2>1, <2>2, PlacedPush
<1> QED BY <1>1, <1>2, <1>3, PlacedFlushMove, PlacedFlushPop DEF Flushing

\* The steps of the worker.
LEMMA PlacedTake ==
  ASSUME Typed, Placed, Position, LoopTest \/ TakeMove \/ TakePop \/ Signal
  PROVE  Placed' /\ Kept
<1>0. TypeOK
  BY DEF Typed
<1>1. CASE LoopTest \/ (TakeMove /\ queue = <<>>) \/ (TakePop /\ queue = <<>>)
  <2>1. UNCHANGED <<pc, queue, current, hand, next, answer>>
    BY <1>1 DEF LoopTest, TakeMove, TakePop, WorkerStep, entryVars, outVars
  <2> QED BY <1>0, <2>1, Undisturbed
<1>2. CASE TakeMove /\ queue # <<>>
  <2>1. /\ current = Null /\ current' = Head(queue) /\ queue' = MovedOut
        /\ UNCHANGED <<pc, hand, next, answer>>
    BY <1>2 DEF TakeMove, WorkerStep, entryVars, outVars, Position
  <2> QED BY <1>0, <1>2, <2>1, PlacedTakeMove
<1>3. CASE TakePop /\ queue # <<>>
  <2>1. /\ queue' = Tail(queue) /\ Answer({Head(queue)}, "lost")
        /\ UNCHANGED <<pc, hand, next, current>>
    BY <1>3 DEF TakePop, WorkerStep, entryVars
  <2> QED BY <1>0, <1>3, <2>1, PlacedPop
<1>4. CASE Signal
  <2>1. UNCHANGED <<queue, current, hand, next, answer>>
    BY <1>4 DEF Signal, WorkerStep, entryVars, outVars
  <2>2. CASE pc' = pc
    BY <1>0, <2>1, <2>2, Undisturbed
  <2>3. CASE pc' # pc
    <3>1. PICK c \in Callers : pc[c] = "waiting" /\ GoTo(c, "signalled")
      BY <1>4, <2>3 DEF Signal
    <3> QED BY <1>0, <2>1, <3>1, GoesOn, Undisturbed
  <2> QED BY <2>2, <2>3
<1> QED BY <1>1, <1>2, <1>3, <1>4

\* The steps that look at a work.
LEMMA PlacedReceive ==
  ASSUME Typed, Placed, ReceiveEmpty \/ ReceiveFails \/ ReceiveDrops \/ Receive
  PROVE  Placed' /\ Kept
<1>0. TypeOK /\ current \in Entries
  BY DEF ReceiveEmpty, ReceiveFails, ReceiveDrops, Receive, Typed, Holding
<1>1. UNCHANGED <<pc, hand, queue, next>>
  BY DEF ReceiveEmpty, ReceiveFails, ReceiveDrops, Receive, ReceiveStep, WorkerStep, entryVars
<1>2. \/ \E how \in {"failed", "lost"} : Answer({current}, how) /\ current' = Null
      \/ UNCHANGED <<current, answer>>
  BY DEF ReceiveEmpty, ReceiveFails, ReceiveDrops, Receive, WorkDone
<1>3. current # Null
  BY <1>0 DEF Entries, Null
<1> QED BY <1>0, <1>1, <1>2, <1>3, PlacedGives, Undisturbed DEF Outcomes

\* The steps with a picture.
LEMMA PlacedEncode ==
  ASSUME Typed, Placed, ReadSync \/ ApplySync \/ Encode \/ EncodeFails \/ EncodeBreaks
  PROVE  Placed' /\ Kept
<1>0. TypeOK /\ current \in Entries
  BY DEF ReadSync, ApplySync, Encode, EncodeFails, EncodeBreaks, Typed, Holding
<1>1. UNCHANGED <<pc, hand, queue, next>>
  BY DEF ReadSync, ApplySync, Encode, EncodeFails, EncodeBreaks, EncodeStep, WorkerStep, entryVars
<1>2. \/ \E how \in {"done", "lost"} : Answer({current}, how) /\ current' = Null
      \/ UNCHANGED <<current, answer>>
  BY DEF ReadSync, ApplySync, Encode, EncodeFails, EncodeBreaks, outVars
<1>3. current # Null
  BY <1>0 DEF Entries, Null
<1> QED BY <1>0, <1>1, <1>2, <1>3, PlacedGives, Undisturbed DEF Outcomes

\* Every step keeps the works where they are accounted for.
LEMMA PlacedStep ==
  ASSUME Typed, Placed, Position, [Next]_vars
  PROVE  Placed' /\ Kept
<1>0. TypeOK
  BY DEF Typed
<1>1. CASE UNCHANGED vars
  <2>1. UNCHANGED <<pc, queue, current, hand, next, answer>>
    BY <1>1 DEF vars, workerVars, entryVars, outVars
  <2> QED BY <1>0, <2>1, Undisturbed
<1>2. CASE Next
  BY <1>0, <1>1, <1>2, WhoSteps, PlacedStart, PlacedStop, PlacedCall, PlacedTake, PlacedReceive,
     PlacedEncode
<1> QED BY <1>1, <1>2

\* The worker goes from place to place.
LEMMA PositionStep ==
  ASSUME Typed, Position, [Next]_vars
  PROVE  Position'
<1>1. CASE UNCHANGED vars
  BY <1>1 DEF vars, workerVars, threadVars, Position
<1>2. ASSUME worker # "broken", NEW c \in Callers, StartCheck(c) \/ Starting(c)
      PROVE  Position'
  <2>1. current' = current
    BY <1>2 DEF StartCheck, Starting, StartInit, StartThread, StartRejoin, StartReturn, StartStep
  <2>2. CASE StartThread(c)
    <3>1. (running \in BOOLEAN /\ current = Null) \/ UNCHANGED <<running, worker>>
      BY <1>2, <2>2 DEF StartThread, Position, Typed, TypeOK
    <3>2. \/ UNCHANGED <<running, worker>>
          \/ worker' = "loop" /\ running'
          \/ worker' = "none"
      BY <2>2 DEF StartThread
    <3> QED BY <2>1, <3>1, <3>2 DEF Position
  <2>3. CASE ~StartThread(c)
    <3>1. UNCHANGED <<running, worker>>
      BY <1>2, <2>3 DEF StartCheck, Starting, StartInit, StartRejoin, StartReturn, StartStep,
                        threadVars
    <3> QED BY <2>1, <3>1 DEF Position
  <2> QED BY <2>2, <2>3
<1>3. ASSUME NEW c \in Callers, StopCheck(c) \/ Stopping(c)
      PROVE  Position'
  <2>1. current' = current
    BY <1>3 DEF StopCheck, Stopping, StopClear, StopAskThread, StopRequest, StopWaited, StopThread,
                StopJoined, StopDone, Close, StopStep
  <2>2. CASE StopJoined(c)
    BY <2>1, <2>2 DEF StopJoined, Position
  <2>3. CASE ~StopJoined(c)
    <3>1. UNCHANGED <<running, worker>>
      BY <1>3, <2>3 DEF StopCheck, Stopping, StopClear, StopAskThread, StopRequest, StopWaited,
                        StopThread, StopDone, Close, threadVars
    <3> QED BY <2>1, <3>1 DEF Position
  <2> QED BY <2>2, <2>3
<1>4. ASSUME NEW c \in Callers,
             \/ FlushTest(c) \/ Flushing(c) \/ RequestSync(c) \/ Configure(c)
             \/ \E k \in stream.kinds : QueuePush(c, k)
      PROVE  Position'
  <2>1. UNCHANGED <<current, running>> /\ worker' \in {worker, "broken"}
    BY <1>4 DEF FlushTest, Flushing, FlushMove, FlushPop, FlushBreaks, RequestSync, Configure,
                QueuePush, FlushStep, FeedStep, threadVars, workerVars
  <2> QED BY <2>1 DEF Position
<1>5. CASE LoopTest \/ TakeMove \/ TakePop \/ Signal
  <2>1. UNCHANGED running /\ running
    BY <1>5 DEF LoopTest, TakeMove, TakePop, Signal, WorkerStep, threadVars, Position, Typed, TypeOK
  <2>2. worker' \in {"none", "loop", "entered", "exiting", "exited"} => current' = Null
    BY <1>5 DEF LoopTest, TakeMove, TakePop, Signal, Position
  <2> QED BY <2>1, <2>2 DEF Position
<1>6. CASE ReceiveEmpty \/ ReceiveFails \/ ReceiveDrops \/ Receive
  <2>1. UNCHANGED running /\ running
    BY <1>6 DEF ReceiveEmpty, ReceiveFails, ReceiveDrops, Receive, ReceiveStep, WorkerStep,
                threadVars, Position, Typed, TypeOK
  <2>2. current' = Null \/ worker' \in {"ready", "broken"}
    BY <1>6 DEF ReceiveEmpty, ReceiveFails, ReceiveDrops, Receive
  <2> QED BY <2>1, <2>2 DEF Position
<1>7. CASE ReadSync \/ ApplySync \/ Encode \/ EncodeFails \/ EncodeBreaks
  <2>1. UNCHANGED running /\ running
    BY <1>7 DEF ReadSync, ApplySync, Encode, EncodeFails, EncodeBreaks, EncodeStep, WorkerStep,
                threadVars, Position, Typed, TypeOK
  <2>2. current' = Null \/ worker' \in {"read", "encode", "broken"}
    BY <1>7 DEF ReadSync, ApplySync, Encode, EncodeFails, EncodeBreaks
  <2> QED BY <2>1, <2>2 DEF Position
<1> QED BY <1>1, <1>2, <1>3, <1>4, <1>5, <1>6, <1>7, WhoSteps

\* Initially there is no work anywhere.
LEMMA PlacedInit == Init => Placed /\ Position
<1> SUFFICES ASSUME Init PROVE Placed /\ Position
  OBVIOUS
<1>1. /\ Listed(queue) = {} /\ InHands = {} /\ current = Null /\ Null \notin Entries
      /\ \A w \in Entries : ~(w <= next) /\ answer[w] = "none"
      /\ \A c \in Callers : hand[c] = Null
  BY BoundsAssumption DEF Init, Listed, Elements, InHands, Entries, Null
<1>2. Sorted(queue) /\ Position
  BY DEF Init, Sorted, Position
<1> QED BY <1>1, <1>2 DEF Placed, Accounted, Apart, HandsFull, NotYet

Inv == Typed /\ Placed /\ Position

\* The invariant is inductive, and its steps keep answers.
LEMMA Inductive ==
  /\ Init => Inv
  /\ Inv /\ [Next]_vars => Inv' /\ Kept
<1>1. Init => Inv
  BY TypedInit, PlacedInit DEF Inv
<1>2. ASSUME Inv, [Next]_vars PROVE Inv' /\ Kept
  BY <1>2, TypedStep, PlacedStep, PositionStep DEF Inv
<1> QED BY <1>1, <1>2

\* The invariant of the type, the places of the works and of the worker.
THEOREM Invariants == Spec => []Inv
<1>1. Init => Inv /\ (Inv /\ [Next]_vars => Inv')
  BY Inductive
<1>2. Inv /\ [Next]_vars => Inv'
  BY Inductive
<1> QED BY <1>1, <1>2, PTL DEF Spec

\* A work that was queued and has not been given back or destroyed is in mQueue, with the
\* worker or with a flush, and in one of them only, although flush_sm takes no lock.
THEOREM WorksAccounted == Spec => []WorkAccounting
<1>1. Inv => WorkAccounting
  <2> SUFFICES ASSUME Inv PROVE WorkAccounting
    OBVIOUS
  <2>0. TypeOK /\ Placed
    BY DEF Inv, Typed
  <2>1. /\ \A w \in Listed(queue) \cup InHands : w \in Nat /\ w # Null
        /\ Null \notin Entries /\ current # Null => current \in Nat
    BY <2>0, PlacedBound DEF Listed, InHands
  <2>2. \A w \in Entries :
          w \in Listed(queue) \cup {current} \cup InHands
            <=> w \in Elements(queue) \cup {current} \cup InHands
    BY <2>0, PlacedBound DEF Listed
  <2>3. current \notin Elements(queue) \ {Null} /\ InHands \cap (Elements(queue) \cup {current}) = {}
    <3>1. InHands \cap (Listed(queue) \cup {current}) = {}
      BY <2>0 DEF Placed, Apart
    <3>2. current \notin Listed(queue)
      <4>1. CASE current = Null
        BY <2>1, <4>1
      <4>2. CASE current # Null
        <5>1. current \in Nat
          BY <2>0, <4>2, PlacedBound
        <5>2. \A v \in Listed(queue) : current < v
          BY <2>0, <4>2 DEF Placed, Apart
        <5> QED BY <5>1, <5>2
      <4> QED BY <4>1, <4>2
    <3> QED BY <2>1, <3>1, <3>2 DEF Listed
  <2>4. ASSUME NEW i \in DOMAIN queue, NEW j \in DOMAIN queue, i # j, queue[i] # Null
        PROVE  queue[i] # queue[j]
    <3>1. /\ DOMAIN queue = 1 .. Len(queue) /\ Len(queue) \in Nat
          /\ \A n \in 1 .. Len(queue) : queue[n] \in Entries \cup {Null}
      BY <2>0, LenProperties DEF TypeOK
    <3>2. Sorted(queue) /\ Entries \subseteq Nat /\ Null \in Nat
      BY <2>0, PlacedBound DEF Placed, Null
    <3>3. queue[i] \in Nat /\ queue[j] \in Nat
      BY <3>1, <3>2
    <3>4. i < j /\ queue[j] # Null => queue[i] < queue[j]
      BY <2>4, <3>2 DEF Sorted
    <3>5. j < i /\ queue[j] # Null => queue[j] < queue[i]
      BY <2>4, <3>2 DEF Sorted
    <3>6. i < j \/ j < i
      BY <2>4, <3>1
    <3> QED BY <2>4, <3>3, <3>4, <3>5, <3>6
  <2> QED BY <2>0, <2>2, <2>3, <2>4 DEF WorkAccounting, Placed, Accounted
<1> QED BY <1>1, Invariants, PTL

\* A work is given back at most once, and what was given back stays as it is.
THEOREM ContractKept == Spec => GivenBackOnce
<1>1. Init => Contract!Init
  BY DEF Init, Contract!Init, Contract!Works, Entries
<1>2. ASSUME Inv, [Next]_vars PROVE [Contract!Next]_(Contract!vars)
  <2>1. Inv' /\ Kept
    BY <1>2, Inductive
  <2>2. \/ next' = next
        \/ next' = next + 1 /\ next < MaxEntries /\ answer' = answer
    <3>1. ASSUME NEW c \in Callers, NEW k \in stream.kinds, QueuePush(c, k)
          PROVE  next' = next + 1 /\ next < MaxEntries /\ answer' = answer
      <4>1. stream.entries \in 0 .. MaxEntries /\ next \in Nat
        BY <1>2, StreamFields DEF Inv, Typed, TypeOK
      <4> QED BY <3>1, <4>1, BoundsAssumption DEF QueuePush, outVars
    <3>2. CASE UNCHANGED vars
      BY <3>2 DEF vars, entryVars
    <3>3. ASSUME NEW c \in Callers, StartCheck(c) \/ Starting(c) PROVE next' = next
      BY <3>3 DEF StartCheck, Starting, StartInit, StartThread, StartRejoin, StartReturn, StartStep,
                  entryVars
    <3>4. ASSUME NEW c \in Callers, StopCheck(c) \/ Stopping(c) PROVE next' = next
      BY <3>4 DEF StopCheck, Stopping, StopClear, StopAskThread, StopRequest, StopWaited, StopThread,
                  StopJoined, StopDone, Close, StopStep, entryVars
    <3>5. ASSUME NEW c \in Callers, FlushTest(c) \/ Flushing(c) \/ RequestSync(c) \/ Configure(c)
          PROVE  next' = next
      BY <3>5 DEF FlushTest, Flushing, FlushMove, FlushPop, FlushBreaks, RequestSync, Configure,
                  FlushStep, entryVars
    <3>6. CASE LoopTest \/ TakeMove \/ TakePop \/ Signal
      BY <3>6 DEF LoopTest, TakeMove, TakePop, Signal, WorkerStep, entryVars
    <3>7. CASE ReceiveEmpty \/ ReceiveFails \/ ReceiveDrops \/ Receive
      BY <3>7 DEF ReceiveEmpty, ReceiveFails, ReceiveDrops, Receive, ReceiveStep, WorkerStep,
                  entryVars
    <3>8. CASE ReadSync \/ ApplySync \/ Encode \/ EncodeFails \/ EncodeBreaks
      BY <3>8 DEF ReadSync, ApplySync, Encode, EncodeFails, EncodeBreaks, EncodeStep, WorkerStep,
                  entryVars
    <3> QED BY <1>2, <3>1, <3>2, <3>3, <3>4, <3>5, <3>6, <3>7, <3>8, WhoSteps
  <2>3. CASE next' = next + 1 /\ next < MaxEntries /\ answer' = answer
    BY <2>3 DEF Contract!Next, Contract!Accept
  <2>4. CASE next' = next
    <3>1. answer' \in [Entries -> Outcomes \cup {"none"}]
      BY <2>1 DEF Inv, Typed, TypeOK
    <3>2. \A w \in Entries : answer'[w] # answer[w] => w <= next /\ answer[w] = "none"
      <4>1. \A w \in Entries : answer'[w] # answer[w] => answer[w] = "none"
        BY <2>1 DEF Kept
      <4>2. \A w \in Entries : w > next => answer'[w] = "none" /\ answer[w] = "none"
        BY <1>2, <2>1, <2>4 DEF Inv, Placed, NotYet
      <4>3. \A w \in Entries : w > next \/ w <= next
        BY <1>2, PlacedBound DEF Inv, Typed
      <4> QED BY <4>1, <4>2, <4>3
    <3> QED BY <2>4, <3>1, <3>2
            DEF Contract!Next, Contract!GiveBack, Contract!Works, Contract!Outstanding, Entries
  <2> QED BY <2>2, <2>3, <2>4
<1> QED BY <1>1, <1>2, Invariants, PTL DEF Spec, GivenBackOnce, Contract!Spec

-----------------------------------------------------------------------------
(* The order of pictures, and why works are lost.                           *)

\* The work that is done is older than all in the list, so an older one is answered or in a hand.
LEMMA OrderStep ==
  ASSUME Inv, InOrder, [Next]_vars
  PROVE  InOrder'
<1>0. Inv' /\ Kept
  BY Inductive
<1>1. /\ \A w \in InHands : w \in InHands' \/ answer'[w] # "none"
      /\ \A w \in Entries : answer[w] # "none" => answer'[w] # "none"
      /\ \A w \in Entries : answer'[w] = "done" => answer[w] = "done" \/ w = current
  BY <1>0 DEF Kept
<1>2. ASSUME NEW w \in Entries, w = current, NEW v \in 1 .. w - 1
      PROVE  answer[v] # "none" \/ v \in InHands
  <2>1. w <= next /\ w \in 1 .. MaxEntries /\ next \in Nat /\ MaxEntries \in Nat
        /\ current # Null
    BY <1>2, PlacedBound, BoundsAssumption DEF Inv, Typed, Entries
  <2>2. v \in Entries /\ v <= next /\ v < current /\ v \in Nat /\ current \in Nat
    BY <1>2, <2>1 DEF Entries
  <2>3. \A u \in Listed(queue) : current < u /\ u \in Nat
    BY <2>1, PlacedBound DEF Inv, Typed, Placed, Apart
  <2>4. v \notin Listed(queue) \cup {current}
    BY <2>2, <2>3
  <2> QED BY <2>2, <2>4 DEF Inv, Placed, Accounted
<1>3. \A w \in Entries : 1 .. w - 1 \subseteq Entries
  BY BoundsAssumption DEF Entries
<1> QED BY <1>1, <1>2, <1>3 DEF InOrder

\* Pictures are encoded in the order they were queued in, whatever is flushed between them.
THEOREM OrderKept == Spec => []InOrder
<1>1. Init => InOrder
  BY DEF Init, InOrder
<1>2. Inv /\ InOrder /\ [Next]_vars => InOrder'
  BY OrderStep
<1> QED BY <1>1, <1>2, Invariants, PTL DEF Spec

\* Nobody is in flush_sm before it is called, and until then the worker pops what it moved.
FlushKnown ==
  /\ \A c \in Callers : pc[c] \in {"flushTest", "flushMove", "flushPop"} => flushed
  /\ worker = "taking" /\ ~flushed => queue # <<>> /\ Head(queue) = Null

\* A pop of the worker meets the null it left, unless a flush came between.
LEMMA FlushKnownStep ==
  ASSUME Inv, FlushKnown, [Next]_vars
  PROVE  FlushKnown'
<1> DEFINE Flushes == {"flushTest", "flushMove", "flushPop"}
<1>0. TypeOK
  BY DEF Inv, Typed
<1>1. CASE UNCHANGED vars
  BY <1>1 DEF vars, workerVars, ghostVars, FlushKnown
<1>2. ASSUME NEW c \in Callers, NEW place, GoTo(c, place), place \notin Flushes,
             UNCHANGED <<queue, flushed>>, worker' = worker \/ worker' # "taking"
      PROVE  FlushKnown'
  <2>1. \A d \in Callers : pc'[d] \in Flushes => pc[d] \in Flushes
    BY <1>0, <1>2 DEF GoTo, TypeOK
  <2> QED BY <1>2, <2>1 DEF FlushKnown
<1>3. ASSUME NEW c \in Callers, StartCheck(c) \/ Starting(c)
      PROVE  FlushKnown'
  <2>1. UNCHANGED <<queue, flushed>>
    BY <1>3 DEF StartCheck, Starting, StartInit, StartThread, StartRejoin, StartReturn, StartStep
  <2>2. worker' = worker \/ worker' # "taking"
    BY <1>3 DEF StartCheck, Starting, StartInit, StartThread, StartRejoin, StartReturn
  <2>3. \E place : place \notin Flushes /\ GoTo(c, place)
    <3>1. CASE StartCheck(c)
      BY <3>1 DEF StartCheck
    <3>2. CASE StartInit(c)
      BY <3>2 DEF StartInit, Opened, NotOpened
    <3>3. CASE StartThread(c) \/ StartRejoin(c) \/ StartReturn(c)
      BY <3>3 DEF StartThread, StartRejoin, StartReturn
    <3> QED BY <1>3, <3>1, <3>2, <3>3 DEF Starting
  <2> QED BY <1>2, <2>1, <2>2, <2>3
<1>4. ASSUME NEW c \in Callers, StopCheck(c) \/ Stopping(c)
      PROVE  FlushKnown'
  <2>1. flushed' = flushed
    BY <1>4 DEF StopCheck, Stopping, StopClear, StopAskThread, StopRequest, StopWaited, StopThread,
                StopJoined, StopDone, Close, StopStep
  <2>2. \E place : place \notin Flushes /\ GoTo(c, place)
    <3>1. CASE StopCheck(c) \/ StopClear(c) \/ StopRequest(c) \/ StopWaited(c)
      BY <3>1 DEF StopCheck, StopClear, StopRequest, StopWaited
    <3>2. CASE StopAskThread(c) \/ StopThread(c)
      BY <3>2 DEF StopAskThread, StopThread
    <3>3. CASE StopJoined(c) \/ StopDone(c) \/ Close(c)
      BY <3>3 DEF StopJoined, StopDone, Close
    <3> QED BY <1>4, <3>1, <3>2, <3>3 DEF Stopping
  <2>3. CASE StopClear(c)
    <3>1. worker' = worker /\ worker # "taking"
      BY <2>3 DEF StopClear, QueueLocked
    <3>2. \A d \in Callers : pc'[d] \in Flushes => pc[d] \in Flushes
      BY <1>0, <2>2 DEF GoTo, TypeOK
    <3> QED BY <2>1, <3>1, <3>2 DEF FlushKnown
  <2>4. CASE ~StopClear(c)
    <3>1. queue' = queue /\ (worker' = worker \/ worker' # "taking")
      BY <1>4, <2>4 DEF StopCheck, Stopping, StopAskThread, StopRequest, StopWaited, StopThread,
                        StopJoined, StopDone, Close
    <3> QED BY <1>2, <2>1, <2>2, <3>1
  <2> QED BY <2>3, <2>4
<1>5. ASSUME NEW c \in Callers, FlushTest(c) \/ Flushing(c)
      PROVE  FlushKnown'
  <2>1. flushed'
    BY <1>5 DEF FlushTest, Flushing, FlushMove, FlushPop, FlushBreaks, FlushKnown
  <2> QED BY <2>1 DEF FlushKnown
<1>6. ASSUME NEW c \in Callers, RequestSync(c) \/ Configure(c)
      PROVE  FlushKnown'
  <2>1. UNCHANGED <<pc, queue, worker, flushed>>
    BY <1>6 DEF RequestSync, Configure, workerVars
  <2> QED BY <2>1 DEF FlushKnown
<1>7. ASSUME NEW c \in Callers, NEW k \in stream.kinds, QueuePush(c, k)
      PROVE  FlushKnown'
  BY <1>7 DEF QueuePush, QueueLocked, workerVars, FlushKnown
<1>8. CASE LoopTest \/ TakeMove \/ TakePop \/ Signal
  <2>1. flushed' = flushed
    BY <1>8 DEF LoopTest, TakeMove, TakePop, Signal, WorkerStep
  <2>2. \A d \in Callers : pc'[d] \in Flushes => pc[d] \in Flushes
    BY <1>0, <1>8 DEF LoopTest, TakeMove, TakePop, Signal, GoTo, TypeOK
  <2>3. CASE TakeMove /\ queue # <<>>
    <3>1. queue \in Seq(Entries \cup {Null}) /\ queue # <<>>
      BY <1>0, <2>3 DEF TypeOK
    <3>2. queue' = [queue EXCEPT ![1] = Null]
      BY <2>3 DEF TakeMove, MovedOut
    <3>3. Len(queue) \in Nat /\ Len(queue) >= 1 /\ DOMAIN queue = 1 .. Len(queue)
      BY <3>1, LenProperties, EmptySeq
    <3>4. queue'[1] = Null /\ queue' \in Seq(Entries \cup {Null}) /\ DOMAIN queue' = 1 .. Len(queue)
      BY <3>1, <3>2, <3>3, ListTyped
    <3>5. queue' # <<>> /\ Head(queue') = Null
      BY <3>3, <3>4, EmptySeq, HeadTailProperties
    <3> QED BY <2>1, <2>2, <3>5 DEF FlushKnown
  <2>4. CASE ~(TakeMove /\ queue # <<>>)
    <3>1. worker' # "taking"
      BY <1>8, <2>4 DEF LoopTest, TakeMove, TakePop, Signal
    <3> QED BY <2>1, <2>2, <3>1 DEF FlushKnown
  <2> QED BY <2>3, <2>4
<1>9. CASE \/ ReceiveEmpty \/ ReceiveFails \/ ReceiveDrops \/ Receive
           \/ ReadSync \/ ApplySync \/ Encode \/ EncodeFails \/ EncodeBreaks
  <2>1. UNCHANGED <<flushed, pc>>
    BY <1>9 DEF ReceiveEmpty, ReceiveFails, ReceiveDrops, Receive, ReceiveStep, ReadSync, ApplySync,
                Encode, EncodeFails, EncodeBreaks, EncodeStep, WorkerStep
  <2>2. worker' # "taking"
    BY <1>9 DEF ReceiveEmpty, ReceiveFails, ReceiveDrops, Receive, ReadSync, ApplySync, Encode,
                EncodeFails, EncodeBreaks
  <2> QED BY <2>1, <2>2 DEF FlushKnown
<1> QED BY <1>1, <1>3, <1>4, <1>5, <1>6, <1>7, <1>8, <1>9, WhoSteps

\* A work is destroyed by a stop, by a failure, or while a flush is at the list.
LEMMA LossStep ==
  ASSUME Inv, FlushKnown, [Next]_vars, NEW w \in Entries, answer[w] # "lost", answer'[w] = "lost"
  PROVE  \/ \E c \in Callers : pc[c] \in {"clear", "flushMove", "flushPop"}
         \/ left'.failures # left.failures
         \/ flushed /\ worker = "taking"
<1>0. TypeOK
  BY DEF Inv, Typed
<1>1. CASE UNCHANGED vars
  BY <1>1 DEF vars, outVars
<1>2. ASSUME NEW c \in Callers, StartCheck(c) \/ Starting(c) PROVE answer' = answer
  BY <1>2 DEF StartCheck, Starting, StartInit, StartThread, StartRejoin, StartReturn, StartStep,
              outVars
<1>3. ASSUME NEW c \in Callers, StopCheck(c) \/ Stopping(c)
      PROVE  pc[c] = "clear" \/ answer' = answer
  BY <1>3 DEF StopCheck, Stopping, StopClear, StopAskThread, StopRequest, StopWaited, StopThread,
              StopJoined, StopDone, Close
<1>4. ASSUME NEW c \in Callers,
             \/ FlushTest(c) \/ Flushing(c) \/ RequestSync(c) \/ Configure(c)
             \/ \E k \in stream.kinds : QueuePush(c, k)
      PROVE  pc[c] = "flushPop" \/ answer' = answer
  BY <1>4 DEF FlushTest, Flushing, FlushMove, FlushPop, FlushBreaks, RequestSync, Configure,
              QueuePush, outVars
<1>5. CASE LoopTest \/ TakeMove \/ TakePop \/ Signal
  <2>1. CASE LoopTest \/ TakeMove \/ Signal
    BY <2>1 DEF LoopTest, TakeMove, Signal, outVars
  <2>2. CASE TakePop
    <3>1. worker = "taking" /\ (answer' = answer \/ Answer({Head(queue)}, "lost"))
      BY <2>2 DEF TakePop
    <3>2. ~flushed => Head(queue) = Null
      BY <3>1 DEF FlushKnown
    <3>3. w # Null
      BY PlacedBound DEF Inv, Typed
    <3>4. answer' # answer => w = Head(queue)
      BY <3>1 DEF Answer
    <3> QED BY <3>1, <3>2, <3>3, <3>4
  <2> QED BY <1>5, <2>1, <2>2
<1>6. ASSUME May("failures") PROVE left'.failures # left.failures
  BY <1>0, <1>6, MayProperty
<1>7. CASE ReceiveEmpty \/ ReceiveFails \/ ReceiveDrops \/ Receive
  <2>1. \/ answer' = answer \/ Answer({current}, "failed") \/ May("failures")
    BY <1>7 DEF ReceiveEmpty, ReceiveFails, ReceiveDrops, Receive, WorkDone
  <2> QED BY <1>6, <2>1 DEF Answer
<1>8. CASE ReadSync \/ ApplySync \/ Encode \/ EncodeFails \/ EncodeBreaks
  <2>1. \/ answer' = answer \/ Answer({current}, "done") \/ May("failures")
    BY <1>8 DEF ReadSync, ApplySync, Encode, EncodeFails, EncodeBreaks, outVars
  <2> QED BY <1>6, <2>1 DEF Answer
<1> QED BY <1>1, <1>2, <1>3, <1>4, <1>5, <1>7, <1>8, WhoSteps

\* Works are destroyed for these reasons only: one that is no picture or of a wrong size goes
\* back to the client.
THEOREM LossesHaveReasons == Spec => LostOnlyWithReason
<1>1. Init => FlushKnown
  BY DEF Init, FlushKnown
<1>2. Inv /\ FlushKnown /\ [Next]_vars => FlushKnown'
  BY FlushKnownStep
<1>3. Inv /\ FlushKnown /\ [Next]_vars =>
        [\A w \in Entries : answer[w] # "lost" /\ answer'[w] = "lost" =>
           \/ \E c \in Callers : pc[c] \in {"clear", "flushMove", "flushPop"}
           \/ left'.failures # left.failures
           \/ flushed /\ worker = "taking"]_vars
  BY LossStep
<1> QED BY <1>1, <1>2, <1>3, Invariants, PTL DEF Spec, LostOnlyWithReason

-----------------------------------------------------------------------------
(* The end of the stream and the codec specific data.                       *)

\* A work that is with the worker, or that none of those still to come is older than.
Behind(v) ==
  /\ v \in Entries /\ v <= next
  /\ \A u \in Listed(queue) : v < u
  /\ current # Null => v <= current

\* It stays so, and so is the work of the worker.
LEMMA BehindStays ==
  ASSUME Inv, [Next]_vars, NEW v \in Entries, Behind(v)
  PROVE  Behind(v)'
<1>1. Inv' /\ Kept
  BY Inductive
<1>2. v \in Nat /\ next \in Nat /\ next' \in Nat /\ next <= next'
  BY <1>1, BoundsAssumption DEF Inv, Typed, TypeOK, Entries, Kept
<1>3. \A u \in Listed(queue') : v < u
  <2>1. \A u \in Listed(queue') : u \in Nat /\ (u \in Listed(queue) \/ u > next)
    <3>1. Listed(queue') \subseteq Entries /\ Entries \subseteq Nat
      BY <1>1, ListMoves, PlacedBound DEF Inv, Typed, TypeOK, Placed
    <3> QED BY <1>1, <3>1 DEF Kept
  <2> QED BY <1>2, <2>1 DEF Behind
<1>4. current' # Null => v <= current'
  <2>1. current' \in {current, Null} \cup Listed(queue)
    BY <1>1 DEF Kept
  <2>2. \A u \in Listed(queue) : u \in Nat /\ v < u
    BY PlacedBound DEF Inv, Typed, Behind
  <2> QED BY <1>2, <2>1, <2>2 DEF Behind
<1> QED BY <1>2, <1>3, <1>4 DEF Behind

\* None of the works still to come is older than the one in hand.
LEMMA BehindCurrent ==
  ASSUME Inv, current \in Entries
  PROVE  Behind(current)
<1>1. current # Null /\ current <= next /\ current \in Nat
  BY PlacedBound DEF Inv, Typed
<1> QED BY <1>1 DEF Behind, Inv, Placed, Apart

\* What a work is does not change once it is queued.
LEMMA KindStays ==
  ASSUME Inv, [Next]_vars
  PROVE  \A w \in Entries : w <= next => kind'[w] = kind[w]
<1>1. CASE UNCHANGED vars
  BY <1>1 DEF vars, entryVars
<1>2. ASSUME NEW c \in Callers, StartCheck(c) \/ Starting(c) PROVE kind' = kind
  BY <1>2 DEF StartCheck, Starting, StartInit, StartThread, StartRejoin, StartReturn, StartStep,
              entryVars
<1>3. ASSUME NEW c \in Callers, StopCheck(c) \/ Stopping(c) PROVE kind' = kind
  BY <1>3 DEF StopCheck, Stopping, StopClear, StopAskThread, StopRequest, StopWaited, StopThread,
              StopJoined, StopDone, Close, StopStep, entryVars
<1>4. ASSUME NEW c \in Callers, FlushTest(c) \/ Flushing(c) \/ RequestSync(c) \/ Configure(c)
      PROVE  kind' = kind
  BY <1>4 DEF FlushTest, Flushing, FlushMove, FlushPop, FlushBreaks, RequestSync, Configure,
              FlushStep, entryVars
<1>5. ASSUME NEW c \in Callers, NEW k \in stream.kinds, QueuePush(c, k)
      PROVE  \A w \in Entries : w <= next => kind'[w] = kind[w]
  <2>1. next \in Nat /\ Entries \subseteq Nat /\ kind \in [Entries -> AllKinds]
    BY BoundsAssumption DEF Inv, Typed, TypeOK, Entries
  <2> QED BY <1>5, <2>1 DEF QueuePush
<1>6. CASE LoopTest \/ TakeMove \/ TakePop \/ Signal
  BY <1>6 DEF LoopTest, TakeMove, TakePop, Signal, WorkerStep, entryVars
<1>7. CASE ReceiveEmpty \/ ReceiveFails \/ ReceiveDrops \/ Receive
  BY <1>7 DEF ReceiveEmpty, ReceiveFails, ReceiveDrops, Receive, ReceiveStep, WorkerStep, entryVars
<1>8. CASE ReadSync \/ ApplySync \/ Encode \/ EncodeFails \/ EncodeBreaks
  BY <1>8 DEF ReadSync, ApplySync, Encode, EncodeFails, EncodeBreaks, EncodeStep, WorkerStep,
              entryVars
<1> QED BY <1>1, <1>2, <1>3, <1>4, <1>5, <1>6, <1>7, <1>8, WhoSteps

\* The steps that leave sawEos, the header and what was flagged alone: all but those with
\* a work.
LEMMA OutputStays ==
  ASSUME [Next]_vars,
         ~(ReceiveEmpty \/ ReceiveFails \/ ReceiveDrops \/ Receive \/ Encode \/ EncodeFails)
  PROVE  /\ UNCHANGED <<sawEos, header, eosOut, csdOut>>
         /\ worker' \in {"ready", "read", "encode"} =>
              worker \in {"ready", "read", "encode"} /\ current' = current
         /\ \A w \in Entries : answer'[w] \in {"done", "failed"} => answer[w] = answer'[w]
<1>0. ASSUME NEW S, Answer(S, "lost"), NEW w \in Entries, answer'[w] \in {"done", "failed"}
      PROVE  answer[w] = answer'[w]
  BY <1>0 DEF Answer
<1>1. CASE UNCHANGED vars
  BY <1>1 DEF vars, workerVars, outVars
<1>2. ASSUME NEW c \in Callers, StartCheck(c) \/ Starting(c)
      PROVE  /\ UNCHANGED <<sawEos, header, eosOut, csdOut, current, answer>>
             /\ worker' = worker \/ worker' \in {"loop", "none"}
  BY <1>2 DEF StartCheck, Starting, StartInit, StartThread, StartRejoin, StartReturn, StartStep,
              outVars
<1>3. ASSUME NEW c \in Callers, StopCheck(c) \/ Stopping(c)
      PROVE  /\ UNCHANGED <<sawEos, header, eosOut, csdOut, current>>
             /\ worker' = worker \/ worker' = "none"
             /\ answer' = answer \/ \E S : Answer(S, "lost")
  BY <1>3 DEF StopCheck, Stopping, StopClear, StopAskThread, StopRequest, StopWaited, StopThread,
              StopJoined, StopDone, Close, StopStep
<1>4. ASSUME NEW c \in Callers,
             \/ FlushTest(c) \/ Flushing(c) \/ RequestSync(c) \/ Configure(c)
             \/ \E k \in stream.kinds : QueuePush(c, k)
      PROVE  /\ UNCHANGED <<sawEos, header, eosOut, csdOut, current>>
             /\ worker' = worker \/ worker' = "broken"
             /\ \A w \in Entries : answer'[w] \in {"done", "failed"} => answer[w] = answer'[w]
  <2>1. CASE FlushPop(c)
    BY <2>1 DEF FlushPop, FlushAnswers, FlushStep
  <2>2. CASE ~FlushPop(c)
    BY <1>4, <2>2 DEF FlushTest, Flushing, FlushMove, FlushBreaks, RequestSync, Configure,
                      QueuePush, FlushStep, workerVars, outVars
  <2> QED BY <2>1, <2>2
<1>5. CASE LoopTest \/ TakeMove \/ TakePop \/ Signal
  <2>1. /\ UNCHANGED <<sawEos, header, eosOut, csdOut>>
        /\ worker' \notin {"ready", "read", "encode"}
    BY <1>5 DEF LoopTest, TakeMove, TakePop, Signal, outVars
  <2>2. answer' = answer \/ \E S : Answer(S, "lost")
    BY <1>5 DEF LoopTest, TakeMove, TakePop, Signal, outVars
  <2> QED BY <1>0, <2>1, <2>2
<1>6. CASE ReadSync \/ ApplySync \/ EncodeBreaks
  BY <1>6 DEF ReadSync, ApplySync, EncodeBreaks, EncodeStep, outVars
<1> QED BY <1>0, <1>1, <1>2, <1>3, <1>4, <1>5, <1>6, WhoSteps

\* The end of the stream that was seen is behind; what is flagged has been queued.
EosKnown ==
  /\ \A w \in eosOut : w <= next
  /\ sawEos => \E v \in Entries : Behind(v) /\ HasEos(v)
  /\ worker \in {"ready", "read", "encode"} /\ HasEos(current) => sawEos

\* Every step keeps the flags of the end of the stream in order.
LEMMA EosStep ==
  ASSUME Inv, EosKnown, EosFlagged, [Next]_vars
  PROVE  EosKnown' /\ EosFlagged'
<1>0. Inv' /\ Kept /\ TypeOK /\ TypeOK' /\ next \in Nat /\ next' \in Nat /\ Entries \subseteq Nat
  <2>1. Inv' /\ Kept
    BY Inductive
  <2>2. TypeOK /\ TypeOK'
    BY <2>1 DEF Inv, Typed
  <2>3. next \in Nat /\ next' \in Nat /\ Entries \subseteq Nat
    BY <2>2, BoundsAssumption DEF TypeOK, Entries
  <2> QED BY <2>1, <2>2, <2>3
<1>1. \A w \in Entries : w <= next => HasEos(w)' = HasEos(w)
  BY KindStays DEF HasEos
<1>2. \A v \in Entries : Behind(v) => Behind(v)' /\ v <= next
  BY BehindStays DEF Behind
<1>3. \A w \in Entries : answer[w] # "none" => w <= next
  BY <1>0 DEF Inv, Placed, NotYet
<1>4. \A w \in eosOut : w \in Entries /\ w <= next
  BY <1>0 DEF EosKnown, TypeOK
<1>5. \A w \in Entries : w <= next => w <= next'
  BY <1>0 DEF Kept
<1>6. ASSUME NEW w \in eosOut
      PROVE  w <= next' /\ \E v \in 1 .. w : HasEos(v)'
  <2>1. w \in Entries /\ w \in Nat /\ w <= next
    BY <1>0, <1>4
  <2>2. PICK v \in 1 .. w : HasEos(v)
    BY DEF EosFlagged
  <2>3. v \in Entries /\ v <= next
    BY <1>0, <2>1, BoundsAssumption DEF Entries
  <2> QED BY <1>1, <1>5, <2>1, <2>2, <2>3
<1>7. ASSUME NEW w \in Entries, HasEos(w)', answer'[w] \in {"done", "failed"},
             answer[w] = answer'[w]
      PROVE  w \in eosOut
  <2>1. w <= next
    BY <1>3, <1>7
  <2> QED BY <1>1, <1>7, <2>1 DEF EosFlagged
<1>8. CASE ~(ReceiveEmpty \/ ReceiveFails \/ ReceiveDrops \/ Receive \/ Encode \/ EncodeFails)
  <2>1. /\ UNCHANGED <<sawEos, eosOut>>
        /\ worker' \in {"ready", "read", "encode"} =>
             worker \in {"ready", "read", "encode"} /\ current' = current
        /\ \A w \in Entries : answer'[w] \in {"done", "failed"} => answer[w] = answer'[w]
    BY <1>8, OutputStays
  <2>2. sawEos' => \E v \in Entries : Behind(v)' /\ HasEos(v)'
    BY <1>1, <1>2, <2>1 DEF EosKnown
  <2>3. worker' \in {"ready", "read", "encode"} /\ HasEos(current)' => sawEos'
    <3>1. worker \in {"ready", "read", "encode"} => current \in Entries /\ current <= next
      BY PlacedBound DEF Inv, Typed, Holding
    <3>2. worker \in {"ready", "read", "encode"} => kind'[current] = kind[current]
      BY <3>1, KindStays
    <3> QED BY <2>1, <3>2 DEF EosKnown, HasEos
  <2> QED BY <1>6, <1>7, <2>1, <2>2, <2>3 DEF EosKnown, EosFlagged
<1>9. CASE ReceiveEmpty \/ ReceiveFails \/ ReceiveDrops \/ Receive \/ Encode \/ EncodeFails
  <2>1. /\ current \in Entries /\ Behind(current) /\ current <= next
        /\ kind' = kind /\ next' = next
    <3>1. current \in Entries
      BY <1>9 DEF ReceiveEmpty, ReceiveFails, ReceiveDrops, Receive, Encode, EncodeFails, Inv, Typed,
                  Holding
    <3>2. kind' = kind /\ next' = next
      BY <1>9 DEF ReceiveEmpty, ReceiveFails, ReceiveDrops, Receive, Encode, EncodeFails,
                  ReceiveStep, EncodeStep, WorkerStep, entryVars
    <3> QED BY <3>1, <3>2, BehindCurrent DEF Behind
  <2>2. PICK w \in Entries : w = current
    BY <2>1
  <2>3. Behind(w) /\ Behind(w)' /\ (HasEos(w) <=> HasEos(w)')
    BY <1>2, <2>1, <2>2 DEF HasEos
  <2>4. (HasEos(w) <=> HasEos(current)) /\ w \in 1 .. w
    BY <2>2 DEF HasEos, Entries
  <2>5. sawEos' => sawEos \/ HasEos(w)
    BY <1>9, <2>4 DEF ReceiveEmpty, ReceiveFails, ReceiveDrops, Receive, Encode, EncodeFails,
                      SeesEos, EncodeStep
  <2>6. sawEos' => \E v \in Entries : Behind(v)' /\ HasEos(v)'
    BY <1>1, <1>2, <2>3, <2>5 DEF EosKnown
  <2>7. worker' \in {"ready", "read", "encode"} /\ HasEos(current)' => sawEos'
    <3>1. worker' \in {"ready", "read", "encode"} => current' = current /\ SeesEos
      BY <1>9 DEF ReceiveEmpty, ReceiveFails, ReceiveDrops, Receive, Encode, EncodeFails
    <3> QED BY <2>1, <3>1 DEF SeesEos, HasEos
  <2>8. /\ eosOut \subseteq eosOut' /\ eosOut' \subseteq eosOut \cup {w}
        /\ w \in eosOut' => w \in eosOut \/ HasEos(w) \/ sawEos
        /\ answer'[w] \in {"done", "failed"} /\ HasEos(w) => w \in eosOut'
    <3>1. CASE ReceiveEmpty \/ (ReceiveFails /\ WorkDone(current))
      <4>1. WorkDone(current)
        BY <3>1 DEF ReceiveEmpty
      <4> QED BY <2>2, <2>4, <4>1 DEF WorkDone
    <3>2. ReceiveFails => WorkDone(current)
      BY DEF ReceiveFails
    <3>3. CASE Receive \/ ReceiveDrops
      <4>1. eosOut' = eosOut /\ (answer' = answer \/ Answer({current}, "lost"))
        BY <3>3 DEF Receive, ReceiveDrops
      <4>2. answer[w] = "none"
        BY <2>1, <2>2, PlacedBound DEF Inv, Typed, Entries, Null
      <4> QED BY <2>2, <4>1, <4>2 DEF Answer
    <3>4. CASE Encode
      <4>1. HasEos(w) => sawEos
        BY <2>4, <3>4 DEF Encode, EosKnown
      <4> QED BY <2>2, <3>4, <4>1 DEF Encode
    <3>5. CASE EncodeFails
      <4>1. eosOut' = eosOut /\ Answer({current}, "lost")
        BY <3>5 DEF EncodeFails
      <4> QED BY <2>2, <4>1 DEF Answer
    <3> QED BY <1>9, <3>1, <3>2, <3>3, <3>4, <3>5
  <2>9. sawEos => \E v \in 1 .. w : HasEos(v)'
    <3>1. sawEos => \E v \in Entries : v <= w /\ HasEos(v)
      BY <2>1, <2>2 DEF EosKnown, Behind, Entries, Null
    <3>2. \A v \in Entries : v <= w => v \in 1 .. w /\ v <= next
      BY <1>0, <2>1, <2>2 DEF Entries
    <3> QED BY <1>1, <3>1, <3>2
  <2>10. \A u \in eosOut' : u <= next' /\ \E v \in 1 .. u : HasEos(v)'
    <3>1. w <= next' /\ (w \in eosOut' => \E v \in 1 .. w : HasEos(v)')
      BY <1>6, <2>1, <2>2, <2>3, <2>4, <2>8, <2>9
    <3> QED BY <1>6, <2>8, <3>1
  <2>11. ASSUME NEW u \in Entries, HasEos(u)', answer'[u] \in {"done", "failed"}
         PROVE  u \in eosOut'
    <3>1. CASE u = w
      BY <2>3, <2>8, <2>11, <3>1
    <3>2. CASE u # w
      BY <1>0, <1>7, <2>2, <2>8, <2>11, <3>2 DEF Kept
    <3> QED BY <3>1, <3>2
  <2> QED BY <2>6, <2>7, <2>10, <2>11 DEF EosKnown, EosFlagged
<1> QED BY <1>8, <1>9

\* Works are flagged as the end of the stream only when the client's end of stream was
\* among them or before them, and the client's own comes back flagged.
THEOREM EosKept == Spec => []EosFlagged
<1>1. Init => EosKnown /\ EosFlagged
  <2> SUFFICES ASSUME Init PROVE EosKnown /\ EosFlagged
    OBVIOUS
  <2> QED BY DEF Init, EosKnown, EosFlagged
<1>2. Inv /\ (EosKnown /\ EosFlagged) /\ [Next]_vars => (EosKnown /\ EosFlagged)'
  BY EosStep
<1> QED BY <1>1, <1>2, Invariants, PTL DEF Spec

\* The stream is what it was, and a failure that happened is counted.
LEMMA FailuresCount ==
  ASSUME Inv, [Next]_vars
  PROVE  stream' = stream /\ left'.failures <= left.failures
         /\ (May("failures") => left'.failures < left.failures)
<1>0. TypeOK
  BY DEF Inv, Typed
<1>1. left.failures \in Nat
  BY <1>0 DEF TypeOK
<1>2. ASSUME NEW what \in {"starts", "failures", "requests", "settings"}, May(what)
      PROVE  left'.failures <= left.failures
  <2>1. left'[what] = left[what] - 1
        /\ \A other \in {"starts", "failures", "requests", "settings"} \ {what} :
             left'[other] = left[other]
    BY <1>0, <1>2, MayProperty
  <2>2. CASE what = "failures"
    BY <1>1, <2>1, <2>2
  <2>3. CASE what # "failures"
    BY <1>1, <2>1, <2>3
  <2> QED BY <2>2, <2>3
<1>3. stream' = stream /\ \/ left' = left
                          \/ \E what \in {"starts", "failures", "requests", "settings"} : May(what)
  <2>1. CASE UNCHANGED vars
    BY <2>1 DEF vars
  <2>2. ASSUME NEW c \in Callers, StartCheck(c) \/ Starting(c)
        PROVE  /\ stream' = stream
               /\ left' = left \/ May("starts") \/ May("failures")
    BY <2>2 DEF StartCheck, Starting, StartInit, Opened, NotOpened, StartThread, StartRejoin,
                StartReturn, StartStep
  <2>3. ASSUME NEW c \in Callers, StopCheck(c) \/ Stopping(c)
        PROVE  stream' = stream /\ left' = left
    BY <2>3 DEF StopCheck, Stopping, StopClear, StopAskThread, StopRequest, StopWaited, StopThread,
                StopJoined, StopDone, Close, StopStep
  <2>4. ASSUME NEW c \in Callers,
               \/ FlushTest(c) \/ Flushing(c) \/ RequestSync(c) \/ Configure(c)
               \/ \E k \in stream.kinds : QueuePush(c, k)
        PROVE  stream' = stream /\ (left' = left \/ May("requests") \/ May("settings"))
    BY <2>4 DEF FlushTest, Flushing, FlushMove, FlushPop, FlushBreaks, RequestSync, Configure,
                QueuePush, FlushStep, FeedStep
  <2>5. CASE LoopTest \/ TakeMove \/ TakePop \/ Signal
    BY <2>5 DEF LoopTest, TakeMove, TakePop, Signal, WorkerStep
  <2>6. CASE ReceiveEmpty \/ ReceiveFails \/ ReceiveDrops \/ Receive
    <3>1. stream' = stream
      BY <2>6 DEF ReceiveEmpty, ReceiveFails, ReceiveDrops, Receive, ReceiveStep, WorkerStep
    <3>2. left' = left \/ May("failures")
      BY <2>6 DEF ReceiveEmpty, ReceiveFails, ReceiveDrops, Receive
    <3> QED BY <3>1, <3>2
  <2>7. CASE ReadSync \/ ApplySync \/ Encode \/ EncodeFails \/ EncodeBreaks
    BY <2>7 DEF ReadSync, ApplySync, Encode, EncodeFails, EncodeBreaks, EncodeStep, WorkerStep
  <2> QED BY <2>1, <2>2, <2>3, <2>4, <2>5, <2>6, <2>7, WhoSteps
<1>4. May("failures") => left'.failures < left.failures
  BY <1>0, <1>1, MayProperty
<1> QED BY <1>1, <1>2, <1>3, <1>4

\* The header that was received came with a work that is behind.
CsdKnown ==
  /\ left.failures <= stream.failures
  /\ header /\ NothingFailed => \E v \in csdOut : Behind(v)
  /\ worker \in {"ready", "read", "encode"} => header

\* Every step keeps the codec specific data first.
LEMMA CsdStep ==
  ASSUME Inv, CsdKnown, CsdFirst, [Next]_vars
  PROVE  CsdKnown' /\ CsdFirst'
<1>0. /\ Inv' /\ Kept /\ csdOut \subseteq Entries
      /\ left.failures \in Nat /\ left'.failures \in Nat /\ stream.failures \in Nat
  <2>1. Inv' /\ Kept
    BY Inductive
  <2>2. TypeOK /\ TypeOK'
    BY <2>1 DEF Inv, Typed
  <2> QED BY <2>1, <2>2, StreamFields DEF TypeOK
<1>1. stream' = stream /\ left'.failures <= left.failures
      /\ (May("failures") => left'.failures < left.failures)
  BY FailuresCount
<1>2. left'.failures <= stream'.failures
  BY <1>0, <1>1 DEF CsdKnown
<1>3. NothingFailed' => NothingFailed /\ ~May("failures")
  BY <1>0, <1>1 DEF NothingFailed, CsdKnown
<1>4. \A v \in Entries : Behind(v) => Behind(v)'
  BY BehindStays
<1>5. CASE ~(ReceiveEmpty \/ ReceiveFails \/ ReceiveDrops \/ Receive \/ Encode \/ EncodeFails)
  <2>1. /\ UNCHANGED <<header, csdOut>>
        /\ worker' \in {"ready", "read", "encode"} => worker \in {"ready", "read", "encode"}
        /\ \A w \in Entries : answer'[w] \in {"done", "failed"} => answer[w] = answer'[w]
    BY <1>5, OutputStays
  <2>2. header' /\ NothingFailed' => \E v \in csdOut' : Behind(v)'
    BY <1>0, <1>3, <1>4, <2>1 DEF CsdKnown
  <2>3. CsdFirst'
    BY <1>3, <2>1 DEF CsdFirst
  <2> QED BY <1>2, <2>1, <2>2, <2>3 DEF CsdKnown
<1>6. CASE ReceiveFails \/ ReceiveDrops \/ EncodeFails
  <2>1. worker' \in {"loop", "broken"}
    BY <1>6 DEF ReceiveFails, ReceiveDrops, EncodeFails
  <2>2. May("failures") \/ (UNCHANGED <<header, csdOut>> /\ Answer({current}, "failed"))
    BY <1>6 DEF ReceiveFails, ReceiveDrops, EncodeFails, WorkDone
  <2>3. header' /\ NothingFailed' => \E v \in csdOut' : Behind(v)'
    BY <1>0, <1>3, <1>4, <2>2 DEF CsdKnown
  <2>4. CsdFirst'
    BY <1>3, <2>2 DEF CsdFirst, Answer
  <2> QED BY <1>2, <2>1, <2>3, <2>4 DEF CsdKnown
<1>7. CASE ReceiveEmpty
  <2>1. worker' = "loop" /\ UNCHANGED <<header, csdOut>> /\ Answer({current}, "failed")
    BY <1>7 DEF ReceiveEmpty, WorkDone
  <2>2. header' /\ NothingFailed' => \E v \in csdOut' : Behind(v)'
    BY <1>0, <1>3, <1>4, <2>1 DEF CsdKnown
  <2>3. CsdFirst'
    BY <1>3, <2>1 DEF CsdFirst, Answer
  <2> QED BY <1>2, <2>1, <2>2, <2>3 DEF CsdKnown
<1>8. CASE Receive
  <2>1. current \in Entries
    BY <1>8 DEF Receive, Inv, Typed, Holding
  <2>2. PICK w \in Entries : w = current
    BY <2>1
  <2>3. Behind(w)'
    BY <1>4, <2>1, <2>2, BehindCurrent
  <2>4. \/ header' = header /\ csdOut' = csdOut /\ (worker' = "broken" \/ header)
        \/ header' /\ csdOut' = csdOut \cup {w}
    BY <1>8, <2>2 DEF Receive, NeedsHeader
  <2>5. header' /\ NothingFailed' => \E v \in csdOut' : Behind(v)'
    BY <1>0, <1>3, <1>4, <2>3, <2>4 DEF CsdKnown
  <2>6. worker' \in {"ready", "read", "encode"} => header'
    BY <2>4
  <2>7. answer' = answer /\ csdOut \subseteq csdOut'
    BY <1>8, <2>4 DEF Receive
  <2>8. CsdFirst'
    BY <1>3, <2>7 DEF CsdFirst
  <2> QED BY <1>2, <2>5, <2>6, <2>8 DEF CsdKnown
<1>9. CASE Encode
  <2>1. worker = "encode" /\ worker' = "loop" /\ UNCHANGED <<header, csdOut>>
        /\ Answer({current}, "done") /\ current \in Entries
    BY <1>9 DEF Encode, EncodeStep, Inv, Typed, Holding
  <2>2. header' /\ NothingFailed' => \E v \in csdOut' : Behind(v)'
    BY <1>0, <1>3, <1>4, <2>1 DEF CsdKnown
  <2>3. NothingFailed => \E v \in csdOut : v <= current
    <3>1. current # Null
      BY <2>1 DEF Entries, Null
    <3> QED BY <2>1, <3>1 DEF CsdKnown, Behind
  <2>4. CsdFirst'
    BY <1>3, <2>1, <2>3 DEF CsdFirst, Answer
  <2> QED BY <1>2, <2>1, <2>2, <2>4 DEF CsdKnown
<1> QED BY <1>5, <1>6, <1>7, <1>8, <1>9

\* The client gets the codec specific data with the first picture or before it, even if
\* the works before that one were flushed, as long as nothing failed.
THEOREM CsdComesFirst == Spec => []CsdFirst
<1>1. Init => CsdKnown /\ CsdFirst
  <2> SUFFICES ASSUME Init PROVE CsdKnown /\ CsdFirst
    OBVIOUS
  <2>1. left.failures <= stream.failures
    BY StreamFields DEF Init
  <2> QED BY <2>1 DEF Init, CsdKnown, CsdFirst
<1>2. Inv /\ (CsdKnown /\ CsdFirst) /\ [Next]_vars => (CsdKnown /\ CsdFirst)'
  BY CsdStep
<1> QED BY <1>1, <1>2, Invariants, PTL DEF Spec

-----------------------------------------------------------------------------
(* Requests for a sync frame.                                               *)

\* The object that was seen last has been served; what was read is no newer than what is set.
SyncKnown ==
  /\ left.failures <= stream.failures
  /\ seen <= sync.object /\ (sync.object = seen => ~sync.value)
  /\ worker = "read" =>
       LET request == read.request
       IN  /\ request.object <= sync.object
           /\ request.object = sync.object => request = sync
           /\ request.object = seen => ~request.value

\* A new request, or an equal one that is still there.
LEMMA Asked ==
  ASSUME Inv, SyncKnown, sync' \in Sync(TRUE), UNCHANGED <<seen, read>>,
         worker' \in {worker, "loop", "ready", "broken"}
  PROVE  /\ sync'.value /\ sync'.object # seen'
         /\ seen' <= sync'.object
         /\ worker' = "read" => /\ read'.request.object <= sync'.object
                                /\ read'.request.object = sync'.object => read'.request = sync'
                                /\ read'.request.object = seen' => ~read'.request.value
<1>1. /\ sync \in Request /\ sync.object \in Nat /\ seen \in Nat /\ read.request.object \in Nat
      /\ sync.value \in BOOLEAN
  BY DEF Inv, Typed, TypeOK, Request
<1>2. CASE sync' = sync /\ sync.value
  BY <1>1, <1>2 DEF SyncKnown
<1>3. CASE sync' = [value |-> TRUE, object |-> sync.object + 1]
  BY <1>1, <1>3 DEF SyncKnown
<1> QED BY <1>2, <1>3 DEF Sync

\* The steps that have nothing to do with sync frames.
LEMMA SyncStays ==
  ASSUME Inv, [Next]_vars, ~(\E c \in Callers : RequestSync(c)),
         ~(ReceiveFails \/ ReceiveDrops \/ Receive \/ ReadSync \/ ApplySync \/ Encode \/ EncodeFails)
  PROVE  /\ UNCHANGED <<sync, seen, read, idr, unserved>>
         /\ \/ worker' = worker \/ worker' = "broken"
            \/ worker \notin {"read", "encode"} /\ worker' \notin {"read", "encode"}
<1>1. CASE UNCHANGED vars
  BY <1>1 DEF vars, workerVars, ghostVars
<1>2. ASSUME NEW c \in Callers, StartCheck(c) \/ Starting(c)
      PROVE  /\ UNCHANGED <<sync, seen, read, idr, unserved>>
             /\ worker' = worker \/ (worker \notin {"read", "encode"} /\ worker' \in {"loop", "none"})
  <2>1. UNCHANGED <<sync, seen, read, idr, unserved>>
    BY <1>2 DEF StartCheck, Starting, StartInit, StartThread, StartRejoin, StartReturn, StartStep
  <2>2. CASE StartThread(c)
    <3>1. worker' = worker \/ (worker' \in {"loop", "none"} /\ (~running \/ worker = "exited"))
      BY <2>2 DEF StartThread
    <3> QED BY <2>1, <3>1 DEF Inv, Position
  <2>3. CASE ~StartThread(c)
    <3>1. worker' = worker
      BY <1>2, <2>3 DEF StartCheck, Starting, StartInit, StartRejoin, StartReturn
    <3> QED BY <2>1, <3>1
  <2> QED BY <2>2, <2>3
<1>3. ASSUME NEW c \in Callers, StopCheck(c) \/ Stopping(c)
      PROVE  /\ UNCHANGED <<sync, seen, read, idr, unserved>>
             /\ worker' = worker \/ (worker = "exited" /\ worker' = "none")
  BY <1>3 DEF StopCheck, Stopping, StopClear, StopAskThread, StopRequest, StopWaited, StopThread,
              StopJoined, StopDone, Close, StopStep
<1>4. ASSUME NEW c \in Callers,
             \/ FlushTest(c) \/ Flushing(c) \/ Configure(c)
             \/ \E k \in stream.kinds : QueuePush(c, k)
      PROVE  /\ UNCHANGED <<sync, seen, read, idr, unserved>>
             /\ worker' \in {worker, "broken"}
  BY <1>4 DEF FlushTest, Flushing, FlushMove, FlushPop, FlushBreaks, Configure, QueuePush,
              FlushStep, workerVars
<1>5. CASE LoopTest \/ TakeMove \/ TakePop \/ Signal
  <2>1. UNCHANGED <<sync, seen, read, idr, unserved>>
    BY <1>5 DEF LoopTest, TakeMove, TakePop, Signal
  <2>2. worker \notin {"read", "encode"} /\ worker' \notin {"read", "encode"}
    BY <1>5 DEF LoopTest, TakeMove, TakePop, Signal
  <2> QED BY <2>1, <2>2
<1>6. CASE ReceiveEmpty \/ EncodeBreaks
  BY <1>6 DEF ReceiveEmpty, ReceiveStep, EncodeBreaks
<1> QED BY <1>1, <1>2, <1>3, <1>4, <1>5, <1>6, WhoSteps

\* Every step keeps a request that was not served to be seen.
LEMMA SyncStep ==
  ASSUME Inv, SyncKnown, SyncServed, [Next]_vars
  PROVE  SyncKnown' /\ SyncServed'
<1>0. /\ sync \in Request /\ sync.object \in Nat /\ seen \in Nat /\ sync.value \in BOOLEAN
      /\ read.request \in Request /\ read.request.object \in Nat /\ unserved \in BOOLEAN
      /\ left.failures \in Nat /\ left'.failures \in Nat /\ stream.failures \in Nat
  <2>1. Inv'
    BY Inductive
  <2>2. TypeOK /\ TypeOK'
    BY <2>1 DEF Inv, Typed
  <2> QED BY <2>2, StreamFields DEF TypeOK, Request
<1>1. /\ stream' = stream /\ left'.failures <= left.failures
      /\ May("failures") => left'.failures < left.failures
  BY FailuresCount
<1>2. left'.failures <= stream'.failures
  BY <1>0, <1>1 DEF SyncKnown
<1>3. NothingFailed' => NothingFailed /\ ~May("failures")
  BY <1>0, <1>1 DEF NothingFailed, SyncKnown
<1>4. CASE \E c \in Callers : RequestSync(c)
  <2>1. sync' \in Sync(TRUE) /\ UNCHANGED <<seen, read, worker>>
    BY <1>4 DEF RequestSync, workerVars
  <2>2. /\ sync'.value /\ sync'.object # seen' /\ seen' <= sync'.object
        /\ worker' = "read" => /\ read'.request.object <= sync'.object
                               /\ read'.request.object = sync'.object => read'.request = sync'
                               /\ read'.request.object = seen' => ~read'.request.value
    BY <2>1, Asked
  <2> QED BY <1>2, <2>2 DEF SyncKnown, SyncServed
<1>5. CASE ReceiveFails \/ ReceiveDrops \/ Receive
  <2>1. /\ worker = "taken" /\ worker' \in {"loop", "ready", "broken"} /\ UNCHANGED <<seen, read>>
        /\ ConfigUpdate
    BY <1>5 DEF ReceiveFails, ReceiveDrops, Receive, ReceiveStep
  <2>2. CASE sync' \in Sync(TRUE)
    <3>1. /\ sync'.value /\ sync'.object # seen' /\ seen' <= sync'.object
      BY <2>1, <2>2, Asked
    <3> QED BY <1>2, <2>1, <3>1 DEF SyncKnown, SyncServed
  <2>3. CASE UNCHANGED <<sync, unserved>>
    BY <1>2, <1>3, <2>1, <2>3 DEF SyncKnown, SyncServed
  <2> QED BY <2>1, <2>2, <2>3 DEF ConfigUpdate
<1>6. CASE ReadSync
  <2>1. /\ worker = "ready" /\ worker' = "read" /\ UNCHANGED <<seen, sync, unserved>>
        /\ read'.request = sync
    BY <1>6 DEF ReadSync, outVars
  <2> QED BY <1>0, <1>2, <1>3, <2>1 DEF SyncKnown, SyncServed
<1>7. CASE ApplySync
  <2> DEFINE request == read.request
  <2>1. /\ worker = "read" /\ worker' = "encode" /\ unserved' = unserved /\ seen' = request.object
        /\ idr' = (request.object # seen /\ request.value)
        /\ IF request.object # seen /\ request.value THEN sync' \in Sync(FALSE) ELSE sync' = sync
    BY <1>7 DEF ApplySync, Clears
  <2>2. /\ request.object <= sync.object /\ (request.object = sync.object => request = sync)
        /\ (request.object = seen => ~request.value)
        /\ request.object \in Nat
    BY <1>0, <2>1 DEF SyncKnown
  <2> HIDE DEF request
  <2>3. CASE request.object # seen /\ request.value
    <3>1. /\ sync'.value = FALSE /\ sync'.object \in {sync.object, sync.object + 1}
      BY <1>0, <2>1, <2>3, SyncTyped
    <3>2. sync.object <= sync'.object /\ sync'.object \in Nat
      BY <1>0, <3>1
    <3>3. seen' <= sync'.object
      BY <1>0, <2>1, <2>2, <3>2
    <3>4. idr'
      BY <2>1, <2>3
    <3> QED BY <1>2, <2>1, <3>1, <3>3, <3>4 DEF SyncKnown, SyncServed
  <2>4. CASE ~(request.object # seen /\ request.value)
    <3>1. sync' = sync /\ ~request.value
      BY <2>1, <2>2, <2>4
    <3>2. seen' <= sync'.object /\ (sync'.object = seen' => ~sync'.value)
      BY <2>1, <2>2, <3>1
    <3>3. unserved' /\ NothingFailed' => sync.value /\ sync.object # seen
      BY <1>3, <2>1, <2>4 DEF SyncServed, request
    <3>4. unserved' /\ NothingFailed' => sync'.value /\ sync'.object # seen'
      BY <3>1, <3>2, <3>3
    <3> QED BY <1>2, <2>1, <3>2, <3>4 DEF SyncKnown, SyncServed
  <2> QED BY <2>3, <2>4
<1>8. CASE Encode
  <2>1. /\ worker = "encode" /\ worker' = "loop" /\ UNCHANGED <<sync, seen>>
        /\ unserved' = (unserved /\ ~idr)
    BY <1>8 DEF Encode
  <2> QED BY <1>0, <1>2, <1>3, <2>1 DEF SyncKnown, SyncServed
<1>9. CASE EncodeFails
  <2>1. worker' = "loop" /\ UNCHANGED <<sync, seen>> /\ May("failures")
    BY <1>9 DEF EncodeFails
  <2> QED BY <1>2, <1>3, <2>1 DEF SyncKnown, SyncServed
<1>10. CASE /\ ~(\E c \in Callers : RequestSync(c))
            /\ ~(ReceiveFails \/ ReceiveDrops \/ Receive \/ ReadSync \/ ApplySync \/ Encode
                   \/ EncodeFails)
  <2>1. /\ UNCHANGED <<sync, seen, read, idr, unserved>>
        /\ \/ worker' = worker \/ worker' = "broken"
           \/ worker \notin {"read", "encode"} /\ worker' \notin {"read", "encode"}
    BY <1>10, SyncStays
  <2>2. SyncKnown'
    BY <1>2, <2>1 DEF SyncKnown
  <2>3. SyncServed'
    <3>1. CASE worker = "broken" /\ worker' # "broken"
      <4>1. UNCHANGED vars
        BY <3>1, WhoSteps
      <4> QED BY <3>1, <4>1 DEF vars, workerVars
    <3>2. CASE worker # "broken" \/ worker' = "broken"
      BY <1>3, <2>1, <3>2 DEF SyncServed
    <3> QED BY <3>1, <3>2
  <2> QED BY <2>2, <2>3
<1> QED BY <1>4, <1>5, <1>6, <1>7, <1>8, <1>9, <1>10

\* A request for a sync frame that came before the last frame was encoded, or after it, is
\* served by that frame or still there to be seen by the next one, whenever it came between
\* the reading and the clearing.
THEOREM SyncKept == Spec => []SyncServed
<1>1. Init => SyncKnown /\ SyncServed
  <2> SUFFICES ASSUME Init PROVE SyncKnown /\ SyncServed
    OBVIOUS
  <2>1. left.failures <= stream.failures
    BY StreamFields DEF Init
  <2> QED BY <2>1 DEF Init, SyncKnown, SyncServed
<1>2. Inv /\ (SyncKnown /\ SyncServed) /\ [Next]_vars => (SyncKnown /\ SyncServed)'
  BY SyncStep
<1> QED BY <1>1, <1>2, Invariants, PTL DEF Spec

-----------------------------------------------------------------------------
(* The level.                                                               *)

\* The rows of a table are in the order of what they admit.
LEMMA Monotone ==
  ASSUME NEW e, NEW i \in DOMAIN Limits(e), NEW j \in DOMAIN Limits(e), i <= j
  PROVE  LET a == Limits(e)[i]
             b == Limits(e)[j]
         IN  /\ {a.perSecond, a.picture, a.bitrate, b.perSecond, b.picture, b.bitrate} \subseteq Nat
             /\ a.perSecond <= b.perSecond /\ a.picture <= b.picture /\ a.bitrate <= b.bitrate
<1>1. CASE IsHevc(e)
  BY <1>1, SMTT(60) DEF Limits, HevcLimits, Row
<1>2. CASE ~IsHevc(e)
  BY <1>2, SMTT(60) DEF Limits, AvcLimits, Row
<1> QED BY <1>1, <1>2

\* The numbers of the levels.
LEMMA Rows ==
  ASSUME NEW e
  PROVE  DOMAIN Limits(e) \subseteq Nat /\ LevelOneB \notin DOMAIN Limits(e)
BY DEF Limits, AvcLimits, HevcLimits, LevelOneB

\* What the level depends on.
Sized(p) == p.width \in Nat /\ p.height \in Nat /\ p.rate \in Nat
LevelRight(e, p) ==
  /\ Covering(e, p) # {} /\ p.level \in DOMAIN Limits(e) \cup {LevelOneB} =>
       p.level \in Covering(e, p)
  /\ IsHevc(e) => p.level # LevelOneB

\* What a level limits are numbers.
LEMMA Amounts ==
  ASSUME NEW e, NEW p, Legal(e, p), Sized(p)
  PROVE  Picture(e, p) \in Int /\ PerSecond(e, p) \in Int /\ p.bitrate \in Int
<1>1. p.bitrate \in Int
  BY DEF Legal
<1>2. \A m, n \in Int : m * n \in Int
  OBVIOUS
<1>3. \A n \in Int : RoundedUp(n, 16) \in Int /\ RoundedUp(n, 256) \in Int /\ RoundedUp(n, 1) \in Int
  BY DEF RoundedUp
<1>4. Picture(e, p) \in Int
  BY <1>2, <1>3 DEF Picture, Sized
<1>5. Picture(e, p) * p.rate \in Int
  BY <1>2, <1>4 DEF Sized
<1>6. PerSecond(e, p) \in Int
  BY <1>3, <1>5 DEF PerSecond
<1> QED BY <1>1, <1>4, <1>6

\* A higher row admits what a lower one admits.
LEMMA Upward ==
  ASSUME NEW e, NEW p, Legal(e, p), Sized(p), NEW i \in Covering(e, p),
         NEW j \in DOMAIN Limits(e), i <= j
  PROVE  j \in Covering(e, p)
<1> DEFINE a == Limits(e)[i]
           b == Limits(e)[j]
<1>1. i \in DOMAIN Limits(e) /\ Picture(e, p) <= a.picture /\ PerSecond(e, p) <= a.perSecond
      /\ p.bitrate <= a.bitrate
  BY DEF Covering, Covers
<1>2. /\ {a.perSecond, a.picture, a.bitrate, b.perSecond, b.picture, b.bitrate} \subseteq Nat
      /\ a.perSecond <= b.perSecond /\ a.picture <= b.picture /\ a.bitrate <= b.bitrate
  BY <1>1, Monotone
<1>3. Picture(e, p) \in Int /\ PerSecond(e, p) \in Int /\ p.bitrate \in Int
  BY Amounts
<1> HIDE DEF a, b
<1>4. Picture(e, p) <= b.picture /\ PerSecond(e, p) <= b.perSecond /\ p.bitrate <= b.bitrate
  BY <1>1, <1>2, <1>3
<1> QED BY <1>4 DEF Covering, Covers, b

\* What the setter of the level leaves behind.
LEMMA WithLevelRight ==
  ASSUME NEW e \in AllEncoders, NEW q, Legal(e, q), Sized(q), IsHevc(e) => q.level # LevelOneB
  PROVE  LevelRight(e, WithLevel(e, q)) /\ Sized(WithLevel(e, q))
<1> DEFINE p == WithLevel(e, q)
<1>1. /\ p.width = q.width /\ p.height = q.height /\ p.rate = q.rate /\ p.bitrate = q.bitrate
      /\ p.level = LevelSetter(e, q)
  BY DEF WithLevel, Legal
<1> HIDE DEF p
<1>2. Covering(e, p) = Covering(e, q)
  BY <1>1 DEF Covering, Covers, Picture, PerSecond
<1>3. p.level \in {TakesLowest(e, q), Corrects(e, q)}
  <2>1. LevelSetter(e, q) = TakesLowest(e, q) \/ LevelSetter(e, q) = Corrects(e, q)
    BY Zenon DEF LevelSetter, AllEncoders, HCodecLevel, W420Level, MultiAvcLevel, MultiHevcLevel,
                 CompAvcLevel, CompHevcLevel
  <2> QED BY <1>1, <2>1
<1>4. CASE Covering(e, q) = {}
  <2>1. p.level = HighestLevel(e)
    BY <1>3, <1>4 DEF TakesLowest, Corrects
  <2>2. HighestLevel(e) # LevelOneB
    BY DEF HighestLevel, LevelOneB
  <2> QED BY <1>1, <1>2, <1>4, <2>1, <2>2 DEF LevelRight, Sized, p
<1>5. CASE Covering(e, q) # {}
  <2>1. Covering(e, q) \subseteq DOMAIN Limits(e) /\ Covering(e, q) \in SUBSET Nat
    BY Rows DEF Covering
  <2>2. Lowest(e, q) \in Covering(e, q) /\ \A j \in Covering(e, q) : Lowest(e, q) <= j
    BY <1>5, <2>1, LeastExists DEF Lowest
  <2>3. CASE p.level = Lowest(e, q)
    BY <1>1, <1>2, <2>1, <2>2, <2>3, Rows DEF LevelRight, Sized, p
  <2>4. CASE p.level = q.level /\ ~NeedsUpdate(e, q)
    <3>1. q.level \in DOMAIN Limits(e) => q.level \in Covering(e, q)
      <4>1. q.level \in DOMAIN Limits(e) => Lowest(e, q) <= q.level
        BY <2>1, <2>2, <2>4, Rows DEF NeedsUpdate
      <4> QED BY <2>2, <4>1, Upward
    <3>2. q.level # LevelOneB
      BY <2>4 DEF NeedsUpdate
    <3> QED BY <1>1, <1>2, <2>4, <3>1, <3>2 DEF LevelRight, Sized, p
  <2>5. p.level = Lowest(e, q) \/ (p.level = q.level /\ ~NeedsUpdate(e, q))
    BY <1>3, <1>5 DEF TakesLowest, Corrects
  <2> QED BY <2>3, <2>4, <2>5
<1> QED BY <1>4, <1>5

\* After a new size.
LEMMA SizeRight ==
  ASSUME NEW e \in AllEncoders, NEW p, Legal(e, p), Sized(p), LevelRight(e, p),
         NEW w \in Nat, NEW h \in Nat
  PROVE  LevelRight(e, SetSize(e, p, w, h)) /\ Sized(SetSize(e, p, w, h))
<1> DEFINE q == SizeSetter(e, p, w, h)
<1>1. [p EXCEPT !.width = w, !.height = h] = [[p EXCEPT !.width = w] EXCEPT !.height = h]
  BY DEF Legal
<1>2. PICK v \in Nat, g \in Nat : q = [p EXCEPT !.width = v, !.height = g]
  BY DEF SizeSetter, Sized
<1>3. [p EXCEPT !.width = v, !.height = g] = [[p EXCEPT !.width = v] EXCEPT !.height = g]
  BY DEF Legal
<1>4. Legal(e, q) /\ q.level = p.level /\ q.rate = p.rate /\ q.width = v /\ q.height = g
  BY <1>2, <1>3 DEF Legal
<1> HIDE DEF q
<1>5. Sized(q) /\ (IsHevc(e) => q.level # LevelOneB)
  BY <1>2, <1>4 DEF Sized, LevelRight
<1> QED BY <1>4, <1>5, WithLevelRight DEF SetSize, q

\* Whatever a client sets.
LEMMA SetRight ==
  ASSUME NEW e \in AllEncoders, NEW p, Legal(e, p), Sized(p), LevelRight(e, p),
         NEW r \in Set(e, p)
  PROVE  LevelRight(e, r) /\ Sized(r)
<1>1. CASE r \in {SetSize(e, p, s[1], s[2]) : s \in Sizes}
  <2>1. \A s \in Sizes : s[1] \in Nat /\ s[2] \in Nat
    BY DEF Sizes
  <2> QED BY <1>1, <2>1, SizeRight
<1>2. CASE r \in {SetRate(e, p, n) : n \in Rates}
  <2>1. PICK n \in Nat : r = WithLevel(e, [p EXCEPT !.rate = n])
    BY <1>2 DEF Rates, SetRate
  <2> DEFINE q == [p EXCEPT !.rate = n]
  <2>2. Legal(e, q) /\ q.level = p.level /\ q.rate = n /\ q.width = p.width /\ q.height = p.height
    BY DEF Legal
  <2> HIDE DEF q
  <2>3. Sized(q) /\ (IsHevc(e) => q.level # LevelOneB)
    BY <2>1, <2>2 DEF Sized, LevelRight
  <2> QED BY <2>1, <2>2, <2>3, WithLevelRight DEF q
<1>3. CASE r \in {SetBitrate(e, p, n) : n \in Bitrates}
  <2>1. PICK n \in Nat : n >= MinBitrate(e) /\ r = WithLevel(e, [p EXCEPT !.bitrate = n])
    <3>1. PICK b \in Nat : r = WithLevel(e, BitrateSetter(e, p, b))
      BY <1>3 DEF Bitrates, SetBitrate
    <3>2. MinBitrate(e) \in Nat
      BY DEF MinBitrate
    <3>3. \E n \in Nat : n >= MinBitrate(e) /\ BitrateSetter(e, p, b) = [p EXCEPT !.bitrate = n]
      BY <3>2 DEF BitrateSetter
    <3> QED BY <3>1, <3>3
  <2> DEFINE q == [p EXCEPT !.bitrate = n]
  <2>2. /\ Legal(e, q) /\ q.level = p.level /\ q.rate = p.rate /\ q.width = p.width
        /\ q.height = p.height
    BY <2>1 DEF Legal
  <2> HIDE DEF q
  <2>3. Sized(q) /\ (IsHevc(e) => q.level # LevelOneB)
    BY <2>2 DEF Sized, LevelRight
  <2> QED BY <2>1, <2>2, <2>3, WithLevelRight DEF q
<1>4. CASE r \in {SetLevel(e, p, l) : l \in Levels(e)}
  <2>1. PICK l : (IsHevc(e) => l # LevelOneB) /\ r = WithLevel(e, [p EXCEPT !.level = l])
    <3>1. PICK m \in Levels(e) : r = SetLevel(e, p, m)
      BY <1>4
    <3>2. IsHevc(e) => m # LevelOneB
      BY DEF Levels, LevelOneB, HighTier
    <3>3. 6 # LevelOneB
      BY DEF LevelOneB
    <3> QED BY <3>1, <3>2, <3>3 DEF SetLevel
  <2> DEFINE q == [p EXCEPT !.level = l]
  <2>2. /\ Legal(e, q) /\ q.level = l /\ q.rate = p.rate /\ q.width = p.width
        /\ q.height = p.height
    BY DEF Legal
  <2> HIDE DEF q
  <2>3. Sized(q) /\ (IsHevc(e) => q.level # LevelOneB)
    BY <2>1, <2>2 DEF Sized
  <2> QED BY <2>1, <2>2, <2>3, WithLevelRight DEF q
<1>5. CASE r \in {SetQp(p, l) : l \in QpLayers}
  <2>1. PICK l : r = [p EXCEPT !.qp = l]
    BY <1>5 DEF SetQp
  <2>2. /\ r.level = p.level /\ r.rate = p.rate /\ r.width = p.width /\ r.height = p.height
        /\ r.bitrate = p.bitrate
    BY <2>1 DEF Legal
  <2>3. Covering(e, r) = Covering(e, p)
    BY <2>2 DEF Covering, Covers, Picture, PerSecond
  <2> QED BY <2>2, <2>3 DEF LevelRight, Sized
<1> QED BY <1>1, <1>2, <1>3, <1>4, <1>5, Zenon DEF Set

\* The level of a new component admits its parameters.
LEMMA DefaultRight ==
  ASSUME NEW e \in AllEncoders
  PROVE  LevelRight(e, DefaultParams(e)) /\ Sized(DefaultParams(e))
<1>1. DefaultParams(e) =
        Defaults(IF e = "hcodec" THEN 16 ELSE 176, IF e = "hcodec" THEN 16 ELSE 144,
                 IF ~IsHevc(e) THEN 12 ELSE IF e = "multiHevc" THEN HighTier(9) ELSE 6)
  BY Zenon DEF AllEncoders, IsHevc, DefaultParams, HCodecDefaults, W420Defaults, MultiDefaults,
               CompDefaults
<1> DEFINE p == DefaultParams(e)
<1>2. /\ p.width = (IF e = "hcodec" THEN 16 ELSE 176)
      /\ p.height = (IF e = "hcodec" THEN 16 ELSE 144) /\ p.rate = 1 /\ p.bitrate = 64000
      /\ p.level = (IF ~IsHevc(e) THEN 12 ELSE IF e = "multiHevc" THEN 109 ELSE 6)
  BY <1>1 DEF Defaults, HighTier
<1> HIDE DEF p
<1>3. Sized(p) /\ p.level # LevelOneB
  BY <1>2 DEF Sized, LevelOneB
<1>4. CASE ~IsHevc(e)
  <2>1. RoundedUp(p.width, 16) * RoundedUp(p.height, 16) \in {1, 99}
    BY <1>2 DEF RoundedUp
  <2>2. Picture(e, p) \in {1, 99} /\ PerSecond(e, p) \in {1, 99}
    BY <1>2, <1>4, <2>1 DEF Picture, PerSecond, RoundedUp
  <2>3. 12 \in DOMAIN Limits(e) /\ Limits(e)[12] = Row(245760, 8192, 50000000)
    BY <1>4, SMTT(30) DEF Limits, AvcLimits
  <2>4. 12 \in Covering(e, p)
    BY <1>2, <2>2, <2>3 DEF Covering, Covers, Row
  <2> QED BY <1>2, <1>3, <1>4, <2>4 DEF LevelRight, p
<1>5. CASE IsHevc(e) /\ e # "multiHevc"
  <2>1. p.width * p.height = 25344
    BY <1>2, <1>5 DEF IsHevc
  <2>2. Picture(e, p) = 25344 /\ PerSecond(e, p) = 99
    BY <1>2, <1>5, <2>1 DEF Picture, PerSecond, RoundedUp
  <2>3. 6 \in DOMAIN Limits(e) /\ Limits(e)[6] = Row(261120, 2228224, 12000000)
    BY <1>5, SMTT(30) DEF Limits, HevcLimits
  <2>4. 6 \in Covering(e, p)
    BY <1>2, <2>2, <2>3 DEF Covering, Covers, Row
  <2> QED BY <1>2, <1>3, <1>5, <2>4 DEF LevelRight, p
<1>6. CASE e = "multiHevc"
  <2>1. IsHevc(e) /\ p.level = 109 /\ 109 \notin DOMAIN Limits(e) \cup {LevelOneB}
    BY <1>2, <1>6 DEF IsHevc, Limits, HevcLimits, LevelOneB
  <2> QED BY <1>3, <2>1 DEF LevelRight, p
<1> QED BY <1>4, <1>5, <1>6

\* The parameters change when a client sets one, and with the size of the first work.
LEMMA ParamsChange ==
  ASSUME [Next]_vars
  PROVE  params' = params \/ params' \in Set(stream.encoder, params) \/ \E w : params' = Resized(w)
<1>1. CASE UNCHANGED vars
  BY <1>1 DEF vars
<1>2. ASSUME NEW c \in Callers, StartCheck(c) \/ Starting(c) PROVE params' = params
  BY <1>2 DEF StartCheck, Starting, StartInit, StartThread, StartRejoin, StartReturn, StartStep
<1>3. ASSUME NEW c \in Callers, StopCheck(c) \/ Stopping(c) PROVE params' = params
  BY <1>3 DEF StopCheck, Stopping, StopClear, StopAskThread, StopRequest, StopWaited, StopThread,
              StopJoined, StopDone, Close, StopStep
<1>4. ASSUME NEW c \in Callers,
             \/ FlushTest(c) \/ Flushing(c) \/ RequestSync(c) \/ Configure(c)
             \/ \E k \in stream.kinds : QueuePush(c, k)
      PROVE  params' = params \/ params' \in Set(stream.encoder, params)
  BY <1>4 DEF FlushTest, Flushing, FlushMove, FlushPop, FlushBreaks, RequestSync, Configure,
              QueuePush, FlushStep
<1>5. CASE LoopTest \/ TakeMove \/ TakePop \/ Signal
  BY <1>5 DEF LoopTest, TakeMove, TakePop, Signal
<1>6. CASE ReceiveEmpty \/ ReceiveFails \/ ReceiveDrops \/ Receive
  BY <1>6 DEF ReceiveEmpty, ReceiveFails, ReceiveDrops, Receive
<1>7. CASE ReadSync \/ ApplySync \/ Encode \/ EncodeFails \/ EncodeBreaks
  BY <1>7 DEF ReadSync, ApplySync, Encode, EncodeFails, EncodeBreaks, EncodeStep
<1> QED BY <1>1, <1>2, <1>3, <1>4, <1>5, <1>6, <1>7, WhoSteps

LevelKnown == Sized(params) /\ LevelRight(stream.encoder, params)

\* Every step keeps the level right.
LEMMA LevelStep ==
  ASSUME Inv, LevelKnown, [Next]_vars
  PROVE  LevelKnown'
<1>1. stream' = stream /\ stream.encoder \in AllEncoders /\ Legal(stream.encoder, params)
  BY FailuresCount, StreamFields DEF Inv, Typed, TypeOK, LegalParams
<1>2. PICK e \in AllEncoders : e = stream.encoder
  BY <1>1
<1>3. \A w : Sized(Resized(w)) /\ LevelRight(e, Resized(w))
  <2> SUFFICES ASSUME NEW w PROVE Sized(Resized(w)) /\ LevelRight(e, Resized(w))
    OBVIOUS
  <2>1. PictureSize(w).width \in Nat /\ PictureSize(w).height \in Nat
    <3>1. DefaultSize.width \in Nat /\ DefaultSize.height \in Nat
      BY <1>2, DefaultRight DEF DefaultSize, Sized
    <3> QED BY <3>1 DEF PictureSize
  <2>2. Sized(params) /\ LevelRight(e, params) /\ Legal(e, params)
    BY <1>1, <1>2 DEF LevelKnown
  <2>3. /\ Sized(SetSize(e, params, PictureSize(w).width, PictureSize(w).height))
        /\ LevelRight(e, SetSize(e, params, PictureSize(w).width, PictureSize(w).height))
    BY <2>1, <2>2, SizeRight
  <2> QED BY <1>2, <2>2, <2>3 DEF Resized
<1>4. \A r \in Set(e, params) : Sized(r) /\ LevelRight(e, r)
  BY <1>1, <1>2, SetRight DEF LevelKnown
<1>5. PICK p : p = params'
  OBVIOUS
<1>6. Sized(p) /\ LevelRight(e, p)
  BY <1>2, <1>3, <1>4, <1>5, ParamsChange DEF LevelKnown
<1>7. e = stream'.encoder
  BY <1>1, <1>2
<1> QED BY <1>5, <1>6, <1>7 DEF LevelKnown

\* Whatever is set, in whatever order, a level of the table admits the size, the frame rate
\* and the bitrate, if any row does.
THEOREM LevelsCover == Spec => []LevelCovers
<1>1. Init => LevelKnown
  <2> SUFFICES ASSUME Init PROVE LevelKnown
    OBVIOUS
  <2> QED BY DefaultRight, StreamFields DEF Init, LevelKnown
<1>2. Inv /\ LevelKnown /\ [Next]_vars => LevelKnown'
  BY LevelStep
<1>3. LevelKnown => LevelCovers
  BY DEF LevelKnown, LevelRight, LevelCovers
<1> QED BY <1>1, <1>2, <1>3, Invariants, PTL DEF Spec

-----------------------------------------------------------------------------
(* One client that does not flush.                                          *)

\* Threads that are not the stream's do nothing.
OthersIdle == \A c \in Callers : c \notin stream.threads => pc[c] = "idle"

Amid == {"clear", "askThread", "request", "waiting", "signalled", "stopThread", "joining", "stopped"}

\* Where the one client is tells what there is of a worker and of the library.
Orderly(c) ==
  /\ pc[c] \in Amid <=> state = "STOPPING"
  /\ pc[c] \in {"init", "create", "rejoining", "created", "close"} => state = "UNINITIALIZED"
  /\ pc[c] \in {"init", "create", "rejoining", "close", "stopped"} => worker = "none"
  /\ pc[c] = "idle" /\ state = "UNINITIALIZED" => worker = "none"
  /\ worker = "none" => ~running
  /\ pc[c] = "create" => handle
  /\ worker # "none" => handle

NoTrouble == \A c \in Callers : stream.threads = {c} /\ NothingFailed /\ ~flushed =>
  worker # "broken" /\ Orderly(c)

\* Who steps is a thread of the stream.
LEMMA Actor ==
  ASSUME OthersIdle, NEW c \in Callers,
         \/ StartCheck(c) \/ Starting(c) \/ StopCheck(c) \/ Stopping(c)
         \/ FlushTest(c) \/ Flushing(c) \/ RequestSync(c) \/ Configure(c)
         \/ \E k \in stream.kinds : QueuePush(c, k)
  PROVE  c \in stream.threads
<1>1. c \in stream.threads \/ pc[c] # "idle"
  <2>1. CASE StartCheck(c) \/ StopCheck(c) \/ FlushTest(c) \/ RequestSync(c) \/ Configure(c)
    BY <2>1 DEF StartCheck, StopCheck, FlushTest, RequestSync, Configure, MayCall
  <2>2. CASE Starting(c)
    BY <2>2 DEF Starting, StartInit, StartThread, StartRejoin, StartReturn
  <2>3. CASE Stopping(c)
    BY <2>3 DEF Stopping, StopClear, StopAskThread, StopRequest, StopWaited, StopThread, StopJoined,
                StopDone, Close
  <2>4. CASE Flushing(c)
    BY <2>4 DEF Flushing, FlushMove, FlushPop, FlushBreaks
  <2>5. ASSUME NEW k \in stream.kinds, QueuePush(c, k) PROVE c \in stream.threads
    BY <2>5 DEF QueuePush, MayCall
  <2> QED BY <2>1, <2>2, <2>3, <2>4, <2>5
<1> QED BY <1>1 DEF OthersIdle

\* A step moves one thread, which was not idle or is one of the stream's.
LEMMA OthersIdleStep ==
  ASSUME Inv, OthersIdle, [Next]_vars
  PROVE  OthersIdle'
<1>0. stream' = stream /\ TypeOK
  BY FailuresCount DEF Inv, Typed
<1>1. ASSUME NEW c \in stream.threads, NEW place, GoTo(c, place) PROVE OthersIdle'
  BY <1>0, <1>1 DEF GoTo, OthersIdle, TypeOK
<1>2. ASSUME pc' = pc PROVE OthersIdle'
  BY <1>0, <1>2 DEF OthersIdle
<1>3. ASSUME NEW c \in Callers, StartCheck(c) \/ Starting(c) PROVE OthersIdle'
  <2>1. c \in stream.threads
    BY <1>3, Actor
  <2>2. \E place : GoTo(c, place)
    BY <1>3 DEF StartCheck, Starting, StartInit, Opened, NotOpened, StartThread, StartRejoin, StartReturn
  <2> QED BY <1>1, <2>1, <2>2
<1>4. ASSUME NEW c \in Callers, StopCheck(c) \/ Stopping(c) PROVE OthersIdle'
  <2>1. c \in stream.threads
    BY <1>4, Actor
  <2>2. \E place : GoTo(c, place)
    BY <1>4 DEF StopCheck, Stopping, StopClear, StopAskThread, StopRequest, StopWaited, StopThread,
                StopJoined, StopDone, Close
  <2> QED BY <1>1, <2>1, <2>2
<1>5. ASSUME NEW c \in Callers,
             \/ FlushTest(c) \/ Flushing(c) \/ RequestSync(c) \/ Configure(c)
             \/ \E k \in stream.kinds : QueuePush(c, k)
      PROVE  OthersIdle'
  <2>1. c \in stream.threads
    BY <1>5, Actor
  <2>2. pc' = pc \/ \E place : GoTo(c, place)
    BY <1>5 DEF FlushTest, Flushing, FlushMove, FlushPop, FlushBreaks, RequestSync, Configure,
                QueuePush
  <2> QED BY <1>1, <1>2, <2>1, <2>2
<1>6. CASE Signal
  <2>1. pc' = pc \/ \E c \in Callers : pc[c] = "waiting" /\ GoTo(c, "signalled")
    BY <1>6 DEF Signal
  <2>2. \A c \in Callers : pc[c] = "waiting" => c \in stream.threads
    BY DEF OthersIdle
  <2> QED BY <1>1, <1>2, <2>1, <2>2
<1>7. CASE \/ LoopTest \/ TakeMove \/ TakePop
           \/ ReceiveEmpty \/ ReceiveFails \/ ReceiveDrops \/ Receive
           \/ ReadSync \/ ApplySync \/ Encode \/ EncodeFails \/ EncodeBreaks
  <2>1. pc' = pc
    BY <1>7 DEF LoopTest, TakeMove, TakePop, ReceiveEmpty, ReceiveFails, ReceiveDrops, Receive,
                ReceiveStep, ReadSync, ApplySync, Encode, EncodeFails, EncodeBreaks, EncodeStep
  <2> QED BY <1>2, <2>1
<1>8. CASE UNCHANGED vars
  BY <1>2, <1>8 DEF vars
<1> QED BY <1>3, <1>4, <1>5, <1>6, <1>7, <1>8, WhoSteps

\* A step of one client that does not flush, and of its worker, while nothing fails.
LEMMA OrderlyStep ==
  ASSUME Inv, FlushKnown, OthersIdle, NEW c \in Callers, stream.threads = {c}, Orderly(c),
         worker # "broken", ~flushed', ~May("failures"), [Next]_vars
  PROVE  worker' # "broken" /\ Orderly(c)'
<1>0. TypeOK /\ Position /\ running \in BOOLEAN /\ state \in {"UNINITIALIZED", "STARTED", "STOPPING"}
  BY DEF Inv, Typed, TypeOK
<1> USE DEF Amid
<1>1. CASE UNCHANGED vars
  BY <1>1 DEF vars, workerVars, threadVars, codecVars, Orderly
<1>2. ASSUME NEW place, GoTo(c, place) PROVE pc'[c] = place
  BY <1>0, <1>2 DEF GoTo, TypeOK
<1>3. ASSUME NEW d \in Callers, StartCheck(d) \/ Starting(d)
      PROVE  worker' # "broken" /\ Orderly(c)'
  <2>1. d = c
    BY <1>3, Actor
  <2>2. CASE StartCheck(c)
    <3>1. pc'[c] = "init" /\ pc[c] = "idle" /\ state = "UNINITIALIZED"
      BY <1>2, <2>2 DEF StartCheck, MayCall
    <3>2. UNCHANGED <<state, worker, running, handle>>
      BY <2>2 DEF StartCheck, threadVars, codecVars
    <3> QED BY <3>1, <3>2 DEF Orderly
  <2>3. CASE StartInit(c)
    <3>1. Opened(c)
      BY <2>3 DEF StartInit, NotOpened
    <3>2. pc'[c] = "create" /\ pc[c] = "init" /\ handle'
      BY <1>2, <2>3, <3>1 DEF StartInit, Opened
    <3>3. UNCHANGED <<state, worker, running>>
      BY <2>3 DEF StartInit, threadVars
    <3> QED BY <3>2, <3>3 DEF Orderly
  <2>4. CASE StartThread(c)
    <3>1. pc[c] = "create" /\ ~running /\ handle /\ state = "UNINITIALIZED"
      BY <2>4 DEF StartThread, Orderly
    <3>2. pc'[c] = "created" /\ running' = TRUE /\ worker' = "loop"
      BY <1>2, <2>4, <3>1 DEF StartThread
    <3>3. UNCHANGED <<state, handle>>
      BY <2>4 DEF StartThread, codecVars
    <3> QED BY <3>1, <3>2, <3>3 DEF Orderly
  <2>5. CASE StartRejoin(c)
    BY <2>5 DEF StartRejoin, Orderly
  <2>6. CASE StartReturn(c)
    <3>1. pc[c] = "created" /\ pc'[c] = "idle" /\ state' = "STARTED"
      BY <1>2, <2>6 DEF StartReturn
    <3>2. UNCHANGED <<worker, running, handle>>
      BY <2>6 DEF StartReturn, threadVars, codecVars
    <3> QED BY <3>1, <3>2 DEF Orderly
  <2> QED BY <1>3, <2>1, <2>2, <2>3, <2>4, <2>5, <2>6 DEF Starting
<1>4. ASSUME NEW d \in Callers, StopCheck(d) \/ Stopping(d)
      PROVE  worker' # "broken" /\ Orderly(c)'
  <2>1. d = c
    BY <1>4, Actor
  <2>2. CASE StopCheck(c)
    <3>1. pc[c] = "idle" /\ UNCHANGED <<worker, running, handle>>
      BY <2>2 DEF StopCheck, MayCall, threadVars
    <3>2. \/ state = "UNINITIALIZED" /\ state' = state /\ pc'[c] = "close"
          \/ state # "UNINITIALIZED" /\ state' = "STOPPING" /\ pc'[c] = "clear"
      BY <1>2, <2>2 DEF StopCheck
    <3> QED BY <3>1, <3>2 DEF Orderly
  <2>3. CASE StopClear(c) \/ StopRequest(c) \/ StopWaited(c)
    <3>1. UNCHANGED <<state, worker, running, handle>>
      BY <2>3 DEF StopClear, StopRequest, StopWaited, threadVars
    <3>2. pc[c] \in Amid /\ pc'[c] \in {"askThread", "waiting", "stopThread"}
      BY <1>2, <2>3 DEF StopClear, StopRequest, StopWaited
    <3> QED BY <3>1, <3>2 DEF Orderly
  <2>4. CASE StopAskThread(c) \/ StopThread(c)
    <3>1. UNCHANGED <<state, worker, running, handle>> /\ pc[c] \in Amid
      BY <2>4 DEF StopAskThread, StopThread, threadVars
    <3>2. pc'[c] \in {"request", "joining"} \/ (pc'[c] = "stopped" /\ ~running)
      BY <1>2, <2>4 DEF StopAskThread, StopThread
    <3>3. ~running => worker = "none"
      BY <1>0 DEF Position
    <3> QED BY <3>1, <3>2, <3>3 DEF Orderly
  <2>5. CASE StopJoined(c)
    <3>1. UNCHANGED <<state, handle>> /\ worker' = "none" /\ ~running' /\ pc[c] = "joining"
          /\ pc'[c] = "stopped"
      BY <1>2, <2>5 DEF StopJoined
    <3> QED BY <3>1 DEF Orderly
  <2>6. CASE StopDone(c)
    <3>1. UNCHANGED <<worker, running, handle>> /\ pc[c] = "stopped" /\ pc'[c] = "close"
          /\ state' = "UNINITIALIZED"
      BY <1>2, <2>6 DEF StopDone, threadVars
    <3> QED BY <3>1 DEF Orderly
  <2>7. CASE Close(c)
    <3>1. UNCHANGED <<state, worker, running>> /\ pc[c] = "close" /\ pc'[c] = "idle"
      BY <1>2, <2>7 DEF Close, threadVars
    <3> QED BY <3>1 DEF Orderly
  <2> QED BY <1>4, <2>1, <2>2, <2>3, <2>4, <2>5, <2>6, <2>7 DEF Stopping
<1>5. ASSUME NEW d \in Callers, FlushTest(d) \/ Flushing(d) PROVE FALSE
  <2>1. flushed'
    BY <1>5 DEF FlushTest, Flushing, FlushMove, FlushPop, FlushBreaks, FlushKnown
  <2> QED BY <2>1
<1>6. ASSUME NEW d \in Callers,
             RequestSync(d) \/ Configure(d) \/ \E k \in stream.kinds : QueuePush(d, k)
      PROVE  worker' # "broken" /\ Orderly(c)'
  <2>1. UNCHANGED <<pc, state, worker, running, handle>>
    BY <1>6 DEF RequestSync, Configure, QueuePush, FeedStep, workerVars, threadVars, codecVars
  <2> QED BY <2>1 DEF Orderly
<1>7. ASSUME worker # "none", worker' \notin {"none", "broken"}, UNCHANGED <<state, running, handle>>,
             \/ pc'[c] = pc[c] \/ (pc[c] = "waiting" /\ pc'[c] = "signalled")
      PROVE  worker' # "broken" /\ Orderly(c)'
  BY <1>7 DEF Orderly
<1>8. CASE LoopTest \/ TakeMove \/ TakePop \/ Signal
  <2>1. UNCHANGED <<state, running, handle>> /\ flushed' = flushed
    BY <1>8 DEF LoopTest, TakeMove, TakePop, Signal, WorkerStep, threadVars
  <2>2. worker # "none" /\ worker' # "none"
    BY <1>8 DEF LoopTest, TakeMove, TakePop, Signal
  <2>3. worker' # "broken"
    <3>1. CASE TakePop
      <4>1. queue # <<>>
        BY <2>1, <3>1 DEF TakePop, FlushKnown
      <4> QED BY <3>1, <4>1 DEF TakePop
    <3>2. CASE ~TakePop
      BY <1>8, <3>2 DEF LoopTest, TakeMove, Signal
    <3> QED BY <3>1, <3>2
  <2>4. pc'[c] = pc[c] \/ (pc[c] = "waiting" /\ pc'[c] = "signalled")
    BY <1>0, <1>8 DEF LoopTest, TakeMove, TakePop, Signal, GoTo, TypeOK
  <2> QED BY <1>7, <2>1, <2>2, <2>3, <2>4
<1>9. CASE ReceiveEmpty \/ ReceiveFails \/ ReceiveDrops \/ Receive
  <2>1. UNCHANGED <<pc, state, running, handle>>
    BY <1>9 DEF ReceiveEmpty, ReceiveFails, ReceiveDrops, Receive, ReceiveStep, WorkerStep, threadVars
  <2>2. worker = "taken" /\ handle
    BY <1>9 DEF ReceiveEmpty, ReceiveFails, ReceiveDrops, Receive, Orderly
  <2>3. worker' \in {"loop", "ready"}
    BY <1>9, <2>2 DEF ReceiveEmpty, ReceiveFails, ReceiveDrops, Receive
  <2> QED BY <1>7, <2>1, <2>2, <2>3
<1>10. CASE ReadSync \/ ApplySync \/ Encode \/ EncodeFails \/ EncodeBreaks
  <2>1. UNCHANGED <<pc, state, running, handle>>
    BY <1>10 DEF ReadSync, ApplySync, Encode, EncodeFails, EncodeBreaks, EncodeStep, WorkerStep, threadVars
  <2>2. worker # "none" /\ handle
    BY <1>10 DEF ReadSync, ApplySync, Encode, EncodeFails, EncodeBreaks, Orderly
  <2>3. worker' \in {"read", "encode", "loop"}
    BY <1>10, <2>2 DEF ReadSync, ApplySync, Encode, EncodeFails, EncodeBreaks
  <2> QED BY <1>7, <2>1, <2>2, <2>3
<1> QED BY <1>1, <1>3, <1>4, <1>5, <1>6, <1>8, <1>9, <1>10, WhoSteps

\* A flush is not forgotten.
LEMMA FlushedStays ==
  ASSUME [Next]_vars
  PROVE  flushed => flushed'
<1>1. CASE UNCHANGED vars
  BY <1>1 DEF vars, ghostVars
<1>2. ASSUME NEW c \in Callers, StartCheck(c) \/ Starting(c) PROVE flushed' = flushed
  BY <1>2 DEF StartCheck, Starting, StartInit, StartThread, StartRejoin, StartReturn, StartStep
<1>3. ASSUME NEW c \in Callers, StopCheck(c) \/ Stopping(c) PROVE flushed' = flushed
  BY <1>3 DEF StopCheck, Stopping, StopClear, StopAskThread, StopRequest, StopWaited, StopThread,
              StopJoined, StopDone, Close, StopStep
<1>4. ASSUME NEW c \in Callers,
             \/ FlushTest(c) \/ Flushing(c) \/ RequestSync(c) \/ Configure(c)
             \/ \E k \in stream.kinds : QueuePush(c, k)
      PROVE  flushed => flushed'
  BY <1>4 DEF FlushTest, Flushing, FlushMove, FlushPop, FlushBreaks, RequestSync, Configure,
              QueuePush
<1>5. CASE LoopTest \/ TakeMove \/ TakePop \/ Signal
  BY <1>5 DEF LoopTest, TakeMove, TakePop, Signal, WorkerStep
<1>6. CASE ReceiveEmpty \/ ReceiveFails \/ ReceiveDrops \/ Receive
  BY <1>6 DEF ReceiveEmpty, ReceiveFails, ReceiveDrops, Receive, ReceiveStep, WorkerStep
<1>7. CASE ReadSync \/ ApplySync \/ Encode \/ EncodeFails \/ EncodeBreaks
  BY <1>7 DEF ReadSync, ApplySync, Encode, EncodeFails, EncodeBreaks, EncodeStep, WorkerStep
<1> QED BY <1>1, <1>2, <1>3, <1>4, <1>5, <1>6, <1>7, WhoSteps

Peace == FlushKnown /\ OthersIdle /\ left.failures <= stream.failures /\ NoTrouble

\* With one client thread that never flushes, and without a failure, no sequence of calls
\* makes the worker use a closed handle or an empty list.
THEOREM NeverBreaks == Spec => []NeverBroken
<1>1. Init => Peace
  <2> SUFFICES ASSUME Init PROVE Peace
    OBVIOUS
  <2>1. left.failures <= stream.failures
    BY StreamFields DEF Init
  <2>2. \A c \in Callers : Orderly(c)
    BY DEF Init, Orderly, Amid
  <2> QED BY <2>1, <2>2 DEF Init, Peace, FlushKnown, OthersIdle, NoTrouble
<1>2. ASSUME Inv, Peace, [Next]_vars PROVE Peace'
  <2>1. /\ stream' = stream /\ left'.failures <= left.failures
        /\ (May("failures") => left'.failures < left.failures)
    BY <1>2, FailuresCount
  <2>2. left.failures \in Nat /\ left'.failures \in Nat /\ stream.failures \in Nat
    <3>1. TypeOK /\ TypeOK'
      BY <1>2, Inductive DEF Inv, Typed
    <3> QED BY <3>1, StreamFields DEF TypeOK
  <2>3. NothingFailed' => NothingFailed /\ ~May("failures")
    BY <1>2, <2>1, <2>2 DEF NothingFailed, Peace
  <2>4. left'.failures <= stream'.failures
    BY <1>2, <2>1, <2>2 DEF Peace
  <2>5. FlushKnown' /\ OthersIdle'
    BY <1>2, FlushKnownStep, OthersIdleStep DEF Peace
  <2>6. NoTrouble'
    <3> SUFFICES ASSUME NEW c \in Callers, stream.threads = {c}, NothingFailed', ~flushed'
                 PROVE  worker' # "broken" /\ Orderly(c)'
      BY <2>1 DEF NoTrouble
    <3>1. ~flushed
      BY <1>2, FlushedStays
    <3>2. worker # "broken" /\ Orderly(c)
      BY <1>2, <2>3, <3>1 DEF Peace, NoTrouble
    <3> QED BY <1>2, <2>3, <3>2, OrderlyStep DEF Peace
  <2> QED BY <2>4, <2>5, <2>6 DEF Peace
<1>3. ASSUME Inv, Peace PROVE NeverBroken
  <2> SUFFICES ASSUME Cardinality(stream.threads) = 1, NothingFailed, ~flushed
               PROVE  worker # "broken"
    BY DEF NeverBroken
  <2>1. stream.threads \subseteq Callers
    BY <1>3, StreamFields DEF Inv, Typed, TypeOK
  <2>2. IsFiniteSet(stream.threads)
    BY <2>1, CallersAssumption, FS_Subset
  <2>3. PICK c : stream.threads = {c}
    BY <2>2, FS_Singleton
  <2> QED BY <1>3, <2>1, <2>3 DEF Peace, NoTrouble
<1> QED BY <1>1, <1>2, <1>3, Invariants, PTL DEF Spec
=============================================================================
