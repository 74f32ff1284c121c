-------------------------- MODULE SimpleComponent --------------------------
(***************************************************************************)
(* The audio decoders (C2AudioDecComponent.cpp and its codecs) and the     *)
(* image decoder (C2SoftImageComponent.cpp, C2SoftImagedec.cpp).  Both     *)
(* run the loop of SoftVdecComponent with differences of their own: the    *)
(* flush_sm of the audio decoders does not wait for processQueue, the      *)
(* image decoder drops a work whose processing failed, and a codec sends   *)
(* output in a loop of critical sections, one finish() after another.      *)
(* Init chooses the decoder; AudioCodecs says what it does.                *)
(*                                                                         *)
(* A call is one action for each lock it takes and each message it posts,  *)
(* processQueue one for each time it locks mWorkQueue.  A step that uses a *)
(* null or a stale pointer leads to "broken", and nothing happens any more.*)
(*                                                                         *)
(* Abstracted as in SoftVdecComponent; besides, the clone an image decoder *)
(* sends for the picture of an EOS work, and what a work carries when it   *)
(* is given back.                                                          *)
(***************************************************************************)
EXTENDS Integers, Sequences, FiniteSets, WorkDeque, AudioCodecs

CONSTANTS
  Streams,     \* the decoders the instance looks at, each with the entries it gets
  Callers,     \* the client threads
  NoCaller,    \* a value that is no client thread
  MaxEntries   \* bound: works and drain marks the clients queue

AllKinds == {"data", "csd", "eos", "drain", "drainEos"}

\* A stream is for one decoder, has so many entries of these kinds, and meets so many
\* failures (bounds).
ASSUME StreamsAssumption ==
  Streams \subseteq [decoder : AllDecoders, entries : 0 .. MaxEntries, kinds : SUBSET AllKinds,
                    failures : Nat]
ASSUME CallersAssumption == NoCaller \notin Callers /\ IsFiniteSet(Callers)
ASSUME BoundsAssumption == MaxEntries \in Nat

Entries == 1 .. MaxEntries
NoEntry == 0

VARIABLES
  stream,     \* which decoder this is, and what it will get
  execState,  \* mExecState.mState
  pc,         \* where each client thread is
  messages,   \* the messages of mLooper
  running,    \* mRunning of the handler
  queue,      \* mQueue of mWorkQueue
  pending,    \* mPendingWork of mWorkQueue
  flush,      \* mFlush of mWorkQueue
  handler,    \* where the handler thread is in processQueue
  current,    \* the entry it has taken
  more,       \* hasQueuedWork
  processed,  \* workletsProcessed of the work
  outdated,   \* the generation is not that of the work any more
  codec,      \* what the codec keeps, see AudioCodecs
  next,       \* entries pushed so far
  kind,       \* what each entry is
  answer,     \* how each entry was given back
  before,     \* entries pushed when each thread in flush_sm emptied the queue
  cleared,    \* entries pushed when stop or reset last emptied the queue
  left        \* failures that may still happen

clientVars  == <<execState, pc, before, cleared>>
queueVars   == <<queue, pending, flush>>
handlerVars == <<running, handler, current, more, processed, codec>>
entryVars   == <<next, kind>>
vars == <<stream, clientVars, messages, queueVars, handlerVars, outdated, entryVars, answer, left>>

-----------------------------------------------------------------------------
decoder == stream.decoder

Answer(S, how) == [w \in Entries |-> IF w \in S THEN how ELSE answer[w]]
GoTo(c, place) == pc' = [pc EXCEPT ![c] = place]
Post(what, c) == messages' = Append(messages, [what |-> what, from |-> c])

Init ==
  /\ stream \in Streams
  /\ execState = "UNINITIALIZED" /\ pc = [c \in Callers |-> "idle"]
  /\ before = [c \in Callers |-> 0] /\ cleared = 0
  /\ messages = <<>> /\ running = FALSE
  /\ queue = {} /\ pending = {} /\ flush = FALSE
  /\ handler = "idle" /\ current = NoEntry /\ more = FALSE /\ processed = FALSE
  /\ outdated = FALSE
  /\ \E delay \in IF decoder = "aac" THEN 0 .. MaxDelay ELSE {0} :
       codec = NewCodec(decoder, delay)
  /\ next = 0 /\ kind = [w \in Entries |-> "data"]
  /\ answer = [w \in Entries |-> "none"]
  /\ left = stream.failures

-----------------------------------------------------------------------------
(* The calls of the client threads.                                         *)

Releasing == \E c \in Callers : pc[c] \in {"releasing", "relWait", "released"}
MayCall(c) == pc[c] = "idle" /\ ~Releasing

\* A step of a call that changes nothing but where its thread is.
Passes(c, place) ==
  /\ GoTo(c, place)
  /\ UNCHANGED <<stream, execState, before, cleared, messages, queueVars, handlerVars, outdated,
                 entryVars, answer, left>>

\* A step of a call that posts a message.
Posts(c, what, from, place) ==
  /\ Post(what, from) /\ GoTo(c, place)
  /\ UNCHANGED <<stream, execState, before, cleared, queueVars, handlerVars, outdated, entryVars,
                 answer, left>>

SetState(c, s, place) ==
  /\ execState' = s /\ GoTo(c, place)
  /\ UNCHANGED <<stream, before, cleared, messages, queueVars, handlerVars, outdated, entryVars,
                 answer, left>>

StartCheck(c) ==
  /\ MayCall(c) /\ execState # "RUNNING"
  /\ Passes(c, IF execState = "UNINITIALIZED" THEN "init" ELSE "start")

\* kWhatInit is awaited, kWhatStart is not.
StartPost(c) ==
  \/ pc[c] = "init" /\ Posts(c, "init", c, "initWait")
  \/ pc[c] = "start" /\ Posts(c, "start", NoCaller, "started")

StartReturn(c) == pc[c] = "started" /\ SetState(c, "RUNNING", "idle")

\* queue_nb and drain_nb: check the state; push; tell the handler if the queue
\* was empty.
QueueCheck(c) ==
  /\ MayCall(c) /\ execState = "RUNNING"
  /\ next + Cardinality({d \in Callers : pc[d] = "queueing"}) < stream.entries
  /\ Passes(c, "queueing")

QueuePush(c, k) ==
  /\ pc[c] = "queueing" /\ next < stream.entries
  /\ next' = next + 1 /\ kind' = [kind EXCEPT ![next + 1] = k]
  /\ queue' = queue \cup {next + 1}
  /\ GoTo(c, IF queue = {} THEN "posting" ELSE "idle")
  /\ UNCHANGED <<stream, execState, before, cleared, messages, pending, flush, handlerVars,
                 outdated, answer, left>>

QueuePost(c) == pc[c] = "posting" /\ Posts(c, "process", NoCaller, "idle")

FlushCheck(c) == MayCall(c) /\ execState = "RUNNING" /\ Passes(c, "flushing")

\* The flushed list gets the works queued and pending; the drain marks are dropped.
\* A mutant leaves out the pending works.
QueuedOnly == queue
Flushed == queue \cup pending

FlushTake(c) ==
  /\ pc[c] = "flushing" /\ GoTo(c, "flushWait")
  /\ flush' = TRUE /\ outdated' = TRUE
  /\ queue' = {} /\ pending' = {}
  /\ answer' = Answer(Flushed, "flushed")
  /\ before' = [before EXCEPT ![c] = next]
  /\ UNCHANGED <<stream, execState, cleared, messages, handlerVars, entryVars, left>>

\* processQueue has a work in its hands.
Processing == handler \in {"taken", "sending", "processed", "broken"}

\* Only the flush_sm of the image decoder waits until processQueue has returned.  In a
\* mutant none does.
ReturnAtOnce == TRUE
FlushMayReturn == decoder = "image" => ~Processing

FlushReturn(c) ==
  /\ pc[c] = "flushWait" /\ FlushMayReturn
  /\ GoTo(c, "idle") /\ before' = [before EXCEPT ![c] = 0]
  /\ UNCHANGED <<stream, execState, cleared, messages, queueVars, handlerVars, outdated,
                 entryVars, answer, left>>

StopCheck(c) == MayCall(c) /\ execState = "RUNNING" /\ SetState(c, "STOPPED", "stopping")
ResetCall(c) == MayCall(c) /\ SetState(c, "UNINITIALIZED", "resetting")
ReleaseCall(c) == MayCall(c) /\ Passes(c, "releasing")

\* stop and reset destroy the works of mWorkQueue.
Clear(c) ==
  /\ \/ pc[c] = "stopping" /\ GoTo(c, "stopPost")
     \/ pc[c] = "resetting" /\ GoTo(c, "resetPost")
  /\ queue' = {} /\ pending' = {} /\ cleared' = next
  /\ answer' = Answer(queue \cup pending, "lost")
  /\ UNCHANGED <<stream, execState, before, messages, flush, handlerVars, outdated, entryVars,
                 left>>

ClearPost(c) ==
  \/ pc[c] = "stopPost" /\ Posts(c, "stop", c, "stopWait")
  \/ pc[c] = "resetPost" /\ Posts(c, "reset", c, "resetWait")
  \/ pc[c] = "releasing" /\ Posts(c, "release", c, "relWait")

-----------------------------------------------------------------------------
(* The handler thread: messages other than kWhatProcess.                    *)

Handles(what) == handler = "idle" /\ messages # <<>> /\ Head(messages).what = what
Dispatched == messages' = Tail(messages)

\* Reply(msg): the thread that awaits it goes on.
Reply(place) == GoTo(Head(messages).from, place)

\* A callback has returned with result r, or has not returned.
Returns(r) ==
  /\ left >= r.faults /\ left' = left - r.faults
  /\ codec' = r.codec
  /\ handler' = IF r.how = "broken" THEN "broken" ELSE "idle"

HandlerStep ==
  /\ Dispatched
  /\ UNCHANGED <<stream, execState, before, cleared, queueVars, current, more, processed,
                 outdated, entryVars, answer>>

\* kWhatInit falls through to kWhatStart even if onInit failed.
OnInit ==
  /\ Handles("init") /\ running' = TRUE
  /\ \E r \in SetUp(decoder, codec) :
       Returns(r) /\ Reply(IF r.how = "ok" THEN "started" ELSE "idle")
  /\ HandlerStep

OnStart ==
  /\ Handles("start") /\ running' = TRUE
  /\ HandlerStep
  /\ UNCHANGED <<pc, handler, codec, left>>

OnStop ==
  /\ Handles("stop") /\ \E r \in Stop(decoder, codec) : Returns(r)
  /\ Reply("idle")
  /\ HandlerStep
  /\ UNCHANGED running

OnReset ==
  /\ Handles("reset") /\ \E r \in Reset(decoder, codec) : Returns(r)
  /\ running' = FALSE
  /\ Reply("idle")
  /\ HandlerStep

OnRelease ==
  /\ Handles("release") /\ codec' = Released(decoder, codec) /\ running' = FALSE
  /\ Reply("released")
  /\ HandlerStep
  /\ UNCHANGED <<handler, left>>

-----------------------------------------------------------------------------
(* The handler thread: kWhatProcess and processQueue.                       *)

ProcessNothing ==
  /\ Handles("process") /\ (~running \/ queue = {})
  /\ HandlerStep
  /\ UNCHANGED <<pc, handler, running, codec, left>>

\* The first part of processQueue, and the pending flush.
Take ==
  /\ Handles("process") /\ running /\ queue # {}
  /\ current' = Front(queue) /\ queue' = queue \ {Front(queue)}
  /\ more' = (queue # {Front(queue)})
  /\ outdated' = FALSE
  /\ flush' = FALSE /\ codec' = IF flush THEN FlushedCodec(decoder, codec) ELSE codec
  /\ handler' = "taken" /\ processed' = FALSE
  /\ Dispatched
  /\ UNCHANGED <<stream, clientVars, pending, running, entryVars, answer, left>>

\* What a step of processQueue that leaves mWorkQueue and the client alone keeps.
CodecStep ==
  UNCHANGED <<stream, clientVars, messages, queueVars, running, current, more, outdated, entryVars>>

Gone(how) == handler' = "done" /\ answer' = Answer({current}, how)

\* No output block pool: onError_nb, and the work is destroyed.  (The code asks for
\* the pool once after each stop; here any entry may find it missing.)
NoPool ==
  /\ handler = "taken" /\ left > 0 /\ left' = left - 1
  /\ Gone("lost")
  /\ UNCHANGED <<processed, codec>> /\ CodecStep

IsMark == kind[current] \in {"drain", "drainEos"}
AtEnd == kind[current] \in EosKinds

\* drain() of a drain mark.
Drain ==
  /\ handler = "taken" /\ IsMark
  /\ codec' = DrainedCodec(decoder, codec)
  /\ IF decoder = "aac" THEN handler' = "sending" /\ answer' = answer ELSE Gone("ok")
  /\ UNCHANGED <<processed, left>> /\ CodecStep

\* process(): all decoders but AAC fill the work in unless they fail, the image decoder
\* lets a work go whose result is an error.
ProcessWork ==
  /\ handler = "taken" /\ ~IsMark
  /\ \E r \in Process(decoder, codec, kind[current], current) :
       /\ left >= r.faults /\ left' = left - r.faults
       /\ codec' = r.codec
       /\ processed' = (r.how = "processed" \/ decoder # "aac")
       /\ CASE r.how = "send"   -> handler' = "sending" /\ answer' = answer
            [] r.how = "broken" -> handler' = "broken" /\ answer' = answer
            [] r.how = "failed" -> Gone("lost")
            [] OTHER            -> handler' = "processed" /\ answer' = answer
  /\ CodecStep

\* finish(w): the output goes to w if it is still pending, or to the work in hand.  A
\* mutant does not erase it from the pending works.
FillKept(w) ==
  \/ w = current /\ processed' = TRUE /\ UNCHANGED <<pending, answer>>
  \/ /\ w # current /\ UNCHANGED <<processed, pending>>
     /\ answer' = IF w \in pending THEN Answer({w}, "ok") ELSE answer
FillIn(w) ==
  \/ w = current /\ processed' = TRUE /\ UNCHANGED <<pending, answer>>
  \/ /\ w # current /\ processed' = processed
     /\ pending' = pending \ {w}
     /\ answer' = IF w \in pending THEN Answer({w}, "ok") ELSE answer

SendStep ==
  UNCHANGED <<stream, clientVars, messages, queue, flush, running, handler, current, more, outdated,
              entryVars>>

Sending == handler = "sending" /\ MaySend(decoder, codec, AtEnd)

SendFrames ==
  /\ Sending /\ FillIn(Head(codec.infos).work)
  /\ codec' = Sent(decoder, codec)
  /\ SendStep /\ UNCHANGED left

\* No output block: the work is filled in without it.
SendWithoutBlock ==
  /\ Sending /\ left > 0 /\ left' = left - 1
  /\ FillIn(Head(codec.infos).work)
  /\ codec' = SentWithoutBlock(codec)
  /\ SendStep

\* The end of the stream: all works that still wait are filled in, except the last
\* one.  A mutant leaves them out.
LeaveWaiting == FALSE
WorksWait == Len(codec.infos) > 1

SendRest ==
  /\ handler = "sending" /\ ~MaySend(decoder, codec, AtEnd) /\ AtEnd /\ WorksWait
  /\ FillIn(Head(codec.infos).work)
  /\ codec' = [codec EXCEPT !.infos = Tail(@)]
  /\ SendStep /\ UNCHANGED left

\* process() or drain() returns; at the end of the stream the work in hand is filled
\* in, and the last one that waits, if it is another, is forgotten.
SendEnds ==
  /\ handler = "sending" /\ ~MaySend(decoder, codec, AtEnd) /\ ~(AtEnd /\ WorksWait)
  /\ codec' = IF AtEnd THEN NoInfos(codec) ELSE codec
  /\ processed' = (processed \/ AtEnd)
  /\ IF IsMark THEN Gone("ok") ELSE handler' = "processed" /\ answer' = answer
  /\ UNCHANGED left /\ CodecStep

\* The last part of processQueue: give the work back, or keep it pending.
Dispose ==
  /\ handler = "processed" /\ handler' = "done"
  /\ \/ /\ outdated
        /\ answer' = Answer({current}, "notFound") /\ pending' = pending
     \/ /\ ~outdated /\ processed
        /\ answer' = Answer({current}, "ok") /\ pending' = pending
     \/ /\ ~outdated /\ ~processed
        /\ pending' = pending \cup {current} /\ answer' = answer
  /\ UNCHANGED <<stream, clientVars, messages, queue, flush, running, current, more, processed,
                 outdated, codec, entryVars, left>>

\* A mutant never asks for another kWhatProcess.
NothingMore == FALSE
HasQueuedWork == more

\* processQueue has returned: the next message.
GoOn ==
  /\ handler = "done" /\ handler' = "idle"
  /\ current' = NoEntry /\ more' = FALSE /\ processed' = FALSE
  /\ IF HasQueuedWork THEN Post("process", NoCaller) ELSE messages' = messages
  /\ UNCHANGED <<stream, clientVars, queueVars, running, codec, outdated, entryVars, answer, left>>

-----------------------------------------------------------------------------
HandleMessage ==
  \/ OnInit \/ OnStart \/ OnStop \/ OnReset \/ OnRelease \/ ProcessNothing \/ Take
  \/ NoPool \/ Drain \/ ProcessWork \/ SendFrames \/ SendWithoutBlock \/ SendRest \/ SendEnds
  \/ Dispose \/ GoOn

Calls(c) ==
  \/ StartCheck(c) \/ QueueCheck(c) \/ FlushCheck(c)
  \/ StopCheck(c) \/ ResetCall(c) \/ ReleaseCall(c)
Continues(c) ==
  \/ StartPost(c) \/ StartReturn(c) \/ QueuePost(c) \/ FlushTake(c) \/ FlushReturn(c)
  \/ Clear(c) \/ ClearPost(c)
  \/ \E k \in stream.kinds : QueuePush(c, k)

Broken == handler = "broken"

\* After release() nothing is left to do, after a broken step nothing is done.
Done ==
  /\ \/ Broken
     \/ /\ \A c \in Callers : pc[c] \in {"idle", "released"}
        /\ \E c \in Callers : pc[c] = "released"
  /\ UNCHANGED vars

Next ==
  \/ ~Broken /\ (HandleMessage \/ \E c \in Callers : Calls(c) \/ Continues(c))
  \/ Done

Spec == Init /\ [][Next]_vars

\* The handler thread runs, and a client thread inside a call is scheduled.
FairSpec ==
  /\ Spec
  /\ WF_vars(HandleMessage) /\ \A c \in Callers : WF_vars(~Broken /\ Continues(c))

-----------------------------------------------------------------------------
Places == {"idle", "init", "initWait", "start", "started", "queueing", "posting", "flushing",
           "flushWait", "stopping", "stopPost", "stopWait", "resetting", "resetPost",
           "resetWait", "releasing", "relWait", "released"}
Awaited == {"init", "stop", "reset", "release"}
Messages == [what : Awaited, from : Callers] \cup [what : {"start", "process"}, from : {NoCaller}]
Infos == [work : Entries, frames : Nat]
Codecs == [conf : BOOLEAN, lib : BOOLEAN, setUp : BOOLEAN, open : BOOLEAN, infos : Seq(Infos),
           filled : Nat, compensated : Nat, delay : Nat, known : BOOLEAN, error : BOOLEAN]

\* Type correctness of the whole state: among others, the ring buffer never holds
\* more than its size, nor a decoder a debt beyond its delay.
TypeOK ==
  /\ stream \in Streams
  /\ execState \in {"UNINITIALIZED", "STOPPED", "RUNNING"}
  /\ pc \in [Callers -> Places] /\ before \in [Callers -> 0 .. MaxEntries]
  /\ cleared \in 0 .. MaxEntries
  /\ messages \in Seq(Messages)
  /\ queue \in SUBSET Entries /\ pending \in SUBSET Entries
  /\ handler \in {"idle", "taken", "sending", "processed", "done", "broken"}
  /\ current \in Entries \cup {NoEntry}
  /\ codec \in Codecs /\ codec.filled <= RingSize /\ codec.compensated <= codec.delay
  /\ next \in 0 .. MaxEntries /\ kind \in [Entries -> AllKinds]
  /\ answer \in [Entries -> {"none", "ok", "notFound", "flushed", "lost"}]
  /\ left \in Nat
  /\ running \in BOOLEAN /\ flush \in BOOLEAN /\ more \in BOOLEAN
  /\ processed \in BOOLEAN /\ outdated \in BOOLEAN

-----------------------------------------------------------------------------
(* Properties.                                                              *)

NothingFailed == left = stream.failures

\* The work processQueue has in its hands.
InHand == IF Processing THEN {current} \ {NoEntry} ELSE {}

\* An entry pushed and not given back is queued, in hand or pending, in exactly
\* one of them, and an entry given back is in none: also when a flush returns in the
\* middle of the loop that sends the output of several works.
WorkAccounting ==
  /\ \A w \in Entries : w \in 1 .. next /\ answer[w] = "none" <=> w \in queue \cup InHand \cup pending
  /\ queue \cap InHand = {} /\ (queue \cup InHand) \cap pending = {}

\* The component keeps the contract of WorkContract.
Contract == INSTANCE WorkContract WITH
  MaxWorks <- MaxEntries, accepted <- next, outcome <- answer,
  Outcomes <- {"ok", "notFound", "flushed", "lost"}
GivenBackOnce == Contract!Spec

\* When flush_sm returns, every work pushed before it emptied the queue has been given
\* back, except the one an audio decoder has in its hands.
FlushGivesAllBack ==
  [][\A c \in Callers : pc[c] = "flushWait" /\ pc'[c] = "idle" =>
       \A w \in 1 .. before[c] : answer[w] # "none" \/ (decoder # "image" /\ w \in InHand)]_vars

\* Sound goes out with the work it was decoded from: the frames in the ring buffer and
\* the ones the decoder still delays are those of the works noted and not yet served,
\* as long as nothing failed (a block that is missing leaves its frames behind).
FramesOf(infos) ==
  LET sum[i \in 0 .. Len(infos)] == IF i = 0 THEN 0 ELSE sum[i - 1] + infos[i].frames
  IN  sum[Len(infos)]
SoundStaysWithItsWork ==
  decoder = "aac" /\ NothingFailed /\ ~codec.error =>
    codec.filled + codec.compensated = FramesOf(codec.infos)

\* Without a failure no sequence of calls makes a decoder use what it has let go:
\* stop, reset and start leave it usable.  (FFMPEG codecs that onReset does not
\* initialise again are the exception.)
NeverBroken == decoder # "ffmpeg" /\ NothingFailed => ~Broken

\* When the end of the stream is given back, so has been every earlier work of the
\* stream, as long as nothing failed: none waits for sound that will not come.  (A
\* drain with EOS forgets the last work that waits.)
EosLeavesNothing ==
  [][\A w \in cleared + 1 .. next :
       answer[w] = "none" /\ answer'[w] = "ok" /\ kind[w] = "eos"
         /\ NothingFailed /\ ~codec.error
         /\ (\A v \in cleared + 1 .. w : kind[v] # "drainEos")
       => \A v \in cleared + 1 .. w : answer'[v] # "none"]_vars

\* Again and again nothing is queued or in hand, once the clients stop queueing (their
\* entries are bounded), and what is pending waits for its sound or was in hand when a
\* stop emptied the queue: no kWhatProcess is missing, processQueue always returns, and
\* only AAC keeps works.
ComesToRest ==
  []<>(\/ Releasing \/ Broken
       \/ /\ queue = {} /\ InHand = {}
          /\ \A w \in pending : decoder = "aac" \/ w <= cleared)
=============================================================================
