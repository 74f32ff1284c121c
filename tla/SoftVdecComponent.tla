------------------------- MODULE SoftVdecComponent -------------------------
(***************************************************************************)
(* The software video decoder (C2SoftVdecComponent.cpp and C2SoftVdec.cpp).*)
(*                                                                         *)
(* Client threads change mExecState and mWorkQueue, each under a lock of   *)
(* its own, and post messages to the handler thread; processQueue takes    *)
(* one entry of mWorkQueue per kWhatProcess message.  A call is one action *)
(* for each lock it takes and for each message it posts, and processQueue  *)
(* one for each time it locks mWorkQueue: this is where threads meet.      *)
(*                                                                         *)
(* Entries of mWorkQueue, works and drain marks alike, are numbered as     *)
(* they are pushed, under the lock; the deque is the set of its numbers    *)
(* and pop_front takes the least.  The library that decodes is external:   *)
(* a frame yields a picture or not, as it likes.                           *)
(*                                                                         *)
(* Abstracted: the generation counter, of which processQueue only asks     *)
(* whether it has changed since it took its entry (outdated); the output   *)
(* block and the resolution; lists of more than one item in queue_nb;      *)
(* mListener, set once before the first start; a decoder library that was  *)
(* loaded once and cannot be loaded again by stop, reset or flush.         *)
(***************************************************************************)
EXTENDS Integers, Sequences, FiniteSets, WorkDeque

CONSTANTS
  Callers,     \* the client threads
  NoCaller,    \* a value that is no client thread
  MaxEntries,  \* bound: works and drain marks the clients queue
  Kinds,       \* the kinds of entry they queue
  MaxIndexes,  \* MAX_WORK_PENDING_COUNT (7 in the code)
  MaxRare      \* bound: failures of the block pool, of a buffer map or of a
               \* decoder start

AllKinds == {"data", "csd", "eos", "emptyEos", "drain"}

ASSUME CallersAssumption == NoCaller \notin Callers /\ IsFiniteSet(Callers)
ASSUME BoundsAssumption == MaxEntries \in Nat /\ MaxIndexes \in Nat /\ MaxRare \in Nat
ASSUME KindsAssumption == Kinds \subseteq AllKinds

Entries == 1 .. MaxEntries
NoEntry == 0

VARIABLES
  execState,  \* mExecState.mState
  pc,         \* where each client thread is
  messages,   \* the messages of mLooper
  running,    \* mRunning of the handler
  queue,      \* mQueue of mWorkQueue
  pending,    \* mPendingWork of mWorkQueue
  flush,      \* mFlush of mWorkQueue
  handler,    \* where the handler thread is in processQueue
  current,    \* the entry it has taken
  more,       \* hasQueuedWork
  processed,  \* workletsProcessed of the work
  outdated,   \* the generation is not that of the work any more
  codec,      \* what C2SoftVdec keeps from one work to the next
  next,       \* entries pushed so far
  kind,       \* what each entry is
  answer,     \* how each entry was given back
  before,     \* entries pushed when each thread in flush_sm emptied the queue
  left        \* failures that may still happen

clientVars  == <<execState, pc, before>>
queueVars   == <<queue, pending, flush>>
handlerVars == <<running, handler, current, more, processed, codec>>
entryVars   == <<next, kind>>
vars == <<clientVars, messages, queueVars, handlerVars, outdated, entryVars, answer, left>>

-----------------------------------------------------------------------------
IsEos(w) == kind[w] \in {"eos", "emptyEos"}
Answer(S, how) == [w \in Entries |-> IF w \in S THEN how ELSE answer[w]]

GoTo(c, place) == pc' = [pc EXCEPT ![c] = place]

\* A message to the handler, and the thread that awaits the reply, if one does.
\* A mutant loses the reply token.
AnonymousMessage(what, c) == [what |-> what, from |-> NoCaller]
Message(what, c) == [what |-> what, from |-> c]
Post(what, c) == messages' = Append(messages, Message(what, c))

NewCodec == [indexes |-> <<>>, eos |-> FALSE, error |-> FALSE, first |-> FALSE]

Init ==
  /\ execState = "UNINITIALIZED" /\ pc = [c \in Callers |-> "idle"]
  /\ before = [c \in Callers |-> 0]
  /\ messages = <<>> /\ running = FALSE
  /\ queue = {} /\ pending = {} /\ flush = FALSE
  /\ handler = "idle" /\ current = NoEntry /\ more = FALSE /\ processed = FALSE
  /\ outdated = FALSE /\ codec = NewCodec
  /\ next = 0 /\ kind = [w \in Entries |-> "data"]
  /\ answer = [w \in Entries |-> "none"]
  /\ left = MaxRare

-----------------------------------------------------------------------------
(* The calls of the client threads.                                         *)

Releasing == \E c \in Callers : pc[c] \in {"releasing", "relWait", "released"}
MayCall(c) == pc[c] = "idle" /\ ~Releasing

\* A step of a call that changes nothing but where its thread is.
Passes(c, place) ==
  /\ GoTo(c, place)
  /\ UNCHANGED <<execState, before, messages, queueVars, handlerVars, outdated, entryVars,
                 answer, left>>

\* A step of a call that posts a message.
Posts(c, what, from, place) ==
  /\ Post(what, from) /\ GoTo(c, place)
  /\ UNCHANGED <<execState, before, queueVars, handlerVars, outdated, entryVars, answer, left>>

SetState(s) ==
  /\ execState' = s
  /\ UNCHANGED <<before, messages, queueVars, handlerVars, outdated, entryVars, answer, left>>

StartCheck(c) ==
  /\ MayCall(c) /\ execState # "RUNNING"
  /\ Passes(c, IF execState = "UNINITIALIZED" THEN "init" ELSE "start")

\* kWhatInit is awaited, kWhatStart is not.
StartPost(c) ==
  \/ pc[c] = "init" /\ Posts(c, "init", c, "initWait")
  \/ pc[c] = "start" /\ Posts(c, "start", NoCaller, "started")

StartReturn(c) == pc[c] = "started" /\ SetState("RUNNING") /\ GoTo(c, "idle")

\* queue_nb and drain_nb: check the state; push; tell the handler if the queue
\* was empty.
QueueCheck(c) ==
  /\ MayCall(c) /\ execState = "RUNNING"
  /\ next + Cardinality({d \in Callers : pc[d] = "queueing"}) < MaxEntries
  /\ Passes(c, "queueing")

QueuePush(c, k) ==
  /\ pc[c] = "queueing" /\ next < MaxEntries
  /\ next' = next + 1 /\ kind' = [kind EXCEPT ![next + 1] = k]
  /\ queue' = queue \cup {next + 1}
  /\ GoTo(c, IF queue = {} THEN "posting" ELSE "idle")
  /\ UNCHANGED <<execState, before, messages, pending, flush, handlerVars, outdated, answer, left>>

QueuePost(c) == pc[c] = "posting" /\ Posts(c, "process", NoCaller, "idle")

FlushCheck(c) == MayCall(c) /\ execState = "RUNNING" /\ Passes(c, "flushing")

\* The flushed list gets the works queued and pending; the drain marks are dropped.
\* A mutant leaves out the pending works.
QueuedOnly == queue
Flushed == queue \cup pending

FlushTake(c) ==
  /\ pc[c] = "flushing" /\ GoTo(c, "flushWait")
  /\ flush' = TRUE /\ outdated' = TRUE
  /\ queue' = {} /\ pending' = {}
  /\ answer' = Answer(Flushed, "flushed")
  /\ before' = [before EXCEPT ![c] = next]
  /\ UNCHANGED <<execState, messages, handlerVars, entryVars, left>>

\* processQueue holds mProcessQueueLock.
Processing == handler \in {"taken", "finishing", "processed"}

\* flush_sm "waits until current processQueue finished"; a mutant does not.
ReturnAtOnce == TRUE
ProcessQueueFinished == ~Processing

FlushReturn(c) ==
  /\ pc[c] = "flushWait" /\ ProcessQueueFinished
  /\ GoTo(c, "idle") /\ before' = [before EXCEPT ![c] = 0]
  /\ UNCHANGED <<execState, messages, queueVars, handlerVars, outdated, entryVars, answer, left>>

StopCheck(c) == MayCall(c) /\ execState = "RUNNING" /\ SetState("STOPPED") /\ GoTo(c, "stopping")
ResetCall(c) == MayCall(c) /\ SetState("UNINITIALIZED") /\ GoTo(c, "resetting")
ReleaseCall(c) == MayCall(c) /\ Passes(c, "releasing")

\* stop and reset destroy the works of mWorkQueue; a mutant keeps the queue.
KeepQueue(q) == q
ClearQueue(q) == {}

Clear(c) ==
  /\ \/ pc[c] = "stopping" /\ GoTo(c, "stopPost")
     \/ pc[c] = "resetting" /\ GoTo(c, "resetPost")
  /\ queue' = ClearQueue(queue) /\ pending' = {}
  /\ answer' = Answer((queue \ ClearQueue(queue)) \cup pending, "lost")
  /\ UNCHANGED <<execState, before, messages, flush, handlerVars, outdated, entryVars, left>>

ClearPost(c) ==
  \/ pc[c] = "stopPost" /\ Posts(c, "stop", c, "stopWait")
  \/ pc[c] = "resetPost" /\ Posts(c, "reset", c, "resetWait")
  \/ pc[c] = "releasing" /\ Posts(c, "release", c, "relWait")

-----------------------------------------------------------------------------
(* The handler thread: messages other than kWhatProcess.                    *)

Handles(what) == handler = "idle" /\ messages # <<>> /\ Head(messages).what = what
Dispatched == messages' = Tail(messages)

\* Reply(msg): the thread that awaits it goes on.
Reply(place) == GoTo(Head(messages).from, place)

HandlerStep ==
  /\ Dispatched
  /\ UNCHANGED <<execState, before, queueVars, handler, current, more, processed, outdated,
                 entryVars, answer>>

\* onInit loads the decoder library; kWhatInit falls through to kWhatStart even
\* if that failed.
OnInit ==
  /\ Handles("init") /\ running' = TRUE
  /\ \/ Reply("started") /\ codec' = [codec EXCEPT !.error = FALSE] /\ left' = left
     \/ Reply("idle") /\ left > 0 /\ left' = left - 1 /\ codec' = codec
  /\ HandlerStep

OnStart ==
  /\ Handles("start") /\ running' = TRUE
  /\ HandlerStep
  /\ UNCHANGED <<pc, codec, left>>

\* C2SoftVdec::onStop: resetDecoder and resetPlugin.  The frame indexes stay.
StoppedCodec == [codec EXCEPT !.error = FALSE, !.eos = FALSE]

OnStop ==
  /\ Handles("stop") /\ codec' = StoppedCodec
  /\ Reply("idle")
  /\ HandlerStep
  /\ UNCHANGED <<running, left>>

OnReset ==
  /\ Handles("reset") /\ codec' = StoppedCodec /\ running' = FALSE
  /\ Reply("idle")
  /\ HandlerStep
  /\ UNCHANGED left

OnRelease ==
  /\ Handles("release") /\ running' = FALSE
  /\ Reply("released")
  /\ HandlerStep
  /\ UNCHANGED <<codec, left>>

-----------------------------------------------------------------------------
(* The handler thread: kWhatProcess and processQueue.                       *)

\* Not running, or nothing queued.
ProcessNothing ==
  /\ Handles("process") /\ (~running \/ queue = {})
  /\ HandlerStep
  /\ UNCHANGED <<pc, running, codec, left>>

\* C2SoftVdec::onFlush_sm.
FlushedCodec == NewCodec

\* The first part of processQueue, under both locks, and the pending flush.
Take ==
  /\ Handles("process") /\ running /\ queue # {}
  /\ current' = Front(queue) /\ queue' = queue \ {Front(queue)}
  /\ more' = (queue # {Front(queue)})
  /\ outdated' = FALSE
  /\ flush' = FALSE /\ codec' = IF flush THEN FlushedCodec ELSE codec
  /\ handler' = "taken" /\ processed' = FALSE
  /\ Dispatched
  /\ UNCHANGED <<clientVars, pending, running, entryVars, answer, left>>

\* What a step of processQueue that leaves mWorkQueue and the client alone keeps.
CodecStep ==
  UNCHANGED <<clientVars, messages, queueVars, running, current, more, outdated, entryVars>>

\* No output block pool: onError_nb, and the work is destroyed.  (The code asks for
\* the pool once after each stop; here any entry may find it missing.)
NoPool ==
  /\ handler = "taken" /\ left > 0 /\ left' = left - 1
  /\ answer' = Answer({current}, "lost")
  /\ handler' = "done"
  /\ UNCHANGED <<processed, codec>> /\ CodecStep

\* drain() of a drain mark does nothing, and returns C2_OK.
Drain ==
  /\ handler = "taken" /\ kind[current] = "drain"
  /\ answer' = Answer({current}, "ok")
  /\ handler' = "done"
  /\ UNCHANGED <<processed, codec, left>> /\ CodecStep

\* process() returns, with or without the work filled in.
Processed(done, newCodec) ==
  /\ handler' = "processed" /\ processed' = done /\ codec' = newCodec
  /\ CodecStep

Processes == handler = "taken" /\ kind[current] # "drain"
Decoding == Processes /\ ~codec.error /\ ~codec.eos /\ kind[current] # "csd"

\* After an error or the end of the stream: C2_BAD_VALUE.
ProcessRefused ==
  /\ Processes /\ (codec.error \/ codec.eos)
  /\ Processed(FALSE, codec) /\ UNCHANGED <<answer, left>>

ProcessCsd ==
  /\ Processes /\ ~codec.error /\ ~codec.eos /\ kind[current] = "csd"
  /\ Processed(TRUE, codec) /\ UNCHANGED <<answer, left>>

\* process() is in its loop: there are data to decode, or works that wait.
Looping ==
  \/ Decoding /\ (kind[current] # "emptyEos" \/ codec.indexes # <<>>)
  \/ handler = "finishing" /\ codec.indexes # <<>>

\* The input or the output buffer cannot be mapped: process() returns, with the
\* work not filled in.
MapFails ==
  /\ Looping \/ (Processes /\ ~codec.error /\ ~codec.eos /\ kind[current] = "csd")
  /\ left > 0 /\ left' = left - 1
  /\ Processed(FALSE, codec) /\ UNCHANGED answer

\* No output block, or the library cannot be set up: C2_CORRUPTED.
DecoderFails ==
  /\ Looping
  /\ left > 0 /\ left' = left - 1
  /\ Processed(TRUE, [codec EXCEPT !.error = TRUE]) /\ UNCHANGED answer

\* finish(w): the picture goes to w if it is still pending.  A mutant does not erase
\* it from the pending works.
FinishKept(w) ==
  /\ pending' = pending
  /\ answer' = IF w \in pending THEN Answer({w}, "ok") ELSE answer
Finish(w) ==
  /\ pending' = pending \ {w}
  /\ answer' = IF w \in pending THEN Answer({w}, "ok") ELSE answer

\* A picture, while earlier works wait for theirs: it is the first one's, and the
\* current work joins the waiting ones.
PictureForEarlier ==
  /\ Decoding /\ kind[current] = "data" /\ codec.indexes # <<>>
  /\ Finish(Head(codec.indexes))
  /\ handler' = "processed" /\ processed' = FALSE
  /\ codec' = [codec EXCEPT !.indexes = Append(Tail(@), current), !.first = TRUE]
  /\ UNCHANGED <<clientVars, messages, queue, flush, running, current, more, outdated, entryVars,
                 left>>

PictureForCurrent ==
  /\ Decoding /\ kind[current] = "data" /\ codec.indexes = <<>>
  /\ Processed(TRUE, [codec EXCEPT !.first = TRUE]) /\ UNCHANGED <<answer, left>>

\* No picture before the first one: the work waits, unless too many do.
NoPicture ==
  /\ Decoding /\ kind[current] = "data"
  /\ IF ~codec.first /\ Len(codec.indexes) < MaxIndexes
       THEN Processed(FALSE, [codec EXCEPT !.indexes = Append(@, current)])
       ELSE Processed(TRUE, codec)
  /\ UNCHANGED <<answer, left>>

\* The end of the stream first decodes for the works that wait, one by one.
EosBegins ==
  /\ Decoding /\ IsEos(current) /\ codec.indexes # <<>>
  /\ handler' = "finishing"
  /\ UNCHANGED <<processed, codec, answer, left>> /\ CodecStep

EosPicture ==
  /\ handler = "finishing" /\ codec.indexes # <<>>
  /\ Finish(Head(codec.indexes))
  /\ codec' = [codec EXCEPT !.indexes = Tail(@), !.first = TRUE]
  /\ UNCHANGED <<clientVars, messages, queue, flush, running, handler, processed, current, more,
                 outdated, entryVars, left>>

\* No work waits any more, or a decoding fails: the EOS work itself is filled in.
EosEnds ==
  /\ handler = "finishing"
  /\ Processed(TRUE, [codec EXCEPT !.eos = TRUE]) /\ UNCHANGED <<answer, left>>

\* No work waits: a picture of the EOS work, if any, goes out with a clone of it.
EosAlone ==
  /\ Decoding /\ IsEos(current) /\ codec.indexes = <<>>
  /\ \E picture \in {FALSE, kind[current] = "eos"} :
       Processed(TRUE, [codec EXCEPT !.eos = TRUE, !.first = @ \/ picture])
  /\ UNCHANGED <<answer, left>>

\* The last part of processQueue: give the work back, or keep it pending.
Dispose ==
  /\ handler = "processed" /\ handler' = "done"
  /\ \/ /\ outdated
        /\ answer' = Answer({current}, "notFound") /\ pending' = pending
     \/ /\ ~outdated /\ processed
        /\ answer' = Answer({current}, "ok") /\ pending' = pending
     \/ /\ ~outdated /\ ~processed
        /\ pending' = pending \cup {current} /\ answer' = answer
  /\ UNCHANGED <<clientVars, messages, queue, flush, running, current, more, processed, outdated,
                 codec, entryVars, left>>

\* A mutant never asks for another kWhatProcess.
NothingMore == FALSE
HasQueuedWork == more

\* processQueue has returned, and its lock is released: the next message.
GoOn ==
  /\ handler = "done" /\ handler' = "idle"
  /\ current' = NoEntry /\ more' = FALSE /\ processed' = FALSE
  /\ IF HasQueuedWork THEN Post("process", NoCaller) ELSE messages' = messages
  /\ UNCHANGED <<clientVars, queueVars, running, codec, outdated, entryVars, answer, left>>

-----------------------------------------------------------------------------
Process ==
  \/ ProcessRefused \/ MapFails \/ ProcessCsd \/ DecoderFails
  \/ PictureForEarlier \/ PictureForCurrent \/ NoPicture
  \/ EosBegins \/ EosPicture \/ EosEnds \/ EosAlone

HandleMessage ==
  \/ OnInit \/ OnStart \/ OnStop \/ OnReset \/ OnRelease \/ ProcessNothing \/ Take
  \/ NoPool \/ Drain \/ Process \/ Dispose \/ GoOn

Calls(c) ==
  \/ StartCheck(c) \/ QueueCheck(c) \/ FlushCheck(c)
  \/ StopCheck(c) \/ ResetCall(c) \/ ReleaseCall(c)
Continues(c) ==
  \/ StartPost(c) \/ StartReturn(c) \/ QueuePost(c) \/ FlushTake(c) \/ FlushReturn(c)
  \/ Clear(c) \/ ClearPost(c)
  \/ \E k \in Kinds : QueuePush(c, k)

\* After release() nothing is left to do.
Done ==
  /\ \A c \in Callers : pc[c] \in {"idle", "released"}
  /\ \E c \in Callers : pc[c] = "released"
  /\ UNCHANGED vars

Next == HandleMessage \/ (\E c \in Callers : Calls(c) \/ Continues(c)) \/ Done

Spec == Init /\ [][Next]_vars

\* The handler thread runs, and a client thread inside a call is scheduled.
FairSpec == Spec /\ WF_vars(HandleMessage) /\ \A c \in Callers : WF_vars(Continues(c))

-----------------------------------------------------------------------------
Places == {"idle", "init", "initWait", "start", "started", "queueing", "posting", "flushing",
           "flushWait", "stopping", "stopPost", "stopWait", "resetting", "resetPost",
           "resetWait", "releasing", "relWait", "released"}
Awaited == {"init", "stop", "reset", "release"}
Messages == [what : Awaited, from : Callers] \cup [what : {"start", "process"}, from : {NoCaller}]
Codecs == [indexes : Seq(Entries), eos : BOOLEAN, error : BOOLEAN, first : BOOLEAN]

\* Type correctness of the whole state: among others, a message that is replied
\* to names the thread that waits for it.
TypeOK ==
  /\ execState \in {"UNINITIALIZED", "STOPPED", "RUNNING"}
  /\ pc \in [Callers -> Places] /\ before \in [Callers -> 0 .. MaxEntries]
  /\ messages \in Seq(Messages)
  /\ queue \in SUBSET Entries /\ pending \in SUBSET Entries
  /\ handler \in {"idle", "taken", "finishing", "processed", "done"}
  /\ current \in Entries \cup {NoEntry}
  /\ codec \in Codecs
  /\ next \in 0 .. MaxEntries /\ kind \in [Entries -> AllKinds]
  /\ answer \in [Entries -> {"none", "ok", "notFound", "flushed", "lost"}]
  /\ left \in Nat
  /\ running \in BOOLEAN /\ flush \in BOOLEAN /\ more \in BOOLEAN
  /\ processed \in BOOLEAN /\ outdated \in BOOLEAN

-----------------------------------------------------------------------------
(* Properties.                                                              *)

\* The work processQueue has in its hands.
InHand == IF Processing THEN {current} ELSE {}

\* An entry pushed and not given back is queued, in hand or pending, in exactly
\* one of them, and an entry given back is in none: whatever the client threads
\* do while processQueue holds a work, it is neither leaked nor answered twice.
WorkAccounting ==
  /\ \A w \in Entries : w \in 1 .. next /\ answer[w] = "none" <=> w \in queue \cup InHand \cup pending
  /\ queue \cap InHand = {} /\ (queue \cup InHand) \cap pending = {}

\* The component keeps the contract of WorkContract.
Contract == INSTANCE WorkContract WITH
  MaxWorks <- MaxEntries, accepted <- next, outcome <- answer,
  Outcomes <- {"ok", "notFound", "flushed", "lost"}
GivenBackOnce == Contract!Spec

\* When flush_sm returns, every work pushed before it emptied the queue has been
\* given back, the one processQueue was working on included.
FlushGivesAllBack ==
  [][\A c \in Callers : pc[c] = "flushWait" /\ pc'[c] = "idle" =>
       \A w \in 1 .. before[c] : answer[w] # "none"]_vars

\* A stopped component reports nothing (one client thread: a thread in queue_nb
\* that has seen RUNNING may still push after another one's stop).
QuietWhenStopped ==
  [][execState = "STOPPED" /\ (\A c \in Callers : pc[c] = "idle") => answer' = answer]_vars

\* What is queued is taken, flushed or cleared: no queued work waits for a
\* kWhatProcess nobody posts (one client thread, see above).
QueuedIsTaken == \A w \in Entries : w \in queue ~> (w \notin queue \/ Releasing)

\* finish() takes "the index of the pending work": while the component runs, and
\* unless a flush is on its way, it finds the work.
FinishFindsItsWork ==
  [][(PictureForEarlier \/ EosPicture) /\ execState = "RUNNING" /\ ~flush /\ ~outdated =>
       Head(codec.indexes) \in pending]_vars
=============================================================================
