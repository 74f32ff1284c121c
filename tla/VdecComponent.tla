--------------------------- MODULE VdecComponent ---------------------------
(***************************************************************************)
(* The hardware video decoder component (C2VdecComponent.cpp), non-tunnel  *)
(* mode: the life cycle of the component and the path of a C2Work through  *)
(* it, from queue_nb to the onWorkDone_nb call (or the flushed list) that  *)
(* gives it back.                                                          *)
(*                                                                         *)
(* Three kinds of threads meet here.  Client threads call the component    *)
(* API; the component thread runs posted tasks one at a time, in order;    *)
(* the decoder's callback thread posts what the decoder reports.  Every    *)
(* task body is one action, because nothing but the few fields that client *)
(* threads write directly can change while it runs.                        *)
(*                                                                         *)
(* Works are numbered in the order in which queue_nb accepts them.  A work *)
(* only ever moves from mQueue to mPendingWorks to the answer, so a deque  *)
(* of works is the SET of its numbers: front() is its least element,       *)
(* back() its greatest.  VdecComponentProofs proves (Order) that this is   *)
(* the order of the code's deques.                                         *)
(*                                                                         *)
(* Abstracted: the graphic block of a picture, which is taken to be owned  *)
(* by the component when the picture arrives and to outlive it; VP9's      *)
(* no-show detection; game-mode latency; the tunnel and passthrough modes. *)
(***************************************************************************)
EXTENDS Integers, Sequences, WorkDeque

CONSTANTS
  Callers,      \* the client threads
  NoCaller,     \* a value that is no client thread
  MaxWorks,     \* bound: works the clients queue
  Kinds,        \* the kinds of work they queue
  InitResults,  \* how a decoder start may end: "ok", "fail", "noProfile"
  SentLimit,    \* length kept of mSentOutBitStreamIdList (20 in the code)
  MaxRare,      \* bound: rare events, which are error reports (from the decoder or
                \* from preemption), flush waits that end although an answer is
                \* coming, and pictures beyond the first of a work
  MaxTasks      \* bound: posted tasks beyond which nobody calls drain_nb

AllKinds == {"data", "decodeOnly", "csd", "emptyCsd", "empty", "eos", "emptyEos"}

ASSUME CallersAssumption == NoCaller \notin Callers
ASSUME BoundsAssumption ==
  /\ MaxWorks \in Nat /\ MaxRare \in Nat /\ MaxTasks \in Nat /\ SentLimit \in Nat
ASSUME KindsAssumption ==
  Kinds \subseteq AllKinds /\ InitResults \subseteq {"ok", "fail", "noProfile"}

Works == 1 .. MaxWorks
NoWork == 0

VARIABLES
  mState,      \* mState: the state the client threads see
  stopped,     \* mVdecComponentStopDone
  hasQueued,   \* mHasQueuedWork
  lock,        \* holder of mStartStopLock
  pc,          \* where each client thread is
  comp,        \* mComponentState
  hasError,    \* mCompHasError
  initResult,  \* mVdecInitResult
  stopEvent,   \* mStopDoneEvent: the caller whose event it points to
  tasks,       \* the message loop of mThread
  queue,       \* mQueue
  drainAt,     \* mDrainMode of each work in mQueue
  pending,     \* mPendingWorks
  abandoned,   \* mAbandonedWorks
  flushList,   \* mFlushPendingWorkList
  inputHeld,   \* pending works whose input buffer the decoder still has
  dropped,     \* pending works marked FLAG_DROP_FRAME
  outs,        \* mPendingBuffersToWork
  sent,        \* mSentOutBitStreamIdList
  lastOut,     \* mLastOutputBitstreamId
  lastReport,  \* mLastOutputReportWork is set
  noOut,       \* mNoOutFrameWorkQueue
  pendingEOS,  \* mPendingOutputEOS
  dec,         \* the decoder behind mVideoDecWraper
  next,        \* works accepted so far
  kind,        \* what each work carries
  answer,      \* how each work was given back
  left         \* rare events that may still happen

clientVars == <<mState, stopped, hasQueued, lock, pc>>
threadVars == <<comp, hasError, initResult, stopEvent>>
workVars   == <<queue, drainAt, pending, abandoned, flushList, inputHeld, dropped>>
outVars    == <<outs, sent, lastOut, lastReport, noOut, pendingEOS>>
envVars    == <<dec, next, kind, left>>
vars == <<clientVars, threadVars, tasks, workVars, outVars, envVars, answer>>

-----------------------------------------------------------------------------
(* Works, tasks and small helpers.                                          *)

IsEos(w) == kind[w] \in {"eos", "emptyEos"}
IsCsd(w) == kind[w] \in {"csd", "emptyCsd"}
HasInput(w) == kind[w] \in {"data", "decodeOnly", "csd", "eos"}

Task(op, w, arg) == [op |-> op, w |-> w, arg |-> arg]
WorkTask(op, w) == Task(op, w, "none")
PlainTask(op) == Task(op, NoWork, "none")

\* base::TaskRunner::PostTask, from outside the component thread.
Post(t) == tasks' = Append(tasks, t)

\* The component thread takes the next task if it is the one named, and either
\* just completes it or also posts another one.
Runs(op) == tasks # <<>> /\ Head(tasks).op = op
Completes == tasks' = Tail(tasks)
CompletesPosting(t) == tasks' = Append(Tail(tasks), t)

\* RETURN_ON_UNINITIALIZED_OR_ERROR.
Refuses == hasError \/ comp \in {"UNINITIALIZED", "DESTROYED"}

\* updateComponentState: every change of state also sets the error flag.
UpdateState(s) == comp' = s /\ hasError' = FALSE

\* reportError, for a handler that leaves the component in its state.
ReportError ==
  IF comp \in {"UNINITIALIZED", "DESTROYED"}
    THEN UNCHANGED <<mState, hasError>>
    ELSE mState' = "ERROR" /\ hasError' = TRUE

Answer(S, how) == [w \in Works |-> IF w \in S THEN how ELSE answer[w]]

\* isWorkDone for a pending work that is CSD or marked as dropped, which needs
\* no output buffer.  The last work of an EOS drain is left to reportEOSWork.
DoneWithoutOutput(w, held, eos, works) ==
  w \notin held /\ ~(eos /\ works = {w})

-----------------------------------------------------------------------------
(* Handing pictures to works: sendOutputBufferToWorkIfAny.  The loop works  *)
(* through mPendingBuffersToWork from the front and stops at the first      *)
(* picture it cannot dispose of.  o is that list, a sequence of records     *)
(* [w, bad]; works still pending when the loop reaches picture j are those  *)
(* that no earlier picture finished.                                        *)

StillPending(o, j) == pending \ {o[i].w : i \in 1 .. (j - 1)}
HasWork(o, j) == o[j].w \in StillPending(o, j)

\* A picture of a work already answered goes out with a clone of the work
\* that was last given an output, if there is one.
HasClone(o, j) == lastReport \/ \E i \in 1 .. (j - 1) : HasWork(o, i)

\* The picture is disposed of: with its work, whose input must be done and which
\* must not be the last one of an EOS drain, or with a clone.
Sendable(o, j) ==
  IF HasWork(o, j)
    THEN DoneWithoutOutput(o[j].w, inputHeld, pendingEOS, StillPending(o, j))
    ELSE HasClone(o, j)

\* How many pictures the loop disposes of before it stops.
Sendables(o) == {n \in 0 .. Len(o) : \A j \in 1 .. n : Sendable(o, j)}
SentCount(o) == Back(Sendables(o))

\* The picture the loop stops at has no work, and there is nothing to clone:
\* it is discarded after a flush or reset, and the loop ends with it.
Discards(o) ==
  LET j == SentCount(o) + 1 IN
  j <= Len(o) /\ ~HasWork(o, j) /\ ~HasClone(o, j)

\* The picture the loop stops at was attached to its work, which is withheld as
\* the last work of an EOS drain.
Attaches(o) ==
  LET j == SentCount(o) + 1 IN
  j <= Len(o) /\ HasWork(o, j) /\ o[j].w \notin inputHeld

SentWorks(o) == {o[i].w : i \in 1 .. SentCount(o)} \cap pending

SendOutputs(o) ==
  /\ outs' = SubSeq(o, SentCount(o) + (IF Discards(o) THEN 2 ELSE 1), Len(o))
  /\ lastReport' = (lastReport \/ SentWorks(o) # {} \/ Attaches(o))
  /\ dropped' = (dropped \cup
                   {o[i].w : i \in {i \in 1 .. Len(o) :
                                      /\ i = SentCount(o) + 1
                                      /\ Attaches(o) /\ o[i].bad}}) \ SentWorks(o)

\* What is left of mPendingWorks and of the answers after SendOutputs(o).
PendingAfter(o) == pending \ SentWorks(o)

-----------------------------------------------------------------------------
(* The initial state: created and loaded, never started.                    *)

NoDecoder == [up |-> FALSE, inputs |-> {}, frames |-> {}, eos |-> FALSE, resets |-> 0]
NewDecoder == [NoDecoder EXCEPT !.up = TRUE]

Init ==
  /\ mState = "LOADED" /\ stopped = FALSE /\ hasQueued = FALSE
  /\ lock = NoCaller /\ pc = [c \in Callers |-> "idle"]
  /\ comp = "UNINITIALIZED" /\ hasError = FALSE /\ initResult = "ok"
  /\ stopEvent = NoCaller
  /\ tasks = <<>>
  /\ queue = {} /\ drainAt = [w \in Works |-> "none"]
  /\ pending = {} /\ abandoned = {} /\ flushList = {}
  /\ inputHeld = {} /\ dropped = {}
  /\ outs = <<>> /\ sent = <<>> /\ lastOut = NoWork /\ lastReport = FALSE
  /\ noOut = <<>> /\ pendingEOS = FALSE
  /\ dec = NoDecoder
  /\ next = 0 /\ kind = [w \in Works |-> "data"]
  /\ answer = [w \in Works |-> "none"]
  /\ left = MaxRare

-----------------------------------------------------------------------------
(* The API, as client threads call it.  start, stop, reset and release wait *)
(* for the component thread on an event of their own; flush_sm waits on the *)
(* condition mFlushDoneCond for 500 ms.                                     *)

Releasing == \E c \in Callers :
  pc[c] \in {"releasing", "relStopping", "relStopDone", "relDone", "destroying", "released"}

MayCall(c) == pc[c] = "idle" /\ ~Releasing

GoTo(c, place) == pc' = [pc EXCEPT ![c] = place]

StartCall(c) ==
  /\ MayCall(c) /\ lock = NoCaller /\ mState = "LOADED"
  /\ lock' = c /\ GoTo(c, "starting")
  /\ Post(PlainTask("start"))
  /\ UNCHANGED <<mState, stopped, hasQueued, threadVars, workVars, outVars, envVars, answer>>

\* done.Wait() returned in start().
StartReturn(c) ==
  /\ pc[c] = "started"
  /\ lock' = NoCaller /\ GoTo(c, "idle")
  /\ IF initResult = "ok"
       THEN mState' = "RUNNING" /\ stopped' = FALSE
       ELSE UNCHANGED <<mState, stopped>>
  /\ UNCHANGED <<hasQueued, threadVars, tasks, workVars, outVars, envVars, answer>>

\* reset() and release() first forget, without the lock, that a stop is done.
ResetCall(c) ==
  /\ MayCall(c)
  /\ stopped' = FALSE /\ \E place \in {"resetting", "releasing"} : GoTo(c, place)
  /\ UNCHANGED <<mState, hasQueued, lock, threadVars, tasks, workVars, outVars, envVars, answer>>

\* stop(), called by the client or by reset() and release().
StopCall(c) ==
  /\ pc[c] \in {"resetting", "releasing"} \/ MayCall(c)
  /\ lock = NoCaller /\ ~stopped /\ mState \in {"RUNNING", "ERROR"}
  /\ lock' = c
  /\ GoTo(c, IF pc[c] = "releasing" THEN "relStopping" ELSE "stopping")
  /\ Post(PlainTask("stop"))
  /\ UNCHANGED <<mState, stopped, hasQueued, threadVars, workVars, outVars, envVars, answer>>

StopNeedless(c) ==
  /\ pc[c] \in {"resetting", "releasing"}
  /\ lock = NoCaller /\ (stopped \/ mState = "LOADED")
  /\ GoTo(c, IF pc[c] = "releasing" THEN "relDone" ELSE "idle")
  /\ UNCHANGED <<mState, stopped, hasQueued, lock, threadVars, tasks, workVars, outVars, envVars, answer>>

\* done.Wait() returned in stop().
StopReturn(c) ==
  /\ pc[c] \in {"stopDone", "relStopDone"}
  /\ mState' = "LOADED" /\ stopped' = TRUE /\ stopEvent' = NoCaller
  /\ lock' = NoCaller
  /\ GoTo(c, IF pc[c] = "relStopDone" THEN "relDone" ELSE "idle")
  /\ UNCHANGED <<hasQueued, comp, hasError, initResult, tasks, workVars, outVars, envVars, answer>>

\* The rest of release().
DestroyCall(c) ==
  /\ pc[c] = "relDone" /\ GoTo(c, "destroying")
  /\ Post(PlainTask("destroy"))
  /\ UNCHANGED <<mState, stopped, hasQueued, lock, threadVars, workVars, outVars, envVars, answer>>

QueueCall(c, k) ==
  /\ MayCall(c) /\ mState = "RUNNING" /\ next < MaxWorks
  /\ next' = next + 1 /\ kind' = [kind EXCEPT ![next + 1] = k]
  /\ hasQueued' = TRUE
  /\ Post(WorkTask("queueWork", next + 1))
  /\ UNCHANGED <<mState, stopped, lock, pc, threadVars, workVars, outVars, dec, left, answer>>

DrainCall(c, mode) ==
  /\ MayCall(c) /\ mState = "RUNNING" /\ Len(tasks) < MaxTasks
  /\ Post(Task("drain", NoWork, mode))
  /\ UNCHANGED <<clientVars, threadVars, workVars, outVars, envVars, answer>>

\* flush_sm posts onFlush before it takes mFlushDoneLock to wait.
FlushCall(c) ==
  /\ MayCall(c) /\ mState = "RUNNING" /\ hasQueued
  /\ GoTo(c, "flushing") /\ Post(PlainTask("flush"))
  /\ UNCHANGED <<mState, stopped, hasQueued, lock, threadVars, workVars, outVars, envVars, answer>>

FlushWait(c) ==
  /\ pc[c] = "flushing" /\ GoTo(c, "waiting")
  /\ UNCHANGED <<mState, stopped, hasQueued, lock, threadVars, tasks, workVars, outVars, envVars, answer>>

\* Nothing is under way that could still end the wait.
NoAnswerComing == tasks = <<>> /\ dec.resets = 0

\* ETIMEDOUT: the client thread itself moves the component to STARTED.
FlushTimeOut(c) ==
  /\ pc[c] = "waiting" /\ GoTo(c, "idle")
  /\ \/ NoAnswerComing /\ UNCHANGED left
     \/ left > 0 /\ left' = left - 1
  /\ UpdateState("STARTED")
  /\ UNCHANGED <<mState, stopped, hasQueued, lock, initResult, stopEvent, tasks, workVars,
                 outVars, dec, next, kind, answer>>

FlushReturn(c) ==
  /\ pc[c] = "woken" /\ GoTo(c, "idle")
  /\ answer' = Answer(flushList, "notFound") /\ flushList' = {}
  /\ Post(PlainTask("dequeueWork"))
  /\ UNCHANGED <<mState, stopped, hasQueued, lock, threadVars, queue, drainAt, pending,
                 abandoned, inputHeld, dropped, outVars, envVars>>

-----------------------------------------------------------------------------
(* The component thread: one action per task body.                          *)

\* A handler that opens with RETURN_ON_UNINITIALIZED_OR_ERROR returns at once.
\* onQueueWork owns its work, which is destroyed with the task.
RefusingTasks == {"queueWork", "dequeueWork", "inputDone", "outputDone", "drain", "drainDone"}

RefuseTask ==
  /\ tasks # <<>> /\ Head(tasks).op \in RefusingTasks /\ Refuses
  /\ answer' = IF Head(tasks).op = "queueWork" THEN Answer({Head(tasks).w}, "lost") ELSE answer
  /\ Completes
  /\ UNCHANGED <<clientVars, threadVars, workVars, outVars, envVars>>

OnQueueWork ==
  /\ Runs("queueWork") /\ ~Refuses
  /\ LET w == Head(tasks).w IN
       /\ queue' = queue \cup {w}
       /\ drainAt' = [drainAt EXCEPT ![w] = IF IsEos(w) THEN "EOS" ELSE "none"]
  /\ CompletesPosting(PlainTask("dequeueWork"))
  /\ UNCHANGED <<clientVars, threadVars, pending, abandoned, flushList, inputHeld, dropped,
                 outVars, envVars, answer>>

\* Draining, flushing, not started, or nothing to dequeue.
SkipDequeue ==
  /\ Runs("dequeueWork") /\ ~Refuses
  /\ queue = {} \/ comp # "STARTED"
  /\ Completes
  /\ UNCHANGED <<clientVars, threadVars, workVars, outVars, envVars, answer>>

\* What a mutant makes it do: the decoder is not told to drain.
DecodeNoDrain(w) ==
  IF dec.up /\ HasInput(w)
    THEN [dec EXCEPT !.inputs = @ \cup {w}, !.frames = IF IsCsd(w) THEN @ ELSE @ \cup {w}]
    ELSE dec

\* What onDequeueWork makes the decoder do: decode the input and, for a work
\* that carries a drain, eosFlush.
Decode(w) ==
  LET fed == IF HasInput(w)
               THEN [dec EXCEPT !.inputs = @ \cup {w},
                                !.frames = IF IsCsd(w) THEN @ ELSE @ \cup {w}]
               ELSE dec
  IN IF ~dec.up THEN dec
     ELSE IF drainAt[w] = "none" THEN fed ELSE [fed EXCEPT !.eos = TRUE]

\* The work is reported right away: it is empty, or an empty CSD that is not
\* withheld as the last work of an EOS drain.
ReportedAtOnce(w, eos) ==
  \/ kind[w] = "empty"
  \/ kind[w] = "emptyCsd" /\ ~(eos /\ pending = {})

OnDequeueWork ==
  /\ Runs("dequeueWork") /\ ~Refuses /\ queue # {} /\ comp = "STARTED"
  /\ LET w == Front(queue)
         eos == IF drainAt[w] = "none" THEN pendingEOS ELSE drainAt[w] = "EOS"
     IN
       /\ queue' = queue \ {w}
       /\ dec' = Decode(w)
       /\ inputHeld' = IF HasInput(w) THEN inputHeld \cup {w} ELSE inputHeld
       /\ IF drainAt[w] = "none"
            THEN UNCHANGED <<comp, hasError>>
            ELSE UpdateState("DRAINING")
       /\ pendingEOS' = eos
       /\ IF ReportedAtOnce(w, eos)
            THEN pending' = pending /\ answer' = Answer({w}, "ok")
            ELSE pending' = pending \cup {w} /\ answer' = answer
       /\ IF queue = {w} THEN Completes ELSE CompletesPosting(PlainTask("dequeueWork"))
  /\ UNCHANGED <<clientVars, initResult, stopEvent, drainAt, abandoned, flushList, dropped,
                 outs, sent, lastOut, lastReport, noOut, next, kind, left>>

\* onInputBufferDone for a work that was flushed, dropped or never known.
OnInputDoneUnknown ==
  /\ Runs("inputDone") /\ ~Refuses /\ Head(tasks).w \notin pending
  /\ ReportError /\ Completes
  /\ UNCHANGED <<stopped, hasQueued, lock, pc, comp, initResult, stopEvent, workVars, outVars,
                 envVars, answer>>

OnInputBufferDone ==
  /\ Runs("inputDone") /\ ~Refuses
  /\ LET w == Head(tasks).w
         noOutputNeeded == IsCsd(w) \/ w \in dropped
         done == noOutputNeeded /\ DoneWithoutOutput(w, inputHeld \ {w}, pendingEOS, pending)
     IN
       /\ w \in pending
       /\ inputHeld' = inputHeld \ {w}
       /\ IF done
            THEN pending' = pending \ {w} /\ dropped' = dropped \ {w} /\ answer' = Answer({w}, "ok")
            ELSE UNCHANGED <<pending, dropped, answer>>
       /\ IF outs # <<>> /\ ~noOutputNeeded /\ kind[w] # "decodeOnly"
            THEN CompletesPosting(PlainTask("sendOutputs")) ELSE Completes
  /\ UNCHANGED <<clientVars, threadVars, queue, drainAt, abandoned, flushList, outVars, envVars>>

\* sendOutputBufferToWorkIfAnyTask, which no state check guards.
OnSendOutputs ==
  /\ Runs("sendOutputs")
  /\ SendOutputs(outs)
  /\ pending' = PendingAfter(outs) /\ answer' = Answer(SentWorks(outs), "ok")
  /\ Completes
  /\ UNCHANGED <<clientVars, threadVars, queue, drainAt, abandoned, flushList, inputHeld,
                 sent, lastOut, noOut, pendingEOS, envVars>>

\* onOutputBufferDone while flushing: only the bitstream id is remembered.
OnOutputWhileFlushing ==
  /\ Runs("outputDone") /\ ~Refuses /\ comp = "FLUSHING"
  /\ lastOut' = Head(tasks).w
  /\ Completes
  /\ UNCHANGED <<clientVars, threadVars, workVars, outs, sent, lastReport, noOut, pendingEOS,
                 envVars, answer>>

\* Neither pending nor recently sent, nor another picture of the last work.
UnknownOutput(w) ==
  w # lastOut /\ w \notin pending /\ \A i \in 1 .. Len(sent) : sent[i] # w

\* The picture of a work that was flushed or dropped goes back to the decoder.
OnOutputUnknown ==
  /\ Runs("outputDone") /\ ~Refuses /\ comp # "FLUSHING" /\ UnknownOutput(Head(tasks).w)
  /\ Completes
  /\ UNCHANGED <<clientVars, threadVars, workVars, outVars, envVars, answer>>

\* mSentOutBitStreamIdList, newest first.  The input flags of the work are
\* looked at only if this is not another picture of the last work.
SentWith(w) ==
  LET longer == IF w # lastOut /\ w \in pending /\ kind[w] = "decodeOnly"
                  THEN sent ELSE <<w>> \o sent
  IN IF Len(longer) > SentLimit THEN SubSeq(longer, 1, Len(longer) - 1) ELSE longer

OnOutputBufferDone ==
  /\ Runs("outputDone") /\ ~Refuses /\ comp # "FLUSHING" /\ ~UnknownOutput(Head(tasks).w)
  /\ LET w == Head(tasks).w
         o == Append(outs, [w |-> w, bad |-> Head(tasks).arg = "bad"])
     IN
       /\ sent' = SentWith(w)
       /\ lastOut' = w
       /\ SendOutputs(o)
       /\ pending' = PendingAfter(o) /\ answer' = Answer(SentWorks(o), "ok")
  /\ Completes
  /\ UNCHANGED <<clientVars, threadVars, queue, drainAt, abandoned, flushList, inputHeld,
                 noOut, pendingEOS, envVars>>

\* onDrain: the last queued work becomes "drain till here"; with none queued and
\* some in the decoder a started component drains now; else nothing happens.
OnDrain ==
  /\ Runs("drain") /\ ~Refuses
  /\ LET mode == Head(tasks).arg
         now == queue = {} /\ pending # {} /\ comp = "STARTED"
     IN
       /\ drainAt' = IF queue # {} /\ drainAt[Back(queue)] = "none"
                       THEN [drainAt EXCEPT ![Back(queue)] = mode] ELSE drainAt
       /\ IF now
            THEN /\ UpdateState("DRAINING")
                 /\ pendingEOS' = (mode = "EOS")
                 /\ dec' = IF dec.up THEN [dec EXCEPT !.eos = TRUE] ELSE dec
            ELSE UNCHANGED <<comp, hasError, pendingEOS, dec>>
  /\ Completes
  /\ UNCHANGED <<clientVars, initResult, stopEvent, queue, pending, abandoned, flushList,
                 inputHeld, dropped, outs, sent, lastOut, lastReport, noOut, next, kind, left,
                 answer>>

\* Work dequeueing was stopped while the component drained: onDrainDone restarts it.
\* A mutant forgets to.
ForgetDequeue == Completes
RestartDequeue == CompletesPosting(PlainTask("dequeueWork"))

\* A mutant of ReportEos: the works before the EOS stay pending.
ReportEosAlone(works, answered) ==
  /\ works # {}
  /\ answer' = [Answer(answered, "ok") EXCEPT ![Back(works)] = "eos"]
  /\ pending' = works \ {Back(works)} /\ inputHeld' = inputHeld \ {Back(works)}
  /\ pendingEOS' = FALSE /\ UNCHANGED abandoned

\* Another: the works it reports are not taken off mPendingWorks.
ReportEosKept(works, answered) ==
  /\ works # {}
  /\ answer' = [Answer(works \cup answered, "ok") EXCEPT ![Back(works)] = "eos"]
  /\ pendingEOS' = FALSE /\ UNCHANGED <<abandoned, pending, inputHeld>>

\* reportEOSWork, with works the pending ones and answered the works answered
\* just before: the last work is the EOS, the others are abandoned.
ReportEos(works, answered) ==
  /\ works # {}
  /\ answer' = [w \in Works |->
                  IF w = Back(works) THEN "eos"
                  ELSE IF w \in works \cup (IF works = {Back(works)} THEN {} ELSE abandoned)
                  THEN "notFound"
                  ELSE IF w \in answered THEN "ok"
                  ELSE answer[w]]
  /\ abandoned' = IF works = {Back(works)} THEN abandoned ELSE {}
  /\ pending' = {} /\ inputHeld' = {} /\ pendingEOS' = FALSE

\* onDrainDone while draining, or while a flush that overtook the drain is
\* still under way: every picture is handed out, then the EOS work is reported.
OnDrainDone ==
  /\ Runs("drainDone") /\ ~Refuses /\ comp \in {"DRAINING", "FLUSHING"}
  /\ ~(pendingEOS /\ PendingAfter(outs) = {})
  /\ IF comp = "DRAINING" THEN UpdateState("STARTED") ELSE UNCHANGED <<comp, hasError>>
  /\ IF pendingEOS
       THEN /\ ReportEos(PendingAfter(outs), SentWorks(outs))
            /\ outs' = SubSeq(outs, SentCount(outs) + (IF Discards(outs) THEN 2 ELSE 1), Len(outs))
            /\ lastReport' = (lastReport \/ SentWorks(outs) # {} \/ Attaches(outs))
            /\ dropped' = {}
       ELSE /\ SendOutputs(outs)
            /\ pending' = PendingAfter(outs) /\ answer' = Answer(SentWorks(outs), "ok")
            /\ UNCHANGED <<abandoned, inputHeld, pendingEOS>>
  /\ RestartDequeue
  /\ UNCHANGED <<clientVars, initResult, stopEvent, queue, drainAt, flushList, sent, lastOut,
                 noOut, envVars>>

\* "Failed to find EOS work".
OnDrainDoneNoEos ==
  /\ Runs("drainDone") /\ ~Refuses /\ comp \in {"DRAINING", "FLUSHING"}
  /\ pendingEOS /\ PendingAfter(outs) = {}
  /\ comp' = IF comp = "DRAINING" THEN "STARTED" ELSE comp
  /\ hasError' = TRUE /\ mState' = "ERROR"
  /\ SendOutputs(outs)
  /\ pending' = {} /\ answer' = Answer(SentWorks(outs), "ok")
  /\ Completes
  /\ UNCHANGED <<stopped, hasQueued, lock, pc, initResult, stopEvent, queue, drainAt, abandoned,
                 flushList, inputHeld, sent, lastOut, noOut, pendingEOS, envVars>>

\* The client stops right before the decoder notifies that the drain is done.
OnDrainDoneStopping ==
  /\ Runs("drainDone") /\ ~Refuses /\ comp = "STOPPING"
  /\ IF pendingEOS /\ pending # {}
       THEN ReportEos(pending, {}) /\ dropped' = {}
       ELSE UNCHANGED <<answer, abandoned, pending, inputHeld, pendingEOS, dropped>>
  /\ IF pendingEOS /\ pending = {} THEN ReportError ELSE UNCHANGED <<mState, hasError>>
  /\ Completes
  /\ UNCHANGED <<stopped, hasQueued, lock, pc, comp, initResult, stopEvent, queue, drainAt,
                 flushList, outs, sent, lastOut, lastReport, noOut, envVars>>

OnDrainDoneUnexpected ==
  /\ Runs("drainDone") /\ ~Refuses /\ comp \in {"STARTING", "STARTED"}
  /\ ReportError /\ Completes
  /\ UNCHANGED <<stopped, hasQueued, lock, pc, comp, initResult, stopEvent, workVars, outVars,
                 envVars, answer>>

\* VideoDecWraper::flush and ::stop, both AmVideoDec's reset: inputs still with
\* the decoder are dropped, a drain is cancelled.
ResetDecoder ==
  dec' = IF dec.up
           THEN [dec EXCEPT !.inputs = {}, !.frames = {}, !.eos = FALSE, !.resets = @ + 1]
           ELSE dec

OnFlush ==
  /\ Runs("flush")
  /\ IF comp \in {"FLUSHING", "STOPPING"}
       THEN UNCHANGED <<comp, hasError, lastOut, dec>>
       ELSE UpdateState("FLUSHING") /\ lastOut' = NoWork /\ ResetDecoder
  /\ Completes
  /\ UNCHANGED <<clientVars, initResult, stopEvent, workVars, outs, sent, lastReport, noOut,
                 pendingEOS, next, kind, left, answer>>

\* The component is in FLUSHING with an error: onFlushDone returns at once.
OnFlushDoneWithError ==
  /\ Runs("resetDone") /\ comp = "FLUSHING" /\ hasError
  /\ hasQueued' = FALSE
  /\ Completes
  /\ UNCHANGED <<mState, stopped, lock, pc, threadVars, workVars, outVars, envVars, answer>>

\* Everything the component holds goes to the list flush_sm returns.  A mutant
\* leaves out what was queued.
FlushedPending == abandoned \cup pending
Flushed == queue \cup abandoned \cup pending

\* The pictures not handed out and the memory of those that were; a mutant leaves
\* the pictures.
ClearSent == sent' = <<>> /\ UNCHANGED outs
ClearOutputs == sent' = <<>> /\ outs' = <<>>

\* onFlushDone.  Works of an earlier flush nobody collected are destroyed; one of
\* the threads that wait in flush_sm, if any, is woken.
OnFlushDone ==
  /\ Runs("resetDone") /\ comp = "FLUSHING" /\ ~hasError
  /\ answer' = Answer(flushList, "lost")
  /\ flushList' = Flushed
  /\ queue' = {} /\ abandoned' = {} /\ pending' = {} /\ inputHeld' = {} /\ dropped' = {}
  /\ ClearOutputs
  /\ UpdateState("STARTED") /\ hasQueued' = FALSE
  /\ IF \E c \in Callers : pc[c] = "waiting"
       THEN \E c \in Callers : pc[c] = "waiting" /\ GoTo(c, "woken")
       ELSE pc' = pc
  /\ Completes
  /\ UNCHANGED <<mState, stopped, lock, initResult, stopEvent, drainAt, lastOut, lastReport,
                 noOut, pendingEOS, envVars>>

\* The states in which onStop has nothing to do; a mutant stops a started
\* component only.
NotStarted == comp # "STARTED"
NothingToStop == comp = "UNINITIALIZED"

\* The done event, kept for onStopDone; a mutant does not keep it.
ForgetDoneEvent == UNCHANGED stopEvent
KeepDoneEvent == stopEvent' = lock

\* The state change clears mCompHasError before onStop tests it and leaves
\* FLUSHING before onStop tests for it, so that the decoder is always reset.  A
\* component that is not initialised returns without signalling.
OnStop ==
  /\ Runs("stop")
  /\ IF NothingToStop
       THEN UNCHANGED <<abandoned, queue, stopEvent, comp, hasError, dec>>
       ELSE /\ abandoned' = abandoned \cup queue /\ queue' = {}
            /\ KeepDoneEvent
            /\ UpdateState("STOPPING")
            /\ ResetDecoder
  /\ Completes
  /\ UNCHANGED <<clientVars, initResult, drainAt, pending, flushList, inputHeld, dropped,
                 outVars, next, kind, left, answer>>

\* The events that start(), stop() and release() wait on.
Signalled(place) ==
  CASE place = "starting" -> "started"
    [] place = "stopping" -> "stopDone"
    [] place = "relStopping" -> "relStopDone"
    [] place = "destroying" -> "released"
    [] OTHER -> place

Signal(c) == pc' = IF c = NoCaller THEN pc ELSE [pc EXCEPT ![c] = Signalled(@)]

\* reportAbandonedWorks reports the pending works and those onStop abandoned; a
\* mutant reports the pending ones only.
PendingOnly == pending
Abandoned == pending \cup abandoned

\* onStopDone: everything the component still holds is abandoned.
OnStopDone ==
  /\ Runs("resetDone") /\ comp = "STOPPING"
  /\ answer' = Answer(Abandoned, "notFound")
  /\ pending' = {} /\ abandoned' = {} /\ inputHeld' = {} /\ dropped' = {}
  /\ pendingEOS' = FALSE
  /\ ClearOutputs /\ noOut' = <<>> /\ hasQueued' = FALSE
  /\ UpdateState("UNINITIALIZED")
  /\ Signal(stopEvent)
  /\ Completes
  /\ UNCHANGED <<mState, stopped, lock, initResult, stopEvent, queue, drainAt, flushList,
                 lastOut, lastReport, envVars>>

OnResetDoneStopped ==
  /\ Runs("resetDone") /\ comp = "UNINITIALIZED"
  /\ Completes
  /\ UNCHANGED <<clientVars, threadVars, workVars, outVars, envVars, answer>>

\* A reset nobody waits for any more: C2_CORRUPTED.
OnResetDoneUnexpected ==
  /\ Runs("resetDone") /\ comp \notin {"UNINITIALIZED", "FLUSHING", "STOPPING"}
  /\ ReportError /\ Completes
  /\ UNCHANGED <<stopped, hasQueued, lock, pc, comp, initResult, stopEvent, workVars, outVars,
                 envVars, answer>>

\* mVdecInitResult keeps its value when onStart returns early; a mutant sets it.
AnyResult(result) == result
VdecInitResult(result) == IF result = "noProfile" THEN initResult ELSE result

\* onStart replaces the decoder of the last start, whose callbacks end.
OnStart(result) ==
  /\ Runs("start")
  /\ UpdateState(IF result = "ok" THEN "STARTED" ELSE "STARTING")
  /\ initResult' = VdecInitResult(result)
  /\ dec' = IF result = "ok" THEN NewDecoder ELSE NoDecoder
  \* Without a supported profile onStart returns before done->Signal().
  /\ IF result = "noProfile" THEN pc' = pc ELSE Signal(lock)
  /\ Completes
  /\ UNCHANGED <<mState, stopped, hasQueued, lock, stopEvent, workVars, outVars, next, kind,
                 left, answer>>

OnDestroy ==
  /\ Runs("destroy")
  /\ ClearOutputs /\ noOut' = <<>> /\ lastReport' = FALSE
  /\ dec' = NoDecoder /\ stopEvent' = NoCaller
  /\ UpdateState("DESTROYED")
  /\ pc' = [c \in Callers |-> IF pc[c] = "destroying" THEN Signalled(pc[c]) ELSE pc[c]]
  /\ Completes
  /\ UNCHANGED <<mState, stopped, hasQueued, lock, initResult, workVars, lastOut, pendingEOS,
                 next, kind, left, answer>>

\* onReportError, posted by NotifyError.
OnReportError ==
  /\ Runs("reportError") /\ ReportError /\ Completes
  /\ UNCHANGED <<stopped, hasQueued, lock, pc, comp, initResult, stopEvent, workVars, outVars,
                 envVars, answer>>

OnNoOutFrameNotify ==
  /\ Runs("noOutNotify")
  /\ noOut' = Append(noOut, Head(tasks).w)
  /\ CompletesPosting(PlainTask("reportNoOut"))
  /\ UNCHANGED <<clientVars, threadVars, workVars, outs, sent, lastOut, lastReport, pendingEOS,
                 envVars, answer>>

\* onReportNoOutFrameFinished reports from the front of mNoOutFrameWorkQueue and
\* stops at a work whose input is not done, or, with an error and without
\* removing it, at one that is not pending.
Reportable(j) ==
  /\ noOut[j] \in pending /\ noOut[j] \notin inputHeld
  /\ \A i \in 1 .. (j - 1) : noOut[i] # noOut[j]
NoOutCount == Back({n \in 0 .. Len(noOut) : \A j \in 1 .. n : Reportable(j)})

OnReportNoOutFrameFinished ==
  /\ Runs("reportNoOut")
  /\ LET reported == {noOut[i] : i \in 1 .. NoOutCount}
         rest == SubSeq(noOut, NoOutCount + 1, Len(noOut))
     IN
       /\ noOut' = rest
       /\ pending' = pending \ reported /\ dropped' = dropped \ reported
       /\ answer' = Answer(reported, "ok")
       /\ IF rest # <<>> /\ Head(rest) \notin pending \ reported
            THEN ReportError ELSE UNCHANGED <<mState, hasError>>
  /\ Completes
  /\ UNCHANGED <<stopped, hasQueued, lock, pc, comp, initResult, stopEvent, queue, drainAt,
                 abandoned, flushList, inputHeld, outs, sent, lastOut, lastReport, pendingEOS,
                 envVars>>

\* onErrorFrameWorksAndReportIfFinised: the work will have no output.
OnErrorFrame ==
  /\ Runs("errorFrame")
  /\ LET w == Head(tasks).w
         done == DoneWithoutOutput(w, inputHeld, pendingEOS, pending)
     IN IF w \notin pending THEN UNCHANGED <<pending, dropped, answer>>
        ELSE IF done
        THEN pending' = pending \ {w} /\ dropped' = dropped \ {w} /\ answer' = Answer({w}, "ok")
        ELSE pending' = pending /\ dropped' = dropped \cup {w} /\ answer' = answer
  /\ Completes
  /\ UNCHANGED <<clientVars, threadVars, queue, drainAt, abandoned, flushList, inputHeld,
                 outVars, envVars>>

-----------------------------------------------------------------------------
(* The decoder, a library behind VideoDecWraper, as its interface promises: *)
(* inputs are consumed in order, a flush ends once every input is decoded,  *)
(* a reset drops the inputs and cancels a flush.                            *)

DecoderStep(t) ==
  /\ Post(t)
  /\ UNCHANGED <<clientVars, threadVars, workVars, outVars, next, kind, answer>>

DecInputDone ==
  /\ dec.inputs # {}
  /\ dec' = [dec EXCEPT !.inputs = @ \ {Front(@)}]
  /\ left' = left
  /\ DecoderStep(WorkTask("inputDone", Front(dec.inputs)))

\* The first picture of a work.
DecPicture(w, quality) ==
  /\ w \in dec.frames
  /\ dec' = [dec EXCEPT !.frames = @ \ {w}]
  /\ left' = left
  /\ DecoderStep(Task("outputDone", w, quality))

\* One packet may contain more than one frame: a picture that is not the last.
DecExtraPicture(w) ==
  /\ w \in dec.frames /\ left > 0
  /\ left' = left - 1
  /\ dec' = dec
  /\ DecoderStep(Task("outputDone", w, "good"))

\* FARAME_INCOMPLETE or FRAME_ERROR: no picture will come.
DecNoPicture(w, op) ==
  /\ w \in dec.frames
  /\ dec' = [dec EXCEPT !.frames = @ \ {w}]
  /\ left' = left
  /\ DecoderStep(WorkTask(op, w))

\* NotifyFlushDone.
DecDrained ==
  /\ dec.eos /\ dec.inputs = {} /\ dec.frames = {}
  /\ dec' = [dec EXCEPT !.eos = FALSE]
  /\ left' = left
  /\ DecoderStep(PlainTask("drainDone"))

\* NotifyFlushOrStopDone.
DecResetDone ==
  /\ dec.resets > 0
  /\ dec' = [dec EXCEPT !.resets = @ - 1]
  /\ left' = left
  /\ DecoderStep(PlainTask("resetDone"))

\* NotifyError; checkPreempting's C2_CANCELED has the same effect.
DecError ==
  /\ dec.up /\ left > 0
  /\ left' = left - 1
  /\ dec' = dec
  /\ DecoderStep(PlainTask("reportError"))

-----------------------------------------------------------------------------
RunTask ==
  \/ RefuseTask \/ OnQueueWork \/ SkipDequeue \/ OnDequeueWork
  \/ OnInputDoneUnknown \/ OnInputBufferDone
  \/ OnSendOutputs \/ OnOutputWhileFlushing \/ OnOutputUnknown \/ OnOutputBufferDone
  \/ OnDrain \/ OnDrainDone \/ OnDrainDoneNoEos \/ OnDrainDoneStopping \/ OnDrainDoneUnexpected
  \/ OnFlush \/ OnFlushDoneWithError \/ OnFlushDone
  \/ OnStop \/ OnStopDone \/ OnResetDoneStopped \/ OnResetDoneUnexpected
  \/ \E result \in InitResults : OnStart(result)
  \/ OnDestroy \/ OnReportError \/ OnNoOutFrameNotify \/ OnReportNoOutFrameFinished \/ OnErrorFrame

Decoder ==
  \/ DecInputDone \/ DecDrained \/ DecResetDone \/ DecError
  \/ \E w \in dec.frames :
       \/ \E quality \in {"good", "bad"} : DecPicture(w, quality)
       \/ DecExtraPicture(w)
       \/ \E op \in {"noOutNotify", "errorFrame"} : DecNoPicture(w, op)

\* What a client thread does of its own accord, and how its calls end.
Calls(c) ==
  \/ StartCall(c) \/ StopCall(c) \/ ResetCall(c) \/ FlushCall(c)
  \/ \E k \in Kinds : QueueCall(c, k)
  \/ \E mode \in {"EOS", "NO_EOS"} : DrainCall(c, mode)
Returns(c) ==
  \/ StartReturn(c) \/ StopReturn(c) \/ FlushWait(c) \/ FlushTimeOut(c) \/ FlushReturn(c)
  \/ DestroyCall(c) \/ StopNeedless(c)

\* After release() nothing is left to do.
Done ==
  /\ \A c \in Callers : pc[c] \in {"idle", "released"}
  /\ \E c \in Callers : pc[c] = "released"
  /\ UNCHANGED vars

Next == RunTask \/ Decoder \/ (\E c \in Callers : Calls(c) \/ Returns(c)) \/ Done

Spec == Init /\ [][Next]_vars

\* The message loop runs, a client thread that waits is scheduled, and the decoder
\* answers: it consumes its inputs, ends a flush and acknowledges a reset.
Fairness ==
  /\ WF_vars(RunTask)
  /\ \A c \in Callers :
       /\ WF_vars(StartReturn(c)) /\ WF_vars(StopReturn(c)) /\ WF_vars(DestroyCall(c))
       /\ WF_vars(FlushWait(c)) /\ WF_vars(FlushReturn(c))
       /\ WF_vars(FlushTimeOut(c) /\ NoAnswerComing)
  /\ WF_vars(DecInputDone) /\ WF_vars(DecDrained) /\ WF_vars(DecResetDone)
  /\ WF_vars(\E w \in dec.frames : \/ \E quality \in {"good", "bad"} : DecPicture(w, quality)
                                   \/ \E op \in {"noOutNotify", "errorFrame"} : DecNoPicture(w, op))

FairSpec == Spec /\ Fairness

-----------------------------------------------------------------------------
\* The tasks of the message loop: those about a work, and the others.
WorkOps == {"queueWork", "inputDone", "outputDone", "noOutNotify", "errorFrame"}
PlainOps == {"dequeueWork", "sendOutputs", "drain", "drainDone", "flush", "stop", "resetDone",
             "start", "destroy", "reportError", "reportNoOut"}
Tasks == [op : WorkOps, w : Works, arg : {"none", "good", "bad"}]
         \cup [op : PlainOps, w : {NoWork}, arg : {"none", "EOS", "NO_EOS"}]
Pictures == [w : Works, bad : BOOLEAN]
Decoders == [up : BOOLEAN, inputs : SUBSET Works, frames : SUBSET Works, eos : BOOLEAN,
             resets : Nat]
Places == {"idle", "starting", "started", "resetting", "releasing", "stopping", "stopDone",
           "relStopping", "relStopDone", "relDone", "destroying", "released",
           "flushing", "waiting", "woken"}

FlagsOK ==
  /\ stopped \in BOOLEAN /\ hasQueued \in BOOLEAN /\ hasError \in BOOLEAN
  /\ lastReport \in BOOLEAN /\ pendingEOS \in BOOLEAN

DataOK ==
  /\ mState \in {"LOADED", "RUNNING", "ERROR"}
  /\ lock \in Callers \cup {NoCaller}
  /\ pc \in [Callers -> Places]
  /\ comp \in {"UNINITIALIZED", "STARTING", "STARTED", "DRAINING", "FLUSHING", "STOPPING",
               "DESTROYED"}
  /\ initResult \in {"ok", "fail"}
  /\ stopEvent \in Callers \cup {NoCaller}
  /\ tasks \in Seq(Tasks)
  /\ queue \in SUBSET Works /\ drainAt \in [Works -> {"none", "EOS", "NO_EOS"}]
  /\ pending \in SUBSET Works /\ abandoned \in SUBSET Works /\ flushList \in SUBSET Works
  /\ inputHeld \in SUBSET Works /\ dropped \in SUBSET Works
  /\ outs \in Seq(Pictures) /\ sent \in Seq(Works)
  /\ lastOut \in Works \cup {NoWork}
  /\ noOut \in Seq(Works)
  /\ dec \in Decoders
  /\ next \in 0 .. MaxWorks /\ kind \in [Works -> AllKinds]
  /\ answer \in [Works -> {"none", "ok", "eos", "notFound", "lost"}]
  /\ left \in Nat

\* Type correctness of the whole state.  Among others: every task carries the
\* work or the mode its handler needs, and no reset is ended that was not begun.
TypeOK == FlagsOK /\ DataOK

-----------------------------------------------------------------------------
(* Properties.                                                              *)

\* Works handed to onQueueWork tasks that have not run yet.
Arriving == {tasks[i].w : i \in {i \in 1 .. Len(tasks) : tasks[i].op = "queueWork"}}

\* A work accepted by queue_nb and not given back is in exactly one of the places
\* the component keeps works in, and a work given back is in none: no handler
\* leaks a C2Work, answers it twice, or keeps one it has answered.
WorkAccounting ==
  /\ \A w \in Works : w \in 1 .. next /\ answer[w] = "none"
       <=> w \in Arriving \cup queue \cup pending \cup abandoned \cup flushList
  /\ Arriving \cap queue = {} /\ (Arriving \cup queue) \cap pending = {}
  /\ (Arriving \cup queue \cup pending) \cap abandoned = {}
  /\ (Arriving \cup queue \cup pending \cup abandoned) \cap flushList = {}

\* The component keeps the contract of WorkContract: whatever calls, tasks and
\* notifications interleave, a work is given back at most once, only after it was
\* accepted, and its outcome stands.
Contract == INSTANCE WorkContract WITH
  accepted <- next, outcome <- answer, Outcomes <- {"ok", "eos", "notFound", "lost"}
GivenBackOnce == Contract!Spec

\* Works reach the decoder in the order in which they were queued: whatever is
\* pending is older than what is queued, which is older than what arrives.
Order ==
  /\ \A i, j \in 1 .. Len(tasks) :
       i < j /\ tasks[i].op = "queueWork" /\ tasks[j].op = "queueWork" => tasks[i].w < tasks[j].w
  /\ \A w \in Arriving : w <= next /\ \A v \in queue \cup pending : v < w
  /\ \A w \in queue, v \in pending : v < w

\* A stopped component holds no work it has dequeued, no picture and no drain.
StoppedIsEmpty ==
  comp = "UNINITIALIZED" =>
    pending = {} /\ abandoned = {} /\ outs = <<>> /\ ~pendingEOS

\* While the component is stopping, the event it will signal belongs to a thread
\* that waits on it: CHECK(mStopDoneEvent) holds and Signal() hits a live object.
StopEventLive ==
  comp = "STOPPING" =>
    stopEvent \in Callers /\ pc[stopEvent] \in {"stopping", "relStopping"}

\* A thread that waits in stop() will be answered: onStop is still to run, or it
\* has run and the decoder owes, or has sent, the notification that ends it.
StopIsServed ==
  \A c \in Callers : pc[c] \in {"stopping", "relStopping"} =>
    \/ \E i \in 1 .. Len(tasks) : tasks[i].op = "stop"
    \/ /\ comp = "STOPPING"
       /\ dec.resets > 0 \/ \E i \in 1 .. Len(tasks) : tasks[i].op = "resetDone"

\* When a work is reported as the end of the stream, no work queued before it is
\* still queued or pending.
EosIsLast ==
  \A e \in Works : answer[e] = "eos" => \A w \in queue \cup pending \cup Arriving : e < w

\* flush_sm returns C2_OK only with every work queued before it given back.
FlushGivesAllBack ==
  [][\A c \in Callers : pc[c] = "woken" /\ pc'[c] = "idle" =>
       \A w \in 1 .. next : answer'[w] # "none"]_vars

\* "Do not request Vdec reset again before the previous one is done."
OneResetAtATime == dec.resets <= 1

\* mPendingOutputEOS "should be always set along with component going to DRAINING
\* state, and will be unset either after reportEOSWork() or reportAbandonedWorks()".
EosOnlyInDrain == pendingEOS => comp \in {"DRAINING", "FLUSHING", "STOPPING"}

\* A drain ends.
DrainEnds == comp = "DRAINING" ~> (comp # "DRAINING" \/ hasError)

\* A work queued as the end of the stream is answered, flushed or, with an error
\* reported to the client, given up.
EosWaits ==
  /\ mState # "ERROR" /\ ~hasError
  /\ \E w \in 1 .. next : IsEos(w) /\ answer[w] = "none" /\ w \notin flushList
EosAnswered == EosWaits ~> ~EosWaits

\* onReportNoOutFrameFinished logs of a work that will have no picture and whose
\* input is not done yet that it "will retry": the work is reported eventually.
NoOutRetried == \A w \in Works :
  (\E i \in 1 .. Len(noOut) : noOut[i] = w) ~> (w \notin pending \/ mState = "ERROR")
=============================================================================
