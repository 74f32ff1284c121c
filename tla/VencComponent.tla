--------------------------- MODULE VencComponent ---------------------------
(***************************************************************************)
(* The video encoders: C2VencComponent with its encoders C2VencHCodec,     *)
(* C2VencMulti and C2VencW420New, and C2VencComp, which has the same       *)
(* skeleton; their ThreadWorker; and their parameters (VencParams).        *)
(*                                                                         *)
(* Client threads share mQueue, the state and the encoder handle with a    *)
(* worker thread that polls the queue.  queue_nb, stop and ProcessData     *)
(* lock mInputQueueLock, flush_sm does not: it is one action for each      *)
(* operation on the list.  unique_ptrs moved out of the list leave a null  *)
(* behind until they are popped.  A list operation that finds the list     *)
(* empty after all, one in the middle of another, and a step that uses a   *)
(* null or a closed handle may do anything: they lead to "broken".         *)
(*                                                                         *)
(* Abstracted: the picture (converted or not) and the encoder libraries,   *)
(* the frame rate measured from the timestamps, the output block, dumps,   *)
(* and the order in which waiting threads get a lock.  Works are numbered  *)
(* as the client numbers them (frameIndex + 1).                            *)
(***************************************************************************)
EXTENDS Integers, Sequences, FiniteSets, VencParams

CONSTANTS
  Streams,     \* what the instance looks at, see StreamsAssumption
  Callers,     \* the client threads
  MaxEntries   \* bound: works the clients queue

\* A picture; one with an update that asks for a sync frame; one of another size; the last
\* one; and an end of the stream without a picture.
AllKinds == {"data", "sync", "other", "eos", "eosAlone"}

\* A stream is for one encoder and some client threads; it has so many works of these
\* kinds, so many starts, failures, requests for a sync frame and settings (bounds).
ASSUME StreamsAssumption ==
  Streams \subseteq [encoder : AllEncoders, threads : SUBSET Callers, entries : 0 .. MaxEntries,
                    kinds : SUBSET AllKinds, starts : Nat, failures : Nat, requests : Nat,
                    settings : Nat]
ASSUME CallersAssumption == IsFiniteSet(Callers)
ASSUME BoundsAssumption == MaxEntries \in Nat

Entries == 1 .. MaxEntries
Null == 0

VARIABLES
  stream,   \* which encoder this is, and what it will get
  state,    \* mComponentState
  pc,       \* where each client thread is
  hand,     \* the work a thread in flush_sm has moved out of the list
  queue,    \* mQueue: works, and Null where one was moved out
  running,  \* mRunning of the ThreadWorker
  exit,     \* mExitRequested
  worker,   \* where the worker thread is in threadLoop and ProcessData
  current,  \* the work it has taken
  handle,   \* mCodecHandle is not null
  opened,   \* the parameters the encoder library has been given
  sawEos,   \* mSawInputEOS
  header,   \* mSpsPpsHeaderReceived
  params,   \* the parameters of the interface
  sync,     \* mRequestSync of the interface: its value, and which object it is
  seen,     \* mRequestSync of the encoder: which object
  read,     \* requestSync and bitrate of ProcessOneFrame
  idr,      \* the frame is to be a sync frame
  next,     \* works queued so far
  kind,     \* what each work is
  answer,   \* how each work was given back
  eosOut,   \* the works given back flagged as the end of the stream
  csdOut,   \* the works that carry the codec specific data
  unserved, \* a sync frame was asked for and has not been encoded
  late,     \* a stop stopped waiting before the worker left its loop, or before a new one began
  flushed,  \* flush_sm has been called
  left      \* starts, failures, requests and settings that may still happen

workerVars == <<worker, current, sawEos, header, seen, read, idr>>
threadVars == <<running, exit>>
codecVars  == <<handle, opened>>
entryVars  == <<next, kind>>
outVars    == <<answer, eosOut, csdOut>>
ghostVars  == <<unserved, late, flushed>>
vars == <<stream, state, pc, hand, queue, threadVars, workerVars, codecVars, params, sync,
          entryVars, outVars, ghostVars, left>>

-----------------------------------------------------------------------------
GoTo(c, place) == pc' = [pc EXCEPT ![c] = place]
Answer(S, how) == answer' = [w \in Entries |-> IF w \in S THEN how ELSE answer[w]]
Elements(q) == {q[i] : i \in DOMAIN q}
MayCall(c) == c \in stream.threads /\ pc[c] = "idle"
May(what) == left[what] > 0 /\ left' = [left EXCEPT ![what] = @ - 1]

\* ThreadWorker::mLock is held during a pthread_join, mProcessDoneLock during stop's.
ThreadLocked == \E d \in Callers : pc[d] \in {"joining", "rejoining"}
DoneLocked == \E d \in Callers : pc[d] \in {"stopThread", "joining"}
\* mInputQueueLock is held by the worker while it takes a work.
QueueLocked == worker = "taking"

Init ==
  /\ stream \in Streams
  /\ state = "UNINITIALIZED"
  /\ pc = [c \in Callers |-> "idle"] /\ hand = [c \in Callers |-> Null]
  /\ queue = <<>> /\ running = FALSE /\ exit = FALSE
  /\ worker = "none" /\ current = Null /\ sawEos = FALSE /\ header = FALSE
  /\ handle = FALSE /\ params = DefaultParams(stream.encoder) /\ opened = params
  /\ sync = [value |-> FALSE, object |-> 1] /\ seen = 0 /\ idr = FALSE
  /\ read = [request |-> sync, bitrate |-> 0]
  /\ next = 0 /\ kind = [w \in Entries |-> "data"]
  /\ answer = [w \in Entries |-> "none"] /\ eosOut = {} /\ csdOut = {}
  /\ unserved = FALSE /\ late = FALSE /\ flushed = FALSE
  /\ left = [starts |-> stream.starts, failures |-> stream.failures,
             requests |-> stream.requests, settings |-> stream.settings]

-----------------------------------------------------------------------------
(* The calls of the client threads: start.                                  *)

StartStep == UNCHANGED <<stream, hand, queue, current, sawEos, header, seen, read, idr, params,
                         sync, entryVars, outVars, unserved, flushed>>

StartCheck(c) ==
  /\ MayCall(c) /\ state = "UNINITIALIZED" /\ May("starts")
  /\ GoTo(c, "init")
  /\ StartStep /\ UNCHANGED <<state, threadVars, worker, codecVars, late>>

\* doSomeInit: LoadModule, which finds the library or not, and Init, which opens it with
\* the parameters of the interface (mIsInit is never set).
NotOpened(c) == GoTo(c, "idle") /\ May("failures") /\ UNCHANGED codecVars
Opened(c) == GoTo(c, "create") /\ handle' = TRUE /\ opened' = params /\ UNCHANGED left

StartInit(c) ==
  /\ pc[c] = "init"
  /\ Opened(c) \/ NotOpened(c)
  /\ StartStep /\ UNCHANGED <<state, threadVars, worker, late>>

\* ThreadWorker::start: pthread_create, unless a thread is running; one that is about
\* to exit is joined first.
StartThread(c) ==
  /\ \/ pc[c] = "create" /\ ~ThreadLocked /\ ~(exit /\ running)
     \/ pc[c] = "rejoining" /\ worker = "exited"
  /\ exit' = FALSE /\ GoTo(c, "created")
  /\ LET ignored == pc[c] = "create" /\ running
     IN  \/ ~ignored /\ running' = TRUE /\ worker' = "loop" /\ UNCHANGED left
         \/ ~ignored /\ running' = FALSE /\ worker' = "none" /\ May("failures")
         \/ ignored /\ UNCHANGED <<running, worker, left>>
  /\ late' = (late \/ \E d \in Callers : pc[d] \in {"signalled", "stopThread"})
  /\ StartStep /\ UNCHANGED <<state, codecVars>>

StartRejoin(c) ==
  /\ pc[c] = "create" /\ ~ThreadLocked /\ exit /\ running
  /\ GoTo(c, "rejoining")
  /\ StartStep /\ UNCHANGED <<state, threadVars, worker, codecVars, left, late>>

StartReturn(c) ==
  /\ pc[c] = "created" /\ state' = "STARTED" /\ GoTo(c, "idle")
  /\ StartStep /\ UNCHANGED <<threadVars, worker, codecVars, left, late>>

-----------------------------------------------------------------------------
(* stop, reset and release: stop_process and Close.                         *)

StopStep == UNCHANGED <<stream, hand, current, sawEos, header, opened, seen, read, idr, params,
                        sync, entryVars, eosOut, csdOut, unserved, flushed, left>>

\* A component that is not started is closed all the same.
StopCheck(c) ==
  /\ MayCall(c)
  /\ IF state = "UNINITIALIZED" THEN GoTo(c, "close") /\ UNCHANGED state
     ELSE GoTo(c, "clear") /\ state' = "STOPPING"
  /\ StopStep /\ UNCHANGED <<queue, threadVars, worker, handle, answer, late>>

StopClear(c) ==
  /\ pc[c] = "clear" /\ ~QueueLocked /\ GoTo(c, "askThread")
  /\ queue' = <<>> /\ Answer(Elements(queue) \ {Null}, "lost")
  /\ StopStep /\ UNCHANGED <<state, threadVars, worker, handle, late>>

StopAskThread(c) ==
  /\ pc[c] = "askThread" /\ ~ThreadLocked
  /\ GoTo(c, IF running THEN "request" ELSE "stopped")
  /\ StopStep /\ UNCHANGED <<state, queue, threadVars, worker, handle, answer, late>>

\* Locks mProcessDoneLock, requests the exit, and waits, which unlocks it.
StopRequest(c) ==
  /\ pc[c] = "request" /\ ~DoneLocked
  /\ exit' = TRUE /\ GoTo(c, "waiting")
  /\ StopStep /\ UNCHANGED <<state, queue, running, worker, handle, answer, late>>

WorkerGone == worker \in {"none", "exited"}

\* A worker that is asked to leave and has no work in hand does so in less than 500 ms.
LeavesInTime == exit /\ worker \in {"loop", "entered", "exiting"}

\* The wait ends, signalled or after 500 ms, and has the lock again.
StopWaited(c) ==
  /\ ~DoneLocked /\ GoTo(c, "stopThread")
  /\ \/ pc[c] = "signalled" /\ UNCHANGED late
     \/ pc[c] = "waiting" /\ ~LeavesInTime /\ late' = (late \/ ~WorkerGone)
  /\ StopStep /\ UNCHANGED <<state, queue, threadVars, worker, handle, answer>>

\* A mutant asks the thread to leave and does not join it.
StopUnjoined(c) ==
  /\ pc[c] = "stopThread" /\ ~ThreadLocked
  /\ exit' = running /\ GoTo(c, "stopped")
  /\ StopStep /\ UNCHANGED <<state, queue, running, worker, handle, answer, late>>

\* ThreadWorker::stop joins the thread, if it is running, with mProcessDoneLock held.
StopThread(c) ==
  /\ pc[c] = "stopThread" /\ ~ThreadLocked
  /\ exit' = running /\ GoTo(c, IF running THEN "joining" ELSE "stopped")
  /\ StopStep /\ UNCHANGED <<state, queue, running, worker, handle, answer, late>>

StopJoined(c) ==
  /\ pc[c] = "joining" /\ worker = "exited"
  /\ worker' = "none" /\ running' = FALSE /\ exit' = FALSE
  /\ GoTo(c, "stopped")
  /\ StopStep /\ UNCHANGED <<state, queue, handle, answer, late>>

StopDone(c) ==
  /\ pc[c] = "stopped" /\ state' = "UNINITIALIZED" /\ GoTo(c, "close")
  /\ StopStep /\ UNCHANGED <<queue, threadVars, worker, handle, answer, late>>

Close(c) ==
  /\ pc[c] = "close" /\ handle' = FALSE /\ GoTo(c, "idle")
  /\ StopStep /\ UNCHANGED <<state, queue, threadVars, worker, answer, late>>

-----------------------------------------------------------------------------
(* queue_nb, flush_sm, and the interface.                                   *)

FeedStep == UNCHANGED <<stream, state, threadVars, codecVars, late>>

\* push_back; a mutant pushes to the front.
PushedFront(w) == <<w>> \o queue
Pushed(w) == Append(queue, w)

\* No state is checked: works can be queued while the component is stopped.
QueuePush(c, k) ==
  /\ MayCall(c) /\ ~QueueLocked /\ next < stream.entries
  /\ next' = next + 1 /\ kind' = [kind EXCEPT ![next + 1] = k]
  /\ queue' = Pushed(next + 1)
  /\ FeedStep
  /\ UNCHANGED <<pc, hand, workerVars, params, sync, outVars, unserved, flushed, left>>

FlushStep ==
  /\ FeedStep
  /\ UNCHANGED <<current, sawEos, header, seen, read, idr, params, sync, entryVars, eosOut,
                 csdOut, unserved, left>>

\* while (!mQueue.empty()) ...
FlushTest(c) ==
  /\ MayCall(c) \/ pc[c] = "flushTest"
  /\ GoTo(c, IF queue = <<>> THEN "idle" ELSE "flushMove")
  /\ flushed' = TRUE
  /\ FlushStep /\ UNCHANGED <<hand, queue, worker, answer>>

\* work = std::move(mQueue.front());
FlushMove(c) ==
  /\ pc[c] = "flushMove" /\ queue # <<>>
  /\ hand' = [hand EXCEPT ![c] = Head(queue)] /\ queue' = [queue EXCEPT ![1] = Null]
  /\ GoTo(c, "flushPop")
  /\ FlushStep /\ UNCHANGED <<worker, answer, flushed>>

\* mQueue.pop_front() destroys the work it finds; the one in hand, if any, goes to
\* the client.  A mutant forgets to append it to flushedWork.
FlushForgets(c) == Answer({Head(queue)}, "lost")
FlushAnswers(c) ==
  answer' = [w \in Entries |-> IF w = hand[c] THEN "flushed"
                              ELSE IF w = Head(queue) THEN "lost" ELSE answer[w]]

FlushPop(c) ==
  /\ pc[c] = "flushPop" /\ queue # <<>>
  /\ queue' = Tail(queue)
  /\ FlushAnswers(c)
  /\ hand' = [hand EXCEPT ![c] = Null]
  /\ GoTo(c, "flushTest")
  /\ FlushStep /\ UNCHANGED <<worker, flushed>>

\* The list is empty, or another thread may be at it at the same moment.
FlushBreaks(c) ==
  /\ pc[c] \in {"flushMove", "flushPop"}
  /\ \/ queue = <<>> \/ worker \in {"entered", "taking"}
     \/ \E d \in stream.threads \ {c} : pc[d] \in {"idle", "clear", "flushMove", "flushPop"}
  /\ worker' = "broken"
  /\ FlushStep /\ UNCHANGED <<pc, hand, queue, answer, flushed>>

\* A parameter that is set is a new object; an equal value may keep the old one.
Sync(value) ==
  {[value |-> value, object |-> sync.object + 1]} \cup {s \in {sync} : s.value = value}

RequestSync(c) ==
  /\ MayCall(c) /\ May("requests")
  /\ sync' \in Sync(TRUE) /\ unserved' = TRUE
  /\ FeedStep /\ UNCHANGED <<pc, hand, queue, workerVars, params, entryVars, outVars, flushed>>

\* The values the clients set (a small choice of the possible ones).
Sizes    == {<<176, 144>>, <<1280, 720>>, <<1920, 1080>>, <<3840, 2160>>, <<4096, 2160>>}
Rates    == {15, 60}
Bitrates == {1000, 2000000, 50000000}
Levels(e) == {3, 10} \cup IF IsHevc(e) THEN {HighTier(6)} ELSE {LevelOneB, NoRow}
QpLayers == {<<>>} \cup {<<[type |-> "I", min |-> 0, max |-> 30],
                          [type |-> t, min |-> 20, max |-> 60]>> : t \in {"I", "P"}}

Set(e, p) ==
  {SetSize(e, p, s[1], s[2]) : s \in Sizes} \cup {SetRate(e, p, r) : r \in Rates}
    \cup {SetBitrate(e, p, b) : b \in Bitrates} \cup {SetLevel(e, p, l) : l \in Levels(e)}
    \cup {SetQp(p, q) : q \in QpLayers}

Configure(c) ==
  /\ MayCall(c) /\ May("settings")
  /\ params' \in Set(stream.encoder, params)
  /\ FeedStep
  /\ UNCHANGED <<pc, hand, queue, workerVars, sync, entryVars, outVars, unserved, flushed>>

-----------------------------------------------------------------------------
(* The worker thread: threadLoop and ProcessData.                           *)

WorkerStep == UNCHANGED <<stream, state, hand, threadVars, handle, entryVars, late, flushed>>

\* A mutant looks only at mRunning, which requestExit leaves alone.
ExitUnseen == ~running
ExitRequested == exit

LoopTest ==
  /\ worker = "loop" /\ worker' = IF ExitRequested THEN "exiting" ELSE "entered"
  /\ WorkerStep
  /\ UNCHANGED <<pc, queue, current, opened, sawEos, header, seen, read, idr, params, sync,
                 outVars, unserved, left>>

\* std::move(mQueue.front()), if there is one.  A mutant copies it.
Copied == queue
MovedOut == [queue EXCEPT ![1] = Null]

TakeMove ==
  /\ worker = "entered"
  /\ IF queue = <<>> THEN worker' = "loop" /\ UNCHANGED <<queue, current>>
     ELSE /\ worker' = "taking"
          /\ current' = Head(queue) /\ queue' = MovedOut
  /\ WorkerStep
  /\ UNCHANGED <<pc, opened, sawEos, header, seen, read, idr, params, sync, outVars, unserved,
                 left>>

\* mQueue.pop_front(), which in the middle of a flush may destroy another work.
TakePop ==
  /\ worker = "taking"
  /\ IF queue = <<>> THEN worker' = "broken" /\ UNCHANGED <<queue, answer>>
     ELSE /\ worker' = IF current = Null THEN "loop" ELSE "taken"
          /\ queue' = Tail(queue) /\ Answer({Head(queue)}, "lost")
  /\ WorkerStep
  /\ UNCHANGED <<pc, current, opened, sawEos, header, seen, read, idr, params, sync, eosOut,
                 csdOut, unserved, left>>

HasEos(w) == kind[w] \in {"eos", "eosAlone"}

\* WorkDone: the flags are the ones that came with the work.  A mutant does not mark the
\* work as processed: it is destroyed.
WorkUnmarked(w) == Answer({w}, "lost") /\ UNCHANGED eosOut
WorkDone(w) == Answer({w}, "failed") /\ eosOut' = eosOut \cup {v \in {w} : HasEos(v)}

\* The update that comes with a work, and its end of stream flag.
ConfigUpdate ==
  IF kind[current] = "sync" THEN sync' \in Sync(TRUE) /\ unserved' = TRUE
  ELSE UNCHANGED <<sync, unserved>>
\* A mutant misses the one with a picture.
EosMissed == sawEos' = (sawEos \/ kind[current] = "eosAlone")
SeesEos == sawEos' = (sawEos \/ HasEos(current))

ReceiveStep == WorkerStep /\ UNCHANGED <<pc, queue, opened, seen, read, idr>>

\* No picture.
ReceiveEmpty ==
  /\ worker = "taken" /\ kind[current] = "eosAlone"
  /\ SeesEos /\ WorkDone(current)
  /\ worker' = "loop" /\ current' = Null
  /\ ReceiveStep /\ UNCHANGED <<sync, header, params, csdOut, unserved, left>>

DefaultSize == [width |-> DefaultParams(stream.encoder).width,
                height |-> DefaultParams(stream.encoder).height]
PictureSize(w) == IF kind[w] = "other" THEN [width |-> 320, height |-> 240] ELSE DefaultSize
HasSize(p, size) == p.width = size.width /\ p.height = size.height

\* CheckPicSize: only the first work, the one with frameIndex 0, changes the size of the
\* interface.
SizeIsValid(w) == HasSize(params, PictureSize(w)) \/ w = 1
Resized(w) ==
  IF HasSize(params, PictureSize(w)) THEN params
  ELSE SetSize(stream.encoder, params, PictureSize(w).width, PictureSize(w).height)

\* There is a picture, but it cannot be used: a wrong size, a failed conversion, no output
\* block, no header, no memory for the header that was generated.
ReceiveFails ==
  /\ worker = "taken" /\ kind[current] # "eosAlone"
  /\ ConfigUpdate /\ SeesEos
  /\ \/ ~SizeIsValid(current) /\ WorkDone(current) /\ UNCHANGED <<params, header, left>>
     \/ /\ SizeIsValid(current) /\ May("failures") /\ WorkDone(current)
        /\ params' \in {params, Resized(current)}
        /\ header' \in {header, TRUE} /\ (header' # header => handle)
  /\ worker' = "loop" /\ current' = Null
  /\ ReceiveStep /\ UNCHANGED csdOut

\* A block that cannot be mapped or is of no known type: the work is destroyed.  Without
\* a pool for the output the next use of it breaks.
ReceiveDrops ==
  /\ worker = "taken" /\ kind[current] # "eosAlone" /\ May("failures")
  /\ ConfigUpdate /\ SeesEos
  /\ \/ worker' = "loop" /\ current' = Null /\ Answer({current}, "lost")
     \/ SizeIsValid(current) /\ worker' = "broken" /\ UNCHANGED <<current, answer>>
  /\ ReceiveStep /\ UNCHANGED <<header, params, eosOut, csdOut>>

\* The header is generated before the first picture that gets this far.  A mutant looks
\* for the first one at frameIndex 0.
FirstNeedsHeader(w) == ~header /\ w = 1
NeedsHeader(w) == ~header

Receive ==
  /\ worker = "taken" /\ kind[current] # "eosAlone" /\ SizeIsValid(current)
  /\ ConfigUpdate /\ SeesEos /\ params' = Resized(current)
  /\ \/ ~NeedsHeader(current) /\ worker' = "ready" /\ UNCHANGED <<header, csdOut>>
     \/ NeedsHeader(current) /\ handle /\ worker' = "ready" /\ header' = TRUE /\ csdOut' = csdOut \cup {current}
     \/ NeedsHeader(current) /\ ~handle /\ worker' = "broken" /\ UNCHANGED <<header, csdOut>>
  /\ ReceiveStep /\ UNCHANGED <<current, answer, eosOut, left>>

-----------------------------------------------------------------------------
(* ProcessOneFrame and the end of the thread.                               *)

EncodeStep == WorkerStep /\ UNCHANGED <<pc, queue, sawEos, header, params>>

\* The parameters are read under the lock of the interface, which is then released.
ReadSync ==
  /\ worker = "ready" /\ worker' = "read"
  /\ read' = [request |-> sync, bitrate |-> params.bitrate]
  /\ EncodeStep /\ UNCHANGED <<current, opened, seen, idr, sync, outVars, unserved, left>>

\* A mutant clears the request whether or not the one it read was set.
ClearsAlways(request) == TRUE
Clears(request) == request.value

ApplySync ==
  /\ worker = "read" /\ worker' = "encode"
  /\ LET request == read.request
     IN  /\ IF request.object # seen /\ Clears(request) THEN sync' \in Sync(FALSE)
                                                        ELSE UNCHANGED sync
         /\ idr' = (request.object # seen /\ request.value)
         /\ seen' = request.object
  /\ EncodeStep /\ UNCHANGED <<current, opened, read, outVars, unserved, left>>

\* The library is told the bitrate with the picture.
Told == [opened EXCEPT !.bitrate = read.bitrate]

\* finishWork flags everything from the end of the stream on.
Encode ==
  /\ worker = "encode" /\ handle /\ opened' = Told
  /\ worker' = "loop" /\ current' = Null /\ idr' = FALSE
  /\ Answer({current}, "done")
  /\ eosOut' = IF sawEos THEN eosOut \cup {current} ELSE eosOut
  /\ unserved' = (unserved /\ ~idr)
  /\ EncodeStep /\ UNCHANGED <<seen, read, sync, csdOut, left>>

\* The library fails: the work is destroyed, and the header with it.
EncodeFails ==
  /\ worker = "encode" /\ handle /\ May("failures") /\ opened' = Told
  /\ worker' = "loop" /\ current' = Null /\ idr' = FALSE
  /\ Answer({current}, "lost") /\ csdOut' = csdOut \ {current}
  /\ EncodeStep /\ UNCHANGED <<seen, read, sync, eosOut, unserved>>

\* A handle that Close has closed.
EncodeBreaks ==
  /\ worker = "encode" /\ ~handle /\ worker' = "broken"
  /\ EncodeStep /\ UNCHANGED <<current, opened, seen, read, idr, sync, outVars, unserved, left>>

\* After the loop: mProcessDoneCond.signal() wakes one thread that waits, if any.
Signal ==
  /\ worker = "exiting" /\ ~DoneLocked /\ worker' = "exited"
  /\ LET waiting == {c \in Callers : pc[c] = "waiting"}
     IN  IF waiting = {} THEN UNCHANGED pc ELSE \E c \in waiting : GoTo(c, "signalled")
  /\ WorkerStep
  /\ UNCHANGED <<queue, current, opened, sawEos, header, seen, read, idr, params, sync,
                 outVars, unserved, left>>

Works ==
  \/ LoopTest \/ TakeMove \/ TakePop
  \/ ReceiveEmpty \/ ReceiveFails \/ ReceiveDrops \/ Receive
  \/ ReadSync \/ ApplySync \/ Encode \/ EncodeFails \/ EncodeBreaks
  \/ Signal

-----------------------------------------------------------------------------
Stopping(c) ==
  \/ StopClear(c) \/ StopAskThread(c) \/ StopRequest(c) \/ StopWaited(c) \/ StopThread(c)
  \/ StopJoined(c) \/ StopDone(c) \/ Close(c)

Starting(c) == StartInit(c) \/ StartThread(c) \/ StartRejoin(c) \/ StartReturn(c)

Flushing(c) ==
  (pc[c] = "flushTest" /\ FlushTest(c)) \/ FlushMove(c) \/ FlushPop(c) \/ FlushBreaks(c)

Calls(c) ==
  \/ StartCheck(c) \/ StopCheck(c) \/ (MayCall(c) /\ FlushTest(c))
  \/ RequestSync(c) \/ Configure(c) \/ (\E k \in stream.kinds : QueuePush(c, k))

\* The worker waits for the lock that a stop holds while it waits for the worker.
Hung == worker = "exiting" /\ DoneLocked
Ends == (worker = "broken" \/ Hung) /\ UNCHANGED vars

Next ==
  \/ worker # "broken" /\ Works
  \/ worker # "broken" /\ \E c \in Callers : Calls(c) \/ Starting(c) \/ Stopping(c) \/ Flushing(c)
  \/ Ends

Spec == Init /\ [][Next]_vars

\* The threads run; nothing forces a client to call, or the library to fail.  A wait ends
\* by itself after 500 ms.
FairSpec ==
  /\ Spec
  /\ WF_vars(worker # "broken" /\ Works)
  /\ \A c \in Callers : WF_vars(worker # "broken" /\ (Starting(c) \/ Stopping(c) \/ Flushing(c)))

-----------------------------------------------------------------------------
(* Properties.                                                              *)

Places == {"idle", "init", "create", "rejoining", "created", "clear", "askThread", "request",
           "waiting", "signalled", "stopThread", "joining", "stopped", "close", "flushTest",
           "flushMove", "flushPop"}
Positions == {"none", "loop", "entered", "taking", "taken", "ready", "read", "encode",
              "exiting", "exited", "broken"}
Outcomes == {"done", "failed", "flushed", "lost"}
Request == [value : BOOLEAN, object : Nat]

\* Every variable has its type; the works are within the bound, and so is the bitrate.
TypeOK ==
  /\ stream \in Streams /\ state \in {"UNINITIALIZED", "STARTED", "STOPPING"}
  /\ pc \in [Callers -> Places] /\ hand \in [Callers -> Entries \cup {Null}]
  /\ queue \in Seq(Entries \cup {Null}) /\ current \in Entries \cup {Null}
  /\ running \in BOOLEAN /\ exit \in BOOLEAN /\ worker \in Positions
  /\ params.bitrate >= MinBitrate(stream.encoder)
  /\ handle \in BOOLEAN /\ sawEos \in BOOLEAN /\ header \in BOOLEAN /\ idr \in BOOLEAN
  /\ sync \in Request /\ read \in [request : Request, bitrate : Nat] /\ seen \in Nat
  /\ next \in 0 .. MaxEntries /\ kind \in [Entries -> AllKinds]
  /\ answer \in [Entries -> Outcomes \cup {"none"}]
  /\ eosOut \subseteq Entries /\ csdOut \subseteq Entries
  /\ unserved \in BOOLEAN /\ late \in BOOLEAN /\ flushed \in BOOLEAN
  /\ left \in [{"starts", "failures", "requests", "settings"} -> Nat]

NothingFailed == left.failures = stream.failures
InHands == {hand[c] : c \in Callers} \ {Null}

\* A work that was queued and has not been given back or destroyed is in mQueue, with the
\* worker or with a flush, and in one of them only.
WorkAccounting ==
  /\ \A w \in Entries :
       w <= next /\ answer[w] = "none" <=> w \in Elements(queue) \cup {current} \cup InHands
  /\ current \notin Elements(queue) \ {Null} /\ InHands \cap (Elements(queue) \cup {current}) = {}
  /\ \A i, j \in DOMAIN queue : i # j /\ queue[i] # Null => queue[i] # queue[j]

\* The component keeps the contract of WorkContract.
Contract == INSTANCE WorkContract WITH MaxWorks <- MaxEntries, accepted <- next, outcome <- answer
GivenBackOnce == Contract!Spec

\* A work is destroyed by a stop, by a failure, or while a flush is at the list, and in no
\* other step: one that is no picture or of a wrong size goes back to the client.
LostOnlyWithReason ==
  [][\A w \in Entries : answer[w] # "lost" /\ answer'[w] = "lost" =>
       \/ \E c \in Callers : pc[c] \in {"clear", "flushMove", "flushPop"}
       \/ left'.failures # left.failures
       \/ flushed /\ worker = "taking"]_vars

\* Pictures are encoded in the order they were queued in, whatever is flushed between them.
InOrder ==
  \A w \in Entries : answer[w] = "done" =>
    \A v \in 1 .. w - 1 : answer[v] # "none" \/ v \in InHands

\* Works are flagged as the end of the stream only when the client's end of stream was
\* among them or before them, and the client's own comes back flagged.
EosFlagged ==
  /\ \A w \in eosOut : \E v \in 1 .. w : HasEos(v)
  /\ \A w \in Entries : HasEos(w) /\ answer[w] \in {"done", "failed"} => w \in eosOut

\* A request for a sync frame that came before the last frame was encoded, or after it, is
\* served by that frame or still there to be seen by the next one, whenever it came between
\* the reading and the clearing, as long as nothing failed.
SyncServed ==
  unserved /\ NothingFailed /\ worker # "broken" =>
    \/ sync.value /\ sync.object # seen
    \/ worker = "read" /\ read.request.value /\ read.request.object # seen
    \/ worker = "encode" /\ idr

\* The client gets the codec specific data with the first picture or before it, even if
\* the works before that one were flushed, as long as nothing failed.
CsdFirst ==
  NothingFailed => \A w \in Entries : answer[w] = "done" => \E v \in csdOut : v <= w

\* A stop that waits long enough for the worker returns.  (One whose wait ends before the
\* worker leaves its loop holds the lock the worker needs for that and waits forever, and
\* so does one that joins a thread which a start created in the meantime.)
StopReturns ==
  \A c \in Callers : pc[c] = "clear" ~> pc[c] = "idle" \/ late \/ worker = "broken"

\* With one client thread that never flushes, and without a failure, no sequence of calls
\* makes the worker use a closed handle or an empty list.
NeverBroken ==
  Cardinality(stream.threads) = 1 /\ NothingFailed /\ ~flushed => worker # "broken"

\* Whatever is set, in whatever order, a level of the table admits the size, the frame rate
\* and the bitrate, if any row does.  (A level of the high tier is never corrected.)
LevelCovers ==
  LET e == stream.encoder
  IN  Covering(e, params) # {} /\ params.level \in DOMAIN Limits(e) \cup {LevelOneB}
        => params.level \in Covering(e, params)

\* What Init and ProcessOneFrame tell the library about quantization and the bitrate is in
\* its range, whatever the client set, and whenever.
EncoderGetsLegal ==
  /\ opened.bitrate >= MinBitrate(stream.encoder)
  /\ \A type \in {"I", "P"} :
       LET qp == GetQp(opened.qp, type)
       IN  {qp.min, qp.max} \subseteq CodecQpMin .. CodecQpMax
=============================================================================
