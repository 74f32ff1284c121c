---------------------------- MODULE GraphicBlocks ----------------------------
(***************************************************************************)
(* The output blocks of the hardware decoder, non-tunnel mode: how         *)
(* C2VdecComponent hands graphic blocks to the decoder and to the client   *)
(* and gets them back, with its dequeue thread (C2VdecDequeueThreadUtil)   *)
(* and its block pool (C2VdecBlockPoolUtil), across format changes,        *)
(* flushes, drains and a stop.                                             *)
(*                                                                         *)
(* Four threads meet here.  The component thread runs posted tasks one at  *)
(* a time; the dequeue thread fetches a block for each of its tasks and    *)
(* posts it; the decoder's callback thread posts what it reports; a client *)
(* thread queues works, drains, flushes and stops.  A task of the          *)
(* component is one action, and goes on in a second one ("at") where it    *)
(* joins the dequeue thread or hands pictures over.                        *)
(*                                                                         *)
(* The variable b keeps the blocks, so that a handler is a function of     *)
(* records.  Abstracted: which work a picture is for (VdecComponent has    *)
(* that), flush_sm giving up after 500 ms, the retry delays, a picture     *)
(* handed over before its work is done with its input, and the blocks put  *)
(* into a flushed work after EOS.                                          *)
(***************************************************************************)
EXTENDS Integers, Sequences, FiniteSets, VdecDevice

CONSTANTS
  Streams,        \* the streams the instance looks at
  Buffers,        \* the buffers there are of each size
  Smooth,         \* kDefaultSmoothnessFactor
  MaxBufNum,      \* what getDefaultMaxBufNum returns
  DefaultBlocks,  \* kDefaultFetchGraphicBlockDelay - 2
  MaxInfos,       \* kDefaultDequeueBlockCountMax
  MaxPosted       \* bound: tasks of the component posted and not yet run

\* A physical buffer is <<width, height, n>>.
BuffersOf(size) == {<<size[1], size[2], n>> : n \in Buffers}
SizeOf(block) == <<block[1], block[2]>>

States == {"STARTED", "DRAINING", "FLUSHING", "STOPPING", "UNINITIALIZED"}
Owners == {"component", "accelerator", "client"}

\* A stream has a device, is shown on a surface or not, has pictures of these formats, one
\* after another, so many bad ones, and a client that makes so many calls of each kind (bounds).
\* A format is the size of its pictures and the number of blocks the decoder asks for.
ASSUME StreamsAssumption ==
  \A s \in Streams : /\ DOMAIN s.device = DOMAIN Device /\ s.device.codec \in Codecs
                     /\ s.surface \in BOOLEAN /\ s.depth \in {0, 8, 10}
                     /\ s.formats \in Seq([size : Nat \X Nat, min : Nat \ {0}]) /\ s.formats # <<>>
                     /\ s.calls \in [{"data", "eos", "drain", "flush", "stop", "bad"} -> Nat]
ASSUME BoundsAssumption ==
  /\ IsFiniteSet(Buffers) /\ Buffers = 1 .. Cardinality(Buffers)
  /\ {Smooth, MaxBufNum, DefaultBlocks, MaxInfos, MaxPosted} \subseteq Nat

VARIABLES
  stream,     \* the stream being decoded
  device,     \* mDeviceUtil
  state,      \* mComponentState
  todo,       \* the tasks posted to mTaskRunner
  at,         \* where the component thread is in its task
  works,      \* mQueue: what each queued work asks for
  b,          \* the blocks and the flags of the component thread, see NoBlocks
  format,     \* mOutputFormat
  last,       \* mLastOutputFormat
  pending,    \* mPendingOutputFormat, if there is one
  first,      \* mBufferFirstAllocated
  changing,   \* mResolutionChanging
  haveDrain,  \* mHaveDrainDone
  haveFlush,  \* mHaveFlushDone
  reuse,      \* mFlushDoneWithOutEosWork
  client,     \* where the client thread is
  withClient, \* the blocks the client has
  runLoop,    \* mRunTaskLoop
  allocLoop,  \* mAllocBufferLoop
  tasks,      \* the number of onAllocBufferTask tasks
  waiting,    \* the number of postDelayedAllocTask tasks waiting for allocLoop
  fetch,      \* the fetch under way: the size asked for and that of the format
  pool,       \* mRawGraphicBlockInfo: the id of each block
  nextId,     \* mGraphicBufferId
  poolMax,    \* mMaxDequeuedBufferNum
  draining,   \* the decoder was told to drain
  resets,     \* resets the decoder was asked for
  shown,      \* formats announced so far
  left        \* calls the client may still make, and bad pictures there may still be

inVars     == <<stream, left>>
compVars   == <<state, works, b, last, pending, first, client, haveFlush, reuse>>
formatVars == <<device, format, changing>>
loopVars   == <<runLoop, allocLoop, tasks, waiting, fetch>>
poolVars   == <<pool, nextId, poolMax>>
decVars    == <<draining, resets, shown>>
vars == <<inVars, compVars, formatVars, loopVars, poolVars, decVars, todo, at, haveDrain, withClient>>

-----------------------------------------------------------------------------
(* The blocks of the component.                                             *)

\* infos is mGraphicBlocks: the block of each id, its owner, and whether its fd was imported;
\* count is mGraphicBlockStateCount, toWork mPendingBuffersToWork, slot the block of
\* mPendingGraphicBlockBuffer, afterFlush mFlushDoneBufferOwnedByComp.  resCh is set while
\* mResChStat is C2_RESOLUTION_CHANGING, error is mCompHasError, failed says that mState is
\* ERROR.  held are the blocks the decoder has.
NoBlocks ==
  [infos |-> <<>>, count |-> [o \in Owners |-> 0], toWork |-> <<>>, slot |-> {},
   afterFlush |-> {}, resCh |-> FALSE, error |-> FALSE, failed |-> FALSE,
   eosReported |-> FALSE, drainEos |-> FALSE, outputs |-> 0,
   decoder |-> "none", fed |-> FALSE, held |-> {}]

Ids(s) == DOMAIN s.infos
OwnedBy(s, owner) == {id \in Ids(s) : s.infos[id].owner = owner}
Failed(s) == [s EXCEPT !.error = TRUE, !.failed = TRUE]

\* GraphicBlockStateChange.
Moved(s, ids, to) ==
  LET from(o) == Cardinality(ids \cap OwnedBy(s, o))
  IN  [s EXCEPT !.infos = [id \in Ids(s) |-> IF id \in ids THEN [@[id] EXCEPT !.owner = to] ELSE @[id]],
                !.count = [o \in Owners |-> IF o = to THEN @[o] + Cardinality(ids) - from(o)
                                                      ELSE @[o] - from(o)]]

\* sendOutputBufferToAccelerator: the decoder is sent the blocks, and in most cases it has them
\* from then on.  A decoder that waits for its buffers to be assigned ignores them.
Sent(s, ids) ==
  [s EXCEPT !.infos = [id \in Ids(s) |-> IF id \in ids THEN [@[id] EXCEPT !.fdSet = TRUE] ELSE @[id]],
            !.held = IF s.decoder = "running" THEN @ \cup ids ELSE @]
Given(s, ids) == Sent(Moved(s, ids, "accelerator"), ids)

\* appendOutputBuffer and GraphicBlockStateInit.
Appended(s, block, id) ==
  LET info == [block |-> block, owner |-> "component", fdSet |-> FALSE]
  IN  [s EXCEPT !.infos = [i \in Ids(s) \cup {id} |-> IF i = id THEN info ELSE @[i]],
                !.count["component"] = @ + 1]

\* assignPictureBuffers: the decoder starts with no buffer.
Assigned(s) == [s EXCEPT !.decoder = "running", !.held = {},
                         !.infos = [id \in Ids(s) |-> [@[id] EXCEPT !.fdSet = FALSE]]]

\* getVideoResolutionChanged: whether the blocks are those of the format, and the state after.
AllImported(s) == \A id \in Ids(s) : s.infos[id].fdSet
IsChanged(s) == ~s.resCh \/ AllImported(s)
Noted(s) == [s EXCEPT !.resCh = ~IsChanged(s)]

\* sendOutputBufferToWorkIfAny: the pictures in front go out with their works, as many as
\* have one that is ready; the block of an error frame, or of a picture without a
\* work, goes back to the decoder.
IdsIn(s, n) == {s.toWork[i] : i \in 1 .. n}
SentTo(s, n, back) ==
  LET out == Moved(s, IdsIn(s, n) \ back, "client")
  IN  [Given(out, back) EXCEPT !.toWork = SubSeq(@, n + 1, Len(@))]
Disposable(s) ==
  {n \in 0 .. Len(s.toWork) : IdsIn(s, n) \cap OwnedBy(s, "accelerator") = {}}

\* The conditions on size in onOutputBufferReturned and in onNewBlockBufferFetched.
FitsReturned(block) == SizeOf(block) \in {format.size, ForcedSize(device, format.size)}
FitsNew(s, block) ==
  SizeOf(block) \in IF IsChanged(s) THEN {AlignedSize(device, format.size)}
                    ELSE {format.size, ForcedSize(device, format.size)}

-----------------------------------------------------------------------------
(* The dequeue thread: StartRunDequeueTask, postDelayedAllocTask.           *)

\* The number of tasks posted for n more blocks, by a thread that may not run.
Posted(n) ==
  IF ~runLoop THEN UNCHANGED <<tasks, waiting>>
  ELSE IF allocLoop THEN tasks' = tasks + n /\ UNCHANGED waiting
  ELSE waiting' = waiting + n /\ UNCHANGED tasks

\* Started, with allocation enabled: the tasks that waited are tasks now.
Started(n) ==
  /\ runLoop' = TRUE /\ allocLoop' = TRUE
  /\ tasks' = tasks + waiting + n /\ waiting' = 0

\* StopRunDequeueTask: the thread is told to stop, then joined.
Stopping == runLoop' = FALSE
Joined == ~runLoop /\ fetch = {}

\* reStartAllocTask.  stopCount is the number of blocks nobody has a task for.
StopCount(s) ==
  format.min - s.count["client"] - s.count["accelerator"] - s.count["component"]
\* Only the blocks of the client are fetched again.
RestartClient(s) == s.count["client"]
RestartTasks(s) == s.count["client"] + Larger(StopCount(s), 0)
ReStartAllocTask(s) == Started(IF first THEN RestartTasks(s) ELSE 0)

-----------------------------------------------------------------------------
(* The component thread.                                                    *)

Refuses == b.error \/ state = "UNINITIALIZED"

Takes(op) == at = "idle" /\ todo # <<>> /\ Head(todo).op = op /\ todo' = Tail(todo)
TakesPosting(op, posted) ==
  at = "idle" /\ todo # <<>> /\ Head(todo).op = op /\ todo' = Append(Tail(todo), posted)
Task == Head(todo)
Plain(op) == [op |-> op]

\* onReusedOutBuf: the decoder is given again what it had, and the pictures that were not
\* shown.
ReusedOutBuf(s) ==
  IF ~(reuse /\ first) THEN s
  ELSE LET own == [s EXCEPT !.afterFlush = {}]
           back == s.afterFlush \cap OwnedBy(s, "component")
       IN  Given(own, back \cup OwnedBy(s, "accelerator"))

QueueWork ==
  /\ TakesPosting("queueWork", Plain("dequeueWork")) /\ ~Refuses
  /\ works' = Append(works, Task.kind)
  /\ LET s == ReusedOutBuf(b)
         restart == s.eosReported \/ haveFlush
     IN  /\ b' = [s EXCEPT !.eosReported = @ /\ ~restart]
         /\ haveDrain' = (haveDrain /\ ~restart)
         /\ IF restart THEN ReStartAllocTask(s) ELSE UNCHANGED <<runLoop, allocLoop, tasks, waiting>>
  /\ reuse' = FALSE /\ haveFlush' = FALSE
  /\ UNCHANGED <<inVars, state, last, pending, first, client, formatVars, fetch, poolVars, decVars,
                 at, withClient>>

\* A work that ends in a drain stops the dequeueing.
DequeueWork ==
  /\ ~Refuses /\ works # <<>> /\ state = "STARTED"
  /\ LET kind == Head(works)
         more == Len(works) > 1
         drains == kind # "data"
     IN  /\ IF more THEN TakesPosting("dequeueWork", Plain("dequeueWork")) ELSE Takes("dequeueWork")
         /\ state' = IF drains THEN "DRAINING" ELSE state
         /\ draining' = (draining \/ drains)
         /\ LET s == ReusedOutBuf(b)
            IN  /\ b' = [s EXCEPT !.drainEos = IF drains THEN kind = "eos" ELSE @, !.fed = TRUE]
                /\ IF haveFlush THEN ReStartAllocTask(s)
                                ELSE UNCHANGED <<runLoop, allocLoop, tasks, waiting>>
  /\ works' = Tail(works) /\ reuse' = FALSE /\ haveFlush' = FALSE
  /\ UNCHANGED <<inVars, last, pending, first, client, formatVars, fetch, poolVars, resets, shown,
                 at, haveDrain, withClient>>

\* onDrain: the mark goes to the work queued last, or to the decoder at once if it has works.
Drain ==
  /\ Takes("drain") /\ ~Refuses
  /\ \/ /\ works # <<>>
        /\ works' = [works EXCEPT ![Len(works)] = IF @ = "data" THEN "drain" ELSE @]
        /\ UNCHANGED <<state, b, draining>>
     \/ /\ works = <<>> /\ state = "STARTED"
        /\ state' = "DRAINING" /\ draining' = TRUE /\ b' = [b EXCEPT !.drainEos = FALSE]
        /\ UNCHANGED works
     \/ works = <<>> /\ UNCHANGED <<state, works, b, draining>>
  /\ UNCHANGED <<inVars, last, pending, first, client, haveFlush, reuse, formatVars, loopVars,
                 poolVars, resets, shown, at, haveDrain, withClient>>

\* Of a picture whose work was flushed or dropped the block goes back at once.
OutputBufferDone ==
  /\ Takes("output") /\ ~Refuses
  /\ LET id == Task.id
         s == IF id \in OwnedBy(b, "accelerator") THEN Moved(b, {id}, "component") ELSE b
     IN  \/ /\ state = "FLUSHING" /\ UNCHANGED <<b, at, allocLoop, tasks, waiting>>
         \/ /\ state # "FLUSHING"
            /\ b' = (IF id \in Ids(b) THEN Given(s, {id}) ELSE Failed(b))
            /\ UNCHANGED <<at, allocLoop, tasks, waiting>>
         \/ /\ state # "FLUSHING" /\ id \in Ids(b)
            /\ b' = [s EXCEPT !.toWork = Append(@, id), !.outputs = IF @ < 2 THEN @ + 1 ELSE 2]
            /\ at' = "send"
            /\ LET starts == b.outputs = 0 /\ ~allocLoop
               IN  IF ~starts THEN Posted(1) /\ UNCHANGED allocLoop
                   ELSE /\ allocLoop' = TRUE /\ waiting' = 0
                        /\ tasks' = tasks + waiting + IF runLoop THEN 1 ELSE 0
  /\ UNCHANGED <<inVars, state, works, last, pending, first, client, haveFlush, reuse, formatVars,
                 runLoop, fetch, poolVars, decVars, haveDrain, withClient>>

\* sendOutputBufferToWorkIfAny, as the last thing its callers do: what may become of b, and the
\* blocks that went out.
Sendings ==
  UNION {{[b |-> SentTo(b, n, back), out |-> IdsIn(b, n) \ back, bad |-> Cardinality(back)] :
            back \in SUBSET IdsIn(b, n)} : n \in Disposable(b)}
FailedSendings ==
  {[b |-> Failed(SentTo(b, n, {})), out |-> IdsIn(b, n), bad |-> 0] :
     n \in {n \in Disposable(b) : n < Len(b.toWork) /\ n + 1 \notin Disposable(b)}}
GoesOut(sending) ==
  /\ withClient' = withClient \cup {b.infos[id].block : id \in sending.out}
  /\ sending.bad <= left["bad"] /\ left' = [left EXCEPT !["bad"] = @ - sending.bad]

SendOutputBufferToWorkIfAny ==
  /\ at = "send" /\ at' = "idle"
  /\ \E sending \in Sendings \cup FailedSendings : b' = sending.b /\ GoesOut(sending)
  /\ UNCHANGED <<stream, state, works, last, pending, first, client, haveFlush, reuse, formatVars,
                 loopVars, poolVars, decVars, todo, haveDrain>>

\* tryChangeOutputFormat, for mPendingOutputFormat, when these tasks are left.  It waits for
\* the pictures to go out, and takes a block the decoder has as an error.
TryChangeOutputFormat(s, rest, new) ==
  \/ /\ new # {} /\ s.toWork # <<>>
     /\ b' = s /\ todo' = Append(rest, Plain("tryChange"))
     /\ UNCHANGED <<at, last, format, changing, runLoop>>
  \/ /\ new # {} /\ s.toWork = <<>> /\ OwnedBy(s, "accelerator") # {}
     /\ b' = Failed(s) /\ todo' = rest
     /\ UNCHANGED <<at, last, format, changing, runLoop>>
  \/ /\ new # {} /\ s.toWork = <<>> /\ OwnedBy(s, "accelerator") = {}
     /\ b' = [s EXCEPT !.resCh = @ \/ first] /\ todo' = rest
     /\ last' = format /\ \E f \in new : format' = f
     /\ changing' = FALSE /\ Stopping
     /\ at' = IF first THEN "change" ELSE "allocate"

TryChangeAgain ==
  /\ at = "idle" /\ todo # <<>> /\ Task.op = "tryChange"
  /\ \/ TryChangeOutputFormat(b, Tail(todo), pending) /\ UNCHANGED pending
     \/ pending = {} /\ Takes("tryChange")
        /\ UNCHANGED <<at, b, last, format, changing, runLoop, pending>>
  /\ UNCHANGED <<inVars, state, works, first, client, haveFlush, reuse, device, allocLoop, tasks,
                 waiting, fetch, poolVars, decVars, haveDrain, withClient>>

\* onOutputFormatChanged: the decoder has no block any more.  A second format before the first
\* is taken would fail the CHECK in the code: the decoder waits for its answer.
OutputFormatChanged ==
  /\ at = "idle" /\ todo # <<>> /\ Task.op = "formatChanged" /\ ~Refuses /\ pending = {}
  /\ pending' = {Task.format}
  /\ device' = Reconfigured(device)
  /\ TryChangeOutputFormat(Moved(b, OwnedBy(b, "accelerator"), "component"), Tail(todo), pending')
  /\ UNCHANGED <<inVars, state, works, first, client, haveFlush, reuse, allocLoop, tasks, waiting,
                 fetch, poolVars, decVars, haveDrain, withClient>>

\* onOutputBufferReturned: a block the component knows comes back.  One of another size, and
\* any after a drain, is let go; the first unknown one waits in the slot.  The decoder does not
\* get the block of a picture that is still to go out.
Returned(s, block, id) == Moved([s EXCEPT !.infos[id].block = block], {id}, "component")
Reused(s, id) == IF id \in IdsIn(s, Len(s.toWork)) THEN Sent(s, {id}) ELSE Given(s, {id})

OutputBufferReturned ==
  /\ at = "idle" /\ todo # <<>> /\ Task.op = "returned" /\ ~Refuses
  /\ LET block == Task.block
         id == Task.id
         taken == FitsReturned(block) /\ ~haveDrain
         known == taken /\ id \in Ids(b)
         wrong == known /\ IsChanged(b) /\ id \notin OwnedBy(b, "client")
         same == UNCHANGED <<at, last, format, changing, runLoop>>
     IN  \/ ~taken /\ Takes("returned") /\ UNCHANGED b /\ same
         \/ /\ taken /\ (known => wrong) /\ Takes("returned") /\ same
            /\ b' = IF known THEN Failed(Noted(b))
                    ELSE IF b.slot = {} THEN [b EXCEPT !.slot = {block}] ELSE Failed(b)
         \/ known /\ ~wrong /\ TryChangeOutputFormat(Returned(Noted(b), block, id), Tail(todo), pending)
         \/ /\ known /\ ~wrong /\ pending = {} /\ Takes("returned")
            /\ b' = Reused(Returned(Noted(b), block, id), id) /\ at' = "send"
            /\ UNCHANGED <<last, format, changing, runLoop>>
  /\ UNCHANGED <<inVars, state, works, pending, first, client, haveFlush, reuse, device, allocLoop,
                 tasks, waiting, fetch, poolVars, decVars, haveDrain, withClient>>

\* onNewBlockBufferFetched.  A block that left the pool has no fd to be found.
NewBlockBufferFetched ==
  /\ Takes("new") /\ ~Refuses
  /\ b' = IF changing \/ state = "STOPPING" THEN b
          ELSE IF ~FitsNew(b, Task.block) THEN Noted(b)
          ELSE IF Task.block \notin DOMAIN pool THEN Failed(Noted(b))
          ELSE Given(Appended(Noted(b), Task.block, Task.id), {Task.id})
  /\ UNCHANGED <<inVars, state, works, last, pending, first, client, haveFlush, reuse, formatVars,
                 loopVars, poolVars, decVars, at, haveDrain, withClient>>

-----------------------------------------------------------------------------
(* What the component does after it joined the dequeue thread.              *)

\* requestNewBufferSet.
RequestedMax(count) ==
  Larger(count, DefaultBlocks) + IF stream.surface THEN 2 ELSE 0

\* allocateBuffersFromBlockPool and allocNonTunnelBuffers: the first blocks, fewer of them when
\* the pool says EAGAIN; the dequeue thread is to fetch the others.
BlockCount(d) == IF NeedAllocWithMaxSize(d, format.size) THEN Larger(MaxBufNum, format.min)
                                                         ELSE format.min
Surfaced(d) ==
  IF ~stream.surface THEN [d EXCEPT !.noSurface = TRUE]
  ELSE IF stream.texture THEN [d EXCEPT !.texture = TRUE] ELSE d

AllocateBuffers ==
  /\ at = "allocate" /\ Joined /\ at' = "idle"
  /\ LET count == BlockCount(device)
         d == Surfaced(device)
         size == AlignedSize(d, format.size)
     IN  /\ device' = d /\ poolMax' = RequestedMax(count)
         /\ IF ~CheckSupport8kMode(d)
            THEN /\ b' = Failed([b EXCEPT !.infos = <<>>]) /\ tasks' = 0 /\ waiting' = 0
                 /\ UNCHANGED <<runLoop, allocLoop, format, pool, nextId>>
            ELSE \E k \in 0 .. FirstBlocks(d, count, Smooth) :
                   /\ pool' = [block \in {<<size[1], size[2], n>> : n \in 1 .. k} |-> block[3] - 1]
                   /\ nextId' = k
                   /\ b' = Given([Assigned(b) EXCEPT
                                   !.infos = [id \in 0 .. k - 1 |->
                                               [block |-> <<size[1], size[2], id + 1>>,
                                                owner |-> "component", fdSet |-> FALSE]],
                                   !.count["component"] = @ + k], 0 .. k - 1)
                   /\ format' = [format EXCEPT !.min = count]
                   /\ runLoop' = TRUE /\ allocLoop' = TRUE
                   /\ tasks' = count - k /\ waiting' = 0
  /\ pending' = {} /\ first' = TRUE
  /\ UNCHANGED <<inVars, state, works, last, client, haveFlush, reuse, changing, fetch, decVars,
                 todo, haveDrain, withClient>>

\* The counts are kept when the blocks go.
KeepCounts(s) == [s EXCEPT !.infos = <<>>, !.slot = IF Ids(s) = {} THEN @ ELSE {}]

\* videoResolutionChange.  Without a surface the counts are kept when the blocks go.
NoInfos(s) ==
  [s EXCEPT !.infos = <<>>, !.slot = IF Ids(s) = {} THEN @ ELSE {},
            !.count = [o \in Owners |-> @[o] - Cardinality(OwnedBy(s, o))]]

\* cancelAllGraphicBlock; resetBlockPoolUtil, without a surface, has a new pool.
CancelAllGraphicBlock == pool' = <<>> /\ nextId' = 0
ResetBlockPoolUtil == CancelAllGraphicBlock /\ poolMax' = RequestedMax(format.min)

\* resetGraphicBlock for each of these ids: an empty pool starts again with the first id.
ResetGraphicBlock(ids) ==
  LET kept == {block \in DOMAIN pool : pool[block] \notin ids}
  IN  pool' = [block \in kept |-> pool[block]] /\ nextId' = IF kept = {} THEN 0 ELSE nextId

VideoResolutionChange ==
  /\ at = "change" /\ Joined /\ at' = "idle"
  /\ \/ /\ stream.surface /\ SizeChanged(last, format)
        /\ b' = Assigned(NoInfos(b))
        /\ CancelAllGraphicBlock /\ poolMax' = RequestedMax(format.min)
     \/ /\ stream.surface /\ ~SizeChanged(last, format)
        /\ b' = Given(Assigned(b), OwnedBy(b, "component"))
        /\ UNCHANGED poolVars
     \/ /\ ~stream.surface /\ IsReallocateOutputBuffer(device, last, format)
        /\ b' = Assigned([b EXCEPT !.infos = <<>>]) /\ ResetBlockPoolUtil
     \/ /\ ~stream.surface /\ ~IsReallocateOutputBuffer(device, last, format)
        /\ b' = Assigned(b)
        /\ ResetGraphicBlock(OwnedBy(b, "component")) /\ UNCHANGED poolMax
  /\ pending' = {}
  /\ runLoop' = TRUE /\ allocLoop' = TRUE /\ tasks' = format.min /\ waiting' = 0
  /\ UNCHANGED <<inVars, state, works, last, first, client, haveFlush, reuse, formatVars, fetch,
                 decVars, todo, haveDrain, withClient>>

\* onFlushOrStopDone.
ResetDone ==
  /\ Takes("resetDone") /\ state # "UNINITIALIZED"
  /\ IF state = "STOPPING" \/ (state = "FLUSHING" /\ ~b.error)
     THEN Stopping /\ at' = IF state = "STOPPING" THEN "stopDone" ELSE "flushDone"
     ELSE UNCHANGED <<runLoop, at>>
  /\ b' = IF state \in {"FLUSHING", "STOPPING"} THEN b ELSE Failed(b)
  /\ UNCHANGED <<inVars, state, works, last, pending, first, client, haveFlush, reuse, formatVars,
                 allocLoop, tasks, waiting, fetch, poolVars, decVars, haveDrain, withClient>>

FlushDone ==
  /\ at = "flushDone" /\ Joined /\ at' = "idle"
  /\ tasks' = 0 /\ waiting' = 0 /\ works' = <<>> /\ state' = "STARTED" /\ client' = "woken"
  /\ b' = [b EXCEPT !.afterFlush = IdsIn(b, Len(b.toWork)) \cap Ids(b),
                   !.toWork = <<>>, !.outputs = 0]
  /\ UNCHANGED <<inVars, last, pending, first, haveFlush, reuse, formatVars, runLoop, allocLoop,
                 fetch, poolVars, decVars, todo, haveDrain, withClient>>

StopDone ==
  /\ at = "stopDone" /\ Joined /\ at' = "idle"
  /\ state' = "UNINITIALIZED" /\ pending' = {} /\ first' = FALSE
  /\ b' = [b EXCEPT !.infos = <<>>, !.toWork = <<>>, !.slot = {}, !.outputs = 0, !.error = FALSE]
  /\ CancelAllGraphicBlock /\ poolMax' = 0
  /\ tasks' = 0 /\ waiting' = 0
  /\ UNCHANGED <<inVars, works, last, client, haveFlush, reuse, formatVars, runLoop, allocLoop,
                 fetch, decVars, todo, haveDrain, withClient>>

\* onFlush.  Every change of mComponentState clears mCompHasError.
Flush ==
  /\ Takes("flush") /\ state \notin {"FLUSHING", "STOPPING"}
  /\ state' = "FLUSHING" /\ b' = [b EXCEPT !.error = FALSE] /\ resets' = resets + 1
  /\ UNCHANGED <<inVars, works, last, pending, first, client, haveFlush, reuse, formatVars, loopVars,
                 poolVars, draining, shown, at, haveDrain, withClient>>

\* onStop.
Stop ==
  /\ Takes("stop") /\ state # "UNINITIALIZED" /\ at' = "stopping"
  /\ state' = "STOPPING" /\ works' = <<>> /\ b' = [b EXCEPT !.error = FALSE] /\ Stopping
  /\ UNCHANGED <<inVars, last, pending, first, client, haveFlush, reuse, formatVars, allocLoop,
                 tasks, waiting, fetch, poolVars, decVars, haveDrain, withClient>>

StopJoined ==
  /\ at = "stopping" /\ Joined /\ at' = "idle"
  /\ tasks' = 0 /\ waiting' = 0 /\ resets' = resets + 1
  /\ UNCHANGED <<inVars, compVars, formatVars, runLoop, allocLoop, fetch, poolVars, draining, shown,
                 todo, haveDrain, withClient>>

\* onDrainDone, up to the pictures it hands over.
EosReported(s) == [s EXCEPT !.eosReported = @ \/ s.drainEos, !.drainEos = FALSE]

DrainDone ==
  /\ Takes("drainDone") /\ ~Refuses
  /\ state' = IF state = "DRAINING" THEN "STARTED" ELSE state
  /\ IF state \in {"DRAINING", "FLUSHING"} THEN at' = "drained" /\ UNCHANGED b
     ELSE /\ UNCHANGED at
          /\ b' = IF state = "STOPPING" THEN EosReported(b) ELSE Failed(b)
  /\ UNCHANGED <<inVars, works, last, pending, first, client, haveFlush, reuse, formatVars, loopVars,
                 poolVars, decVars, haveDrain, withClient>>

\* After a drain the EOS work is reported and the works behind it are taken up.  A drained
\* decoder is done with every input, so that every picture can go out.
DrainSent ==
  /\ at = "drained" /\ at' = "idle"
  /\ \E sending \in {s \in Sendings : s.b.toWork = <<>>} \cup FailedSendings :
       /\ GoesOut(sending)
       /\ IF sending \in FailedSendings THEN b' = sending.b /\ UNCHANGED todo
          ELSE b' = EosReported(sending.b) /\ todo' = Append(todo, Plain("dequeueWork"))
  /\ UNCHANGED <<stream, state, works, last, pending, first, client, haveFlush, reuse, formatVars,
                 loopVars, poolVars, decVars, haveDrain>>

\* A task posted to a component that failed or was stopped does nothing.
Dropped ==
  /\ at = "idle" /\ todo # <<>> /\ todo' = Tail(todo)
  /\ \/ Refuses /\ Task.op \notin {"flush", "stop", "resetDone", "tryChange"}
     \/ state = "UNINITIALIZED" /\ Task.op \in {"stop", "resetDone"}
     \/ Task.op = "dequeueWork" /\ ~Refuses /\ (works = <<>> \/ state # "STARTED")
  /\ UNCHANGED <<inVars, compVars, formatVars, loopVars, poolVars, decVars, at, haveDrain, withClient>>

-----------------------------------------------------------------------------
(* The dequeue thread: onAllocBufferTask and fetchGraphicBlock.             *)

Posts(task) == Len(todo) < MaxPosted /\ todo' = Append(todo, task)

NextAllocTask == runLoop /\ tasks > 0 /\ fetch = {}

\* IsCheckStopDequeueTask, or a stopped allocation: the task is lost.
TaskCancelled ==
  /\ NextAllocTask /\ (state = "STOPPING" \/ ~allocLoop)
  /\ tasks' = tasks - 1
  /\ UNCHANGED <<inVars, compVars, formatVars, runLoop, allocLoop, waiting, fetch, poolVars, decVars,
                 todo, at, haveDrain, withClient>>

\* While the format changes the task is only posted again.
FetchBegins ==
  /\ NextAllocTask /\ state # "STOPPING" /\ allocLoop /\ ~changing
  /\ tasks' = tasks - 1 /\ fetch' = {format.size}
  /\ UNCHANGED <<inVars, compVars, formatVars, runLoop, allocLoop, waiting, poolVars, decVars, todo,
                 at, haveDrain, withClient>>

\* The blocks in use: with the client, the component or the decoder, or on their way.
InUse ==
  withClient \cup b.slot
    \cup {b.infos[id].block : id \in OwnedBy(b, "component") \cup OwnedBy(b, "accelerator")}
    \cup {todo[i].block : i \in {i \in DOMAIN todo : todo[i].op \in {"returned", "new"}}}

\* A block the pool has not seen gets the next id.
IdOf(block) == IF block \in DOMAIN pool THEN pool[block] ELSE nextId
Known(block) ==
  IF block \in DOMAIN pool THEN UNCHANGED poolVars
  ELSE /\ pool' = [k \in DOMAIN pool \cup {block} |-> IdOf(k)]
       /\ nextId' = nextId + 1 /\ UNCHANGED poolMax
MayTake(block) ==
  IF stream.surface THEN Cardinality(DOMAIN pool) < MaxInfos
  ELSE block \in DOMAIN pool \/ Cardinality(DOMAIN pool) < poolMax

\* The buffers of this size that may come next; those the pool has not seen are alike.
Available(size) ==
  LET free == BuffersOf(size) \ InUse
  IN  {block \in free : /\ MayTake(block)
                        /\ block \in DOMAIN pool \/ \A new \in free \ DOMAIN pool : block[3] <= new[3]}

\* The size of the format is read before the block is fetched.
Fits(block, size) == size[1] <= block[1] /\ size[2] <= block[2]

\* Read by the dequeue thread while the component thread may be changing its blocks.
IsCompHaveCurrentBlock(block) == IdOf(block) \in Ids(b)

FetchGraphicBlock ==
  \E size \in fetch :
    /\ fetch' = {}
    /\ \/ \E block \in Available(AlignedSize(device, size)) :
            /\ Known(block)
            /\ \/ /\ Fits(block, size) \/ Fits(block, format.size)
                  /\ Posts([op |-> IF IsCompHaveCurrentBlock(block) THEN "returned" ELSE "new",
                            block |-> block, id |-> IdOf(block)])
               \/ ~Fits(block, format.size) /\ UNCHANGED todo
            /\ UNCHANGED tasks
       \/ tasks' = tasks + 1 /\ UNCHANGED <<todo, poolVars>>
    /\ UNCHANGED <<inVars, compVars, formatVars, runLoop, allocLoop, waiting, decVars, at, haveDrain,
                   withClient>>

-----------------------------------------------------------------------------
(* The decoder, through its callback thread.                                *)

\* ProvidePictureBuffers: the decoder wants blocks of another format and waits for them.
ProvidePictureBuffers ==
  /\ b.fed /\ b.decoder # "waiting" /\ shown < Len(stream.formats)
  /\ LET f == stream.formats[shown + 1]
         d == QueryStreamBitDepth(device, stream.depth)
         min == IF first THEN Larger(f.min, format.min) ELSE f.min
     IN  /\ device' = d
         /\ Posts([op |-> "formatChanged",
                   format |-> [size |-> AnnouncedSize(d, f.size), min |-> min]])
  /\ changing' = TRUE /\ shown' = shown + 1
  /\ b' = [b EXCEPT !.decoder = "waiting", !.held = {}]
  /\ UNCHANGED <<inVars, state, works, last, pending, first, client, haveFlush, reuse, format,
                 loopVars, poolVars, draining, resets, at, haveDrain, withClient>>

\* A picture is in a block the decoder has.
Decode ==
  \E id \in b.held :
    /\ b.fed /\ Posts([op |-> "output", id |-> id])
    /\ b' = [b EXCEPT !.held = @ \ {id}]
    /\ UNCHANGED <<inVars, state, works, last, pending, first, client, haveFlush, reuse, formatVars,
                   loopVars, poolVars, decVars, at, haveDrain, withClient>>

NotifyFlushDone ==
  /\ draining /\ draining' = FALSE
  /\ allocLoop' = FALSE /\ haveDrain' = TRUE
  /\ Posts(Plain("drainDone"))
  /\ b' = [b EXCEPT !.fed = FALSE]
  /\ UNCHANGED <<inVars, state, works, last, pending, first, client, haveFlush, reuse, formatVars,
                 runLoop, tasks, waiting, fetch, poolVars, resets, shown, at, withClient>>

\* A reset decoder has no block and nothing to drain.
NotifyResetDone ==
  /\ resets > 0 /\ resets' = resets - 1 /\ draining' = FALSE
  /\ Posts(Plain("resetDone"))
  /\ b' = [b EXCEPT !.held = {}, !.fed = FALSE]
  /\ UNCHANGED <<inVars, state, works, last, pending, first, client, haveFlush, reuse, formatVars,
                 loopVars, poolVars, shown, at, haveDrain, withClient>>

-----------------------------------------------------------------------------
(* The client.                                                              *)

Calls(kind, task, place) ==
  /\ client = "idle" /\ left[kind] > 0 /\ left' = [left EXCEPT ![kind] = @ - 1]
  /\ Posts(task) /\ client' = place
  /\ UNCHANGED <<stream, state, works, b, last, pending, first, haveFlush, reuse, formatVars, loopVars,
                 poolVars, decVars, at, haveDrain, withClient>>

\* No work is queued while a flush is under way.
ClientCalls ==
  \/ \E kind \in {"data", "eos"} :
       ~b.failed /\ Calls(kind, [op |-> "queueWork", kind |-> kind], "idle")
  \/ ~b.failed /\ Calls("drain", Plain("drain"), "idle")
  \/ ~b.failed /\ Calls("flush", Plain("flush"), "flushing")
  \/ Calls("stop", Plain("stop"), "stopping")

\* The end of flush_sm, once onFlushDone signalled.
FlushReturns ==
  /\ client = "woken" /\ client' = "idle"
  /\ Posts(Plain("dequeueWork")) /\ haveFlush' = TRUE /\ reuse' = TRUE
  /\ UNCHANGED <<inVars, state, works, b, last, pending, first, formatVars, loopVars, poolVars,
                 decVars, at, haveDrain, withClient>>

ClientReleases ==
  \E block \in withClient :
    /\ withClient' = withClient \ {block}
    /\ UNCHANGED <<inVars, compVars, formatVars, loopVars, poolVars, decVars, todo, at, haveDrain>>

-----------------------------------------------------------------------------
\* onCheckVideoDecReconfig: the first queued work finds out what the pictures are shown on, and
\* the decoder is opened again, with another configuration, if it is not a video layer.
CheckVideoDecReconfig(s) ==
  LET d == CodecConfig(s.device)
  IN  IF ~s.surface THEN CodecConfig([d EXCEPT !.noSurface = TRUE])
      ELSE IF s.texture THEN CodecConfig([d EXCEPT !.texture = TRUE]) ELSE d

Init ==
  /\ stream \in Streams /\ device = CheckVideoDecReconfig(stream)
  /\ state = "STARTED" /\ todo = <<>> /\ at = "idle" /\ works = <<>> /\ b = NoBlocks
  /\ format = [size |-> <<0, 0>>, min |-> 0] /\ last = format
  /\ pending = {} /\ first = FALSE /\ changing = FALSE
  /\ haveDrain = FALSE /\ haveFlush = FALSE /\ reuse = FALSE
  /\ client = "idle" /\ withClient = {}
  /\ runLoop = FALSE /\ allocLoop = FALSE /\ tasks = 0 /\ waiting = 0 /\ fetch = {}
  /\ pool = <<>> /\ nextId = 0 /\ poolMax = 0
  /\ draining = FALSE /\ resets = 0 /\ shown = 0 /\ left = stream.calls

ComponentThread ==
  \/ QueueWork \/ DequeueWork \/ Drain \/ OutputBufferDone \/ SendOutputBufferToWorkIfAny
  \/ TryChangeAgain \/ OutputFormatChanged \/ OutputBufferReturned \/ NewBlockBufferFetched
  \/ AllocateBuffers \/ VideoResolutionChange \/ ResetDone \/ FlushDone \/ StopDone
  \/ Flush \/ Stop \/ StopJoined \/ DrainDone \/ DrainSent \/ Dropped
DequeueThread == TaskCancelled \/ FetchBegins \/ FetchGraphicBlock
Decoder == ProvidePictureBuffers \/ Decode \/ NotifyFlushDone \/ NotifyResetDone
Client == ClientCalls \/ FlushReturns \/ ClientReleases

Next == ComponentThread \/ DequeueThread \/ Decoder \/ Client

Spec == Init /\ [][Next]_vars

-----------------------------------------------------------------------------
(* Properties.                                                              *)

Places == {"idle", "send", "change", "allocate", "flushDone", "stopping", "stopDone", "drained"}

\* Every variable keeps its type.  The blocks the component counts for each owner, which the
\* restart after a flush relies on, are as many as it has of them, or more where a change
\* without a surface forgot to take them off.
TypeOK ==
  /\ stream \in Streams /\ device.codec \in Codecs /\ state \in States /\ at \in Places
  /\ \A i \in DOMAIN works : works[i] \in {"data", "eos", "drain"}
  /\ \A id \in Ids(b) : b.infos[id].owner \in Owners
  /\ \A o \in Owners : \/ b.count[o] = Cardinality(OwnedBy(b, o))
                       \/ state = "UNINITIALIZED"
                       \/ ~stream.surface /\ b.count[o] >= Cardinality(OwnedBy(b, o))
  /\ client \in {"idle", "flushing", "woken", "stopping"}
  /\ Cardinality(b.slot) <= 1 /\ Cardinality(pending) <= 1 /\ Cardinality(fetch) <= 1
  /\ {tasks, waiting, nextId, poolMax, resets} \subseteq Nat
  /\ \A k, l \in DOMAIN pool : k # l => pool[k] # pool[l]

PostedOf(ops) == Cardinality({i \in DOMAIN todo : todo[i].op \in ops})

\* Nothing is under way that would give blocks to the decoder later: no change of format, no
\* flush, no error, and not the time from a flush or the end of a drain to the next work, which
\* finds the decoder with nothing to decode.
Settled ==
  /\ state \in {"STARTED", "DRAINING"} /\ first /\ ~b.failed /\ at = "idle"
  /\ ~changing /\ pending = {} /\ PostedOf({"formatChanged", "tryChange"}) = 0
  /\ client = "idle" /\ (haveFlush \/ haveDrain \/ b.eosReported => works # <<>> \/ b.fed)
  /\ stream.surface \/ shown = 1

\* A client that queues nothing behind a work with EOS before its drain is done, queues nothing
\* after a drain without EOS before it flushed, and, when a picture waited for its work at a
\* flush, queues a work before it flushes again.
OrderlyClient ==
  /\ \A i \in DOMAIN works : works[i] = "eos" => i = Len(works)
  /\ state = "DRAINING" /\ b.drainEos => works = <<>>
  /\ haveDrain => works = <<>>
  /\ state = "FLUSHING" /\ reuse => b.afterFlush = {}

\* The system with such a client.
OrderlySpec == Init /\ [][Next /\ OrderlyClient']_vars

\* For each block the decoder asked for it has one, or a picture or a block is on its way, or
\* the dequeue thread has a task for it that will not be refused (postDelayedAllocTask,
\* onOutputBufferDone, reStartAllocTask): the decoder never runs out of blocks for good.
\* The code keeps to it for an orderly client only (OrderlySpec).  Otherwise blocks that come back
\* after a drain without EOS are let go, the restart by the next work may count one task too
\* few, or onReusedOutBuf not know of a block.
EnoughBlocks ==
  Settled =>
    /\ Cardinality(b.held) + PostedOf({"output", "returned", "new"})
         + tasks + waiting + Cardinality(fetch) >= format.min
    /\ tasks + waiting > 0 => runLoop
    /\ tasks > 0 => allocLoop

\* While the decoder runs, every block it has is one the component knows and takes to be with
\* the decoder, imported, and of the size of the format; so is the block of every
\* picture on its way (sendOutputBufferToAccelerator, videoResolutionChange).  Without a surface
\* this ends with the first change of format: a block may then be fetched in place of one
\* that onReusedOutBuf gave to the decoder again.
HeldIsCurrent ==
  b.decoder = "running" /\ ~b.failed /\ state # "UNINITIALIZED" /\ (stream.surface \/ shown = 1) =>
    /\ \A id \in b.held :
         /\ id \in OwnedBy(b, "accelerator") /\ b.infos[id].fdSet
         /\ SizeOf(b.infos[id].block) \in
              {format.size, AlignedSize(device, format.size), ForcedSize(device, format.size)}
    /\ \A i \in DOMAIN todo : todo[i].op = "output" => todo[i].id \in Ids(b)
=============================================================================
