# Verification of the Amlogic Codec2 components

This directory holds TLA+ models of the Codec2 components in this repository,
the TLC configurations that check them on small instances, and TLAPS proofs of
their main safety properties for every size of instance. Covered are the
hardware video decoder (its work path, its output blocks, its parameters and
what it says of its pictures, and the limits on its instances), the software
video decoders, the audio and image decoders, and the video encoders.

* [The system](#the-system)
* [The modules](#the-modules)
* [VdecComponent](#vdeccomponent-the-hardware-video-decoder)
* [GraphicBlocks](#graphicblocks-and-vdecdevice-the-output-blocks)
* [VdecParams and VdecPicture](#vdecparams-and-vdecpicture-what-the-decoder-declares-and-says)
* [VdecInstances](#vdecinstances-the-limits-on-decoders)
* [SoftVdecComponent](#softvdeccomponent-the-software-video-decoders)
* [SimpleComponent](#simplecomponent-and-audiocodecs-audio-and-image-decoders)
* [VencComponent](#venccomponent-and-vencparams-the-video-encoders)
* [The runs](#the-runs)
* [Fairness](#fairness)
* [What is proved](#what-is-proved)
* [Where code and comments disagree](#where-code-and-comments-disagree)
* [What is not modelled](#what-is-not-modelled)
* [Plan](#plan)

To repeat the work: `tlc -workers 2 -config <run>.cfg <module>` for each run of
`PROJECT.json`, `tlapm <module>.tla` for each `*Proofs.tla`.

## The system

A Codec2 client (the media framework) creates a component, starts it, queues
`C2Work` items, and gets each of them back: through `onWorkDone_nb`, in the
list `flush_sm` fills, or destroyed by `stop`, `reset` or `release`. The heart
of every component is the same: *where is a work, who may touch it, and who
gives it back*. Threads meet at that point: the client's threads, the thread of
the component, and the threads of the decoder below.

| Component (sources) | State it keeps | Operations | Interacts with | What is hard, what makes it correct |
|---|---|---|---|---|
| Hardware video decoder, `videodecoder/C2VdecComponent.cpp` | `mState`, `mStartStopLock`, `mComponentState`, `mCompHasError`; the lists `mQueue`, `mPendingWorks`, `mAbandonedWorks`, `mFlushPendingWorkList`, `mPendingBuffersToWork`, `mNoOutFrameWorkQueue`; `mPendingOutputEOS` | `start`, `stop`, `reset`, `release`, `queue_nb`, `drain_nb`, `flush_sm`, and a task for each of them and for each notification of the decoder | posts tasks to its own thread; calls the decoder; is called back by it | Notifications race with flush and stop; resets and drains overlap; a client thread writes the component's state. Works are never lost or answered twice; stop leaves nothing behind and is always answered; a flush gives back everything; EOS is reported last |
| Decoder wrapper, `videodecoder/mediahalwraper/VideoDecWraper.cpp`, `include/vdecintf/video_decode_accelerator.h` | the decoder's inputs, its pending flush and resets | `decode`, `eosFlush`, `flush`, `stop`, `destroy` | called by the component thread; calls back from its own | Callbacks in any order with respect to calls already made |
| Output blocks: `C2VdecComponent.cpp`, `videodecoder/utils/C2VdecDequeueThreadUtil.cpp`, `C2VdecBlockPoolUtil.cpp`, `C2VdecDeviceUtil.cpp` | `mGraphicBlocks` with the owner of each block and a count for each owner, `mPendingGraphicBlockBuffer`, output formats; the dequeue thread's loops and tasks; the block pool's ids | allocate, fetch, recycle, bind, format change with and without reallocation, restart after a flush | the dequeue thread feeds blocks to the component thread; decoder and client hold blocks | A block has one owner; a format change, flush or stop meets a fetch under way; the decoder must not run out of blocks, nor hold blocks nobody knows |
| Decoder parameters, `videodecoder/utils/C2VdecInterfaceImpl.cpp`, `C2VdecDeviceUtil.cpp`, `componentstore/C2VdecCodecConfig.cpp` | what the interface declares and was configured; HDR information, colour aspects, HDR10+ metadata remembered | `config()`, the setters, what the decoder reports of a stream, `updateWorkParam` | clients, the decoder, works | Defaults within what is declared; a configuration that fails half way; packed values read back as they were |
| Limits on decoders, `C2VdecComponent.cpp` | `sConcurrentInstances`, `sConcurrentInstanceSecures`, `sConcurrentVc1Instance`, `sConcurrentMaxResolutionInstance` | `create`, constructor, `onDestroy` | every decoder of the process | Counters read one at a time, lowered without the mutex |
| Tunnel mode, `C2VdecTunnelHelper.cpp`, `VideoTunnelRendererWraper.cpp` | rendered and returned buffers | report works when rendered | the renderer's callbacks | Works reported once, in render order |
| Tuner passthrough, `C2VdecTunerPassthroughHelper.cpp`, `TunerPassthroughWrapper.cpp` | stream parameters | forwards parameters | the tuner library | no work path |
| Software video decoders, `softvideodecoder/` | `mExecState`, `mWorkQueue` (queue, pending works, generation, flush flag), `mRunning`; in `C2SoftVdec` the indexes of the works that wait for a picture, the error and EOS flags | the same calls, and the messages `kWhatProcess`, `kWhatInit`, `kWhatStart`, `kWhatStop`, `kWhatReset`, `kWhatRelease` | client threads share `mWorkQueue` with the handler thread | Each call takes several locks one after another; stop, reset and flush race with `processQueue`; a `kWhatProcess` must not get lost; pictures come later than the works they belong to |
| Audio decoders, `audiodecoder/` | the same loop in `C2AudioDecComponent`, and one codec each: its library, `mConfig`, and for AAC the output ring buffer and the works whose sound is not there yet | the same, and `onInit`, `onStop`, `onReset`, `onRelease`, `onFlush_sm`, `process`, `drain` of each codec | the same | No `mProcessQueueLock`: a flush returns while a work is in hand. Output is sent in a loop of critical sections. Sound must go out with its own work; stop, reset and start must leave a codec usable |
| Image decoders, `imagesoftdecoder/` | the same loop in `C2SoftImageComponent` | the same | the same | As above; a work that fails is dropped |
| Video encoders, `videoencoder/` | `mComponentState`, `mQueue`, `mCodecHandle`, `mSawInputEOS`, `mSpsPpsHeaderReceived`, `mRequestSync`; the parameters; `ThreadWorker` with `mRunning` and `mExitRequested` | `init`, `start`, `stop`, `reset`, `release`, `queue_nb`, `flush_sm`, the setters; `ProcessData`, `ProcessOneFrame` on the worker | worker thread, encoder libraries | `flush_sm` takes no lock; a stop waits for the worker at most 500 ms and then joins it with a lock held; parameters change while a frame is encoded |
| Component store, `componentstore/` | loaded modules, their reference counts, codec tables | create component or interface, list | `dlopen` of component libraries | reference counts under concurrent creation |
| Services, test client, logging | - | start-up, dumps | - | no protocol of their own |

`PROJECT.json` lists these parts with their status, and under `hazards` the
places where this code is hard to test, each with the properties that watch it.

## The modules

| Module | Content |
|---|---|
| `WorkContract` | What a component promises a client: works are accepted one after another, given back at most once, and an outcome never changes. The abstract specification all four components with a work path are shown to implement |
| `WorkDeque` | `front()` and `back()` of a deque of works, as the least and the greatest element of a set of numbers |
| `VdecComponent` | The hardware decoder: client threads, component thread, decoder |
| `GraphicBlocks` | Its output blocks: component thread, dequeue thread, block pool, decoder, client |
| `VdecDevice` | What `DeviceUtil` computes: write modes, sizes and numbers of blocks, the decoder's configuration |
| `VdecParams` | What a codec supports on a platform, and what `config()` makes of parameters |
| `VdecPicture` | HDR information, colour aspects, HDR10+ metadata, and what a picture's work is told |
| `VdecReference` | What the pure functions of the last three must amount to: named assumptions TLC evaluates |
| `VdecInstances` | The counters of decoders and the limits on them |
| `SoftVdecComponent` | The software decoder: client threads and handler thread, lock by lock |
| `SimpleComponent` | The audio decoders and the image decoder: the same loop with its differences |
| `AudioCodecs` | What each of these codecs keeps, and what its callbacks make of it |
| `VencComponent` | The video encoders: client threads and worker thread |
| `VencParams` | The encoders' setters of size, frame rate, bitrate, level and quantization |
| `MCVdecComponent`, `MCGraphicBlocks`, `MCSoftVdecComponent`, `MCSimpleComponent`, `MCVencComponent` | Instances for TLC |
| `WorkDequeProofs` | `Front` and `Back` are well defined |
| `VdecComponentProofs` | Type correctness of `VdecComponent`; its stop protocol, order, accounting, contract, end of stream, that a stop is served and that a flush gives everything back |
| `VdecPartsProofs` | The counters of decoders and the limits; the pure functions of the hardware decoder, for every input |
| `SoftVdecProofs` | Type correctness, accounting, contract, replies, flush and stop of `SoftVdecComponent` |
| `SimpleComponentProofs` | The same of `SimpleComponent`, and that its codecs are set up when used, keep sound and works together, and leave no work behind at the end of a stream |
| `VencComponentProofs` | Every safety property of `VencComponent` |
| `GraphicBlocksProofs` | Type correctness and counts of `GraphicBlocks`; where each block is, and that the decoder holds current ones |
| `EnoughBlocksProofs` | That the decoder of an orderly client never runs out of blocks |

Works are numbered in the order in which the client queues them. In the decoders
a work only moves forward (queued, pending, answered), so a deque of works is
the *set* of its numbers: `front()` is its least element and `back()` its
greatest. For the hardware decoder this is justified by the theorem
`WorksInOrder`; in the software decoders an entry gets its number when it is
pushed, under the lock of the queue, so the order holds by construction. The
encoder's list is a sequence, because its flush works on it without a lock.

`answer[w]` records how a work was given back. It models no field: it stands for
what the client has seen. Its values are `ok`, `done` or `failed` (returned by
`onWorkDone_nb`), `eos` (returned as the end of the stream), `notFound`
(returned as abandoned, or outdated), `flushed`, and `lost` (destroyed by stop,
reset, an error path, or a list nobody collects).

## VdecComponent: the hardware video decoder

Three kinds of threads, as in the code:

* **Client threads** run the API calls. `start`, `stop` and `release` take
  `mStartStopLock`, post a task and wait; `flush_sm` posts `onFlush` and then
  waits for a condition with a timeout; `queue_nb` and `drain_nb` only post. A
  call is split where it waits or where it reads after another thread may have
  written: `StopCall`/`StopReturn`, `FlushCall`/`FlushWait`/`FlushTimeOut`/
  `FlushReturn`, and so on. `pc` says where each thread is.
* **The component thread** takes one task at a time from its message loop
  (`tasks`, a sequence). Each task body is one action, with every call it makes:
  `OnDequeueWork` includes sending the input to the decoder and re-posting
  itself, `OnOutputBufferDone` includes `sendOutputBufferToWorkIfAny` and its
  loop. This granularity is sound because all the data except the few fields
  client threads write (`mState`, `mHasQueuedWork`, and, on a flush timeout,
  `mComponentState`) belong to that thread.
* **The decoder** (`dec`) is external. It consumes inputs, produces zero or more
  pictures of a frame, in any order, ends a flush when everything is decoded,
  and acknowledges resets. Each notification posts a task, so notifications can
  be on their way while the client flushes, stops or restarts the component.

Variables name the fields they model in comments. `RefuseTask` is the macro
`RETURN_ON_UNINITIALIZED_OR_ERROR` at the start of most handlers.

Bounds appear in the guards only: `MaxWorks` works, `MaxRare` rare events
(decoder errors, early flush timeouts, extra pictures), `MaxTasks` (beyond which
nobody calls `drain_nb`), `SentLimit` for the length of
`mSentOutBitStreamIdList` (20 in the code).

Abstracted: the graphic block of a picture is taken to belong to the component
when the picture arrives (`GraphicBlocks` has the blocks, the dequeue thread and
the format change; `VdecInstances` the instance counters); VP9's no-show frames,
game-mode latency, tunnel and passthrough branches; the reset the dequeue thread
may force (`IsCheckStopDequeueTask`).

## GraphicBlocks and VdecDevice: the output blocks

`GraphicBlocks` is the other half of `C2VdecComponent.cpp`: which block is with
whom. Works are only what they do to blocks here (a data work feeds the decoder,
one that ends in a drain stops the dequeueing); which work a picture belongs to
is `VdecComponent`'s business. Four threads meet:

* **The component thread** runs posted tasks one at a time (`todo`). A task is
  one action and goes on in a second one where it joins the dequeue thread or
  hands pictures over; `at` says where it is: `OutputFormatChanged` and
  `TryChangeAgain`, then `AllocateBuffers` or `VideoResolutionChange`;
  `ResetDone`, then `FlushDone` or `StopDone`; `OutputBufferDone`, then
  `SendOutputBufferToWorkIfAny`.
* **The dequeue thread** (`StartRunDequeueTask`, `postDelayedAllocTask`,
  `onAllocBufferTask`, `fetchGraphicBlock`): `tasks` and `waiting` count the
  tasks that have been posted and those that wait for `mAllocBufferLoop`;
  `fetch` is a fetch under way, which keeps the size it has read. Each
  finished fetch posts a task to the component thread.
* **The decoder** asks for blocks (`ProvidePictureBuffers`), decodes into those
  it holds, ends a drain, acknowledges a reset.
* **The client** queues, drains, flushes, stops, and lets go of the blocks it
  has been given, in any order.

`b` is one record, so that the functions of the code that move blocks
(`GraphicBlockStateChange`, `sendOutputBufferToAccelerator`,
`appendOutputBuffer`, `assignPictureBuffers`, ...) are operators from a record to
a record and a handler composes them. `b.held` are the blocks the decoder really
has, apart from what the component believes (`b.infos`).

`VdecDevice` gives the sizes and numbers: how pictures are written (double
write, triple write, 10 bit), the configuration of the decoder, the alignment of
a block, how many blocks are fetched at first, whether a format change needs new
blocks.

Abstracted: `flush_sm` giving up after 500 ms and the reset the dequeue thread may
force after that, retry delays, a picture handed over before its work is done
with its input, blocks put into a flushed work after EOS. Buffers the pool has
not seen yet are alike: the one with the least number is taken. No work is
queued while a flush is under way. The dequeue thread's look at
`mGraphicBlocks`, a data race in the code, is one step.

## VdecParams and VdecPicture: what the decoder declares and says

Pure functions: no state of their own, but rules that are written down in
several places of the code and must agree. `VdecParams`: what a codec supports on
a platform (resolutions, frame rates, profiles, levels, each from the build, the
properties and `media_codecs.xml`), the parameters a new interface declares,
the size of the input buffer, and `config()` with its handlers in their order,
including what it leaves behind when one of them fails. `VdecPicture`: HDR
information and colour aspects on their way to the decoder and back, what the
stream reports, HDR10+ metadata, and `updateWorkParam`.

`VdecReference` states what they must amount to as named assumptions over bounded
inputs (five platforms, ten sizes, the decoders' settings); TLC evaluates them
before the run `blocks`, whose module extends it:

| Assumption | States |
|---|---|
| `DefaultsAreDeclared` | an interface starts with a level and a profile it declares, on every platform |
| `RatesAreMonotone` | a frame rate below one that is accepted is accepted |
| `InputBuffers`, `SettledInputBuffers` | the input buffer stays within its maximum, and without padding calculating its size again changes nothing |
| `StatusWithoutOrder`, `AcceptedWithoutOrder` | whether a configuration is accepted does not depend on the order of its parameters; one that is accepted is the same in every order, except for the input delay |
| `AnnouncedCovers` | the announced size covers the picture, for pictures of the usual shapes |
| `AlignedCovers` | a block covers the picture and exceeds it by less than 64 |
| `FirstWithinAll` | the first allocation takes at least one block and not more than all |
| `SignalsReadBack`, `AspectsSurvive` | colour aspects come back from the number they are packed into and from the decoder |
| `LuminanceSurvives`, `LuminanceSteps` | luminance comes back as it was configured, for H265 in steps of 50 |

## VdecInstances: the limits on decoders

`create()` holds a mutex and reads the counters one after another; the threads of
other components lower them in `onDestroy` without it, and a client raises one of
them when it configures a size. `VdecInstances` has one action for each counter
that is read or written (`phase[c]` is where component `c` is). It is not run:
that its counters are right and its limits hold is proved, for every number of
decoders and all limits.

## SoftVdecComponent: the software video decoders

Here the client threads and the handler thread share `mWorkQueue`, so the grain
is finer: a call is one action for each lock it takes and for each message it
posts, and `processQueue` is one for each time it locks `mWorkQueue`.

* `queue_nb`, `drain_nb`: `QueueCheck` (under `mExecState`), `QueuePush` (under
  `mWorkQueue`), `QueuePost` (a `kWhatProcess`, if the queue was empty).
* `flush_sm`: `FlushCheck`, `FlushTake` (empties queue and pending works,
  changes the generation, sets `mFlush`), `FlushReturn` (takes
  `mProcessQueueLock`, that is, waits for `processQueue`).
* `stop`, `reset`, `release`: `StopCheck`/`ResetCall`/`ReleaseCall`, `Clear`,
  `ClearPost`, and then the reply of `OnStop`/`OnReset`/`OnRelease`.
* `start`: `StartCheck`, `StartPost`, for `kWhatInit` the reply of `OnInit`,
  `StartReturn`.
* `processQueue`: `Take` (first critical section, and the pending
  `onFlush_sm`), then `NoPool`, `Drain` or one or more steps of `process()`,
  then `Dispose` (second critical section), then `GoOn` (unlocks, posts the next
  `kWhatProcess`). `process()` is split where it calls `finish()`, which locks
  `mWorkQueue`: once for a picture that belongs to an earlier work
  (`PictureForEarlier`), and once per turn of the loop that empties the waiting
  works at the end of the stream (`EosPicture`).

The generation counter is modelled by the one bit `processQueue` asks of it:
`outdated`, set by a flush and cleared by `Take`. Drain marks are entries of the
queue like works, and are numbered with them; `answer` of a drain mark says that
the handler has disposed of it.

Abstracted: the decoding library (a frame yields a picture or not); the output
block and the resolution; lists of more than one item in `queue_nb`; the
listener, which is set once before the first start; a decoder library that was
loaded once and cannot be loaded again. `NoPool` may happen at any entry while
the budget `MaxRare` lasts; the code asks for the pool once after each stop.
Clients do not call the component while `release()` runs or afterwards.

## SimpleComponent and AudioCodecs: audio and image decoders

`C2AudioDecComponent` and `C2SoftImageComponent` are near copies of the software
video loop. `SimpleComponent` is the loop, at the same grain as
`SoftVdecComponent`, with the differences that matter:

* `flush_sm` of the audio decoders takes no `mProcessQueueLock` and may return
  while a work is in hand (`FlushMayReturn`); the one of the image decoder waits.
* A work whose processing failed is dropped by the image decoder.
* A codec sends output in a loop, each turn of which calls `finish()` and locks
  `mWorkQueue` for itself: `SendFrames`, `SendWithoutBlock`, `SendRest`,
  `SendEnds`. Any client call may come between two turns.

`AudioCodecs` has for each decoder (AAC, EAC3, DTS, DTSX, AC4, FFMPEG with and
without initialisation on reset, image) what `onInit`, `onStop`, `onReset`,
`onRelease`, `onFlush_sm`, `process` and `drain` make of it: an operator from the
state of the codec to the set of results it can have. A codec is a record: whether
`mConfig`, the library and the decoder are there, and for AAC the works noted
with their frames (`infos`), the frames in the ring buffer (`filled`) and those
the decoder still delays (`compensated`, `delay`). A step that would use a null
or a stale pointer leads to `broken`, where nothing happens any more.

Bounds: `MaxEntries`, `MaxFrames` a work may yield, `RingSize`, `MaxDelay`, and for
each stream its entries, kinds and failures. Abstracted: sound samples,
passthrough, the frame assembly of EAC3, sample rates and channels except a
`config()` that fails, and what `SoftVdecComponent` abstracts.

## VencComponent and VencParams: the video encoders

Client threads share `mQueue`, the state and the encoder's handle with a worker
thread that polls the queue; it serves `C2VencComponent` with HCodec, Multi and
W420, and `C2VencComp`.

* `start`: `StartCheck`, `StartInit` (loads and opens the library with the
  parameters as they are), `StartThread` (`pthread_create`; a thread that is about
  to exit is joined first: `StartRejoin`), `StartReturn`.
* `stop`, `reset`, `release`: `StopCheck`, `StopClear` (empties the queue),
  `StopAskThread`, `StopRequest`, `StopWaited` (signalled, or after 500 ms),
  `StopThread`, `StopJoined`, `StopDone`, `Close`.
* `flush_sm` takes no lock, so each operation on the list is an action:
  `FlushTest`, `FlushMove` (moves the front out and leaves a null behind),
  `FlushPop` (pops whatever is at the front by then, which may be another work).
  `FlushBreaks`: two list operations at the same moment may do anything.
* The worker: `LoopTest`, `TakeMove` and `TakePop` under `mInputQueueLock`,
  `Receive` with its failures (`ReceiveEmpty`, `ReceiveFails`, `ReceiveDrops`),
  `ReadSync` and `ApplySync` (the request for a sync frame is read under one
  lock and cleared under another), `Encode`, `EncodeFails`, `EncodeBreaks`
  (a handle that was closed), `Signal`.

A parameter that is set is a new object, and the encoder compares objects: `sync`
has a value and an identity. `VencParams` has the setters of the six interfaces
with their tables of levels; W420 checks the quantization a client sets like the
others but opens its library with constants, where the models tell it what was set.
`unserved`, `late` and `flushed` record history for
the properties: a sync frame is owed; a stop has stopped waiting too early, or a
start has come in between; a flush has been called.

Bounds: the works, starts, failures, sync requests and settings of each stream.
Abstracted: pictures and their conversion, the libraries, dumps, the frame rate
measured from timestamps, GOP, intra refresh, colours and formats, and the order in
which waiting threads get a lock.

## The runs

| Run | Question | Bounds, and why they are enough |
|---|---|---|
| `vdec_concurrent` | Do works stay accounted for, and stops and starts orderly, with two client threads calling at once? `TypeOK`, `WorkAccounting`, `GivenBackOnce`, `StoppedIsEmpty`, `StopEventLive` | Two threads, one work, starts that succeed, fail or find no profile, one rare event. Races of the life cycle need two threads; a work is answered twice or lost on its own. Larger numbers are covered by the proofs |
| `vdec_serial` | With a fair scheduler and decoder, is a stop served, does a drain end, is the EOS answered, does a flush give everything back? `StopIsServed`, `FlushGivesAllBack`, `DrainEnds`, `EosAnswered` | One thread, a data and an EOS work, so that there is a work before and after the EOS; no errors, which would excuse any of these |
| `vdec_kinds` | Do works of every kind, with drains in both modes, keep their order, and is the EOS last? `Order`, `EosIsLast` | Two works of the kinds that take different paths (codec configuration with and without data, empty, empty EOS). Deadlock is checked |
| `blocks` | Has the decoder of an orderly client (`OrderlySpec`) only blocks the component knows, are they counted right, and are there always enough? `TypeOK`, `HeldIsCurrent`, `EnoughBlocks`; and the assumptions of `VdecReference` | Thirteen streams (`MCStreams`), each for one meeting of events: two flushes, a drain and a flush, one EOS after another, EOS and flush, EOS and stop, a bad picture, format changes with the same and another size and with more blocks, with and without a surface, an 8k picture. After a flush there are works enough for a task or block that a restart forgets to be missed. Three buffers of each size, two or three blocks asked for, so that the pool does run out; three posted tasks. Calls are few, but between them all threads interleave freely: 1.2 million states. What a client that is not orderly loses is described under [`OrderlyClient`](#what-is-proved); `TypeOK` and `HeldIsCurrent` are proved for every client |
| `soft_concurrent` | Two client threads against `processQueue`: `TypeOK`, `WorkAccounting`, `GivenBackOnce`, `FlushGivesAllBack` | Two threads, two entries, so that one can be in hand and one queued or pending; `MaxIndexes` 1, so that the limit of waiting works is met; one failure. Deadlock is checked |
| `soft_serial` | One thread, all kinds of entries, fair threads: `QuietWhenStopped`, `QueuedIsTaken` | Two entries of five kinds, one failure |
| `simple_codecs` | For each audio decoder and the image decoder: are works accounted for, does sound stay with its work, do the codecs survive every sequence of calls, does the handler come to rest? `TypeOK`, `WorkAccounting`, `SoundStaysWithItsWork`, `NeverBroken`, `GivenBackOnce`, `FlushGivesAllBack`, `EosLeavesNothing`, `ComesToRest` | One client thread. AAC with three works (two that wait and one in hand) and no failure, and with two works of all kinds and a failure; the others, which keep nothing between works, with two and a failure. A ring of 4 frames, up to 2 frames a work, delay up to 1, so that the ring fills and a work outlives its own turn. Deadlock is checked |
| `encoder` | For each encoder: `TypeOK`, `WorkAccounting`, `GivenBackOnce`, `InOrder`, `LostOnlyWithReason`, `EosFlagged`, `CsdFirst`, `SyncServed`, `NeverBroken`, `StopReturns`, `LevelCovers`, `EncoderGetsLegal` | Streams that each look at one thing (`MCStreams`): three works with a flush; every kind of work, two starts, a failure; two sync requests; two client threads, with works and with starts; each encoder with two settings, and one that is set while it encodes. Everything but `StopReturns` is proved for all bounds. Deadlock is checked |
| `double_reset`, `eos_outlives_drain`, `no_out_retry`, `stale_indexes` | What comments of the code say and the code does not do | see [below](#where-code-and-comments-disagree) |

What the properties mean:

* `WorkAccounting`: a work accepted and not given back is in exactly one place
  of the component, and a work given back is in none. This is what a leak, a
  double answer, or a work kept after its answer would break.
* `GivenBackOnce`: the component implements `WorkContract` (`accepted` is
  `next`, `outcome` is `answer`).
* `StoppedIsEmpty`: a stopped hardware decoder holds no dequeued work, no
  picture and no drain. Works in `mQueue` do survive a stop: `onStopDone` does
  not clear it.
* `StopEventLive`: while the component is stopping, `mStopDoneEvent` belongs to
  a thread that waits for it.
* `StopIsServed`: a thread in `stop()` has an answer coming.
* `FlushGivesAllBack`: when `flush_sm` returns `C2_OK`, all works queued before
  it are given back; in the software decoder and the image decoder including the
  one being decoded, in the audio decoders except that one.
* `DrainEnds`, `EosAnswered`, `QueuedIsTaken`, `ComesToRest`: what must eventually
  happen. `ComesToRest`: again and again nothing is queued or in hand, and only
  works whose sound is still to come are pending.
* `Order`, `EosIsLast`: works keep their order; nothing queued before the EOS is
  still waiting when the EOS has been reported.
* `QuietWhenStopped`: a stopped software decoder reports nothing.
* `EnoughBlocks`: once nothing is under way that would give blocks back anyway
  (`Settled`), there is for each block the decoder asked for one it holds, one on its
  way, or a task of the dequeue thread that will not be refused. A flush or a drain
  that is done counts as under way only as long as the decoder has nothing to decode:
  from the next work on, whether it is queued or with the decoder, the blocks must be
  there again. For orderly clients (`OrderlyClient`) only. A counter that drifts,
  a task lost in a restart or a loop left disabled would end with a decoder that
  waits for ever; no single handler shows it.
* `HeldIsCurrent`: what the decoder really holds is what the component believes
  it holds, of the size of the present format. `TypeOK` of this module says that
  the counts of blocks for each owner are right, on which the restart after a flush
  relies.
* `SoundStaysWithItsWork`: the frames in AAC's ring buffer, with those its decoder
  still delays, are exactly the frames of the works noted and not served: sound
  goes out with the work it was decoded from, also after a flush and at the EOS.
* `EosLeavesNothing`: when the EOS is given back, so has been every earlier work
  of the stream.
* `NeverBroken`: without a failure no sequence of calls makes a codec, or the
  encoder's worker, use what it has closed or popped.
* `InOrder`, `LostOnlyWithReason`: pictures are encoded in the order they were
  queued in; a work is destroyed only by a stop, a failure, or while a flush is at
  the list.
* `EosFlagged`, `CsdFirst`: the client's EOS comes back flagged and nothing before
  it does; the codec specific data comes with the first picture or before it.
* `SyncServed`: a request for a sync frame is not forgotten, though it may come
  between the reading and the clearing of the one before it.
* `LevelCovers`, `EncoderGetsLegal`: whatever is set in whatever order, the level
  admits size, rate and bitrate if any row of its table does, and the library is
  told values in its range.
* `StopReturns`: a `stop()` of the encoder returns, if its wait does not end before
  the worker has left its loop.

`StopIsServed` and `FlushGivesAllBack` of the hardware decoder, and
`QuietWhenStopped` and `QueuedIsTaken` of the software decoder, hold for one
client thread and are claimed for one only. With two threads they do not hold:
a flush timeout on one thread can overwrite the `STOPPING` another one waits
on; a thread that has seen `RUNNING` in `queue_nb` can push after another
thread's `stop`. `NeverBroken` of the encoder says itself that it is about one
client that does not flush: with two, a stop that has timed out closes a handle
in use, and a flush pops a list the worker is at.

Symmetry is used in the two-thread runs of the decoders only. They check no
liveness property, `Next` treats client threads alike, and no property names
one. `vdec_concurrent` does not check for deadlock: `start()` of a component for
which no profile is found never returns (`onStart` leaves without signalling),
and a `stop()` whose `STOPPING` was overwritten does not either. `blocks` does
not check for it because its streams end. All other passing runs check it.

Each property of a passing run has a mutant in `PROJECT.json`: a change of one
mapped definition, of the kind a slip in the code would be, under which TLC finds
that property violated. The mutated forms are defined next to the definitions
they replace (`Abandoned`/`PendingOnly`, `Flushed`/`QueuedOnly`, ...).

## Fairness

`FairSpec` of `VdecComponent` assumes that the message loop runs, that a client
thread whose call can return is scheduled, and that the decoder keeps what
its interface promises: it consumes an input, ends a flush when all is
decoded, acknowledges a reset, and disposes of each frame with a picture, a
no-output notice or an error. `FlushTimeOut` is fair only when no answer is
coming: the timeout of 500 ms is long compared with the tasks before it, so it
must happen if nothing else will, and need not happen otherwise (without
fairness it may happen at any time, as one of the rare events). Nothing is
assumed of the client: it need not call anything.

`FairSpec` of `SoftVdecComponent` and of `SimpleComponent` assumes the handler
thread runs and that a client thread inside a call is scheduled. `mExecState` and
`mWorkQueue` are locked for a few statements only; `mProcessQueueLock` is held as
long as `process()` runs, and `FlushReturn` is enabled only when it is free. Weak
fairness would not be enough for a flush that found the lock taken again and
again; no property depends on it.

`FairSpec` of `VencComponent` assumes the worker runs and that a client thread
inside a call is scheduled; a wait ends by itself after 500 ms. `LeavesInTime`
says when it does not: a worker that is asked to leave and has no work in
hand needs less than 500 ms. Without it every stop might time out, and a stop that
has timed out holds the lock the worker needs (`Hung`).

`GraphicBlocks` states no fairness: its properties are invariants.

## What is proved

For every set of client threads, every number of works, kinds, streams, rare events
and length of the lists, from the assumptions on constants the modules state
(`CallersAssumption`, `BoundsAssumption`, `KindsAssumption`, `StreamsAssumption`,
`FramesAssumption`; for the instances, `WellFormed`):

| Theorem | States | Argument |
|---|---|---|
| `VdecComponentProofs!TypeCorrect` | `TypeOK` | One step per handler; tasks carry a work of the right kind, the decoder's resets never go below zero. `TypeOK` is split into `FlagsOK` (Booleans) and `DataOK`, which need different provers |
| `VdecComponentProofs!StoppedEmpty` | `StoppedIsEmpty` | Inductive with `TypeOK`: every handler that adds to one of these lists refuses in a stopped component |
| `VdecComponentProofs!StopEvent` | `StopEventLive` | Not inductive: it needs to know who holds `mStartStopLock` (`LockHeld`), that at most one start or stop is posted (`OneAtATime`), that the poster waits (`StarterWaits`, `StopperWaits`), and that the event is the lock holder's (`EventOfHolder`); together `StopProtocol` |
| `VdecComponentProofs!WorksInOrder` | `Order` | With `Accepted` (what is queued or pending was accepted) |
| `VdecComponentProofs!WorksAccounted` | `WorkAccounting` | Stated for one work at a time (`Placed`), with the fact that a work not accepted yet has no answer; then one lemma for each place a handler moves a work from or to |
| `VdecComponentProofs!ContractKept` | `GivenBackOnce` | Initial states and steps map to those of `WorkContract`: `queue_nb` is `Accept`, a step that answers works is `GiveBack` because it answers only works it holds, and any other step stutters |
| `VdecComponentProofs!EosLast` | `EosIsLast` | From `Order`: the EOS is the last pending work, and what is queued or arriving is younger |
| `VdecComponentProofs!StopServed`, `OneClientIsServed` | `StopIsServed` | For starts that succeed and as long as no thread is in `flush_sm` while another is in `stop` (`FlushApart`, see below); a single client meets the second condition by itself. `ServedInv`: a component that is up has a decoder to reset (`DecoderUp`), `mState` tells the client whether it is up (`StateTold`), nobody but the stopping thread is where it could write the state (`PlacesKnown`), and a posted start, stop, destroy or flush finds the component its poster saw (`TasksKnown`) |
| `VdecComponentProofs!FlushComplete` | `FlushGivesAllBack` | For one client whose flush does not time out while the answer is on its way (`Patient`, see below). `FlushInv`: one reset is owed or answered (`ResetsOnce`), for the flush whose task has run or for the stop (`ResetIsFor`); works on their way are before the flush in the loop (`WorkBeforeFlush`), so that nothing is left outside the list when `flush_sm` is woken (`EmptyHands`) |
| `SoftVdecProofs!TypeCorrect` | `TypeOK` | With `HandsFull` (`processQueue` works on an entry) |
| `SoftVdecProofs!WorksAccounted` | `WorkAccounting` | `AccountInv` adds `HandsFull`, `NotYet` (what was not pushed has no answer) and `AwaitedFlush`. Most steps leave the works alone (`Undisturbed`) or give back what leaves the component's hands (`AnswersWhatLeaves`) |
| `SoftVdecProofs!ContractKept` | `GivenBackOnce` | As above: `QueuePush` is `Accept` |
| `SoftVdecProofs!RepliesMatch` | `RepliesAwaited` | At most one message names a thread, and that thread waits for its reply: posting happens outside the wait, replying removes the message |
| `SoftVdecProofs!FlushComplete` | `FlushGivesAllBack` | `AwaitedFlush`: what a waiting flush has not seen given back is the entry in hand, and that entry is outdated, so `Dispose` will not keep it. `RepliesMatch` shows that only `FlushReturn` ends the wait |
| `SoftVdecProofs!StoppedIsQuiet` | `QuietWhenStopped` | For one client thread. `StoppedInv`: in a stopped component no call that queues or flushes is under way, the queue is empty from the moment `stop()` has emptied it, and nothing is in hand once the handler has replied (`HandlerQuiet`: it takes only from the queue and replies with nothing in hand) |
| `SimpleComponentProofs!TypeCorrect` | `TypeOK` | Lemmas on every callback of every codec: from a good codec it makes a good one (`GoodCodecs` bounds the ring buffer by its size and the debt by the delay); then one step per action |
| `SimpleComponentProofs!WorksAccounted`, `ContractKept`, `FlushComplete` | `WorkAccounting`, `GivenBackOnce`, `FlushGivesAllBack` | As for the software decoder, with `FillIn` as a further step that answers a pending work while another one is in hand. The theorems show what the missing `mProcessQueueLock` costs: only the work in hand |
| `SimpleComponentProofs!NeverUsesWhatIsGone`, `SoundKept` | `NeverBroken`, `SoundStaysWithItsWork` | For client threads of which no two are in `start`, `stop`, `reset` or `release` at once (`OneStateCall`, see below). `CodecInv`: a thread waits for the message it posted and no start is queued behind it (`MessagesInv`), `processQueue` runs only in a running component (`RunInv`), a component to be initialised does not run and has noted no work (`UninitInv`), the codec is set up from start to release (`SetUpInv`), and the frames the codec has, with those its library owes, are those of the works noted (`FramesInv`; `Sound` and `Paid` are kept by each callback) |
| `SimpleComponentProofs!OneClientIsSafe` | both, for one client | A single thread makes one call at a time, so the condition holds by itself |
| `SimpleComponentProofs!NothingIsLeft` | `EosLeavesNothing` | For one client thread. `EosInv`: works are taken in the order they were pushed (`InOrder`), a flush leaves nothing pending until the codec was told (`FlushInv`), nothing is queued while a stop is under way (`ClearedInv`), only AAC keeps works and never one that ends the stream (`KeptInv`), and a pending work is noted in `mBuffersInfo`, where the work in hand is the last, or a drain with EOS has forgotten it (`NotedInv`). `SendRest` serves all notes but the last, which is that of the EOS |
| `GraphicBlocksProofs!TypeCorrect` | `TypeOK` | `TypeInv` adds that the blocks are finitely many and the pictures that wait are in blocks of the board, that the pool gives one id to one block, also to blocks on their way, and that one call of the client is under way (`Serial`). The counts are followed as `Excess`, the count less the blocks of an owner, which `GraphicBlockStateChange` does not change |
| `GraphicBlocksProofs!HeldBlocksAreCurrent`, `OnePlace` | `HeldIsCurrent`; where a block is | `HeldInv`, below |
| `EnoughBlocksProofs!BlocksNeverRunOut` | `EnoughBlocks` | Of `OrderlySpec`, the system with an orderly client (`OrderlyClient`, see below). `EnoughInv` and `Unfed`, below |
| `VencComponentProofs!TypeCorrect`, `EncoderLegal` | `TypeOK`, `EncoderGetsLegal` | `Typed`: types, with `Holding` (the worker has a work where it uses one) and `LegalParams` (both the parameters and what the library was told are legal, whoever set them) |
| `VencComponentProofs!WorksAccounted`, `ContractKept` | `WorkAccounting`, `GivenBackOnce` | `Placed`: `Accounted`, with the list sorted up to nulls, the worker holding an older work than the list (`Apart`), a thread's hand full only before its pop (`HandsFull`), and `NotYet`. `Position` ties the worker's place to its work. Each step also satisfies `Kept`: answers are final, and only the worker's work is answered `done` or `failed` |
| `VencComponentProofs!OrderKept`, `LossesHaveReasons` | `InOrder`, `LostOnlyWithReason` | From `Kept`, and, for the latter, from `FlushKnown`: as long as nobody has called `flush_sm`, the pop of the worker finds the null it left |
| `VencComponentProofs!EosKept`, `CsdComesFirst`, `SyncKept` | `EosFlagged`, `CsdFirst`, `SyncServed` | `EosKnown` (the EOS that was seen is behind the worker), `CsdKnown` (so is the work that carried the header), `SyncKnown` (the object seen last has been served, and the one read is no newer than the one set) |
| `VencComponentProofs!LevelsCover` | `LevelCovers` | Each column of the two tables grows with the level, so that whatever covers the parameters is followed by levels that do; the setter of the level runs after every change |
| `VencComponentProofs!NeverBreaks` | `NeverBroken` | `Orderly`: for one client, its place and the state tell whether there is a worker and an open library; `OthersIdle`, `FlushKnown` |
| `VdecPartsProofs!CountersAreRight`, `LimitsHold`, `Vc1IsAlone` | `CountersRight`, `WithinLimits`, `Vc1Alone` | Only the holder of the mutex counts a decoder in, so what it has loaded is out of date only in one direction (`Loaded`), and the room it has found (`Room`, `Alone`) is still there when it counts |
| `VdecPartsProofs` (`AlignedCovers`, `FirstWithinAll`, `DefaultsAreDeclared`, `LevelsGrow`, `InputBuffersBounded`, `SignalsReadBack`, `MergedOnce`, `UnnoticedIsTheSame`, `ReportedAgain`) | facts on the pure functions (`InputBuffersBounded`: a value the client asks for above 8 MB is returned as it is, and left out) | For every size, alignment, platform, padding, or description, by cases of the definitions and linear arithmetic |
| `WorkDequeProofs!BackProperty` | `Back` of a bounded set that is not empty is its greatest element | Through `FrontProperty`: a set of naturals has a least element |

The strengthened invariants were checked with TLC on the instances above before
they were proved.

**`HeldInv`.** That a block the decoder holds is a current one is far from
inductive. A block can be taken for another, or given to the decoder twice, only
if some step finds it where the component does not expect it; so the invariant says
where every block is, at every point of a flush, a stop or a format change:

* a block is with the decoder, in one picture on its way, or in one picture that
  waits for its work, and in no two of these; the first two are counted for the
  decoder and the third for the component (`HeldOn`, which is `OnePlace`);
* from `ProvidePictureBuffers` until the decoder is answered it has no block and
  reports no picture, so that blocks can be resized or replaced (`Waiting`);
* a flush has one reset, and from its answer to the next work nothing is decoded,
  so that `onReusedOutBuf` may give back every block `onFlush` set aside
  (`Resets`); no work is queued behind a flush (`Ordered`);
* a block has the id the pool gave it, and one the client gave back comes under
  that id (`BoundOn`), in the size of the format (`SizesCurrent`).

`Sound` leaves out what the code does not keep: after a failure or a stop, and,
without a surface, after a second format. The last was found by the attempt to prove
more, and TLC confirmed it: after a flush with a picture in
`mPendingBuffersToWork`, a format change of the same size without a surface drops
the blocks of the component from the pool (`resetGraphicBlock`), and
`onReusedOutBuf` then gives blocks from before the flush to the decoder; a block
fetched later gets the id of one of them, and the decoder holds it twice over.
`HeldIsCurrent` says so in its precondition.

**`OneStateCall`.** The audio and image decoders hold no lock from the beginning
of `start`, `stop`, `reset` or `release` to its end: `mExecState` is locked to be
read and again to be written. If one thread releases a component while another
starts it, its worker runs with a codec that is gone, so `NeverBroken` and
`SoundStaysWithItsWork` do not hold for such threads; TLC finds that for two clients
(the two theorems cannot do without the condition). They assume that no two
threads are in one of these calls at once, which nothing in the repository enforces;
`queue_nb`, `drain_nb` and `flush_sm` are not restricted. A single client, as in the
run, meets it by itself (`OneClientIsSafe`).

`NothingIsLeft` needs more, a single client: a work another thread pushes between
the moment `stop()` empties the queue and `onStop` can be decoded and kept in
between, and `onStop` then forgets its note, so that it is still pending when the
next stream ends (TLC finds that with two clients and two works).

**`FlushApart`.** `StopServed` assumes two things the code does not enforce. A
`flush_sm` that times out writes `mComponentState` from the client thread, so a stop
of another thread can find its `STOPPING` overwritten; and a start that fails can
leave a component nothing will answer for. The second was found by the attempt to do
without it, and TLC confirmed it: after a stop, a start whose decoder cannot be
initialised leaves the component in `STARTING` without a decoder, but not in
`mState`; if a `NotifyError` of the old decoder was still posted, `reportError` then
puts `mState` in `ERROR`, and a `stop()` or `release()` that follows waits for the
reset of a decoder that was never initialised.

**`Patient`.** A flush that times out although its answer is on its way returns and
leaves the answer behind: the next `flush_sm` is woken by it before its own task has
run, with a work queued in between still on its way (TLC finds that with two works
and one such timeout). The run has no such timeout (`MaxRare = 0`); the theorem
assumes there is none and nothing else about starts, errors, or what the decoder
reports. The 500 ms are long compared with the tasks before the answer, but nothing
in the code ties them to it.

**`EnoughInv`.** `EnoughBlocks` looks at moments at which nothing is under way; the
invariant has to say what keeps the number of blocks while something is. It says so
of a component that works (`Runs`: no failure, no stop, and without a surface the first
format):

* the counts of blocks for each owner are exactly right (`Exact`), so that
  `reStartAllocTask` counts what it means to count;
* after a flush the dequeue thread waits for a work, after an announced format the
  decoder waits for the component, and what is being fetched has the size of the
  present format (`Awaiting`);
* a drain is answered once, behind every picture of it and before a reset, and the decoder
  is not fed from its answer on (`Drains`); a work with EOS is the only one until it is
  answered (`EosAlone`);
* the blocks of the component are those of pictures that wait for their works, or waited at
  the last flush (`Spread`): no block is lost between the owners;
* then, while blocks go round (`Rounds`: no flush, drain or change of format is under
  way), the blocks the decoder has, with the posted tasks that will give it one
  (`Useful`: a picture, a known block that comes back, a new one of the right size
  that is still in the pool) and the tasks and fetches of the dequeue thread, are at
  least as many as it asked for, and neither of its loops is disabled (`Balanced`).

Each action keeps the sum by giving for what it takes: a picture that comes out takes a
block from the decoder and posts a task to fetch one, a fetch turns a task into a posted
block, and where the sum is given up (flush, drain, change of format) the step that ends
this counts the blocks anew. After a drain that is the next work's `reStartAllocTask`; until
then an orderly client leaves the decoder without input (`Unfed`), so that `EnoughBlocks`
promises nothing there. TLC checked the parts of the
invariant on the streams of `blocks` and on more than it has (two flushes with works, a
drain or an EOS between them; two works before an EOS or a drain; one work with EOS after
another; a work with EOS across changes of format): 2.25 million states.

**`OrderlyClient`.** The balance does not hold for every client, and the theorem assumes
three things of it; no document says a client must or need not keep to them.

* *Nothing is queued behind a work with EOS before its drain is done.* Otherwise
  `queue_nb` finds no EOS reported yet and restarts nothing; after the drain the work
  behind the EOS is decoded all the same, while the dequeue thread cancels the allocations
  that still wait. The next work queued restarts them (`ReStartAllocTask`), counting
  blocks by owner: a picture that waits in the component for its work counts as a
  block to come, but the task that came with the picture has already been used up. TLC
  finds that on a Vga stream with two data works and one with EOS; the condition was found
  when the property was checked on such streams.
* *After a flush that caught a picture waiting for its work, a work is queued before the
  next flush.* Otherwise the second `onFlushDone` clears `mFlushDoneBufferOwnedByComp`
  (`C2VdecComponent.cpp:1741`), the list of the blocks of those pictures; the next work
  then gives the decoder all blocks but these (`onReusedOutBuf`), and nobody counts
  them as missing, since the component owns them. The attempt to prove the property
  without this condition failed at `FlushDone`, and TLC found the trace on a Vga stream
  with two data works and two flushes.

* *After a drain without EOS nothing is queued before a flush.* Otherwise the decoder
  loses all its blocks, one after another. When the drain is done `NotifyFlushDone`
  (`C2VdecComponent.cpp:3391`) stops the allocations and sets `mHaveDrainDone`, and
  `onDrainDone` takes up the queued works again, but reports no EOS; `onQueueWork`
  (`C2VdecComponent.cpp:727`) undoes both only after an EOS report or a flush. The next
  works are decoded into the blocks the decoder still has, and each block that comes back
  is let go (`C2VdecComponent.cpp:1018`), while the tasks to fetch others wait or are
  cancelled. With a data work, a drain and another data work on a Vga stream, TLC finds
  a started component with input for the decoder, in which the decoder has no block and
  none is on its way. The log at line 1019 takes the flag for an EOS ("have receive eos,
  pending output buffer"), though none was ever queued.

In the first two cases the decoder is left one block short of what it asked for, with no
task for it; in the third with none. `OrderlySpec` takes only the steps after which these
conditions hold, so that its behaviours are those of `Spec` in which they always do. A client
that calls in this order keeps to them, whatever the other threads do.

Only model-checked: everything temporal (`DrainEnds`, `EosAnswered`, `QueuedIsTaken`,
`ComesToRest`, `StopReturns`; liveness under fairness is out of the prover's reach).

## Where code and comments disagree

Four runs state what a comment or a log of the code says; TLC finds each
violated by the code.

* `double_reset` (`C2VdecComponent.cpp:1626`): the comment says no reset is
  requested while another is under way, but the state is changed to `STOPPING`
  before it is compared with `FLUSHING`, so a stop during a flush always resets
  twice. The first notification then completes the stop, and the second
  reaches a stopped or restarted component.
* `eos_outlives_drain` (`C2VdecComponent.cpp:1667`): `mPendingOutputEOS` is
  documented to be unset when a drain ends or is cancelled; a flush cancels it
  and leaves the flag set.
* `no_out_retry` (`C2VdecComponent.cpp:3439`): the log says a work that is not
  finished will be retried; nothing retries it.
* `stale_indexes` (`C2SoftVdec.cpp:140`): `finish()` is documented to take the
  index of a pending work; after `stop()` and `start()` it gets the indexes of
  works `stop()` destroyed, and the pictures shift to the wrong works.

Where the code does something a reader might not expect and no document says
otherwise, the models follow the code and the properties leave it out by name:

* A `stop()` of the encoder whose wait times out keeps `mProcessDoneLock` while it
  joins the worker, which needs that lock to leave (`Hung`, `late`).
* A start of the hardware decoder that fails leaves `STARTING`, and an error reported
  late then makes `stop()` wait for a decoder that was never initialised
  (`StopServed` is about starts that succeed).
* A drain with EOS of the AAC decoder forgets the last work that waits for its
  sound (`EosLeavesNothing` excludes `drainEos`).
* FFMPEG codecs whose `onReset` closes the library are not opened again by the next
  start (`NeverBroken` excludes them); EAC3 frees `mConfig` when the library cannot
  be loaded, and a second start uses it.
* A level of HEVC's high tier is in no table and never corrected (`LevelCovers`).
* Whether HDR information differs is decided by comparing the old least luminance
  with the new greatest one (`UnnoticedIsTheSame` excepts that field).
* Without a surface, a format change that reallocates keeps the counts of blocks
  that are gone (`TypeOK` of `GraphicBlocks` allows more; `EnoughBlocks` looks at
  the first format only in that mode), and its decoder may be given a block of the
  old format again (`HeldIsCurrent` looks at the first format only, too).
* Works queued after a drain without EOS cost the decoder its blocks for good; a work
  queued behind one with EOS, before its drain is done, and a second flush with no work
  since the first can each cost it one (`EnoughBlocks` is checked and proved under
  `OrderlySpec`, whose clients do none of the three; the traces are described above
  under `OrderlyClient`).
* Whether a platform supports a size is decided by its area, so a square picture
  larger than any announced size can be accepted and be announced as 4096 x 2304
  (`AnnouncedCovers` is about the usual shapes).

## What is not modelled

* Tunnel and passthrough modes: other work paths, through a renderer or none.
* The component store, services, test client, dumps and statistics.
* In `GraphicBlocks`: the end of `flush_sm` before `onFlushDone`, and with it the
  reset the dequeue thread forces when a flush takes longer than 2 s; queueing
  during a flush; the data race on `mGraphicBlocks`.
* Parameters that are only passed on, those of the software decoders, the parser of
  `media_codecs.xml`.
* Sound samples, pixels, bit streams: data, with no protocol to check.
* The libraries below (decoder driver, ffmpeg, encoders, gralloc): not in the
  repository, modelled by what the code relies on.

## Plan

In order of what matters most to the system:

1. **Done.** `VdecComponent`, `WorkContract`, their runs and proofs.
2. **Done.** `SoftVdecComponent`, its runs and proofs.
3. **Done.** Output blocks: `GraphicBlocks`, `VdecDevice` and the run `blocks`.
   `GraphicBlocksProofs`, `EnoughBlocksProofs`. Left: the early end of `flush_sm`.
4. **Done.** The variants of the software loop: `SimpleComponent`, `AudioCodecs`,
   their run and proofs.
5. **Done.** The encoders: `VencComponent`, `VencParams`, their run and proofs.
6. **Done.** Parameters, pictures and limits of the hardware decoder: `VdecParams`,
   `VdecPicture`, `VdecInstances`, their assumptions and proofs.
7. **Tunnel mode**: works reported by rendered frames; one run.
8. **Component store**: reference counts of loaded modules.
9. A composition of `VdecComponent` with `GraphicBlocks`, in which a picture's
   block and its work move together.
10. What a second client thread may rely on in the hardware decoder: a property
    over two calls for the flag of a flush that another thread's timeout resets
    (`C2VdecComponent.cpp:1643`).
