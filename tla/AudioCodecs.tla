---------------------------- MODULE AudioCodecs ----------------------------
(***************************************************************************)
(* What the audio decoders and the image decoder keep from one work to the *)
(* next, and what their callbacks (onInit, onStop, onReset, onRelease,     *)
(* onFlush_sm, process) make of it.  A callback is an operator from the    *)
(* state of a codec to the set of results it can have; SimpleComponent     *)
(* calls them.                                                             *)
(*                                                                         *)
(* Sound is counted in frames.  The ring buffer of the AAC decoder is the  *)
(* number of frames in it; its decoder yields between none and MaxFrames   *)
(* frames for a work and delays the sound by codec.delay frames, which it  *)
(* tells with the first frame.  The other audio decoders fill an output    *)
(* buffer that is sent before process() returns.                           *)
(*                                                                         *)
(* Abstracted: passthrough (digital_raw), where the library is not used;   *)
(* sample rates and channels, of which only the failing config() is kept;  *)
(* the frame assembly of EAC3; an FFMPEG library that cannot be loaded by  *)
(* the constructor, which leaves mAInfo uninitialised.                     *)
(***************************************************************************)
EXTENDS Integers, Sequences

CONSTANTS
  MaxFrames,  \* bound: frames the AAC decoder yields for one work
  RingSize,   \* frames mOutputDelayRingBuffer holds
  MaxDelay    \* bound: frames of output delay of an AAC stream

ASSUME FramesAssumption == MaxFrames \in Nat /\ RingSize \in Nat /\ MaxDelay \in Nat

\* The decoders: the FFMPEG ones onReset initialises again are "ffmpegInit".
AllDecoders == {"aac", "eac3", "dts", "dtsx", "ac4", "ffmpeg", "ffmpegInit", "image"}
EosKinds == {"eos", "drainEos"}

\* Bytes of a work are not needed to tell it: an entry of mBuffersInfo is its number
\* and the frames decoded from it.
Info(w, frames) == [work |-> w, frames |-> frames]

\* conf: mConfig or mAInfo is allocated; lib: the functions of the library are
\* loaded; open: the codec is initialised; filled, compensated, known, error:
\* mOutputDelayRingBufferFilled, mOutputDelayCompensated, mStreamInfo knows the frame
\* size, mSignalledError of AAC.
NewCodec(d, delay) ==
  [conf |-> TRUE, lib |-> d \in {"aac", "ffmpeg", "ffmpegInit", "image"},
   setUp |-> FALSE, open |-> d = "image", infos |-> <<>>,
   filled |-> 0, compensated |-> 0, delay |-> delay, known |-> FALSE, error |-> FALSE]

\* What a callback comes to: "ok" or "failed"; for process(), "send" (and then the
\* output is sent), "processed" (the work is filled in) or "waits"; "broken" where it
\* uses a null or a stale pointer.  faults counts what went wrong around it.
Result(c, how, faults) == [codec |-> c, how |-> how, faults |-> faults]

Least(a, b) == IF a <= b THEN a ELSE b
NoInfos(c) == [c EXCEPT !.infos = <<>>]

-----------------------------------------------------------------------------
(* Setting up and letting go.                                               *)

Opened(c) == [c EXCEPT !.lib = TRUE, !.open = TRUE, !.setUp = TRUE]
TornDown(c) == [c EXCEPT !.conf = FALSE, !.lib = FALSE, !.open = FALSE]

\* Loading the library fails: mConfig is freed, and a second attempt would write to
\* it.
LoadFails(c) == Result(TornDown(c), "failed", 1)
UsesConfig(c) == Result(Opened(c), IF c.conf THEN "ok" ELSE "broken", 0)

Eac3SetUp(c) == IF c.setUp THEN {Result(c, "ok", 0)} ELSE {UsesConfig(c), LoadFails(c)}
DtsSetUp(c)  == IF c.setUp THEN {Result(c, "ok", 0)} ELSE {UsesConfig(c), LoadFails(c)}

\* _aml_dtsx_dualcore_init unloads the library when it fails, and nobody looks at what
\* it returns.
DtsxInitFails(c) ==
  IF c.conf THEN {Result([Opened(c) EXCEPT !.lib = FALSE, !.open = FALSE], "ok", 1)} ELSE {}
DtsxSetUp(c) ==
  IF c.setUp THEN {Result(c, "ok", 0)}
  ELSE {UsesConfig(c), LoadFails(c)} \cup DtsxInitFails(c)

\* ac4_decoder_init may fail, and then the decoder is torn down as if loading had.
Ac4SetUp(c) == IF c.setUp THEN {Result(c, "ok", 0)} ELSE {UsesConfig(c), LoadFails(c)}

FfmpegSetUp(c) ==
  IF c.setUp THEN {Result(c, "ok", 0)}
  ELSE IF c.conf THEN {Result(Opened(c), "ok", 0)} ELSE {Result(TornDown(c), "failed", 0)}

\* initDecoder of AAC: a new decoder and an empty ring buffer.
AacEmpty(c) == [c EXCEPT !.filled = 0, !.compensated = 0]
AacInit(c) ==
  {Result([AacEmpty(c) EXCEPT !.open = TRUE, !.known = FALSE], "ok", 0),
   Result([AacEmpty(c) EXCEPT !.open = FALSE, !.known = FALSE], "failed", 1)}

SetUp(d, c) ==
  CASE d = "aac"   -> AacInit(c)
    [] d = "eac3"  -> Eac3SetUp(c)
    [] d = "dts"   -> DtsSetUp(c)
    [] d = "dtsx"  -> DtsxSetUp(c)
    [] d = "ac4"   -> Ac4SetUp(c)
    [] d = "image" -> {Result(c, "ok", 0)}
    [] OTHER       -> FfmpegSetUp(c)

\* onStop of AAC opens the decoder again; the others keep theirs.
AacStop(c) ==
  LET stopped == [NoInfos(AacEmpty(c)) EXCEPT !.error = FALSE]
  IN  IF c.open THEN AacInit(stopped) ELSE {Result(stopped, "failed", 0)}

Stopped(d, c) == IF d \in {"eac3", "image"} THEN c ELSE NoInfos(c)
Stop(d, c) == IF d = "aac" THEN AacStop(c) ELSE {Result(Stopped(d, c), "ok", 0)}

\* onReset of EAC3 cleans the codec up and initialises it again, of FFMPEG closes it
\* and initialises it again for some codecs; DTS, DTSX and AC4 do nothing.  A mutant
\* only cleans up.
Eac3ResetCleansUp(c) == [c EXCEPT !.open = FALSE]
Eac3Reset(c) == c
FfmpegReset(c) == [NoInfos(c) EXCEPT !.open = FALSE]
FfmpegResetInit(c) == [NoInfos(c) EXCEPT !.open = c.lib]

Reset(d, c) ==
  CASE d = "aac"            -> {[r EXCEPT !.how = "ok"] : r \in AacStop(c)}
    [] d = "eac3"           -> {Result(Eac3Reset(c), "ok", 0)}
    [] d = "ffmpeg"         -> {Result(FfmpegReset(c), "ok", 0)}
    [] d = "ffmpegInit"     -> {Result(FfmpegResetInit(c), "ok", 0)}
    [] OTHER                -> {Result(c, "ok", 0)}

Released(d, c) ==
  CASE d = "aac"   -> [c EXCEPT !.open = FALSE]
    [] d = "image" -> c
    [] OTHER       -> IF c.setUp THEN Stopped(d, [TornDown(c) EXCEPT !.setUp = FALSE])
                                 ELSE Stopped(d, c)

-----------------------------------------------------------------------------
(* The AAC decoder: decoded frames go through a ring buffer.                *)

\* drainDecoder: the delayed frames come out, as long as the ring buffer takes them.
DrainDecoder(c) ==
  LET k == Least(c.compensated, RingSize - c.filled)
  IN  [c EXCEPT !.filled = @ + k, !.compensated = @ - k, !.error = @ \/ k < c.compensated]

\* onFlush_sm; a mutant keeps the frames in the ring buffer.
FlushKeepsFrames(c) == NoInfos(DrainDecoder(c))
AacFlush(c) == [NoInfos(DrainDecoder(c)) EXCEPT !.filled = 0]

\* The decoder has taken the work in: n frames are in the ring buffer.
AacDecoded(c) ==
  {[c EXCEPT !.filled = @ + n, !.known = @ \/ n > 0] :
     n \in 0 .. Least(MaxFrames, RingSize - c.filled)}

AacConfigures(c) ==
  IF c.open
    THEN {Result([c EXCEPT !.known = known], "processed", 0) : known \in {c.known, TRUE}}
           \cup {Result([c EXCEPT !.error = TRUE], "processed", 1)}
    ELSE {Result([c EXCEPT !.error = TRUE], "processed", 0)}

\* mSignalledError: a broken ADTS header, a config() that fails...; C2_CORRUPTED.
AacFails(c) ==
  {Result([d EXCEPT !.error = TRUE], "processed", 1) : d \in AacDecoded(c)}

\* Frames the decoder delays are discarded, but their number is owed at the end.  A
\* mutant discards all there are.
DiscardAll(c) == [c EXCEPT !.filled = 0, !.compensated = @ + c.filled]
Discard(c) ==
  LET k == Least(c.filled, c.delay - c.compensated)
  IN  [c EXCEPT !.filled = @ - k, !.compensated = @ + k]

AacGoesOn(c, k) ==
  IF k \in EosKinds THEN Result(DrainDecoder(c), "send", 0)
  ELSE IF c.known /\ c.compensated < c.delay THEN Result(Discard(c), "waits", 0)
  ELSE Result(c, "send", 0)

AacProcess(c, k, w) ==
  IF c.error THEN {Result(c, "processed", 0)}
  ELSE IF k = "csd" THEN AacConfigures(c)
  ELSE IF ~c.open THEN {Result(c, "broken", 0)}
  ELSE AacFails(c) \cup
         {AacGoesOn([d EXCEPT !.infos = Append(@, Info(w, d.filled - c.filled))], k) :
            d \in AacDecoded(c)}

\* drainRingBuffer: the first work of mBuffersInfo is served when all its frames are
\* there; at the end of the stream with those that are.
AacMaySend(c, atEnd) ==
  /\ c.infos # <<>> /\ (c.known => c.filled > 0)
  /\ c.filled >= Head(c.infos).frames \/ atEnd

AacSamples(c) == Least(c.filled, Head(c.infos).frames)
AacSent(c) == [c EXCEPT !.filled = @ - AacSamples(c), !.infos = Tail(@)]

-----------------------------------------------------------------------------
(* The other decoders: what a work yields is sent at once.                  *)

Noted(c, w) == [c EXCEPT !.infos = Append(@, Info(w, 0))]

\* config() of the new output format fails: C2_CORRUPTED, and nothing is sent.
ConfigFails(c) == Result(c, "processed", 1)

Eac3Process(c, w) ==
  IF c.conf /\ c.open THEN {Result(Noted(c, w), "send", 0), ConfigFails(Noted(c, w))}
  ELSE {Result(c, "broken", 0)}

\* A work that yields nothing is not noted.
Yields(c, w) == {Result(d, "send", 0) : d \in {c, Noted(c, w)}} \cup {ConfigFails(Noted(c, w))}

DtsProcess(c, w)  == IF c.conf /\ c.lib THEN Yields(c, w) ELSE {Result(c, "broken", 0)}
DtsxProcess(c, w) == IF c.conf /\ c.lib THEN Yields(c, w) ELSE {Result(c, "broken", 0)}
Ac4Process(c, w)  == IF c.conf /\ c.lib THEN Yields(c, w) ELSE {Result(c, "broken", 0)}

\* Codec specific data make FFMPEG close the codec and initialise it again.
FfmpegProcess(c, k, w) ==
  IF ~c.open THEN {Result(c, "broken", 0)}
  ELSE IF k = "csd" THEN {Result(c, "processed", 0)}
  ELSE {Result(Noted(c, w), "send", 0), ConfigFails(c)}

\* The image decoder: no picture to decode into makes the result an error; otherwise
\* every work is filled in.
ImageFails(c) == Result(c, "failed", 1)
ImageProcess(c) == {Result(c, "processed", 0), ImageFails(c)}

Process(d, c, k, w) ==
  CASE d = "aac"   -> AacProcess(c, k, w)
    [] d = "eac3"  -> Eac3Process(c, w)
    [] d = "dts"   -> DtsProcess(c, w)
    [] d = "dtsx"  -> DtsxProcess(c, w)
    [] d = "ac4"   -> Ac4Process(c, w)
    [] d = "image" -> ImageProcess(c)
    [] OTHER       -> FfmpegProcess(c, k, w)

\* onFlush_sm.
FlushedCodec(d, c) ==
  CASE d = "aac"   -> AacFlush(c)
    [] d = "image" -> c
    [] OTHER       -> NoInfos(c)

\* drain() of a drain mark: only AAC does anything.
DrainedCodec(d, c) == IF d = "aac" THEN DrainDecoder(c) ELSE c

\* The loops of drainRingBuffer and drainOutBuffer.
MaySend(d, c, atEnd) == IF d = "aac" THEN AacMaySend(c, atEnd) ELSE c.infos # <<>>
Sent(d, c) == IF d = "aac" THEN AacSent(c) ELSE [c EXCEPT !.infos = Tail(@)]

\* No output block for it: the work goes back without its frames, which stay.
SentWithoutBlock(c) == [c EXCEPT !.infos = Tail(@)]
=============================================================================
