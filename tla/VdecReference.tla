---------------------------- MODULE VdecReference ----------------------------
(***************************************************************************)
(* What the decoder's pure functions must amount to, over bounded inputs:  *)
(* TLC evaluates these facts before it runs the instance that extends this *)
(* module.  Those that hold for every input are proved in                  *)
(* VdecPartsProofs.                                                        *)
(***************************************************************************)
EXTENDS VdecPicture

\* Platforms: full HD, 4k and 8k, with and without a list of codecs.
Entry(size, perSecond) ==
  [blocks |-> Area(size) \div 256, blockSize |-> <<16, 16>>, maxSize |-> size, perSecond |-> perSecond]
Listed(entry) == [key \in Codecs \X BOOLEAN |-> entry]
Uhd == [Platform EXCEPT !.xml = Listed(Entry(<<4096, 2304>>, 972000))]
FullHd == [Platform EXCEPT !.support4k = FALSE, !.xml = Listed(Entry(<<1920, 1088>>, 244800))]
Uhd2 == [Platform EXCEPT !.support8k = TRUE, !.xml = Listed(Entry(<<8192, 4320>>, 1900000))]
TestPlatforms == {Platform, FullHd, Uhd, Uhd2, [Uhd EXCEPT !.padding = 0, !.inputDelay = 9]}

TestSizes ==
  {<<176, 144>>, <<640, 480>>, <<720, 576>>, <<1080, 1920>>, <<1920, 1080>>, <<1920, 1088>>, <<2048, 1024>>,
   <<3840, 2160>>, <<4096, 2304>>, <<7680, 4320>>}
TestValues == {0, 1, Mega, 2 * Mega - 1, 2 * Mega, 3 * Mega, MaxInputBufferSize - 1, MaxInputBufferSize}
TestRates == {0, 1, 24, 30, 31, 32, 60, 61, 120}

TestDevices ==
  {[[[DeviceOf(p, codec, secure) EXCEPT !.interlaced = interlaced] EXCEPT !.noSurface = noSurface]
      EXCEPT !.slice = slice, !.gameMode = (slice = 540)] :
     p \in {FullHd, Uhd, Uhd2}, codec \in {"H264", "H265", "MP2V", "AVS2"}, secure \in BOOLEAN,
     interlaced \in BOOLEAN, noSurface \in BOOLEAN, slice \in {-1, 540}}

-----------------------------------------------------------------------------

\* An interface starts with a level and a profile that it declares, on every platform.
ASSUME DefaultsAreDeclared ==
  \A p \in TestPlatforms, codec \in Codecs, secure \in BOOLEAN :
    LET i == NewInterface(p, codec, secure)
    IN  /\ i.level \in Levels(codec, Tier(p, codec, secure))
        /\ i.profile \in {Profiles(codec)[k] : k \in DOMAIN Profiles(codec)}

\* A frame rate below one that is accepted is accepted.
ASSUME RatesAreMonotone ==
  \A p \in TestPlatforms, codec \in {"H264", "H265"}, size \in TestSizes, rate, slower \in TestRates :
    slower <= rate /\ IsCodecSupportFrameRate(p, codec, FALSE, size, rate)
      => IsCodecSupportFrameRate(p, codec, FALSE, size, slower)

\* The size of the input buffer stays within the maximum, and is the padded value unless that is
\* cut off or the picture asks for more.
ASSUME InputBuffers ==
  \A value \in TestValues, size \in TestSizes, padding \in {0, 262144} :
    LET result == MaxSizeCalculator(value, size, MaxInputBufferSize, padding)
    IN  /\ result <= MaxInputBufferSize
        /\ Area(size) <= 1920 * 1088 => result \in {Wanted(value, padding), MaxInputBufferSize}
        /\ Area(size) > 2048 * 1024 => result = MaxInputBufferSize

\* Without a padding the size is settled: calculating it again for a picture changes nothing.
ASSUME SettledInputBuffers ==
  \A value \in TestValues \ {0}, size \in TestSizes :
    LET once == MaxSizeCalculator(value, size, MaxInputBufferSize, 0)
    IN  MaxSizeCalculator(once, size, MaxInputBufferSize, 0) = once

\* Whether a configuration is accepted does not depend on the order of its parameters.
TestRequests ==
  {<<[kind |-> "size", value |-> size], [kind |-> "frameRate", value |-> rate],
     [kind |-> "maxInputSize", value |-> value], [kind |-> "streamInputDelay", value |-> 6]>> :
     size \in TestSizes, rate \in {30, 61, 120}, value \in {Mega, MaxInputBufferSize + 1}}
Permuted(request, order) == [k \in DOMAIN request |-> request[order[k]]]
Orders == {o \in [1 .. 4 -> 1 .. 4] : \A k, l \in 1 .. 4 : o[k] = o[l] => k = l}
ASSUME StatusWithoutOrder ==
  \A p \in {FullHd, Uhd}, request \in TestRequests, order \in Orders :
    LET i == NewInterface(p, "H264", FALSE)
    IN  ConfigStatus(p, i, Permuted(request, order), 0) = ConfigStatus(p, i, request, 0)

\* A configuration that is accepted is the same in every order, but for the input delay: an input
\* buffer above the maximum resets what a stream's delay has set.
WithoutDelay(i) == [i EXCEPT !.inputDelay = 0]
ASSUME AcceptedWithoutOrder ==
  \A p \in {FullHd, Uhd}, request \in TestRequests, order \in Orders :
    LET i == NewInterface(p, "H264", FALSE)
    IN  ConfigStatus(p, i, request, 0) = "OK"
          => WithoutDelay(Config(p, i, Permuted(request, order), 0)) = WithoutDelay(Config(p, i, request, 0))

\* The announced size covers the picture, for the pictures of the usual shapes the platform supports.
Covers(big, small) == big[1] >= small[1] /\ big[2] >= small[2]
SizeSupported(p, d, size) == IsCodecSupportResolutionRatio(p, d.codec, d.secure, Area(size))
ASSUME AnnouncedCovers ==
  \A p \in {FullHd, Uhd, Uhd2}, d \in TestDevices, size \in TestSizes :
    LET own == [DeviceOf(p, d.codec, d.secure) EXCEPT !.noSurface = d.noSurface, !.slice = d.slice]
    IN  SizeSupported(p, own, size) => Covers(AnnouncedSize(own, size), size)

\* The sizes of blocks are multiples of the alignment and exceed the picture by less than it.
ASSUME AlignedCovers ==
  \A d \in TestDevices, size \in TestSizes :
    /\ Covers(AlignedSize(d, size), size) /\ Covers(ForcedSize(d, size), AlignedSize(d, size))
    /\ \A k \in 1 .. 2 : ForcedSize(d, size)[k] % 32 = 0 /\ ForcedSize(d, size)[k] < size[k] + 64

\* The first allocation takes some of the blocks and no more than all of them.
ASSUME FirstWithinAll ==
  \A d \in TestDevices, count \in 2 .. 20, smooth \in {0, 1, 4} :
    FirstBlocks(d, count, smooth) \in 1 .. count

\* The signal type of a stream is read back from the number it is packed into.
TestAspects == [ColorFields -> {0, 1, 9, 255}]
ASSUME SignalsReadBack ==
  \A iso \in {a \in TestAspects : a["range"] \in 0 .. 1} :
    Present(SignalType(iso)) /\ IsoAspects(SignalType(iso)) = iso

\* Colour aspects survive the way to the decoder and back, a range being specified.
ASSUME AspectsSurvive ==
  \A aspects \in {a \in TestAspects : a["range"] = 1} :
    CodecAspects(IsoAspects(SignalType(IsoOf(aspects)))) = aspects

\* The luminance of an HDR stream is what was configured, for AV1; for the others it is given to
\* the decoder byte by byte and read back plain.
ASSUME LuminanceSurvives ==
  \A max \in {0, 1, 500, 1000, 4000, 10000} :
    LET hdr == [NoHdr EXCEPT !["max"] = max]
    IN  /\ FromDecoder("AV1", ForDecoder("AV1", hdr, FALSE)) = hdr
        /\ FromDecoder("VP9", ForDecoder("VP9", hdr, TRUE)) = hdr
        /\ Endian(FALSE, Endian(FALSE, max)) = max

\* The decoder's luminance of H265, in 1/10000, comes out in steps of 50 and off by 25 at most.
ASSUME LuminanceSteps ==
  \A max \in {0, 1, 24, 25, 26, 499, 500, 1000, 3999, 9990} :
    LET read == MaxLuminance("H265", 10000 * max)
    IN  read % 50 = 0 /\ read - max \in -25 .. 25
=============================================================================
