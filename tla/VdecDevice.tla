------------------------------ MODULE VdecDevice ------------------------------
(***************************************************************************)
(* What DeviceUtil computes for the hardware decoder: how the decoder      *)
(* writes its pictures (double write, triple write, 10 bit output), the    *)
(* configuration it is given, and the sizes and numbers of the output      *)
(* blocks that follow from it.                                             *)
(*                                                                         *)
(* A device d is the decoder's settings: what the system properties, the   *)
(* component and the stream say, as DeviceUtil keeps them in its members.  *)
(* Sizes are pairs <<width, height>>.  Abstracted: the flags of the        *)
(* configuration that only pass a property on.                             *)
(***************************************************************************)
EXTENDS Integers, Sequences

Hevcs == {"H265", "VP9", "AV1", "DVAV1", "DVHE"}
Codecs == Hevcs \cup {"H264", "H266", "DVAV", "MP2V", "MP4V", "MJPG", "AVS", "AVS2", "AVS3", "VC1"}

\* The settings of a device in the common case: the others are given with EXCEPT.
Device == [codec |-> "H265", secure |-> FALSE, interlaced |-> FALSE, bitDepth |-> 8,
           texture |-> FALSE,      \* mUseSurfaceTexture
           noSurface |-> FALSE,    \* mNoSurface
           hwP010 |-> FALSE, swP010 |-> TRUE, p010 |-> FALSE, flexible |-> FALSE,
           is8k |-> FALSE, display8k |-> FALSE, codec8k |-> FALSE, platform8k |-> FALSE,
           codec4k |-> FALSE, xml4k |-> TRUE, xml8k |-> FALSE,
           propertyDw |-> -1, propertyTw |-> -1, slice |-> -1, realloc |-> FALSE,
           nr |-> TRUE, diLocal |-> TRUE, diPost |-> FALSE, nr8k |-> FALSE,
           mmu |-> FALSE, mmuSize |-> <<2560, 2160>>, picture |-> <<0, 0>>,
           dw |-> 0, tw |-> 0,     \* double_write_mode and triple_write_mode configured
           widthAlign |-> -1, lowLatency |-> FALSE, gameMode |-> FALSE, instances |-> 1]

Area(size) == size[1] * size[2]
Larger(a, b) == IF a > b THEN a ELSE b
NoDisplay(d) == d.texture \/ d.noSurface

-----------------------------------------------------------------------------
(* How the decoder writes its pictures.                                     *)

ShouldEnableMMU(d) ==
  /\ d.codec = "H264" /\ d.mmu /\ ~d.interlaced
  /\ ~NoDisplay(d) /\ Area(d.picture) >= Area(d.mmuSize) /\ ~d.secure

\* The buffers of 540 or 1080 lines that a property asks for: 0x400 and 0x200.
SliceDw(d, otherwise) ==
  IF d.slice = 540 /\ ~d.texture /\ ~d.secure THEN 1024
  ELSE IF d.slice = 1080 /\ ~d.secure THEN 512 ELSE otherwise

\* 0x10200 for the 10 bit output of 1080 lines.
TenBitDw(d) == IF d.slice = 1080 /\ ~d.secure THEN 66048 ELSE 3
TenBitOut(d) == d.hwP010 /\ d.p010

AvcDw(d) ==
  IF TenBitOut(d) THEN TenBitDw(d)
  ELSE IF NoDisplay(d) \/ d.interlaced \/ ~d.nr \/ ~d.diLocal \/ d.diPost
  THEN IF d.slice = 540 /\ ~NoDisplay(d) /\ ~d.interlaced THEN 1024 ELSE 16
  ELSE SliceDw(d, IF d.secure THEN 3 ELSE 16)

HevcDw(d) ==
  IF TenBitOut(d) THEN TenBitDw(d)
  ELSE IF NoDisplay(d) THEN (IF d.p010 THEN 3 ELSE 1)
  ELSE IF d.codec = "H265" /\ d.interlaced THEN 1
  ELSE SliceDw(d, 3)

CodecDw(d) ==
  CASE d.codec = "H264" -> AvcDw(d)
    [] d.codec \in Hevcs -> HevcDw(d)
    [] d.codec \in {"DVAV", "MP2V", "MP4V", "MJPG", "AVS", "VC1"} -> 16
    [] OTHER -> 3

GetDoubleWriteModeValue(d) ==
  IF d.propertyDw >= 0 THEN d.propertyDw
  ELSE IF d.is8k /\ ~NoDisplay(d) /\ ~d.swP010 /\ ~d.display8k THEN 4
  ELSE IF ShouldEnableMMU(d) THEN (IF d.dw > 0 THEN d.dw ELSE 3)
  ELSE CodecDw(d)

\* 0x10001 unless a property says otherwise.
GetTripleWriteModeValue(d) == IF d.propertyTw >= 0 THEN d.propertyTw ELSE 65537

\* The decoder answers 0, 8 or 10; any other answer is not taken.
QueryStreamBitDepth(d, answer) ==
  IF answer \in {0, 8, 10} THEN [d EXCEPT !.bitDepth = answer] ELSE d

SoftP010Limit(d) == IF d.codec4k THEN <<3840, 2160>> ELSE <<720, 576>>

SoftP010(d) ==
  /\ d.bitDepth = 10 /\ ~d.flexible /\ ~d.secure /\ NoDisplay(d)
  /\ \A i \in 1 .. 2 : d.picture[i] <= SoftP010Limit(d)[i]
HardP010(d) == d.bitDepth = 10 /\ ~d.flexible /\ d.hwP010

CheckUseP010Mode(d) ==
  IF HardP010(d) THEN "hardware" ELSE IF SoftP010(d) THEN "software" ELSE "none"

-----------------------------------------------------------------------------
(* The configuration of the decoder, and what changes it later.             *)

LowLatency(d) == d.lowLatency \/ d.gameMode
Is8k(d) == Area(d.picture) > Area(<<4096, 2304>>)

\* codecConfig: the settings it leaves; the margin is ref_buf_margin.
CodecConfig(d) ==
  LET eightK == d.is8k \/ Is8k(d)
      quiet == [d EXCEPT !.is8k = eightK,
                         !.nr = @ /\ ~LowLatency(d) /\ (Is8k(d) => d.nr8k),
                         !.diLocal = @ /\ ~LowLatency(d)]
  IN  [quiet EXCEPT !.dw = GetDoubleWriteModeValue(quiet),
                    !.tw = IF d.propertyTw >= 0 THEN d.propertyTw ELSE 0,
                    !.nr = @ /\ ~NoDisplay(d), !.diLocal = @ /\ ~NoDisplay(d)]
Margin(d) == IF Is8k(d) THEN 5 ELSE 6

\* The other half of codecConfig: the size is given the wrong way round, and these flags follow
\* from what was decided (d as CodecConfig leaves it; twoLayer is checkDvProfileAndLayer).
ConfigFlags(d, twoLayer) ==
  {flag \in {"unuse_avbc_out", "nr_enable", "di_localbuf_enable", "di_post", "dv_negative", "dv_twolayer"} :
     CASE flag = "unuse_avbc_out" -> NoDisplay(d)
       [] flag = "nr_enable" -> d.nr
       [] flag = "di_localbuf_enable" -> d.diLocal
       [] flag = "di_post" -> d.diPost
       [] flag = "dv_negative" -> d.codec \in {"H264", "H265", "H266", "VP9", "AV1"}
       [] OTHER -> d.codec = "DVHE" /\ twoLayer}
DecoderConfig(d, twoLayer) ==
  [init_width |-> d.picture[2], init_height |-> d.picture[1], ref_buf_margin |-> Margin(d),
   double_write_mode |-> d.dw, triple_write_mode |-> d.tw, flags |-> ConfigFlags(d, twoLayer)]

IsUseVdecCore(d) == d.codec \in {"MJPG", "H264", "MP2V", "MP4V", "AVS"}
NeedDecoderReplaceBufferForDiPost(d) ==
  d.interlaced /\ d.diPost /\ IsUseVdecCore(d) /\ ~NoDisplay(d)

\* checkConfigInfoFromDecoderAndReconfig(INTERLACE)
ReconfigInterlace(d) ==
  IF d.codec = "H265" /\ d.interlaced /\ d.dw = 3
  THEN [d EXCEPT !.dw = IF d.bitDepth = 10 THEN 1 ELSE 16]
  ELSE IF (d.codec = "H264" /\ d.interlaced /\ d.dw = 3) \/ NeedDecoderReplaceBufferForDiPost(d)
  THEN [d EXCEPT !.dw = 16] ELSE d

\* checkConfigInfoFromDecoderAndReconfig(YCBCR_P010_STREAM)
ReconfigP010(d) ==
  IF ~NoDisplay(d) THEN d
  ELSE IF d.hwP010
  THEN [d EXCEPT !.dw = GetDoubleWriteModeValue(d), !.tw = IF d.propertyTw >= 0 THEN d.propertyTw ELSE 0]
  ELSE [d EXCEPT !.dw = 3]

\* onOutputFormatChanged
Reconfigured(d) ==
  LET mode == CheckUseP010Mode(d)
      first == ReconfigInterlace(d)
  IN  IF mode = "none" THEN first ELSE ReconfigP010([first EXCEPT !.p010 = TRUE])

-----------------------------------------------------------------------------
(* The sizes of the output blocks.                                          *)

\* The decoder answers 32 or 64; otherwise 64 is used.
WidthAlign(d) == IF d.widthAlign \in {32, 64} THEN d.widthAlign ELSE 64
RoundedUp(n, unit) == ((n + unit - 1) \div unit) * unit

MustAlign(d) ==
  \/ d.secure /\ d.codec = "H264"
  \/ d.noSurface
  \/ d.codec = "H264" /\ GetDoubleWriteModeValue(d) = 3 /\ d.mmu

GetOutAlignedSize(d, n, align64, forceAlign) ==
  IF MustAlign(d) \/ forceAlign THEN RoundedUp(n, IF align64 THEN 64 ELSE WidthAlign(d)) ELSE n

AlignedSize(d, size) ==
  <<GetOutAlignedSize(d, size[1], FALSE, FALSE), GetOutAlignedSize(d, size[2], TRUE, FALSE)>>
ForcedSize(d, size) ==
  <<GetOutAlignedSize(d, size[1], FALSE, TRUE), GetOutAlignedSize(d, size[2], TRUE, TRUE)>>

IsNeedMaxSizeForAvc(dw) == dw \notin {0, 1, 65537, 16, 65552}

NeedAllocWithMaxSize(d, size) ==
  /\ ~d.realloc
  /\ ~(/\ size[2] \in 1 .. 576 /\ size[1] <= 720 /\ d.instances = 1
       /\ GetDoubleWriteModeValue(d) = 1024)
  /\ ~NoDisplay(d)
  /\ \/ d.codec \in Hevcs \cup {"MP2V", "MP4V"}
     \/ /\ d.codec \in {"H264", "DVAV"} /\ ~d.interlaced
        /\ IsNeedMaxSizeForAvc(GetDoubleWriteModeValue(d))

\* The largest size of the codec.  The size of an MPEG picture above 4k is 0.
MaxSize(d, size) ==
  IF ~d.xml4k THEN <<1920, 1088>>
  ELSE IF d.is8k \/ d.xml8k THEN <<8192, 4352>>
  ELSE IF d.codec \in {"H265", "H264"} /\ d.interlaced THEN <<1920, 1088>>
  ELSE IF d.codec \notin {"MP2V", "MP4V"} THEN <<4096, 2304>>
  ELSE IF Area(size) <= Area(<<1920, 1088>>) THEN <<1920, 1088>>
  ELSE IF Area(size) <= Area(<<4096, 2304>>) THEN <<4096, 2304>> ELSE <<0, 0>>

GetMaxBufWidthAndHeight(d, size) ==
  LET max == MaxSize(d, size)
  IN  IF size[2] > size[1] /\ max[1] > 0 THEN <<max[2], max[1]>> ELSE max

\* The coded size ProvidePictureBuffers announces for a picture of this size.
AnnouncedSize(d, size) ==
  LET picture == IF GetDoubleWriteModeValue(d) = 0 /\ GetTripleWriteModeValue(d) = 0
                 THEN <<64, 64>> ELSE size
  IN  IF NeedAllocWithMaxSize(d, picture) THEN GetMaxBufWidthAndHeight(d, picture) ELSE picture

\* getPlatformUsage: bit 16 of a write mode asks for 10 bit buffers, from then on; and the format
\* getStreamPixelFormat has for the blocks.
Bit16(mode) == (mode \div 65536) % 2 = 1
NeedsTenBit(d, tenBit) == tenBit \/ Bit16(d.dw) \/ Bit16(d.tw)
StreamPixelFormat(d, tenBit, format) == IF d.swP010 /\ (d.p010 \/ tenBit) THEN "YCBCR_P010" ELSE format

\* getFetchGraphicBlockDelayTimeUs, in microseconds, for a whole frame rate: the next fetch comes a
\* frame or a field later, or at once without a rate; after a failed one in 16384 at most.
PerFrame(frameRate, interlaced) ==
  Larger(128, LET frame == (1000 \div frameRate) * 1000 IN IF interlaced THEN frame \div 2 ELSE frame)
FetchDelay(frameRate, interlaced, failed) ==
  IF frameRate = 0 THEN (IF failed THEN 16384 ELSE 0)
  ELSE IF ~failed THEN PerFrame(frameRate, interlaced)
  ELSE IF PerFrame(frameRate, interlaced) < 16384 THEN PerFrame(frameRate, interlaced) ELSE 16384

CheckSupport8kMode(d) == ~(d.is8k /\ NoDisplay(d) /\ ~d.platform8k /\ ~d.codec8k)

-----------------------------------------------------------------------------
(* The numbers of output blocks.                                            *)

\* A change of the height is missed.
WidthChanged(old, new) == old.size[1] # new.size[1]

\* isReallocateOutputBuffer, for the formats before and after.
SizeChanged(old, new) == old.size # new.size
IsReallocateOutputBuffer(d, old, new) ==
  SizeChanged(old, new) \/ (d.noSurface /\ old.min # new.min)

\* How many blocks allocNonTunnelBuffers takes at once; smooth is kDefaultSmoothnessFactor,
\* and count the number of blocks.  The others are fetched by the dequeue thread.
FirstBlocks(d, count, smooth) ==
  LET wanted == IF d.interlaced /\ ~(d.codec = "MP2V" /\ ~d.noSurface) /\ count > smooth
                THEN count - smooth
                ELSE IF d.noSurface THEN count ELSE 2 + smooth
      within == Larger(IF wanted > count THEN count ELSE wanted, (2 * count) \div 3)
  IN  IF LowLatency(d) /\ within > count \div 2 THEN count \div 2 ELSE within

\* The output delay updateOutputDelayBufCount tells the client.
OutputDelay(d, min, smooth) ==
  IF d.noSurface THEN min ELSE IF min > smooth THEN min - smooth ELSE 1

GetDefaultMaxBufNum(codec) ==
  CASE codec = "VP9" -> 14
    [] codec \in {"H265", "H266", "H264", "MP2V", "MP4V"} -> 12
    [] OTHER -> 16

=============================================================================
