------------------------------ MODULE VdecParams ------------------------------
(***************************************************************************)
(* The parameters of the hardware video decoder: what a codec can do on a  *)
(* platform (C2VdecCodecConfig), the parameters the interface of a decoder *)
(* declares, and what becomes of them when a client configures some        *)
(* (IntfImpl::config).                                                     *)
(*                                                                         *)
(* A platform p is what the build, the system properties and the codec     *)
(* list in media_codecs.xml say; p.xml has the attributes of each codec    *)
(* the store took from that list, p.features the names the driver lists.   *)
(* An interface i is a record of its parameters.  A level is its name      *)
(* without LEVEL_ and the codec, a frame rate a whole number.  Left out:   *)
(* constants and parameters that are only passed on.                       *)
(***************************************************************************)
EXTENDS Integers, Sequences, FiniteSets, VdecDevice

Smaller(a, b) == IF a < b THEN a ELSE b

\* The settings of a platform where no property is set and no codec is listed.
Platform ==
  [built |-> {},              \* the codecs of Optional that are compiled in
   features |-> {}, xml |-> <<>>,
   support4k |-> TRUE, support8k |-> FALSE, display8k |-> FALSE, fps4k |-> 61, fps4kAvc |-> 31,
   soft10bit |-> TRUE, hard10bit |-> FALSE, halP010 |-> TRUE, hdr10Plus |-> TRUE,
   inputMax |-> 8388608, padding |-> -1, inputDelay |-> 4, outputDelay |-> 3]

-----------------------------------------------------------------------------
(* What a codec can do.                                                     *)

Optional == {"AVS", "AVS2", "AVS3", "H266"}

\* adaptorInputCodecToVendorCodec
VendorCodec(p, codec) ==
  IF codec \in Codecs \ Optional \/ codec \in p.built THEN codec ELSE "UNKNOWN"

HasXml(p, codec, secure) == <<VendorCodec(p, codec), secure>> \in DOMAIN p.xml
Xml(p, codec, secure) == p.xml[<<VendorCodec(p, codec), secure>>]

\* codecSupport, with both sources: without a list of the driver every codec passes.
CodecSupport(p, codec, secure, listed) ==
  /\ p.features = {} \/ VendorCodec(p, codec) \in p.features
  /\ <<VendorCodec(p, codec), secure>> \in listed

IsCodecSupportPictureSize(p, codec, secure, area) ==
  HasXml(p, codec, secure)
    /\ area <= Xml(p, codec, secure).blocks * Area(Xml(p, codec, secure).blockSize)

IsXMLSupport4k(p, codec, secure) == IsCodecSupportPictureSize(p, codec, secure, 3840 * 2160)
IsCodecSupport4k(p, codec, secure) == p.support4k \/ IsXMLSupport4k(p, codec, secure)

IsXMLSupport8k(p, codec, secure) ==
  HasXml(p, codec, secure) /\ Area(Xml(p, codec, secure).maxSize) >= 7680 * 4320
IsCodecSupport8k(p, codec, secure) ==
  \/ p.support8k
  \/ IsCodecSupportPictureSize(p, codec, secure, 7680 * 4320)
  \/ IsXMLSupport8k(p, codec, secure)

\* Only a rate at 4k is ever refused.  The rates of the list are blocks a second.
WithinRate(x, rate, times) == rate * x.blocks <= times * x.perSecond
IsCodecSupportFrameRate(p, codec, secure, size, rate) ==
  /\ HasXml(p, codec, secure)
  /\ Area(size) \in 3840 * 2160 .. 4096 * 2304 /\ p.support4k =>
       LET x == Xml(p, codec, secure)
       IN  IF Area(x.maxSize) >= 7680 * 4320 THEN rate <= p.fps4k /\ WithinRate(x, rate, 4)
           ELSE \/ rate <= IF codec \in {"H264", "DVAV"} THEN p.fps4kAvc ELSE p.fps4k
                \/ WithinRate(x, rate, 1)

IsMaxResolution(p, codec, secure, size) ==
  /\ HasXml(p, codec, secure)
  /\ Area(size) >= IF IsCodecSupport8k(p, codec, secure) THEN 7680 * 4320
                   ELSE IF IsCodecSupport4k(p, codec, secure) THEN 3840 * 2160 ELSE 1920 * 1080

IsCodecSupportResolutionRatio(p, codec, secure, area) ==
  \/ IsCodecSupportPictureSize(p, codec, secure, area)
  \/ /\ area <= 1920 * 1088 \/ p.support4k
     /\ area <= 4096 * 2304 \/ IsCodecSupport8k(p, codec, secure)

\* What DeviceUtil takes from the platform for the decoder of this codec.
DeviceOf(p, codec, secure) ==
  [Device EXCEPT !.codec = codec, !.secure = secure, !.hwP010 = p.hard10bit, !.swP010 = p.soft10bit,
                 !.display8k = p.display8k, !.platform8k = p.support8k,
                 !.codec8k = IsCodecSupport8k(p, codec, secure),
                 !.codec4k = IsCodecSupport4k(p, codec, secure),
                 !.xml4k = IsXMLSupport4k(p, codec, secure),
                 !.xml8k = IsXMLSupport8k(p, codec, secure)]

-----------------------------------------------------------------------------
(* The profiles and levels an interface declares.                           *)

\* 1 for full HD, 2 for 4k, 3 for 8k.
Tier(p, codec, secure) ==
  IF ~IsCodecSupport4k(p, codec, secure) THEN 1
  ELSE IF ~IsCodecSupport8k(p, codec, secure) THEN 2 ELSE 3
From(tier, n, levels) == IF tier >= n THEN levels ELSE {}

AvcLevels(tier) ==
  {"1", "1B", "1.1", "1.2", "1.3", "2", "2.1", "2.2", "3", "3.1", "3.2", "4", "4.1", "4.2"}
    \cup From(tier, 2, {"5", "5.1"})

\* The high tier alone has the levels of 8k.
HevcLevels(tier) ==
  {"MAIN_1", "MAIN_2", "MAIN_2.1", "MAIN_3", "MAIN_3.1", "MAIN_4", "MAIN_4.1", "HIGH_4", "HIGH_4.1"}
    \cup From(tier, 2, {"MAIN_5", "MAIN_5.1", "HIGH_5", "HIGH_5.1"})
    \cup From(tier, 3, {"HIGH_6", "HIGH_6.1"})

Vp9Levels(tier) ==
  {"1", "1.1", "2", "2.1", "3", "3.1", "4", "4.1"}
    \cup From(tier, 2, {"5", "5.1"}) \cup From(tier, 3, {"6", "6.1"})

Av1Levels(tier) ==
  {"2", "2.1", "2.2", "2.3", "3", "3.1", "3.2", "3.3", "4", "4.1"}
    \cup From(tier, 2, {"4.2", "4.3", "5", "5.1"}) \cup From(tier, 3, {"6", "6.1"})

\* Dolby Vision: the decoder of AVC streams never has the levels of 4k.
DvLevels(tier) ==
  {"MAIN", "HIGH"} \X ({"HD_24", "HD_30", "FHD_24", "FHD_30", "FHD_60"}
                         \cup From(tier, 2, {"UHD_24", "UHD_30", "UHD_48", "UHD_60"}))
DvheLevels(tier) == DvLevels(tier)
DvavLevels == DvLevels(1)
Dvav1Levels(tier) == DvLevels(tier)

Mp2vLevels == {"LOW", "MAIN", "HIGH_1440", "HIGH", "HIGHP"}
Mp4vLevels == {"0", "0B", "1", "2", "3", "3B", "4", "4A", "5"}

\* The levels declared and the one an interface starts with; the codecs without levels have
\* UNUSED.
Levels(codec, tier) ==
  CASE codec = "H264" -> AvcLevels(tier)
    [] codec = "H265" -> HevcLevels(tier)
    [] codec = "VP9" -> Vp9Levels(tier)
    [] codec = "AV1" -> Av1Levels(tier)
    [] codec = "DVHE" -> DvheLevels(tier)
    [] codec = "DVAV" -> DvavLevels
    [] codec = "DVAV1" -> Dvav1Levels(tier)
    [] codec = "MP2V" -> Mp2vLevels
    [] codec = "MP4V" -> Mp4vLevels
    [] OTHER -> {"UNUSED"}

DefaultLevel(codec, tier) ==
  CASE codec = "H264" -> <<"4.2", "5.1", "5.1">>[tier]
    [] codec = "H265" -> <<"HIGH_4.1", "HIGH_5.1", "HIGH_6.1">>[tier]
    [] codec \in {"VP9", "AV1"} -> <<"4.1", "5.1", "6.1">>[tier]
    [] codec \in {"DVHE", "DVAV1"} -> <<"MAIN", IF tier = 1 THEN "FHD_60" ELSE "UHD_60">>
    [] codec = "DVAV" -> <<"MAIN", "FHD_60">>
    [] codec = "MP2V" -> "HIGH"
    [] codec = "MP4V" -> "5"
    [] OTHER -> "UNUSED"

\* The profiles declared, the first of them being the default.
Profiles(codec) ==
  CASE codec = "H264" -> <<"MAIN", "BASELINE", "CONSTRAINED_BASELINE", "HIGH", "CONSTRAINED_HIGH">>
    [] codec = "H265" -> <<"MAIN", "MAIN_10", "MAIN_STILL", "MAIN_422_10">>
    [] codec = "VP9" -> <<"0", "2", "3">>
    [] codec = "AV1" -> <<"0", "1", "2">>
    [] codec = "DVHE" -> <<"HE_05", "HE_04", "HE_08">>
    [] codec = "DVAV" -> <<"AV_09">>
    [] codec = "DVAV1" -> <<"AV1_10">>
    [] codec = "MP2V" -> <<"HIGH", "SIMPLE", "MAIN", "SNR_SCALABLE", "SPATIALLY_SCALABLE">>
    [] codec = "MP4V" -> <<"ARTS", "SIMPLE", "SIMPLE_SCALABLE", "MAIN", "NBIT">>
    [] OTHER -> <<"UNUSED">>

-----------------------------------------------------------------------------
(* The other parameters.                                                    *)

Mega == 1048576
MaxInputBufferSize == 8 * Mega

\* The padding is a static variable of the process: that of the interface made last.
PaddingSize(p, lastSecure) == IF p.padding >= 0 THEN p.padding ELSE IF lastSecure THEN 0 ELSE 262144

\* MaxSizeCalculator, for the value asked for, or the current one when the size is set.
Wanted(value, padding) ==
  IF value = 0 THEN Mega
  ELSE IF padding = 0 /\ value < 2 * Mega THEN 2 * Mega ELSE value + padding
MaxSizeCalculator(value, size, max, padding) ==
  LET capped == Smaller(Wanted(value, padding), max)
  IN  IF value > MaxInputBufferSize THEN value
      ELSE IF Area(size) <= 1920 * 1088 \/ capped >= max THEN capped
      ELSE IF Area(size) <= 2048 * 1024 THEN 3 * Mega ELSE max

\* The delays: the limit is 4 for secure and for other streams.
InputDelay(p) == Smaller(p.inputDelay, 4)

PixelFormats(p) ==
  IF ~p.soft10bit /\ ~p.hard10bit THEN {}
  ELSE {"YCBCR_420_888", "IMPLEMENTATION_DEFINED"} \cup IF p.halP010 THEN {"YCBCR_P010"} ELSE {}

\* Colour aspects are functions from these fields to numbers, 0 for unspecified.
ColorFields == {"range", "primaries", "transfer", "matrix"}
Unspecified == [f \in ColorFields |-> 0]
Other == 255
DefaultColorAspects(def) == [f \in ColorFields |-> Smaller(def[f], Other)]
MergedColorAspects(def, coded) ==
  [f \in ColorFields |-> IF coded[f] = 0 THEN def[f] ELSE coded[f]]

\* The constructor: BAD_VALUE for a codec that is not in the list, whose size is not known.
NewInterface(p, codec, secure) ==
  LET tier == Tier(p, codec, secure)
  IN  [codec |-> codec, secure |-> secure,
       status |-> IF codec \in Codecs /\ HasXml(p, codec, secure) THEN "OK" ELSE "BAD_VALUE",
       is4k |-> IsCodecSupport4k(p, codec, secure),
       profile |-> Profiles(codec)[1], level |-> DefaultLevel(codec, tier),
       size |-> <<176, 144>>, frameRate |-> 30, maxInputSize |-> Mega, isMaxResolution |-> FALSE,
       inputDelay |-> InputDelay(p), outputDelay |-> p.outputDelay, pipelineDelay |-> 0,
       allocator |-> "surface", def |-> Unspecified, coded |-> Unspecified]

ColorAspects(i) == MergedColorAspects(i.def, i.coded)

-----------------------------------------------------------------------------
(* Configuration.  A request is a sequence of [kind, value].                *)

Requests(request, kind) == {k \in DOMAIN request : request[k].kind = kind}
LastOf(indexes) == CHOOSE k \in indexes : \A l \in indexes : l <= k
Asked(request, kind, otherwise) ==
  IF Requests(request, kind) = {} THEN otherwise ELSE request[LastOf(Requests(request, kind))].value

\* C2InterfaceHelper::config sets every parameter first; the size of the input buffer is
\* calculated again when it or the picture size is set.
AllSet(p, i, request, padding) ==
  LET size == Asked(request, "size", i.size)
      again == Requests(request, "size") \cup Requests(request, "maxInputSize") # {}
      value == Asked(request, "maxInputSize", i.maxInputSize)
  IN  [i EXCEPT !.size = size, !.frameRate = Asked(request, "frameRate", @),
                !.inputDelay = Smaller(Asked(request, "inputDelay", @), 4),
                !.maxInputSize = IF again THEN MaxSizeCalculator(value, size, p.inputMax, padding) ELSE @]

\* Whether the handler of a kind is content with what was set.
Accepts(p, i, kind) ==
  CASE kind = "size" -> IsCodecSupportResolutionRatio(p, i.codec, i.secure, Area(i.size))
    [] kind = "frameRate" -> IsCodecSupportFrameRate(p, i.codec, i.secure, i.size, i.frameRate)
    [] OTHER -> TRUE

\* The handlers that run: those up to the first that is not content.
Failing(p, i, request) == {k \in DOMAIN request : ~Accepts(p, i, request[k].kind)}
Reached(p, i, request) == {k \in DOMAIN request : \A f \in Failing(p, i, request) : k <= f}

\* onStreamMaxBufferSizeInfo, for a decoder without 4k.
TooLarge(p, i) == ~i.is4k /\ i.maxInputSize > p.inputMax

\* The handlers change parameters behind the helper's back, the last one winning.
InputDelayAfter(p, i, request, reached) ==
  LET changing == {k \in reached : \/ request[k].kind = "streamInputDelay"
                                   \/ request[k].kind = "maxInputSize" /\ TooLarge(p, i)}
      last == request[LastOf(changing)]
  IN  IF changing = {} THEN i.inputDelay
      ELSE IF last.kind = "maxInputSize" THEN 0 ELSE last.value

Handled(p, i, request) ==
  LET reached == Reached(p, i, request)
      runs(kind) == Requests(request, kind) \cap reached # {}
  IN  [i EXCEPT
         !.inputDelay = InputDelayAfter(p, i, request, reached),
         !.maxInputSize = IF runs("maxInputSize") /\ TooLarge(p, i) THEN p.inputMax ELSE @,
         !.pipelineDelay = IF runs("streamPipelineDelay") THEN Asked(request, "streamPipelineDelay", @) ELSE @,
         !.isMaxResolution = @ \/ (runs("size") /\ IsMaxResolution(p, i.codec, i.secure, i.size)),
         !.allocator = IF runs("tunnel") THEN "GRALLOC" ELSE @,
         !.outputDelay = IF runs("tunnel") THEN 10 ELSE @]

Config(p, i, request, padding) == Handled(p, AllSet(p, i, request, padding), request)
ConfigStatus(p, i, request, padding) ==
  IF Failing(p, AllSet(p, i, request, padding), request) = {} THEN "OK" ELSE "BAD_VALUE"

\* updateInputCodec: the profile of a Dolby Vision stream says which decoder it needs.
UpdateInputCodec(i, codec) ==
  IF codec \in {"DVHE", "DVAV", "DVAV1"} THEN [i EXCEPT !.codec = codec] ELSE i
=============================================================================
