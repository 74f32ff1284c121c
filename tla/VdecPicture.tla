------------------------------ MODULE VdecPicture ------------------------------
(***************************************************************************)
(* What the hardware decoder says of a picture besides its pixels: the HDR *)
(* information and colour aspects configured before decoding, those the    *)
(* decoder reports with the stream, the HDR10+ metadata of each picture,   *)
(* and what updateWorkParam puts into the work of a picture.               *)
(*                                                                         *)
(* A description x keeps what DeviceUtil and the component remember of     *)
(* them; x.intf is the interface of VdecParams.  Chromaticities and the    *)
(* least luminance are counted in the unit of the codec, luminances in     *)
(* whole candelas.  Colour aspects keep the number of the bit stream, 0    *)
(* being unspecified.  Left out: failures of query and config, which are   *)
(* logged only.                                                            *)
(***************************************************************************)
EXTENDS VdecParams

-----------------------------------------------------------------------------
(* HDR information.                                                         *)

HdrFields ==
  {"redX", "redY", "greenX", "greenY", "blueX", "blueY", "whiteX", "whiteY", "max", "min",
   "maxCll", "maxFall"}
NoHdr == [f \in HdrFields |-> 0]

\* HDRInfoDataBLEndianInt
Endian(little, n) == IF little THEN n ELSE (n % 256) * 256 + ((n \div 256) % 256)

\* What setHDRStaticInfo gives the decoder, which counts the luminance of AV1 in 1/256.
ForDecoder(codec, hdr, little) ==
  IF codec = "AV1" THEN [hdr EXCEPT !["max"] = 256 * @]
  ELSE [f \in HdrFields |-> Endian(little, hdr[f])]

\* The luminance checkHDRMetadataAndColorAspects reads: H265 counts it in 1/10000 and has
\* steps of 50.
MaxLuminance(codec, n) ==
  CASE codec = "AV1" -> n \div 256
    [] codec = "H265" -> Smaller(50 * ((n + 250000) \div 500000), 10000)
    [] OTHER -> n
FromDecoder(codec, hdr) == [hdr EXCEPT !["max"] = MaxLuminance(codec, @)]

\* isHDRStaticInfoDifferent: red is joined to the old value instead of compared with it, and
\* the old least luminance is compared with the new largest one.
Compared == HdrFields \ {"redX", "redY", "min"}
IsHDRStaticInfoDifferent(old, new) ==
  \/ \E f \in Compared : old[f] # new[f]
  \/ \E f \in {"redX", "redY"} : old[f] # 0 \/ new[f] # 0
  \/ old["min"] # new["max"]

CheckHdrStaticInfoMetaChanged(old, new) == new # NoHdr /\ IsHDRStaticInfoDifferent(old, new)

-----------------------------------------------------------------------------
(* Colour aspects.                                                          *)

\* The signal type: present in bit 29, range in bit 25, then a byte for each of the others.
SignalType(iso) ==
  536870912 + 5 * 67108864 + iso["range"] * 33554432 + 16777216
    + iso["primaries"] * 65536 + iso["transfer"] * 256 + iso["matrix"]
Bits(n, from, size) == (n \div from) % size
Present(signal) == Bits(signal, 536870912, 2) = 1
IsoAspects(signal) ==
  [range |-> Bits(signal, 33554432, 2), primaries |-> Bits(signal, 65536, 256),
   transfer |-> Bits(signal, 256, 256), matrix |-> Bits(signal, 1, 256)]

\* ColorUtils and C2Mapper: 2 is unspecified in the bit stream, a range is always specified.
CodecAspects(iso) ==
  [f \in ColorFields |-> IF f = "range" THEN 2 - iso[f] ELSE IF iso[f] = 2 THEN 0 ELSE iso[f]]
IsoOf(aspects) ==
  [f \in ColorFields |->
     IF f = "range" THEN (IF aspects[f] = 1 THEN 1 ELSE 0) ELSE IF aspects[f] = 0 THEN 2 ELSE aspects[f]]

\* setHDRStaticColorAspects: 9 is BT2020, 16 ST2084, 18 HLG, 10 the constant BT2020.
IsHdrAspects(aspects) ==
  aspects["primaries"] = 9 /\ aspects["transfer"] \in {16, 18} /\ aspects["matrix"] \in {9, 10}

\* getBitDepthByColorAspects
GetBitDepthByColorAspects(flexible, def) ==
  IF ~flexible /\ def["primaries"] = 9 /\ def["matrix"] = 9 /\ def["transfer"] = 16 THEN 10 ELSE 8

-----------------------------------------------------------------------------
(* What is remembered.                                                      *)

Described(i) ==
  [intf |-> i,                   \* the interface, its colour aspects among it
   stored |-> NoHdr,             \* the HDR information of mConfigParam
   signal |-> 0,                 \* mSignalType
   hdr |-> NoHdr,                \* the HDR information configured
   hdrChanged |-> FALSE, colorChanged |-> FALSE, plusChanged |-> FALSE,
   plus |-> <<>>,                \* mHdr10PlusInfo, empty while there is none
   checks |-> FALSE,             \* mHDR10PlusMeteDataNeedCheck
   aspects |-> <<>>, current |-> <<>>,   \* mCurrentColorAspects and mCurrentHdrStaticInfo
   size |-> <<>>, sizeChanged |-> FALSE, crop |-> i.size]

\* setHDRStaticInfo: what the decoder is configured with, the component having kept the
\* aspects of a surface if they are HDR ones; nothing without either.
SetHDRStaticInfo(x, little) ==
  [x EXCEPT !.stored = IF x.hdr # NoHdr THEN ForDecoder(x.intf.codec, x.hdr, little) ELSE @]
HdrSignal(aspects, otherwise) == IF IsHdrAspects(aspects) THEN SignalType(IsoOf(aspects)) ELSE otherwise
ConfiguresHdr(x, aspects) == x.hdr # NoHdr \/ IsHdrAspects(aspects)

\* checkHDRMetadataAndColorAspects, for parameters [present, hdr, signal] of the decoder.
TakesHdr(x, parms) == parms.present /\ CheckHdrStaticInfoMetaChanged(x.stored, parms.hdr)
TakesAspects(x, parms) == parms.signal # x.signal /\ Present(parms.signal)
CheckHDRMetadataAndColorAspects(x, parms) ==
  [x EXCEPT !.stored = IF TakesHdr(x, parms) THEN parms.hdr ELSE @,
            !.hdr = IF TakesHdr(x, parms) THEN FromDecoder(x.intf.codec, parms.hdr) ELSE @,
            !.hdrChanged = @ \/ TakesHdr(x, parms),
            !.signal = parms.signal,
            !.intf.coded = IF TakesAspects(x, parms) THEN CodecAspects(IsoAspects(parms.signal)) ELSE @,
            !.colorChanged = @ \/ TakesAspects(x, parms)]

UpdateDecParmInfo(x, parms) ==
  IF parms.hasHdr THEN CheckHDRMetadataAndColorAspects(x, parms) ELSE x

\* onVisibleRectChanged, which must not run while a format is pending.
OnVisibleRectChanged(x, size) == [x EXCEPT !.crop = size, !.size = size, !.sizeChanged = TRUE]

-----------------------------------------------------------------------------
(* HDR10+: the metadata of a picture is a sequence of records [sound, plus, *)
(* value], sound being FALSE for a wrong head or a record cut off.          *)

\* parseAndProcessMetaData takes the records before the first one that is not sound.
Parsed(records) == {k \in DOMAIN records : \A l \in 1 .. k : records[l].sound}
PlusIn(records) == {k \in Parsed(records) : records[k].plus}

\* A picture without metadata ends the reading, until blocks are allocated again.
ReadsMetaData(x, records) == x.checks /\ records # <<>>
BuffersAllocated(x) == [x EXCEPT !.checks = TRUE]

\* updateHDR10plusToWork, for each record: the last one is kept.
TakesPlus(x, p, records) == ReadsMetaData(x, records) /\ PlusIn(records) # {} /\ p.hdr10Plus
ParseAndProcessMetaData(x, p, records) ==
  [x EXCEPT !.checks = @ /\ records # <<>>,
            !.plusChanged = @ \/ TakesPlus(x, p, records),
            !.plus = IF TakesPlus(x, p, records) THEN <<records[LastOf(PlusIn(records))].value>> ELSE @]

\* What the work is given: the records of the picture, or the last one of an earlier picture.
PlusGiven(x, p, records) ==
  IF ~ReadsMetaData(x, records) THEN {}
  ELSE IF PlusIn(records) = {} THEN {x.plus[k] : k \in DOMAIN x.plus}
  ELSE IF p.hdr10Plus THEN {records[k].value : k \in PlusIn(records)} ELSE {}

\* Without support they are an error, if the property asks for it.
PlusFails(x, p, records, reports) ==
  ReadsMetaData(x, records) /\ PlusIn(records) # {} /\ ~p.hdr10Plus /\ reports

\* updateWorkParam: the buffer of the work, and what is remembered afterwards.
Attached(x, supportsHdr) ==
  [x EXCEPT !.aspects = IF x.colorChanged THEN <<ColorAspects(x.intf)>> ELSE @,
            !.current = IF supportsHdr /\ x.hdrChanged THEN <<x.hdr>> ELSE @]
OutputBuffer(x, supportsHdr) ==
  [crop |-> x.crop, aspects |-> Attached(x, supportsHdr).aspects,
   hdr |-> IF supportsHdr THEN Attached(x, supportsHdr).current ELSE <<>>,
   size |-> IF x.sizeChanged THEN x.size ELSE <<>>]
UpdateWorkParam(x, supportsHdr) ==
  [Attached(x, supportsHdr) EXCEPT !.colorChanged = FALSE, !.sizeChanged = FALSE,
                                   !.hdrChanged = @ /\ ~supportsHdr,
                                   !.plusChanged = @ /\ ~supportsHdr]

-----------------------------------------------------------------------------
(* The display.                                                             *)

\* getVideoType
GetVideoType(d) ==
  {"4K"} \cup IF d.dw \in {0, 3} /\ d.codec \in {"VP9", "H265", "AV1", "H264"} THEN {"AFBC"} ELSE {}

\* updateDisplayInfoToGralloc
UpdatesDisplayInfo(d, isGraphicBuffer) == ~NoDisplay(d) /\ isGraphicBuffer

\* checkDvProfileAndLayer: the decoder a profile needs, and whether it has two layers.
DvCodec(profile) ==
  CASE profile \in {"AV_PER", "AV_PEN", "AV_09"} -> "DVAV"
    [] profile \in {"HE_DER", "HE_DEN", "HE_04", "HE_05", "HE_DTH", "HE_07", "HE_08"} -> "DVHE"
    [] profile = "AV1_10" -> "DVAV1"
    [] OTHER -> "UNKNOWN"
TwoLayers(profile) == profile = "HE_04"
CheckDvProfileAndLayer(i) == UpdateInputCodec(i, DvCodec(i.profile))
=============================================================================
