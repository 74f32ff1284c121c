----------------------------- MODULE VencParams -----------------------------
(***************************************************************************)
(* The parameters of the video encoders: what the setters of the           *)
(* interfaces (IntfImpl of C2VencHCodec, C2VencMulti, C2VencW420New and    *)
(* C2VencComp) make of the values a client asks for.  A setter gets the    *)
(* new value and may correct it; the setter of the level depends on size,  *)
(* frame rate and bitrate and runs again when one of them is set.          *)
(*                                                                         *)
(* A level is its place in the table kLimits of its codec, LevelOneB, or a *)
(* level that has no row: HighTier(i) for the one of the same strength in  *)
(* the high tier, NoRow for an AVC level above the table.  Rates of HEVC   *)
(* are in units of 256 samples, in which the table is exact.  Profile,     *)
(* GOP, intra refresh, colours and formats are left out.                   *)
(***************************************************************************)
EXTENDS Integers, Sequences

AllEncoders == {"hcodec", "multiAvc", "multiHevc", "w420", "compAvc", "compHevc"}
IsHevc(e) == e \in {"multiHevc", "w420", "compHevc"}
IsComp(e) == e \in {"compAvc", "compHevc"}

LevelOneB == 0
NoRow == 50
HighTier(i) == 100 + i

Row(perSecond, picture, bitrate) ==
  [perSecond |-> perSecond, picture |-> picture, bitrate |-> bitrate]

\* kLimits of AVC: macroblocks per second and per picture, bits per second.
AvcLimits ==
  << Row(1485, 99, 64000), Row(3000, 396, 192000), Row(6000, 396, 384000),
     Row(11880, 396, 768000), Row(11880, 396, 2000000), Row(19800, 792, 4000000),
     Row(20250, 1620, 4000000), Row(40500, 1620, 10000000), Row(108000, 3600, 14000000),
     Row(216000, 5120, 20000000), Row(245760, 8192, 20000000), Row(245760, 8192, 50000000),
     Row(522240, 8704, 50000000), Row(589824, 22080, 135000000) >>

\* kLimits of HEVC: 256 samples per second, samples per picture, bits per second.
HevcLimits ==
  << Row(2160, 36864, 128000), Row(14400, 122880, 1500000), Row(28800, 245760, 3000000),
     Row(64800, 552960, 6000000), Row(129600, 983040, 10000000), Row(261120, 2228224, 12000000),
     Row(522240, 2228224, 20000000), Row(1044480, 8912896, 25000000),
     Row(2088960, 8912896, 40000000), Row(4177920, 8912896, 60000000),
     Row(4177920, 35651584, 60000000), Row(8355840, 35651584, 120000000),
     Row(16711680, 35651584, 240000000) >>

Limits(e) == IF IsHevc(e) THEN HevcLimits ELSE AvcLimits

RoundedUp(n, unit) == (n + unit - 1) \div unit
Picture(e, p) ==
  IF IsHevc(e) THEN p.width * p.height ELSE RoundedUp(p.width, 16) * RoundedUp(p.height, 16)
PerSecond(e, p) == RoundedUp(Picture(e, p) * p.rate, IF IsHevc(e) THEN 256 ELSE 1)

\* Row i of the table admits the size, the frame rate and the bitrate of p.
Covers(e, p, i) ==
  /\ Picture(e, p) <= Limits(e)[i].picture
  /\ PerSecond(e, p) <= Limits(e)[i].perSecond
  /\ p.bitrate <= Limits(e)[i].bitrate

Covering(e, p) == {i \in DOMAIN Limits(e) : Covers(e, p, i)}
Lowest(e, p) == CHOOSE i \in Covering(e, p) : \A j \in Covering(e, p) : i <= j

\* The level set when no row admits the parameters.
HighestLevel(e) == IF ~IsHevc(e) THEN 14 ELSE IF e = "w420" THEN 6 ELSE 10

\* The loop over kLimits meets the level that was asked for before the lowest row that
\* will do.  A mutant never finds that out.
NeverUpdated(e, p) == FALSE
NeedsUpdate(e, p) ==
  \/ ~IsHevc(e) /\ p.level = LevelOneB
  \/ p.level \in DOMAIN Limits(e) /\ p.level < Lowest(e, p)

\* ProfileLevelSetter: some interfaces always take the lowest row, the others correct a
\* level that is too low.  Only C2VencW420New looks whether it supports the level.
TakesLowest(e, p) == IF Covering(e, p) = {} THEN HighestLevel(e) ELSE Lowest(e, p)
Corrects(e, p) ==
  IF Covering(e, p) = {} THEN HighestLevel(e)
  ELSE IF NeedsUpdate(e, p) THEN Lowest(e, p) ELSE p.level

HCodecLevel(p)    == TakesLowest("hcodec", p)
W420Level(p)      == TakesLowest("w420", p)
MultiAvcLevel(p)  == Corrects("multiAvc", p)
MultiHevcLevel(p) == Corrects("multiHevc", p)
CompAvcLevel(p)   == Corrects("compAvc", p)
CompHevcLevel(p)  == Corrects("compHevc", p)

LevelSetter(e, p) ==
  CASE e = "hcodec"   -> HCodecLevel(p)
    [] e = "w420"     -> W420Level(p)
    [] e = "multiAvc" -> MultiAvcLevel(p)
    [] e = "multiHevc" -> MultiHevcLevel(p)
    [] e = "compAvc"  -> CompAvcLevel(p)
    [] e = "compHevc" -> CompHevcLevel(p)

\* The sizes the interfaces support; of C2VencComp they come from the closed library,
\* here the ones of C2VencMulti.
Steps(low, high, step) == {n \in low .. high : (n - low) % step = 0}
HCodecSizes   == [width |-> Steps(2, 2560, 2), height |-> Steps(2, 2560, 2)]
W420Sizes     == [width |-> Steps(176, 2160, 8), height |-> Steps(144, 2160, 2)]
MultiSizes(e) == [width |-> Steps(176, 3840, IF IsHevc(e) THEN 8 ELSE 2),
                  height |-> Steps(144, 2160, 2)]
CompSizes(e)  == [width |-> Steps(176, 3840, IF IsHevc(e) THEN 8 ELSE 2),
                  height |-> Steps(144, 3840, 2)]

Supported(e) ==
  CASE e = "hcodec" -> HCodecSizes
    [] e = "w420"   -> W420Sizes
    [] e \in {"multiAvc", "multiHevc"} -> MultiSizes(e)
    [] OTHER        -> CompSizes(e)

\* SizeSetter: a width or a height that is not supported keeps its old value, and so
\* does, in C2VencComp, the width of a picture that is too large.
TooLarge(e, width, height) == IsComp(e) /\ width * height > 3840 * 2160
SizeSetter(e, p, width, height) ==
  [p EXCEPT !.width  = IF width \in Supported(e).width /\ ~TooLarge(e, width, height)
                       THEN width ELSE @,
            !.height = IF height \in Supported(e).height THEN height ELSE @]

\* BitrateSetter: a bitrate has a minimum.  A mutant forgets it.
MinBitrate(e) == IF IsComp(e) THEN 10000 ELSE 4096
BitrateAsGiven(e, p, bitrate) == [p EXCEPT !.bitrate = bitrate]
BitrateSetter(e, p, bitrate) ==
  [p EXCEPT !.bitrate = IF bitrate <= MinBitrate(e) THEN MinBitrate(e) ELSE bitrate]

-----------------------------------------------------------------------------
(* Quantization: a sequence of layers, each for a type of picture.          *)

Clamp(n, low, high) == IF n < low THEN low ELSE IF n > high THEN high ELSE n
CodecQpMin == 4
CodecQpMax == 51
ClampQp(n) == Clamp(n, CodecQpMin, CodecQpMax)

\* The range for a type of picture: the last layer of that type counts.
QpRange(layers, type, default) ==
  LET of == {i \in DOMAIN layers : layers[i].type = type}
  IN  IF of = {} THEN default ELSE layers[CHOOSE i \in of : \A j \in of : j <= i]

\* PictureQuantizationSetter: every layer gets the clamped range of its type.  A mutant
\* puts back what it got.
QpAsGiven(layers) == layers
PictureQuantizationSetter(layers) ==
  [i \in DOMAIN layers |->
     LET range == QpRange(layers, layers[i].type, layers[i])
     IN  [layers[i] EXCEPT !.min = ClampQp(range.min), !.max = ClampQp(range.max)]]

\* getQp: what Init tells the library about I and P pictures.
DefaultQp == [min |-> 10, max |-> 40]
GetQp(layers, type) ==
  LET range == QpRange(layers, type, DefaultQp) IN [min |-> range.min, max |-> range.max]

-----------------------------------------------------------------------------
(* What a client sets, and the parameters of a new component.               *)

Defaults(width, height, level) ==
  [width |-> width, height |-> height, rate |-> 1, bitrate |-> 64000, level |-> level,
   qp |-> <<>>]

HCodecDefaults   == Defaults(16, 16, 12)
W420Defaults     == Defaults(176, 144, 6)
MultiDefaults(e) == Defaults(176, 144, IF IsHevc(e) THEN HighTier(9) ELSE 12)
CompDefaults(e)  == Defaults(176, 144, IF IsHevc(e) THEN 6 ELSE 12)

DefaultParams(e) ==
  CASE e = "hcodec" -> HCodecDefaults
    [] e = "w420"   -> W420Defaults
    [] e \in {"multiAvc", "multiHevc"} -> MultiDefaults(e)
    [] OTHER        -> CompDefaults(e)

WithLevel(e, p) == [p EXCEPT !.level = LevelSetter(e, p)]

SetSize(e, p, width, height) == WithLevel(e, SizeSetter(e, p, width, height))
SetRate(e, p, rate) == WithLevel(e, [p EXCEPT !.rate = rate])
SetBitrate(e, p, bitrate) == WithLevel(e, BitrateSetter(e, p, bitrate))
\* Only the setter of C2VencW420New looks whether the level is one it supports.
SetLevel(e, p, level) ==
  WithLevel(e, [p EXCEPT !.level =
                  IF e = "w420" /\ level \notin DOMAIN HevcLimits THEN 6 ELSE level])
SetQp(p, layers) == [p EXCEPT !.qp = PictureQuantizationSetter(layers)]
=============================================================================
