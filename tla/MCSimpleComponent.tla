------------------------- MODULE MCSimpleComponent -------------------------
(***************************************************************************)
(* The instance of SimpleComponent for TLC.  Two entries reach all a       *)
(* decoder does that keeps nothing, and only AAC and FFMPEG tell codec     *)
(* specific data from other works; the AAC decoder, which keeps works      *)
(* until their sound is there, gets three works as well.                   *)
(***************************************************************************)
EXTENDS SimpleComponent

Stream(d, n, kinds, failures) ==
  [decoder |-> d, entries |-> n, kinds |-> kinds, failures |-> failures]

MCStreams ==
  {Stream("aac", 3, {"data", "eos"}, 0), Stream("aac", 2, AllKinds, 1)}
    \cup {Stream(d, 2, {"data", "csd", "eos", "drain"}, 1) : d \in {"ffmpeg", "ffmpegInit"}}
    \cup {Stream(d, 2, {"data", "eos", "drain"}, 1) :
            d \in {"eac3", "dts", "dtsx", "ac4", "image"}}
=============================================================================
