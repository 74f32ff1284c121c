--------------------------- MODULE MCGraphicBlocks ---------------------------
(***************************************************************************)
(* The instance of GraphicBlocks for TLC: an interlaced H264 stream, for   *)
(* which the first allocation leaves a block to the dequeue thread, on a   *)
(* platform with 4k.                                                       *)
(***************************************************************************)
EXTENDS GraphicBlocks, VdecReference

None == [data |-> 1, eos |-> 0, drain |-> 0, flush |-> 0, stop |-> 0, bad |-> 0]
Interlaced == [DeviceOf(Uhd, "H264", FALSE) EXCEPT !.interlaced = TRUE]

Format(size, min) == [size |-> size, min |-> min]
Vga == Format(<<640, 480>>, 2)

OnSurface(formats, calls) ==
  [device |-> Interlaced, surface |-> TRUE, texture |-> FALSE, depth |-> 8, formats |-> formats,
   calls |-> calls]
NoSurface(formats, calls) == [OnSurface(formats, calls) EXCEPT !.surface = FALSE]

\* Clients that flush twice, drain and flush, or queue after an EOS, too.
MCStreams ==
  {OnSurface(<<Vga>>, [None EXCEPT !.data = 2, !.flush = 1, !.bad = 1]),
   OnSurface(<<Vga>>, [None EXCEPT !.data = 2, !.flush = 2]),
   OnSurface(<<Vga>>, [None EXCEPT !.data = 2, !.drain = 1, !.flush = 1]),
   OnSurface(<<Vga>>, [None EXCEPT !.data = 0, !.eos = 2]),
   OnSurface(<<Vga>>, [None EXCEPT !.eos = 1, !.flush = 1]),
   OnSurface(<<Vga>>, [None EXCEPT !.eos = 1, !.stop = 1]),
   OnSurface(<<Format(<<640, 256>>, 2), Vga>>, [None EXCEPT !.data = 0, !.eos = 1]),
   OnSurface(<<Format(<<640, 256>>, 2), Vga>>, [None EXCEPT !.flush = 1]),
   OnSurface(<<Vga, Format(<<640, 480>>, 3)>>, [None EXCEPT !.stop = 1]),
   NoSurface(<<Vga>>, [None EXCEPT !.data = 2, !.flush = 1]),
   NoSurface(<<Format(<<640, 480>>, 1), Vga>>, [None EXCEPT !.stop = 1]),
   NoSurface(<<Vga, Vga>>, [None EXCEPT !.bad = 1]),
   [NoSurface(<<Format(<<7680, 4320>>, 2)>>, None) EXCEPT !.device.is8k = TRUE]}
=============================================================================
