-------------------------- MODULE MCVencComponent --------------------------
(***************************************************************************)
(* The instance of VencComponent for TLC: one client that queues and stops *)
(* with every kind of work and a failure, one that flushes in between, and *)
(* two at once; each encoder with a client that sets parameters, one while *)
(* it encodes.                                                             *)
(***************************************************************************)
EXTENDS VencComponent

CONSTANTS c1, c2

WithWorks(threads, entries, kinds, starts, failures, requests) ==
  [encoder |-> "hcodec", threads |-> threads, entries |-> entries, kinds |-> kinds,
   starts |-> starts, failures |-> failures, requests |-> requests, settings |-> 0]

Parameters(e) ==
  [encoder |-> e, threads |-> {c1}, entries |-> 0, kinds |-> {}, starts |-> 1,
   failures |-> 0, requests |-> 0, settings |-> 2]

MCStreams ==
  {WithWorks({c1}, 3, {"data", "eos"}, 1, 0, 0), WithWorks({c1}, 2, AllKinds, 2, 1, 0),
   WithWorks({c1}, 2, {"data", "sync"}, 1, 0, 2),
   WithWorks({c1, c2}, 2, {"data"}, 1, 0, 0), WithWorks({c1, c2}, 0, {}, 2, 1, 0),
   [Parameters("w420") EXCEPT !.entries = 1, !.kinds = {"data"}, !.settings = 1]}
    \cup {Parameters(e) : e \in AllEncoders}
=============================================================================
