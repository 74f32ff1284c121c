---------------------------- MODULE WorkContract ----------------------------
(***************************************************************************)
(* What a Codec2 component promises about works, seen from the client that *)
(* queues them: works are accepted one after another, and a work that was  *)
(* accepted is given back at most once, with an outcome that never changes *)
(* afterwards.  Several works may be given back at once.  A work accepted  *)
(* once is never accepted again.                                           *)
(***************************************************************************)
EXTENDS Integers

CONSTANTS MaxWorks, Outcomes

VARIABLES
  accepted,  \* how many works have been accepted
  outcome    \* how each work was given back, or "none"

vars == <<accepted, outcome>>

Works == 1 .. MaxWorks
Outstanding == {w \in Works : w <= accepted /\ outcome[w] = "none"}

Init == accepted = 0 /\ outcome = [w \in Works |-> "none"]

Accept ==
  /\ accepted < MaxWorks /\ accepted' = accepted + 1
  /\ UNCHANGED outcome

\* Some of the outstanding works are given back; no other outcome changes.
GiveBack ==
  /\ accepted' = accepted
  /\ outcome' \in [Works -> Outcomes \cup {"none"}]
  /\ \A w \in Works : outcome'[w] # outcome[w] => w \in Outstanding

Next == Accept \/ GiveBack

Spec == Init /\ [][Next]_vars
=============================================================================
