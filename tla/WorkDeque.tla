----------------------------- MODULE WorkDeque -----------------------------
(***************************************************************************)
(* A deque of works into which works are pushed in the order of their      *)
(* numbers, as the set of these numbers: front() is the least element,     *)
(* back() the greatest.                                                    *)
(***************************************************************************)
EXTENDS Integers

Back(S)  == CHOOSE w \in S : \A v \in S : v <= w
Front(S) == CHOOSE w \in S : \A v \in S : w <= v
=============================================================================
