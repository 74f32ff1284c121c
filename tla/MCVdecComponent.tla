-------------------------- MODULE MCVdecComponent --------------------------
(* Instances of VdecComponent for TLC.                                      *)
EXTENDS VdecComponent, TLC

\* Client threads are interchangeable: Next treats them alike, and no liveness
\* property is checked of the instance that uses this.
CallerSymmetry == Permutations(Callers)
=============================================================================
