------------------------ MODULE MCSoftVdecComponent ------------------------
(* Instances of SoftVdecComponent for TLC.                                  *)
EXTENDS SoftVdecComponent, TLC

\* Client threads are interchangeable: Next treats them alike, and no liveness
\* property is checked of the instance that uses this.
CallerSymmetry == Permutations(Callers)
=============================================================================
