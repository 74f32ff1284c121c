----------------------------- MODULE VdecInstances -----------------------------
(***************************************************************************)
(* The limits on hardware video decoders: C2VdecComponent::create reads    *)
(* the counters of the process one at a time under a mutex, while the      *)
(* threads of other components count themselves out without it, and a      *)
(* client counts its component as one of the largest resolution.           *)
(*                                                                         *)
(* Every component is asked for once.  One whose interface or thread fails *)
(* in the constructor is never counted out.  A limit below 0 is none.      *)
(***************************************************************************)
EXTENDS Integers, FiniteSets

CONSTANTS Components,    \* the decoders asked for
          Secure,        \* those of them with .secure in their name
          Vc1,           \* those with .vc1, which have no secure one
          MaxInstances, MaxSecure, MaxHighRes    \* the limits

VARIABLES sConcurrentInstances, sConcurrentInstanceSecures, sConcurrentVc1Instance,
          sConcurrentMaxResolutionInstance,
          phase,             \* phase[c]: where create, or the life of c, has got to
          mIsMaxResolution,  \* the components counted as of the largest resolution
          loaded             \* what create has loaded of sConcurrentInstances

vars == <<sConcurrentInstances, sConcurrentInstanceSecures, sConcurrentVc1Instance,
          sConcurrentMaxResolutionInstance, phase, mIsMaxResolution, loaded>>
counters == <<sConcurrentInstances, sConcurrentInstanceSecures, sConcurrentVc1Instance,
              sConcurrentMaxResolutionInstance>>

\* The phases in which create holds its mutex.
Creating == {"secures", "plain", "both", "vc1", "plainAgain", "bothAgain", "highRes", "count", "countVc1"}
Phases == Creating \cup {"none", "refused", "alive", "failed", "leave", "leaveHighRes", "leaveVc1", "gone"}

At(c, p, q) == phase[c] = p /\ phase' = [phase EXCEPT ![c] = q]
Check(c, p, refuses, q) == At(c, p, IF refuses THEN "refused" ELSE q)

Init ==
  /\ sConcurrentInstances = 0 /\ sConcurrentInstanceSecures = 0
  /\ sConcurrentVc1Instance = 0 /\ sConcurrentMaxResolutionInstance = 0
  /\ phase = [c \in Components |-> "none"]
  /\ mIsMaxResolution = {} /\ loaded = 0

-----------------------------------------------------------------------------
(* create                                                                   *)

Lock(c) ==
  /\ \A d \in Components : phase[d] \notin Creating
  /\ At(c, "none", IF c \in Secure THEN "secures" ELSE "plain")
  /\ UNCHANGED <<counters, mIsMaxResolution, loaded>>

CheckSecures(c) ==
  /\ Check(c, "secures", MaxSecure >= 0 /\ sConcurrentInstanceSecures >= MaxSecure, "plain")
  /\ UNCHANGED <<counters, mIsMaxResolution, loaded>>

LoadPlain(c) ==
  /\ At(c, "plain", "both") \/ At(c, "plainAgain", "bothAgain")
  /\ loaded' = sConcurrentInstances
  /\ UNCHANGED <<counters, mIsMaxResolution>>

\* For a secure decoder it is the other limit that decides whether there is one.
Limited(c) == IF c \in Secure THEN MaxSecure >= 0 ELSE MaxInstances >= 0
CheckBoth(c) ==
  /\ Check(c, "both", Limited(c) /\ loaded + sConcurrentInstanceSecures >= MaxInstances,
           IF c \in Secure THEN "highRes" ELSE "vc1")
  /\ UNCHANGED <<counters, mIsMaxResolution, loaded>>

CheckVc1(c) ==
  /\ Check(c, "vc1", sConcurrentVc1Instance > 0, "plainAgain")
  /\ UNCHANGED <<counters, mIsMaxResolution, loaded>>

CheckAlone(c) ==
  /\ Check(c, "bothAgain", loaded + sConcurrentInstanceSecures > 0 /\ c \in Vc1, "highRes")
  /\ UNCHANGED <<counters, mIsMaxResolution, loaded>>

CheckHighRes(c) ==
  /\ Check(c, "highRes", MaxHighRes >= 0 /\ sConcurrentMaxResolutionInstance >= MaxHighRes, "count")
  /\ UNCHANGED <<counters, mIsMaxResolution, loaded>>

\* The constructor.
Count(c) ==
  /\ At(c, "count", "countVc1")
  /\ sConcurrentInstanceSecures' = sConcurrentInstanceSecures + (IF c \in Secure THEN 1 ELSE 0)
  /\ sConcurrentInstances' = sConcurrentInstances + (IF c \in Secure THEN 0 ELSE 1)
  /\ UNCHANGED <<sConcurrentVc1Instance, sConcurrentMaxResolutionInstance, mIsMaxResolution, loaded>>

CountVc1(c) ==
  /\ At(c, "countVc1", "alive") \/ At(c, "countVc1", "failed")
  /\ sConcurrentVc1Instance' = sConcurrentVc1Instance + (IF c \in Vc1 THEN 1 ELSE 0)
  /\ UNCHANGED <<sConcurrentInstances, sConcurrentInstanceSecures, sConcurrentMaxResolutionInstance,
                 mIsMaxResolution, loaded>>

Create(c) ==
  \/ Lock(c) \/ CheckSecures(c) \/ LoadPlain(c) \/ CheckBoth(c) \/ CheckVc1(c) \/ CheckAlone(c)
  \/ CheckHighRes(c) \/ Count(c) \/ CountVc1(c)

-----------------------------------------------------------------------------
(* The life of a component                                                  *)

\* onStreamPictureSizeConfigParam, for a size that is the largest of the codec.
ConfigSize(c) ==
  /\ phase[c] = "alive" /\ c \notin mIsMaxResolution
  /\ mIsMaxResolution' = mIsMaxResolution \cup {c}
  /\ sConcurrentMaxResolutionInstance' = sConcurrentMaxResolutionInstance + 1
  /\ UNCHANGED <<sConcurrentInstances, sConcurrentInstanceSecures, sConcurrentVc1Instance, phase, loaded>>

\* The destructor: onDestroy destroys the decoder before it counts.
Destroy(c) ==
  /\ At(c, "alive", "leave")
  /\ UNCHANGED <<counters, mIsMaxResolution, loaded>>

Leave(c) ==
  /\ At(c, "leave", "leaveHighRes")
  /\ sConcurrentInstanceSecures' = sConcurrentInstanceSecures - (IF c \in Secure THEN 1 ELSE 0)
  /\ sConcurrentInstances' = sConcurrentInstances - (IF c \in Secure THEN 0 ELSE 1)
  /\ UNCHANGED <<sConcurrentVc1Instance, sConcurrentMaxResolutionInstance, mIsMaxResolution, loaded>>

LeaveHighRes(c) ==
  /\ At(c, "leaveHighRes", "leaveVc1")
  /\ sConcurrentMaxResolutionInstance' =
       sConcurrentMaxResolutionInstance - (IF c \in mIsMaxResolution THEN 1 ELSE 0)
  /\ mIsMaxResolution' = mIsMaxResolution \ {c}
  /\ UNCHANGED <<sConcurrentInstances, sConcurrentInstanceSecures, sConcurrentVc1Instance, loaded>>

\* The codec of the interface is VC1 for the components named so.
LeaveVc1(c) ==
  /\ At(c, "leaveVc1", "gone")
  /\ sConcurrentVc1Instance' = sConcurrentVc1Instance - (IF c \in Vc1 THEN 1 ELSE 0)
  /\ UNCHANGED <<sConcurrentInstances, sConcurrentInstanceSecures, sConcurrentMaxResolutionInstance,
                 mIsMaxResolution, loaded>>

Next ==
  \E c \in Components :
    Create(c) \/ ConfigSize(c) \/ Destroy(c) \/ Leave(c) \/ LeaveHighRes(c) \/ LeaveVc1(c)

Spec == Init /\ [][Next]_vars

-----------------------------------------------------------------------------
(* Properties                                                               *)

\* The components counted, and those whose decoder exists or may come into existence.
Counted == {c \in Components : phase[c] \in {"countVc1", "alive", "failed", "leave"}}
CountedVc1 ==
  {c \in Vc1 : phase[c] \in {"alive", "failed", "leave", "leaveHighRes", "leaveVc1"}}

TypeOK ==
  /\ sConcurrentInstances \in Nat /\ sConcurrentInstanceSecures \in Nat
  /\ sConcurrentVc1Instance \in Nat /\ sConcurrentMaxResolutionInstance \in Nat
  /\ phase \in [Components -> Phases]
  /\ mIsMaxResolution \in SUBSET Components /\ loaded \in Nat

\* The counters are what they count: no component is counted twice or counted out twice.
CountersRight ==
  /\ sConcurrentInstances = Cardinality(Counted \ Secure)
  /\ sConcurrentInstanceSecures = Cardinality(Counted \cap Secure)
  /\ sConcurrentVc1Instance = Cardinality(CountedVc1)
  /\ sConcurrentMaxResolutionInstance = Cardinality(mIsMaxResolution)

\* There are never more decoders than the limits allow, although create loads the counters one
\* at a time and other threads change them meanwhile.
WithinLimits ==
  /\ MaxSecure >= 0 => Cardinality(Counted \cap Secure) <= MaxSecure
  /\ MaxSecure >= 0 /\ MaxInstances >= 0 => Cardinality(Counted) <= MaxInstances

\* A VC1 decoder never exists together with another one that is not secure: the hardware has
\* a single mode for it.
Vc1Alone ==
  \A c \in Counted \cap Vc1, d \in Counted \ Secure : c = d
=============================================================================
