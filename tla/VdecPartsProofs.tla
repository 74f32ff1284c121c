--------------------------- MODULE VdecPartsProofs ---------------------------
(***************************************************************************)
(* What the parts beside the hardware decoder's component promise it.      *)
(*                                                                         *)
(* The limits on decoders hold, whatever they are and however many are     *)
(* asked for.  What makes it so is that the only thread that counts a      *)
(* component in is the one holding the mutex of create: what it has loaded *)
(* may be out of date, but is never less than what is true (Loaded), so    *)
(* the room it has found is still there when it counts (Room, Alone).      *)
(*                                                                         *)
(* The pure functions guarantee, for every input, the sizes and numbers of *)
(* blocks, the levels and buffer sizes the interface declares, and what is *)
(* remembered of colours and HDR information.  VdecReference checks the    *)
(* same and more over bounded inputs.                                      *)
(***************************************************************************)
EXTENDS VdecInstances, VdecPicture, TLAPS, FiniteSetTheorems

-----------------------------------------------------------------------------
(* The limits on decoders.                                                  *)

\* What the constants are.
WellFormed ==
  /\ IsFiniteSet(Components) /\ Secure \subseteq Components /\ Vc1 \subseteq Components \ Secure
  /\ MaxInstances \in Int /\ MaxSecure \in Int /\ MaxHighRes \in Int

OneCreator ==
  \A c, d \in Components : phase[c] \in Creating /\ phase[d] \in Creating => c = d

Ways ==
  \A c \in Components :
    /\ phase[c] = "secures" => c \in Secure
    /\ phase[c] \in {"vc1", "plainAgain", "bothAgain"} => c \notin Secure

HighResOnes ==
  \A c \in mIsMaxResolution : phase[c] \in {"alive", "leave", "leaveHighRes"}

Loaded ==
  \A c \in Components : phase[c] \in {"both", "bothAgain"} => loaded >= sConcurrentInstances

Room ==
  \A c \in Components :
    /\ phase[c] \in {"plain", "both", "highRes", "count"} /\ c \in Secure /\ MaxSecure >= 0
         => sConcurrentInstanceSecures < MaxSecure
    /\ phase[c] \in {"vc1", "plainAgain", "bothAgain", "highRes", "count"} /\ Limited(c)
         => sConcurrentInstances + sConcurrentInstanceSecures < MaxInstances

Alone ==
  \A c \in Components \ Secure :
    /\ phase[c] \in {"plainAgain", "bothAgain", "highRes", "count"} => CountedVc1 = {}
    /\ phase[c] \in {"highRes", "count"} /\ c \in Vc1 => Counted \ Secure = {}

IInv ==
  TypeOK /\ CountersRight /\ WithinLimits /\ Vc1Alone
    /\ OneCreator /\ Ways /\ HighResOnes /\ Loaded /\ Room /\ Alone

-----------------------------------------------------------------------------
(* The components counted.                                                  *)

In == {"countVc1", "alive", "failed", "leave"}
InVc1 == {"alive", "failed", "leave", "leaveHighRes", "leaveVc1"}

\* A step of one component moves that component only.
LEMMA Moved ==
  ASSUME WellFormed, TypeOK, NEW c \in Components, NEW q \in Phases,
         phase' = [phase EXCEPT ![c] = q]
  PROVE  /\ Counted' = IF q \in In THEN Counted \cup {c} ELSE Counted \ {c}
         /\ CountedVc1' = IF q \in InVc1 /\ c \in Vc1 THEN CountedVc1 \cup {c} ELSE CountedVc1 \ {c}
         /\ c \in Counted <=> phase[c] \in In
         /\ c \in CountedVc1 <=> c \in Vc1 /\ phase[c] \in InVc1
         /\ phase' \in [Components -> Phases]
         /\ phase'[c] = q /\ \A d \in Components \ {c} : phase'[d] = phase[d]
BY DEF WellFormed, TypeOK, Counted, CountedVc1, In, InVc1

\* The sets the counters count are finite.
LEMMA Finite ==
  ASSUME WellFormed, TypeOK
  PROVE  /\ Counted \subseteq Components /\ CountedVc1 \subseteq Vc1 /\ Vc1 \subseteq Components
         /\ IsFiniteSet(Counted) /\ IsFiniteSet(Counted \ Secure) /\ IsFiniteSet(Counted \cap Secure)
         /\ IsFiniteSet(CountedVc1) /\ IsFiniteSet(mIsMaxResolution)
<1>1. /\ Counted \subseteq Components /\ CountedVc1 \subseteq Components
      /\ Counted \ Secure \subseteq Components /\ Counted \cap Secure \subseteq Components
      /\ mIsMaxResolution \subseteq Components /\ CountedVc1 \subseteq Vc1 /\ Vc1 \subseteq Components
  BY DEF WellFormed, TypeOK, Counted, CountedVc1
<1> QED BY <1>1, FS_Subset DEF WellFormed

\* The decoders counted are the secure ones and the others.
LEMMA Together ==
  ASSUME WellFormed, TypeOK
  PROVE  Cardinality(Counted) = Cardinality(Counted \ Secure) + Cardinality(Counted \cap Secure)
<1>1. /\ Cardinality(Counted \ Secure) = Cardinality(Counted) - Cardinality(Counted \cap Secure)
      /\ Cardinality(Counted) \in Nat /\ Cardinality(Counted \cap Secure) \in Nat
  BY Finite, FS_Difference, FS_CardinalityType
<1> QED BY <1>1

\* A step between phases that count alike, and that leaves the counters alone.
LEMMA Quiet ==
  ASSUME WellFormed, IInv, NEW c \in Components, NEW q \in Phases,
         phase' = [phase EXCEPT ![c] = q], UNCHANGED <<counters, mIsMaxResolution>>,
         phase[c] \in In <=> q \in In, phase[c] \in InVc1 <=> q \in InVc1
  PROVE  /\ Counted' = Counted /\ CountedVc1' = CountedVc1
         /\ CountersRight' /\ WithinLimits' /\ Vc1Alone'
<1>1. Counted' = Counted /\ CountedVc1' = CountedVc1
  <2>1. /\ Counted' = IF q \in In THEN Counted \cup {c} ELSE Counted \ {c}
        /\ CountedVc1' = IF q \in InVc1 /\ c \in Vc1 THEN CountedVc1 \cup {c} ELSE CountedVc1 \ {c}
        /\ c \in Counted <=> q \in In
        /\ c \in CountedVc1 <=> q \in InVc1 /\ c \in Vc1
    BY Moved DEF IInv
  <2>2. Counted' = Counted
    BY <2>1
  <2>3. CountedVc1' = CountedVc1
    BY <2>1
  <2> QED BY <2>2, <2>3
<1> QED BY <1>1 DEF IInv, CountersRight, WithinLimits, Vc1Alone, counters

-----------------------------------------------------------------------------
(* create keeps the invariant.                                              *)

\* A step of create that counts nothing keeps the invariant if it has checked what the phase it
\* leads to takes for granted.
LEMMA Checked ==
  ASSUME WellFormed, IInv, NEW c \in Components, NEW q \in Creating \cup {"refused"},
         phase' = [phase EXCEPT ![c] = q], UNCHANGED <<counters, mIsMaxResolution>>,
         q # "countVc1", phase[c] \in (Creating \cup {"none"}) \ {"countVc1"}, loaded' \in Nat,
         \A d \in Components \ {c} : phase[d] \notin Creating,
         q = "secures" => c \in Secure,
         q \in {"vc1", "plainAgain", "bothAgain"} => c \notin Secure,
         q \in {"both", "bothAgain"} => loaded' >= sConcurrentInstances,
         q \in {"plain", "both", "highRes", "count"} /\ c \in Secure /\ MaxSecure >= 0
           => sConcurrentInstanceSecures < MaxSecure,
         q \in {"vc1", "plainAgain", "bothAgain", "highRes", "count"} /\ Limited(c)
           => sConcurrentInstances + sConcurrentInstanceSecures < MaxInstances,
         q \in {"plainAgain", "bothAgain", "highRes", "count"} /\ c \notin Secure => CountedVc1 = {},
         q \in {"highRes", "count"} /\ c \in Vc1 => Counted \ Secure = {}
  PROVE  IInv'
<1>0. q \in Phases
  BY DEF Phases
<1>1. /\ Counted' = Counted /\ CountedVc1' = CountedVc1
      /\ CountersRight' /\ WithinLimits' /\ Vc1Alone'
  BY <1>0, Quiet DEF In, InVc1, Creating
<1>2. /\ phase' \in [Components -> Phases]
      /\ phase'[c] = q /\ \A d \in Components \ {c} : phase'[d] = phase[d]
  BY <1>0, Moved DEF IInv
<1>3. TypeOK'
  BY <1>2 DEF IInv, TypeOK, counters
<1>4. OneCreator'
  BY <1>2 DEF OneCreator
<1>5. Ways' /\ Loaded'
  BY <1>2 DEF Ways, Loaded, Creating, counters
<1>6. HighResOnes'
  BY <1>2 DEF IInv, TypeOK, HighResOnes, Creating
<1>7. Room'
  BY <1>2 DEF Room, Creating, Limited, counters
<1>8. Alone'
  BY <1>1, <1>2 DEF Alone, Creating
<1> QED BY <1>1, <1>3, <1>4, <1>5, <1>6, <1>7, <1>8 DEF IInv

\* Every step of create that only checks or loads.
LEMMA CheckingKeeps ==
  ASSUME WellFormed, IInv, NEW c \in Components,
         \/ Lock(c) \/ CheckSecures(c) \/ LoadPlain(c) \/ CheckBoth(c) \/ CheckVc1(c)
         \/ CheckAlone(c) \/ CheckHighRes(c)
  PROVE  IInv'
<1>0. /\ sConcurrentInstances \in Nat /\ sConcurrentInstanceSecures \in Nat /\ loaded \in Nat
      /\ sConcurrentVc1Instance \in Nat /\ sConcurrentMaxResolutionInstance \in Nat
      /\ MaxInstances \in Int /\ MaxSecure \in Int /\ MaxHighRes \in Int
  BY DEF WellFormed, IInv, TypeOK
<1>1. phase[c] \in Creating => \A d \in Components \ {c} : phase[d] \notin Creating
  BY DEF IInv, OneCreator
<1>2. CASE Lock(c)
  <2>1. (IF c \in Secure THEN "secures" ELSE "plain") \in {"secures", "plain"}
    OBVIOUS
  <2> QED BY <1>0, <1>2, <2>1, Checked DEF Lock, At, Creating
<1>3. CASE CheckSecures(c)
  <2> DEFINE refuses == MaxSecure >= 0 /\ sConcurrentInstanceSecures >= MaxSecure
             q == IF refuses THEN "refused" ELSE "plain"
  <2>1. phase[c] = "secures" /\ phase' = [phase EXCEPT ![c] = q]
        /\ UNCHANGED <<counters, mIsMaxResolution, loaded>>
    BY <1>3 DEF CheckSecures, Check, At
  <2>2. q \in {"refused", "plain"} /\ (q = "plain" /\ MaxSecure >= 0 => sConcurrentInstanceSecures < MaxSecure)
    BY <1>0
  <2> HIDE DEF q
  <2> QED BY <1>0, <1>1, <2>1, <2>2, Checked DEF Creating
<1>4. CASE LoadPlain(c)
  <2>1. CASE phase[c] = "plain"
    <3>1. phase' = [phase EXCEPT ![c] = "both"] /\ loaded' = sConcurrentInstances
          /\ UNCHANGED <<counters, mIsMaxResolution>>
      BY <1>4, <2>1 DEF LoadPlain, At
    <3>2. c \in Secure /\ MaxSecure >= 0 => sConcurrentInstanceSecures < MaxSecure
      BY <2>1 DEF IInv, Room
    <3>3. loaded' \in Nat /\ loaded' >= sConcurrentInstances
      BY <1>0, <3>1
    <3>4. UNCHANGED <<counters, mIsMaxResolution>>
      BY <3>1
    <3> QED BY <1>1, <2>1, <3>1, <3>2, <3>3, <3>4, Checked DEF Creating
  <2>2. CASE phase[c] = "plainAgain"
    <3>1. phase' = [phase EXCEPT ![c] = "bothAgain"] /\ loaded' = sConcurrentInstances
          /\ UNCHANGED <<counters, mIsMaxResolution>>
      BY <1>4, <2>2 DEF LoadPlain, At
    <3>2. /\ c \notin Secure /\ CountedVc1 = {}
          /\ Limited(c) => sConcurrentInstances + sConcurrentInstanceSecures < MaxInstances
      BY <2>2 DEF IInv, Room, Alone, Ways
    <3>3. loaded' \in Nat /\ loaded' >= sConcurrentInstances
      BY <1>0, <3>1
    <3>4. UNCHANGED <<counters, mIsMaxResolution>>
      BY <3>1
    <3> QED BY <1>1, <2>2, <3>1, <3>2, <3>3, <3>4, Checked DEF Creating
  <2> QED BY <1>4, <2>1, <2>2 DEF LoadPlain, At
<1>5. CASE CheckBoth(c)
  <2> DEFINE refuses == Limited(c) /\ loaded + sConcurrentInstanceSecures >= MaxInstances
             q == IF refuses THEN "refused" ELSE IF c \in Secure THEN "highRes" ELSE "vc1"
  <2>1. phase[c] = "both" /\ phase' = [phase EXCEPT ![c] = q]
        /\ UNCHANGED <<counters, mIsMaxResolution, loaded>>
    BY <1>5 DEF CheckBoth, Check, At
  <2>2. /\ q \in {"refused", "highRes", "vc1"} /\ (q = "highRes" => c \in Secure)
        /\ q = "vc1" => c \notin Secure
    OBVIOUS
  <2>3. loaded >= sConcurrentInstances
    BY <2>1 DEF IInv, Loaded
  <2>4. q # "refused" /\ Limited(c) => sConcurrentInstances + sConcurrentInstanceSecures < MaxInstances
    BY <1>0, <2>3
  <2>5. c \in Secure /\ MaxSecure >= 0 => sConcurrentInstanceSecures < MaxSecure
    BY <2>1 DEF IInv, Room
  <2>6. c \in Secure => c \notin Vc1
    BY DEF WellFormed
  <2> HIDE DEF q
  <2> QED BY <1>0, <1>1, <2>1, <2>2, <2>4, <2>5, <2>6, Checked DEF Creating
<1>6. CASE CheckVc1(c)
  <2> DEFINE q == IF sConcurrentVc1Instance > 0 THEN "refused" ELSE "plainAgain"
  <2>1. phase[c] = "vc1" /\ phase' = [phase EXCEPT ![c] = q]
        /\ UNCHANGED <<counters, mIsMaxResolution, loaded>>
    BY <1>6 DEF CheckVc1, Check, At
  <2>2. q \in {"refused", "plainAgain"} /\ (q = "plainAgain" => sConcurrentVc1Instance = 0)
    BY <1>0
  <2>3. sConcurrentVc1Instance = 0 => CountedVc1 = {}
    BY Finite, FS_EmptySet DEF IInv, CountersRight
  <2>4. /\ c \notin Secure
        /\ Limited(c) => sConcurrentInstances + sConcurrentInstanceSecures < MaxInstances
    BY <2>1 DEF IInv, Ways, Room
  <2> HIDE DEF q
  <2> QED BY <1>0, <1>1, <2>1, <2>2, <2>3, <2>4, Checked DEF Creating
<1>7. CASE CheckAlone(c)
  <2> DEFINE refuses == loaded + sConcurrentInstanceSecures > 0 /\ c \in Vc1
             q == IF refuses THEN "refused" ELSE "highRes"
  <2>1. phase[c] = "bothAgain" /\ phase' = [phase EXCEPT ![c] = q]
        /\ UNCHANGED <<counters, mIsMaxResolution, loaded>>
    BY <1>7 DEF CheckAlone, Check, At
  <2>2. loaded >= sConcurrentInstances
    BY <2>1 DEF IInv, Loaded
  <2>3. q \in {"refused", "highRes"} /\ (q = "highRes" /\ c \in Vc1 => sConcurrentInstances = 0)
    BY <1>0, <2>2
  <2>4. sConcurrentInstances = 0 => Counted \ Secure = {}
    BY Finite, FS_EmptySet DEF IInv, CountersRight
  <2>5. /\ c \notin Secure /\ CountedVc1 = {}
        /\ Limited(c) => sConcurrentInstances + sConcurrentInstanceSecures < MaxInstances
    BY <2>1 DEF IInv, Ways, Room, Alone
  <2> HIDE DEF q
  <2> QED BY <1>0, <1>1, <2>1, <2>3, <2>4, <2>5, Checked DEF Creating
<1>8. CASE CheckHighRes(c)
  <2> DEFINE refuses == MaxHighRes >= 0 /\ sConcurrentMaxResolutionInstance >= MaxHighRes
             q == IF refuses THEN "refused" ELSE "count"
  <2>1. phase[c] = "highRes" /\ phase' = [phase EXCEPT ![c] = q]
        /\ UNCHANGED <<counters, mIsMaxResolution, loaded>>
    BY <1>8 DEF CheckHighRes, Check, At
  <2>2. q \in {"refused", "count"}
    OBVIOUS
  <2>3. /\ c \in Secure /\ MaxSecure >= 0 => sConcurrentInstanceSecures < MaxSecure
        /\ Limited(c) => sConcurrentInstances + sConcurrentInstanceSecures < MaxInstances
        /\ c \notin Secure => CountedVc1 = {}
        /\ c \notin Secure /\ c \in Vc1 => Counted \ Secure = {}
    BY <2>1 DEF IInv, Room, Alone
  <2>4. c \in Vc1 => c \notin Secure
    BY DEF WellFormed
  <2> HIDE DEF q
  <2> QED BY <1>0, <1>1, <2>1, <2>2, <2>3, <2>4, Checked DEF Creating
<1> QED BY <1>2, <1>3, <1>4, <1>5, <1>6, <1>7, <1>8

\* Counting: nobody else has counted a component in since there was room for this one.
LEMMA CountKeeps ==
  ASSUME WellFormed, IInv, NEW c \in Components, Count(c)
  PROVE  IInv'
<1>0. /\ sConcurrentInstances \in Nat /\ sConcurrentInstanceSecures \in Nat
      /\ MaxInstances \in Int /\ MaxSecure \in Int /\ TypeOK
  BY DEF WellFormed, IInv, TypeOK
<1>1. phase[c] = "count" /\ phase' = [phase EXCEPT ![c] = "countVc1"]
  BY DEF Count, At
<1>2. /\ phase' \in [Components -> Phases]
      /\ phase'[c] = "countVc1" /\ \A d \in Components \ {c} : phase'[d] = phase[d]
      /\ c \notin Counted /\ Counted' = Counted \cup {c}
      /\ c \notin CountedVc1 /\ CountedVc1' = CountedVc1
  <2>1. /\ Counted' = Counted \cup {c} /\ c \notin Counted /\ c \notin CountedVc1
        /\ CountedVc1' = CountedVc1 \ {c}
        /\ phase' \in [Components -> Phases]
        /\ phase'[c] = "countVc1" /\ \A d \in Components \ {c} : phase'[d] = phase[d]
    BY <1>0, <1>1, Moved DEF In, InVc1, Phases, Creating
  <2>2. CountedVc1 \ {c} = CountedVc1
    BY <2>1
  <2> QED BY <2>1, <2>2
<1>3. \A d \in Components \ {c} : phase[d] \notin Creating
  BY <1>1 DEF IInv, OneCreator, Creating
<1>4. UNCHANGED <<sConcurrentVc1Instance, sConcurrentMaxResolutionInstance, mIsMaxResolution, loaded>>
  BY DEF Count
<1>5. /\ CountersRight' /\ sConcurrentInstances' \in Nat /\ sConcurrentInstanceSecures' \in Nat
      /\ sConcurrentInstanceSecures' = sConcurrentInstanceSecures + (IF c \in Secure THEN 1 ELSE 0)
      /\ sConcurrentInstances' >= sConcurrentInstances
  <2>1. CASE c \in Secure
    <3>1. Counted' \ Secure = Counted \ Secure /\ Counted' \cap Secure = (Counted \cap Secure) \cup {c}
      BY <1>2, <2>1
    <3>2. Cardinality((Counted \cap Secure) \cup {c}) = Cardinality(Counted \cap Secure) + 1
      BY <1>0, <1>2, Finite, FS_AddElement
    <3>3. /\ sConcurrentInstanceSecures' = sConcurrentInstanceSecures + 1
          /\ sConcurrentInstances' = sConcurrentInstances
      BY <1>0, <2>1 DEF Count
    <3>4. CountersRight
      BY DEF IInv
    <3>5. CountersRight'
      BY <1>2, <1>4, <3>1, <3>2, <3>3, <3>4 DEF CountersRight
    <3> QED BY <1>0, <2>1, <3>3, <3>5
  <2>2. CASE c \notin Secure
    <3>1. Counted' \ Secure = (Counted \ Secure) \cup {c} /\ Counted' \cap Secure = Counted \cap Secure
      BY <1>2, <2>2
    <3>2. Cardinality((Counted \ Secure) \cup {c}) = Cardinality(Counted \ Secure) + 1
      BY <1>0, <1>2, Finite, FS_AddElement
    <3>3. /\ sConcurrentInstanceSecures' = sConcurrentInstanceSecures
          /\ sConcurrentInstances' = sConcurrentInstances + 1
      BY <1>0, <2>2 DEF Count
    <3>4. CountersRight
      BY DEF IInv
    <3>5. CountersRight'
      BY <1>2, <1>4, <3>1, <3>2, <3>3, <3>4 DEF CountersRight
    <3> QED BY <1>0, <2>2, <3>3, <3>5
  <2> QED BY <2>1, <2>2
<1>6. WithinLimits'
  <2>1. Cardinality(Counted') = sConcurrentInstances + sConcurrentInstanceSecures + 1
    <3>1. Cardinality(Counted) = sConcurrentInstances + sConcurrentInstanceSecures
      BY <1>0, Together DEF IInv, CountersRight
    <3>2. Cardinality(Counted \cup {c}) = Cardinality(Counted) + 1
      BY <1>0, <1>2, Finite, FS_AddElement
    <3> QED BY <1>2, <3>1, <3>2
  <2>2. /\ MaxSecure >= 0 /\ c \in Secure => sConcurrentInstanceSecures < MaxSecure
        /\ Limited(c) => sConcurrentInstances + sConcurrentInstanceSecures < MaxInstances
    BY <1>1 DEF IInv, Room
  <2>3. MaxSecure >= 0 /\ MaxInstances >= 0 => Cardinality(Counted') <= MaxInstances
    BY <1>0, <2>1, <2>2 DEF Limited
  <2>4. MaxSecure >= 0 => sConcurrentInstanceSecures <= MaxSecure
    BY DEF IInv, WithinLimits, CountersRight
  <2>5. MaxSecure >= 0 => sConcurrentInstanceSecures' <= MaxSecure
    BY <1>0, <1>5, <2>2, <2>4
  <2>6. sConcurrentInstanceSecures' = Cardinality(Counted' \cap Secure)
    BY <1>5 DEF CountersRight
  <2> QED BY <2>3, <2>5, <2>6 DEF WithinLimits
<1>7. Vc1Alone'
  <2>1. c \notin Secure /\ c \in Vc1 => Counted \ Secure = {}
    BY <1>1 DEF IInv, Alone
  <2>2. c \notin Secure => Counted \cap Vc1 = {}
    <3>1. c \notin Secure => CountedVc1 = {}
      BY <1>1 DEF IInv, Alone
    <3>2. \A d \in Counted \cap Vc1 : phase[d] # "countVc1"
      BY <1>2, <1>3 DEF Counted, Creating
    <3>3. \A d \in Counted \cap Vc1 : d \in CountedVc1
      BY <3>2 DEF Counted, CountedVc1
    <3> QED BY <3>1, <3>3
  <2>3. Vc1 \cap Secure = {}
    BY DEF WellFormed
  <2>4. Vc1Alone
    BY DEF IInv
  <2>5. CASE c \in Secure
    BY <1>2, <2>3, <2>4, <2>5 DEF Vc1Alone
  <2>6. CASE c \notin Secure
    BY <1>2, <2>1, <2>2, <2>3, <2>6 DEF Vc1Alone
  <2> QED BY <2>5, <2>6
<1>8. TypeOK'
  BY <1>2, <1>4, <1>5 DEF IInv, TypeOK
<1>9. OneCreator' /\ Ways' /\ Loaded' /\ Room'
  BY <1>2, <1>3 DEF OneCreator, Ways, Loaded, Room, Creating
<1>10. HighResOnes' /\ Alone'
  BY <1>1, <1>2, <1>3, <1>4 DEF IInv, HighResOnes, Alone, Creating
<1> QED BY <1>5, <1>6, <1>7, <1>8, <1>9, <1>10 DEF IInv

\* The VC1 decoder is counted last, while create still holds the mutex.
LEMMA CountVc1Keeps ==
  ASSUME WellFormed, IInv, NEW c \in Components, CountVc1(c)
  PROVE  IInv'
<1>0. TypeOK
  BY DEF IInv
<1>1. PICK q \in {"alive", "failed"} : phase' = [phase EXCEPT ![c] = q]
  BY DEF CountVc1, At
<1>2. phase[c] = "countVc1"
      /\ UNCHANGED <<sConcurrentInstances, sConcurrentInstanceSecures, sConcurrentMaxResolutionInstance,
                     mIsMaxResolution, loaded>>
  BY DEF CountVc1, At
<1>3. /\ phase' \in [Components -> Phases]
      /\ phase'[c] = q /\ \A d \in Components \ {c} : phase'[d] = phase[d]
      /\ Counted' = Counted /\ c \notin CountedVc1
      /\ CountedVc1' = IF c \in Vc1 THEN CountedVc1 \cup {c} ELSE CountedVc1
  <2>1. /\ Counted' = Counted \cup {c} /\ c \in Counted /\ c \notin CountedVc1
        /\ CountedVc1' = IF c \in Vc1 THEN CountedVc1 \cup {c} ELSE CountedVc1 \ {c}
        /\ phase' \in [Components -> Phases]
        /\ phase'[c] = q /\ \A d \in Components \ {c} : phase'[d] = phase[d]
    BY <1>0, <1>1, <1>2, Moved DEF In, InVc1, Phases, Creating
  <2>2. Counted \cup {c} = Counted /\ CountedVc1 \ {c} = CountedVc1
    BY <2>1
  <2> QED BY <2>1, <2>2
<1>4. Cardinality(CountedVc1 \cup {c}) = Cardinality(CountedVc1) + 1
  BY <1>0, <1>3, Finite, FS_AddElement
<1>5. CountersRight' /\ sConcurrentVc1Instance' \in Nat
  <2>1. CountersRight /\ sConcurrentVc1Instance \in Nat
    BY DEF IInv, TypeOK
  <2>2. sConcurrentVc1Instance' = IF c \in Vc1 THEN sConcurrentVc1Instance + 1 ELSE sConcurrentVc1Instance
    BY <2>1 DEF CountVc1
  <2> QED BY <1>2, <1>3, <1>4, <2>1, <2>2 DEF CountersRight
<1>6. WithinLimits' /\ Vc1Alone'
  BY <1>3 DEF IInv, WithinLimits, Vc1Alone
<1>7. TypeOK'
  BY <1>2, <1>3, <1>5 DEF IInv, TypeOK
<1>8. \A d \in Components : phase'[d] \notin Creating
  BY <1>2, <1>3 DEF IInv, OneCreator, Creating
<1>9. OneCreator' /\ Ways' /\ Loaded' /\ Room' /\ Alone'
  BY <1>8 DEF OneCreator, Ways, Loaded, Room, Alone, Creating
<1>10. HighResOnes'
  BY <1>0, <1>2, <1>3 DEF IInv, HighResOnes, TypeOK
<1> QED BY <1>5, <1>6, <1>7, <1>9, <1>10 DEF IInv

-----------------------------------------------------------------------------
(* The life of a component keeps the invariant, whatever create is doing.   *)

\* A step of a component that is not being created, and that counts nothing in but its size,
\* keeps what create has found out.
LEMMA Undisturbed ==
  ASSUME WellFormed, IInv, NEW c \in Components, NEW q \in Phases,
         phase' = [phase EXCEPT ![c] = q], q \notin Creating, phase[c] \notin Creating, loaded' = loaded,
         Counted' \subseteq Counted, CountedVc1' \subseteq CountedVc1,
         sConcurrentInstances' \in Nat, sConcurrentInstances' <= sConcurrentInstances,
         sConcurrentInstanceSecures' \in Nat,
         sConcurrentInstanceSecures' <= sConcurrentInstanceSecures
  PROVE  /\ phase' \in [Components -> Phases]
         /\ OneCreator' /\ Ways' /\ Loaded' /\ Room' /\ Alone' /\ WithinLimits' /\ Vc1Alone'
<1>1. /\ phase' \in [Components -> Phases]
      /\ phase'[c] = q /\ \A d \in Components \ {c} : phase'[d] = phase[d]
  BY Moved DEF IInv
<1>2. \A d \in Components : phase'[d] \in Creating => phase'[d] = phase[d]
  BY <1>1
<1>3. TypeOK
  BY DEF IInv
<1>4. OneCreator' /\ Ways'
  BY <1>2 DEF IInv, OneCreator, Ways, Creating
<1>5. Loaded'
  BY <1>2, <1>3 DEF IInv, Loaded, Creating, TypeOK
<1>6. Room'
  <2>1. /\ sConcurrentInstances \in Nat /\ sConcurrentInstanceSecures \in Nat
        /\ MaxInstances \in Int /\ MaxSecure \in Int
    BY <1>3 DEF WellFormed, TypeOK
  <2>2. SUFFICES ASSUME NEW d \in Components, phase'[d] \in Creating
                 PROVE  /\ phase[d] \in {"plain", "both", "highRes", "count"} /\ d \in Secure /\ MaxSecure >= 0
                             => sConcurrentInstanceSecures' < MaxSecure
                        /\ phase[d] \in {"vc1", "plainAgain", "bothAgain", "highRes", "count"} /\ Limited(d)
                             => sConcurrentInstances' + sConcurrentInstanceSecures' < MaxInstances
    BY <1>2 DEF Room, Creating, Limited
  <2>3. /\ phase[d] \in {"plain", "both", "highRes", "count"} /\ d \in Secure /\ MaxSecure >= 0
             => sConcurrentInstanceSecures < MaxSecure
        /\ phase[d] \in {"vc1", "plainAgain", "bothAgain", "highRes", "count"} /\ Limited(d)
             => sConcurrentInstances + sConcurrentInstanceSecures < MaxInstances
    BY DEF IInv, Room
  <2>4. /\ sConcurrentInstanceSecures < MaxSecure => sConcurrentInstanceSecures' < MaxSecure
        /\ sConcurrentInstances + sConcurrentInstanceSecures < MaxInstances
             => sConcurrentInstances' + sConcurrentInstanceSecures' < MaxInstances
    <3>1. \A a, b, d1, d2 \in Nat, m \in Int : d1 <= a /\ d2 <= b =>
            (b < m => d2 < m) /\ (a + b < m => d1 + d2 < m)
      OBVIOUS
    <3> QED BY <2>1, <3>1
  <2> QED BY <2>3, <2>4
<1>7. Alone'
  BY <1>2 DEF IInv, Alone, Creating
<1>8. WithinLimits'
  <2>1. /\ Counted' \cap Secure \subseteq Counted \cap Secure
        /\ IsFiniteSet(Counted) /\ IsFiniteSet(Counted \cap Secure)
    BY <1>3, Finite
  <2>2. /\ Cardinality(Counted') \in Nat /\ Cardinality(Counted' \cap Secure) \in Nat
        /\ Cardinality(Counted) \in Nat /\ Cardinality(Counted \cap Secure) \in Nat
        /\ Cardinality(Counted') <= Cardinality(Counted)
        /\ Cardinality(Counted' \cap Secure) <= Cardinality(Counted \cap Secure)
    BY <2>1, FS_Subset, FS_CardinalityType
  <2> QED BY <2>2 DEF IInv, WithinLimits, WellFormed
<1>9. Vc1Alone'
  BY DEF IInv, Vc1Alone
<1> QED BY <1>1, <1>4, <1>5, <1>6, <1>7, <1>8, <1>9

\* The size configured is counted whatever create has checked of it.
LEMMA ConfigSizeKeeps ==
  ASSUME WellFormed, IInv, NEW c \in Components, ConfigSize(c)
  PROVE  IInv'
<1>1. /\ UNCHANGED <<sConcurrentInstances, sConcurrentInstanceSecures, sConcurrentVc1Instance, phase, loaded>>
      /\ phase[c] = "alive" /\ c \notin mIsMaxResolution /\ mIsMaxResolution' = mIsMaxResolution \cup {c}
      /\ sConcurrentMaxResolutionInstance' = sConcurrentMaxResolutionInstance + 1
      /\ TypeOK /\ CountersRight
  BY DEF ConfigSize, IInv
<1>2. Counted' = Counted /\ CountedVc1' = CountedVc1
  BY <1>1 DEF Counted, CountedVc1
<1>3. Cardinality(mIsMaxResolution \cup {c}) = Cardinality(mIsMaxResolution) + 1
  BY <1>1, Finite, FS_AddElement
<1>4. CountersRight'
  BY <1>1, <1>2, <1>3 DEF CountersRight
<1>5. TypeOK'
  BY <1>1 DEF TypeOK
<1>6. WithinLimits' /\ Vc1Alone'
  BY <1>2 DEF IInv, WithinLimits, Vc1Alone
<1>7. OneCreator' /\ Ways' /\ Loaded' /\ Room' /\ Alone'
  BY <1>1, <1>2 DEF IInv, OneCreator, Ways, Loaded, Room, Alone, Limited
<1>8. HighResOnes'
  BY <1>1 DEF IInv, HighResOnes
<1> QED BY <1>4, <1>5, <1>6, <1>7, <1>8 DEF IInv

\* The destructor is posted.
LEMMA DestroyKeeps ==
  ASSUME WellFormed, IInv, NEW c \in Components, Destroy(c)
  PROVE  IInv'
<1>1. /\ phase[c] = "alive" /\ phase' = [phase EXCEPT ![c] = "leave"]
      /\ UNCHANGED <<counters, mIsMaxResolution, loaded>> /\ TypeOK
  BY DEF Destroy, At, IInv
<1>2. Counted' = Counted /\ CountedVc1' = CountedVc1 /\ CountersRight'
  BY <1>1, Quiet DEF In, InVc1, Phases
<1>3. /\ sConcurrentInstances' = sConcurrentInstances /\ sConcurrentInstances \in Nat
      /\ sConcurrentInstanceSecures' = sConcurrentInstanceSecures /\ sConcurrentInstanceSecures \in Nat
  BY <1>1 DEF TypeOK, counters
<1>4. /\ phase' \in [Components -> Phases]
      /\ OneCreator' /\ Ways' /\ Loaded' /\ Room' /\ Alone' /\ WithinLimits' /\ Vc1Alone'
  <2>1. "leave" \in Phases /\ "leave" \notin Creating /\ "alive" \notin Creating
    BY DEF Phases, Creating
  <2>2. /\ Counted' \subseteq Counted /\ CountedVc1' \subseteq CountedVc1 /\ loaded' = loaded
        /\ sConcurrentInstances' \in Nat /\ sConcurrentInstances' <= sConcurrentInstances
        /\ sConcurrentInstanceSecures' \in Nat
        /\ sConcurrentInstanceSecures' <= sConcurrentInstanceSecures
    BY <1>1, <1>2, <1>3
  <2> QED BY <1>1, <2>1, <2>2, Undisturbed
<1>5. TypeOK'
  BY <1>1, <1>4 DEF TypeOK, counters
<1>6. HighResOnes'
  BY <1>1 DEF IInv, HighResOnes, TypeOK
<1> QED BY <1>2, <1>4, <1>5, <1>6 DEF IInv

\* A component counts itself out of its kind.
LEMMA LeaveKeeps ==
  ASSUME WellFormed, IInv, NEW c \in Components, Leave(c)
  PROVE  IInv'
<1>1. /\ phase[c] = "leave" /\ phase' = [phase EXCEPT ![c] = "leaveHighRes"]
      /\ UNCHANGED <<sConcurrentVc1Instance, sConcurrentMaxResolutionInstance, mIsMaxResolution, loaded>>
      /\ TypeOK /\ CountersRight
  BY DEF Leave, At, IInv
<1>2. /\ c \in Counted /\ Counted' = Counted \ {c} /\ CountedVc1' = CountedVc1
  <2>1. /\ Counted' = Counted \ {c} /\ c \in Counted
        /\ CountedVc1' = IF c \in Vc1 THEN CountedVc1 \cup {c} ELSE CountedVc1 \ {c}
        /\ c \in CountedVc1 <=> c \in Vc1
    BY <1>1, Moved DEF In, InVc1, Phases
  <2>2. CountedVc1' = CountedVc1
    BY <2>1
  <2> QED BY <2>1, <2>2
<1>3. /\ sConcurrentInstances \in Nat /\ sConcurrentInstanceSecures \in Nat
      /\ sConcurrentInstances = Cardinality(Counted \ Secure)
      /\ sConcurrentInstanceSecures = Cardinality(Counted \cap Secure)
  BY <1>1 DEF TypeOK, CountersRight
<1>4. /\ CountersRight'
      /\ sConcurrentInstances' \in Nat /\ sConcurrentInstances' <= sConcurrentInstances
      /\ sConcurrentInstanceSecures' \in Nat
      /\ sConcurrentInstanceSecures' <= sConcurrentInstanceSecures
  <2>1. CASE c \in Secure
    <3>1. Counted' \ Secure = Counted \ Secure /\ Counted' \cap Secure = (Counted \cap Secure) \ {c}
      BY <1>2, <2>1
    <3>2. /\ Cardinality((Counted \cap Secure) \ {c}) = Cardinality(Counted \cap Secure) - 1
          /\ Cardinality((Counted \cap Secure) \ {c}) \in Nat
      <4>1. c \in Counted \cap Secure /\ IsFiniteSet(Counted \cap Secure)
        BY <1>1, <1>2, <2>1, Finite
      <4> QED BY <4>1, FS_RemoveElement, FS_CardinalityType
    <3>3. /\ sConcurrentInstanceSecures' = sConcurrentInstanceSecures - 1
          /\ sConcurrentInstances' = sConcurrentInstances
      BY <1>3, <2>1 DEF Leave
    <3>4. CountersRight'
      BY <1>1, <1>2, <1>3, <3>1, <3>2, <3>3 DEF CountersRight
    <3> QED BY <1>3, <3>2, <3>3, <3>4
  <2>2. CASE c \notin Secure
    <3>1. Counted' \ Secure = (Counted \ Secure) \ {c} /\ Counted' \cap Secure = Counted \cap Secure
      BY <1>2, <2>2
    <3>2. /\ Cardinality((Counted \ Secure) \ {c}) = Cardinality(Counted \ Secure) - 1
          /\ Cardinality((Counted \ Secure) \ {c}) \in Nat
      <4>1. c \in Counted \ Secure /\ IsFiniteSet(Counted \ Secure)
        BY <1>1, <1>2, <2>2, Finite
      <4> QED BY <4>1, FS_RemoveElement, FS_CardinalityType
    <3>3. /\ sConcurrentInstanceSecures' = sConcurrentInstanceSecures
          /\ sConcurrentInstances' = sConcurrentInstances - 1
      BY <1>3, <2>2 DEF Leave
    <3>4. CountersRight'
      BY <1>1, <1>2, <1>3, <3>1, <3>2, <3>3 DEF CountersRight
    <3> QED BY <1>3, <3>2, <3>3, <3>4
  <2> QED BY <2>1, <2>2
<1>5. /\ phase' \in [Components -> Phases]
      /\ OneCreator' /\ Ways' /\ Loaded' /\ Room' /\ Alone' /\ WithinLimits' /\ Vc1Alone'
  <2>1. "leaveHighRes" \in Phases /\ "leaveHighRes" \notin Creating /\ "leave" \notin Creating
    BY DEF Phases, Creating
  <2>2. Counted' \subseteq Counted /\ CountedVc1' \subseteq CountedVc1
    BY <1>2
  <2> QED BY <1>1, <1>4, <2>1, <2>2, Undisturbed
<1>6. TypeOK'
  BY <1>1, <1>4, <1>5 DEF TypeOK
<1>7. HighResOnes'
  BY <1>1 DEF IInv, HighResOnes, TypeOK
<1> QED BY <1>4, <1>5, <1>6, <1>7 DEF IInv

\* ... out of the largest resolution ...
LEMMA LeaveHighResKeeps ==
  ASSUME WellFormed, IInv, NEW c \in Components, LeaveHighRes(c)
  PROVE  IInv'
<1>1. /\ phase[c] = "leaveHighRes" /\ phase' = [phase EXCEPT ![c] = "leaveVc1"]
      /\ UNCHANGED <<sConcurrentInstances, sConcurrentInstanceSecures, sConcurrentVc1Instance, loaded>>
      /\ mIsMaxResolution' = mIsMaxResolution \ {c}
      /\ TypeOK /\ CountersRight
  BY DEF LeaveHighRes, At, IInv
<1>2. Counted' = Counted /\ CountedVc1' = CountedVc1
  <2>1. /\ Counted' = Counted \ {c} /\ c \notin Counted
        /\ CountedVc1' = IF c \in Vc1 THEN CountedVc1 \cup {c} ELSE CountedVc1 \ {c}
        /\ c \in CountedVc1 <=> c \in Vc1
    BY <1>1, Moved DEF In, InVc1, Phases
  <2>2. CountedVc1' = CountedVc1
    BY <2>1
  <2> QED BY <2>1, <2>2
<1>3. /\ sConcurrentMaxResolutionInstance' = Cardinality(mIsMaxResolution \ {c})
      /\ sConcurrentMaxResolutionInstance' \in Nat
  <2>1. /\ Cardinality(mIsMaxResolution \ {c}) =
             IF c \in mIsMaxResolution THEN Cardinality(mIsMaxResolution) - 1 ELSE Cardinality(mIsMaxResolution)
        /\ Cardinality(mIsMaxResolution \ {c}) \in Nat
    BY <1>1, Finite, FS_RemoveElement, FS_CardinalityType
  <2>2. sConcurrentMaxResolutionInstance' =
          IF c \in mIsMaxResolution THEN sConcurrentMaxResolutionInstance - 1
          ELSE sConcurrentMaxResolutionInstance
    BY <1>1 DEF LeaveHighRes, TypeOK
  <2>3. sConcurrentMaxResolutionInstance = Cardinality(mIsMaxResolution)
    BY <1>1 DEF CountersRight
  <2> QED BY <2>1, <2>2, <2>3
<1>4. CountersRight'
  BY <1>1, <1>2, <1>3 DEF CountersRight
<1>5. /\ phase' \in [Components -> Phases]
      /\ OneCreator' /\ Ways' /\ Loaded' /\ Room' /\ Alone' /\ WithinLimits' /\ Vc1Alone'
  <2>1. "leaveVc1" \in Phases /\ "leaveVc1" \notin Creating /\ "leaveHighRes" \notin Creating
    BY DEF Phases, Creating
  <2>2. /\ Counted' \subseteq Counted /\ CountedVc1' \subseteq CountedVc1 /\ loaded' = loaded
        /\ sConcurrentInstances' \in Nat /\ sConcurrentInstances' <= sConcurrentInstances
        /\ sConcurrentInstanceSecures' \in Nat
        /\ sConcurrentInstanceSecures' <= sConcurrentInstanceSecures
    BY <1>1, <1>2 DEF TypeOK
  <2> QED BY <1>1, <2>1, <2>2, Undisturbed
<1>6. TypeOK'
  BY <1>1, <1>3, <1>5 DEF TypeOK
<1>7. HighResOnes'
  BY <1>1 DEF IInv, HighResOnes, TypeOK
<1> QED BY <1>4, <1>5, <1>6, <1>7 DEF IInv

\* ... and of VC1, which makes room for another one only now.
LEMMA LeaveVc1Keeps ==
  ASSUME WellFormed, IInv, NEW c \in Components, LeaveVc1(c)
  PROVE  IInv'
<1>1. /\ phase[c] = "leaveVc1" /\ phase' = [phase EXCEPT ![c] = "gone"]
      /\ UNCHANGED <<sConcurrentInstances, sConcurrentInstanceSecures, sConcurrentMaxResolutionInstance,
                     mIsMaxResolution, loaded>>
      /\ TypeOK /\ CountersRight
  BY DEF LeaveVc1, At, IInv
<1>2. /\ Counted' = Counted /\ CountedVc1' = CountedVc1 \ {c} /\ (c \in CountedVc1 <=> c \in Vc1)
  <2>1. /\ Counted' = Counted \ {c} /\ c \notin Counted
        /\ CountedVc1' = CountedVc1 \ {c}
        /\ c \in CountedVc1 <=> c \in Vc1
    BY <1>1, Moved DEF In, InVc1, Phases
  <2> QED BY <2>1
<1>3. /\ sConcurrentVc1Instance' = Cardinality(CountedVc1')
      /\ sConcurrentVc1Instance' \in Nat
  <2>1. /\ Cardinality(CountedVc1 \ {c}) =
             IF c \in CountedVc1 THEN Cardinality(CountedVc1) - 1 ELSE Cardinality(CountedVc1)
        /\ Cardinality(CountedVc1 \ {c}) \in Nat
    BY <1>1, Finite, FS_RemoveElement, FS_CardinalityType
  <2>2. sConcurrentVc1Instance' =
          IF c \in Vc1 THEN sConcurrentVc1Instance - 1 ELSE sConcurrentVc1Instance
    BY <1>1 DEF LeaveVc1, TypeOK
  <2>3. sConcurrentVc1Instance = Cardinality(CountedVc1)
    BY <1>1 DEF CountersRight
  <2> QED BY <1>2, <2>1, <2>2, <2>3
<1>4. CountersRight'
  BY <1>1, <1>2, <1>3 DEF CountersRight
<1>5. /\ phase' \in [Components -> Phases]
      /\ OneCreator' /\ Ways' /\ Loaded' /\ Room' /\ Alone' /\ WithinLimits' /\ Vc1Alone'
  <2>1. "gone" \in Phases /\ "gone" \notin Creating /\ "leaveVc1" \notin Creating
    BY DEF Phases, Creating
  <2>2. /\ Counted' \subseteq Counted /\ CountedVc1' \subseteq CountedVc1 /\ loaded' = loaded
        /\ sConcurrentInstances' \in Nat /\ sConcurrentInstances' <= sConcurrentInstances
        /\ sConcurrentInstanceSecures' \in Nat
        /\ sConcurrentInstanceSecures' <= sConcurrentInstanceSecures
    BY <1>1, <1>2 DEF TypeOK
  <2> QED BY <1>1, <2>1, <2>2, Undisturbed
<1>6. TypeOK'
  BY <1>1, <1>3, <1>5 DEF TypeOK
<1>7. HighResOnes'
  BY <1>1 DEF IInv, HighResOnes, TypeOK
<1> QED BY <1>4, <1>5, <1>6, <1>7 DEF IInv

-----------------------------------------------------------------------------
(* The theorems.                                                            *)

\* At first nothing is counted.
LEMMA InitIInv ==
  ASSUME WellFormed, Init
  PROVE  IInv
<1>1. TypeOK
  BY DEF Init, TypeOK, Phases, Creating
<1>2. Counted = {} /\ CountedVc1 = {}
  BY DEF Init, WellFormed, Counted, CountedVc1
<1>3. CountersRight
  <2>1. Counted \ Secure = {} /\ Counted \cap Secure = {} /\ mIsMaxResolution = {}
    BY <1>2 DEF Init
  <2>2. \A S : S = {} => Cardinality(S) = 0
    BY FS_EmptySet
  <2> QED BY <1>2, <2>1, <2>2 DEF Init, CountersRight
<1>4. WithinLimits
  <2>1. Cardinality(Counted) = 0 /\ Cardinality(Counted \cap Secure) = 0
    BY <1>2, FS_EmptySet
  <2> QED BY <2>1 DEF WellFormed, WithinLimits
<1>5. Vc1Alone /\ OneCreator /\ Ways /\ HighResOnes /\ Loaded /\ Room /\ Alone
  BY <1>2 DEF Init, Vc1Alone, OneCreator, Ways, HighResOnes, Loaded, Room, Alone, Creating
<1> QED BY <1>1, <1>3, <1>4, <1>5 DEF IInv

\* Every step keeps the invariant.
LEMMA NextIInv ==
  ASSUME WellFormed, IInv, [Next]_vars
  PROVE  IInv'
<1>1. CASE UNCHANGED vars
  BY <1>1 DEF vars, IInv, TypeOK, CountersRight, WithinLimits, Vc1Alone, OneCreator, Ways, HighResOnes,
     Loaded, Room, Alone, Counted, CountedVc1, Limited
<1>2. CASE Next
  BY <1>2, CheckingKeeps, CountKeeps, CountVc1Keeps, ConfigSizeKeeps, DestroyKeeps, LeaveKeeps,
     LeaveHighResKeeps, LeaveVc1Keeps DEF Next, Create
<1> QED BY <1>1, <1>2

\* The invariant of the counters holds in every behaviour.
THEOREM InvariantOfInstances ==
  ASSUME WellFormed
  PROVE  Spec => []IInv
<1>1. Init => IInv
  BY InitIInv
<1>2. IInv /\ [Next]_vars => IInv'
  BY NextIInv
<1> QED BY <1>1, <1>2, PTL DEF Spec

\* The counters always count the components they are meant to, in spite of the threads that
\* change them at the same time.
THEOREM CountersAreRight ==
  ASSUME WellFormed
  PROVE  Spec => [](TypeOK /\ CountersRight)
<1>1. IInv => TypeOK /\ CountersRight
  BY DEF IInv
<1> QED BY <1>1, InvariantOfInstances, PTL

\* create never makes more decoders than the limits allow, for any limits and any number of
\* clients, although it loads the counters one at a time.
THEOREM LimitsHold ==
  ASSUME WellFormed
  PROVE  Spec => []WithinLimits
<1>1. IInv => WithinLimits
  BY DEF IInv
<1> QED BY <1>1, InvariantOfInstances, PTL

\* A VC1 decoder never meets another one that is not secure.
THEOREM Vc1IsAlone ==
  ASSUME WellFormed
  PROVE  Spec => []Vc1Alone
<1>1. IInv => Vc1Alone
  BY DEF IInv
<1> QED BY <1>1, InvariantOfInstances, PTL

-----------------------------------------------------------------------------
(* Sizes and numbers of blocks.                                             *)

\* Rounding up to one of the alignments the decoder knows.
LEMMA Rounding ==
  ASSUME NEW n \in Nat, NEW unit \in {32, 64}
  PROVE  /\ RoundedUp(n, unit) \in n .. n + unit - 1
         /\ RoundedUp(n, unit) % unit = 0
<1>1. CASE unit = 32
  BY <1>1 DEF RoundedUp
<1>2. CASE unit = 64
  BY <1>2 DEF RoundedUp
<1> QED
  BY <1>1, <1>2

\* A block covers the picture and exceeds it by less than 64 in each direction, whatever the
\* decoder answers about its alignment (getOutAlignedSize).
THEOREM AlignedCovers ==
  ASSUME NEW d, NEW n \in Nat, NEW align64 \in BOOLEAN, NEW forceAlign \in BOOLEAN
  PROVE  GetOutAlignedSize(d, n, align64, forceAlign) \in n .. n + 63
<1> DEFINE unit == IF align64 THEN 64 ELSE WidthAlign(d)
<1>1. unit \in {32, 64}
  BY DEF WidthAlign
<1> HIDE DEF unit
<1>2. RoundedUp(n, unit) \in n .. n + 63
  <2>1. RoundedUp(n, unit) \in n .. n + unit - 1
    BY <1>1, Rounding
  <2> QED
    BY <1>1, <2>1
<1> QED
  BY <1>2 DEF GetOutAlignedSize, unit

\* The first allocation takes at least one block and never more than there are, so the number
\* left to the dequeue thread is no negative one (allocNonTunnelBuffers).
THEOREM FirstWithinAll ==
  ASSUME NEW d, NEW count \in Nat, count >= 2, NEW smooth \in Nat
  PROVE  FirstBlocks(d, count, smooth) \in 1 .. count
<1> DEFINE wanted == IF d.interlaced /\ ~(d.codec = "MP2V" /\ ~d.noSurface) /\ count > smooth
                     THEN count - smooth
                     ELSE IF d.noSurface THEN count ELSE 2 + smooth
           capped == IF wanted > count THEN count ELSE wanted
           within == Larger(capped, (2 * count) \div 3)
<1>1. wanted \in Nat /\ wanted >= 1
  OBVIOUS
<1>2. capped \in 1 .. count
  BY <1>1
<1>3. (2 * count) \div 3 \in 1 .. count
  OBVIOUS
<1>4. within \in 1 .. count
  BY <1>2, <1>3 DEF Larger
<1>5. count \div 2 \in 1 .. count
  OBVIOUS
<1> QED
  BY <1>4, <1>5 DEF FirstBlocks

-----------------------------------------------------------------------------
(* What the interface declares.                                             *)

\* The tier of a platform is one of the three.
LEMMA TierRange ==
  ASSUME NEW p, NEW codec, NEW secure
  PROVE  Tier(p, codec, secure) \in {1, 2, 3}
BY DEF Tier

\* A decoder starts with a level it declares, on every platform: the defaults and the lists
\* are written down in different places of the interface.
THEOREM DefaultsAreDeclared ==
  ASSUME NEW codec \in Codecs, NEW tier \in {1, 2, 3}
  PROVE  DefaultLevel(codec, tier) \in Levels(codec, tier)
<1> USE DEF DefaultLevel, Levels, From
<1>1. CASE codec = "H264"
  BY <1>1 DEF AvcLevels
<1>2. CASE codec = "H265"
  BY <1>2 DEF HevcLevels
<1>3. CASE codec = "VP9"
  BY <1>3 DEF Vp9Levels
<1>4. CASE codec = "AV1"
  BY <1>4 DEF Av1Levels
<1>5. CASE codec = "DVHE"
  BY <1>5 DEF DvheLevels, DvLevels
<1>6. CASE codec = "DVAV"
  BY <1>6 DEF DvavLevels, DvLevels
<1>7. CASE codec = "DVAV1"
  BY <1>7 DEF Dvav1Levels, DvLevels
<1>8. CASE codec = "MP2V"
  BY <1>8 DEF Mp2vLevels
<1>9. CASE codec = "MP4V"
  BY <1>9 DEF Mp4vLevels
<1>10. CASE codec \in {"H266", "DVAVX", "MJPG", "AVS", "AVS2", "AVS3", "VC1"}
  BY <1>10
<1> QED
  BY <1>1, <1>2, <1>3, <1>4, <1>5, <1>6, <1>7, <1>8, <1>9, <1>10 DEF Codecs, Hevcs

\* A platform that can do more declares no level less.
THEOREM LevelsGrow ==
  ASSUME NEW codec \in Codecs, NEW tier \in {1, 2, 3}, NEW higher \in {1, 2, 3}, tier <= higher
  PROVE  Levels(codec, tier) \subseteq Levels(codec, higher)
<1>1. \A n \in {2, 3} : \A levels : From(tier, n, levels) \subseteq From(higher, n, levels)
  BY DEF From
<1>2. DvLevels(tier) \subseteq DvLevels(higher)
  BY <1>1 DEF DvLevels
<1>3. /\ AvcLevels(tier) \subseteq AvcLevels(higher)
      /\ HevcLevels(tier) \subseteq HevcLevels(higher)
      /\ Vp9Levels(tier) \subseteq Vp9Levels(higher)
      /\ Av1Levels(tier) \subseteq Av1Levels(higher)
  BY <1>1, Zenon DEF AvcLevels, HevcLevels, Vp9Levels, Av1Levels
<1> QED
  BY <1>2, <1>3, Zenon DEF Levels, DvheLevels, Dvav1Levels

\* However often the size of the input buffer is calculated again, and with whatever padding,
\* it stays within the maximum (MaxSizeCalculator).  A value above MaxInputBufferSize, which only a
\* client sets, is returned as it is.
THEOREM InputBuffersBounded ==
  ASSUME NEW value \in Nat, value <= MaxInputBufferSize, NEW size \in Nat \X Nat,
         NEW max \in Nat, max >= 3 * Mega, NEW padding \in Nat
  PROVE  MaxSizeCalculator(value, size, max, padding) \in 0 .. max
<1>1. Wanted(value, padding) \in Nat
  BY SMTT(30) DEF Wanted, Mega
<1>2. Smaller(Wanted(value, padding), max) \in 0 .. max
  BY <1>1, SMTT(30) DEF Smaller
<1>3. 3 * Mega \in 0 .. max
  BY SMTT(30) DEF Mega
<1>4. ~(value > MaxInputBufferSize)
  BY SMTT(30) DEF MaxInputBufferSize, Mega
<1> QED
  BY <1>2, <1>3, <1>4, SMTT(30) DEF MaxSizeCalculator

-----------------------------------------------------------------------------
(* Colours.                                                                 *)

\* A signal type gives back the aspects it was packed from: no field runs into another.
THEOREM SignalsReadBack ==
  ASSUME NEW iso \in [ColorFields -> 0 .. 255], iso["range"] \in {0, 1}
  PROVE  Present(SignalType(iso)) /\ IsoAspects(SignalType(iso)) = iso
<1> DEFINE r == iso["range"]
           p == iso["primaries"]
           t == iso["transfer"]
           m == iso["matrix"]
           flags == 53 + 2 * r
           high == flags * 256 + p
           middle == high * 256 + t
           s == middle * 256 + m
<1>1. p \in 0 .. 255 /\ t \in 0 .. 255 /\ m \in 0 .. 255 /\ r \in {0, 1}
  BY DEF ColorFields
<1>2. SignalType(iso) = s
  <2>1. SignalType(iso) = 889192448 + r * 33554432 + p * 65536 + t * 256 + m
    BY <1>1, SMTT(30) DEF SignalType
  <2> HIDE DEF r, p, t, m
  <2> QED
    BY <1>1, <2>1, SMTT(30)
<1> HIDE DEF r, p, t, m
<1>3. flags \in Nat /\ high \in Nat /\ middle \in Nat /\ s \in Nat
  BY <1>1, SMTT(30)
<1> HIDE DEF flags, high, middle, s
<1>4. /\ s \div 256 = middle /\ s % 256 = m
      /\ middle \div 256 = high /\ middle % 256 = t
      /\ high \div 256 = flags /\ high % 256 = p
  <2>1. s \div 256 = middle /\ s % 256 = m
    BY <1>1, <1>3, SMTT(30) DEF s
  <2>2. middle \div 256 = high /\ middle % 256 = t
    BY <1>1, <1>3, SMTT(30) DEF middle
  <2>3. high \div 256 = flags /\ high % 256 = p
    BY <1>1, <1>3, SMTT(30) DEF high
  <2> QED
    BY <2>1, <2>2, <2>3
<1>5. s \div 65536 = high /\ s \div 33554432 = 26 + r /\ s \div 536870912 = 1
  <2>1. s \div 65536 = high
    BY <1>3, <1>4, SMTT(30)
  <2>2. high \div 512 = 26 + r
    BY <1>1, <1>3, <1>4, SMTT(30) DEF flags
  <2>3. s \div 33554432 = high \div 512
    BY <1>3, <2>1, SMTT(30)
  <2>4. s \div 536870912 = (s \div 33554432) \div 16
    BY <1>3, SMTT(30)
  <2> QED
    BY <1>1, <2>1, <2>2, <2>3, <2>4, SMTT(30)
<1>6. /\ Bits(s, 536870912, 2) = 1 /\ Bits(s, 33554432, 2) = r
      /\ Bits(s, 65536, 256) = p /\ Bits(s, 256, 256) = t /\ Bits(s, 1, 256) = m
  BY <1>1, <1>3, <1>4, <1>5, SMTT(30) DEF Bits
<1>7. IsoAspects(s) = [range |-> r, primaries |-> p, transfer |-> t, matrix |-> m]
  BY <1>6, SMTT(30) DEF IsoAspects
<1>8. iso = [range |-> r, primaries |-> p, transfer |-> t, matrix |-> m]
  <2>1. DOMAIN iso = {"range", "primaries", "transfer", "matrix"}
    BY DEF ColorFields
  <2>2. iso = [f \in DOMAIN iso |-> iso[f]]
    OBVIOUS
  <2> QED
    BY <2>1, <2>2, SMTT(30) DEF r, p, t, m
<1> QED
  BY <1>2, <1>6, <1>7, <1>8, SMTT(30) DEF Present

\* Merging twice changes nothing, and the stream goes before the container.
THEOREM MergedOnce ==
  ASSUME NEW def \in [ColorFields -> Nat], NEW coded \in [ColorFields -> Nat]
  PROVE  LET merged == MergedColorAspects(def, coded)
         IN  /\ MergedColorAspects(def, merged) = merged
             /\ \A f \in ColorFields :
                  /\ coded[f] # 0 => merged[f] = coded[f]
                  /\ merged[f] = 0 <=> def[f] = 0 /\ coded[f] = 0
BY DEF MergedColorAspects

-----------------------------------------------------------------------------
(* HDR information.                                                         *)

\* What goes unnoticed is no change: HDR information that is not taken for different agrees
\* with the old one in every field but the least luminance, which is compared with the
\* largest one (isHDRStaticInfoDifferent).
THEOREM UnnoticedIsTheSame ==
  ASSUME NEW old \in [HdrFields -> Nat], NEW new \in [HdrFields -> Nat],
         ~IsHDRStaticInfoDifferent(old, new)
  PROVE  /\ \A f \in HdrFields \ {"min"} : old[f] = new[f]
         /\ old["min"] = new["max"]
<1>1. \A f \in {"redX", "redY"} : old[f] = 0 /\ new[f] = 0
  BY DEF IsHDRStaticInfoDifferent
<1>2. \A f \in Compared : old[f] = new[f]
  BY DEF IsHDRStaticInfoDifferent
<1>3. old["min"] = new["max"]
  BY DEF IsHDRStaticInfoDifferent
<1> QED
  BY <1>1, <1>2, <1>3 DEF Compared

\* What a description has at least.
Describes(x) ==
  /\ {"intf", "stored", "signal", "hdr", "hdrChanged", "colorChanged"} \subseteq DOMAIN x
  /\ {"codec", "coded"} \subseteq DOMAIN x.intf

\* The parameters taken, field by field.
LEMMA Taken ==
  ASSUME NEW x, Describes(x), NEW parms
  PROVE  LET new == CheckHDRMetadataAndColorAspects(x, parms)
         IN  /\ Describes(new)
             /\ new.signal = parms.signal /\ new.intf.codec = x.intf.codec
             /\ new.stored = IF TakesHdr(x, parms) THEN parms.hdr ELSE x.stored
             /\ new.hdr = IF TakesHdr(x, parms) THEN FromDecoder(x.intf.codec, parms.hdr) ELSE x.hdr
             /\ new.intf.coded = IF TakesAspects(x, parms) THEN CodecAspects(IsoAspects(parms.signal))
                                                          ELSE x.intf.coded
             /\ new.hdrChanged = (x.hdrChanged \/ TakesHdr(x, parms))
             /\ new.colorChanged = (x.colorChanged \/ TakesAspects(x, parms))
<1>1. CheckHDRMetadataAndColorAspects(x, parms).intf = [x.intf EXCEPT !.coded =
        IF TakesAspects(x, parms) THEN CodecAspects(IsoAspects(parms.signal)) ELSE x.intf.coded]
  BY SMT DEF CheckHDRMetadataAndColorAspects, Describes
<1> QED
  BY <1>1, SMT DEF CheckHDRMetadataAndColorAspects, Describes

\* Parameters the decoder reports again change nothing that is told of a picture, although HDR
\* information with a red primary is taken for different from itself
\* (checkHDRMetadataAndColorAspects).
THEOREM ReportedAgain ==
  ASSUME NEW x, Describes(x), NEW parms
  PROVE  LET once == CheckHDRMetadataAndColorAspects(x, parms)
             twice == CheckHDRMetadataAndColorAspects(once, parms)
         IN  /\ twice.stored = once.stored /\ twice.hdr = once.hdr
             /\ twice.intf.coded = once.intf.coded /\ twice.signal = once.signal
             /\ twice.colorChanged <=> once.colorChanged
<1> DEFINE once == CheckHDRMetadataAndColorAspects(x, parms)
           twice == CheckHDRMetadataAndColorAspects(once, parms)
<1>1. Describes(once)
  BY Taken
<1>2. ~TakesAspects(once, parms)
  BY Taken DEF TakesAspects
<1>3. TakesHdr(once, parms) => TakesHdr(x, parms)
  BY Taken DEF TakesHdr
<1>4. /\ once.signal = parms.signal /\ once.intf.codec = x.intf.codec
      /\ once.stored = IF TakesHdr(x, parms) THEN parms.hdr ELSE x.stored
      /\ once.hdr = IF TakesHdr(x, parms) THEN FromDecoder(x.intf.codec, parms.hdr) ELSE x.hdr
  BY Taken
<1>5. /\ twice.signal = parms.signal
      /\ twice.stored = IF TakesHdr(once, parms) THEN parms.hdr ELSE once.stored
      /\ twice.hdr = IF TakesHdr(once, parms) THEN FromDecoder(once.intf.codec, parms.hdr) ELSE once.hdr
      /\ twice.intf.coded = IF TakesAspects(once, parms) THEN CodecAspects(IsoAspects(parms.signal))
                                                        ELSE once.intf.coded
      /\ twice.colorChanged = (once.colorChanged \/ TakesAspects(once, parms))
  BY <1>1, Taken
<1> HIDE DEF once, twice
<1>6. /\ twice.stored = once.stored /\ twice.hdr = once.hdr
      /\ twice.intf.coded = once.intf.coded /\ twice.signal = once.signal
  BY <1>2, <1>3, <1>4, <1>5
<1>7. twice.colorChanged <=> once.colorChanged
  BY <1>2, <1>5, Zenon
<1> QED
  BY <1>6, <1>7 DEF once, twice
=============================================================================
