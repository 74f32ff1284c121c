------------------------- MODULE GraphicBlocksProofs -------------------------
(***************************************************************************)
(* Proofs about GraphicBlocks, for every set of streams and every bound    *)
(* that its assumptions allow.                                             *)
(*                                                                         *)
(* TypeCorrect: TypeOK is not inductive.  TypeInv adds that a proper board *)
(* has finitely many blocks and that the pictures that wait are in blocks  *)
(* of it, that the pool gives one id to one block, also to the blocks on   *)
(* their way, and that one call of the client is under way.                *)
(*                                                                         *)
(* HeldBlocksAreCurrent: HeldInv adds where each block is.  Two blocks can *)
(* be mistaken for each other only if the decoder has one that a picture   *)
(* still holds, so the invariant says that a block is in one place; that   *)
(* from ProvidePictureBuffers until the decoder is answered it has no      *)
(* block and reports no picture; that a flush has one reset, and from its  *)
(* answer to the next work nothing is decoded, so that onReusedOutBuf may  *)
(* give back everything; and that a block the client gave back comes under *)
(* the id it had.  Sound leaves out what the code does not keep: after a   *)
(* failure, a stop, or a change of format without a surface.               *)
(*                                                                         *)
(* First come lemmas about boards (the values of b), then about the tasks  *)
(* posted; then one lemma for each action and each invariant: QueueWorkKeeps *)
(* for TypeInv, QueueWorkHolds for HeldInv.                                *)
(***************************************************************************)
EXTENDS GraphicBlocks, TLAPS, FiniteSetTheorems, SequenceTheorems

-----------------------------------------------------------------------------
(* The blocks of the component.                                             *)

Sizes == Int \X Int
Blocks == Int \X Int \X Nat
Formats == [size : Sizes, min : Nat]
Infos == [block : Blocks, owner : Owners, fdSet : BOOLEAN]

\* The values of b.
Boards ==
  [infos : UNION {[I -> Infos] : I \in SUBSET Nat}, count : [Owners -> Int], toWork : Seq(Nat),
   slot : SUBSET Blocks, afterFlush : SUBSET Nat, resCh : BOOLEAN, error : BOOLEAN,
   failed : BOOLEAN, eosReported : BOOLEAN, drainEos : BOOLEAN, outputs : Nat,
   decoder : {"none", "waiting", "running"}, fed : BOOLEAN, held : SUBSET Nat]

\* All fields but infos and count.
SameFlags(s, t) ==
  /\ t.toWork = s.toWork /\ t.slot = s.slot /\ t.afterFlush = s.afterFlush /\ t.resCh = s.resCh
  /\ t.error = s.error /\ t.failed = s.failed /\ t.eosReported = s.eosReported
  /\ t.drainEos = s.drainEos /\ t.outputs = s.outputs /\ t.decoder = s.decoder /\ t.fed = s.fed

\* What the component counts for an owner in excess of what it has of its blocks.
Excess(s, o) == s.count[o] - Cardinality(OwnedBy(s, o))

\* The blocks of a board, typed.
LEMMA BoardInfos ==
  ASSUME NEW s \in Boards
  PROVE  /\ Ids(s) \subseteq Nat /\ s.infos \in [Ids(s) -> Infos] /\ s.count \in [Owners -> Int]
         /\ \A id \in Ids(s) : /\ s.infos[id] \in Infos /\ s.infos[id].owner \in Owners
                               /\ s.infos[id].block \in Blocks /\ s.infos[id].fdSet \in BOOLEAN
<1>1. PICK I \in SUBSET Nat : s.infos \in [I -> Infos]
  BY DEF Boards
<1>2. Ids(s) = I
  BY <1>1 DEF Ids
<1>3. s.count \in [Owners -> Int]
  BY DEF Boards
<1> QED BY <1>1, <1>2, <1>3 DEF Infos

\* The same board with other infos and counts.
LEMMA BoardWith ==
  ASSUME NEW s \in Boards, NEW I \in SUBSET Nat, NEW f \in [I -> Infos]
  PROVE  [s EXCEPT !.infos = f] \in Boards
BY DEF Boards

\* The same with other counts.
LEMMA BoardOf ==
  ASSUME NEW s \in Boards, NEW I \in SUBSET Nat, NEW f \in [I -> Infos], NEW g \in [Owners -> Int]
  PROVE  [s EXCEPT !.infos = f, !.count = g] \in Boards
BY DEF Boards

\* The blocks of each owner are finitely many.
LEMMA OwnedFinite ==
  ASSUME NEW s, IsFiniteSet(Ids(s)), NEW o
  PROVE  /\ OwnedBy(s, o) \subseteq Ids(s) /\ IsFiniteSet(OwnedBy(s, o))
         /\ Cardinality(OwnedBy(s, o)) \in Nat
<1>1. OwnedBy(s, o) \subseteq Ids(s)
  BY DEF OwnedBy
<1> QED BY <1>1, FS_Subset, FS_CardinalityType

\* GraphicBlockStateChange moves the blocks and keeps the counts.
LEMMA MovedKeeps ==
  ASSUME NEW s \in Boards, IsFiniteSet(Ids(s)), NEW ids \in SUBSET Ids(s), NEW to \in Owners
  PROVE  LET m == Moved(s, ids, to)
         IN  /\ m \in Boards /\ Ids(m) = Ids(s) /\ SameFlags(s, m) /\ m.held = s.held
             /\ \A id \in Ids(s) : /\ m.infos[id].block = s.infos[id].block
                                   /\ m.infos[id].fdSet = s.infos[id].fdSet
             /\ OwnedBy(m, to) = OwnedBy(s, to) \cup ids
             /\ \A o \in Owners \ {to} : OwnedBy(m, o) = OwnedBy(s, o) \ ids
             /\ \A o \in Owners : Excess(m, o) = Excess(s, o)
<1> DEFINE m == Moved(s, ids, to)
           f == [id \in Ids(s) |-> IF id \in ids THEN [s.infos[id] EXCEPT !.owner = to] ELSE s.infos[id]]
           g == [o \in Owners |-> IF o = to THEN s.count[o] + Cardinality(ids) - Cardinality(ids \cap OwnedBy(s, o))
                                 ELSE s.count[o] - Cardinality(ids \cap OwnedBy(s, o))]
<1>1. m = [s EXCEPT !.infos = f, !.count = g]
  BY DEF Moved, Boards
<1>2. IsFiniteSet(ids) /\ Cardinality(ids) \in Nat
  BY FS_Subset, FS_CardinalityType
<1>3. \A o : IsFiniteSet(ids \cap OwnedBy(s, o)) /\ Cardinality(ids \cap OwnedBy(s, o)) \in Nat
  <2> TAKE o
  <2>1. ids \cap OwnedBy(s, o) \subseteq ids
    OBVIOUS
  <2> QED BY <1>2, <2>1, FS_Subset, FS_CardinalityType
<1>4. Ids(s) \in SUBSET Nat /\ f \in [Ids(s) -> Infos]
  BY BoardInfos DEF Infos
<1>5. g \in [Owners -> Int]
  <2>1. \A o \in Owners : s.count[o] \in Int /\ Cardinality(ids \cap OwnedBy(s, o)) \in Int
    <3>1. \A o \in Owners : s.count[o] \in Int
      BY BoardInfos
    <3>2. \A o : Cardinality(ids \cap OwnedBy(s, o)) \in Int
      BY <1>3
    <3> QED BY <3>1, <3>2
  <2>2. Cardinality(ids) \in Int
    BY <1>2
  <2> QED BY <2>1, <2>2
<1>6. m \in Boards
  <2> HIDE DEF f, g, m
  <2> QED BY <1>1, <1>4, <1>5, BoardOf
<1>7. m.infos = f /\ m.count = g /\ SameFlags(s, m) /\ m.held = s.held
  <2> HIDE DEF f, g
  <2> QED BY <1>1 DEF Boards, SameFlags
<1>8. Ids(m) = Ids(s)
  BY <1>7 DEF Ids
<1>9. \A id \in Ids(s) : /\ m.infos[id].block = s.infos[id].block
                         /\ m.infos[id].fdSet = s.infos[id].fdSet
                         /\ m.infos[id].owner = IF id \in ids THEN to ELSE s.infos[id].owner
  BY <1>7, BoardInfos DEF Infos
<1>10. OwnedBy(m, to) = OwnedBy(s, to) \cup ids
  <2> HIDE DEF m
  <2> QED BY <1>8, <1>9 DEF OwnedBy
<1>11. \A o \in Owners \ {to} : OwnedBy(m, o) = OwnedBy(s, o) \ ids
  <2> HIDE DEF m
  <2> QED BY <1>8, <1>9 DEF OwnedBy
<1>12. ASSUME NEW o \in Owners PROVE Excess(m, o) = Excess(s, o)
  <2> DEFINE O == OwnedBy(s, o)
  <2>1. IsFiniteSet(O) /\ Cardinality(O) \in Nat /\ Cardinality(ids \cap O) \in Nat
    BY <1>3, OwnedFinite
  <2>2. Cardinality(O \cup ids) = Cardinality(O) + Cardinality(ids) - Cardinality(ids \cap O)
    <3>1. Cardinality(O \cup ids) = Cardinality(O) + Cardinality(ids) - Cardinality(O \cap ids)
      BY <1>2, <2>1, FS_Union
    <3>2. O \cap ids = ids \cap O
      OBVIOUS
    <3> QED BY <3>1, <3>2
  <2>3. Cardinality(O \ ids) = Cardinality(O) - Cardinality(ids \cap O)
    <3>1. (O \ ids) \cup (ids \cap O) = O /\ (O \ ids) \cap (ids \cap O) = {}
      OBVIOUS
    <3>2. IsFiniteSet(O \ ids) /\ Cardinality(O \ ids) \in Nat
      BY <2>1, FS_Subset, FS_CardinalityType
    <3>3. Cardinality(O) = Cardinality(O \ ids) + Cardinality(ids \cap O) - 0
      BY <1>3, <3>1, <3>2, FS_Union, FS_EmptySet
    <3> QED BY <1>3, <3>2, <3>3
  <2>4. s.count[o] \in Int
    BY BoardInfos
  <2>5. CASE o = to
    <3>1. m.count[o] = s.count[o] + Cardinality(ids) - Cardinality(ids \cap O)
      BY <1>7, <2>5
    <3>2. OwnedBy(m, o) = O \cup ids
      BY <1>10, <2>5
    <3> HIDE DEF m
    <3> QED BY <1>2, <2>1, <2>2, <2>4, <3>1, <3>2 DEF Excess
  <2>6. CASE o # to
    <3>1. m.count[o] = s.count[o] - Cardinality(ids \cap O)
      BY <1>7, <2>6
    <3>2. OwnedBy(m, o) = O \ ids
      BY <1>11, <2>6
    <3> HIDE DEF m
    <3> QED BY <2>1, <2>3, <2>4, <3>1, <3>2 DEF Excess
  <2> QED BY <2>5, <2>6
<1> QED BY <1>6, <1>7, <1>8, <1>9, <1>10, <1>11, <1>12

\* Importing blocks, and giving them to the decoder, changes no owner.
LEMMA SentKeeps ==
  ASSUME NEW s \in Boards, NEW ids \in SUBSET Ids(s)
  PROVE  LET m == Sent(s, ids)
         IN  /\ m \in Boards /\ Ids(m) = Ids(s) /\ SameFlags(s, m) /\ m.count = s.count
             /\ m.held = IF s.decoder = "running" THEN s.held \cup ids ELSE s.held
             /\ \A id \in Ids(s) : /\ m.infos[id].block = s.infos[id].block
                                   /\ m.infos[id].fdSet <=> id \in ids \/ s.infos[id].fdSet
                                   /\ m.infos[id].owner = s.infos[id].owner
             /\ \A o : OwnedBy(m, o) = OwnedBy(s, o)
             /\ \A o \in Owners : Excess(m, o) = Excess(s, o)
<1> DEFINE m == Sent(s, ids)
           f == [id \in Ids(s) |-> IF id \in ids THEN [s.infos[id] EXCEPT !.fdSet = TRUE] ELSE s.infos[id]]
           h == IF s.decoder = "running" THEN s.held \cup ids ELSE s.held
<1>1. m = [s EXCEPT !.infos = f, !.held = h]
  BY DEF Sent, Boards
<1>2. Ids(s) \in SUBSET Nat /\ f \in [Ids(s) -> Infos]
  BY BoardInfos DEF Infos
<1>3. h \in SUBSET Nat
  BY <1>2 DEF Boards
<1>4. m \in Boards
  <2> HIDE DEF f, h, m
  <2> QED BY <1>1, <1>2, <1>3 DEF Boards
<1>5. m.infos = f /\ m.count = s.count /\ SameFlags(s, m) /\ m.held = h
  <2> HIDE DEF f, h
  <2> QED BY <1>1 DEF Boards, SameFlags
<1>6. Ids(m) = Ids(s)
  BY <1>5 DEF Ids
<1>7. \A id \in Ids(s) : /\ m.infos[id].block = s.infos[id].block
                         /\ m.infos[id].fdSet <=> id \in ids \/ s.infos[id].fdSet
                         /\ m.infos[id].owner = s.infos[id].owner
  BY <1>5, BoardInfos DEF Infos
<1>8. \A o : OwnedBy(m, o) = OwnedBy(s, o)
  <2> HIDE DEF m
  <2> QED BY <1>6, <1>7 DEF OwnedBy
<1>9. \A o \in Owners : Excess(m, o) = Excess(s, o)
  BY <1>5, <1>8 DEF Excess
<1> QED BY <1>4, <1>5, <1>6, <1>7, <1>8, <1>9

\* sendOutputBufferToAccelerator, for blocks the decoder has from then on.
LEMMA GivenKeeps ==
  ASSUME NEW s \in Boards, IsFiniteSet(Ids(s)), NEW ids \in SUBSET Ids(s)
  PROVE  LET m == Given(s, ids)
         IN  /\ m \in Boards /\ Ids(m) = Ids(s) /\ SameFlags(s, m)
             /\ m.held = IF s.decoder = "running" THEN s.held \cup ids ELSE s.held
             /\ \A id \in Ids(s) : /\ m.infos[id].block = s.infos[id].block
                                   /\ m.infos[id].fdSet <=> id \in ids \/ s.infos[id].fdSet
             /\ OwnedBy(m, "accelerator") = OwnedBy(s, "accelerator") \cup ids
             /\ \A o \in {"client", "component"} : OwnedBy(m, o) = OwnedBy(s, o) \ ids
             /\ \A o \in Owners : Excess(m, o) = Excess(s, o)
<1> DEFINE t == Moved(s, ids, "accelerator")
           m == Sent(t, ids)
<1>1. "accelerator" \in Owners /\ {"client", "component"} = Owners \ {"accelerator"}
  BY DEF Owners
<1>2. /\ t \in Boards /\ Ids(t) = Ids(s) /\ SameFlags(s, t) /\ t.held = s.held
      /\ \A id \in Ids(s) : /\ t.infos[id].block = s.infos[id].block
                            /\ t.infos[id].fdSet = s.infos[id].fdSet
      /\ OwnedBy(t, "accelerator") = OwnedBy(s, "accelerator") \cup ids
      /\ \A o \in Owners \ {"accelerator"} : OwnedBy(t, o) = OwnedBy(s, o) \ ids
      /\ \A o \in Owners : Excess(t, o) = Excess(s, o)
  <2>1. "accelerator" \in Owners
    BY <1>1
  <2> QED BY <2>1, MovedKeeps
<1> HIDE DEF t
<1>3. /\ m \in Boards /\ Ids(m) = Ids(t) /\ SameFlags(t, m) /\ m.count = t.count
      /\ m.held = IF t.decoder = "running" THEN t.held \cup ids ELSE t.held
      /\ \A id \in Ids(t) : /\ m.infos[id].block = t.infos[id].block
                            /\ m.infos[id].fdSet <=> id \in ids \/ t.infos[id].fdSet
                            /\ m.infos[id].owner = t.infos[id].owner
      /\ \A o : OwnedBy(m, o) = OwnedBy(t, o)
      /\ \A o \in Owners : Excess(m, o) = Excess(t, o)
  BY <1>2, SentKeeps
<1>4. Given(s, ids) = m
  BY DEF Given, t
<1> HIDE DEF m
<1>5. SameFlags(s, m) /\ t.decoder = s.decoder
  BY <1>2, <1>3 DEF SameFlags
<1>6. \A id \in Ids(s) : /\ m.infos[id].block = s.infos[id].block
                         /\ m.infos[id].fdSet <=> id \in ids \/ s.infos[id].fdSet
  BY <1>2, <1>3
<1>7. \A o \in Owners : Excess(m, o) = Excess(s, o)
  BY <1>2, <1>3
<1> QED BY <1>1, <1>2, <1>3, <1>4, <1>5, <1>6, <1>7

\* GraphicBlockStateInit, for a block with a new id.
LEMMA AppendedKeeps ==
  ASSUME NEW s \in Boards, IsFiniteSet(Ids(s)), NEW id \in Nat, id \notin Ids(s), NEW block \in Blocks
  PROVE  LET m == Appended(s, block, id)
         IN  /\ m \in Boards /\ Ids(m) = Ids(s) \cup {id} /\ IsFiniteSet(Ids(m))
             /\ SameFlags(s, m) /\ m.held = s.held
             /\ \A i \in Ids(s) : m.infos[i] = s.infos[i]
             /\ m.infos[id] = [block |-> block, owner |-> "component", fdSet |-> FALSE]
             /\ OwnedBy(m, "component") = OwnedBy(s, "component") \cup {id}
             /\ \A o \in {"client", "accelerator"} : OwnedBy(m, o) = OwnedBy(s, o)
             /\ \A o \in Owners : Excess(m, o) = Excess(s, o)
<1> DEFINE m == Appended(s, block, id)
           info == [block |-> block, owner |-> "component", fdSet |-> FALSE]
           f == [i \in Ids(s) \cup {id} |-> IF i = id THEN info ELSE s.infos[i]]
           g == [s.count EXCEPT !["component"] = @ + 1]
<1>1. m = [s EXCEPT !.infos = f, !.count = g]
  BY DEF Appended, Boards
<1>2. Ids(s) \cup {id} \in SUBSET Nat /\ f \in [Ids(s) \cup {id} -> Infos]
  BY BoardInfos DEF Infos, Owners
<1>3. g \in [Owners -> Int] /\ g["component"] = s.count["component"] + 1
      /\ \A o \in {"client", "accelerator"} : g[o] = s.count[o]
  BY BoardInfos DEF Owners
<1>4. m \in Boards
  <2> HIDE DEF f, g, m
  <2> QED BY <1>1, <1>2, <1>3, BoardOf
<1>5. m.infos = f /\ m.count = g /\ SameFlags(s, m) /\ m.held = s.held
  <2> HIDE DEF f, g
  <2> QED BY <1>1 DEF Boards, SameFlags
<1>6. Ids(m) = Ids(s) \cup {id} /\ IsFiniteSet(Ids(m))
  <2>1. Ids(m) = Ids(s) \cup {id}
    BY <1>5 DEF Ids
  <2> QED BY <2>1, FS_AddElement
<1>7. (\A i \in Ids(s) : m.infos[i] = s.infos[i]) /\ m.infos[id] = info
  BY <1>5
<1>8. /\ OwnedBy(m, "component") = OwnedBy(s, "component") \cup {id}
      /\ \A o \in {"client", "accelerator"} : OwnedBy(m, o) = OwnedBy(s, o)
  <2> HIDE DEF m
  <2> QED BY <1>6, <1>7 DEF OwnedBy
<1>9. ASSUME NEW o \in Owners PROVE Excess(m, o) = Excess(s, o)
  <2>1. CASE o = "component"
    <3>1. id \notin OwnedBy(s, o) /\ Cardinality(OwnedBy(s, o)) \in Nat /\ IsFiniteSet(OwnedBy(s, o))
      BY OwnedFinite
    <3>2. Cardinality(OwnedBy(m, o)) = Cardinality(OwnedBy(s, o)) + 1
      BY <1>8, <2>1, <3>1, FS_AddElement
    <3>3. m.count[o] = s.count[o] + 1 /\ s.count[o] \in Int
      BY <1>3, <1>5, <2>1, BoardInfos
    <3> HIDE DEF m
    <3> QED BY <3>1, <3>2, <3>3 DEF Excess
  <2>2. CASE o # "component"
    <3>1. o \in {"client", "accelerator"}
      BY <2>2 DEF Owners
    <3>2. m.count[o] = s.count[o] /\ OwnedBy(m, o) = OwnedBy(s, o)
      BY <1>3, <1>5, <1>8, <3>1
    <3> HIDE DEF m
    <3> QED BY <3>2 DEF Excess
  <2> QED BY <2>1, <2>2
<1> QED BY <1>4, <1>5, <1>6, <1>7, <1>8, <1>9

\* A board that may be: finitely many blocks, pictures in blocks that are there, one block in
\* the slot.
Waits(s) == IdsIn(s, Len(s.toWork))
Proper(s) ==
  s \in Boards /\ IsFiniteSet(Ids(s)) /\ Waits(s) \subseteq Ids(s) /\ Cardinality(s.slot) <= 1

\* What most handlers do to the board: the blocks are the same and the counts as right as before.
Keeps(s, m) ==
  /\ m \in Boards /\ Ids(m) = Ids(s) /\ m.slot = s.slot /\ Waits(m) \subseteq Waits(s)
  /\ \A o \in Owners : Excess(m, o) = Excess(s, o)

\* Changes of that kind may follow each other, and leave a proper board.
LEMMA KeepsTwice ==
  ASSUME NEW s, NEW m, NEW n, Keeps(s, m), Keeps(m, n)
  PROVE  Keeps(s, n)
BY DEF Keeps

\* A proper board is left proper.
LEMMA KeepsProper ==
  ASSUME NEW s, NEW m, Proper(s), Keeps(s, m)
  PROVE  Proper(m)
BY DEF Keeps, Proper

\* A board that stays as it is.
LEMMA KeepsSame ==
  ASSUME NEW s \in Boards
  PROVE  Keeps(s, s)
BY DEF Keeps

\* The pictures that wait, by the sequence they are in.
LEMMA WaitsAre ==
  ASSUME NEW s, NEW t, s.toWork = t.toWork
  PROVE  Waits(s) = Waits(t) /\ \A n : IdsIn(s, n) = IdsIn(t, n)
BY DEF Waits, IdsIn

\* Boards that differ in their flags only.
Alike(s, m) ==
  m \in Boards /\ m.infos = s.infos /\ m.count = s.count /\ m.slot = s.slot /\ m.toWork = s.toWork

\* Flags are no part of it.
LEMMA AlikeKeeps ==
  ASSUME NEW s \in Boards, NEW m, Alike(s, m)
  PROVE  Keeps(s, m)
<1>1. Ids(m) = Ids(s)
  BY DEF Alike, Ids
<1>2. \A o : OwnedBy(m, o) = OwnedBy(s, o)
  BY <1>1 DEF Alike, OwnedBy
<1>3. \A o \in Owners : Excess(m, o) = Excess(s, o)
  BY <1>2 DEF Alike, Excess
<1>4. Waits(m) = Waits(s)
  BY WaitsAre DEF Alike
<1> QED BY <1>1, <1>3, <1>4 DEF Alike, Keeps

\* The single fields.
LEMMA FlagChanges ==
  ASSUME NEW s \in Boards
  PROVE  /\ \A e \in BOOLEAN : Keeps(s, [s EXCEPT !.error = e])
         /\ \A r \in BOOLEAN : Keeps(s, [s EXCEPT !.resCh = r])
         /\ \A f \in BOOLEAN : Keeps(s, [s EXCEPT !.fed = f])
         /\ \A e \in BOOLEAN : Keeps(s, [s EXCEPT !.eosReported = e])
         /\ \A d \in BOOLEAN : Keeps(s, [s EXCEPT !.drainEos = d])
         /\ \A d \in BOOLEAN, f \in BOOLEAN : Keeps(s, [s EXCEPT !.drainEos = d, !.fed = f])
         /\ \A d \in BOOLEAN, e \in BOOLEAN : Keeps(s, [s EXCEPT !.eosReported = e, !.drainEos = d])
         /\ \A F \in SUBSET Nat : Keeps(s, [s EXCEPT !.afterFlush = F])
         /\ \A H \in SUBSET Nat : Keeps(s, [s EXCEPT !.held = H])
         /\ \A H \in SUBSET Nat, f \in BOOLEAN : Keeps(s, [s EXCEPT !.held = H, !.fed = f])
         /\ \A H \in SUBSET Nat, d \in {"none", "waiting", "running"} :
              Keeps(s, [s EXCEPT !.decoder = d, !.held = H])
         /\ Keeps(s, Failed(s)) /\ Keeps(s, Noted(s)) /\ Keeps(s, EosReported(s))
<1>1. \A e \in BOOLEAN : Keeps(s, [s EXCEPT !.error = e])
  <2>1. \A e \in BOOLEAN : Alike(s, [s EXCEPT !.error = e])
    BY DEF Alike, Boards
  <2> QED BY <2>1, AlikeKeeps
<1>2. \A r \in BOOLEAN : Keeps(s, [s EXCEPT !.resCh = r])
  <2>1. \A r \in BOOLEAN : Alike(s, [s EXCEPT !.resCh = r])
    BY DEF Alike, Boards
  <2> QED BY <2>1, AlikeKeeps
<1>3. \A f \in BOOLEAN : Keeps(s, [s EXCEPT !.fed = f])
  <2>1. \A f \in BOOLEAN : Alike(s, [s EXCEPT !.fed = f])
    BY DEF Alike, Boards
  <2> QED BY <2>1, AlikeKeeps
<1>4. \A e \in BOOLEAN : Keeps(s, [s EXCEPT !.eosReported = e])
  <2>1. \A e \in BOOLEAN : Alike(s, [s EXCEPT !.eosReported = e])
    BY DEF Alike, Boards
  <2> QED BY <2>1, AlikeKeeps
<1>5. \A d \in BOOLEAN : Keeps(s, [s EXCEPT !.drainEos = d])
  <2>1. \A d \in BOOLEAN : Alike(s, [s EXCEPT !.drainEos = d])
    BY DEF Alike, Boards
  <2> QED BY <2>1, AlikeKeeps
<1>6. \A d \in BOOLEAN, f \in BOOLEAN : Keeps(s, [s EXCEPT !.drainEos = d, !.fed = f])
  <2>1. \A d \in BOOLEAN, f \in BOOLEAN : Alike(s, [s EXCEPT !.drainEos = d, !.fed = f])
    BY DEF Alike, Boards
  <2> QED BY <2>1, AlikeKeeps
<1>7. \A d \in BOOLEAN, e \in BOOLEAN : Keeps(s, [s EXCEPT !.eosReported = e, !.drainEos = d])
  <2>1. \A d \in BOOLEAN, e \in BOOLEAN : Alike(s, [s EXCEPT !.eosReported = e, !.drainEos = d])
    BY DEF Alike, Boards
  <2> QED BY <2>1, AlikeKeeps
<1>8. \A F \in SUBSET Nat : Keeps(s, [s EXCEPT !.afterFlush = F])
  <2>1. \A F \in SUBSET Nat : Alike(s, [s EXCEPT !.afterFlush = F])
    BY DEF Alike, Boards
  <2> QED BY <2>1, AlikeKeeps
<1>9. \A H \in SUBSET Nat : Keeps(s, [s EXCEPT !.held = H])
  <2>1. \A H \in SUBSET Nat : Alike(s, [s EXCEPT !.held = H])
    BY DEF Alike, Boards
  <2> QED BY <2>1, AlikeKeeps
<1>10. \A H \in SUBSET Nat, f \in BOOLEAN : Keeps(s, [s EXCEPT !.held = H, !.fed = f])
  <2>1. \A H \in SUBSET Nat, f \in BOOLEAN : Alike(s, [s EXCEPT !.held = H, !.fed = f])
    BY DEF Alike, Boards
  <2> QED BY <2>1, AlikeKeeps
<1>11. \A H \in SUBSET Nat, d \in {"none", "waiting", "running"} :
              Keeps(s, [s EXCEPT !.decoder = d, !.held = H])
  <2>1. \A H \in SUBSET Nat, d \in {"none", "waiting", "running"} : Alike(s, [s EXCEPT !.decoder = d, !.held = H])
    BY DEF Alike, Boards
  <2> QED BY Zenon, <2>1, AlikeKeeps
<1>12. Keeps(s, Failed(s))
  <2>1. Alike(s, Failed(s))
    BY DEF Alike, Boards, Failed
  <2> QED BY <2>1, AlikeKeeps
<1>13. Keeps(s, Noted(s))
  BY <1>2 DEF Noted, IsChanged
<1>14. Keeps(s, EosReported(s))
  BY <1>7 DEF EosReported, Boards
<1> QED BY Zenon, <1>1, <1>2, <1>3, <1>4, <1>5, <1>6, <1>7, <1>8, <1>9, <1>10, <1>11, <1>12, <1>13, <1>14

\* Moving blocks and giving them to the decoder.
LEMMA MovesKeep ==
  ASSUME NEW s \in Boards, IsFiniteSet(Ids(s)), NEW ids \in SUBSET Ids(s)
  PROVE  /\ \A to \in Owners : Keeps(s, Moved(s, ids, to))
         /\ Keeps(s, Sent(s, ids)) /\ Keeps(s, Given(s, ids))
<1>1. ASSUME NEW to \in Owners PROVE Keeps(s, Moved(s, ids, to))
  <2> DEFINE m == Moved(s, ids, to)
  <2> SUFFICES Keeps(s, m)
    OBVIOUS
  <2>1. m \in Boards /\ Ids(m) = Ids(s) /\ SameFlags(s, m) /\ \A o \in Owners : Excess(m, o) = Excess(s, o)
    BY MovedKeeps
  <2> HIDE DEF m
  <2>2. Waits(m) = Waits(s) /\ m.slot = s.slot
    BY <2>1, WaitsAre DEF SameFlags
  <2> QED BY <2>1, <2>2 DEF Keeps
<1>2. Keeps(s, Sent(s, ids))
  <2> DEFINE m == Sent(s, ids)
  <2> SUFFICES Keeps(s, m)
    OBVIOUS
  <2>1. m \in Boards /\ Ids(m) = Ids(s) /\ SameFlags(s, m) /\ \A o \in Owners : Excess(m, o) = Excess(s, o)
    BY SentKeeps
  <2> HIDE DEF m
  <2>2. Waits(m) = Waits(s) /\ m.slot = s.slot
    BY <2>1, WaitsAre DEF SameFlags
  <2> QED BY <2>1, <2>2 DEF Keeps
<1>3. Keeps(s, Given(s, ids))
  <2> DEFINE m == Given(s, ids)
  <2> SUFFICES Keeps(s, m)
    OBVIOUS
  <2>1. m \in Boards /\ Ids(m) = Ids(s) /\ SameFlags(s, m) /\ \A o \in Owners : Excess(m, o) = Excess(s, o)
    BY GivenKeeps
  <2> HIDE DEF m
  <2>2. Waits(m) = Waits(s) /\ m.slot = s.slot
    BY <2>1, WaitsAre DEF SameFlags
  <2> QED BY <2>1, <2>2 DEF Keeps
<1> QED BY <1>1, <1>2, <1>3

\* onReusedOutBuf.
LEMMA ReusedKeeps ==
  ASSUME NEW s, Proper(s)
  PROVE  Keeps(s, ReusedOutBuf(s))
<1> DEFINE own == [s EXCEPT !.afterFlush = {}]
           ids == (s.afterFlush \cap OwnedBy(s, "component")) \cup OwnedBy(s, "accelerator")
<1>1. Keeps(s, own)
  BY Zenon, FlagChanges DEF Proper
<1>2. own \in Boards /\ IsFiniteSet(Ids(own)) /\ ids \in SUBSET Ids(own)
  BY <1>1 DEF Keeps, Proper, OwnedBy
<1>3. Keeps(own, Given(own, ids))
  BY <1>2, MovesKeep
<1>4. Keeps(s, Given(own, ids))
  BY <1>1, <1>3, KeepsTwice
<1>5. ReusedOutBuf(s) = s \/ ReusedOutBuf(s) = Given(own, ids)
  BY DEF ReusedOutBuf
<1> QED BY <1>4, <1>5, KeepsSame DEF Proper

\* sendOutputBufferToWorkIfAny: the pictures in front go out.
LEMMA SendingKeeps ==
  ASSUME NEW s, Proper(s), NEW n \in 0 .. Len(s.toWork), NEW back \in SUBSET IdsIn(s, n)
  PROVE  Keeps(s, SentTo(s, n, back)) /\ Keeps(s, Failed(SentTo(s, n, back)))
<1> DEFINE out == Moved(s, IdsIn(s, n) \ back, "client")
           given == Given(out, back)
           m == SentTo(s, n, back)
           w == SubSeq(given.toWork, n + 1, Len(given.toWork))
<1>1. s.toWork \in Seq(Nat) /\ n \in Nat /\ Len(s.toWork) \in Nat
  BY LenProperties DEF Proper, Boards
<1>2. IdsIn(s, n) \subseteq Ids(s)
  BY <1>1 DEF Proper, Waits, IdsIn
<1>3. Keeps(s, out) /\ SameFlags(s, out)
  BY <1>2, MovesKeep, MovedKeeps DEF Proper, Owners
<1>4. out \in Boards /\ IsFiniteSet(Ids(out)) /\ back \in SUBSET Ids(out)
  BY <1>2, <1>3 DEF Keeps, Proper
<1>5. Keeps(out, given) /\ SameFlags(out, given)
  BY <1>4, MovesKeep, GivenKeeps
<1>6. Keeps(s, given) /\ given.toWork = s.toWork /\ given \in Boards
  BY <1>3, <1>5, KeepsTwice DEF SameFlags, Keeps
<1>7. m = [given EXCEPT !.toWork = w]
  BY DEF SentTo
<1> HIDE DEF m, given, out
<1>8. w \in Seq(Nat) /\ \A i \in 1 .. Len(w) : \E j \in 1 .. Len(s.toWork) : w[i] = s.toWork[j]
  <2> DEFINE q == s.toWork
  <2>1. w = SubSeq(q, n + 1, Len(q)) /\ n + 1 \in Int /\ Len(q) \in Int
    BY <1>1, <1>6
  <2>2. \A i \in n + 1 .. Len(q) : q[i] \in Nat /\ i \in 1 .. Len(q)
    BY <1>1, ElementOfSeq
  <2> HIDE DEF w, q
  <2>3. /\ w \in Seq(Nat)
        /\ Len(w) = IF n + 1 <= Len(q) THEN Len(q) - (n + 1) + 1 ELSE 0
        /\ \A i \in 1 .. Len(q) - (n + 1) + 1 : w[i] = q[n + 1 + i - 1]
    BY <2>1, <2>2, SubSeqProperties
  <2>4. ASSUME NEW i \in 1 .. Len(w) PROVE \E j \in 1 .. Len(q) : w[i] = q[j]
    <3>1. w[i] = q[n + i] /\ n + i \in 1 .. Len(q)
      BY <1>1, <2>1, <2>3
    <3> QED BY <3>1
  <2> QED BY <2>3, <2>4 DEF q
<1>9. m \in Boards /\ m.infos = given.infos /\ m.count = given.count /\ m.slot = given.slot /\ m.toWork = w
  <2> HIDE DEF w
  <2> QED BY <1>6, <1>7, <1>8 DEF Boards
<1> HIDE DEF w
<1>10. Waits(m) \subseteq Waits(s)
  <2>1. Waits(m) = {w[i] : i \in 1 .. Len(w)} /\ Waits(s) = {s.toWork[i] : i \in 1 .. Len(s.toWork)}
    BY <1>9 DEF Waits, IdsIn
  <2> QED BY <1>8, <2>1
<1>12. Ids(m) = Ids(s) /\ \A o \in Owners : Excess(m, o) = Excess(s, o)
  <2>1. Ids(m) = Ids(given)
    BY <1>9 DEF Ids
  <2>2. \A o : OwnedBy(m, o) = OwnedBy(given, o)
    BY <1>9, <2>1 DEF OwnedBy
  <2>3. \A o \in Owners : Excess(m, o) = Excess(given, o)
    BY <1>9, <2>2 DEF Excess
  <2> QED BY <1>6, <2>1, <2>3 DEF Keeps
<1>13. Keeps(s, m)
  BY <1>6, <1>9, <1>10, <1>12 DEF Keeps
<1>14. Keeps(m, Failed(m))
  BY Zenon, <1>9, FlagChanges
<1> QED BY <1>13, <1>14, KeepsTwice DEF m

\* A block that comes back, with or without its picture on the way.
LEMMA ReturnedKeeps ==
  ASSUME NEW s \in Boards, IsFiniteSet(Ids(s)), NEW id \in Ids(s), NEW block \in Blocks
  PROVE  /\ Keeps(s, Returned(s, block, id)) /\ Keeps(s, Reused(Returned(s, block, id), id))
         /\ LET m == Returned(s, block, id)
            IN  /\ SameFlags(s, m) /\ m.held = s.held
                /\ m.infos[id].block = block /\ m.infos[id].fdSet = s.infos[id].fdSet
                /\ \A i \in Ids(s) \ {id} : /\ m.infos[i].block = s.infos[i].block
                                            /\ m.infos[i].fdSet = s.infos[i].fdSet
                /\ OwnedBy(m, "component") = OwnedBy(s, "component") \cup {id}
                /\ \A o \in {"client", "accelerator"} : OwnedBy(m, o) = OwnedBy(s, o) \ {id}
<1> DEFINE f == [s.infos EXCEPT ![id].block = block]
           t == [s EXCEPT !.infos[id].block = block]
           m == Moved(t, {id}, "component")
<1>1. Returned(s, block, id) = m
  BY DEF Returned
<1>2. Ids(s) \in SUBSET Nat /\ s.infos \in [Ids(s) -> Infos]
  BY BoardInfos
<1>3. /\ f \in [Ids(s) -> Infos] /\ f[id].block = block
      /\ \A i \in Ids(s) : f[i].owner = s.infos[i].owner /\ f[i].fdSet = s.infos[i].fdSet
      /\ \A i \in Ids(s) \ {id} : f[i] = s.infos[i]
  BY <1>2 DEF Infos
<1>4. t = [s EXCEPT !.infos = f]
  BY DEF Boards
<1> HIDE DEF f, t
<1>5. t \in Boards
  BY <1>2, <1>3, <1>4, BoardWith
<1>6. t.infos = f /\ t.count = s.count /\ SameFlags(s, t) /\ t.held = s.held
  BY <1>4 DEF Boards, SameFlags
<1>7. Ids(t) = Ids(s)
  BY <1>3, <1>6 DEF Ids
<1>8. \A o : OwnedBy(t, o) = OwnedBy(s, o)
  BY <1>3, <1>6, <1>7 DEF OwnedBy
<1>9. \A o \in Owners : Excess(t, o) = Excess(s, o)
  BY <1>6, <1>8 DEF Excess
<1>10. Keeps(s, t)
  <2>1. Waits(t) = Waits(s) /\ t.slot = s.slot
    BY <1>6, WaitsAre DEF SameFlags
  <2> QED BY <1>5, <1>7, <1>9, <2>1 DEF Keeps
<1>11. "component" \in Owners /\ {"client", "accelerator"} = Owners \ {"component"}
  BY DEF Owners
<1>12. {id} \in SUBSET Ids(t) /\ IsFiniteSet(Ids(t))
  BY <1>7
<1>13. Keeps(t, m)
  BY <1>5, <1>11, <1>12, MovesKeep
<1>14. /\ m \in Boards /\ Ids(m) = Ids(t) /\ SameFlags(t, m) /\ m.held = t.held
       /\ \A i \in Ids(t) : /\ m.infos[i].block = t.infos[i].block
                            /\ m.infos[i].fdSet = t.infos[i].fdSet
       /\ OwnedBy(m, "component") = OwnedBy(t, "component") \cup {id}
       /\ \A o \in Owners \ {"component"} : OwnedBy(m, o) = OwnedBy(t, o) \ {id}
       /\ \A o \in Owners : Excess(m, o) = Excess(t, o)
  <2> DEFINE ids == {id}
  <2>1. "component" \in Owners /\ ids \in SUBSET Ids(t) /\ IsFiniteSet(Ids(t))
    BY <1>11, <1>12
  <2> HIDE DEF ids
  <2>2. LET n == Moved(t, ids, "component")
        IN  /\ n \in Boards /\ Ids(n) = Ids(t) /\ SameFlags(t, n) /\ n.held = t.held
            /\ \A i \in Ids(t) : /\ n.infos[i].block = t.infos[i].block
                                 /\ n.infos[i].fdSet = t.infos[i].fdSet
            /\ OwnedBy(n, "component") = OwnedBy(t, "component") \cup ids
            /\ \A o \in Owners \ {"component"} : OwnedBy(n, o) = OwnedBy(t, o) \ ids
            /\ \A o \in Owners : Excess(n, o) = Excess(t, o)
    BY <1>5, <2>1, MovedKeeps, ZenonT(60)
  <2> QED BY <2>2 DEF ids
<1> HIDE DEF m
<1>15. Keeps(s, m)
  BY <1>10, <1>13, KeepsTwice
<1>16. Keeps(m, Sent(m, {id})) /\ Keeps(m, Given(m, {id}))
  <2>1. {id} \in SUBSET Ids(m) /\ IsFiniteSet(Ids(m))
    BY <1>7, <1>14
  <2> QED BY <1>14, <2>1, MovesKeep
<1>17. Keeps(s, Reused(m, id))
  <2>1. Reused(m, id) = Sent(m, {id}) \/ Reused(m, id) = Given(m, {id})
    BY DEF Reused
  <2> QED BY <1>15, <1>16, <2>1, KeepsTwice
<1>18. SameFlags(s, m) /\ m.held = s.held
  BY <1>6, <1>14 DEF SameFlags
<1>19. /\ m.infos[id].block = block /\ m.infos[id].fdSet = s.infos[id].fdSet
       /\ \A i \in Ids(s) \ {id} : m.infos[i].block = s.infos[i].block /\ m.infos[i].fdSet = s.infos[i].fdSet
  BY <1>3, <1>6, <1>7, <1>14
<1>20. /\ OwnedBy(m, "component") = OwnedBy(s, "component") \cup {id}
       /\ \A o \in {"client", "accelerator"} : OwnedBy(m, o) = OwnedBy(s, o) \ {id}
  BY <1>8, <1>11, <1>14
<1> QED BY <1>1, <1>15, <1>17, <1>18, <1>19, <1>20

\* assignPictureBuffers.
LEMMA AssignedKeeps ==
  ASSUME NEW s \in Boards
  PROVE  LET m == Assigned(s)
         IN  /\ Keeps(s, m) /\ m.held = {} /\ m.decoder = "running" /\ m.count = s.count
             /\ m.toWork = s.toWork /\ m.afterFlush = s.afterFlush /\ m.failed = s.failed
             /\ m.fed = s.fed /\ m.resCh = s.resCh /\ m.slot = s.slot /\ m.error = s.error
             /\ m.outputs = s.outputs
             /\ \A id \in Ids(s) : m.infos[id].block = s.infos[id].block
             /\ \A o : OwnedBy(m, o) = OwnedBy(s, o)
<1> DEFINE f == [id \in Ids(s) |-> [s.infos[id] EXCEPT !.fdSet = FALSE]]
           m == Assigned(s)
<1>1. m = [s EXCEPT !.decoder = "running", !.held = {}, !.infos = f]
  BY DEF Assigned, Boards
<1>2. Ids(s) \in SUBSET Nat /\ f \in [Ids(s) -> Infos]
  BY BoardInfos DEF Infos
<1>3. \A id \in Ids(s) : f[id].block = s.infos[id].block /\ f[id].owner = s.infos[id].owner
  BY BoardInfos DEF Infos
<1> HIDE DEF f, m
<1>4. m \in Boards
  BY <1>1, <1>2 DEF Boards
<1>5. /\ m.infos = f /\ m.count = s.count /\ m.held = {} /\ m.decoder = "running"
      /\ m.toWork = s.toWork /\ m.afterFlush = s.afterFlush /\ m.failed = s.failed
      /\ m.fed = s.fed /\ m.resCh = s.resCh /\ m.slot = s.slot /\ m.error = s.error
      /\ m.outputs = s.outputs
  BY <1>1 DEF Boards
<1>6. Ids(m) = Ids(s)
  BY <1>2, <1>5 DEF Ids
<1>7. \A o : OwnedBy(m, o) = OwnedBy(s, o)
  BY <1>3, <1>5, <1>6 DEF OwnedBy
<1>8. \A o \in Owners : Excess(m, o) = Excess(s, o)
  BY <1>5, <1>7 DEF Excess
<1>9. Waits(m) = Waits(s)
  BY <1>5, WaitsAre
<1>10. Keeps(s, m)
  BY <1>4, <1>5, <1>6, <1>8, <1>9 DEF Keeps
<1> QED BY <1>3, <1>5, <1>7, <1>10 DEF m

\* A map without blocks.
LEMMA EmptyInfos == {} \in SUBSET Nat /\ <<>> \in [{} -> Infos] /\ DOMAIN <<>> = {}
<1>1. DOMAIN <<>> = {}
  OBVIOUS
<1>2. <<>> = [id \in {} |-> id]
  OBVIOUS
<1> QED BY <1>1, <1>2

\* A component that lets go of all its blocks, with and without taking them off the counts.
LEMMA ClearedBoard ==
  ASSUME NEW s \in Boards, IsFiniteSet(Ids(s))
  PROVE  /\ LET m == [s EXCEPT !.infos = <<>>]
            IN  /\ m \in Boards /\ Ids(m) = {} /\ IsFiniteSet(Ids(m)) /\ m.slot = s.slot
                /\ m.toWork = s.toWork
                /\ \A o \in Owners : Excess(m, o) \in Int /\ Excess(m, o) >= Excess(s, o)
         /\ LET m == NoInfos(s)
            IN  /\ m \in Boards /\ Ids(m) = {} /\ IsFiniteSet(Ids(m)) /\ m.slot \in {s.slot, {}}
                /\ m.toWork = s.toWork
                /\ \A o \in Owners : Excess(m, o) = Excess(s, o)
<1>1. \A o \in Owners : s.count[o] \in Int /\ Cardinality(OwnedBy(s, o)) \in Nat
  <2>1. \A o \in Owners : s.count[o] \in Int
    BY BoardInfos
  <2> QED BY <2>1, OwnedFinite
<1>2. \A m : Ids(m) = {} => IsFiniteSet(Ids(m)) /\ \A o : Cardinality(OwnedBy(m, o)) = 0
  BY FS_EmptySet DEF OwnedBy
<1>3. LET m == [s EXCEPT !.infos = <<>>]
      IN  /\ m \in Boards /\ Ids(m) = {} /\ IsFiniteSet(Ids(m)) /\ m.slot = s.slot
          /\ m.toWork = s.toWork
          /\ \A o \in Owners : Excess(m, o) \in Int /\ Excess(m, o) >= Excess(s, o)
  <2> DEFINE m == [s EXCEPT !.infos = <<>>]
  <2>1. m \in Boards
    BY EmptyInfos, BoardWith
  <2>2. m.infos = <<>> /\ m.count = s.count /\ m.slot = s.slot /\ m.toWork = s.toWork
    BY DEF Boards
  <2> HIDE DEF m
  <2>3. Ids(m) = {}
    BY <2>2, EmptyInfos DEF Ids
  <2>4. ASSUME NEW o \in Owners PROVE Excess(m, o) \in Int /\ Excess(m, o) >= Excess(s, o)
    <3>1. Cardinality(OwnedBy(m, o)) = 0
      BY <1>2, <2>3
    <3>2. s.count[o] \in Int /\ Cardinality(OwnedBy(s, o)) \in Nat /\ m.count[o] = s.count[o]
      BY <1>1, <2>2
    <3> QED BY <3>1, <3>2 DEF Excess
  <2> QED BY <1>2, <2>1, <2>2, <2>3, <2>4 DEF m
<1>4. LET m == NoInfos(s)
      IN  /\ m \in Boards /\ Ids(m) = {} /\ IsFiniteSet(Ids(m)) /\ m.slot \in {s.slot, {}}
          /\ m.toWork = s.toWork
          /\ \A o \in Owners : Excess(m, o) = Excess(s, o)
  <2> DEFINE m == NoInfos(s)
             g == [o \in Owners |-> s.count[o] - Cardinality(OwnedBy(s, o))]
             l == IF Ids(s) = {} THEN s.slot ELSE {}
  <2>1. m = [s EXCEPT !.infos = <<>>, !.slot = l, !.count = g]
    BY DEF NoInfos, Boards
  <2>2. g \in [Owners -> Int]
    BY <1>1
  <2>3. l \in SUBSET Blocks /\ l \in {s.slot, {}}
    BY DEF Boards
  <2> HIDE DEF m, g, l
  <2>4. m \in Boards /\ m.infos = <<>> /\ m.count = g /\ m.slot = l /\ m.toWork = s.toWork
    <3>1. <<>> \in UNION {[I -> Infos] : I \in SUBSET Nat}
      BY EmptyInfos
    <3> QED BY <2>1, <2>2, <2>3, <3>1 DEF Boards
  <2>5. Ids(m) = {}
    BY <2>4, EmptyInfos DEF Ids
  <2>6. ASSUME NEW o \in Owners PROVE Excess(m, o) = Excess(s, o)
    <3>1. Cardinality(OwnedBy(m, o)) = 0
      BY <1>2, <2>5
    <3>2. s.count[o] \in Int /\ Cardinality(OwnedBy(s, o)) \in Nat
            /\ m.count[o] = s.count[o] - Cardinality(OwnedBy(s, o))
      BY <1>1, <2>4 DEF g
    <3> QED BY <3>1, <3>2 DEF Excess
  <2> QED BY <1>2, <2>3, <2>4, <2>5, <2>6 DEF m
<1> QED BY <1>3, <1>4

\* allocateBuffersFromBlockPool: the first blocks, with the first ids.
FirstInfos(size, k) ==
  [id \in 0 .. k - 1 |-> [block |-> <<size[1], size[2], id + 1>>, owner |-> "component", fdSet |-> FALSE]]

\* The board with them, before the decoder has them.
LEMMA AllocatedBoard ==
  ASSUME NEW s \in Boards, Ids(s) = {}, NEW k \in Nat, NEW size \in Sizes
  PROVE  LET m == [s EXCEPT !.infos = FirstInfos(size, k), !.count["component"] = @ + k]
         IN  /\ m \in Boards /\ Ids(m) = 0 .. k - 1 /\ IsFiniteSet(Ids(m)) /\ SameFlags(s, m)
             /\ m.held = s.held /\ m.infos = FirstInfos(size, k)
             /\ OwnedBy(m, "component") = 0 .. k - 1
             /\ \A o \in {"client", "accelerator"} : OwnedBy(m, o) = {}
             /\ \A o \in Owners : Excess(m, o) = Excess(s, o)
<1> DEFINE f == FirstInfos(size, k)
           g == [s.count EXCEPT !["component"] = @ + k]
           m == [s EXCEPT !.infos = f, !.count["component"] = @ + k]
<1>1. m = [s EXCEPT !.infos = f, !.count = g]
  BY DEF Boards
<1>2. 0 .. k - 1 \in SUBSET Nat /\ f \in [0 .. k - 1 -> Infos]
  <2>1. \A id \in 0 .. k - 1 : <<size[1], size[2], id + 1>> \in Blocks
    BY DEF Blocks, Sizes
  <2> QED BY <2>1 DEF Infos, Owners, FirstInfos
<1>3. /\ g \in [Owners -> Int] /\ g["component"] = s.count["component"] + k
      /\ \A o \in {"client", "accelerator"} : g[o] = s.count[o]
      /\ \A o \in Owners : s.count[o] \in Int
  BY BoardInfos DEF Owners
<1>4. \A id \in 0 .. k - 1 : f[id].owner = "component"
  BY DEF FirstInfos
<1> HIDE DEF f, g, m
<1>5. m \in Boards
  BY <1>1, <1>2, <1>3, BoardOf
<1>6. m.infos = f /\ m.count = g /\ SameFlags(s, m) /\ m.held = s.held
  BY <1>1 DEF Boards, SameFlags
<1>7. Ids(m) = 0 .. k - 1
  BY <1>2, <1>6 DEF Ids
<1>8. IsFiniteSet(0 .. k - 1) /\ Cardinality(0 .. k - 1) = k
  <2>1. 0 \in Int /\ k - 1 \in Int
    OBVIOUS
  <2>2. Cardinality(0 .. k - 1) = IF 0 > k - 1 THEN 0 ELSE k - 1 - 0 + 1
    BY <2>1, FS_Interval
  <2> QED BY <2>1, <2>2, FS_Interval
<1>9. OwnedBy(m, "component") = 0 .. k - 1
  BY <1>4, <1>6, <1>7 DEF OwnedBy
<1>10. \A o \in {"client", "accelerator"} : OwnedBy(m, o) = {}
  BY <1>4, <1>6, <1>7 DEF OwnedBy
<1>11. ASSUME NEW o \in Owners PROVE Excess(m, o) = Excess(s, o)
  <2>1. OwnedBy(s, o) = {} /\ Cardinality({}) = 0
    BY FS_EmptySet DEF OwnedBy
  <2>2. CASE o = "component"
    <3>1. m.count[o] = s.count[o] + k /\ Cardinality(OwnedBy(m, o)) = k
      BY <1>3, <1>6, <1>8, <1>9, <2>2
    <3> QED BY <1>3, <2>1, <3>1 DEF Excess
  <2>3. CASE o # "component"
    <3>1. o \in {"client", "accelerator"}
      BY <2>3 DEF Owners
    <3>2. m.count[o] = s.count[o] /\ Cardinality(OwnedBy(m, o)) = 0
      BY <1>3, <1>6, <1>10, <2>1, <3>1
    <3> QED BY <1>3, <2>1, <3>2 DEF Excess
  <2> QED BY <2>2, <2>3
<1> QED BY <1>5, <1>6, <1>7, <1>8, <1>9, <1>10, <1>11 DEF m, f

-----------------------------------------------------------------------------
(* Types.                                                                   *)

PlainOps == {"dequeueWork", "tryChange", "drain", "flush", "stop", "resetDone", "drainDone"}
BlockOps == {"returned", "new"}
Kinds == {"data", "eos", "drain"}
Tasks ==
  [op : PlainOps] \cup [op : {"queueWork"}, kind : {"data", "eos"}] \cup [op : {"output"}, id : Nat]
    \cup [op : BlockOps, block : Blocks, id : Nat] \cup [op : {"formatChanged"}, format : Formats]

\* The types of the variables, but for the board.
TypesOK ==
  /\ stream \in Streams /\ device.codec \in Codecs /\ state \in States /\ at \in Places
  /\ "codec" \in DOMAIN device /\ "widthAlign" \in DOMAIN device
  /\ works \in Seq(Kinds) /\ todo \in Seq(Tasks)
  /\ format \in Formats /\ last \in Formats /\ pending \in SUBSET Formats /\ Cardinality(pending) <= 1
  /\ client \in {"idle", "flushing", "woken", "stopping"}
  /\ fetch \in SUBSET Sizes /\ Cardinality(fetch) <= 1
  /\ tasks \in Nat /\ waiting \in Nat /\ nextId \in Nat /\ poolMax \in Nat /\ resets \in Nat /\ shown \in Nat
  /\ DOMAIN pool \in SUBSET Blocks /\ pool \in [DOMAIN pool -> Nat]
  /\ first \in BOOLEAN /\ runLoop \in BOOLEAN /\ allocLoop \in BOOLEAN /\ changing \in BOOLEAN
  /\ haveDrain \in BOOLEAN /\ haveFlush \in BOOLEAN /\ reuse \in BOOLEAN /\ draining \in BOOLEAN

\* A device keeps its codec and its alignment, and has the fields of one.
SameDevice(d, e) ==
  /\ "codec" \in DOMAIN e /\ "widthAlign" \in DOMAIN e
  /\ e.codec = d.codec /\ e.widthAlign = d.widthAlign

\* The fields that say how pictures are shown may change.
LEMMA ChangedDevice ==
  ASSUME NEW d, "codec" \in DOMAIN d, "widthAlign" \in DOMAIN d
  PROVE  /\ \A v : /\ SameDevice(d, [d EXCEPT !.dw = v]) /\ SameDevice(d, [d EXCEPT !.p010 = v])
                  /\ SameDevice(d, [d EXCEPT !.tw = v]) /\ SameDevice(d, [d EXCEPT !.bitDepth = v])
                  /\ SameDevice(d, [d EXCEPT !.noSurface = v]) /\ SameDevice(d, [d EXCEPT !.texture = v])
                  /\ SameDevice(d, [d EXCEPT !.is8k = v]) /\ SameDevice(d, [d EXCEPT !.nr = v])
                  /\ SameDevice(d, [d EXCEPT !.diLocal = v])
BY DEF SameDevice

\* What the component does to its device.
LEMMA DeviceKept ==
  ASSUME NEW d, "codec" \in DOMAIN d, "widthAlign" \in DOMAIN d
  PROVE  /\ SameDevice(d, Reconfigured(d)) /\ SameDevice(d, Surfaced(d)) /\ SameDevice(d, CodecConfig(d))
         /\ \A answer : SameDevice(d, QueryStreamBitDepth(d, answer))
<1>1. SameDevice(d, d)
  BY DEF SameDevice
<1>2. \A e, f : SameDevice(d, e) /\ SameDevice(e, f) => SameDevice(d, f)
  BY DEF SameDevice
<1>3. \A e : SameDevice(d, e) => SameDevice(d, ReconfigInterlace(e))
  <2> SUFFICES ASSUME NEW e, SameDevice(d, e) PROVE SameDevice(d, ReconfigInterlace(e))
    OBVIOUS
  <2>1. ReconfigInterlace(e) = e \/ \E v : ReconfigInterlace(e) = [e EXCEPT !.dw = v]
    BY DEF ReconfigInterlace
  <2>2. \A v : SameDevice(e, [e EXCEPT !.dw = v])
    BY ChangedDevice DEF SameDevice
  <2> QED BY <1>2, <2>1, <2>2
<1>4. \A e : SameDevice(d, e) => SameDevice(d, ReconfigP010(e))
  <2> SUFFICES ASSUME NEW e, SameDevice(d, e) PROVE SameDevice(d, ReconfigP010(e))
    OBVIOUS
  <2>1. \/ ReconfigP010(e) = e \/ \E v : ReconfigP010(e) = [e EXCEPT !.dw = v]
        \/ \E v, w : ReconfigP010(e) = [e EXCEPT !.dw = v, !.tw = w]
    BY DEF ReconfigP010
  <2>2. \A v, w : SameDevice(e, [e EXCEPT !.dw = v]) /\ SameDevice(e, [e EXCEPT !.dw = v, !.tw = w])
    BY DEF SameDevice
  <2> QED BY <1>2, <2>1, <2>2
<1>5. SameDevice(d, Reconfigured(d))
  <2>1. SameDevice(d, ReconfigInterlace(d))
    BY <1>1, <1>3
  <2>2. \A e : SameDevice(d, e) => SameDevice(d, [e EXCEPT !.p010 = TRUE])
    BY <1>2, ChangedDevice DEF SameDevice
  <2> QED BY <1>4, <2>1, <2>2 DEF Reconfigured
<1>6. SameDevice(d, Surfaced(d))
  <2>1. SameDevice(d, [d EXCEPT !.noSurface = TRUE]) /\ SameDevice(d, [d EXCEPT !.texture = TRUE])
    BY ChangedDevice
  <2> QED BY <1>1, <2>1 DEF Surfaced
<1>7. SameDevice(d, CodecConfig(d))
  <2> DEFINE eightK == d.is8k \/ Is8k(d)
             quiet == [d EXCEPT !.is8k = eightK,
                                !.nr = @ /\ ~LowLatency(d) /\ (Is8k(d) => d.nr8k),
                                !.diLocal = @ /\ ~LowLatency(d)]
             config == [quiet EXCEPT !.dw = GetDoubleWriteModeValue(quiet),
                                     !.tw = IF d.propertyTw >= 0 THEN d.propertyTw ELSE 0,
                                     !.nr = @ /\ ~NoDisplay(d), !.diLocal = @ /\ ~NoDisplay(d)]
  <2>1. CodecConfig(d) = config
    BY DEF CodecConfig
  <2>2. SameDevice(d, quiet)
    BY DEF SameDevice
  <2> HIDE DEF quiet
  <2>3. SameDevice(quiet, config)
    BY <2>2 DEF SameDevice
  <2> HIDE DEF config
  <2> QED BY <1>2, <2>1, <2>2, <2>3
<1>8. \A answer : SameDevice(d, QueryStreamBitDepth(d, answer))
  <2> TAKE answer
  <2>1. SameDevice(d, [d EXCEPT !.bitDepth = answer])
    BY ChangedDevice
  <2> QED BY <1>1, <2>1 DEF QueryStreamBitDepth
<1> QED BY <1>5, <1>6, <1>7, <1>8

-----------------------------------------------------------------------------
(* The posted tasks.                                                        *)

Has(q, op) == \E i \in DOMAIN q : q[i].op = op
OneFlush(q) == \A i, j \in DOMAIN q : q[i].op = "flush" /\ q[j].op = "flush" => i = j
BlocksApart(q) ==
  \A i, j \in DOMAIN q : q[i].op \in BlockOps /\ q[j].op \in BlockOps /\ q[i].block = q[j].block => i = j

\* After a task was taken (k = 1), or none (k = 0), and one of these may be posted.
Follows(q, r, k, posted) ==
  /\ k \in {0, 1} /\ r \in Seq(Tasks)
  /\ \A i \in DOMAIN r : \/ i + k \in DOMAIN q /\ r[i] = q[i + k]
                         \/ i = Len(r) /\ r[i] \in posted

\* The ways in which the steps change the tasks.
LEMMA TasksFollow ==
  ASSUME NEW q \in Seq(Tasks)
  PROVE  /\ Follows(q, q, 0, {})
         /\ q # <<>> => Follows(q, Tail(q), 1, {})
         /\ \A t \in Tasks : /\ Follows(q, Append(q, t), 0, {t})
                             /\ q # <<>> => Follows(q, Append(Tail(q), t), 1, {t})
<1>1. Follows(q, q, 0, {})
  <2>1. \A i \in DOMAIN q : i + 0 = i
    BY LenProperties
  <2> QED BY <2>1 DEF Follows
<1>2. ASSUME q # <<>>
      PROVE  /\ Tail(q) \in Seq(Tasks) /\ Len(Tail(q)) = Len(q) - 1 /\ Len(q) \in Nat
             /\ \A i \in 1 .. Len(Tail(q)) : i + 1 \in DOMAIN q /\ Tail(q)[i] = q[i + 1]
  BY <1>2, HeadTailProperties, LenProperties
<1>3. ASSUME q # <<>> PROVE Follows(q, Tail(q), 1, {})
  <2>1. DOMAIN Tail(q) = 1 .. Len(Tail(q))
    BY <1>2, <1>3, LenProperties
  <2> QED BY <1>2, <1>3, <2>1 DEF Follows
<1>4. ASSUME NEW t \in Tasks, NEW p \in Seq(Tasks)
      PROVE  /\ Append(p, t) \in Seq(Tasks) /\ Len(Append(p, t)) = Len(p) + 1
             /\ DOMAIN Append(p, t) = 1 .. Len(p) + 1 /\ DOMAIN p = 1 .. Len(p) /\ Len(p) \in Nat
             /\ \A i \in DOMAIN Append(p, t) :
                  (i \in DOMAIN p /\ Append(p, t)[i] = p[i]) \/ (i = Len(p) + 1 /\ Append(p, t)[i] = t)
  <2>1. /\ Append(p, t) \in Seq(Tasks) /\ Len(Append(p, t)) = Len(p) + 1
        /\ Append(p, t)[Len(p) + 1] = t /\ \A i \in 1 .. Len(p) : Append(p, t)[i] = p[i]
    BY AppendProperties
  <2>2. DOMAIN p = 1 .. Len(p) /\ Len(p) \in Nat
    BY LenProperties
  <2>3. DOMAIN Append(p, t) = 1 .. Len(p) + 1
    BY <2>1, LenProperties
  <2>4. \A i \in 1 .. Len(p) + 1 : i \in 1 .. Len(p) \/ i = Len(p) + 1
    BY <2>2
  <2>5. \A i \in DOMAIN Append(p, t) :
          (i \in DOMAIN p /\ Append(p, t)[i] = p[i]) \/ (i = Len(p) + 1 /\ Append(p, t)[i] = t)
    BY <2>1, <2>2, <2>3, <2>4, Zenon
  <2> QED BY <2>1, <2>2, <2>3, <2>5
<1>5. ASSUME NEW t \in Tasks PROVE Follows(q, Append(q, t), 0, {t})
  <2>1. \A i \in DOMAIN q : i + 0 = i
    BY LenProperties
  <2> QED BY <1>4, <2>1 DEF Follows
<1>6. ASSUME NEW t \in Tasks, q # <<>> PROVE Follows(q, Append(Tail(q), t), 1, {t})
  <2> DEFINE p == Tail(q)
  <2>1. /\ p \in Seq(Tasks)
        /\ \A i \in 1 .. Len(p) : i + 1 \in DOMAIN q /\ p[i] = q[i + 1]
    BY <1>2, <1>6
  <2> HIDE DEF p
  <2>2. Follows(q, Append(p, t), 1, {t})
    BY <1>4, <2>1 DEF Follows
  <2> QED BY <2>2 DEF p
<1> QED BY <1>1, <1>3, <1>5, <1>6

\* Nothing new that starts or stops, or has a block.
QuietTasks(q, r) ==
  /\ r \in Seq(Tasks) /\ \A op \in {"flush", "stop"} : Has(r, op) => Has(q, op)
  /\ OneFlush(q) => OneFlush(r)
  /\ BlocksApart(q) => BlocksApart(r)
  /\ \A i \in DOMAIN r : r[i].op \in BlockOps => \E j \in DOMAIN q : r[i] = q[j]

\* Steps of that kind keep what is said of flushes, stops and blocks on their way.
LEMMA QuietFollows ==
  ASSUME NEW q \in Seq(Tasks), NEW r, NEW k, NEW posted, Follows(q, r, k, posted),
         \A t \in posted : t.op \notin {"flush", "stop"} \cup BlockOps
  PROVE  QuietTasks(q, r)
<1>1. \A i \in DOMAIN r : r[i].op \in {"flush", "stop"} \cup BlockOps => i + k \in DOMAIN q /\ r[i] = q[i + k]
  BY DEF Follows
<1>2. \A i, j \in DOMAIN r : i + k = j + k => i = j
  BY LenProperties DEF Follows
<1>3. \A op \in {"flush", "stop"} : Has(r, op) => Has(q, op)
  BY <1>1 DEF Has
<1>4. OneFlush(q) => OneFlush(r)
  <2> SUFFICES ASSUME OneFlush(q), NEW i \in DOMAIN r, NEW j \in DOMAIN r, r[i].op = "flush", r[j].op = "flush"
               PROVE  i = j
    BY DEF OneFlush
  <2>1. i + k \in DOMAIN q /\ j + k \in DOMAIN q /\ q[i + k].op = "flush" /\ q[j + k].op = "flush"
    BY <1>1
  <2>2. i + k = j + k
    BY <2>1 DEF OneFlush
  <2> QED BY <1>2, <2>2
<1>5. BlocksApart(q) => BlocksApart(r)
  <2> SUFFICES ASSUME BlocksApart(q), NEW i \in DOMAIN r, NEW j \in DOMAIN r,
                      r[i].op \in BlockOps, r[j].op \in BlockOps, r[i].block = r[j].block
               PROVE  i = j
    BY DEF BlocksApart
  <2>1. i + k \in DOMAIN q /\ j + k \in DOMAIN q /\ r[i] = q[i + k] /\ r[j] = q[j + k]
    BY <1>1
  <2>2. i + k = j + k
    BY <2>1 DEF BlocksApart
  <2> QED BY <1>2, <2>2
<1>6. \A i \in DOMAIN r : r[i].op \in BlockOps => \E j \in DOMAIN q : r[i] = q[j]
  BY <1>1
<1> QED BY <1>3, <1>4, <1>5, <1>6 DEF QuietTasks, Follows

\* The task at the head is one of the tasks, and what is left when it was taken.
LEMMA HeadTask ==
  ASSUME NEW q \in Seq(Tasks), q # <<>>
  PROVE  /\ Head(q) \in Tasks /\ 1 \in DOMAIN q /\ q[1] = Head(q)
         /\ \A i \in DOMAIN Tail(q) : i + 1 \in DOMAIN q /\ Tail(q)[i] = q[i + 1] /\ i + 1 # 1
<1>1. Head(q) = q[1] /\ 1 \in DOMAIN q /\ q[1] \in Tasks
  BY LenProperties, EmptySeq, HeadTailProperties
<1>2. \A i \in DOMAIN Tail(q) : i + 1 \in DOMAIN q /\ Tail(q)[i] = q[i + 1] /\ i + 1 # 1
  BY HeadTailProperties, LenProperties
<1> QED BY <1>1, <1>2

-----------------------------------------------------------------------------
(* What holds in every state, of which TypeOK is a part.                    *)

\* The pictures that wait have blocks the component knows.
BoardOK == Proper(b) /\ (at \in {"change", "allocate"} => b.toWork = <<>>)

\* The counts are right, but for the blocks a change without a surface forgot.
Counted ==
  state # "UNINITIALIZED" =>
    \A o \in Owners : Excess(b, o) >= 0 /\ (stream.surface => Excess(b, o) = 0)

\* A client has one call under way, and the component is in the state for it.
Serial ==
  /\ OneFlush(todo) /\ (Has(todo, "flush") => client = "flushing" /\ state # "FLUSHING")
  /\ Has(todo, "stop") => client = "stopping"
  /\ state \in {"STOPPING", "UNINITIALIZED"} => client = "stopping"
  /\ state = "FLUSHING" => client = "flushing"
  /\ at = "flushDone" => state = "FLUSHING"
  /\ at \in {"stopping", "stopDone"} => state = "STOPPING"

\* Before the first allocation there is no block, and nobody is asked for one.
Empty ==
  /\ ~first => Ids(b) = {}
  /\ ~first /\ state # "UNINITIALIZED" =>
       /\ tasks = 0 /\ waiting = 0 /\ fetch = {}
       /\ \A i \in DOMAIN todo : todo[i].op \notin BlockOps
  /\ at = "allocate" => ~first /\ state # "UNINITIALIZED"
  /\ at = "change" => first
  /\ state = "UNINITIALIZED" => ~first /\ pending = {}

\* The pool has one id for each block, and a block on its way has the id the pool gave it, which
\* for a new block the component has not.
Pooled ==
  /\ \A block \in DOMAIN pool : pool[block] < nextId
  /\ \A k, l \in DOMAIN pool : pool[k] = pool[l] => k = l
  /\ BlocksApart(todo)
  /\ \A i \in DOMAIN todo : todo[i].op \in BlockOps /\ todo[i].block \in DOMAIN pool =>
       pool[todo[i].block] = todo[i].id /\ (todo[i].op = "new" => todo[i].id \notin Ids(b))

TypeInv == TypesOK /\ BoardOK /\ Counted /\ Serial /\ Empty /\ Pooled

\* What a step does that has no part in what TypeInv says of blocks and pool: it keeps the
\* blocks and their counts, and starts no task of the dequeue thread before the first allocation.
Steady ==
  /\ Proper(b') /\ Ids(b') = Ids(b) /\ \A o \in Owners : Excess(b', o) = Excess(b, o)
  /\ QuietTasks(todo, todo')
  /\ stream' = stream /\ pool' = pool /\ nextId' = nextId /\ first' = first
  /\ state' = "UNINITIALIZED" <=> state = "UNINITIALIZED"
  /\ at' \in {"change", "allocate"} => b'.toWork = <<>>
  /\ at' = "allocate" => ~first /\ state # "UNINITIALIZED"
  /\ at' = "change" => first
  /\ state = "UNINITIALIZED" => pending' = {}
  /\ ~first /\ state # "UNINITIALIZED" => tasks' = 0 /\ waiting' = 0 /\ fetch' = {}

\* What a step like that keeps of the invariant.
LEMMA SteadyKeeps ==
  ASSUME TypeInv, Steady
  PROVE  BoardOK' /\ Counted' /\ Empty' /\ Pooled'
<1>1. BoardOK'
  BY DEF Steady, BoardOK
<1>2. Counted'
  BY DEF Steady, Counted, TypeInv
<1>3. Empty'
  <2>1. \A i \in DOMAIN todo' : todo'[i].op \in BlockOps => \E j \in DOMAIN todo : todo[j].op \in BlockOps
    BY DEF Steady, QuietTasks
  <2> QED BY <2>1 DEF Steady, Empty, TypeInv
<1>4. Pooled'
  <2>1. BlocksApart(todo)' /\ \A i \in DOMAIN todo' : todo'[i].op \in BlockOps => \E j \in DOMAIN todo : todo'[i] = todo[j]
    BY DEF Steady, QuietTasks, Pooled, TypeInv
  <2> QED BY <2>1 DEF Steady, Pooled, TypeInv
<1> QED BY <1>1, <1>2, <1>3, <1>4

\* A step that neither starts nor ends a call of the client.
LEMMA SerialKept ==
  ASSUME TypeInv, QuietTasks(todo, todo'), client' = client,
         state' = state \/ {state, state'} \subseteq {"STARTED", "DRAINING"},
         at' \in {"flushDone", "stopping", "stopDone"} => at' = at
  PROVE  Serial'
<1>1. OneFlush(todo)' /\ (Has(todo, "flush")' => Has(todo, "flush")) /\ (Has(todo, "stop")' => Has(todo, "stop"))
  BY DEF TypeInv, Serial, QuietTasks
<1> QED BY <1>1 DEF TypeInv, Serial

\* The tasks after a step that posts nothing that starts a call or has a block.
LEMMA QuietPosts ==
  ASSUME TypeInv
  PROVE  /\ UNCHANGED todo => QuietTasks(todo, todo')
         /\ todo # <<>> /\ todo' = Tail(todo) => QuietTasks(todo, todo')
         /\ \A t \in Tasks : t.op \notin {"flush", "stop"} \cup BlockOps =>
              /\ todo' = Append(todo, t) => QuietTasks(todo, todo')
              /\ todo # <<>> /\ todo' = Append(Tail(todo), t) => QuietTasks(todo, todo')
<1>1. todo \in Seq(Tasks)
  BY DEF TypeInv, TypesOK
<1>2. \A r, k : Follows(todo, r, k, {}) => QuietTasks(todo, r)
  <2>1. \A t \in {} : t.op \notin {"flush", "stop"} \cup BlockOps
    OBVIOUS
  <2> QED BY <1>1, <2>1, QuietFollows
<1>3. /\ UNCHANGED todo => QuietTasks(todo, todo')
      /\ todo # <<>> /\ todo' = Tail(todo) => QuietTasks(todo, todo')
  <2>1. QuietTasks(todo, todo)
    BY <1>1, <1>2, TasksFollow
  <2>2. ASSUME todo # <<>> PROVE QuietTasks(todo, Tail(todo))
    BY <1>1, <1>2, <2>2, TasksFollow
  <2> QED BY <2>1, <2>2
<1>4. ASSUME NEW t \in Tasks, t.op \notin {"flush", "stop"} \cup BlockOps
      PROVE  /\ todo' = Append(todo, t) => QuietTasks(todo, todo')
             /\ todo # <<>> /\ todo' = Append(Tail(todo), t) => QuietTasks(todo, todo')
  <2>1. \A r, k : Follows(todo, r, k, {t}) => QuietTasks(todo, r)
    <3>1. \A u \in {t} : u.op \notin {"flush", "stop"} \cup BlockOps
      BY <1>4
    <3> QED BY <1>1, <3>1, QuietFollows
  <2>2. /\ Follows(todo, Append(todo, t), 0, {t})
        /\ todo # <<>> => Follows(todo, Append(Tail(todo), t), 1, {t})
    BY <1>1, TasksFollow
  <2> QED BY <2>1, <2>2
<1> QED BY <1>2, <1>3, <1>4

\* The tasks that have no argument.
LEMMA PlainTasks ==
  \A op \in PlainOps : Plain(op) \in Tasks /\ Plain(op).op = op /\ op \notin BlockOps
BY DEF PlainOps, Plain, Tasks, BlockOps

-----------------------------------------------------------------------------
(* The works, and what starts the dequeue thread.                           *)

\* What a board counts for an owner is a number, and no less than what is there.
LEMMA CountsAre ==
  ASSUME NEW s, Proper(s), NEW o \in Owners, Excess(s, o) >= 0
  PROVE  s.count[o] \in Nat
<1>1. s.count[o] \in Int
  BY BoardInfos DEF Proper
<1>2. Cardinality(OwnedBy(s, o)) \in Nat
  BY OwnedFinite DEF Proper
<1> QED BY <1>1, <1>2 DEF Excess

\* reStartAllocTask posts a number of tasks, and none before the first allocation.
LEMMA Restarts ==
  ASSUME TypeInv, state # "UNINITIALIZED", NEW s, Keeps(b, s), ReStartAllocTask(s)
  PROVE  /\ tasks' \in Nat /\ waiting' = 0 /\ runLoop' = TRUE /\ allocLoop' = TRUE
         /\ ~first => tasks' = 0
<1>1. Proper(s) /\ \A o \in Owners : Excess(s, o) >= 0
  <2>1. Proper(b)
    BY DEF TypeInv, BoardOK
  <2>2. \A o \in Owners : Excess(b, o) >= 0
    BY DEF TypeInv, Counted
  <2>3. \A o \in Owners : Excess(s, o) = Excess(b, o)
    BY DEF Keeps
  <2> QED BY <2>1, <2>2, <2>3, KeepsProper
<1>2. s.count["client"] \in Nat /\ s.count["accelerator"] \in Nat /\ s.count["component"] \in Nat
  BY <1>1, CountsAre DEF Owners
<1>3. format.min \in Nat
  BY DEF TypeInv, TypesOK, Formats
<1>4. RestartTasks(s) \in Nat
  <2>1. StopCount(s) \in Int
    BY <1>2, <1>3 DEF StopCount
  <2> QED BY <1>2, <2>1 DEF RestartTasks, Larger
<1>5. tasks \in Nat /\ waiting \in Nat /\ (~first => tasks = 0 /\ waiting = 0)
  BY DEF TypeInv, TypesOK, Empty
<1> HIDE DEF RestartTasks
<1> QED BY <1>4, <1>5 DEF ReStartAllocTask, Started

\* QueueWork keeps TypeInv: it may start the dequeue thread again, after the first allocation only.
LEMMA QueueWorkKeeps ==
  ASSUME TypeInv, QueueWork
  PROVE  TypeInv'
<1> DEFINE s == ReusedOutBuf(b)
           restart == s.eosReported \/ haveFlush
<1>1. Keeps(b, s) /\ Proper(s) /\ state # "UNINITIALIZED"
  BY ReusedKeeps, KeepsProper DEF TypeInv, BoardOK, QueueWork, Refuses
<1>2. /\ b' = [s EXCEPT !.eosReported = @ /\ ~restart] /\ haveDrain' = (haveDrain /\ ~restart)
      /\ restart => ReStartAllocTask(s)
      /\ ~restart => UNCHANGED <<runLoop, allocLoop, tasks, waiting>>
  BY DEF QueueWork
<1>3. Keeps(b, b') /\ Proper(b')
  <2>1. restart \in BOOLEAN /\ (s.eosReported /\ ~restart) \in BOOLEAN
    OBVIOUS
  <2>2. Keeps(s, [s EXCEPT !.eosReported = s.eosReported /\ ~restart])
    BY Zenon, <1>1, <2>1, FlagChanges DEF Proper
  <2> HIDE DEF s, restart
  <2>3. Keeps(s, b')
    BY <1>2, <2>2
  <2> QED BY <1>1, <2>3, KeepsTwice, KeepsProper
<1>4. /\ tasks' \in Nat /\ waiting' \in Nat /\ runLoop' \in BOOLEAN /\ allocLoop' \in BOOLEAN
      /\ ~first => tasks' = 0 /\ waiting' = 0
  <2> HIDE DEF s, restart
  <2>1. CASE restart
    <3>1. /\ tasks' \in Nat /\ waiting' = 0 /\ runLoop' = TRUE /\ allocLoop' = TRUE
          /\ ~first => tasks' = 0
      BY <1>1, <1>2, <2>1, Restarts
    <3> QED BY <3>1
  <2>2. CASE ~restart
    BY <1>1, <1>2, <2>2 DEF TypeInv, TypesOK, Empty
  <2> QED BY <2>1, <2>2
<1> HIDE DEF s, restart
<1>5. /\ todo # <<>> /\ Head(todo).op = "queueWork" /\ todo' = Append(Tail(todo), Plain("dequeueWork"))
      /\ works' = Append(works, Task.kind) /\ reuse' = FALSE /\ haveFlush' = FALSE
      /\ UNCHANGED <<inVars, state, last, pending, first, client, formatVars, fetch, poolVars, decVars,
                     at, withClient>>
  BY DEF QueueWork, TakesPosting
<1>6. QuietTasks(todo, todo')
  BY <1>5, QuietPosts, PlainTasks DEF PlainOps
<1>7. works' \in Seq(Kinds)
  <2>1. Head(todo) \in Tasks
    BY <1>5, HeadTask DEF TypeInv, TypesOK
  <2>2. Task.kind \in Kinds
    BY <1>5, <2>1 DEF Task, Tasks, PlainOps, BlockOps, Kinds
  <2> QED BY <1>5, <2>2, AppendProperties DEF TypeInv, TypesOK
<1>8. TypesOK'
  BY <1>2, <1>4, <1>5, <1>6, <1>7
     DEF TypeInv, TypesOK, inVars, formatVars, poolVars, decVars, QuietTasks
<1>9. Steady
  <2>1. at' \notin {"change", "allocate"}
    BY <1>5 DEF QueueWork, TakesPosting
  <2> QED BY <1>1, <1>3, <1>4, <1>5, <1>6, <2>1
          DEF Steady, Keeps, TypeInv, Empty, inVars, poolVars
<1>10. Serial'
  BY <1>5, <1>6, SerialKept
<1> QED BY <1>8, <1>9, <1>10, SteadyKeeps DEF TypeInv

\* DequeueWork keeps TypeInv, as QueueWork does.
LEMMA DequeueWorkKeeps ==
  ASSUME TypeInv, DequeueWork
  PROVE  TypeInv'
<1> DEFINE s == ReusedOutBuf(b)
           kind == Head(works)
           drains == kind # "data"
<1>1. Keeps(b, s) /\ Proper(s) /\ state = "STARTED" /\ works # <<>>
  BY ReusedKeeps, KeepsProper DEF TypeInv, BoardOK, DequeueWork, Refuses
<1>2. /\ b' = [s EXCEPT !.drainEos = IF drains THEN kind = "eos" ELSE @, !.fed = TRUE]
      /\ haveFlush => ReStartAllocTask(s)
      /\ ~haveFlush => UNCHANGED <<runLoop, allocLoop, tasks, waiting>>
      /\ state' = (IF drains THEN "DRAINING" ELSE state) /\ draining' = (draining \/ drains)
  BY DEF DequeueWork
<1>3. Keeps(b, b') /\ Proper(b')
  <2>1. (IF drains THEN kind = "eos" ELSE s.drainEos) \in BOOLEAN
    BY <1>1 DEF Proper, Boards
  <2>2. Keeps(s, [s EXCEPT !.drainEos = IF drains THEN kind = "eos" ELSE s.drainEos, !.fed = TRUE])
    BY Zenon, <1>1, <2>1, FlagChanges DEF Proper
  <2> HIDE DEF s, drains, kind
  <2>3. Keeps(s, b')
    BY <1>2, <2>2
  <2> QED BY <1>1, <2>3, KeepsTwice, KeepsProper
<1>4. /\ tasks' \in Nat /\ waiting' \in Nat /\ runLoop' \in BOOLEAN /\ allocLoop' \in BOOLEAN
      /\ ~first => tasks' = 0 /\ waiting' = 0
  <2> HIDE DEF s, drains, kind
  <2>1. CASE haveFlush
    <3>1. /\ tasks' \in Nat /\ waiting' = 0 /\ runLoop' = TRUE /\ allocLoop' = TRUE
          /\ ~first => tasks' = 0
      BY <1>1, <1>2, <2>1, Restarts
    <3> QED BY <3>1
  <2>2. CASE ~haveFlush
    BY <1>1, <1>2, <2>2 DEF TypeInv, TypesOK, Empty
  <2> QED BY <2>1, <2>2
<1> HIDE DEF s, drains, kind
<1>5. /\ todo # <<>> /\ Head(todo).op = "dequeueWork"
      /\ todo' = Tail(todo) \/ todo' = Append(Tail(todo), Plain("dequeueWork"))
      /\ works' = Tail(works) /\ reuse' = FALSE /\ haveFlush' = FALSE
      /\ UNCHANGED <<inVars, last, pending, first, client, formatVars, fetch, poolVars, resets, shown,
                     at, haveDrain, withClient>>
      /\ at = "idle"
  BY DEF DequeueWork, TakesPosting, Takes
<1>6. QuietTasks(todo, todo')
  BY <1>5, QuietPosts, PlainTasks DEF PlainOps
<1>7. works' \in Seq(Kinds)
  BY <1>1, <1>5, HeadTailProperties DEF TypeInv, TypesOK
<1>8. state' \in {"STARTED", "DRAINING"} /\ draining' \in BOOLEAN
  BY <1>1, <1>2
<1>9. TypesOK'
  BY <1>2, <1>4, <1>5, <1>6, <1>7, <1>8
     DEF TypeInv, TypesOK, inVars, formatVars, poolVars, QuietTasks, States
<1>10. Steady
  BY <1>1, <1>3, <1>4, <1>5, <1>6, <1>8
     DEF Steady, Keeps, TypeInv, Empty, inVars, poolVars
<1>11. Serial'
  BY <1>1, <1>5, <1>6, <1>8, SerialKept
<1> QED BY <1>9, <1>10, <1>11, SteadyKeeps DEF TypeInv

\* Drain keeps TypeInv: the mark goes to a work that is queued.
LEMMA DrainKeeps ==
  ASSUME TypeInv, Drain
  PROVE  TypeInv'
<1>1. /\ todo # <<>> /\ todo' = Tail(todo) /\ at = "idle" /\ state # "UNINITIALIZED"
      /\ UNCHANGED <<inVars, last, pending, first, client, haveFlush, reuse, formatVars, loopVars,
                     poolVars, resets, shown, at, haveDrain, withClient>>
      /\ b' = b \/ b' = [b EXCEPT !.drainEos = FALSE]
      /\ state' = state \/ (state = "STARTED" /\ state' = "DRAINING")
      /\ draining' = draining \/ draining' = TRUE
  BY DEF Drain, Takes, Refuses
<1>2. Keeps(b, b') /\ Proper(b')
  <2>1. Proper(b) /\ b \in Boards
    BY DEF TypeInv, BoardOK, Proper
  <2>2. Keeps(b, b) /\ Keeps(b, [b EXCEPT !.drainEos = FALSE])
    BY Zenon, <2>1, FlagChanges, KeepsSame
  <2>3. Keeps(b, b')
    BY <1>1, <2>2
  <2> QED BY <2>1, <2>3, KeepsProper
<1>3. QuietTasks(todo, todo')
  BY <1>1, QuietPosts
<1>4. works' \in Seq(Kinds)
  <2>1. works \in Seq(Kinds)
    BY DEF TypeInv, TypesOK
  <2> DEFINE e == IF works[Len(works)] = "data" THEN "drain" ELSE works[Len(works)]
  <2>2. works' = works \/ (works # <<>> /\ works' = [works EXCEPT ![Len(works)] = e])
    BY DEF Drain
  <2>3. ASSUME works # <<>> PROVE Len(works) \in 1 .. Len(works) /\ e \in Kinds
    <3>1. Len(works) \in 1 .. Len(works)
      BY <2>1, <2>3, EmptySeq, LenProperties
    <3>2. works[Len(works)] \in Kinds
      BY <2>1, <3>1, ElementOfSeq
    <3> QED BY <3>1, <3>2 DEF Kinds
  <2> HIDE DEF e
  <2>4. ASSUME works # <<>> PROVE [works EXCEPT ![Len(works)] = e] \in Seq(Kinds)
    BY <2>1, <2>3, <2>4, ExceptSeq
  <2> QED BY <2>1, <2>2, <2>4
<1>5. TypesOK'
  <2>1. state' \in States /\ draining' \in BOOLEAN
    BY <1>1 DEF TypeInv, TypesOK, States
  <2>2. UNCHANGED <<inVars, last, pending, first, client, haveFlush, reuse, formatVars, loopVars,
                    poolVars, resets, shown, at, haveDrain, withClient>>
    BY <1>1
  <2> QED BY <1>3, <1>4, <2>1, <2>2
          DEF TypeInv, TypesOK, inVars, formatVars, poolVars, loopVars, QuietTasks
<1>6. Steady
  BY <1>1, <1>2, <1>3 DEF Steady, Keeps, TypeInv, Empty, inVars, poolVars, loopVars
<1>7. Serial'
  BY <1>1, <1>3, SerialKept
<1> QED BY <1>5, <1>6, <1>7, SteadyKeeps DEF TypeInv

-----------------------------------------------------------------------------
(* Pictures that come out, and blocks that come in.                         *)

\* A picture that is to go out.
LEMMA WaitingBoard ==
  ASSUME NEW s, Proper(s), NEW id \in Ids(s), NEW n \in Nat
  PROVE  LET m == [s EXCEPT !.toWork = Append(@, id), !.outputs = n]
         IN  /\ Proper(m) /\ Ids(m) = Ids(s) /\ \A o \in Owners : Excess(m, o) = Excess(s, o)
             /\ \A o : OwnedBy(m, o) = OwnedBy(s, o)
<1> DEFINE q == s.toWork
           w == Append(q, id)
           m == [s EXCEPT !.toWork = w, !.outputs = n]
<1>1. s \in Boards /\ q \in Seq(Nat) /\ id \in Nat
  BY BoardInfos DEF Proper, Boards
<1>2. /\ w \in Seq(Nat) /\ Len(w) = Len(q) + 1 /\ Len(q) \in Nat /\ w[Len(q) + 1] = id
      /\ \A i \in 1 .. Len(q) : w[i] = q[i]
  BY <1>1, AppendProperties, LenProperties
<1> HIDE DEF w
<1>3. m \in Boards /\ m.infos = s.infos /\ m.count = s.count /\ m.slot = s.slot /\ m.toWork = w
  BY <1>1, <1>2 DEF Boards
<1> HIDE DEF m
<1>4. Ids(m) = Ids(s) /\ \A o : OwnedBy(m, o) = OwnedBy(s, o)
  BY <1>3 DEF Ids, OwnedBy
<1>5. \A o \in Owners : Excess(m, o) = Excess(s, o)
  BY <1>3, <1>4 DEF Excess
<1>6. Waits(m) \subseteq Ids(m)
  <2>1. Waits(m) = {w[i] : i \in 1 .. Len(w)} /\ Waits(s) = {q[i] : i \in 1 .. Len(q)}
    BY <1>3 DEF Waits, IdsIn
  <2>2. \A i \in 1 .. Len(w) : i \in 1 .. Len(q) \/ i = Len(q) + 1
    BY <1>2
  <2>3. Waits(s) \subseteq Ids(m)
    BY <1>4 DEF Proper
  <2>4. \A i \in 1 .. Len(w) : w[i] \in Ids(m)
    BY <1>2, <1>4, <2>1, <2>2, <2>3
  <2> QED BY <2>1, <2>4
<1> QED BY <1>3, <1>4, <1>5, <1>6 DEF Proper, m, w

\* OutputBufferDone keeps TypeInv: only a block the component has waits with its picture.
LEMMA OutputBufferDoneKeeps ==
  ASSUME TypeInv, OutputBufferDone
  PROVE  TypeInv'
<1> DEFINE id == Task.id
           s == IF id \in OwnedBy(b, "accelerator") THEN Moved(b, {id}, "component") ELSE b
           n == IF s.outputs < 2 THEN s.outputs + 1 ELSE 2
           starts == b.outputs = 0 /\ ~allocLoop
<1>1. /\ todo # <<>> /\ Head(todo).op = "output" /\ todo' = Tail(todo) /\ at = "idle"
      /\ state # "UNINITIALIZED"
      /\ UNCHANGED <<inVars, state, works, last, pending, first, client, haveFlush, reuse, formatVars,
                     runLoop, fetch, poolVars, decVars, haveDrain, withClient>>
  BY DEF OutputBufferDone, Takes, Refuses
<1>2. \/ /\ UNCHANGED <<at, allocLoop, tasks, waiting>>
         /\ b' = b \/ (id \in Ids(b) /\ b' = Given(s, {id})) \/ b' = Failed(b)
      \/ /\ id \in Ids(b) /\ b' = [s EXCEPT !.toWork = Append(@, id), !.outputs = n] /\ at' = "send"
         /\ ~starts => Posted(1) /\ UNCHANGED allocLoop
         /\ starts => /\ allocLoop' = TRUE /\ waiting' = 0
                      /\ tasks' = tasks + waiting + IF runLoop THEN 1 ELSE 0
  BY DEF OutputBufferDone
<1>3. Proper(b) /\ b \in Boards /\ IsFiniteSet(Ids(b))
  BY DEF TypeInv, BoardOK, Proper
<1>4. Keeps(b, s) /\ Proper(s) /\ s \in Boards /\ IsFiniteSet(Ids(s))
  <2> DEFINE ids == {id}
  <2>1. id \in OwnedBy(b, "accelerator") => ids \in SUBSET Ids(b)
    BY DEF OwnedBy
  <2> HIDE DEF ids
  <2>2. id \in OwnedBy(b, "accelerator") => Keeps(b, Moved(b, ids, "component"))
    BY <1>3, <2>1, MovesKeep DEF Owners
  <2>3. Keeps(b, b)
    BY <1>3, KeepsSame
  <2>4. Keeps(b, s)
    BY <2>2, <2>3 DEF ids
  <2> HIDE DEF s
  <2> QED BY <1>3, <2>4, KeepsProper DEF Proper
<1>5. id \in Ids(b) => Keeps(b, Given(s, {id}))
  <2> DEFINE ids == {id}
  <2>1. id \in Ids(b) => ids \in SUBSET Ids(s)
    BY <1>4 DEF Keeps
  <2> HIDE DEF ids, s
  <2>2. id \in Ids(b) => Keeps(s, Given(s, ids))
    BY <1>4, <2>1, MovesKeep
  <2> QED BY <1>4, <2>2, KeepsTwice DEF ids
<1>6. n \in Nat
  BY <1>4 DEF Boards
<1> HIDE DEF s, n
<1>7. Proper(b') /\ Ids(b') = Ids(b) /\ \A o \in Owners : Excess(b', o) = Excess(b, o)
  <2>1. CASE b' = b \/ (id \in Ids(b) /\ b' = Given(s, {id})) \/ b' = Failed(b)
    <3>1. Keeps(b, b')
      BY Zenon, <1>3, <1>5, <2>1, KeepsSame, FlagChanges
    <3> QED BY <1>3, <3>1, KeepsProper DEF Keeps
  <2>2. CASE id \in Ids(b) /\ b' = [s EXCEPT !.toWork = Append(@, id), !.outputs = n]
    <3>1. id \in Ids(s)
      BY <1>4, <2>2 DEF Keeps
    <3>2. Proper(b') /\ Ids(b') = Ids(s) /\ \A o \in Owners : Excess(b', o) = Excess(s, o)
      BY <1>4, <1>6, <2>2, <3>1, WaitingBoard
    <3> QED BY <1>4, <3>2 DEF Keeps
  <2> QED BY <1>2, <2>1, <2>2
<1>8. /\ tasks' \in Nat /\ waiting' \in Nat /\ allocLoop' \in BOOLEAN /\ at' \in {"idle", "send"}
      /\ ~first => tasks' = 0 /\ waiting' = 0
  <2>1. tasks \in Nat /\ waiting \in Nat /\ allocLoop \in BOOLEAN /\ (~first => tasks = 0 /\ waiting = 0)
    BY <1>1 DEF TypeInv, TypesOK, Empty
  <2>2. CASE UNCHANGED <<at, allocLoop, tasks, waiting>>
    BY <1>1, <2>1, <2>2
  <2>3. CASE /\ id \in Ids(b) /\ at' = "send"
             /\ ~starts => Posted(1) /\ UNCHANGED allocLoop
             /\ starts => /\ allocLoop' = TRUE /\ waiting' = 0
                          /\ tasks' = tasks + waiting + IF runLoop THEN 1 ELSE 0
    <3>1. first
      BY <2>3 DEF TypeInv, Empty
    <3>2. CASE starts
      <4>1. tasks' = tasks + waiting + IF runLoop THEN 1 ELSE 0
        BY <2>3, <3>2
      <4>2. tasks' \in Nat
        BY <2>1, <4>1
      <4> QED BY <2>3, <3>1, <3>2, <4>2
    <3>3. CASE ~starts
      <4>1. tasks' \in {tasks, tasks + 1} /\ waiting' \in {waiting, waiting + 1}
        BY <2>3, <3>3 DEF Posted
      <4>2. tasks' \in Nat /\ waiting' \in Nat
        BY <2>1, <4>1
      <4> QED BY <2>1, <2>3, <3>1, <3>3, <4>2
    <3> QED BY <3>2, <3>3
  <2> QED BY <1>2, <2>2, <2>3
<1>9. QuietTasks(todo, todo')
  BY <1>1, QuietPosts
<1>10. TypesOK'
  BY <1>1, <1>8, <1>9
     DEF TypeInv, TypesOK, inVars, formatVars, poolVars, decVars, QuietTasks, Places
<1>11. Steady
  BY <1>1, <1>7, <1>8, <1>9 DEF Steady, TypeInv, Empty, inVars, poolVars
<1>12. Serial'
  BY <1>1, <1>8, <1>9, SerialKept
<1> QED BY <1>10, <1>11, <1>12, SteadyKeeps DEF TypeInv

\* What a sending may make of the board.
LEMMA SendingsKeep ==
  ASSUME NEW s, Proper(s), NEW sending \in Sendings \cup FailedSendings, s = b
  PROVE  Keeps(s, sending.b)
<1>1. \A n \in Disposable(s) : n \in 0 .. Len(s.toWork)
  BY DEF Disposable
<1>2. CASE sending \in Sendings
  <2>1. PICK n \in Disposable(s) : \E back \in SUBSET IdsIn(s, n) :
          sending = [b |-> SentTo(s, n, back), out |-> IdsIn(s, n) \ back, bad |-> Cardinality(back)]
    BY <1>2 DEF Sendings
  <2>2. \A back \in SUBSET IdsIn(s, n) : Keeps(s, SentTo(s, n, back))
    BY <1>1, SendingKeeps
  <2> QED BY <2>1, <2>2
<1>3. CASE sending \in FailedSendings
  <2>1. PICK n \in Disposable(s) :
          sending = [b |-> Failed(SentTo(s, n, {})), out |-> IdsIn(s, n), bad |-> 0]
    BY <1>3 DEF FailedSendings
  <2> DEFINE none == {}
  <2>2. none \in SUBSET IdsIn(s, n)
    OBVIOUS
  <2> HIDE DEF none
  <2>3. Keeps(s, Failed(SentTo(s, n, none)))
    BY <1>1, <2>2, SendingKeeps
  <2> QED BY <2>1, <2>3 DEF none
<1> QED BY <1>2, <1>3

\* SendOutputBufferToWorkIfAny keeps TypeInv: the counts follow the blocks that go out.
LEMMA SendOutputBufferToWorkIfAnyKeeps ==
  ASSUME TypeInv, SendOutputBufferToWorkIfAny
  PROVE  TypeInv'
<1>1. /\ at = "send" /\ at' = "idle"
      /\ UNCHANGED <<stream, state, works, last, pending, first, client, haveFlush, reuse, formatVars,
                     loopVars, poolVars, decVars, todo, haveDrain>>
  BY DEF SendOutputBufferToWorkIfAny
<1>2. Keeps(b, b') /\ Proper(b')
  <2>1. Proper(b)
    BY DEF TypeInv, BoardOK
  <2>2. PICK sending \in Sendings \cup FailedSendings : b' = sending.b
    BY DEF SendOutputBufferToWorkIfAny
  <2>3. Keeps(b, sending.b)
    BY <2>1, SendingsKeep
  <2> QED BY <2>1, <2>2, <2>3, KeepsProper
<1>3. QuietTasks(todo, todo')
  BY <1>1, QuietPosts
<1>4. TypesOK'
  BY <1>1 DEF TypeInv, TypesOK, formatVars, loopVars, poolVars, decVars, Places
<1>5. Steady
  BY <1>1, <1>2, <1>3 DEF Steady, Keeps, TypeInv, Empty, poolVars, loopVars
<1>6. Serial'
  BY <1>1, <1>3, SerialKept
<1> QED BY <1>4, <1>5, <1>6, SteadyKeeps DEF TypeInv

\* tryChangeOutputFormat, whatever it decides.
LEMMA ChangeTried ==
  ASSUME TypeInv, at = "idle", todo # <<>>, NEW s, Keeps(b, s), NEW new \in SUBSET Formats,
         TryChangeOutputFormat(s, Tail(todo), new)
  PROVE  /\ new # {} /\ Keeps(b, b') /\ Proper(b') /\ QuietTasks(todo, todo')
         /\ last' \in Formats /\ format' \in Formats /\ changing' \in BOOLEAN /\ runLoop' \in BOOLEAN
         /\ at' \in {"idle", "change", "allocate"}
         /\ at' \in {"change", "allocate"} => b'.toWork = <<>>
         /\ at' = "allocate" => ~first
         /\ at' = "change" => first
<1>1. /\ last \in Formats /\ format \in Formats /\ changing \in BOOLEAN /\ runLoop \in BOOLEAN
      /\ first \in BOOLEAN
  BY DEF TypeInv, TypesOK
<1>2. Proper(b) /\ Proper(s) /\ s \in Boards
  BY KeepsProper DEF TypeInv, BoardOK, Proper
<1>3. Keeps(s, s) /\ Keeps(s, Failed(s)) /\ Keeps(s, [s EXCEPT !.resCh = @ \/ first])
  <2>1. (s.resCh \/ first) \in BOOLEAN
    OBVIOUS
  <2> QED BY Zenon, <1>2, <2>1, KeepsSame, FlagChanges
<1>4. /\ todo' = Tail(todo) => QuietTasks(todo, todo')
      /\ todo' = Append(Tail(todo), Plain("tryChange")) => QuietTasks(todo, todo')
  BY QuietPosts, PlainTasks DEF PlainOps
<1>5. CASE new # {} /\ s.toWork # <<>>
  <2>1. /\ b' = s /\ todo' = Append(Tail(todo), Plain("tryChange"))
        /\ UNCHANGED <<at, last, format, changing, runLoop>>
    BY <1>5 DEF TryChangeOutputFormat
  <2> QED BY <1>1, <1>2, <1>4, <1>5, <2>1
<1>6. CASE new # {} /\ s.toWork = <<>> /\ OwnedBy(s, "accelerator") # {}
  <2>1. b' = Failed(s) /\ todo' = Tail(todo) /\ UNCHANGED <<at, last, format, changing, runLoop>>
    BY <1>6 DEF TryChangeOutputFormat
  <2>2. Keeps(b, b') /\ Proper(b')
    BY <1>2, <1>3, <2>1, KeepsTwice, KeepsProper
  <2> QED BY <1>1, <1>4, <1>6, <2>1, <2>2
<1>7. CASE new # {} /\ s.toWork = <<>> /\ OwnedBy(s, "accelerator") = {}
  <2>1. /\ b' = [s EXCEPT !.resCh = @ \/ first] /\ todo' = Tail(todo)
        /\ last' = format /\ \E f \in new : format' = f
        /\ changing' = FALSE /\ Stopping
        /\ at' = IF first THEN "change" ELSE "allocate"
    BY <1>7 DEF TryChangeOutputFormat
  <2>2. Keeps(b, b') /\ Proper(b')
    BY <1>2, <1>3, <2>1, KeepsTwice, KeepsProper
  <2>3. b'.toWork = s.toWork
    BY <1>2, <2>1 DEF Boards
  <2>4. format' \in Formats /\ runLoop' = FALSE
    BY <2>1 DEF Stopping
  <2>5. (at' = "change" /\ first) \/ (at' = "allocate" /\ ~first)
    BY <1>1, <2>1
  <2> QED BY <1>1, <1>4, <1>7, <2>1, <2>2, <2>3, <2>4, <2>5
<1>8. new # {}
  BY DEF TryChangeOutputFormat
<1> QED BY <1>5, <1>6, <1>7, <1>8

\* TryChangeAgain keeps TypeInv: no picture waits when the change begins.
LEMMA TryChangeAgainKeeps ==
  ASSUME TypeInv, TryChangeAgain
  PROVE  TypeInv'
<1>1. /\ at = "idle" /\ todo # <<>>
      /\ UNCHANGED <<inVars, state, works, first, client, haveFlush, reuse, device, allocLoop, tasks,
                     waiting, fetch, poolVars, decVars, haveDrain, withClient>>
      /\ UNCHANGED pending
  BY DEF TryChangeAgain
<1>2. Keeps(b, b) /\ Proper(b) /\ pending \in SUBSET Formats
  BY KeepsSame DEF TypeInv, TypesOK, BoardOK, Proper
<1>3. /\ Keeps(b, b') /\ Proper(b') /\ QuietTasks(todo, todo')
      /\ last' \in Formats /\ format' \in Formats /\ changing' \in BOOLEAN /\ runLoop' \in BOOLEAN
      /\ at' \in {"idle", "change", "allocate"}
      /\ at' \in {"change", "allocate"} => b'.toWork = <<>> /\ pending # {}
      /\ at' = "allocate" => ~first
      /\ at' = "change" => first
  <2>1. CASE TryChangeOutputFormat(b, Tail(todo), pending)
    BY <1>1, <1>2, <2>1, ChangeTried
  <2>2. CASE Takes("tryChange") /\ UNCHANGED <<at, b, last, format, changing, runLoop, pending>>
    <3>1. todo' = Tail(todo)
      BY <2>2 DEF Takes
    <3> QED BY <1>1, <1>2, <2>2, <3>1, QuietPosts DEF TypeInv, TypesOK
  <2> QED BY <2>1, <2>2 DEF TryChangeAgain
<1>4. TypesOK'
  BY <1>1, <1>3 DEF TypeInv, TypesOK, inVars, poolVars, decVars, QuietTasks, Places
<1>5. Steady
  <2>1. state = "UNINITIALIZED" => pending = {}
    BY DEF TypeInv, Empty
  <2> QED BY <1>1, <1>3, <2>1 DEF Steady, Keeps, TypeInv, Empty, inVars, poolVars
<1>6. Serial'
  BY <1>1, <1>3, SerialKept
<1> QED BY <1>4, <1>5, <1>6, SteadyKeeps DEF TypeInv

\* OutputFormatChanged keeps TypeInv: the counts follow the blocks taken from the decoder.
LEMMA OutputFormatChangedKeeps ==
  ASSUME TypeInv, OutputFormatChanged
  PROVE  TypeInv'
<1> DEFINE s == Moved(b, OwnedBy(b, "accelerator"), "component")
<1>1. /\ at = "idle" /\ todo # <<>> /\ Task.op = "formatChanged" /\ state # "UNINITIALIZED"
      /\ pending' = {Task.format} /\ device' = Reconfigured(device)
      /\ TryChangeOutputFormat(s, Tail(todo), pending')
      /\ UNCHANGED <<inVars, state, works, first, client, haveFlush, reuse, allocLoop, tasks, waiting,
                     fetch, poolVars, decVars, haveDrain, withClient>>
  BY DEF OutputFormatChanged, Refuses
<1>2. Keeps(b, s)
  BY MovesKeep DEF TypeInv, BoardOK, Proper, Owners, OwnedBy
<1> HIDE DEF s
<1>3. pending' \in SUBSET Formats /\ Cardinality(pending') <= 1
  <2>1. Task \in Tasks
    BY <1>1, HeadTask DEF TypeInv, TypesOK, Task
  <2>2. Task.format \in Formats
    BY <1>1, <2>1 DEF Tasks, PlainOps, BlockOps
  <2>3. Cardinality({Task.format}) = 1
    BY FS_Singleton
  <2> QED BY <1>1, <2>2, <2>3
<1>4. /\ Keeps(b, b') /\ Proper(b') /\ QuietTasks(todo, todo')
      /\ last' \in Formats /\ format' \in Formats /\ changing' \in BOOLEAN /\ runLoop' \in BOOLEAN
      /\ at' \in {"idle", "change", "allocate"}
      /\ at' \in {"change", "allocate"} => b'.toWork = <<>>
      /\ at' = "allocate" => ~first
      /\ at' = "change" => first
  BY <1>1, <1>2, <1>3, ChangeTried
<1>5. device'.codec \in Codecs /\ "codec" \in DOMAIN device' /\ "widthAlign" \in DOMAIN device'
  BY <1>1, DeviceKept DEF TypeInv, TypesOK, SameDevice
<1>6. TypesOK'
  BY <1>1, <1>3, <1>4, <1>5 DEF TypeInv, TypesOK, inVars, poolVars, decVars, QuietTasks, Places
<1>7. Steady
  BY <1>1, <1>4 DEF Steady, Keeps, TypeInv, Empty, inVars, poolVars
<1>8. Serial'
  BY <1>1, <1>4, SerialKept
<1> QED BY <1>6, <1>7, <1>8, SteadyKeeps DEF TypeInv

\* OutputBufferReturned keeps TypeInv: the block has the id under which it comes back.
LEMMA OutputBufferReturnedKeeps ==
  ASSUME TypeInv, OutputBufferReturned
  PROVE  TypeInv'
<1> DEFINE block == Task.block
           id == Task.id
           taken == FitsReturned(block) /\ ~haveDrain
           known == taken /\ id \in Ids(b)
           wrong == known /\ IsChanged(b) /\ id \notin OwnedBy(b, "client")
           r == Returned(Noted(b), block, id)
           e == [b EXCEPT !.slot = {block}]
<1>1. /\ at = "idle" /\ todo # <<>> /\ Task.op = "returned" /\ state # "UNINITIALIZED"
      /\ UNCHANGED <<inVars, state, works, pending, first, client, haveFlush, reuse, device, allocLoop,
                     tasks, waiting, fetch, poolVars, decVars, haveDrain, withClient>>
  BY DEF OutputBufferReturned, Refuses
<1>2. Proper(b) /\ b \in Boards /\ IsFiniteSet(Ids(b)) /\ pending \in SUBSET Formats
      /\ last \in Formats /\ format \in Formats /\ changing \in BOOLEAN /\ runLoop \in BOOLEAN
  BY DEF TypeInv, TypesOK, BoardOK, Proper
<1>3. block \in Blocks /\ id \in Nat
  <2>1. Task \in Tasks
    BY <1>1, HeadTask DEF TypeInv, TypesOK, Task
  <2> QED BY <1>1, <2>1 DEF Tasks, PlainOps, BlockOps
<1>4. /\ Keeps(b, b) /\ Keeps(b, Noted(b)) /\ Keeps(b, Failed(b)) /\ Keeps(b, Failed(Noted(b)))
      /\ Proper(Noted(b)) /\ Noted(b) \in Boards /\ Ids(Noted(b)) = Ids(b)
  <2>1. Keeps(b, b) /\ Keeps(b, Noted(b)) /\ Keeps(b, Failed(b))
    BY Zenon, <1>2, KeepsSame, FlagChanges
  <2>2. Proper(Noted(b)) /\ Noted(b) \in Boards /\ Ids(Noted(b)) = Ids(b)
    BY <1>2, <2>1, KeepsProper DEF Keeps
  <2>3. Keeps(Noted(b), Failed(Noted(b)))
    BY Zenon, <2>2, FlagChanges
  <2> QED BY <2>1, <2>2, <2>3, KeepsTwice
<1>5. known => Keeps(b, r) /\ Keeps(b, Reused(r, id))
  <2> DEFINE t == Noted(b)
  <2>1. known => id \in Ids(t) /\ IsFiniteSet(Ids(t)) /\ t \in Boards /\ Keeps(b, t)
    BY <1>2, <1>4
  <2> HIDE DEF block, id, t, known
  <2>2. known => Keeps(t, Returned(t, block, id)) /\ Keeps(t, Reused(Returned(t, block, id), id))
    BY <1>3, <2>1, ReturnedKeeps
  <2>3. known => Keeps(b, Returned(t, block, id)) /\ Keeps(b, Reused(Returned(t, block, id), id))
    BY <2>1, <2>2, KeepsTwice
  <2> QED BY <2>3 DEF t, block, id
<1>6. b.slot = {} => Proper(e) /\ Ids(e) = Ids(b) /\ \A o \in Owners : Excess(e, o) = Excess(b, o)
  <2>1. e \in Boards /\ e.infos = b.infos /\ e.count = b.count /\ e.toWork = b.toWork /\ e.slot = {block}
    BY <1>2, <1>3 DEF Boards
  <2>2. Cardinality(e.slot) = 1
    BY <2>1, FS_Singleton
  <2> HIDE DEF e, block
  <2>3. Ids(e) = Ids(b) /\ \A o : OwnedBy(e, o) = OwnedBy(b, o)
    BY <2>1 DEF Ids, OwnedBy
  <2>4. Waits(e) = Waits(b)
    BY <2>1, WaitsAre
  <2> QED BY <1>2, <2>1, <2>2, <2>3, <2>4 DEF Proper, Excess
<1> DEFINE Fine ==
             /\ Proper(b') /\ Ids(b') = Ids(b) /\ \A o \in Owners : Excess(b', o) = Excess(b, o)
             /\ QuietTasks(todo, todo')
             /\ last' \in Formats /\ format' \in Formats /\ changing' \in BOOLEAN /\ runLoop' \in BOOLEAN
             /\ at' \in {"idle", "send", "change", "allocate"}
             /\ at' \in {"change", "allocate"} => b'.toWork = <<>>
             /\ at' = "allocate" => ~first
             /\ at' = "change" => first
<1>7. ASSUME NEW m, Keeps(b, m) PROVE Proper(m) /\ Ids(m) = Ids(b) /\ \A o \in Owners : Excess(m, o) = Excess(b, o)
  BY <1>2, <1>7, KeepsProper DEF Keeps
<1>8. todo' = Tail(todo) => QuietTasks(todo, todo')
  BY <1>1, QuietPosts
<1> HIDE DEF block, id, taken, known, wrong, r, e
<1>9. ASSUME Takes("returned"), UNCHANGED <<last, format, changing, runLoop>>, at' \in {"idle", "send"}
      PROVE  /\ QuietTasks(todo, todo')
             /\ last' \in Formats /\ format' \in Formats /\ changing' \in BOOLEAN /\ runLoop' \in BOOLEAN
             /\ at' \in {"idle", "send", "change", "allocate"} /\ at' \notin {"change", "allocate"}
  BY <1>2, <1>8, <1>9 DEF Takes
<1>10. Fine
  <2>1. CASE ~taken /\ Takes("returned") /\ UNCHANGED b /\ UNCHANGED <<at, last, format, changing, runLoop>>
    <3>1. at' = "idle"
      BY <1>1, <2>1
    <3>2. Proper(b') /\ Ids(b') = Ids(b) /\ \A o \in Owners : Excess(b', o) = Excess(b, o)
      BY <1>4, <1>7, <2>1
    <3> QED BY <1>9, <2>1, <3>1, <3>2
  <2>2. CASE /\ taken /\ (known => wrong) /\ Takes("returned") /\ UNCHANGED <<at, last, format, changing, runLoop>>
              /\ b' = IF known THEN Failed(Noted(b)) ELSE IF b.slot = {} THEN e ELSE Failed(b)
    <3>1. at' = "idle"
      BY <1>1, <2>2
    <3>2. Proper(b') /\ Ids(b') = Ids(b) /\ \A o \in Owners : Excess(b', o) = Excess(b, o)
      BY <1>4, <1>6, <1>7, <2>2
    <3> QED BY <1>9, <2>2, <3>1, <3>2
  <2>3. CASE known /\ ~wrong /\ TryChangeOutputFormat(r, Tail(todo), pending)
    BY <1>1, <1>2, <1>5, <1>7, <2>3, ChangeTried
  <2>4. CASE /\ known /\ ~wrong /\ pending = {} /\ Takes("returned") /\ b' = Reused(r, id) /\ at' = "send"
              /\ UNCHANGED <<last, format, changing, runLoop>>
    <3>1. Proper(b') /\ Ids(b') = Ids(b) /\ \A o \in Owners : Excess(b', o) = Excess(b, o)
      BY <1>5, <1>7, <2>4
    <3> QED BY <1>9, <2>4, <3>1
  <2> QED BY <2>1, <2>2, <2>3, <2>4 DEF OutputBufferReturned, block, id, taken, known, wrong, r, e
<1>11. TypesOK'
  BY <1>1, <1>10 DEF TypeInv, TypesOK, inVars, poolVars, decVars, QuietTasks, Places
<1>12. Steady
  BY <1>1, <1>10 DEF Steady, Keeps, TypeInv, Empty, inVars, poolVars
<1>13. Serial'
  BY <1>1, <1>10, SerialKept
<1> QED BY <1>11, <1>12, <1>13, SteadyKeeps DEF TypeInv

\* A new block is appended, and given to the decoder.
LEMMA NewBlockGiven ==
  ASSUME NEW s, Proper(s), NEW id \in Nat, id \notin Ids(s), NEW block \in Blocks
  PROVE  LET m == Given(Appended(s, block, id), {id})
         IN  /\ Proper(m) /\ Ids(m) = Ids(s) \cup {id} /\ m.toWork = s.toWork
             /\ \A o \in Owners : Excess(m, o) = Excess(s, o)
<1> DEFINE a == Appended(s, block, id)
           ids == {id}
           m == Given(a, ids)
<1>1. s \in Boards /\ IsFiniteSet(Ids(s)) /\ Waits(s) \subseteq Ids(s) /\ Cardinality(s.slot) <= 1
  BY DEF Proper
<1>2. /\ a \in Boards /\ Ids(a) = Ids(s) \cup {id} /\ IsFiniteSet(Ids(a)) /\ SameFlags(s, a)
      /\ \A o \in Owners : Excess(a, o) = Excess(s, o)
  BY <1>1, AppendedKeeps
<1>3. ids \in SUBSET Ids(a)
  BY <1>2
<1> HIDE DEF a, ids, m
<1>4. /\ m \in Boards /\ Ids(m) = Ids(a) /\ SameFlags(a, m)
      /\ \A o \in Owners : Excess(m, o) = Excess(a, o)
  BY <1>2, <1>3, GivenKeeps DEF m
<1>5. m.toWork = s.toWork /\ m.slot = s.slot
  BY <1>2, <1>4 DEF SameFlags
<1>6. Waits(m) = Waits(s)
  BY <1>5, WaitsAre
<1>7. Proper(m)
  BY <1>1, <1>2, <1>4, <1>5, <1>6 DEF Proper
<1> QED BY <1>2, <1>4, <1>5, <1>7 DEF m, ids, a

\* NewBlockBufferFetched keeps TypeInv: a block that is added was not there before.
LEMMA NewBlockBufferFetchedKeeps ==
  ASSUME TypeInv, NewBlockBufferFetched
  PROVE  TypeInv'
<1> DEFINE block == Task.block
           id == Task.id
           fits == /\ ~(changing \/ state = "STOPPING") /\ FitsNew(b, block)
                   /\ block \in DOMAIN pool
<1>1. /\ at = "idle" /\ todo # <<>> /\ Head(todo).op = "new" /\ todo' = Tail(todo)
      /\ state # "UNINITIALIZED"
      /\ UNCHANGED <<inVars, state, works, last, pending, first, client, haveFlush, reuse, formatVars,
                     loopVars, poolVars, decVars, at, haveDrain, withClient>>
      /\ ~fits => b' \in {b, Noted(b), Failed(Noted(b))}
      /\ fits => b' = Given(Appended(Noted(b), block, id), {id})
  BY DEF NewBlockBufferFetched, Takes, Refuses
<1>2. Proper(b) /\ b \in Boards
  BY DEF TypeInv, BoardOK, Proper
<1>3. /\ Task \in Tasks /\ 1 \in DOMAIN todo /\ todo[1] = Task
      /\ \A i \in DOMAIN Tail(todo) : i + 1 \in DOMAIN todo /\ Tail(todo)[i] = todo[i + 1] /\ i + 1 # 1
  BY <1>1, HeadTask DEF TypeInv, TypesOK, Task
<1>4. block \in Blocks /\ id \in Nat /\ Task.op = "new"
  BY <1>1, <1>3 DEF Tasks, PlainOps, BlockOps, Task
<1>5. /\ Keeps(b, b) /\ Keeps(b, Noted(b)) /\ Keeps(b, Failed(Noted(b)))
      /\ Proper(Noted(b))
  <2>1. Keeps(b, b) /\ Keeps(b, Noted(b))
    BY Zenon, <1>2, KeepsSame, FlagChanges
  <2>2. Proper(Noted(b)) /\ Noted(b) \in Boards
    BY <1>2, <2>1, KeepsProper DEF Proper
  <2>3. Keeps(Noted(b), Failed(Noted(b)))
    BY Zenon, <2>2, FlagChanges
  <2> QED BY <2>1, <2>2, <2>3, KeepsTwice
<1>6. first
  BY <1>1, <1>3, <1>4 DEF TypeInv, Empty, BlockOps
<1>7. QuietTasks(todo, todo')
  BY <1>1, QuietPosts
<1>8. TypesOK'
  BY <1>1, <1>7
     DEF TypeInv, TypesOK, inVars, formatVars, poolVars, decVars, loopVars, QuietTasks
<1>9. Serial'
  BY <1>1, <1>7, SerialKept
<1> HIDE DEF block, id, fits
<1>10. CASE ~fits
  <2>1. Keeps(b, b') /\ Proper(b')
    BY <1>1, <1>2, <1>5, <1>10, KeepsProper
  <2>2. Steady
    BY <1>1, <1>6, <1>7, <2>1 DEF Steady, Keeps, TypeInv, Empty, inVars, poolVars
  <2> QED BY <1>8, <1>9, <2>2, SteadyKeeps DEF TypeInv
<1>11. CASE fits
  <2>1. block \in DOMAIN pool /\ pool[block] = id /\ id \notin Ids(b)
    <3>1. block \in DOMAIN pool
      BY <1>11 DEF fits
    <3> QED BY <1>3, <1>4, <3>1 DEF TypeInv, Pooled, BlockOps, block, id
  <2>2. /\ Proper(b') /\ Ids(b') = Ids(b) \cup {id} /\ b'.toWork = b.toWork
        /\ \A o \in Owners : Excess(b', o) = Excess(b, o)
    <3> DEFINE s == Noted(b)
    <3>1. Ids(s) = Ids(b) /\ s.toWork = b.toWork /\ \A o \in Owners : Excess(s, o) = Excess(b, o)
      BY <1>2, <1>5 DEF Keeps, Noted, Boards
    <3>2. Proper(s) /\ b' = Given(Appended(s, block, id), {id})
      BY <1>1, <1>5, <1>11
    <3> HIDE DEF s
    <3>3. /\ Proper(b') /\ Ids(b') = Ids(s) \cup {id} /\ b'.toWork = s.toWork
          /\ \A o \in Owners : Excess(b', o) = Excess(s, o)
      BY <1>4, <2>1, <3>1, <3>2, NewBlockGiven
    <3> QED BY <3>1, <3>3
  <2>3. BoardOK'
    BY <1>1, <2>2 DEF TypeInv, BoardOK
  <2>4. Counted'
    BY <1>1, <2>2 DEF TypeInv, Counted, inVars
  <2>5. Empty'
    BY <1>1, <1>6 DEF TypeInv, Empty
  <2>6. Pooled'
    <3>1. BlocksApart(todo)'
      BY <1>7 DEF TypeInv, Pooled, QuietTasks
    <3>2. ASSUME NEW i \in DOMAIN todo', todo'[i].op \in BlockOps, todo'[i].block \in DOMAIN pool
          PROVE  pool[todo'[i].block] = todo'[i].id /\ (todo'[i].op = "new" => todo'[i].id \notin Ids(b'))
      <4> DEFINE j == i + 1
      <4>1. j \in DOMAIN todo /\ todo'[i] = todo[j] /\ j # 1
        BY <1>1, <1>3
      <4> HIDE DEF j
      <4>2. pool[todo[j].block] = todo[j].id /\ (todo[j].op = "new" => todo[j].id \notin Ids(b))
        BY <3>2, <4>1 DEF TypeInv, Pooled
      <4>3. todo[j].block # block
        BY <1>3, <1>4, <3>2, <4>1 DEF TypeInv, Pooled, BlocksApart, BlockOps, block
      <4>4. todo[j].id # id
        BY <2>1, <3>2, <4>1, <4>2, <4>3 DEF TypeInv, Pooled
      <4> QED BY <2>2, <4>1, <4>2, <4>4
    <3> QED BY <1>1, <3>1, <3>2 DEF TypeInv, Pooled, poolVars
  <2> QED BY <1>8, <1>9, <2>3, <2>4, <2>5, <2>6 DEF TypeInv
<1> QED BY <1>10, <1>11

-----------------------------------------------------------------------------
(* What the component does after it joined the dequeue thread.              *)

\* No more blocks are taken at once than are wanted.
LEMMA FirstBlocksWithin ==
  ASSUME NEW d, NEW count \in Nat, NEW smooth \in Nat
  PROVE  FirstBlocks(d, count, smooth) \in 0 .. count
<1> DEFINE wanted == IF d.interlaced /\ ~(d.codec = "MP2V" /\ ~d.noSurface) /\ count > smooth
                     THEN count - smooth
                     ELSE IF d.noSurface THEN count ELSE 2 + smooth
           within == Larger(IF wanted > count THEN count ELSE wanted, (2 * count) \div 3)
<1>1. wanted \in Nat
  OBVIOUS
<1> HIDE DEF wanted
<1>2. (2 * count) \div 3 \in 0 .. count /\ count \div 2 \in 0 .. count
  OBVIOUS
<1>3. within \in 0 .. count
  BY <1>1, <1>2 DEF Larger
<1> HIDE DEF within
<1> QED BY <1>2, <1>3 DEF FirstBlocks, within, wanted

\* The sizes of the blocks are sizes.
LEMMA AlignedSizes ==
  ASSUME NEW d, NEW size \in Sizes
  PROVE  /\ AlignedSize(d, size) \in Sizes /\ ForcedSize(d, size) \in Sizes
         /\ AlignedSize(d, size) \in {size, ForcedSize(d, size)}
<1>1. size[1] \in Int /\ size[2] \in Int /\ size = <<size[1], size[2]>>
  BY DEF Sizes
<1>2. WidthAlign(d) \in {32, 64}
  BY DEF WidthAlign
<1>3. \A n \in Int, unit \in {32, 64} : RoundedUp(n, unit) \in Int
  BY DEF RoundedUp
<1>4. \A n \in Int, a \in BOOLEAN :
        /\ GetOutAlignedSize(d, n, a, TRUE) \in Int
        /\ MustAlign(d) => GetOutAlignedSize(d, n, a, FALSE) = GetOutAlignedSize(d, n, a, TRUE)
        /\ ~MustAlign(d) => GetOutAlignedSize(d, n, a, FALSE) = n
  <2> SUFFICES ASSUME NEW n \in Int, NEW a \in BOOLEAN
               PROVE  /\ GetOutAlignedSize(d, n, a, TRUE) \in Int
                      /\ MustAlign(d) => GetOutAlignedSize(d, n, a, FALSE) = GetOutAlignedSize(d, n, a, TRUE)
                      /\ ~MustAlign(d) => GetOutAlignedSize(d, n, a, FALSE) = n
    OBVIOUS
  <2>1. RoundedUp(n, 64) \in Int /\ RoundedUp(n, WidthAlign(d)) \in Int
    BY <1>2, <1>3
  <2> QED BY <2>1 DEF GetOutAlignedSize
<1>5. CASE MustAlign(d)
  BY <1>1, <1>4, <1>5 DEF AlignedSize, ForcedSize, Sizes
<1>6. CASE ~MustAlign(d)
  BY <1>1, <1>4, <1>6 DEF AlignedSize, ForcedSize, Sizes
<1> QED BY <1>5, <1>6

\* The numbers of blocks are numbers.
LEMMA BlockNumbers ==
  ASSUME TypeInv, NEW d
  PROVE  /\ BlockCount(d) \in Nat /\ \A count \in Nat : RequestedMax(count) \in Nat
<1>1. MaxBufNum \in Nat /\ DefaultBlocks \in Nat /\ format.min \in Nat
  BY BoundsAssumption DEF TypeInv, TypesOK, Formats
<1> QED BY <1>1 DEF BlockCount, RequestedMax, Larger

\* A component without blocks lets them go again, and takes the first.
LEMMA FirstBoards ==
  ASSUME NEW s, Proper(s), Ids(s) = {}, s.toWork = <<>>
  PROVE  /\ LET m == Failed([s EXCEPT !.infos = <<>>])
            IN  /\ Proper(m) /\ Ids(m) = {} /\ \A o \in Owners : Excess(m, o) = Excess(s, o)
         /\ \A k \in Nat, size \in Sizes :
              LET m == Given([Assigned(s) EXCEPT !.infos = FirstInfos(size, k),
                                                 !.count["component"] = @ + k], 0 .. k - 1)
              IN  Proper(m) /\ \A o \in Owners : Excess(m, o) = Excess(s, o)
<1>1. s \in Boards /\ IsFiniteSet(Ids(s)) /\ Cardinality(s.slot) <= 1
  BY DEF Proper
<1>2. \A m : m.toWork = <<>> => Waits(m) = {}
  BY DEF Waits, IdsIn
<1>3. LET m == Failed([s EXCEPT !.infos = <<>>])
      IN  /\ Proper(m) /\ Ids(m) = {} /\ \A o \in Owners : Excess(m, o) = Excess(s, o)
  <2> DEFINE e == [s EXCEPT !.infos = <<>>]
             m == Failed(e)
  <2>1. e \in Boards /\ Ids(e) = {} /\ IsFiniteSet(Ids(e)) /\ e.slot = s.slot /\ e.toWork = s.toWork
    BY <1>1, ClearedBoard
  <2>2. Proper(e)
    BY <1>1, <1>2, <2>1 DEF Proper
  <2>3. e.count = s.count
    BY <1>1 DEF Boards
  <2> HIDE DEF e
  <2>4. Keeps(e, m)
    BY Zenon, <2>1, FlagChanges
  <2>5. \A o : OwnedBy(e, o) = {} /\ OwnedBy(s, o) = {}
    BY <2>1 DEF OwnedBy
  <2>6. \A o \in Owners : Excess(e, o) = Excess(s, o)
    BY <2>3, <2>5 DEF Excess
  <2> HIDE DEF m
  <2>7. Proper(m) /\ Ids(m) = {} /\ \A o \in Owners : Excess(m, o) = Excess(s, o)
    BY <2>1, <2>2, <2>4, <2>6, KeepsProper DEF Keeps
  <2> QED BY <2>7 DEF m, e
<1>4. ASSUME NEW k \in Nat, NEW size \in Sizes
      PROVE  LET m == Given([Assigned(s) EXCEPT !.infos = FirstInfos(size, k),
                                                !.count["component"] = @ + k], 0 .. k - 1)
             IN  Proper(m) /\ \A o \in Owners : Excess(m, o) = Excess(s, o)
  <2> DEFINE t == Assigned(s)
             u == [t EXCEPT !.infos = FirstInfos(size, k), !.count["component"] = @ + k]
             m == Given(u, 0 .. k - 1)
  <2>1. Keeps(s, t) /\ t.toWork = s.toWork /\ t.slot = s.slot
    BY <1>1, AssignedKeeps
  <2>2. t \in Boards /\ Ids(t) = {} /\ \A o \in Owners : Excess(t, o) = Excess(s, o)
    BY <2>1 DEF Keeps
  <2> HIDE DEF t
  <2>3. /\ u \in Boards /\ Ids(u) = 0 .. k - 1 /\ IsFiniteSet(Ids(u)) /\ SameFlags(t, u)
        /\ \A o \in Owners : Excess(u, o) = Excess(t, o)
    BY <2>2, AllocatedBoard
  <2> HIDE DEF u
  <2>4. /\ m \in Boards /\ Ids(m) = Ids(u) /\ SameFlags(u, m) /\ \A o \in Owners : Excess(m, o) = Excess(u, o)
    BY <2>3, GivenKeeps
  <2> HIDE DEF m
  <2>5. m.toWork = <<>> /\ m.slot = s.slot
    BY <2>1, <2>3, <2>4 DEF SameFlags
  <2>6. Proper(m)
    BY <1>1, <1>2, <2>3, <2>4, <2>5 DEF Proper
  <2> QED BY <2>2, <2>3, <2>4, <2>6 DEF m, u, t
<1> QED BY <1>3, <1>4

\* AllocateBuffers keeps TypeInv: the first ids are those of the pool.
LEMMA AllocateBuffersKeeps ==
  ASSUME TypeInv, AllocateBuffers
  PROVE  TypeInv'
<1> DEFINE count == BlockCount(device)
           d == Surfaced(device)
           size == AlignedSize(d, format.size)
           blocks(k) == {<<size[1], size[2], n>> : n \in 1 .. k}
<1>1. /\ at = "allocate" /\ fetch = {} /\ at' = "idle"
      /\ device' = d /\ poolMax' = RequestedMax(count) /\ pending' = {} /\ first' = TRUE
      /\ UNCHANGED <<inVars, state, works, last, client, haveFlush, reuse, changing, fetch, decVars,
                     todo, haveDrain, withClient>>
  BY DEF AllocateBuffers, Joined
<1>2. \/ /\ b' = Failed([b EXCEPT !.infos = <<>>]) /\ tasks' = 0 /\ waiting' = 0
         /\ UNCHANGED <<runLoop, allocLoop, format, pool, nextId>>
      \/ \E k \in 0 .. FirstBlocks(d, count, Smooth) :
           /\ pool' = [block \in blocks(k) |-> block[3] - 1]
           /\ nextId' = k
           /\ b' = Given([Assigned(b) EXCEPT !.infos = FirstInfos(size, k),
                                             !.count["component"] = @ + k], 0 .. k - 1)
           /\ format' = [format EXCEPT !.min = count]
           /\ runLoop' = TRUE /\ allocLoop' = TRUE
           /\ tasks' = count - k /\ waiting' = 0
  BY DEF AllocateBuffers, FirstInfos
<1>3. ~first /\ state # "UNINITIALIZED" /\ Ids(b) = {} /\ b.toWork = <<>> /\ Proper(b)
  BY <1>1 DEF TypeInv, Empty, BoardOK
<1>4. \A i \in DOMAIN todo : todo[i].op \notin BlockOps
  BY <1>3 DEF TypeInv, Empty
<1>5. count \in Nat /\ RequestedMax(count) \in Nat /\ Smooth \in Nat
  BY BlockNumbers, BoundsAssumption
<1>6. size \in Sizes /\ format \in Formats /\ format.size \in Sizes
  <2>1. format \in Formats /\ format.size \in Sizes
    BY DEF TypeInv, TypesOK, Formats
  <2> QED BY <2>1, AlignedSizes
<1>7. d.codec \in Codecs /\ "codec" \in DOMAIN d /\ "widthAlign" \in DOMAIN d
  BY DeviceKept DEF TypeInv, TypesOK, SameDevice
<1> HIDE DEF count, d, size
<1>8. \A k \in Nat : /\ blocks(k) \in SUBSET Blocks
                     /\ [block \in blocks(k) |-> block[3] - 1] \in [blocks(k) -> Nat]
                     /\ \A block \in blocks(k) : block[3] - 1 < k
                     /\ \A m, n \in blocks(k) : m[3] - 1 = n[3] - 1 => m = n
  <2> TAKE k \in Nat
  <2>1. \A n \in 1 .. k : <<size[1], size[2], n>> \in Blocks
    BY <1>6 DEF Sizes, Blocks
  <2> QED BY <2>1
<1>9. /\ Proper(b') /\ \A o \in Owners : Excess(b', o) = Excess(b, o)
      /\ tasks' \in Nat /\ waiting' \in Nat /\ runLoop' \in BOOLEAN /\ allocLoop' \in BOOLEAN
      /\ format' \in Formats /\ nextId' \in Nat /\ DOMAIN pool' \in SUBSET Blocks /\ pool' \in [DOMAIN pool' -> Nat]
      /\ \A block \in DOMAIN pool' : pool'[block] < nextId'
      /\ \A m, n \in DOMAIN pool' : pool'[m] = pool'[n] => m = n
  <2>1. CASE /\ b' = Failed([b EXCEPT !.infos = <<>>]) /\ tasks' = 0 /\ waiting' = 0
             /\ UNCHANGED <<runLoop, allocLoop, format, pool, nextId>>
    <3>1. Proper(b') /\ \A o \in Owners : Excess(b', o) = Excess(b, o)
      BY <1>3, <2>1, FirstBoards
    <3> QED BY <1>6, <2>1, <3>1 DEF TypeInv, TypesOK, Pooled
  <2>2. ASSUME NEW k \in 0 .. FirstBlocks(d, count, Smooth),
               pool' = [block \in blocks(k) |-> block[3] - 1], nextId' = k,
               b' = Given([Assigned(b) EXCEPT !.infos = FirstInfos(size, k),
                                             !.count["component"] = @ + k], 0 .. k - 1),
               format' = [format EXCEPT !.min = count],
               runLoop' = TRUE, allocLoop' = TRUE,
               tasks' = count - k, waiting' = 0
        PROVE  <1>9!:
    <3>1. k \in Nat /\ k <= count
      <4>1. FirstBlocks(d, count, Smooth) \in 0 .. count
        BY <1>5, FirstBlocksWithin
      <4> QED BY <1>5, <4>1
    <3>2. Proper(b') /\ \A o \in Owners : Excess(b', o) = Excess(b, o)
      BY <1>3, <1>6, <2>2, <3>1, FirstBoards
    <3>3. DOMAIN pool' = blocks(k) /\ \A block \in blocks(k) : pool'[block] = block[3] - 1
      BY <2>2
    <3>4. /\ DOMAIN pool' \in SUBSET Blocks /\ pool' \in [DOMAIN pool' -> Nat]
          /\ \A block \in DOMAIN pool' : pool'[block] < nextId'
          /\ \A m, n \in DOMAIN pool' : pool'[m] = pool'[n] => m = n
      <4> HIDE DEF blocks
      <4> QED BY <1>8, <2>2, <3>1, <3>3
    <3>5. tasks' \in Nat
      BY <1>5, <2>2, <3>1
    <3>6. format' \in Formats
      BY <1>5, <1>6, <2>2 DEF Formats
    <3> QED BY <2>2, <3>1, <3>2, <3>4, <3>5, <3>6
  <2> QED BY <1>2, <2>1, <2>2
<1>10. QuietTasks(todo, todo')
  BY <1>1, QuietPosts
<1>11. TypesOK'
  <2>1. Cardinality(pending') <= 1
    BY <1>1, FS_EmptySet
  <2> QED BY <1>1, <1>5, <1>7, <1>9, <2>1 DEF TypeInv, TypesOK, inVars, decVars, Places
<1>12. BoardOK' /\ Counted'
  BY <1>1, <1>9 DEF TypeInv, BoardOK, Counted, inVars
<1>13. Empty'
  BY <1>1, <1>3 DEF TypeInv, Empty
<1>14. Pooled'
  BY <1>1, <1>4, <1>9 DEF TypeInv, Pooled
<1>15. Serial'
  BY <1>1, <1>10, SerialKept
<1> QED BY <1>11, <1>12, <1>13, <1>14, <1>15 DEF TypeInv

\* The boards a change of format leaves.
LEMMA ChangedBoards ==
  ASSUME NEW s, Proper(s), s.toWork = <<>>
  PROVE  /\ Keeps(s, Assigned(s)) /\ Keeps(s, Given(Assigned(s), OwnedBy(s, "component")))
         /\ LET m == Assigned(NoInfos(s))
            IN  Proper(m) /\ Ids(m) = {} /\ \A o \in Owners : Excess(m, o) = Excess(s, o)
         /\ LET m == Assigned([s EXCEPT !.infos = <<>>])
            IN  /\ Proper(m) /\ Ids(m) = {}
                /\ \A o \in Owners : Excess(m, o) \in Int /\ Excess(m, o) >= Excess(s, o)
<1>1. s \in Boards /\ IsFiniteSet(Ids(s)) /\ Cardinality(s.slot) <= 1
  BY DEF Proper
<1>2. \A m : m.toWork = <<>> => Waits(m) = {}
  BY DEF Waits, IdsIn
<1>3. Keeps(s, Assigned(s))
  BY <1>1, AssignedKeeps
<1>4. Keeps(s, Given(Assigned(s), OwnedBy(s, "component")))
  <2> DEFINE t == Assigned(s)
             ids == OwnedBy(s, "component")
  <2>1. t \in Boards /\ IsFiniteSet(Ids(t)) /\ ids \in SUBSET Ids(t)
    BY <1>1, <1>3 DEF Keeps, OwnedBy
  <2> HIDE DEF t, ids
  <2>2. Keeps(t, Given(t, ids))
    BY <2>1, MovesKeep
  <2> QED BY <1>3, <2>2, KeepsTwice DEF t, ids
<1>5. LET m == Assigned(NoInfos(s))
      IN  Proper(m) /\ Ids(m) = {} /\ \A o \in Owners : Excess(m, o) = Excess(s, o)
  <2> DEFINE e == NoInfos(s)
             m == Assigned(e)
  <2>1. /\ e \in Boards /\ Ids(e) = {} /\ IsFiniteSet(Ids(e)) /\ e.slot \in {s.slot, {}}
        /\ e.toWork = s.toWork /\ \A o \in Owners : Excess(e, o) = Excess(s, o)
    BY <1>1, ClearedBoard
  <2>2. Proper(e)
    <3>1. Cardinality(e.slot) <= 1
      <4>1. Cardinality({}) = 0
        BY FS_EmptySet
      <4>2. CASE e.slot = s.slot
        BY <1>1, <4>2
      <4>3. CASE e.slot = {}
        BY <4>1, <4>3
      <4> QED BY <2>1, <4>2, <4>3
    <3> QED BY <1>2, <2>1, <3>1 DEF Proper
  <2> HIDE DEF e
  <2>3. Keeps(e, m)
    BY <2>1, AssignedKeeps
  <2> HIDE DEF m
  <2>4. Proper(m) /\ Ids(m) = {} /\ \A o \in Owners : Excess(m, o) = Excess(s, o)
    BY <2>1, <2>2, <2>3, KeepsProper DEF Keeps
  <2> QED BY <2>4 DEF m, e
<1>6. LET m == Assigned([s EXCEPT !.infos = <<>>])
      IN  /\ Proper(m) /\ Ids(m) = {}
          /\ \A o \in Owners : Excess(m, o) \in Int /\ Excess(m, o) >= Excess(s, o)
  <2> DEFINE e == [s EXCEPT !.infos = <<>>]
             m == Assigned(e)
  <2>1. /\ e \in Boards /\ Ids(e) = {} /\ IsFiniteSet(Ids(e)) /\ e.slot = s.slot
        /\ e.toWork = s.toWork
        /\ \A o \in Owners : Excess(e, o) \in Int /\ Excess(e, o) >= Excess(s, o)
    BY <1>1, ClearedBoard
  <2>2. Proper(e)
    BY <1>1, <1>2, <2>1 DEF Proper
  <2> HIDE DEF e
  <2>3. Keeps(e, m)
    BY <2>1, AssignedKeeps
  <2> HIDE DEF m
  <2>4. Proper(m) /\ Ids(m) = {} /\ \A o \in Owners : Excess(m, o) = Excess(e, o)
    BY <2>1, <2>2, <2>3, KeepsProper DEF Keeps
  <2>5. \A o \in Owners : Excess(m, o) \in Int /\ Excess(m, o) >= Excess(s, o)
    BY <2>1, <2>4
  <2> QED BY <2>4, <2>5 DEF m, e
<1> QED BY <1>3, <1>4, <1>5, <1>6

\* VideoResolutionChange keeps TypeInv: what is counted in excess grows without a surface only.
LEMMA VideoResolutionChangeKeeps ==
  ASSUME TypeInv, VideoResolutionChange
  PROVE  TypeInv'
<1>1. /\ at = "change" /\ fetch = {} /\ at' = "idle" /\ pending' = {}
      /\ runLoop' = TRUE /\ allocLoop' = TRUE /\ tasks' = format.min /\ waiting' = 0
      /\ UNCHANGED <<inVars, state, works, last, first, client, haveFlush, reuse, formatVars, fetch,
                     decVars, todo, haveDrain, withClient>>
  BY DEF VideoResolutionChange, Joined
<1>2. first /\ state # "UNINITIALIZED" /\ Proper(b) /\ b.toWork = <<>>
  BY <1>1 DEF TypeInv, Empty, BoardOK
<1>3. format.min \in Nat /\ RequestedMax(format.min) \in Nat
  BY BlockNumbers DEF TypeInv, TypesOK, Formats
<1>4. /\ DOMAIN pool \in SUBSET Blocks /\ pool \in [DOMAIN pool -> Nat] /\ nextId \in Nat /\ poolMax \in Nat
      /\ \A block \in DOMAIN pool : pool[block] < nextId
  BY DEF TypeInv, TypesOK, Pooled
<1>5. \A o \in Owners : Excess(b, o) \in Int
  <2>1. \A o \in Owners : b.count[o] \in Int /\ Cardinality(OwnedBy(b, o)) \in Nat
    BY <1>2, BoardInfos, OwnedFinite DEF Proper
  <2> QED BY <2>1 DEF Excess
<1>6. /\ Proper(b') /\ Ids(b') \subseteq Ids(b)
      /\ \A o \in Owners : Excess(b', o) \in Int /\ Excess(b', o) >= Excess(b, o)
      /\ stream.surface => \A o \in Owners : Excess(b', o) = Excess(b, o)
  <2>1. \/ b' = Assigned(NoInfos(b)) \/ b' = Given(Assigned(b), OwnedBy(b, "component"))
        \/ (~stream.surface /\ b' = Assigned([b EXCEPT !.infos = <<>>])) \/ b' = Assigned(b)
    BY DEF VideoResolutionChange
  <2>2. CASE b' = Assigned(NoInfos(b))
    <3>1. Proper(b') /\ Ids(b') = {} /\ \A o \in Owners : Excess(b', o) = Excess(b, o)
      BY <1>2, <2>2, ChangedBoards
    <3> QED BY <1>5, <3>1
  <2>3. CASE b' = Given(Assigned(b), OwnedBy(b, "component")) \/ b' = Assigned(b)
    <3>1. Keeps(b, b') /\ Proper(b')
      <4>1. Keeps(b, Assigned(b)) /\ Keeps(b, Given(Assigned(b), OwnedBy(b, "component")))
        BY <1>2, ChangedBoards
      <4>2. Keeps(b, b')
        BY <2>3, <4>1
      <4> QED BY <1>2, <4>2, KeepsProper
    <3>2. Ids(b') = Ids(b) /\ \A o \in Owners : Excess(b', o) = Excess(b, o)
      BY <3>1 DEF Keeps
    <3> QED BY <1>5, <3>1, <3>2
  <2>4. CASE ~stream.surface /\ b' = Assigned([b EXCEPT !.infos = <<>>])
    <3>1. /\ Proper(b') /\ Ids(b') = {}
          /\ \A o \in Owners : Excess(b', o) \in Int /\ Excess(b', o) >= Excess(b, o)
      BY <1>2, <2>4, ChangedBoards
    <3> QED BY <2>4, <3>1
  <2> QED BY <2>1, <2>2, <2>3, <2>4
<1>7. /\ DOMAIN pool' \subseteq DOMAIN pool /\ pool' \in [DOMAIN pool' -> Nat] /\ nextId' \in Nat /\ poolMax' \in Nat
      /\ \A block \in DOMAIN pool' : pool'[block] = pool[block] /\ pool'[block] < nextId'
  <2>1. \/ CancelAllGraphicBlock /\ poolMax' = RequestedMax(format.min)
        \/ UNCHANGED poolVars
        \/ ResetGraphicBlock(OwnedBy(b, "component")) /\ UNCHANGED poolMax
    BY DEF VideoResolutionChange, ResetBlockPoolUtil
  <2>2. CASE CancelAllGraphicBlock /\ poolMax' = RequestedMax(format.min)
    BY <1>3, <2>2, EmptyInfos DEF CancelAllGraphicBlock
  <2>3. CASE UNCHANGED poolVars
    BY <1>4, <2>3 DEF poolVars
  <2>4. CASE ResetGraphicBlock(OwnedBy(b, "component")) /\ UNCHANGED poolMax
    <3> DEFINE ids == OwnedBy(b, "component")
               kept == {block \in DOMAIN pool : pool[block] \notin ids}
    <3>1. /\ pool' = [block \in kept |-> pool[block]] /\ nextId' = IF kept = {} THEN 0 ELSE nextId
      BY <2>4 DEF ResetGraphicBlock
    <3>2. kept \subseteq DOMAIN pool /\ DOMAIN pool' = kept /\ \A block \in kept : pool'[block] = pool[block]
      BY <3>1
    <3>3. \A block \in kept : pool[block] \in Nat /\ nextId' = nextId
      BY <1>4, <3>1
    <3>4. pool' \in [DOMAIN pool' -> Nat]
      BY <1>4, <3>1
    <3> HIDE DEF kept
    <3> QED BY <1>4, <2>4, <3>1, <3>2, <3>3, <3>4
  <2> QED BY <2>1, <2>2, <2>3, <2>4
<1>8. QuietTasks(todo, todo')
  BY <1>1, QuietPosts
<1>9. TypesOK'
  <2>1. Cardinality(pending') <= 1
    BY <1>1, FS_EmptySet
  <2>2. DOMAIN pool' \in SUBSET Blocks
    BY <1>4, <1>7
  <2> QED BY <1>1, <1>3, <1>7, <2>1, <2>2 DEF TypeInv, TypesOK, inVars, formatVars, decVars, Places
<1>10. BoardOK'
  BY <1>1, <1>6 DEF BoardOK
<1>11. Counted'
  <2>1. \A o \in Owners : Excess(b, o) >= 0 /\ (stream.surface => Excess(b, o) = 0)
    BY <1>2 DEF TypeInv, Counted
  <2>2. \A o \in Owners : Excess(b', o) >= 0 /\ (stream.surface => Excess(b', o) = 0)
    BY <1>5, <1>6, <2>1
  <2> QED BY <1>1, <2>2 DEF Counted, inVars
<1>12. Empty'
  BY <1>1, <1>2 DEF TypeInv, Empty
<1>13. Pooled'
  BY <1>1, <1>6, <1>7 DEF TypeInv, Pooled
<1>14. Serial'
  BY <1>1, <1>8, SerialKept
<1> QED BY <1>9, <1>10, <1>11, <1>12, <1>13, <1>14 DEF TypeInv

-----------------------------------------------------------------------------
(* Flush, stop and drain.                                                   *)

\* What is left of the board after a flush and after a stop.
LEMMA EmptiedBoards ==
  ASSUME NEW s, Proper(s)
  PROVE  /\ LET m == [s EXCEPT !.afterFlush = IdsIn(s, Len(s.toWork)) \cap Ids(s),
                               !.toWork = <<>>, !.outputs = 0]
            IN  Proper(m) /\ Ids(m) = Ids(s) /\ \A o \in Owners : Excess(m, o) = Excess(s, o)
         /\ LET m == [s EXCEPT !.infos = <<>>, !.toWork = <<>>, !.slot = {}, !.outputs = 0, !.error = FALSE]
            IN  Proper(m) /\ Ids(m) = {}
<1>1. s \in Boards /\ IsFiniteSet(Ids(s)) /\ Cardinality(s.slot) <= 1 /\ Ids(s) \subseteq Nat
  BY BoardInfos DEF Proper
<1>2. \A m : m.toWork = <<>> => Waits(m) = {}
  BY DEF Waits, IdsIn
<1>3. <<>> \in Seq(Nat)
  BY EmptySeq
<1>4. LET m == [s EXCEPT !.afterFlush = IdsIn(s, Len(s.toWork)) \cap Ids(s),
                         !.toWork = <<>>, !.outputs = 0]
      IN  Proper(m) /\ Ids(m) = Ids(s) /\ \A o \in Owners : Excess(m, o) = Excess(s, o)
  <2> DEFINE F == IdsIn(s, Len(s.toWork)) \cap Ids(s)
             m == [s EXCEPT !.afterFlush = F, !.toWork = <<>>, !.outputs = 0]
  <2>1. F \in SUBSET Nat
    BY <1>1
  <2> HIDE DEF F
  <2>2. m \in Boards /\ m.infos = s.infos /\ m.count = s.count /\ m.slot = s.slot /\ m.toWork = <<>>
    BY <1>1, <1>3, <2>1 DEF Boards
  <2> HIDE DEF m
  <2>3. Ids(m) = Ids(s) /\ \A o : OwnedBy(m, o) = OwnedBy(s, o)
    BY <2>2 DEF Ids, OwnedBy
  <2>4. Proper(m) /\ \A o \in Owners : Excess(m, o) = Excess(s, o)
    BY <1>1, <1>2, <2>2, <2>3 DEF Proper, Excess
  <2> QED BY <2>3, <2>4 DEF m, F
<1>5. LET m == [s EXCEPT !.infos = <<>>, !.toWork = <<>>, !.slot = {}, !.outputs = 0, !.error = FALSE]
      IN  Proper(m) /\ Ids(m) = {}
  <2> DEFINE e == [s EXCEPT !.infos = <<>>]
             m == [s EXCEPT !.infos = <<>>, !.toWork = <<>>, !.slot = {}, !.outputs = 0, !.error = FALSE]
  <2>1. e \in Boards
    BY <1>1, ClearedBoard
  <2>2. m = [e EXCEPT !.toWork = <<>>, !.slot = {}, !.outputs = 0, !.error = FALSE]
    BY <1>1 DEF Boards
  <2>3. m \in Boards
    <3> HIDE DEF e, m
    <3> QED BY <1>3, <2>1, <2>2 DEF Boards
  <2>4. m.infos = <<>> /\ m.slot = {} /\ m.toWork = <<>>
    BY <1>1 DEF Boards
  <2> HIDE DEF m
  <2>5. Ids(m) = {}
    BY <2>4, EmptyInfos DEF Ids
  <2>6. Proper(m)
    BY <1>2, <2>3, <2>4, <2>5, FS_EmptySet DEF Proper
  <2> QED BY <2>5, <2>6 DEF m
<1> QED BY <1>4, <1>5

\* ResetDone keeps TypeInv: it only says where the component thread goes on.
LEMMA ResetDoneKeeps ==
  ASSUME TypeInv, ResetDone
  PROVE  TypeInv'
<1>1. /\ todo # <<>> /\ todo' = Tail(todo) /\ at = "idle" /\ state # "UNINITIALIZED"
      /\ UNCHANGED <<inVars, state, works, last, pending, first, client, haveFlush, reuse, formatVars,
                     allocLoop, tasks, waiting, fetch, poolVars, decVars, haveDrain, withClient>>
      /\ b' \in {b, Failed(b)}
  BY DEF ResetDone, Takes
<1>2. /\ runLoop' \in BOOLEAN /\ at' \in {"idle", "stopDone", "flushDone"}
      /\ at' = "stopDone" => state = "STOPPING"
      /\ at' = "flushDone" => state = "FLUSHING"
  <2>1. runLoop \in BOOLEAN
    BY DEF TypeInv, TypesOK
  <2> QED BY <1>1, <2>1 DEF ResetDone, Stopping
<1>3. Keeps(b, b') /\ Proper(b')
  <2>1. Proper(b) /\ b \in Boards
    BY DEF TypeInv, BoardOK, Proper
  <2>2. Keeps(b, b')
    BY Zenon, <1>1, <2>1, KeepsSame, FlagChanges
  <2> QED BY <2>1, <2>2, KeepsProper
<1>4. QuietTasks(todo, todo')
  BY <1>1, QuietPosts
<1>5. TypesOK'
  BY <1>1, <1>2, <1>4
     DEF TypeInv, TypesOK, inVars, formatVars, poolVars, decVars, QuietTasks, Places
<1>6. Steady
  BY <1>1, <1>2, <1>3, <1>4 DEF Steady, Keeps, TypeInv, Empty, inVars, poolVars
<1>7. Serial'
  BY <1>1, <1>2, <1>4 DEF TypeInv, Serial, QuietTasks
<1> QED BY <1>5, <1>6, <1>7, SteadyKeeps DEF TypeInv

\* FlushDone keeps TypeInv: the blocks of the pictures that waited are still there.
LEMMA FlushDoneKeeps ==
  ASSUME TypeInv, FlushDone
  PROVE  TypeInv'
<1>1. /\ at = "flushDone" /\ fetch = {} /\ at' = "idle"
      /\ tasks' = 0 /\ waiting' = 0 /\ works' = <<>> /\ state' = "STARTED" /\ client' = "woken"
      /\ b' = [b EXCEPT !.afterFlush = IdsIn(b, Len(b.toWork)) \cap Ids(b),
                        !.toWork = <<>>, !.outputs = 0]
      /\ UNCHANGED <<inVars, last, pending, first, haveFlush, reuse, formatVars, runLoop, allocLoop,
                     fetch, poolVars, decVars, todo, haveDrain, withClient>>
  BY DEF FlushDone, Joined
<1>2. Proper(b') /\ Ids(b') = Ids(b) /\ \A o \in Owners : Excess(b', o) = Excess(b, o)
  BY <1>1, EmptiedBoards DEF TypeInv, BoardOK
<1>3. QuietTasks(todo, todo')
  BY <1>1, QuietPosts
<1>4. state = "FLUSHING" /\ client = "flushing"
  BY <1>1 DEF TypeInv, Serial
<1>5. TypesOK'
  BY <1>1, EmptySeq DEF TypeInv, TypesOK, inVars, formatVars, poolVars, decVars, Places, States
<1>6. Steady
  BY <1>1, <1>2, <1>3, <1>4 DEF Steady, TypeInv, Empty, inVars, poolVars
<1>7. Serial'
  BY <1>1, <1>4 DEF TypeInv, Serial
<1> QED BY <1>5, <1>6, <1>7, SteadyKeeps DEF TypeInv

\* StopDone keeps TypeInv: nothing is left that the counts speak of.
LEMMA StopDoneKeeps ==
  ASSUME TypeInv, StopDone
  PROVE  TypeInv'
<1>1. /\ at = "stopDone" /\ fetch = {} /\ at' = "idle"
      /\ state' = "UNINITIALIZED" /\ pending' = {} /\ first' = FALSE
      /\ b' = [b EXCEPT !.infos = <<>>, !.toWork = <<>>, !.slot = {}, !.outputs = 0, !.error = FALSE]
      /\ pool' = <<>> /\ nextId' = 0 /\ poolMax' = 0 /\ tasks' = 0 /\ waiting' = 0
      /\ UNCHANGED <<inVars, works, last, client, haveFlush, reuse, formatVars, runLoop, allocLoop,
                     fetch, decVars, todo, haveDrain, withClient>>
  BY DEF StopDone, Joined, CancelAllGraphicBlock
<1>2. Proper(b') /\ Ids(b') = {}
  BY <1>1, EmptiedBoards DEF TypeInv, BoardOK
<1>3. state = "STOPPING" /\ client = "stopping"
  BY <1>1 DEF TypeInv, Serial
<1>4. DOMAIN pool' = {} /\ pool' \in [DOMAIN pool' -> Nat] /\ Cardinality(pending') <= 1
  <2>1. Cardinality({}) = 0 /\ pending' = {}
    BY <1>1, FS_EmptySet
  <2> QED BY <1>1, <2>1, EmptyInfos
<1>5. TypesOK'
  BY <1>1, <1>4 DEF TypeInv, TypesOK, inVars, formatVars, decVars, Places, States
<1>6. BoardOK' /\ Counted'
  BY <1>1, <1>2 DEF BoardOK, Counted
<1>7. Empty' /\ Pooled'
  BY <1>1, <1>2, <1>4 DEF TypeInv, Empty, Pooled
<1>8. Serial'
  BY <1>1, <1>3 DEF TypeInv, Serial
<1> QED BY <1>5, <1>6, <1>7, <1>8 DEF TypeInv

\* Flush keeps TypeInv: it was the only one posted.
LEMMA FlushKeeps ==
  ASSUME TypeInv, Flush
  PROVE  TypeInv'
<1>1. /\ at = "idle" /\ todo # <<>> /\ Head(todo).op = "flush" /\ todo' = Tail(todo)
      /\ state \notin {"FLUSHING", "STOPPING"}
      /\ state' = "FLUSHING" /\ b' = [b EXCEPT !.error = FALSE] /\ resets' = resets + 1
      /\ UNCHANGED <<inVars, works, last, pending, first, client, haveFlush, reuse, formatVars, loopVars,
                     poolVars, draining, shown, at, haveDrain, withClient>>
  BY DEF Flush, Takes
<1>2. /\ 1 \in DOMAIN todo /\ todo[1].op = "flush"
      /\ \A i \in DOMAIN Tail(todo) : i + 1 \in DOMAIN todo /\ Tail(todo)[i] = todo[i + 1] /\ i + 1 # 1
  BY <1>1, HeadTask DEF TypeInv, TypesOK
<1>3. client = "flushing" /\ state # "UNINITIALIZED" /\ ~Has(todo', "flush")
  <2>1. Has(todo, "flush")
    BY <1>2 DEF Has
  <2>2. client = "flushing"
    BY <2>1 DEF TypeInv, Serial
  <2>3. state # "UNINITIALIZED"
    BY <2>2 DEF TypeInv, Serial
  <2>4. ~Has(todo', "flush")
    BY <1>1, <1>2 DEF Has, TypeInv, Serial, OneFlush
  <2> QED BY <2>2, <2>3, <2>4
<1>4. Keeps(b, b') /\ Proper(b')
  <2>1. Proper(b) /\ b \in Boards
    BY DEF TypeInv, BoardOK, Proper
  <2>2. Keeps(b, b')
    BY Zenon, <1>1, <2>1, FlagChanges
  <2> QED BY <2>1, <2>2, KeepsProper
<1>5. QuietTasks(todo, todo')
  BY <1>1, QuietPosts
<1>6. TypesOK'
  BY <1>1, <1>5 DEF TypeInv, TypesOK, inVars, formatVars, poolVars, loopVars, QuietTasks, States
<1>7. Steady
  BY <1>1, <1>3, <1>4, <1>5 DEF Steady, Keeps, TypeInv, Empty, inVars, poolVars, loopVars
<1>8. Serial'
  BY <1>1, <1>3, <1>5 DEF TypeInv, Serial, QuietTasks
<1> QED BY <1>6, <1>7, <1>8, SteadyKeeps DEF TypeInv

\* Stop keeps TypeInv.
LEMMA StopKeeps ==
  ASSUME TypeInv, Stop
  PROVE  TypeInv'
<1>1. /\ at = "idle" /\ todo # <<>> /\ Head(todo).op = "stop" /\ todo' = Tail(todo)
      /\ state # "UNINITIALIZED" /\ at' = "stopping"
      /\ state' = "STOPPING" /\ works' = <<>> /\ b' = [b EXCEPT !.error = FALSE] /\ runLoop' = FALSE
      /\ UNCHANGED <<inVars, last, pending, first, client, haveFlush, reuse, formatVars, allocLoop,
                     tasks, waiting, fetch, poolVars, decVars, haveDrain, withClient>>
  BY DEF Stop, Takes, Stopping
<1>2. 1 \in DOMAIN todo /\ todo[1].op = "stop"
  BY <1>1, HeadTask DEF TypeInv, TypesOK
<1>3. client = "stopping"
  BY <1>2 DEF Has, TypeInv, Serial
<1>4. Keeps(b, b') /\ Proper(b')
  <2>1. Proper(b) /\ b \in Boards
    BY DEF TypeInv, BoardOK, Proper
  <2>2. Keeps(b, b')
    BY Zenon, <1>1, <2>1, FlagChanges
  <2> QED BY <2>1, <2>2, KeepsProper
<1>5. QuietTasks(todo, todo')
  BY <1>1, QuietPosts
<1>6. TypesOK'
  BY <1>1, <1>5, EmptySeq
     DEF TypeInv, TypesOK, inVars, formatVars, poolVars, decVars, QuietTasks, States, Places
<1>7. Steady
  BY <1>1, <1>4, <1>5 DEF Steady, Keeps, TypeInv, Empty, inVars, poolVars
<1>8. Serial'
  <2>1. ~Has(todo', "flush")
    BY <1>3, <1>5 DEF TypeInv, Serial, QuietTasks
  <2> QED BY <1>1, <1>3, <1>5, <2>1 DEF TypeInv, Serial, QuietTasks
<1> QED BY <1>6, <1>7, <1>8, SteadyKeeps DEF TypeInv

\* StopJoined keeps TypeInv.
LEMMA StopJoinedKeeps ==
  ASSUME TypeInv, StopJoined
  PROVE  TypeInv'
<1>1. /\ at = "stopping" /\ fetch = {} /\ at' = "idle"
      /\ tasks' = 0 /\ waiting' = 0 /\ resets' = resets + 1
      /\ UNCHANGED <<inVars, compVars, formatVars, runLoop, allocLoop, fetch, poolVars, draining, shown,
                     todo, haveDrain, withClient>>
  BY DEF StopJoined, Joined
<1>2. Keeps(b, b') /\ Proper(b')
  BY <1>1, KeepsSame DEF TypeInv, BoardOK, Proper, compVars
<1>3. QuietTasks(todo, todo')
  BY <1>1, QuietPosts
<1>4. TypesOK'
  BY <1>1 DEF TypeInv, TypesOK, inVars, compVars, formatVars, poolVars, Places
<1>5. Steady
  BY <1>1, <1>2, <1>3 DEF Steady, Keeps, TypeInv, Empty, inVars, poolVars, compVars
<1>6. Serial'
  BY <1>1, <1>3, SerialKept DEF compVars
<1> QED BY <1>4, <1>5, <1>6, SteadyKeeps DEF TypeInv

\* DrainDone keeps TypeInv.
LEMMA DrainDoneKeeps ==
  ASSUME TypeInv, DrainDone
  PROVE  TypeInv'
<1>1. /\ at = "idle" /\ todo # <<>> /\ todo' = Tail(todo) /\ state # "UNINITIALIZED"
      /\ state' = (IF state = "DRAINING" THEN "STARTED" ELSE state) /\ at' \in {"idle", "drained"}
      /\ b' \in {b, EosReported(b), Failed(b)}
      /\ UNCHANGED <<inVars, works, last, pending, first, client, haveFlush, reuse, formatVars, loopVars,
                     poolVars, decVars, haveDrain, withClient>>
  BY DEF DrainDone, Takes, Refuses
<1>2. Keeps(b, b') /\ Proper(b')
  <2>1. Proper(b) /\ b \in Boards
    BY DEF TypeInv, BoardOK, Proper
  <2>2. Keeps(b, b')
    BY Zenon, <1>1, <2>1, KeepsSame, FlagChanges
  <2> QED BY <2>1, <2>2, KeepsProper
<1>3. QuietTasks(todo, todo')
  BY <1>1, QuietPosts
<1>4. TypesOK'
  BY <1>1, <1>3
     DEF TypeInv, TypesOK, inVars, formatVars, poolVars, loopVars, decVars, QuietTasks, States, Places
<1>5. Steady
  BY <1>1, <1>2, <1>3 DEF Steady, Keeps, TypeInv, Empty, inVars, poolVars, loopVars
<1>6. Serial'
  <2>1. state' = state \/ {state, state'} \subseteq {"STARTED", "DRAINING"}
    BY <1>1
  <2> QED BY <1>1, <1>3, <2>1, SerialKept
<1> QED BY <1>4, <1>5, <1>6, SteadyKeeps DEF TypeInv

\* DrainSent keeps TypeInv, as a sending does.
LEMMA DrainSentKeeps ==
  ASSUME TypeInv, DrainSent
  PROVE  TypeInv'
<1>1. /\ at = "drained" /\ at' = "idle"
      /\ UNCHANGED <<stream, state, works, last, pending, first, client, haveFlush, reuse, formatVars,
                     loopVars, poolVars, decVars, haveDrain>>
      /\ todo' = todo \/ todo' = Append(todo, Plain("dequeueWork"))
  BY DEF DrainSent
<1>2. Keeps(b, b') /\ Proper(b')
  <2>1. Proper(b)
    BY DEF TypeInv, BoardOK
  <2>2. PICK sending \in Sendings \cup FailedSendings : b' = sending.b \/ b' = EosReported(sending.b)
    BY DEF DrainSent
  <2>3. Keeps(b, sending.b)
    BY <2>1, SendingsKeep
  <2>4. Keeps(sending.b, EosReported(sending.b))
    BY Zenon, <2>3, FlagChanges DEF Keeps
  <2> QED BY <2>1, <2>2, <2>3, <2>4, KeepsProper, KeepsTwice
<1>3. QuietTasks(todo, todo')
  BY <1>1, QuietPosts, PlainTasks DEF PlainOps
<1>4. TypesOK'
  BY <1>1, <1>3 DEF TypeInv, TypesOK, formatVars, loopVars, poolVars, decVars, Places, QuietTasks
<1>5. Steady
  BY <1>1, <1>2, <1>3 DEF Steady, Keeps, TypeInv, Empty, poolVars, loopVars
<1>6. Serial'
  BY <1>1, <1>3, SerialKept
<1> QED BY <1>4, <1>5, <1>6, SteadyKeeps DEF TypeInv

\* Dropped keeps TypeInv.
LEMMA DroppedKeeps ==
  ASSUME TypeInv, Dropped
  PROVE  TypeInv'
<1>1. /\ at = "idle" /\ todo # <<>> /\ todo' = Tail(todo)
      /\ UNCHANGED <<inVars, compVars, formatVars, loopVars, poolVars, decVars, at, haveDrain, withClient>>
  BY DEF Dropped
<1>2. Keeps(b, b') /\ Proper(b')
  BY <1>1, KeepsSame DEF TypeInv, BoardOK, Proper, compVars
<1>3. QuietTasks(todo, todo')
  BY <1>1, QuietPosts
<1>4. TypesOK'
  BY <1>1, <1>3
     DEF TypeInv, TypesOK, inVars, compVars, formatVars, poolVars, loopVars, decVars, QuietTasks
<1>5. Steady
  BY <1>1, <1>2, <1>3 DEF Steady, Keeps, TypeInv, Empty, inVars, poolVars, compVars, loopVars
<1>6. Serial'
  BY <1>1, <1>3, SerialKept DEF compVars
<1> QED BY <1>4, <1>5, <1>6, SteadyKeeps DEF TypeInv

-----------------------------------------------------------------------------
(* The dequeue thread.                                                      *)

\* TaskCancelled keeps TypeInv: there was a task to lose.
LEMMA TaskCancelledKeeps ==
  ASSUME TypeInv, TaskCancelled
  PROVE  TypeInv'
<1>1. /\ tasks > 0 /\ tasks' = tasks - 1
      /\ UNCHANGED <<inVars, compVars, formatVars, runLoop, allocLoop, waiting, fetch, poolVars, decVars,
                     todo, at, haveDrain, withClient>>
  BY DEF TaskCancelled, NextAllocTask
<1>2. Keeps(b, b') /\ Proper(b')
  BY <1>1, KeepsSame DEF TypeInv, BoardOK, Proper, compVars
<1>3. QuietTasks(todo, todo')
  BY <1>1, QuietPosts
<1>4. tasks' \in Nat /\ (first \/ state = "UNINITIALIZED")
  BY <1>1 DEF TypeInv, TypesOK, Empty
<1>5. TypesOK'
  BY <1>1, <1>4 DEF TypeInv, TypesOK, inVars, compVars, formatVars, poolVars, decVars
<1>6. Steady
  BY <1>1, <1>2, <1>3, <1>4
     DEF Steady, Keeps, TypeInv, Empty, BoardOK, inVars, poolVars, compVars
<1>7. Serial'
  BY <1>1, <1>3, SerialKept DEF compVars
<1> QED BY <1>5, <1>6, <1>7, SteadyKeeps DEF TypeInv

\* FetchBegins keeps TypeInv: one block is fetched at a time.
LEMMA FetchBeginsKeeps ==
  ASSUME TypeInv, FetchBegins
  PROVE  TypeInv'
<1>1. /\ tasks > 0 /\ tasks' = tasks - 1 /\ fetch' = {format.size}
      /\ UNCHANGED <<inVars, compVars, formatVars, runLoop, allocLoop, waiting, poolVars, decVars, todo,
                     at, haveDrain, withClient>>
  BY DEF FetchBegins, NextAllocTask
<1>2. Keeps(b, b') /\ Proper(b')
  BY <1>1, KeepsSame DEF TypeInv, BoardOK, Proper, compVars
<1>3. QuietTasks(todo, todo')
  BY <1>1, QuietPosts
<1>4. tasks' \in Nat /\ (first \/ state = "UNINITIALIZED")
  BY <1>1 DEF TypeInv, TypesOK, Empty
<1>5. fetch' \in SUBSET Sizes /\ Cardinality(fetch') <= 1
  <2>1. format.size \in Sizes
    BY DEF TypeInv, TypesOK, Formats
  <2>2. Cardinality({format.size}) = 1
    BY FS_Singleton
  <2> QED BY <1>1, <2>1, <2>2
<1>6. TypesOK'
  BY <1>1, <1>4, <1>5 DEF TypeInv, TypesOK, inVars, compVars, formatVars, poolVars, decVars
<1>7. Steady
  BY <1>1, <1>2, <1>3, <1>4
     DEF Steady, Keeps, TypeInv, Empty, BoardOK, inVars, poolVars, compVars
<1>8. Serial'
  BY <1>1, <1>3, SerialKept DEF compVars
<1> QED BY <1>6, <1>7, <1>8, SteadyKeeps DEF TypeInv

\* The blocks that may be fetched are blocks, and none that is on its way.
LEMMA AvailableBlocks ==
  ASSUME TypeInv, NEW size \in Sizes, NEW block \in Available(AlignedSize(device, size))
  PROVE  /\ block \in Blocks
         /\ \A i \in DOMAIN todo : todo[i].op \in BlockOps => todo[i].block # block
<1>1. AlignedSize(device, size) \in Sizes
  BY AlignedSizes
<1>2. Buffers \subseteq Nat
  <2>1. IsFiniteSet(Buffers) /\ Cardinality(Buffers) \in Nat
    BY BoundsAssumption, FS_CardinalityType
  <2> QED BY <2>1, BoundsAssumption
<1>3. block \in BuffersOf(AlignedSize(device, size)) /\ block \notin InUse
  BY DEF Available
<1>4. block \in Blocks
  <2> DEFINE z == AlignedSize(device, size)
  <2>1. z \in Sizes /\ block \in {<<z[1], z[2], n>> : n \in Buffers}
    BY <1>1, <1>3 DEF BuffersOf
  <2>2. z[1] \in Int /\ z[2] \in Int
    BY <2>1 DEF Sizes
  <2> HIDE DEF z
  <2>3. PICK n \in Nat : block = <<z[1], z[2], n>>
    BY <1>2, <2>1
  <2> QED BY <2>2, <2>3 DEF Blocks
<1>5. \A i \in DOMAIN todo : todo[i].op \in BlockOps => todo[i].block # block
  BY <1>3 DEF InUse, BlockOps
<1> QED BY <1>4, <1>5

\* FetchGraphicBlock keeps TypeInv: the next id is one the pool has not given, and the block is on its way once.
LEMMA FetchGraphicBlockKeeps ==
  ASSUME TypeInv, FetchGraphicBlock
  PROVE  TypeInv'
<1>1. PICK size \in fetch :
        /\ fetch' = {}
        /\ \/ \E block \in Available(AlignedSize(device, size)) :
                /\ Known(block)
                /\ \/ Posts([op |-> IF IsCompHaveCurrentBlock(block) THEN "returned" ELSE "new",
                             block |-> block, id |-> IdOf(block)])
                   \/ UNCHANGED todo
                /\ UNCHANGED tasks
           \/ tasks' = tasks + 1 /\ UNCHANGED <<todo, poolVars>>
        /\ UNCHANGED <<inVars, compVars, formatVars, runLoop, allocLoop, waiting, decVars, at, haveDrain,
                       withClient>>
  BY DEF FetchGraphicBlock
<1>2. size \in Sizes /\ (first \/ state = "UNINITIALIZED") /\ tasks \in Nat
  BY DEF TypeInv, TypesOK, Empty
<1>3. Keeps(b, b') /\ Proper(b') /\ b' = b
  BY <1>1, KeepsSame DEF TypeInv, BoardOK, Proper, compVars
<1>4. Cardinality(fetch') <= 1
  <2>1. Cardinality({}) = 0
    BY FS_EmptySet
  <2> QED BY <1>1, <2>1
<1>5. BoardOK' /\ Counted'
  BY <1>1, <1>3 DEF TypeInv, BoardOK, Counted, inVars, compVars
<1>6. Empty'
  <2>1. first' = first /\ state' = state /\ at' = at /\ pending' = pending
    BY <1>1 DEF compVars
  <2> QED BY <1>2, <1>3, <2>1 DEF TypeInv, Empty
<1>7. CASE tasks' = tasks + 1 /\ UNCHANGED <<todo, poolVars>>
  <2>1. QuietTasks(todo, todo')
    BY <1>7, QuietPosts
  <2>2. tasks' \in Nat
    BY <1>2, <1>7
  <2>3. TypesOK'
    BY <1>1, <1>4, <1>7, <2>2 DEF TypeInv, TypesOK, inVars, compVars, formatVars, poolVars, decVars
  <2>4. Pooled'
    BY <1>3, <1>7 DEF TypeInv, Pooled, poolVars
  <2>5. Serial'
    BY <1>1, <2>1, SerialKept DEF compVars
  <2> QED BY <1>5, <1>6, <2>3, <2>4, <2>5 DEF TypeInv
<1>8. ASSUME NEW block \in Available(AlignedSize(device, size)), Known(block), UNCHANGED tasks,
             \/ Posts([op |-> IF IsCompHaveCurrentBlock(block) THEN "returned" ELSE "new",
                       block |-> block, id |-> IdOf(block)])
             \/ UNCHANGED todo
      PROVE  TypeInv'
  <2> DEFINE new == IF IsCompHaveCurrentBlock(block) THEN "returned" ELSE "new"
             task == [op |-> new, block |-> block, id |-> IdOf(block)]
  <2>1. block \in Blocks /\ \A i \in DOMAIN todo : todo[i].op \in BlockOps => todo[i].block # block
    BY <1>2, AvailableBlocks
  <2>2. /\ DOMAIN pool \in SUBSET Blocks /\ pool \in [DOMAIN pool -> Nat] /\ nextId \in Nat
        /\ \A x \in DOMAIN pool : pool[x] < nextId
        /\ \A k, l \in DOMAIN pool : pool[k] = pool[l] => k = l
    BY DEF TypeInv, TypesOK, Pooled
  <2>3. /\ DOMAIN pool' = DOMAIN pool \cup {block} /\ pool'[block] = IdOf(block) /\ IdOf(block) \in Nat
        /\ \A x \in DOMAIN pool : pool'[x] = pool[x]
        /\ DOMAIN pool' \in SUBSET Blocks /\ pool' \in [DOMAIN pool' -> Nat]
        /\ nextId' \in Nat /\ poolMax' = poolMax
        /\ \A x \in DOMAIN pool' : pool'[x] < nextId'
        /\ \A k, l \in DOMAIN pool' : pool'[k] = pool'[l] => k = l
    <3>1. CASE block \in DOMAIN pool
      <4>1. UNCHANGED <<pool, nextId, poolMax>> /\ IdOf(block) = pool[block]
        BY <1>8, <3>1 DEF Known, IdOf, poolVars
      <4>2. DOMAIN pool \cup {block} = DOMAIN pool
        BY <3>1
      <4> QED BY <2>2, <3>1, <4>1, <4>2
    <3>2. CASE block \notin DOMAIN pool
      <4>1. /\ pool' = [k \in DOMAIN pool \cup {block} |-> IdOf(k)]
            /\ nextId' = nextId + 1 /\ poolMax' = poolMax /\ IdOf(block) = nextId
        BY <1>8, <3>2 DEF Known, IdOf
      <4>2. \A x \in DOMAIN pool : IdOf(x) = pool[x]
        BY DEF IdOf
      <4>3. DOMAIN pool' = DOMAIN pool \cup {block} /\ \A x \in DOMAIN pool' : pool'[x] = IdOf(x)
        BY <4>1
      <4>4. \A x \in DOMAIN pool' : pool'[x] \in Nat /\ pool'[x] < nextId'
        BY <2>2, <4>1, <4>2, <4>3
      <4>5. pool' \in [DOMAIN pool' -> Nat]
        BY <4>1, <4>3, <4>4
      <4>6. \A k, l \in DOMAIN pool' : pool'[k] = pool'[l] => k = l
        BY <2>2, <4>1, <4>2, <4>3
      <4>7. DOMAIN pool' \in SUBSET Blocks
        BY <2>1, <2>2, <4>3
      <4> QED BY <2>2, <4>1, <4>2, <4>3, <4>4, <4>5, <4>6, <4>7
    <3> QED BY <3>1, <3>2
  <2>4. todo \in Seq(Tasks) /\ task \in Tasks /\ task.op = new /\ task.block = block /\ task.id = IdOf(block)
    BY <2>1, <2>3 DEF TypeInv, TypesOK, Tasks, BlockOps
  <2>5. new = "new" => IdOf(block) \notin Ids(b)
    BY DEF IsCompHaveCurrentBlock
  <2> HIDE DEF task
  <2>6. todo' = Append(todo, task) \/ todo' = todo
    BY <1>8 DEF Posts, task
  <2>7. Follows(todo, todo', 0, {task})
    <3>1. Follows(todo, Append(todo, task), 0, {task})
      BY <2>4, TasksFollow
    <3>2. \A i \in DOMAIN todo : i + 0 = i
      BY <2>4, LenProperties
    <3>3. Follows(todo, todo, 0, {task})
      BY <2>4, <3>2 DEF Follows
    <3> QED BY <2>6, <3>1, <3>3
  <2>8. /\ todo' \in Seq(Tasks)
        /\ \A i \in DOMAIN todo' : (i \in DOMAIN todo /\ todo'[i] = todo[i]) \/ (i = Len(todo') /\ todo'[i] = task)
    <3>1. todo' \in Seq(Tasks) /\ \A i \in DOMAIN todo' : i + 0 = i
      BY <2>7, LenProperties DEF Follows
    <3> QED BY <2>7, <3>1 DEF Follows
  <2>9. new \in BlockOps /\ new \notin {"flush", "stop"}
    BY DEF BlockOps
  <2> HIDE DEF new
  <2>10. BlocksApart(todo)'
    <3> SUFFICES ASSUME NEW i \in DOMAIN todo', NEW j \in DOMAIN todo', todo'[i].op \in BlockOps,
                        todo'[j].op \in BlockOps, todo'[i].block = todo'[j].block
                 PROVE  i = j
      BY DEF BlocksApart
    <3> QED BY <2>1, <2>4, <2>8 DEF TypeInv, Pooled, BlocksApart
  <2>11. ASSUME NEW i \in DOMAIN todo', todo'[i].op \in BlockOps, todo'[i].block \in DOMAIN pool'
         PROVE  /\ pool'[todo'[i].block] = todo'[i].id
                /\ todo'[i].op = "new" => todo'[i].id \notin Ids(b')
    <3>1. CASE i \in DOMAIN todo /\ todo'[i] = todo[i]
      <4>1. todo[i].block # block /\ todo[i].block \in DOMAIN pool
        BY <2>1, <2>3, <2>11, <3>1
      <4> QED BY <1>3, <2>3, <2>11, <3>1, <4>1 DEF TypeInv, Pooled
    <3>2. CASE todo'[i] = task
      BY <1>3, <2>3, <2>4, <2>5, <3>2
    <3> QED BY <2>8, <3>1, <3>2
  <2>12. Pooled'
    BY <2>3, <2>10, <2>11 DEF Pooled
  <2>13. Serial'
    <3>1. \A op \in {"flush", "stop"} : Has(todo', op) => Has(todo, op)
      BY <2>4, <2>8, <2>9 DEF Has
    <3>2. OneFlush(todo')
      BY <2>4, <2>8, <2>9 DEF OneFlush, TypeInv, Serial
    <3> QED BY <1>1, <3>1, <3>2 DEF TypeInv, Serial, compVars
  <2>14. TypesOK'
    BY <1>1, <1>4, <1>8, <2>3, <2>8 DEF TypeInv, TypesOK, inVars, compVars, formatVars, decVars
  <2> QED BY <1>5, <1>6, <2>12, <2>13, <2>14 DEF TypeInv
<1> QED BY <1>1, <1>7, <1>8

-----------------------------------------------------------------------------
(* The decoder and the client.                                              *)

\* The size the decoder announces is a size.
LEMMA AnnouncedSizes ==
  ASSUME NEW d, NEW size \in Sizes
  PROVE  AnnouncedSize(d, size) \in Sizes
<1>1. \A s \in Sizes : /\ MaxSize(d, s) \in Sizes
                       /\ MaxSize(d, s) = <<MaxSize(d, s)[1], MaxSize(d, s)[2]>>
                       /\ MaxSize(d, s)[1] \in Int /\ MaxSize(d, s)[2] \in Int
  BY DEF MaxSize, Sizes
<1>2. \A s \in Sizes : GetMaxBufWidthAndHeight(d, s) \in Sizes
  <2> TAKE s \in Sizes
  <2> DEFINE max == MaxSize(d, s)
  <2>1. max \in Sizes /\ <<max[2], max[1]>> \in Sizes
    BY <1>1 DEF Sizes
  <2> HIDE DEF max
  <2>2. GetMaxBufWidthAndHeight(d, s) \in {max, <<max[2], max[1]>>}
    BY DEF GetMaxBufWidthAndHeight, max
  <2> QED BY <2>1, <2>2
<1>3. <<64, 64>> \in Sizes
  BY DEF Sizes
<1> QED BY <1>2, <1>3 DEF AnnouncedSize

\* ProvidePictureBuffers keeps TypeInv.
LEMMA ProvidePictureBuffersKeeps ==
  ASSUME TypeInv, ProvidePictureBuffers
  PROVE  TypeInv'
<1> DEFINE f == stream.formats[shown + 1]
           d == QueryStreamBitDepth(device, stream.depth)
           min == IF first THEN Larger(f.min, format.min) ELSE f.min
           task == [op |-> "formatChanged", format |-> [size |-> AnnouncedSize(d, f.size), min |-> min]]
<1>1. /\ shown < Len(stream.formats) /\ device' = d /\ todo' = Append(todo, task)
      /\ changing' = TRUE /\ shown' = shown + 1
      /\ b' = [b EXCEPT !.decoder = "waiting", !.held = {}]
      /\ UNCHANGED <<inVars, state, works, last, pending, first, client, haveFlush, reuse, format,
                     loopVars, poolVars, draining, resets, at, haveDrain, withClient>>
  BY DEF ProvidePictureBuffers, Posts
<1>2. f.size \in Sizes /\ f.min \in Nat
  <2> DEFINE F == [size : Nat \X Nat, min : Nat \ {0}]
  <2>1. stream.formats \in Seq(F) /\ shown \in Nat
    BY StreamsAssumption DEF TypeInv, TypesOK
  <2>2. Len(stream.formats) \in Nat /\ shown + 1 \in 1 .. Len(stream.formats)
    BY <1>1, <2>1, LenProperties
  <2> HIDE DEF F
  <2>3. f \in F
    BY <2>1, <2>2, ElementOfSeq
  <2> QED BY <2>3 DEF F, Sizes
<1>3. task \in Tasks /\ task.op = "formatChanged"
  <2>1. AnnouncedSize(d, f.size) \in Sizes
    BY <1>2, AnnouncedSizes
  <2>2. min \in Nat
    BY <1>2 DEF Larger, TypeInv, TypesOK, Formats
  <2> HIDE DEF d, f, min
  <2> QED BY <2>1, <2>2 DEF Tasks, Formats
<1>4. QuietTasks(todo, todo')
  BY <1>1, <1>3, QuietPosts DEF BlockOps
<1>5. Keeps(b, b') /\ Proper(b')
  <2>1. Proper(b) /\ b \in Boards
    BY DEF TypeInv, BoardOK, Proper
  <2> DEFINE none == {}
  <2>2. none \in SUBSET Nat /\ "waiting" \in {"none", "waiting", "running"}
    OBVIOUS
  <2> HIDE DEF none
  <2>3. Keeps(b, [b EXCEPT !.decoder = "waiting", !.held = none])
    BY Zenon, <2>1, <2>2, FlagChanges
  <2>4. Keeps(b, b')
    BY <1>1, <2>3 DEF none
  <2> QED BY <2>1, <2>4, KeepsProper
<1>6. device'.codec \in Codecs /\ "codec" \in DOMAIN device' /\ "widthAlign" \in DOMAIN device'
  BY <1>1, DeviceKept DEF TypeInv, TypesOK, SameDevice
<1>7. b'.toWork = b.toWork
  BY <1>1 DEF TypeInv, BoardOK, Proper, Boards
<1> HIDE DEF task, d
<1>8. TypesOK'
  BY <1>1, <1>4, <1>6 DEF TypeInv, TypesOK, inVars, poolVars, loopVars, QuietTasks
<1>9. Steady
  BY <1>1, <1>4, <1>5, <1>7 DEF Steady, Keeps, TypeInv, BoardOK, Empty, inVars, poolVars, loopVars
<1>10. Serial'
  BY <1>1, <1>4, SerialKept
<1> QED BY <1>8, <1>9, <1>10, SteadyKeeps DEF TypeInv

\* Decode keeps TypeInv.
LEMMA DecodeKeeps ==
  ASSUME TypeInv, Decode
  PROVE  TypeInv'
<1>1. PICK id \in b.held :
        /\ todo' = Append(todo, [op |-> "output", id |-> id])
        /\ b' = [b EXCEPT !.held = @ \ {id}]
        /\ UNCHANGED <<inVars, state, works, last, pending, first, client, haveFlush, reuse, formatVars,
                       loopVars, poolVars, decVars, at, haveDrain, withClient>>
  BY DEF Decode, Posts
<1>2. Proper(b) /\ b \in Boards /\ b.held \in SUBSET Nat
  BY DEF TypeInv, BoardOK, Proper, Boards
<1>3. QuietTasks(todo, todo')
  <2>1. [op |-> "output", id |-> id] \in Tasks /\ [op |-> "output", id |-> id].op = "output"
    BY <1>2 DEF Tasks
  <2> QED BY <1>1, <2>1, QuietPosts DEF BlockOps
<1>4. Keeps(b, b') /\ Proper(b') /\ b'.toWork = b.toWork
  <2> DEFINE H == b.held \ {id}
  <2>1. H \in SUBSET Nat
    BY <1>2
  <2> HIDE DEF H
  <2>2. Keeps(b, [b EXCEPT !.held = H])
    BY Zenon, <1>2, <2>1, FlagChanges
  <2>3. Keeps(b, b')
    BY <1>1, <2>2 DEF H
  <2> QED BY <1>1, <1>2, <2>3, KeepsProper DEF Boards
<1>5. TypesOK'
  BY <1>1, <1>3 DEF TypeInv, TypesOK, inVars, formatVars, poolVars, loopVars, decVars, QuietTasks
<1>6. Steady
  BY <1>1, <1>3, <1>4 DEF Steady, Keeps, TypeInv, BoardOK, Empty, inVars, poolVars, loopVars
<1>7. Serial'
  BY <1>1, <1>3, SerialKept
<1> QED BY <1>5, <1>6, <1>7, SteadyKeeps DEF TypeInv

\* NotifyFlushDone keeps TypeInv.
LEMMA NotifyFlushDoneKeeps ==
  ASSUME TypeInv, NotifyFlushDone
  PROVE  TypeInv'
<1>1. /\ draining' = FALSE /\ allocLoop' = FALSE /\ haveDrain' = TRUE
      /\ todo' = Append(todo, Plain("drainDone")) /\ b' = [b EXCEPT !.fed = FALSE]
      /\ UNCHANGED <<inVars, state, works, last, pending, first, client, haveFlush, reuse, formatVars,
                     runLoop, tasks, waiting, fetch, poolVars, resets, shown, at, withClient>>
  BY DEF NotifyFlushDone, Posts
<1>2. QuietTasks(todo, todo')
  BY <1>1, QuietPosts, PlainTasks DEF PlainOps
<1>3. Keeps(b, b') /\ Proper(b') /\ b'.toWork = b.toWork
  <2>1. Proper(b) /\ b \in Boards
    BY DEF TypeInv, BoardOK, Proper
  <2>2. Keeps(b, b')
    BY Zenon, <1>1, <2>1, FlagChanges
  <2> QED BY <1>1, <2>1, <2>2, KeepsProper DEF Boards
<1>4. TypesOK'
  BY <1>1, <1>2 DEF TypeInv, TypesOK, inVars, formatVars, poolVars, QuietTasks
<1>5. Steady
  BY <1>1, <1>2, <1>3 DEF Steady, Keeps, TypeInv, BoardOK, Empty, inVars, poolVars
<1>6. Serial'
  BY <1>1, <1>2, SerialKept
<1> QED BY <1>4, <1>5, <1>6, SteadyKeeps DEF TypeInv

\* NotifyResetDone keeps TypeInv.
LEMMA NotifyResetDoneKeeps ==
  ASSUME TypeInv, NotifyResetDone
  PROVE  TypeInv'
<1>1. /\ resets > 0 /\ resets' = resets - 1 /\ draining' = FALSE
      /\ todo' = Append(todo, Plain("resetDone"))
      /\ b' = [b EXCEPT !.held = {}, !.fed = FALSE]
      /\ UNCHANGED <<inVars, state, works, last, pending, first, client, haveFlush, reuse, formatVars,
                     loopVars, poolVars, shown, at, haveDrain, withClient>>
  BY DEF NotifyResetDone, Posts
<1>2. QuietTasks(todo, todo')
  BY <1>1, QuietPosts, PlainTasks DEF PlainOps
<1>3. Keeps(b, b') /\ Proper(b') /\ b'.toWork = b.toWork
  <2>1. Proper(b) /\ b \in Boards
    BY DEF TypeInv, BoardOK, Proper
  <2> DEFINE none == {}
  <2>2. none \in SUBSET Nat
    OBVIOUS
  <2> HIDE DEF none
  <2>3. Keeps(b, [b EXCEPT !.held = none, !.fed = FALSE])
    BY Zenon, <2>1, <2>2, FlagChanges
  <2>4. Keeps(b, b')
    BY <1>1, <2>3 DEF none
  <2> QED BY <1>1, <2>1, <2>4, KeepsProper DEF Boards
<1>4. resets' \in Nat
  BY <1>1 DEF TypeInv, TypesOK
<1>5. TypesOK'
  BY <1>1, <1>2, <1>4 DEF TypeInv, TypesOK, inVars, formatVars, poolVars, loopVars, QuietTasks
<1>6. Steady
  BY <1>1, <1>2, <1>3 DEF Steady, Keeps, TypeInv, BoardOK, Empty, inVars, poolVars, loopVars
<1>7. Serial'
  BY <1>1, <1>2, SerialKept
<1> QED BY <1>5, <1>6, <1>7, SteadyKeeps DEF TypeInv

\* A call of the client, and the places it leaves the client in.
LEMMA ClientCallsKeeps ==
  ASSUME TypeInv, ClientCalls
  PROVE  TypeInv'
<1>1. \A kind, task, place : Calls(kind, task, place) =>
        /\ client = "idle" /\ client' = place /\ todo' = Append(todo, task)
        /\ UNCHANGED <<stream, state, works, b, last, pending, first, haveFlush, reuse, formatVars, loopVars,
                       poolVars, decVars, at, haveDrain, withClient>>
  BY DEF Calls, Posts
<1>2. state \notin {"STOPPING", "UNINITIALIZED", "FLUSHING"} \/ client # "idle"
  BY DEF TypeInv, Serial
<1>3. PICK task \in Tasks :
        /\ client = "idle" /\ client' \in {"idle", "flushing", "stopping"} /\ todo' = Append(todo, task)
        /\ task.op \notin BlockOps
        /\ task.op = "flush" => client' = "flushing"
        /\ task.op = "stop" => client' = "stopping"
        /\ UNCHANGED <<stream, state, works, b, last, pending, first, haveFlush, reuse, formatVars, loopVars,
                       poolVars, decVars, at, haveDrain, withClient>>
  <2>1. ASSUME NEW kind \in {"data", "eos"}
        PROVE  LET t == [op |-> "queueWork", kind |-> kind] IN t \in Tasks /\ t.op = "queueWork"
    BY DEF Tasks
  <2>2. \A op \in {"drain", "flush", "stop"} : Plain(op) \in Tasks /\ Plain(op).op = op
    BY PlainTasks DEF PlainOps
  <2> QED BY <1>1, <2>1, <2>2 DEF ClientCalls, BlockOps
<1>4. todo \in Seq(Tasks)
  BY DEF TypeInv, TypesOK
<1>5. /\ todo' \in Seq(Tasks)
      /\ \A i \in DOMAIN todo' : (i \in DOMAIN todo /\ todo'[i] = todo[i]) \/ (i = Len(todo') /\ todo'[i] = task)
  <2>1. Follows(todo, todo', 0, {task})
    BY <1>3, <1>4, TasksFollow
  <2>2. todo' \in Seq(Tasks) /\ \A i \in DOMAIN todo' : i + 0 = i
    BY <2>1, LenProperties DEF Follows
  <2> QED BY <2>1, <2>2 DEF Follows
<1>6. ~Has(todo, "flush") /\ ~Has(todo, "stop") /\ state \notin {"STOPPING", "UNINITIALIZED", "FLUSHING"}
      /\ at \notin {"flushDone", "stopping", "stopDone"}
  BY <1>2, <1>3 DEF TypeInv, Serial
<1>7. Serial'
  <2>1. \A i \in DOMAIN todo' : todo'[i].op \in {"flush", "stop"} => i = Len(todo') /\ todo'[i] = task
    BY <1>5, <1>6 DEF Has
  <2>2. OneFlush(todo')
    BY <2>1 DEF OneFlush
  <2>3. (Has(todo', "flush") => client' = "flushing") /\ (Has(todo', "stop") => client' = "stopping")
    BY <1>3, <2>1 DEF Has
  <2> QED BY <1>3, <1>6, <2>2, <2>3 DEF Serial
<1>8. TypesOK'
  BY <1>3, <1>5 DEF TypeInv, TypesOK, formatVars, poolVars, loopVars, decVars
<1>9. BoardOK' /\ Counted'
  BY <1>3 DEF TypeInv, BoardOK, Counted
<1>10. Empty'
  BY <1>3, <1>5 DEF TypeInv, Empty, loopVars
<1>11. Pooled'
  <2>1. BlocksApart(todo')
    BY <1>3, <1>5 DEF TypeInv, Pooled, BlocksApart
  <2> QED BY <1>3, <1>5, <2>1 DEF TypeInv, Pooled, poolVars
<1> QED BY <1>7, <1>8, <1>9, <1>10, <1>11 DEF TypeInv

\* FlushReturns keeps TypeInv.
LEMMA FlushReturnsKeeps ==
  ASSUME TypeInv, FlushReturns
  PROVE  TypeInv'
<1>1. /\ client = "woken" /\ client' = "idle" /\ todo' = Append(todo, Plain("dequeueWork"))
      /\ haveFlush' = TRUE /\ reuse' = TRUE
      /\ UNCHANGED <<inVars, state, works, b, last, pending, first, formatVars, loopVars, poolVars,
                     decVars, at, haveDrain, withClient>>
  BY DEF FlushReturns, Posts
<1>2. QuietTasks(todo, todo')
  BY <1>1, QuietPosts, PlainTasks DEF PlainOps
<1>3. Keeps(b, b') /\ Proper(b')
  BY <1>1, KeepsSame DEF TypeInv, BoardOK, Proper
<1>4. TypesOK'
  BY <1>1, <1>2 DEF TypeInv, TypesOK, inVars, formatVars, poolVars, loopVars, decVars, QuietTasks
<1>5. Steady
  BY <1>1, <1>2, <1>3 DEF Steady, Keeps, TypeInv, BoardOK, Empty, inVars, poolVars, loopVars
<1>6. Serial'
  BY <1>1, <1>2 DEF TypeInv, Serial, QuietTasks
<1> QED BY <1>4, <1>5, <1>6, SteadyKeeps DEF TypeInv

\* ClientReleases keeps TypeInv.
LEMMA ClientReleasesKeeps ==
  ASSUME TypeInv, ClientReleases
  PROVE  TypeInv'
<1>1. UNCHANGED <<inVars, compVars, formatVars, loopVars, poolVars, decVars, todo, at, haveDrain>>
  BY DEF ClientReleases
<1>2. QuietTasks(todo, todo')
  BY <1>1, QuietPosts
<1>3. Keeps(b, b') /\ Proper(b')
  BY <1>1, KeepsSame DEF TypeInv, BoardOK, Proper, compVars
<1>4. TypesOK'
  BY <1>1 DEF TypeInv, TypesOK, inVars, compVars, formatVars, poolVars, loopVars, decVars
<1>5. Steady
  BY <1>1, <1>2, <1>3 DEF Steady, Keeps, TypeInv, BoardOK, Empty, inVars, compVars, poolVars, loopVars
<1>6. Serial'
  BY <1>1, <1>2, SerialKept DEF compVars
<1> QED BY <1>4, <1>5, <1>6, SteadyKeeps DEF TypeInv

-----------------------------------------------------------------------------
(* The types of every state.                                                *)

\* The board of a component that was just started.
LEMMA FirstBoard == Proper(NoBlocks) /\ Ids(NoBlocks) = {} /\ \A o \in Owners : Excess(NoBlocks, o) = 0
<1>1. <<>> \in UNION {[I -> Infos] : I \in SUBSET Nat} /\ <<>> \in Seq(Nat)
  BY EmptyInfos, EmptySeq
<1>2. NoBlocks \in Boards
  BY <1>1 DEF NoBlocks, Boards
<1>3. NoBlocks.infos = <<>> /\ NoBlocks.toWork = <<>> /\ NoBlocks.slot = {}
      /\ \A o \in Owners : NoBlocks.count[o] = 0
  BY DEF NoBlocks
<1>4. Ids(NoBlocks) = {} /\ \A o : OwnedBy(NoBlocks, o) = {}
  BY <1>3, EmptyInfos DEF Ids, OwnedBy
<1>5. Waits(NoBlocks) = {}
  BY <1>3 DEF Waits, IdsIn
<1>6. IsFiniteSet({}) /\ Cardinality({}) = 0
  BY FS_EmptySet
<1>7. Proper(NoBlocks)
  <2> DEFINE s == NoBlocks
  <2>1. /\ s \in Boards /\ s.slot = {} /\ Ids(s) = {} /\ Waits(s) = {}
        /\ IsFiniteSet({}) /\ Cardinality({}) <= 1
    BY <1>2, <1>3, <1>4, <1>5, <1>6
  <2> HIDE DEF s
  <2> QED BY <2>1 DEF Proper, s
<1>8. \A o \in Owners : Excess(NoBlocks, o) = 0 - 0
  BY <1>3, <1>4, <1>6 DEF Excess
<1> QED BY <1>4, <1>7, <1>8

\* The initial states have no block, no task and no call under way.
LEMMA TypeInit == Init => TypeInv
<1> SUFFICES ASSUME Init PROVE TypeInv
  OBVIOUS
<1>1. device.codec \in Codecs /\ "codec" \in DOMAIN device /\ "widthAlign" \in DOMAIN device
  <2> DEFINE d == stream.device
  <2>1. d.codec \in Codecs /\ "codec" \in DOMAIN d /\ "widthAlign" \in DOMAIN d
    BY StreamsAssumption DEF Init, Device
  <2> HIDE DEF d
  <2>2. \/ device = CodecConfig(CodecConfig(d))
        \/ \E v : device = CodecConfig([CodecConfig(d) EXCEPT !.noSurface = v])
        \/ \E v : device = CodecConfig([CodecConfig(d) EXCEPT !.texture = v])
        \/ device = CodecConfig(d)
    BY DEF Init, CheckVideoDecReconfig, d
  <2>3. \A e : "codec" \in DOMAIN e /\ "widthAlign" \in DOMAIN e =>
          /\ SameDevice(e, CodecConfig(e))
          /\ \A v : SameDevice(e, [e EXCEPT !.noSurface = v]) /\ SameDevice(e, [e EXCEPT !.texture = v])
    BY DeviceKept, ChangedDevice
  <2> DEFINE c == CodecConfig(d)
  <2>4. /\ SameDevice(d, c)
        /\ \A v : SameDevice(c, [c EXCEPT !.noSurface = v]) /\ SameDevice(c, [c EXCEPT !.texture = v])
    BY <2>1, <2>3 DEF SameDevice
  <2> HIDE DEF c
  <2>5. \A e : SameDevice(d, e) => SameDevice(d, CodecConfig(e))
    BY <2>3 DEF SameDevice
  <2>6. \A v : SameDevice(d, [c EXCEPT !.noSurface = v]) /\ SameDevice(d, [c EXCEPT !.texture = v])
    BY <2>4 DEF SameDevice
  <2>7. SameDevice(d, device)
    BY <2>2, <2>4, <2>5, <2>6 DEF c
  <2> QED BY <2>1, <2>7 DEF SameDevice
<1>2. format \in Formats /\ last \in Formats
  BY DEF Init, Formats, Sizes
<1>3. DOMAIN pool = {} /\ pool \in [DOMAIN pool -> Nat]
  BY EmptyInfos DEF Init
<1>4. Cardinality({}) = 0 /\ <<>> \in Seq(Kinds) /\ <<>> \in Seq(Tasks) /\ DOMAIN todo = {}
  BY FS_EmptySet, EmptySeq, EmptyInfos DEF Init
<1>5. TypesOK
  <2>1. /\ stream \in Streams /\ state \in States /\ at \in Places /\ works \in Seq(Kinds) /\ todo \in Seq(Tasks)
        /\ pending = {} /\ fetch = {} /\ client \in {"idle", "flushing", "woken", "stopping"}
    BY <1>4 DEF Init, States, Places
  <2>2. /\ tasks \in Nat /\ waiting \in Nat /\ nextId \in Nat /\ poolMax \in Nat /\ resets \in Nat /\ shown \in Nat
        /\ first \in BOOLEAN /\ runLoop \in BOOLEAN /\ allocLoop \in BOOLEAN /\ changing \in BOOLEAN
        /\ haveDrain \in BOOLEAN /\ haveFlush \in BOOLEAN /\ reuse \in BOOLEAN /\ draining \in BOOLEAN
    BY DEF Init
  <2>3. Cardinality(pending) <= 1 /\ Cardinality(fetch) <= 1
    BY <1>4, <2>1
  <2> QED BY <1>1, <1>2, <1>3, <2>1, <2>2, <2>3 DEF TypesOK
<1>6. BoardOK /\ Counted
  BY FirstBoard DEF Init, BoardOK, Counted
<1>7. Serial
  BY <1>4 DEF Init, Serial, OneFlush, Has
<1>8. Empty
  BY <1>4, FirstBoard DEF Init, Empty
<1>9. Pooled
  BY <1>3, <1>4 DEF Pooled, BlocksApart
<1> QED BY <1>5, <1>6, <1>7, <1>8, <1>9 DEF TypeInv

\* Every step keeps it.
LEMMA TypeStep == TypeInv /\ [Next]_vars => TypeInv'
<1> SUFFICES ASSUME TypeInv, [Next]_vars PROVE TypeInv'
  OBVIOUS
<1>1. CASE ComponentThread
  BY <1>1, QueueWorkKeeps, DequeueWorkKeeps, DrainKeeps, OutputBufferDoneKeeps,
     SendOutputBufferToWorkIfAnyKeeps, TryChangeAgainKeeps, OutputFormatChangedKeeps,
     OutputBufferReturnedKeeps, NewBlockBufferFetchedKeeps, AllocateBuffersKeeps,
     VideoResolutionChangeKeeps, ResetDoneKeeps, FlushDoneKeeps, StopDoneKeeps, FlushKeeps,
     StopKeeps, StopJoinedKeeps, DrainDoneKeeps, DrainSentKeeps, DroppedKeeps DEF ComponentThread
<1>2. CASE DequeueThread
  BY <1>2, TaskCancelledKeeps, FetchBeginsKeeps, FetchGraphicBlockKeeps DEF DequeueThread
<1>3. CASE Decoder
  BY <1>3, ProvidePictureBuffersKeeps, DecodeKeeps, NotifyFlushDoneKeeps, NotifyResetDoneKeeps
     DEF Decoder
<1>4. CASE Client
  BY <1>4, ClientCallsKeeps, FlushReturnsKeeps, ClientReleasesKeeps DEF Client
<1>5. CASE UNCHANGED vars
  <2>1. UNCHANGED <<inVars, compVars, formatVars, loopVars, poolVars, decVars, todo, at, haveDrain, withClient>>
    BY <1>5 DEF vars
  <2>2. QuietTasks(todo, todo')
    BY <2>1, QuietPosts
  <2>3. Keeps(b, b') /\ Proper(b')
    BY <2>1, KeepsSame DEF TypeInv, BoardOK, Proper, compVars
  <2>4. TypesOK'
    BY <2>1 DEF TypeInv, TypesOK, inVars, compVars, formatVars, poolVars, loopVars, decVars
  <2>5. Steady
    BY <2>1, <2>2, <2>3 DEF Steady, Keeps, TypeInv, BoardOK, Empty, inVars, compVars, poolVars, loopVars
  <2>6. Serial'
    BY <2>1, <2>2, SerialKept DEF compVars
  <2> QED BY <2>4, <2>5, <2>6, SteadyKeeps DEF TypeInv
<1> QED BY <1>1, <1>2, <1>3, <1>4, <1>5 DEF Next

\* In every behaviour a block has one id, the counts are those of the blocks (GraphicBlockStateChange), and
\* one flush or stop is under way at a time.
THEOREM TypeInvariant == Spec => []TypeInv
BY TypeInit, TypeStep, PTL DEF Spec

\* The types, and the counts of the blocks.
THEOREM TypeCorrect == Spec => []TypeOK
<1>1. TypeInv => TypeOK
  <2> SUFFICES ASSUME TypeInv PROVE TypeOK
    OBVIOUS
  <2>1. \A i \in DOMAIN works : works[i] \in {"data", "eos", "drain"}
    <3>1. works \in Seq(Kinds)
      BY DEF TypeInv, TypesOK
    <3>2. \A i \in 1 .. Len(works) : works[i] \in Kinds
      BY <3>1, ElementOfSeq
    <3>3. DOMAIN works = 1 .. Len(works)
      BY <3>1, LenProperties
    <3> QED BY <3>2, <3>3 DEF Kinds
  <2>2. Proper(b) /\ \A id \in Ids(b) : b.infos[id].owner \in Owners
    BY BoardInfos DEF TypeInv, BoardOK, Proper
  <2>3. ASSUME NEW o \in Owners
        PROVE  \/ b.count[o] = Cardinality(OwnedBy(b, o))
               \/ state = "UNINITIALIZED"
               \/ ~stream.surface /\ b.count[o] >= Cardinality(OwnedBy(b, o))
    <3>1. b.count[o] \in Int /\ Cardinality(OwnedBy(b, o)) \in Nat
      BY <2>2, BoardInfos, OwnedFinite DEF Proper
    <3>2. stream.surface \in BOOLEAN
      BY StreamsAssumption DEF TypeInv, TypesOK
    <3>3. state = "UNINITIALIZED" \/ (Excess(b, o) >= 0 /\ (stream.surface => Excess(b, o) = 0))
      BY DEF TypeInv, Counted
    <3> QED BY <3>1, <3>2, <3>3 DEF Excess
  <2>4. \A k, l \in DOMAIN pool : k # l => pool[k] # pool[l]
    BY DEF TypeInv, Pooled
  <2>5. Cardinality(b.slot) <= 1
    BY <2>2 DEF Proper
  <2> QED BY <2>1, <2>2, <2>3, <2>4, <2>5 DEF TypeInv, TypesOK, TypeOK
<1> QED BY <1>1, TypeInvariant, PTL

-----------------------------------------------------------------------------
(* The blocks of the decoder: the invariant.                                *)

\* The tasks the invariant speaks of, and the steps that post none of them: a task is where it
\* was, or one place further to the front.
NotedOps == {"queueWork", "flush", "output", "formatChanged", "resetDone"} \cup BlockOps
Shifts(q, r) ==
  /\ r \in Seq(Tasks)
  /\ \E k \in {0, 1} : \A i \in DOMAIN r : r[i].op \in NotedOps => i + k \in DOMAIN q /\ r[i] = q[i + k]

\* The blocks have the size of the format, aligned or not; of the last one while the format changes.
Sized(s, d, size) == \A id \in Ids(s) : SizeOf(s.infos[id].block) \in {size, ForcedSize(d, size)}
SizesCurrent == Sized(b, device, IF at = "change" THEN last.size ELSE format.size)

\* No work is queued behind a flush, so that there is none while one is under way.
Ordered ==
  /\ \A i, j \in DOMAIN todo : todo[i].op = "flush" /\ todo[j].op = "queueWork" => j < i
  /\ state = "FLUSHING" \/ client = "woken" => ~Has(todo, "queueWork")
  /\ client = "woken" => works = <<>>
  /\ b.error => b.failed

\* From the moment the decoder announces a format until it is answered, it has no block and
\* reports no picture.
Waiting ==
  /\ b.decoder # "running" => b.held = {}
  /\ shown = 0 => b.decoder = "none"
  /\ b.decoder # "running" /\ ~stream.surface => ~first
  /\ at \in {"change", "allocate"} => pending # {}
  /\ pending # {} => b.decoder = "waiting" /\ ~Has(todo, "output")
  /\ \A i \in DOMAIN todo : todo[i].op = "formatChanged" =>
       /\ b.decoder = "waiting" /\ pending = {}
       /\ \A j \in DOMAIN todo : /\ todo[j].op = "formatChanged" => i = j
                                 /\ todo[j].op = "output" => j < i

\* A flush has one reset, and between its answer and the next work the decoder reports nothing.
Resets ==
  /\ state \in {"STARTED", "DRAINING"} => resets = 0 /\ ~Has(todo, "resetDone")
  /\ state = "FLUSHING" =>
       /\ resets <= 1
       /\ resets = 1 => ~Has(todo, "resetDone") /\ at # "flushDone"
       /\ at = "flushDone" => ~Has(todo, "resetDone")
       /\ \A i \in DOMAIN todo : todo[i].op = "resetDone" =>
            /\ ~b.fed
            /\ \A j \in DOMAIN todo : /\ todo[j].op = "resetDone" => i = j
                                      /\ todo[j].op = "output" => j < i
  /\ client = "woken" \/ reuse \/ at = "flushDone" => ~b.fed /\ ~Has(todo, "output")
  /\ client = "woken" \/ reuse => b.toWork = <<>>

\* A block is in one place: with the decoder, in a picture on its way, or in one that waits.
HeldBy(s) == \A id \in s.held : id \in OwnedBy(s, "accelerator") /\ s.infos[id].fdSet
Shown(s, q) ==
  \A i \in DOMAIN q : q[i].op = "output" =>
    /\ q[i].id \in OwnedBy(s, "accelerator") /\ q[i].id \notin s.held
    /\ \A j \in DOMAIN q : q[j].op = "output" /\ q[i].id = q[j].id => i = j
Queued(s) ==
  \A i \in 1 .. Len(s.toWork) :
    /\ s.toWork[i] \in OwnedBy(s, "component")
    /\ \A j \in 1 .. Len(s.toWork) : s.toWork[i] = s.toWork[j] => i = j
HeldOn(s, q) == HeldBy(s) /\ Shown(s, q) /\ Queued(s)

\* A block has the id the pool gave it, and one the client gave back comes under that id.
InPool(s, p) == \A id \in Ids(s) : s.infos[id].block \in DOMAIN p /\ p[s.infos[id].block] = id
BackFrom(s, q, p) ==
  \A i \in DOMAIN q : q[i].op = "returned" =>
    /\ q[i].id \in Ids(s) => q[i].block \in DOMAIN p /\ q[i].id \in OwnedBy(s, "client")
    /\ q[i].block \notin DOMAIN p =>
         \A j \in DOMAIN q : q[j].op = "new" /\ q[j].block \in DOMAIN p /\ q[i].id = q[j].id => i < j
BoundOn(s, q, p) == InPool(s, p) /\ BackFrom(s, q, p)

\* Without a surface this ends with the first change of format.
Sound == ~b.failed /\ state # "UNINITIALIZED" /\ (stream.surface \/ shown <= 1)
Tracked == Waiting /\ Resets /\ HeldOn(b, todo) /\ BoundOn(b, todo, pool)
HeldInv == TypeInv /\ SizesCurrent /\ Ordered /\ (Sound => Tracked)

\* The steps that post none of the tasks the invariant speaks of.
LEMMA ShiftsPosts ==
  ASSUME TypeInv
  PROVE  /\ UNCHANGED todo => Shifts(todo, todo')
         /\ todo # <<>> /\ todo' = Tail(todo) => Shifts(todo, todo')
         /\ \A t \in Tasks : t.op \notin NotedOps =>
              /\ todo' = Append(todo, t) => Shifts(todo, todo')
              /\ todo # <<>> /\ todo' = Append(Tail(todo), t) => Shifts(todo, todo')
<1>1. todo \in Seq(Tasks)
  BY DEF TypeInv, TypesOK
<1>2. ASSUME NEW r, NEW k \in {0, 1}, NEW posted, Follows(todo, r, k, posted), \A t \in posted : t.op \notin NotedOps
      PROVE  Shifts(todo, r)
  <2>1. r \in Seq(Tasks) /\ \A i \in DOMAIN r : (i + k \in DOMAIN todo /\ r[i] = todo[i + k]) \/ r[i] \in posted
    BY <1>2 DEF Follows
  <2>2. \A i \in DOMAIN r : r[i].op \in NotedOps => i + k \in DOMAIN todo /\ r[i] = todo[i + k]
    BY <1>2, <2>1
  <2> QED BY <2>1, <2>2 DEF Shifts
<1>3. \A r : \A k \in {0, 1} : Follows(todo, r, k, {}) => Shifts(todo, r)
  <2>1. \A t \in {} : t.op \notin NotedOps
    OBVIOUS
  <2> QED BY <1>2, <2>1
<1>4. /\ UNCHANGED todo => Shifts(todo, todo')
      /\ todo # <<>> /\ todo' = Tail(todo) => Shifts(todo, todo')
  <2>1. Shifts(todo, todo)
    BY <1>1, <1>3, TasksFollow
  <2>2. ASSUME todo # <<>> PROVE Shifts(todo, Tail(todo))
    BY <1>1, <1>3, <2>2, TasksFollow
  <2> QED BY <2>1, <2>2
<1>5. ASSUME NEW t \in Tasks, t.op \notin NotedOps
      PROVE  /\ todo' = Append(todo, t) => Shifts(todo, todo')
             /\ todo # <<>> /\ todo' = Append(Tail(todo), t) => Shifts(todo, todo')
  <2>1. \A r : \A k \in {0, 1} : Follows(todo, r, k, {t}) => Shifts(todo, r)
    <3>1. \A u \in {t} : u.op \notin NotedOps
      BY <1>5
    <3> QED BY <1>2, <3>1
  <2>2. /\ Follows(todo, Append(todo, t), 0, {t})
        /\ todo # <<>> => Follows(todo, Append(Tail(todo), t), 1, {t})
    BY <1>1, TasksFollow
  <2> QED BY <2>1, <2>2
<1> QED BY <1>4, <1>5

\* Tasks without an argument that the invariant does not speak of.
LEMMA PlainUnnoted ==
  \A op \in PlainOps \ {"flush", "resetDone"} : Plain(op) \in Tasks /\ Plain(op).op \notin NotedOps
BY PlainTasks DEF PlainOps, NotedOps, BlockOps

\* What a step like that leaves of each part of the invariant.
LEMMA SizedKept ==
  ASSUME SizesCurrent, SameDevice(device, device'), UNCHANGED <<format, last>>,
         at' = "change" <=> at = "change",
         Ids(b') \subseteq Ids(b), \A id \in Ids(b') : b'.infos[id].block = b.infos[id].block
  PROVE  SizesCurrent'
<1>1. \A size : ForcedSize(device', size) = ForcedSize(device, size)
  BY DEF SameDevice, ForcedSize, GetOutAlignedSize, WidthAlign
<1> QED BY <1>1 DEF SizesCurrent, Sized

\* A step that queues no work behind a flush.
LEMMA OrderedKept ==
  ASSUME Ordered, Shifts(todo, todo'), state' = "FLUSHING" => state = "FLUSHING",
         client' = "woken" => client = "woken" /\ works' = <<>>, b'.error => b'.failed
  PROVE  Ordered'
<1>1. PICK k \in {0, 1} : \A i \in DOMAIN todo' : todo'[i].op \in NotedOps => i + k \in DOMAIN todo /\ todo'[i] = todo[i + k]
  BY DEF Shifts
<1>2. DOMAIN todo' \subseteq Int
  BY LenProperties DEF Shifts
<1>3. Has(todo', "queueWork") => Has(todo, "queueWork")
  BY <1>1 DEF Has, NotedOps
<1>4. ASSUME NEW i \in DOMAIN todo', NEW j \in DOMAIN todo', todo'[i].op = "flush", todo'[j].op = "queueWork"
      PROVE  j < i
  <2>1. i + k \in DOMAIN todo /\ j + k \in DOMAIN todo /\ todo[i + k].op = "flush" /\ todo[j + k].op = "queueWork"
    BY <1>1, <1>4 DEF NotedOps
  <2>2. j + k < i + k
    BY <2>1 DEF Ordered
  <2> QED BY <1>2, <2>2
<1> QED BY <1>3, <1>4 DEF Ordered, Has

\* A step that announces no format and answers none.
LEMMA WaitingKept ==
  ASSUME Waiting, Shifts(todo, todo'), UNCHANGED <<stream, first, shown>>, pending' \subseteq pending,
         at' \in {"change", "allocate"} => pending' # {},
         b'.decoder = b.decoder, b.decoder # "running" => b'.held = {}
  PROVE  Waiting'
<1>1. PICK k \in {0, 1} : \A i \in DOMAIN todo' : todo'[i].op \in NotedOps => i + k \in DOMAIN todo /\ todo'[i] = todo[i + k]
  BY DEF Shifts
<1>2. DOMAIN todo' \subseteq Int
  BY LenProperties DEF Shifts
<1>3. Has(todo', "output") => Has(todo, "output")
  BY <1>1 DEF Has, NotedOps
<1>4. ASSUME NEW i \in DOMAIN todo', todo'[i].op = "formatChanged"
      PROVE  /\ b'.decoder = "waiting" /\ pending' = {}
             /\ \A j \in DOMAIN todo' : /\ todo'[j].op = "formatChanged" => i = j
                                        /\ todo'[j].op = "output" => j < i
  <2>1. i + k \in DOMAIN todo /\ todo[i + k].op = "formatChanged"
    BY <1>1, <1>4 DEF NotedOps
  <2>2. /\ b.decoder = "waiting" /\ pending = {}
        /\ \A j \in DOMAIN todo : /\ todo[j].op = "formatChanged" => i + k = j
                                  /\ todo[j].op = "output" => j < i + k
    BY <2>1 DEF Waiting
  <2>3. ASSUME NEW j \in DOMAIN todo' PROVE (todo'[j].op = "formatChanged" => i = j) /\ (todo'[j].op = "output" => j < i)
    <3>1. todo'[j].op \in {"formatChanged", "output"} => j + k \in DOMAIN todo /\ todo[j + k].op = todo'[j].op
      BY <1>1, <2>3 DEF NotedOps
    <3>2. /\ todo'[j].op = "formatChanged" => i + k = j + k
          /\ todo'[j].op = "output" => j + k < i + k
      BY <2>2, <3>1
    <3> QED BY <1>2, <3>2
  <2> QED BY <2>2, <2>3
<1> QED BY <1>3, <1>4 DEF Waiting, Has

\* A step that is none of a flush.
LEMMA ResetsKept ==
  ASSUME Resets, Shifts(todo, todo'), UNCHANGED resets,
         state' \in {"STARTED", "DRAINING"} => state \in {"STARTED", "DRAINING"},
         state' = "FLUSHING" => state = "FLUSHING",
         client' = "woken" => client = "woken", reuse' => reuse, at' = "flushDone" => at = "flushDone",
         b'.fed => b.fed \/ (state' # "FLUSHING" /\ at' # "flushDone" /\ client' # "woken" /\ ~reuse'),
         b.toWork = <<>> => b'.toWork = <<>> \/ (client' # "woken" /\ ~reuse')
  PROVE  Resets'
<1>1. PICK k \in {0, 1} : \A i \in DOMAIN todo' : todo'[i].op \in NotedOps => i + k \in DOMAIN todo /\ todo'[i] = todo[i + k]
  BY DEF Shifts
<1>2. DOMAIN todo' \subseteq Int
  BY LenProperties DEF Shifts
<1>3. (Has(todo', "output") => Has(todo, "output")) /\ (Has(todo', "resetDone") => Has(todo, "resetDone"))
  BY <1>1 DEF Has, NotedOps
<1>4. ASSUME NEW i \in DOMAIN todo', todo'[i].op = "resetDone", state' = "FLUSHING"
      PROVE  /\ ~b'.fed
             /\ \A j \in DOMAIN todo' : /\ todo'[j].op = "resetDone" => i = j
                                        /\ todo'[j].op = "output" => j < i
  <2>1. i + k \in DOMAIN todo /\ todo[i + k].op = "resetDone"
    BY <1>1, <1>4 DEF NotedOps
  <2>2. /\ ~b.fed
        /\ \A j \in DOMAIN todo : /\ todo[j].op = "resetDone" => i + k = j
                                  /\ todo[j].op = "output" => j < i + k
    BY <1>4, <2>1 DEF Resets
  <2>3. ASSUME NEW j \in DOMAIN todo' PROVE (todo'[j].op = "resetDone" => i = j) /\ (todo'[j].op = "output" => j < i)
    <3>1. todo'[j].op \in {"resetDone", "output"} => j + k \in DOMAIN todo /\ todo[j + k].op = todo'[j].op
      BY <1>1, <2>3 DEF NotedOps
    <3>2. /\ todo'[j].op = "resetDone" => i + k = j + k
          /\ todo'[j].op = "output" => j + k < i + k
      BY <2>2, <3>1
    <3> QED BY <1>2, <3>2
  <2> QED BY <1>4, <2>2, <2>3
<1>5. state' = "FLUSHING" =>
       /\ resets' <= 1
       /\ resets' = 1 => ~Has(todo', "resetDone") /\ at' # "flushDone"
       /\ at' = "flushDone" => ~Has(todo', "resetDone")
  BY <1>3 DEF Resets
<1>6. state' \in {"STARTED", "DRAINING"} => resets' = 0 /\ ~Has(todo', "resetDone")
  BY <1>3 DEF Resets
<1>7. /\ client' = "woken" \/ reuse' \/ at' = "flushDone" => ~b'.fed /\ ~Has(todo', "output")
      /\ client' = "woken" \/ reuse' => b'.toWork = <<>>
  BY <1>3 DEF Resets
<1> QED BY <1>4, <1>5, <1>6, <1>7 DEF Resets, Has

\* What keeps the pictures on their way, and what keeps the blocks that come back.
LEMMA ShownKept ==
  ASSUME NEW s, NEW m, NEW q, NEW r, Shown(s, q), Shifts(q, r),
         \A i \in DOMAIN r : r[i].op = "output" /\ r[i].id \in OwnedBy(s, "accelerator") /\ r[i].id \notin s.held =>
           r[i].id \in OwnedBy(m, "accelerator") /\ r[i].id \notin m.held
  PROVE  Shown(m, r)
<1>1. PICK k \in {0, 1} : \A i \in DOMAIN r : r[i].op \in NotedOps => i + k \in DOMAIN q /\ r[i] = q[i + k]
  BY DEF Shifts
<1>2. DOMAIN r \subseteq Int
  BY LenProperties DEF Shifts
<1>3. ASSUME NEW i \in DOMAIN r, r[i].op = "output"
      PROVE  /\ r[i].id \in OwnedBy(m, "accelerator") /\ r[i].id \notin m.held
             /\ \A j \in DOMAIN r : r[j].op = "output" /\ r[i].id = r[j].id => i = j
  <2>1. i + k \in DOMAIN q /\ r[i] = q[i + k]
    BY <1>1, <1>3 DEF NotedOps
  <2>2. /\ r[i].id \in OwnedBy(s, "accelerator") /\ r[i].id \notin s.held
        /\ \A j \in DOMAIN q : q[j].op = "output" /\ r[i].id = q[j].id => i + k = j
    BY <1>3, <2>1 DEF Shown
  <2>3. ASSUME NEW j \in DOMAIN r, r[j].op = "output", r[i].id = r[j].id PROVE i = j
    <3>1. j + k \in DOMAIN q /\ q[j + k].op = "output" /\ q[j + k].id = r[i].id
      BY <1>1, <2>3 DEF NotedOps
    <3>2. i + k = j + k
      BY <2>2, <3>1
    <3> QED BY <1>2, <3>2
  <2> QED BY <1>3, <2>2, <2>3
<1> QED BY <1>3 DEF Shown

\* A step that takes no block from the client.
LEMMA BackKept ==
  ASSUME NEW s, NEW m, NEW q, NEW r, NEW p, BackFrom(s, q, p), Shifts(q, r), Ids(m) \subseteq Ids(s),
         \A i \in DOMAIN r : r[i].op = "returned" /\ r[i].id \in Ids(m) /\ r[i].id \in OwnedBy(s, "client") =>
           r[i].id \in OwnedBy(m, "client")
  PROVE  BackFrom(m, r, p)
<1>1. PICK k \in {0, 1} : \A i \in DOMAIN r : r[i].op \in NotedOps => i + k \in DOMAIN q /\ r[i] = q[i + k]
  BY DEF Shifts
<1>2. DOMAIN r \subseteq Int
  BY LenProperties DEF Shifts
<1>3. ASSUME NEW i \in DOMAIN r, r[i].op = "returned"
      PROVE  /\ r[i].id \in Ids(m) => r[i].block \in DOMAIN p /\ r[i].id \in OwnedBy(m, "client")
             /\ r[i].block \notin DOMAIN p =>
                  \A j \in DOMAIN r : r[j].op = "new" /\ r[j].block \in DOMAIN p /\ r[i].id = r[j].id => i < j
  <2>1. i + k \in DOMAIN q /\ r[i] = q[i + k]
    BY <1>1, <1>3 DEF NotedOps, BlockOps
  <2>2. /\ r[i].id \in Ids(s) => r[i].block \in DOMAIN p /\ r[i].id \in OwnedBy(s, "client")
        /\ r[i].block \notin DOMAIN p =>
             \A j \in DOMAIN q : q[j].op = "new" /\ q[j].block \in DOMAIN p /\ r[i].id = q[j].id => i + k < j
    BY <1>3, <2>1 DEF BackFrom
  <2>3. ASSUME r[i].block \notin DOMAIN p, NEW j \in DOMAIN r, r[j].op = "new", r[j].block \in DOMAIN p, r[i].id = r[j].id
        PROVE  i < j
    <3>1. j + k \in DOMAIN q /\ q[j + k] = r[j]
      BY <1>1, <2>3 DEF NotedOps, BlockOps
    <3>2. i + k < j + k
      BY <2>2, <2>3, <3>1
    <3> QED BY <1>2, <3>2
  <2>4. r[i].id \in Ids(m) => r[i].block \in DOMAIN p /\ r[i].id \in OwnedBy(m, "client")
    BY <1>3, <2>2
  <2> QED BY <2>3, <2>4
<1> QED BY <1>3 DEF BackFrom

\* A board after a step that changes no block, and one that takes none from the client.
Leaves(s, m) ==
  /\ Ids(m) = Ids(s) /\ \A id \in Ids(s) : m.infos[id].block = s.infos[id].block
  /\ m.decoder = s.decoder /\ (s.decoder # "running" => m.held \subseteq s.held)
  /\ s.failed => m.failed
  /\ m.error => s.error \/ m.failed
Stays(s, m) == Leaves(s, m) /\ OwnedBy(s, "client") \subseteq OwnedBy(m, "client")

\* Two such steps are one.
LEMMA StaysTwice ==
  ASSUME NEW s, NEW m, NEW n, Stays(s, m), Stays(m, n)
  PROVE  Stays(s, n)
BY DEF Stays, Leaves

\* Such a step keeps the ids.
LEMMA StaysBound ==
  ASSUME NEW s, NEW m, NEW q, NEW r, NEW p, Stays(s, m), Shifts(q, r), BoundOn(s, q, p)
  PROVE  BoundOn(m, r, p)
<1>1. BackFrom(m, r, p)
  BY BackKept DEF Stays, Leaves, BoundOn
<1> QED BY <1>1 DEF Stays, Leaves, BoundOn, InPool

\* The same blocks, and the decoder has no more of them than before.
Quiet(s, m) ==
  /\ m.infos = s.infos /\ m.held \subseteq s.held /\ m.toWork \in {s.toWork, <<>>}
  /\ m.decoder = s.decoder /\ (s.failed => m.failed) /\ (m.error => s.error \/ m.failed)

\* What such a step keeps.
LEMMA QuietHeld ==
  ASSUME NEW s, NEW m, Quiet(s, m)
  PROVE  /\ Stays(s, m)
         /\ \A q, r : HeldOn(s, q) /\ Shifts(q, r) => HeldOn(m, r)
<1>1. Ids(m) = Ids(s) /\ \A o : OwnedBy(m, o) = OwnedBy(s, o)
  BY DEF Quiet, Ids, OwnedBy
<1>2. Stays(s, m)
  BY <1>1 DEF Quiet, Stays, Leaves
<1>3. ASSUME NEW q, NEW r, HeldOn(s, q), Shifts(q, r) PROVE HeldOn(m, r)
  <2>1. HeldBy(m)
    BY <1>1, <1>3 DEF Quiet, HeldBy, HeldOn
  <2>2. Shown(m, r)
    BY <1>1, <1>3, ShownKept DEF Quiet, HeldOn
  <2>3. Queued(m)
    <3>1. CASE m.toWork = s.toWork
      BY <1>1, <1>3, <3>1 DEF Queued, HeldOn
    <3>2. CASE m.toWork = <<>>
      BY <3>2 DEF Queued
    <3> QED BY <3>1, <3>2 DEF Quiet
  <2> QED BY <2>1, <2>2, <2>3 DEF HeldOn
<1> QED BY <1>2, <1>3

\* The flags of the component thread and of the decoder.
LEMMA QuietFlags ==
  ASSUME NEW s \in Boards
  PROVE  /\ Quiet(s, s) /\ Quiet(s, Failed(s)) /\ Quiet(s, Noted(s)) /\ Quiet(s, EosReported(s))
         /\ \A v : /\ Quiet(s, [s EXCEPT !.resCh = v]) /\ Quiet(s, [s EXCEPT !.fed = v])
                   /\ Quiet(s, [s EXCEPT !.eosReported = v]) /\ Quiet(s, [s EXCEPT !.drainEos = v])
                   /\ Quiet(s, [s EXCEPT !.slot = v])
                   /\ \A w : Quiet(s, [s EXCEPT !.drainEos = v, !.fed = w])
         /\ Quiet(s, [s EXCEPT !.error = FALSE])
         /\ /\ Failed(s).fed = s.fed /\ Noted(s).fed = s.fed /\ EosReported(s).fed = s.fed
            /\ Failed(s).toWork = s.toWork /\ Noted(s).toWork = s.toWork /\ EosReported(s).toWork = s.toWork
            /\ Failed(s).failed /\ Noted(s).failed = s.failed /\ EosReported(s).failed = s.failed
<1>1. /\ \A v : /\ Quiet(s, [s EXCEPT !.resCh = v]) /\ Quiet(s, [s EXCEPT !.fed = v])
                /\ Quiet(s, [s EXCEPT !.eosReported = v]) /\ Quiet(s, [s EXCEPT !.drainEos = v])
                /\ Quiet(s, [s EXCEPT !.slot = v])
                /\ \A w : Quiet(s, [s EXCEPT !.drainEos = v, !.fed = w])
      /\ Quiet(s, [s EXCEPT !.error = FALSE]) /\ Quiet(s, s)
  BY DEF Quiet, Boards
<1>2. Quiet(s, Failed(s)) /\ Failed(s).fed = s.fed /\ Failed(s).toWork = s.toWork /\ Failed(s).failed
  BY DEF Quiet, Boards, Failed
<1>3. Quiet(s, Noted(s)) /\ Noted(s).fed = s.fed /\ Noted(s).toWork = s.toWork /\ Noted(s).failed = s.failed
  BY <1>1 DEF Noted, Boards
<1>4. /\ Quiet(s, EosReported(s)) /\ EosReported(s).fed = s.fed /\ EosReported(s).toWork = s.toWork
      /\ EosReported(s).failed = s.failed
  BY DEF Quiet, EosReported, Boards
<1> QED BY <1>1, <1>2, <1>3, <1>4

\* A step that posts nothing of note and leaves the blocks, the formats and the flush as they are.
Passing ==
  /\ Shifts(todo, todo') /\ Leaves(b, b') /\ SameDevice(device, device')
  /\ UNCHANGED <<stream, first, shown, resets, pool, format, last, pending>>
  /\ at' = "change" <=> at = "change"
  /\ at' = "allocate" => at = "allocate"
  /\ at' = "flushDone" => at = "flushDone"
  /\ \/ state' = state \/ {state, state'} \subseteq {"STARTED", "DRAINING"}
     \/ state' = "STOPPING" /\ state # "UNINITIALIZED"
  /\ client' = "woken" => client = "woken" /\ works' = <<>>
  /\ reuse' => reuse
  /\ b'.fed => b.fed \/ (state' # "FLUSHING" /\ at' # "flushDone" /\ client' # "woken" /\ ~reuse')

\* Such a step keeps the invariant where it keeps what is said of the blocks.
LEMMA PassingKeeps ==
  ASSUME HeldInv, TypeInv', Passing,
         Sound /\ Sound' /\ Tracked =>
           /\ Stays(b, b') /\ HeldOn(b, todo)'
           /\ b.toWork = <<>> => b'.toWork = <<>> \/ (client' # "woken" /\ ~reuse')
  PROVE  HeldInv'
<1>1. SizesCurrent'
  BY SizedKept DEF HeldInv, Passing, Leaves
<1>2. Ordered'
  <2>1. b'.error => b'.failed
    BY DEF Passing, Leaves, HeldInv, Ordered
  <2> QED BY <2>1, OrderedKept DEF HeldInv, Passing
<1>3. ASSUME Sound' PROVE Tracked'
  <2>1. Sound
    BY <1>3 DEF Sound, Passing, Leaves
  <2>2. Tracked
    BY <2>1 DEF HeldInv
  <2>3. Stays(b, b') /\ HeldOn(b, todo)' /\ (b.toWork = <<>> => b'.toWork = <<>> \/ (client' # "woken" /\ ~reuse'))
    BY <1>3, <2>1, <2>2
  <2>4. Waiting'
    <3>1. at' \in {"change", "allocate"} => pending' # {}
      BY <2>2 DEF Passing, Tracked, Waiting
    <3>2. b.decoder # "running" => b'.held = {}
      BY <2>2 DEF Passing, Leaves, Tracked, Waiting
    <3> QED BY <2>2, <3>1, <3>2, WaitingKept DEF Passing, Leaves, Tracked
  <2>5. Resets'
    BY <2>2, <2>3, ResetsKept DEF Passing, Tracked
  <2>6. BoundOn(b, todo, pool)'
    BY <2>2, <2>3, StaysBound DEF Passing, Tracked
  <2> QED BY <2>3, <2>4, <2>5, <2>6 DEF Tracked
<1> QED BY <1>1, <1>2, <1>3 DEF HeldInv

\* Such a step that leaves the blocks of the component alone.
LEMMA QuietPassing ==
  ASSUME HeldInv, TypeInv', Passing, Quiet(b, b')
  PROVE  HeldInv'
<1>1. Sound /\ Sound' /\ Tracked => Stays(b, b') /\ HeldOn(b, todo)'
  BY QuietHeld DEF Tracked, Passing
<1>2. b.toWork = <<>> => b'.toWork = <<>>
  BY DEF Quiet
<1> QED BY <1>1, <1>2, PassingKeeps

\* A device that is left alone, and a board.
LEMMA Unmoved ==
  ASSUME TypeInv
  PROVE  /\ UNCHANGED device => SameDevice(device, device')
         /\ b \in Boards /\ Quiet(b, b) /\ (Quiet(b, b') => Stays(b, b'))
<1>1. SameDevice(device, device)
  BY DEF TypeInv, TypesOK, SameDevice
<1>2. b \in Boards /\ Quiet(b, b)
  BY QuietFlags DEF TypeInv, BoardOK, Proper
<1> QED BY <1>1, <1>2, QuietHeld

\* Drain keeps the invariant: it is about the works.
LEMMA DrainHolds ==
  ASSUME HeldInv, Drain
  PROVE  HeldInv'
<1>1. /\ todo # <<>> /\ todo' = Tail(todo) /\ at = "idle" /\ state # "UNINITIALIZED"
      /\ UNCHANGED <<inVars, last, pending, first, client, haveFlush, reuse, formatVars, loopVars,
                     poolVars, resets, shown, at, haveDrain, withClient>>
      /\ b' = b \/ b' = [b EXCEPT !.drainEos = FALSE]
      /\ state' = state \/ (state = "STARTED" /\ state' = "DRAINING")
      /\ works = <<>> => works' = works
  BY DEF Drain, Takes, Refuses
<1>2. TypeInv /\ TypeInv'
  BY DrainKeeps DEF HeldInv
<1>3. Quiet(b, b') /\ b'.fed = b.fed
  <2>1. [b EXCEPT !.drainEos = FALSE].fed = b.fed
    BY <1>2, Unmoved DEF Boards
  <2>2. Quiet(b, b) /\ Quiet(b, [b EXCEPT !.drainEos = FALSE])
    BY <1>2, Unmoved, QuietFlags
  <2> QED BY <1>1, <2>1, <2>2
<1>4. Shifts(todo, todo') /\ SameDevice(device, device') /\ Stays(b, b')
  BY <1>1, <1>2, <1>3, ShiftsPosts, Unmoved DEF formatVars
<1>5. client' = "woken" => client = "woken" /\ works' = <<>>
  BY <1>1 DEF HeldInv, Ordered
<1>6. Passing
  BY <1>1, <1>3, <1>4, <1>5 DEF Passing, Stays, inVars, formatVars, poolVars
<1> QED BY <1>2, <1>3, <1>6, QuietPassing

\* Stop keeps the invariant: the works go, the blocks stay until the decoder answered.
LEMMA StopHolds ==
  ASSUME HeldInv, Stop
  PROVE  HeldInv'
<1>1. /\ todo # <<>> /\ todo' = Tail(todo) /\ at' = "stopping" /\ at = "idle"
      /\ state # "UNINITIALIZED" /\ state' = "STOPPING" /\ works' = <<>> /\ b' = [b EXCEPT !.error = FALSE]
      /\ UNCHANGED <<inVars, last, pending, first, client, haveFlush, reuse, formatVars, allocLoop,
                     tasks, waiting, fetch, poolVars, decVars, haveDrain, withClient>>
  BY DEF Stop, Takes
<1>2. TypeInv /\ TypeInv'
  BY StopKeeps DEF HeldInv
<1>3. Quiet(b, b') /\ b'.fed = b.fed
  BY <1>1, <1>2, Unmoved, QuietFlags DEF Boards
<1>4. Shifts(todo, todo') /\ SameDevice(device, device') /\ Stays(b, b')
  BY <1>1, <1>2, <1>3, ShiftsPosts, Unmoved DEF formatVars
<1>5. Passing
  BY <1>1, <1>3, <1>4 DEF Passing, Stays, inVars, formatVars, poolVars, decVars
<1> QED BY <1>2, <1>3, <1>5, QuietPassing

\* DrainDone keeps the invariant.
LEMMA DrainDoneHolds ==
  ASSUME HeldInv, DrainDone
  PROVE  HeldInv'
<1>1. /\ todo # <<>> /\ todo' = Tail(todo) /\ at = "idle" /\ at' \in {"idle", "drained"}
      /\ state # "UNINITIALIZED"
      /\ b' = b \/ b' = EosReported(b) \/ b' = Failed(b)
      /\ state' = IF state = "DRAINING" THEN "STARTED" ELSE state
      /\ UNCHANGED <<inVars, works, last, pending, first, client, haveFlush, reuse, formatVars, loopVars,
                     poolVars, decVars, haveDrain, withClient>>
  BY DEF DrainDone, Takes, Refuses
<1>2. TypeInv /\ TypeInv'
  BY DrainDoneKeeps DEF HeldInv
<1>3. Quiet(b, b') /\ b'.fed = b.fed
  BY <1>1, <1>2, Unmoved, QuietFlags
<1>4. Shifts(todo, todo') /\ SameDevice(device, device') /\ Stays(b, b')
  BY <1>1, <1>2, <1>3, ShiftsPosts, Unmoved DEF formatVars
<1>5. client' = "woken" => client = "woken" /\ works' = <<>>
  BY <1>1 DEF HeldInv, Ordered
<1>6. state' = state \/ {state, state'} \subseteq {"STARTED", "DRAINING"}
  BY <1>1
<1>7. Passing
  BY <1>1, <1>3, <1>4, <1>5, <1>6 DEF Passing, Stays, inVars, formatVars, poolVars, decVars
<1> QED BY <1>2, <1>3, <1>7, QuietPassing

\* Dropped keeps the invariant.
LEMMA DroppedHolds ==
  ASSUME HeldInv, Dropped
  PROVE  HeldInv'
<1>1. /\ todo # <<>> /\ todo' = Tail(todo)
      /\ UNCHANGED <<inVars, compVars, formatVars, loopVars, poolVars, decVars, at, haveDrain, withClient>>
  BY DEF Dropped
<1>2. TypeInv /\ TypeInv'
  BY DroppedKeeps DEF HeldInv
<1>3. Quiet(b, b') /\ b' = b
  BY <1>1, <1>2, Unmoved DEF compVars
<1>4. Shifts(todo, todo') /\ SameDevice(device, device') /\ Stays(b, b')
  BY <1>1, <1>2, <1>3, ShiftsPosts, Unmoved DEF formatVars
<1>5. client' = "woken" => client = "woken" /\ works' = <<>>
  BY <1>1 DEF HeldInv, Ordered, compVars
<1>6. Passing
  BY <1>1, <1>3, <1>4, <1>5 DEF Passing, Stays, inVars, formatVars, poolVars, decVars, compVars
<1> QED BY <1>2, <1>3, <1>6, QuietPassing

\* The dequeue thread's counts and the blocks of the client are no part of it.
LEMMA LoopsHold ==
  ASSUME HeldInv, TaskCancelled \/ FetchBegins \/ ClientReleases
  PROVE  HeldInv'
<1>1. UNCHANGED <<inVars, compVars, formatVars, poolVars, decVars, todo, at>>
  BY DEF TaskCancelled, FetchBegins, ClientReleases, loopVars
<1>2. TypeInv /\ TypeInv'
  BY TaskCancelledKeeps, FetchBeginsKeeps, ClientReleasesKeeps DEF HeldInv
<1>3. Quiet(b, b') /\ b' = b
  BY <1>1, <1>2, Unmoved DEF compVars
<1>4. Shifts(todo, todo') /\ SameDevice(device, device') /\ Stays(b, b')
  BY <1>1, <1>2, <1>3, ShiftsPosts, Unmoved DEF formatVars
<1>5. client' = "woken" => client = "woken" /\ works' = <<>>
  BY <1>1 DEF HeldInv, Ordered, compVars
<1>6. Passing
  BY <1>1, <1>3, <1>4, <1>5 DEF Passing, Stays, inVars, formatVars, poolVars, decVars, compVars
<1> QED BY <1>2, <1>3, <1>6, QuietPassing

\* NotifyFlushDone keeps the invariant: the decoder is not fed any more.
LEMMA NotifyFlushDoneHolds ==
  ASSUME HeldInv, NotifyFlushDone
  PROVE  HeldInv'
<1>1. /\ todo' = Append(todo, Plain("drainDone")) /\ b' = [b EXCEPT !.fed = FALSE]
      /\ UNCHANGED <<inVars, state, works, last, pending, first, client, haveFlush, reuse, formatVars,
                     runLoop, tasks, waiting, fetch, poolVars, resets, shown, at, withClient>>
  BY DEF NotifyFlushDone, Posts
<1>2. TypeInv /\ TypeInv'
  BY NotifyFlushDoneKeeps DEF HeldInv
<1>3. Quiet(b, b') /\ ~b'.fed
  BY <1>1, <1>2, Unmoved, QuietFlags DEF Boards
<1>4. Shifts(todo, todo') /\ SameDevice(device, device') /\ Stays(b, b')
  <2>1. Shifts(todo, todo')
    BY <1>1, <1>2, ShiftsPosts, PlainUnnoted DEF PlainOps
  <2> QED BY <1>1, <1>2, <1>3, <2>1, Unmoved DEF formatVars
<1>5. client' = "woken" => client = "woken" /\ works' = <<>>
  BY <1>1 DEF HeldInv, Ordered
<1>6. Passing
  BY <1>1, <1>3, <1>4, <1>5 DEF Passing, Stays, inVars, formatVars, poolVars
<1> QED BY <1>2, <1>3, <1>6, QuietPassing

\* onReusedOutBuf, when the decoder has reported nothing and no picture waits.
LEMMA ReusedHolds ==
  ASSUME NEW s, Proper(s)
  PROVE  LET m == ReusedOutBuf(s)
         IN  /\ Stays(s, m) /\ m.toWork = s.toWork /\ m.fed = s.fed /\ m \in Boards
             /\ ~reuse => m = s
             /\ HeldBy(s) => HeldBy(m)
             /\ s.toWork = <<>> => Queued(m)
<1> DEFINE own == [s EXCEPT !.afterFlush = {}]
           ids == (s.afterFlush \cap OwnedBy(s, "component")) \cup OwnedBy(s, "accelerator")
           given == Given(own, ids)
           m == ReusedOutBuf(s)
<1>1. s \in Boards /\ own \in Boards /\ own.infos = s.infos /\ own.toWork = s.toWork /\ own.fed = s.fed
      /\ own.held = s.held /\ own.decoder = s.decoder /\ own.failed = s.failed /\ own.error = s.error
  BY DEF Proper, Boards
<1>2. Ids(own) = Ids(s) /\ \A o : OwnedBy(own, o) = OwnedBy(s, o)
  BY <1>1 DEF Ids, OwnedBy
<1>3. ids \in SUBSET Ids(own) /\ IsFiniteSet(Ids(own))
  BY <1>2 DEF Proper, OwnedBy
<1>4. ids \cap OwnedBy(s, "client") = {}
  BY DEF OwnedBy
<1>5. m = s \/ (reuse /\ m = given)
  BY DEF ReusedOutBuf
<1> HIDE DEF own, ids, given
<1>6. /\ given \in Boards /\ Ids(given) = Ids(own) /\ SameFlags(own, given)
      /\ given.held = IF own.decoder = "running" THEN own.held \cup ids ELSE own.held
      /\ \A id \in Ids(own) : /\ given.infos[id].block = own.infos[id].block
                              /\ given.infos[id].fdSet <=> id \in ids \/ own.infos[id].fdSet
      /\ OwnedBy(given, "accelerator") = OwnedBy(own, "accelerator") \cup ids
      /\ \A o \in {"client", "component"} : OwnedBy(given, o) = OwnedBy(own, o) \ ids
  BY <1>1, <1>3, GivenKeeps DEF given
<1>7. Stays(s, given)
  BY <1>1, <1>2, <1>4, <1>6 DEF Stays, Leaves, SameFlags
<1>8. HeldBy(s) => HeldBy(given)
  <2> SUFFICES ASSUME HeldBy(s), NEW id \in given.held
               PROVE  id \in OwnedBy(given, "accelerator") /\ given.infos[id].fdSet
    BY DEF HeldBy
  <2>1. id \in ids \/ id \in s.held
    BY <1>1, <1>6
  <2>2. CASE id \in ids
    BY <1>3, <1>6, <2>2
  <2>3. CASE id \in s.held
    <3>1. id \in OwnedBy(own, "accelerator") /\ own.infos[id].fdSet
      BY <1>1, <1>2, <2>3 DEF HeldBy
    <3>2. id \in Ids(own)
      BY <3>1 DEF OwnedBy
    <3> QED BY <1>6, <3>1, <3>2
  <2> QED BY <2>1, <2>2, <2>3
<1>9. Stays(s, s)
  BY QuietFlags, QuietHeld, <1>1
<1>10. given.toWork = s.toWork /\ given.fed = s.fed
  BY <1>1, <1>6 DEF SameFlags
<1>11. m.toWork = <<>> => Queued(m)
  BY DEF Queued
<1> HIDE DEF m
<1>12. m.toWork = s.toWork /\ m.fed = s.fed /\ m \in Boards /\ Stays(s, m) /\ (HeldBy(s) => HeldBy(m))
  BY <1>1, <1>5, <1>6, <1>7, <1>8, <1>9, <1>10
<1> QED BY <1>5, <1>11, <1>12 DEF m

\* With nothing on its way the parts hold after it, and with no flush done nothing is given back.
LEMMA ReusedHeld ==
  ASSUME TypeInv, Tracked, at = "idle", NEW r, Shifts(todo, r), NEW m, Quiet(ReusedOutBuf(b), m)
  PROVE  HeldOn(m, r)
<1> DEFINE s == ReusedOutBuf(b)
<1>1. Proper(b)
  BY DEF TypeInv, BoardOK
<1>2. /\ ~reuse => s = b
      /\ HeldBy(b) => HeldBy(s)
      /\ b.toWork = <<>> => Queued(s)
  BY <1>1, ReusedHolds
<1> HIDE DEF s
<1>3. HeldOn(s, todo)
  <2>1. CASE ~reuse
    BY <1>2, <2>1 DEF Tracked
  <2>2. CASE reuse
    <3>1. b.toWork = <<>> /\ ~Has(todo, "output")
      BY <2>2 DEF Tracked, Resets
    <3>2. Shown(s, todo)
      BY <3>1 DEF Shown, Has
    <3> QED BY <1>2, <3>1, <3>2 DEF Tracked, HeldOn
  <2> QED BY <2>1, <2>2
<1> QED BY <1>3, QuietHeld DEF s

\* QueueWork keeps the invariant: what onReusedOutBuf gives to the decoder is in no picture.
LEMMA QueueWorkHolds ==
  ASSUME HeldInv, QueueWork
  PROVE  HeldInv'
<1> DEFINE s == ReusedOutBuf(b)
           e == s.eosReported /\ ~(s.eosReported \/ haveFlush)
<1>1. /\ todo # <<>> /\ Head(todo).op = "queueWork" /\ todo' = Append(Tail(todo), Plain("dequeueWork"))
      /\ at = "idle" /\ b' = [s EXCEPT !.eosReported = e] /\ reuse' = FALSE
      /\ UNCHANGED <<inVars, state, last, pending, first, client, formatVars, fetch, poolVars, decVars,
                     at, withClient>>
  BY DEF QueueWork, TakesPosting
<1>2. TypeInv /\ TypeInv' /\ Proper(b)
  BY QueueWorkKeeps DEF HeldInv, TypeInv, BoardOK
<1>3. s \in Boards /\ Stays(b, s) /\ s.toWork = b.toWork /\ s.fed = b.fed
  BY <1>2, ReusedHolds
<1> HIDE DEF e
<1>4. Quiet(s, b') /\ b'.fed = b.fed /\ b'.toWork = b.toWork
  <2> HIDE DEF s
  <2>1. Quiet(s, b')
    BY <1>1, <1>3, QuietFlags
  <2> QED BY <1>1, <1>3, <2>1 DEF Boards
<1>5. Shifts(todo, todo') /\ SameDevice(device, device') /\ Stays(b, b')
  <2>1. Shifts(todo, todo')
    BY <1>1, <1>2, ShiftsPosts, PlainUnnoted DEF PlainOps
  <2>2. Stays(s, b')
    BY <1>4, QuietHeld
  <2>3. Stays(b, b')
    BY <1>3, <2>2, StaysTwice
  <2> QED BY <1>1, <1>2, <2>1, <2>3, Unmoved DEF formatVars
<1>6. client' # "woken"
  <2>1. Has(todo, "queueWork")
    BY <1>1, <1>2, HeadTask DEF Has, TypeInv, TypesOK
  <2> QED BY <1>1, <2>1 DEF HeldInv, Ordered
<1>7. Passing
  BY <1>1, <1>4, <1>5, <1>6 DEF Passing, Stays, inVars, formatVars, poolVars, decVars
<1>8. Sound /\ Sound' /\ Tracked => HeldOn(b, todo)'
  BY <1>1, <1>2, <1>4, <1>5, ReusedHeld
<1> QED BY <1>2, <1>4, <1>5, <1>7, <1>8, PassingKeeps

\* DequeueWork keeps the invariant, for the same reason, and feeds the decoder after that.
LEMMA DequeueWorkHolds ==
  ASSUME HeldInv, DequeueWork
  PROVE  HeldInv'
<1> DEFINE s == ReusedOutBuf(b)
           e == IF Head(works) # "data" THEN Head(works) = "eos" ELSE s.drainEos
<1>1. /\ todo # <<>> /\ at = "idle" /\ state = "STARTED" /\ works # <<>>
      /\ todo' = Tail(todo) \/ todo' = Append(Tail(todo), Plain("dequeueWork"))
      /\ b' = [s EXCEPT !.drainEos = e, !.fed = TRUE] /\ reuse' = FALSE
      /\ state' \in {"STARTED", "DRAINING"}
      /\ UNCHANGED <<inVars, last, pending, first, client, formatVars, fetch, poolVars, resets, shown,
                     at, haveDrain, withClient>>
  BY DEF DequeueWork, TakesPosting, Takes
<1>2. TypeInv /\ TypeInv' /\ Proper(b)
  BY DequeueWorkKeeps DEF HeldInv, TypeInv, BoardOK
<1>3. s \in Boards /\ Stays(b, s) /\ s.toWork = b.toWork
  BY <1>2, ReusedHolds
<1> HIDE DEF e
<1>4. Quiet(s, b') /\ b'.toWork = b.toWork
  <2> HIDE DEF s
  <2>1. Quiet(s, b')
    BY <1>1, <1>3, QuietFlags
  <2> QED BY <1>1, <1>3, <2>1 DEF Boards
<1>5. Shifts(todo, todo') /\ SameDevice(device, device') /\ Stays(b, b')
  <2>1. Shifts(todo, todo')
    BY <1>1, <1>2, ShiftsPosts, PlainUnnoted DEF PlainOps
  <2>2. Stays(s, b')
    BY <1>4, QuietHeld
  <2>3. Stays(b, b')
    BY <1>3, <2>2, StaysTwice
  <2> QED BY <1>1, <1>2, <2>1, <2>3, Unmoved DEF formatVars
<1>6. client' # "woken"
  BY <1>1 DEF HeldInv, Ordered
<1>7. Passing
  BY <1>1, <1>4, <1>5, <1>6 DEF Passing, Stays, inVars, formatVars, poolVars
<1>8. Sound /\ Sound' /\ Tracked => HeldOn(b, todo)'
  BY <1>1, <1>2, <1>4, <1>5, ReusedHeld
<1> QED BY <1>2, <1>4, <1>5, <1>7, <1>8, PassingKeeps

\* Moving blocks, and giving them to the decoder.
LEMMA MovesLeave ==
  ASSUME NEW s \in Boards, IsFiniteSet(Ids(s)), NEW ids \in SUBSET Ids(s)
  PROVE  /\ \A to \in Owners : Leaves(s, Moved(s, ids, to))
         /\ Leaves(s, Sent(s, ids)) /\ Leaves(s, Given(s, ids))
<1>1. ASSUME NEW to \in Owners PROVE Leaves(s, Moved(s, ids, to))
  <2> DEFINE m == Moved(s, ids, to)
  <2> SUFFICES Leaves(s, m)
    OBVIOUS
  <2>1. /\ m \in Boards /\ Ids(m) = Ids(s) /\ SameFlags(s, m) /\ m.held = s.held
        /\ \A id \in Ids(s) : /\ m.infos[id].block = s.infos[id].block
                              /\ m.infos[id].fdSet = s.infos[id].fdSet
    BY MovedKeeps DEF Owners
  <2> HIDE DEF m
  <2>2. Leaves(s, m)
    BY <2>1 DEF Leaves, SameFlags
  <2> QED BY <2>2 DEF m
<1>2. Leaves(s, Sent(s, ids))
  <2> DEFINE m == Sent(s, ids)
  <2>1. /\ Ids(m) = Ids(s) /\ SameFlags(s, m)
        /\ m.held = IF s.decoder = "running" THEN s.held \cup ids ELSE s.held
        /\ \A id \in Ids(s) : /\ m.infos[id].block = s.infos[id].block
                              /\ m.infos[id].fdSet <=> id \in ids \/ s.infos[id].fdSet
    BY SentKeeps
  <2> HIDE DEF m
  <2>2. Leaves(s, m)
    BY <2>1 DEF Leaves, SameFlags
  <2> QED BY <2>2 DEF m
<1>3. Leaves(s, Given(s, ids))
  <2> DEFINE m == Given(s, ids)
  <2>1. /\ Ids(m) = Ids(s) /\ SameFlags(s, m)
        /\ m.held = IF s.decoder = "running" THEN s.held \cup ids ELSE s.held
        /\ \A id \in Ids(s) : /\ m.infos[id].block = s.infos[id].block
                              /\ m.infos[id].fdSet <=> id \in ids \/ s.infos[id].fdSet
    BY GivenKeeps
  <2> HIDE DEF m
  <2>2. Leaves(s, m)
    BY <2>1 DEF Leaves, SameFlags
  <2> QED BY <2>2 DEF m
<1> QED BY <1>1, <1>2, <1>3

\* Two such steps are one.
LEMMA LeavesTwice ==
  ASSUME NEW s, NEW m, NEW n, Leaves(s, m), Leaves(m, n)
  PROVE  Leaves(s, n)
BY DEF Leaves

\* The picture of a block the decoder had: the block goes back to it, or waits with its picture.
LEMMA TakenPicture ==
  ASSUME NEW s, Proper(s), HeldBy(s), Queued(s), NEW id \in OwnedBy(s, "accelerator"), id \notin s.held,
         NEW n \in Nat
  PROVE  \A t, g, w :
           /\ t = Moved(s, {id}, "component") /\ g = Given(t, {id})
           /\ w = [t EXCEPT !.toWork = Append(@, id), !.outputs = n]
           => /\ Stays(s, g) /\ HeldBy(g) /\ Queued(g) /\ g.held \subseteq s.held \cup {id}
              /\ OwnedBy(s, "accelerator") \subseteq OwnedBy(g, "accelerator")
              /\ Stays(s, w) /\ HeldBy(w) /\ Queued(w) /\ w.held = s.held
              /\ OwnedBy(s, "accelerator") \ {id} \subseteq OwnedBy(w, "accelerator")
<1> DEFINE ids == {id}
           t == Moved(s, ids, "component")
           g == Given(t, ids)
           q == Append(t.toWork, id)
           w == [t EXCEPT !.toWork = q, !.outputs = n]
<1>1. s \in Boards /\ IsFiniteSet(Ids(s)) /\ ids \in SUBSET Ids(s) /\ s.toWork \in Seq(Nat) /\ id \in Nat
  BY BoardInfos DEF Proper, Boards, OwnedBy
<1>2. id \notin OwnedBy(s, "client") /\ id \notin OwnedBy(s, "component")
  BY DEF OwnedBy
<1>3. \A x : x \in ids <=> x = id
  OBVIOUS
<1> HIDE DEF ids
<1>4. /\ t \in Boards /\ Ids(t) = Ids(s) /\ SameFlags(s, t) /\ t.held = s.held
      /\ \A i \in Ids(s) : t.infos[i].block = s.infos[i].block /\ t.infos[i].fdSet = s.infos[i].fdSet
      /\ OwnedBy(t, "component") = OwnedBy(s, "component") \cup ids
      /\ OwnedBy(t, "accelerator") = OwnedBy(s, "accelerator") \ ids
      /\ OwnedBy(t, "client") = OwnedBy(s, "client") \ ids
  BY <1>1, MovedKeeps DEF Owners
<1> HIDE DEF t
<1>5. /\ g \in Boards /\ Ids(g) = Ids(t) /\ SameFlags(t, g)
      /\ g.held = IF t.decoder = "running" THEN t.held \cup ids ELSE t.held
      /\ \A i \in Ids(t) : /\ g.infos[i].block = t.infos[i].block
                           /\ g.infos[i].fdSet <=> i \in ids \/ t.infos[i].fdSet
      /\ OwnedBy(g, "accelerator") = OwnedBy(t, "accelerator") \cup ids
      /\ OwnedBy(g, "client") = OwnedBy(t, "client") \ ids
      /\ OwnedBy(g, "component") = OwnedBy(t, "component") \ ids
  BY <1>1, <1>4, GivenKeeps
<1> HIDE DEF g
<1>6. OwnedBy(g, "accelerator") = OwnedBy(s, "accelerator") /\ OwnedBy(g, "client") = OwnedBy(s, "client")
      /\ OwnedBy(g, "component") = OwnedBy(s, "component")
  <2>1. ids \subseteq OwnedBy(s, "accelerator") /\ ids \cap OwnedBy(s, "client") = {} /\ ids \cap OwnedBy(s, "component") = {}
    BY <1>2, <1>3
  <2>2. /\ OwnedBy(g, "accelerator") = (OwnedBy(s, "accelerator") \ ids) \cup ids
        /\ OwnedBy(g, "client") = (OwnedBy(s, "client") \ ids) \ ids
        /\ OwnedBy(g, "component") = (OwnedBy(s, "component") \cup ids) \ ids
    BY <1>4, <1>5
  <2> QED BY <2>1, <2>2
<1>7. g.toWork = s.toWork /\ g.fed = s.fed /\ g.decoder = s.decoder /\ g.failed = s.failed /\ g.error = s.error
      /\ t.toWork = s.toWork /\ t.fed = s.fed /\ t.decoder = s.decoder /\ t.failed = s.failed /\ t.error = s.error
  BY <1>4, <1>5 DEF SameFlags
<1>8. Stays(s, g)
  BY <1>4, <1>5, <1>6, <1>7 DEF Stays, Leaves
<1>9. HeldBy(g) /\ Queued(g)
  <2>1. ASSUME NEW i \in g.held PROVE i \in OwnedBy(g, "accelerator") /\ g.infos[i].fdSet
    <3>1. i \in ids \/ i \in s.held
      BY <1>4, <1>5
    <3>2. i \in OwnedBy(s, "accelerator") /\ (i \in ids \/ s.infos[i].fdSet)
      BY <1>3, <3>1 DEF HeldBy
    <3>3. i \in Ids(s)
      BY <3>2 DEF OwnedBy
    <3> QED BY <1>4, <1>5, <1>6, <3>2, <3>3
  <2>2. Queued(g)
    BY <1>6, <1>7 DEF Queued
  <2> QED BY <2>1, <2>2 DEF HeldBy
<1>10. /\ q \in Seq(Nat) /\ Len(q) = Len(s.toWork) + 1 /\ Len(s.toWork) \in Nat /\ q[Len(s.toWork) + 1] = id
       /\ \A i \in 1 .. Len(s.toWork) : q[i] = s.toWork[i]
  BY <1>1, <1>7, AppendProperties, LenProperties
<1> HIDE DEF q
<1>11. /\ w.infos = t.infos /\ w.held = t.held /\ w.toWork = q /\ w.fed = t.fed /\ w.decoder = t.decoder
       /\ w.failed = t.failed /\ w.error = t.error
  BY <1>4 DEF Boards
<1> HIDE DEF w
<1>12. Ids(w) = Ids(t) /\ \A o : OwnedBy(w, o) = OwnedBy(t, o)
  BY <1>11 DEF Ids, OwnedBy
<1>13. Stays(s, w)
  BY <1>2, <1>3, <1>4, <1>7, <1>11, <1>12 DEF Stays, Leaves
<1>14. HeldBy(w)
  <2> SUFFICES ASSUME NEW i \in w.held PROVE i \in OwnedBy(w, "accelerator") /\ w.infos[i].fdSet
    BY DEF HeldBy
  <2>1. i \in OwnedBy(s, "accelerator") /\ s.infos[i].fdSet /\ i # id
    BY <1>4, <1>11 DEF HeldBy
  <2>2. i \in Ids(s)
    BY <2>1 DEF OwnedBy
  <2> QED BY <1>3, <1>4, <1>11, <1>12, <2>1, <2>2
<1>15. Queued(w)
  <2> SUFFICES ASSUME NEW i \in 1 .. Len(w.toWork)
               PROVE  /\ w.toWork[i] \in OwnedBy(w, "component")
                      /\ \A j \in 1 .. Len(w.toWork) : w.toWork[i] = w.toWork[j] => i = j
    BY DEF Queued
  <2>1. \A j \in 1 .. Len(w.toWork) : j \in 1 .. Len(s.toWork) \/ (j = Len(s.toWork) + 1 /\ w.toWork[j] = id)
    BY <1>10, <1>11
  <2>2. \A j \in 1 .. Len(s.toWork) : /\ w.toWork[j] = s.toWork[j] /\ s.toWork[j] \in OwnedBy(s, "component")
                                      /\ s.toWork[j] # id
    BY <1>2, <1>10, <1>11 DEF Queued
  <2>3. w.toWork[i] \in OwnedBy(w, "component")
    BY <1>3, <1>4, <1>12, <2>1, <2>2
  <2>4. \A j, l \in 1 .. Len(s.toWork) : s.toWork[l] = s.toWork[j] => l = j
    BY DEF Queued
  <2>5. ASSUME NEW j \in 1 .. Len(w.toWork), w.toWork[i] = w.toWork[j] PROVE i = j
    BY <2>1, <2>2, <2>4, <2>5
  <2> QED BY <2>3, <2>5
<1>16. g.held \subseteq s.held \cup {id} /\ OwnedBy(s, "accelerator") \ {id} \subseteq OwnedBy(w, "accelerator")
  BY <1>3, <1>4, <1>5, <1>12
<1>17. /\ Stays(s, g) /\ HeldBy(g) /\ Queued(g) /\ g.held \subseteq s.held \cup {id}
       /\ OwnedBy(s, "accelerator") \subseteq OwnedBy(g, "accelerator")
       /\ Stays(s, w) /\ HeldBy(w) /\ Queued(w) /\ w.held = s.held
       /\ OwnedBy(s, "accelerator") \ {id} \subseteq OwnedBy(w, "accelerator")
  BY <1>4, <1>6, <1>8, <1>9, <1>11, <1>13, <1>14, <1>15, <1>16
<1> QED BY <1>17 DEF w, q, g, t, ids

\* OutputBufferDone keeps the invariant: the picture taken is the only one in its block.
LEMMA OutputBufferDoneHolds ==
  ASSUME HeldInv, OutputBufferDone
  PROVE  HeldInv'
<1> DEFINE id == Task.id
           s == IF id \in OwnedBy(b, "accelerator") THEN Moved(b, {id}, "component") ELSE b
           n == IF s.outputs < 2 THEN s.outputs + 1 ELSE 2
<1>1. /\ todo # <<>> /\ Head(todo).op = "output" /\ todo' = Tail(todo) /\ at = "idle"
      /\ at' \in {"idle", "send"} /\ state # "UNINITIALIZED"
      /\ UNCHANGED <<inVars, state, works, last, pending, first, client, haveFlush, reuse, formatVars,
                     runLoop, fetch, poolVars, decVars, haveDrain, withClient>>
  BY DEF OutputBufferDone, Takes, Refuses
<1>2. \/ b' = b \/ b' = Failed(b) \/ (id \in Ids(b) /\ b' = Given(s, {id}))
      \/ id \in Ids(b) /\ b' = [s EXCEPT !.toWork = Append(@, id), !.outputs = n]
  BY DEF OutputBufferDone
<1>3. TypeInv /\ TypeInv' /\ Proper(b) /\ b \in Boards /\ IsFiniteSet(Ids(b))
  BY OutputBufferDoneKeeps DEF HeldInv, TypeInv, BoardOK, Proper
<1>4. Leaves(b, s) /\ s \in Boards /\ IsFiniteSet(Ids(s)) /\ s.fed = b.fed
  <2> DEFINE ids == {id}
  <2>1. id \in OwnedBy(b, "accelerator") => ids \in SUBSET Ids(b)
    BY DEF OwnedBy
  <2> HIDE DEF ids
  <2>2. ASSUME id \in OwnedBy(b, "accelerator")
        PROVE  LET m == Moved(b, ids, "component")
               IN  Leaves(b, m) /\ m \in Boards /\ Ids(m) = Ids(b) /\ m.fed = b.fed
    <3>1. ids \in SUBSET Ids(b)
      BY <2>1, <2>2
    <3> QED BY <1>3, <3>1, MovesLeave, MovedKeeps DEF Owners, SameFlags
  <2>3. Leaves(b, b)
    BY DEF Leaves
  <2> QED BY <1>3, <2>2, <2>3 DEF ids
<1>5. n \in Nat
  BY <1>4 DEF Boards
<1> HIDE DEF n
<1>6. Leaves(b, b') /\ b'.fed = b.fed
  <2>1. CASE b' = b \/ b' = Failed(b)
    BY <1>3, <2>1, Unmoved, QuietFlags DEF Stays
  <2>2. CASE id \in Ids(b) /\ b' = Given(s, {id})
    <3> DEFINE ids == {id}
    <3>1. ids \in SUBSET Ids(s)
      BY <1>4, <2>2 DEF Leaves
    <3> HIDE DEF ids, s
    <3>2. Leaves(s, Given(s, ids)) /\ Given(s, ids).fed = s.fed
      BY <1>4, <3>1, MovesLeave, GivenKeeps DEF SameFlags
    <3> QED BY <1>4, <2>2, <3>2, LeavesTwice DEF ids
  <2>3. CASE b' = [s EXCEPT !.toWork = Append(@, id), !.outputs = n]
    <3> HIDE DEF s
    <3>1. b'.infos = s.infos /\ b'.fed = s.fed /\ b'.held = s.held /\ b'.decoder = s.decoder
          /\ b'.failed = s.failed /\ b'.error = s.error
      BY <1>4, <2>3 DEF Boards
    <3>2. Leaves(s, b')
      BY <3>1 DEF Leaves, Ids
    <3> QED BY <1>4, <3>1, <3>2, LeavesTwice
  <2> QED BY <1>2, <2>1, <2>2, <2>3
<1>7. Shifts(todo, todo') /\ SameDevice(device, device')
  BY <1>1, <1>3, ShiftsPosts, Unmoved DEF formatVars
<1>8. client' = "woken" => client = "woken" /\ works' = <<>>
  BY <1>1 DEF HeldInv, Ordered
<1>9. Passing
  BY <1>1, <1>6, <1>7, <1>8 DEF Passing, inVars, formatVars, poolVars, decVars
<1>10. ASSUME Sound, Sound', Tracked
       PROVE  Stays(b, b') /\ HeldOn(b, todo)' /\ client' # "woken" /\ ~reuse'
  <2>1. /\ 1 \in DOMAIN todo /\ todo[1] = Task
        /\ \A i \in DOMAIN todo' : i + 1 \in DOMAIN todo /\ todo'[i] = todo[i + 1] /\ i + 1 # 1
    BY <1>1, <1>3, HeadTask DEF TypeInv, TypesOK, Task
  <2>2. /\ id \in OwnedBy(b, "accelerator") /\ id \notin b.held
        /\ \A j \in DOMAIN todo : todo[j].op = "output" /\ id = todo[j].id => 1 = j
    BY <1>1, <1>10, <2>1 DEF Tracked, HeldOn, Shown, Task
  <2>3. \A i \in DOMAIN todo' : todo'[i].op = "output" => todo'[i].id # id
    BY <2>1, <2>2
  <2>4. client' # "woken" /\ ~reuse'
    BY <1>1, <1>10, <2>1 DEF Tracked, Resets, Has, Task
  <2>5. HeldBy(b) /\ Queued(b) /\ Shown(b, todo)
    BY <1>10 DEF Tracked, HeldOn
  <2>6. CASE b' = b \/ b' = Failed(b)
    <3>1. Quiet(b, b')
      BY <1>3, <2>6, Unmoved, QuietFlags
    <3> QED BY <1>7, <1>10, <2>4, <3>1, QuietHeld DEF Tracked
  <2> HIDE DEF id
  <2> DEFINE t == Moved(b, {id}, "component")
             g == Given(t, {id})
             w == [t EXCEPT !.toWork = Append(@, id), !.outputs = n]
  <2>7. /\ s = t /\ t = Moved(b, {id}, "component") /\ g = Given(t, {id})
        /\ w = [t EXCEPT !.toWork = Append(@, id), !.outputs = n]
    BY <2>2 DEF id
  <2> HIDE DEF s, t, g, w
  <2>8. /\ Stays(b, g) /\ HeldBy(g) /\ Queued(g) /\ g.held \subseteq b.held \cup {id}
        /\ OwnedBy(b, "accelerator") \subseteq OwnedBy(g, "accelerator")
        /\ Stays(b, w) /\ HeldBy(w) /\ Queued(w) /\ w.held = b.held
        /\ OwnedBy(b, "accelerator") \ {id} \subseteq OwnedBy(w, "accelerator")
    <3>1. \A u, v, x :
            /\ u = Moved(b, {id}, "component") /\ v = Given(u, {id})
            /\ x = [u EXCEPT !.toWork = Append(@, id), !.outputs = n]
            => /\ Stays(b, v) /\ HeldBy(v) /\ Queued(v) /\ v.held \subseteq b.held \cup {id}
               /\ OwnedBy(b, "accelerator") \subseteq OwnedBy(v, "accelerator")
               /\ Stays(b, x) /\ HeldBy(x) /\ Queued(x) /\ x.held = b.held
               /\ OwnedBy(b, "accelerator") \ {id} \subseteq OwnedBy(x, "accelerator")
      BY <1>3, <1>5, <2>2, <2>5, TakenPicture
    <3> QED BY <2>7, <3>1
  <2>9. CASE b' \in {g, w}
    <3>1. /\ Stays(b, b') /\ HeldBy(b') /\ Queued(b') /\ b'.held \subseteq b.held \cup {id}
          /\ OwnedBy(b, "accelerator") \ {id} \subseteq OwnedBy(b', "accelerator")
      BY <2>8, <2>9
    <3>2. Shown(b', todo')
      BY <1>7, <2>3, <2>5, <3>1, ShownKept
    <3> QED BY <2>4, <3>1, <3>2 DEF HeldOn
  <2>10. b' = b \/ b' = Failed(b) \/ b' \in {g, w}
    BY <1>2, <2>7 DEF id
  <2> QED BY <2>6, <2>9, <2>10
<1> QED BY <1>3, <1>9, <1>10, PassingKeeps

\* What a sending is to be: it leaves the blocks, and when the decoder's are right they stay so.
Sends(s, m) ==
  /\ m \in Boards /\ Leaves(s, m) /\ m.fed = s.fed /\ (s.toWork = <<>> => m.toWork = <<>>)
  /\ HeldBy(s) /\ Queued(s) =>
       /\ Stays(s, m) /\ HeldBy(m) /\ Queued(m) /\ m.held \subseteq s.held \cup OwnedBy(s, "component")
       /\ OwnedBy(s, "accelerator") \subseteq OwnedBy(m, "accelerator")

\* The pictures that go out, and the blocks that go back to the decoder.
LEMMA SendingLeaves ==
  ASSUME NEW s, Proper(s), NEW n \in 0 .. Len(s.toWork), NEW back \in SUBSET IdsIn(s, n)
  PROVE  Sends(s, SentTo(s, n, back))
<1> DEFINE front == IdsIn(s, n)
           gone == front \ back
           out == Moved(s, gone, "client")
           given == Given(out, back)
           m == SentTo(s, n, back)
           q == s.toWork
           w == SubSeq(given.toWork, n + 1, Len(given.toWork))
<1>1. q \in Seq(Nat) /\ n \in Nat /\ Len(q) \in Nat /\ n <= Len(q) /\ s \in Boards /\ IsFiniteSet(Ids(s))
  BY LenProperties DEF Proper, Boards
<1>2. front \subseteq Ids(s) /\ gone \in SUBSET Ids(s) /\ back \subseteq front
  BY <1>1 DEF Proper, Waits, IdsIn
<1> HIDE DEF gone, front
<1>3. /\ out \in Boards /\ Ids(out) = Ids(s) /\ SameFlags(s, out) /\ out.held = s.held
      /\ \A id \in Ids(s) : out.infos[id].block = s.infos[id].block /\ out.infos[id].fdSet = s.infos[id].fdSet
      /\ OwnedBy(out, "client") = OwnedBy(s, "client") \cup gone
      /\ OwnedBy(out, "accelerator") = OwnedBy(s, "accelerator") \ gone
      /\ OwnedBy(out, "component") = OwnedBy(s, "component") \ gone
  BY <1>1, <1>2, MovedKeeps DEF Owners
<1> HIDE DEF out
<1>4. back \in SUBSET Ids(out) /\ IsFiniteSet(Ids(out))
  BY <1>1, <1>2, <1>3
<1>5. /\ given \in Boards /\ Ids(given) = Ids(out) /\ SameFlags(out, given)
      /\ given.held = IF out.decoder = "running" THEN out.held \cup back ELSE out.held
      /\ \A id \in Ids(out) : /\ given.infos[id].block = out.infos[id].block
                              /\ given.infos[id].fdSet <=> id \in back \/ out.infos[id].fdSet
      /\ OwnedBy(given, "accelerator") = OwnedBy(out, "accelerator") \cup back
      /\ OwnedBy(given, "client") = OwnedBy(out, "client") \ back
      /\ OwnedBy(given, "component") = OwnedBy(out, "component") \ back
  BY <1>3, <1>4, GivenKeeps
<1>6. m = [given EXCEPT !.toWork = w]
  BY DEF SentTo, out, gone, front
<1> HIDE DEF m, given
<1>7. given.toWork = q /\ given.fed = s.fed /\ given.decoder = s.decoder /\ given.failed = s.failed
      /\ given.error = s.error /\ out.decoder = s.decoder
  BY <1>3, <1>5 DEF SameFlags
<1>8. /\ w \in Seq(Nat) /\ Len(w) = Len(q) - n
      /\ \A i \in 1 .. Len(w) : w[i] = q[n + i] /\ n + i \in 1 .. Len(q)
  <2>1. w = SubSeq(q, n + 1, Len(q)) /\ n + 1 \in Int /\ Len(q) \in Int
    BY <1>1, <1>7
  <2>2. \A i \in n + 1 .. Len(q) : q[i] \in Nat /\ i \in 1 .. Len(q)
    BY <1>1, ElementOfSeq
  <2> HIDE DEF w, q
  <2>3. /\ w \in Seq(Nat)
        /\ Len(w) = IF n + 1 <= Len(q) THEN Len(q) - (n + 1) + 1 ELSE 0
        /\ \A i \in 1 .. Len(q) - (n + 1) + 1 : w[i] = q[n + 1 + i - 1]
    BY <2>1, <2>2, SubSeqProperties
  <2>4. Len(w) = Len(q) - n
    BY <1>1, <2>3
  <2>5. ASSUME NEW i \in 1 .. Len(w) PROVE w[i] = q[n + i] /\ n + i \in 1 .. Len(q)
    <3>1. i \in Int /\ i \in 1 .. Len(q) - (n + 1) + 1 /\ n + i \in 1 .. Len(q)
      BY <1>1, <2>4
    <3>2. n + 1 + i - 1 = n + i
      BY <1>1, <3>1
    <3> QED BY <2>3, <3>1, <3>2
  <2> QED BY <2>3, <2>4, <2>5
<1> HIDE DEF w
<1>9. /\ m \in Boards /\ m.infos = given.infos /\ m.held = given.held /\ m.toWork = w /\ m.fed = s.fed
      /\ m.decoder = s.decoder /\ m.failed = s.failed /\ m.error = s.error
  BY <1>5, <1>6, <1>7, <1>8 DEF Boards
<1>10. Ids(m) = Ids(given) /\ \A o : OwnedBy(m, o) = OwnedBy(given, o)
  BY <1>9 DEF Ids, OwnedBy
<1>11. Leaves(s, m)
  BY <1>3, <1>5, <1>7, <1>9, <1>10 DEF Leaves
<1>12. s.toWork = <<>> => m.toWork = <<>>
  <2>1. ASSUME q = <<>> PROVE w = <<>>
    <3>1. Len(w) = 0
      BY <1>1, <1>8, <2>1
    <3> QED BY <1>8, <3>1, EmptySeq
  <2> QED BY <1>9, <2>1 DEF q
<1>13. ASSUME HeldBy(s), Queued(s)
       PROVE  /\ Stays(s, m) /\ HeldBy(m) /\ Queued(m) /\ m.held \subseteq s.held \cup OwnedBy(s, "component")
              /\ OwnedBy(s, "accelerator") \subseteq OwnedBy(m, "accelerator")
  <2>1. \A i \in 1 .. Len(q) : q[i] \in OwnedBy(s, "component") /\ \A j \in 1 .. Len(q) : q[i] = q[j] => i = j
    BY <1>13 DEF Queued
  <2>2. front \subseteq OwnedBy(s, "component") /\ \A i \in 1 .. Len(q) : q[i] \in front => i <= n
    <3>1. \A x \in front : \E j \in 1 .. n : x = q[j]
      BY DEF front, IdsIn
    <3>2. \A j \in 1 .. n : j \in 1 .. Len(q) /\ j <= n
      BY <1>1
    <3>3. ASSUME NEW i \in 1 .. Len(q), q[i] \in front PROVE i <= n
      <4>1. PICK j \in 1 .. n : q[i] = q[j]
        BY <3>1, <3>3
      <4>2. i = j
        BY <2>1, <3>2, <4>1
      <4> QED BY <3>2, <4>2
    <3> QED BY <2>1, <3>1, <3>2, <3>3
  <2>3. \A x : x \in OwnedBy(s, "component") => x \notin OwnedBy(s, "accelerator") /\ x \notin OwnedBy(s, "client")
    BY DEF OwnedBy
  <2>4. gone \subseteq front /\ back \subseteq front /\ front \subseteq gone \cup back
    BY <1>2 DEF gone
  <2>5. /\ OwnedBy(s, "client") \subseteq OwnedBy(m, "client")
        /\ OwnedBy(s, "accelerator") \subseteq OwnedBy(m, "accelerator")
        /\ OwnedBy(s, "component") \ front \subseteq OwnedBy(m, "component")
        /\ back \subseteq OwnedBy(m, "accelerator")
    BY <1>3, <1>5, <1>10, <2>2, <2>3, <2>4
  <2>6. HeldBy(m)
    <3> SUFFICES ASSUME NEW id \in m.held PROVE id \in OwnedBy(m, "accelerator") /\ m.infos[id].fdSet
      BY DEF HeldBy
    <3>1. id \in s.held \/ id \in back
      BY <1>3, <1>5, <1>9
    <3>2. CASE id \in back
      BY <1>4, <1>5, <1>9, <2>5, <3>2
    <3>3. CASE id \in s.held
      <4>1. id \in OwnedBy(s, "accelerator") /\ s.infos[id].fdSet
        BY <1>13, <3>3 DEF HeldBy
      <4>2. id \in Ids(s)
        BY <4>1 DEF OwnedBy
      <4> QED BY <1>3, <1>5, <1>9, <2>5, <4>1, <4>2
    <3> QED BY <3>1, <3>2, <3>3
  <2>7. Queued(m)
    <3>1. ASSUME NEW i \in 1 .. Len(w)
          PROVE  w[i] \in OwnedBy(m, "component") /\ \A j \in 1 .. Len(w) : w[i] = w[j] => i = j
      <4>1. w[i] = q[n + i] /\ n + i \in 1 .. Len(q) /\ i \in Int /\ i >= 1
        BY <1>8
      <4>2. w[i] \notin front
        BY <1>1, <2>2, <4>1
      <4>3. w[i] \in OwnedBy(s, "component")
        BY <2>1, <4>1
      <4>4. ASSUME NEW j \in 1 .. Len(w), w[i] = w[j] PROVE i = j
        <5>1. w[j] = q[n + j] /\ n + j \in 1 .. Len(q) /\ j \in Int
          BY <1>8
        <5>2. n + i = n + j
          BY <2>1, <4>1, <4>4, <5>1
        <5> QED BY <1>1, <4>1, <5>1, <5>2
      <4> QED BY <2>5, <4>2, <4>3, <4>4
    <3> QED BY <1>9, <3>1 DEF Queued
  <2>8. m.held \subseteq s.held \cup OwnedBy(s, "component")
    BY <1>3, <1>5, <1>9, <2>2, <2>4
  <2> QED BY <1>11, <2>5, <2>6, <2>7, <2>8 DEF Stays
<1> QED BY <1>9, <1>11, <1>12, <1>13 DEF Sends, m

\* A flag set afterwards is no matter.
LEMMA SendsQuiet ==
  ASSUME NEW s, NEW m, NEW u, Sends(s, m), Quiet(m, u), u \in Boards, u.fed = m.fed
  PROVE  Sends(s, u)
<1>1. Stays(m, u) /\ Leaves(m, u)
  BY QuietHeld DEF Stays
<1>2. Leaves(s, u)
  BY <1>1, LeavesTwice DEF Sends
<1>3. s.toWork = <<>> => u.toWork = <<>>
  BY DEF Sends, Quiet
<1>4. ASSUME HeldBy(s), Queued(s)
      PROVE  /\ Stays(s, u) /\ HeldBy(u) /\ Queued(u) /\ u.held \subseteq s.held \cup OwnedBy(s, "component")
             /\ OwnedBy(s, "accelerator") \subseteq OwnedBy(u, "accelerator")
  <2>1. /\ Stays(s, m) /\ HeldBy(m) /\ Queued(m) /\ m.held \subseteq s.held \cup OwnedBy(s, "component")
        /\ OwnedBy(s, "accelerator") \subseteq OwnedBy(m, "accelerator")
    BY <1>4 DEF Sends
  <2>2. Ids(u) = Ids(m) /\ \A o : OwnedBy(u, o) = OwnedBy(m, o)
    BY DEF Quiet, Ids, OwnedBy
  <2>3. HeldBy(u)
    BY <2>1, <2>2 DEF Quiet, HeldBy
  <2>4. Queued(u)
    <3>1. CASE u.toWork = m.toWork
      BY <2>1, <2>2, <3>1 DEF Queued
    <3>2. CASE u.toWork = <<>>
      BY <3>2 DEF Queued
    <3> QED BY <3>1, <3>2 DEF Quiet
  <2>5. Stays(s, u)
    BY <1>1, <2>1, StaysTwice
  <2> QED BY <2>1, <2>2, <2>3, <2>4, <2>5 DEF Quiet
<1> QED BY <1>2, <1>3, <1>4 DEF Sends

\* All that a step may send.
LEMMA SendingsHold ==
  ASSUME Proper(b), NEW sending \in Sendings \cup FailedSendings
  PROVE  Sends(b, sending.b)
<1>1. \A n \in Disposable(b) : n \in 0 .. Len(b.toWork)
  BY DEF Disposable
<1>2. CASE sending \in Sendings
  <2>1. PICK n \in Disposable(b) : \E back \in SUBSET IdsIn(b, n) :
          sending = [b |-> SentTo(b, n, back), out |-> IdsIn(b, n) \ back, bad |-> Cardinality(back)]
    BY <1>2 DEF Sendings
  <2>2. \A back \in SUBSET IdsIn(b, n) : Sends(b, SentTo(b, n, back))
    BY <1>1, SendingLeaves
  <2> QED BY <2>1, <2>2
<1>3. CASE sending \in FailedSendings
  <2>1. PICK n \in Disposable(b) :
          sending = [b |-> Failed(SentTo(b, n, {})), out |-> IdsIn(b, n), bad |-> 0]
    BY <1>3 DEF FailedSendings
  <2> DEFINE none == {}
             m == SentTo(b, n, none)
  <2>2. none \in SUBSET IdsIn(b, n)
    OBVIOUS
  <2> HIDE DEF none
  <2>3. Sends(b, m)
    BY <1>1, <2>2, SendingLeaves
  <2> HIDE DEF m
  <2>4. Quiet(m, Failed(m)) /\ Failed(m) \in Boards /\ Failed(m).fed = m.fed
    BY Zenon, <2>3, QuietFlags, FlagChanges DEF Sends, Keeps
  <2>5. Sends(b, Failed(m))
    BY <2>3, <2>4, SendsQuiet
  <2> QED BY <2>1, <2>5 DEF none, m
<1> QED BY <1>2, <1>3

\* A step that sends pictures out, and posts nothing of note.
LEMMA SentHolds ==
  ASSUME HeldInv, TypeInv', Sends(b, b'), Shifts(todo, todo'), at' = "idle",
         UNCHANGED <<stream, state, works, last, pending, first, client, haveFlush, reuse, formatVars,
                     poolVars, decVars>>,
         at \notin {"change", "allocate"}
  PROVE  HeldInv'
<1>1. SameDevice(device, device') /\ TypeInv
  BY Unmoved DEF HeldInv, formatVars
<1>2. client' = "woken" => client = "woken" /\ works' = <<>>
  BY DEF HeldInv, Ordered
<1>3. Passing
  BY <1>1, <1>2 DEF Passing, Sends, formatVars, poolVars, decVars
<1>4. ASSUME Sound, Sound', Tracked
      PROVE  Stays(b, b') /\ HeldOn(b, todo)' /\ (b.toWork = <<>> => b'.toWork = <<>>)
  <2>1. HeldBy(b) /\ Queued(b) /\ Shown(b, todo)
    BY <1>4 DEF Tracked, HeldOn
  <2>2. /\ Stays(b, b') /\ HeldBy(b') /\ Queued(b') /\ b'.held \subseteq b.held \cup OwnedBy(b, "component")
        /\ OwnedBy(b, "accelerator") \subseteq OwnedBy(b', "accelerator")
    BY <2>1 DEF Sends
  <2>3. \A x : x \in OwnedBy(b, "component") => x \notin OwnedBy(b, "accelerator")
    BY DEF OwnedBy
  <2>4. Shown(b', todo')
    BY <2>1, <2>2, <2>3, ShownKept
  <2> QED BY <2>2, <2>4 DEF HeldOn, Sends
<1> QED BY <1>3, <1>4, PassingKeeps

\* SendOutputBufferToWorkIfAny keeps the invariant.
LEMMA SendOutputBufferToWorkIfAnyHolds ==
  ASSUME HeldInv, SendOutputBufferToWorkIfAny
  PROVE  HeldInv'
<1>1. /\ at = "send" /\ at' = "idle"
      /\ UNCHANGED <<stream, state, works, last, pending, first, client, haveFlush, reuse, formatVars,
                     loopVars, poolVars, decVars, todo, haveDrain>>
  BY DEF SendOutputBufferToWorkIfAny
<1>2. TypeInv /\ TypeInv' /\ Proper(b)
  BY SendOutputBufferToWorkIfAnyKeeps DEF HeldInv, TypeInv, BoardOK
<1>3. Sends(b, b')
  <2>1. PICK sending \in Sendings \cup FailedSendings : b' = sending.b
    BY DEF SendOutputBufferToWorkIfAny
  <2> QED BY <1>2, <2>1, SendingsHold
<1>4. Shifts(todo, todo')
  BY <1>1, <1>2, ShiftsPosts
<1> QED BY <1>1, <1>2, <1>3, <1>4, SentHolds

\* DrainSent keeps the invariant, as a sending does.
LEMMA DrainSentHolds ==
  ASSUME HeldInv, DrainSent
  PROVE  HeldInv'
<1>1. /\ at = "drained" /\ at' = "idle"
      /\ UNCHANGED <<stream, state, works, last, pending, first, client, haveFlush, reuse, formatVars,
                     loopVars, poolVars, decVars, haveDrain>>
      /\ \E sending \in Sendings \cup FailedSendings :
           \/ b' = sending.b /\ UNCHANGED todo
           \/ b' = EosReported(sending.b) /\ todo' = Append(todo, Plain("dequeueWork"))
  BY DEF DrainSent
<1>2. TypeInv /\ TypeInv' /\ Proper(b)
  BY DrainSentKeeps DEF HeldInv, TypeInv, BoardOK
<1>3. Sends(b, b') /\ Shifts(todo, todo')
  <2>1. PICK sending \in Sendings \cup FailedSendings :
           \/ b' = sending.b /\ UNCHANGED todo
           \/ b' = EosReported(sending.b) /\ todo' = Append(todo, Plain("dequeueWork"))
    BY <1>1
  <2> DEFINE m == sending.b
  <2>2. Sends(b, m)
    BY <1>2, SendingsHold
  <2> HIDE DEF m
  <2>3. Quiet(m, EosReported(m)) /\ EosReported(m) \in Boards /\ EosReported(m).fed = m.fed
    BY Zenon, <2>2, QuietFlags, FlagChanges DEF Sends, Keeps
  <2>4. Sends(b, EosReported(m))
    BY <2>2, <2>3, SendsQuiet
  <2>5. Plain("dequeueWork") \in Tasks /\ Plain("dequeueWork").op \notin NotedOps
    BY PlainUnnoted DEF PlainOps
  <2>6. Shifts(todo, todo')
    BY <1>2, <2>1, <2>5, ShiftsPosts
  <2> QED BY <2>1, <2>2, <2>4, <2>6 DEF m
<1> QED BY <1>1, <1>2, <1>3, SentHolds

\* The tasks that are left, with one at the end that the invariant does not speak of.
LEMMA ShiftsOf ==
  ASSUME NEW q \in Seq(Tasks)
  PROVE  /\ Shifts(q, q) /\ (q # <<>> => Shifts(q, Tail(q)))
         /\ \A t \in Tasks : t.op \notin NotedOps => Shifts(q, Append(q, t))
<1>1. Follows(q, q, 0, {}) /\ (q # <<>> => Follows(q, Tail(q), 1, {}))
  BY TasksFollow
<1>2. \A t \in Tasks : Follows(q, Append(q, t), 0, {t})
  BY TasksFollow
<1>3. ASSUME NEW r, NEW k \in {0, 1}, Follows(q, r, k, {}) PROVE Shifts(q, r)
  BY <1>3 DEF Follows, Shifts
<1>4. ASSUME NEW t \in Tasks, t.op \notin NotedOps PROVE Shifts(q, Append(q, t))
  BY <1>2, <1>4 DEF Follows, Shifts
<1> QED BY <1>1, <1>3, <1>4

\* The alignment of a size depends on nothing a device changes.
LEMMA SameForced ==
  ASSUME NEW d, NEW e, SameDevice(d, e)
  PROVE  \A size : ForcedSize(e, size) = ForcedSize(d, size)
BY DEF SameDevice, ForcedSize, GetOutAlignedSize, WidthAlign

\* tryChangeOutputFormat, with a board on which the decoder waits and has nothing.
Awaits(s, rest) ==
  /\ s.decoder = "waiting" /\ s.held = {} /\ ~Has(rest, "output") /\ ~Has(rest, "formatChanged")
  /\ Queued(s) /\ BoundOn(s, rest, pool)

\* That board keeps the invariant, whether the change waits, fails or begins.
LEMMA ChangeTriedHolds ==
  ASSUME HeldInv, TypeInv', at = "idle", todo # <<>>, NEW s \in Boards,
         TryChangeOutputFormat(s, Tail(todo), pending'),
         Sized(s, device', format.size),
         b.failed => s.failed, s.error => s.failed, s.fed = b.fed, s.decoder = b.decoder, b.toWork = <<>> => s.toWork = <<>>,
         UNCHANGED <<stream, state, works, first, client, reuse, poolVars, decVars>>,
         Sound /\ Tracked => Awaits(s, Tail(todo))
  PROVE  HeldInv'
<1> DEFINE rest == Tail(todo)
<1>1. TypeInv /\ todo \in Seq(Tasks) /\ rest \in Seq(Tasks)
  BY HeadTailProperties DEF HeldInv, TypeInv, TypesOK
<1>2. Plain("tryChange") \in Tasks /\ Plain("tryChange").op \notin NotedOps
  BY PlainUnnoted DEF PlainOps
<1>3. Shifts(todo, rest) /\ Shifts(rest, rest) /\ Shifts(rest, Append(rest, Plain("tryChange")))
      /\ Shifts(todo, Append(rest, Plain("tryChange")))
  <2>1. Shifts(todo, Append(rest, Plain("tryChange")))
    <3>1. Follows(todo, Append(Tail(todo), Plain("tryChange")), 1, {Plain("tryChange")})
      BY <1>1, <1>2, TasksFollow
    <3> QED BY <1>2, <3>1 DEF Follows, Shifts
  <2> QED BY <1>1, <1>2, <2>1, ShiftsOf
<1>4. \/ /\ b' = s /\ todo' = Append(rest, Plain("tryChange")) /\ UNCHANGED <<at, last, format>>
      \/ /\ b' = Failed(s) /\ todo' = rest /\ UNCHANGED <<at, last, format>>
      \/ /\ b' = [s EXCEPT !.resCh = @ \/ first] /\ todo' = rest /\ last' = format
         /\ at' = IF first THEN "change" ELSE "allocate"
  BY DEF TryChangeOutputFormat
<1>5. pending' # {}
  BY DEF TryChangeOutputFormat
<1> HIDE DEF rest
<1>6. Shifts(todo, todo') /\ Shifts(rest, todo')
  BY <1>3, <1>4
<1>7. Quiet(s, b') /\ b'.fed = s.fed /\ b' \in Boards
  <2>1. /\ Quiet(s, s) /\ Quiet(s, Failed(s)) /\ Quiet(s, [s EXCEPT !.resCh = s.resCh \/ first])
        /\ Failed(s).fed = s.fed
    BY QuietFlags
  <2>2. [s EXCEPT !.resCh = s.resCh \/ first].fed = s.fed
    BY DEF Boards
  <2>3. b' \in Boards
    BY <1>1 DEF TypeInv, BoardOK, Proper
  <2> QED BY <1>4, <2>1, <2>2, <2>3
<1>8. at' \in {"idle", "change", "allocate"} /\ (at' = "allocate" => ~first)
  BY <1>4
<1>9. SizesCurrent'
  <2>1. Sized(b', device', format.size)
    BY <1>7 DEF Quiet, Sized, Ids
  <2>2. CASE UNCHANGED <<at, last, format>>
    BY <2>1, <2>2 DEF SizesCurrent
  <2>3. CASE last' = format /\ at' = IF first THEN "change" ELSE "allocate"
    <3>1. CASE first
      BY <2>1, <2>3, <3>1 DEF SizesCurrent
    <3>2. CASE ~first
      <4>1. Ids(b') = {}
        BY <3>2 DEF TypeInv, Empty
      <4> QED BY <4>1 DEF SizesCurrent, Sized
    <3> QED BY <3>1, <3>2
  <2> QED BY <1>4, <2>2, <2>3
<1>10. Ordered'
  <2>1. client' = "woken" => client = "woken" /\ works' = <<>>
    BY DEF HeldInv, Ordered
  <2>2. b'.error => b'.failed
    BY <1>7 DEF Quiet
  <2> QED BY <1>6, <2>1, <2>2, OrderedKept DEF HeldInv
<1>11. ASSUME Sound' PROVE Tracked'
  <2>1. Sound /\ Tracked
    <3>1. ~b.failed
      BY <1>7, <1>11 DEF Sound, Quiet
    <3> QED BY <1>11, <3>1 DEF Sound, decVars, HeldInv
  <2>2. Awaits(s, rest)
    BY <2>1 DEF rest
  <2>3. ~Has(todo', "output") /\ ~Has(todo', "formatChanged")
    <3>1. PICK k \in {0, 1} : \A i \in DOMAIN todo' : todo'[i].op \in NotedOps => i + k \in DOMAIN rest /\ todo'[i] = rest[i + k]
      BY <1>6 DEF Shifts
    <3> QED BY <2>2, <3>1 DEF Awaits, Has, NotedOps
  <2>4. Waiting'
    <3>1. b'.decoder = "waiting" /\ b'.held = {}
      BY <1>7, <2>2 DEF Quiet, Awaits
    <3>2. shown' # 0 /\ (~stream'.surface => ~first')
      <4>1. b.decoder = "waiting"
        BY <2>2 DEF Awaits
      <4> QED BY <2>1, <4>1 DEF Tracked, Waiting, decVars
    <3> QED BY <1>5, <2>3, <3>1, <3>2 DEF Waiting, Has
  <2>5. Resets'
    <3>1. b.toWork = <<>> => b'.toWork = <<>>
      BY <1>7 DEF Quiet
    <3> QED BY <1>6, <1>7, <1>8, <2>1, <3>1, ResetsKept DEF Tracked, decVars
  <2>6. HeldOn(b, todo)'
    <3>1. HeldBy(b') /\ Shown(b', todo')
      BY <1>7, <2>2, <2>3 DEF Quiet, Awaits, HeldBy, Shown, Has
    <3>2. Queued(b')
      <4>1. Ids(b') = Ids(s) /\ \A o : OwnedBy(b', o) = OwnedBy(s, o)
        BY <1>7 DEF Quiet, Ids, OwnedBy
      <4>2. CASE b'.toWork = s.toWork
        BY <2>2, <4>1, <4>2 DEF Queued, Awaits
      <4>3. CASE b'.toWork = <<>>
        BY <4>3 DEF Queued
      <4> QED BY <1>7, <4>2, <4>3 DEF Quiet
    <3> QED BY <3>1, <3>2 DEF HeldOn
  <2>7. BoundOn(b, todo, pool)'
    <3>1. Stays(s, b')
      BY <1>7, QuietHeld
    <3> QED BY <1>6, <2>2, <3>1, StaysBound DEF Awaits, poolVars
  <2> QED BY <2>4, <2>5, <2>6, <2>7 DEF Tracked
<1> QED BY <1>9, <1>10, <1>11 DEF HeldInv

\* TryChangeAgain keeps the invariant.
LEMMA TryChangeAgainHolds ==
  ASSUME HeldInv, TryChangeAgain
  PROVE  HeldInv'
<1>1. /\ at = "idle" /\ todo # <<>> /\ UNCHANGED pending
      /\ UNCHANGED <<inVars, state, works, first, client, haveFlush, reuse, device, allocLoop, tasks,
                     waiting, fetch, poolVars, decVars, haveDrain, withClient>>
  BY DEF TryChangeAgain
<1>2. TypeInv /\ TypeInv' /\ b \in Boards /\ Quiet(b, b)
  BY TryChangeAgainKeeps, Unmoved DEF HeldInv
<1>3. Shifts(todo, Tail(todo))
  BY <1>1, <1>2, ShiftsOf DEF TypeInv, TypesOK
<1>4. CASE TryChangeOutputFormat(b, Tail(todo), pending)
  <2>1. TryChangeOutputFormat(b, Tail(todo), pending')
    BY <1>1, <1>4 DEF TryChangeOutputFormat
  <2>2. Sized(b, device', format.size)
    BY <1>1 DEF HeldInv, SizesCurrent
  <2>3. b.error => b.failed
    BY DEF HeldInv, Ordered
  <2>4. ASSUME Sound, Tracked PROVE Awaits(b, Tail(todo))
    <3>1. pending # {}
      BY <1>4 DEF TryChangeOutputFormat
    <3>2. b.decoder = "waiting" /\ b.held = {} /\ ~Has(todo, "output") /\ ~Has(todo, "formatChanged")
      BY <2>4, <3>1 DEF Tracked, Waiting, Has
    <3>3. ~Has(Tail(todo), "output") /\ ~Has(Tail(todo), "formatChanged")
      BY <1>1, <1>2, <3>2, HeadTask DEF Has, TypeInv, TypesOK
    <3>4. Queued(b) /\ BoundOn(b, Tail(todo), pool)
      <4>1. Stays(b, b)
        BY <1>2, QuietHeld
      <4> QED BY <1>3, <2>4, <4>1, StaysBound DEF Tracked, HeldOn
    <3> QED BY <3>2, <3>3, <3>4 DEF Awaits
  <2>5. UNCHANGED <<stream, state, works, first, client, reuse, poolVars, decVars>>
    BY <1>1 DEF inVars
  <2> QED BY <1>1, <1>2, <2>1, <2>2, <2>3, <2>4, <2>5, ChangeTriedHolds
<1>5. CASE Takes("tryChange") /\ UNCHANGED <<at, b, last, format, changing, runLoop, pending>>
  <2>1. Quiet(b, b') /\ Leaves(b, b') /\ Shifts(todo, todo') /\ SameDevice(device, device')
    BY <1>1, <1>2, <1>3, <1>5, Unmoved DEF Takes, Stays
  <2>2. client' = "woken" => client = "woken" /\ works' = <<>>
    BY <1>1 DEF HeldInv, Ordered
  <2>3. Passing
    BY <1>1, <1>5, <2>1, <2>2 DEF Passing, inVars, poolVars, decVars
  <2> QED BY <1>2, <2>1, <2>3, QuietPassing
<1> QED BY <1>4, <1>5 DEF TryChangeAgain

\* OutputFormatChanged keeps it: a decoder that announced a format has nothing on its way.
LEMMA OutputFormatChangedHolds ==
  ASSUME HeldInv, OutputFormatChanged
  PROVE  HeldInv'
<1> DEFINE s == Moved(b, OwnedBy(b, "accelerator"), "component")
<1>1. /\ at = "idle" /\ todo # <<>> /\ Task.op = "formatChanged"
      /\ device' = Reconfigured(device) /\ TryChangeOutputFormat(s, Tail(todo), pending')
      /\ UNCHANGED <<inVars, state, works, first, client, haveFlush, reuse, allocLoop, tasks, waiting,
                     fetch, poolVars, decVars, haveDrain, withClient>>
  BY DEF OutputFormatChanged
<1>2. TypeInv /\ TypeInv' /\ b \in Boards /\ IsFiniteSet(Ids(b))
  BY OutputFormatChangedKeeps DEF HeldInv, TypeInv, BoardOK, Proper
<1>3. /\ s \in Boards /\ Ids(s) = Ids(b) /\ SameFlags(b, s) /\ s.held = b.held /\ Leaves(b, s)
      /\ OwnedBy(s, "component") = OwnedBy(b, "component") \cup OwnedBy(b, "accelerator")
      /\ OwnedBy(s, "client") = OwnedBy(b, "client") \ OwnedBy(b, "accelerator")
  <2> DEFINE ids == OwnedBy(b, "accelerator")
  <2>1. ids \in SUBSET Ids(b)
    BY DEF OwnedBy
  <2> HIDE DEF ids
  <2>2. LET m == Moved(b, ids, "component")
        IN  /\ m \in Boards /\ Ids(m) = Ids(b) /\ SameFlags(b, m) /\ m.held = b.held /\ Leaves(b, m)
            /\ OwnedBy(m, "component") = OwnedBy(b, "component") \cup ids
            /\ OwnedBy(m, "client") = OwnedBy(b, "client") \ ids
    BY <1>2, <2>1, MovedKeeps, MovesLeave DEF Owners
  <2> QED BY <2>2 DEF ids
<1>4. Stays(b, s)
  BY <1>3 DEF Stays, OwnedBy
<1> HIDE DEF s
<1>5. Sized(s, device', format.size)
  <2>1. \A size : ForcedSize(device', size) = ForcedSize(device, size)
    BY <1>1, <1>2, DeviceKept, SameForced DEF TypeInv, TypesOK
  <2> QED BY <1>1, <1>3, <2>1 DEF HeldInv, SizesCurrent, Sized, Leaves
<1>6. /\ s.decoder = b.decoder /\ s.fed = b.fed /\ s.failed = b.failed /\ s.toWork = b.toWork
      /\ s.error => s.failed
  BY <1>3 DEF SameFlags, HeldInv, Ordered
<1>7. ASSUME Sound, Tracked PROVE Awaits(s, Tail(todo))
  <2>1. /\ 1 \in DOMAIN todo /\ todo[1].op = "formatChanged"
        /\ \A i \in DOMAIN Tail(todo) : i + 1 \in DOMAIN todo /\ Tail(todo)[i] = todo[i + 1] /\ i + 1 # 1
    BY <1>1, <1>2, HeadTask DEF Task, TypeInv, TypesOK
  <2>2. /\ b.decoder = "waiting" /\ b.held = {}
        /\ \A j \in DOMAIN todo : /\ todo[j].op = "formatChanged" => 1 = j
                                  /\ todo[j].op = "output" => j < 1
    BY <1>7, <2>1 DEF Tracked, Waiting
  <2>3. \A j \in DOMAIN todo : j \in Nat /\ j >= 1
    BY <1>2, LenProperties DEF TypeInv, TypesOK
  <2>4. ~Has(Tail(todo), "output") /\ ~Has(Tail(todo), "formatChanged")
    BY <2>1, <2>2, <2>3 DEF Has
  <2>5. Queued(s)
    BY <1>3, <1>6, <1>7 DEF Tracked, HeldOn, Queued
  <2>6. BoundOn(s, Tail(todo), pool)
    <3>1. Shifts(todo, Tail(todo))
      BY <1>1, <1>2, ShiftsOf DEF TypeInv, TypesOK
    <3> QED BY <1>4, <1>7, <3>1, StaysBound DEF Tracked
  <2> QED BY <1>3, <1>6, <2>2, <2>4, <2>5, <2>6 DEF Awaits
<1>8. UNCHANGED <<stream, state, works, first, client, reuse, poolVars, decVars>>
  BY <1>1 DEF inVars
<1> QED BY <1>1, <1>2, <1>3, <1>5, <1>6, <1>7, <1>8, ChangeTriedHolds

\* A block that comes back for an id the component has is the block of that id, once.
LEMMA ComesBack ==
  ASSUME TypeInv, Tracked, todo # <<>>, Task.op = "returned", Task.id \in Ids(b)
  PROVE  /\ Task.id \in OwnedBy(b, "client") /\ b.infos[Task.id].block = Task.block
         /\ \A i \in DOMAIN Tail(todo) : Tail(todo)[i].op = "returned" => Tail(todo)[i].id # Task.id
<1>1. /\ 1 \in DOMAIN todo /\ todo[1] = Task
      /\ \A i \in DOMAIN Tail(todo) : i + 1 \in DOMAIN todo /\ Tail(todo)[i] = todo[i + 1] /\ i + 1 # 1
  BY HeadTask DEF Task, TypeInv, TypesOK
<1>2. \A i \in DOMAIN todo : todo[i].op = "returned" /\ todo[i].id \in Ids(b) =>
        todo[i].block \in DOMAIN pool /\ todo[i].id \in OwnedBy(b, "client") /\ pool[todo[i].block] = todo[i].id
  BY DEF Tracked, BoundOn, BackFrom, TypeInv, Pooled, BlockOps
<1>3. b.infos[Task.id].block \in DOMAIN pool /\ pool[b.infos[Task.id].block] = Task.id
  BY DEF Tracked, BoundOn, InPool
<1>4. Task.block \in DOMAIN pool /\ pool[Task.block] = Task.id /\ Task.id \in OwnedBy(b, "client")
  BY <1>1, <1>2
<1>5. b.infos[Task.id].block = Task.block
  BY <1>3, <1>4 DEF TypeInv, Pooled
<1>6. ASSUME NEW i \in DOMAIN Tail(todo), Tail(todo)[i].op = "returned" PROVE Tail(todo)[i].id # Task.id
  <2>1. SUFFICES ASSUME Tail(todo)[i].id = Task.id PROVE FALSE
    OBVIOUS
  <2>2. i + 1 \in DOMAIN todo /\ todo[i + 1].op = "returned" /\ todo[i + 1].id = Task.id /\ i + 1 # 1
    BY <1>1, <1>6, <2>1
  <2>3. todo[i + 1].block \in DOMAIN pool /\ pool[todo[i + 1].block] = Task.id
    BY <1>2, <2>2
  <2>4. todo[i + 1].block = todo[1].block
    BY <1>1, <1>4, <2>3 DEF TypeInv, Pooled
  <2> QED BY <1>1, <2>2, <2>4 DEF TypeInv, Pooled, BlocksApart, BlockOps
<1> QED BY <1>4, <1>5, <1>6

\* What the invariant reads of a board besides its blocks.
SameCourse(s, m) ==
  m.toWork = s.toWork /\ m.fed = s.fed /\ m.decoder = s.decoder /\ m.error = s.error /\ m.failed = s.failed

\* What onOutputBufferReturned makes of the board, before and after the decoder is given the block.
Takeback(s, m, block, id) ==
  /\ m \in Boards /\ Ids(m) = Ids(s) /\ SameCourse(s, m) /\ m.held = s.held
  /\ m.infos[id].block = block
  /\ \A i \in Ids(s) : m.infos[i].fdSet = s.infos[i].fdSet
  /\ \A i \in Ids(s) \ {id} : m.infos[i].block = s.infos[i].block
  /\ OwnedBy(m, "component") = OwnedBy(s, "component") \cup {id}
  /\ \A o \in {"client", "accelerator"} : OwnedBy(m, o) = OwnedBy(s, o) \ {id}
Giveback(s, g, id) ==
  /\ g \in Boards /\ Ids(g) = Ids(s) /\ SameCourse(s, g)
  /\ g.held = IF s.decoder = "running" THEN s.held \cup {id} ELSE s.held
  /\ \A i \in Ids(s) : /\ g.infos[i].block = s.infos[i].block
                       /\ g.infos[i].fdSet <=> i = id \/ s.infos[i].fdSet

\* The block a client gave back, taken and given to the decoder.
LEMMA ReusedBoard ==
  ASSUME NEW s \in Boards, IsFiniteSet(Ids(s)), NEW id \in Ids(s), NEW block \in Blocks
  PROVE  LET m == Returned(s, block, id)
             g == Reused(m, id)
         IN  /\ Takeback(s, m, block, id) /\ Giveback(m, g, id)
             /\ id \notin IdsIn(m, Len(m.toWork)) =>
                  /\ OwnedBy(g, "accelerator") = OwnedBy(m, "accelerator") \cup {id}
                  /\ \A o \in {"client", "component"} : OwnedBy(g, o) = OwnedBy(m, o) \ {id}
<1> DEFINE m == Returned(s, block, id)
           ids == {id}
           g == Reused(m, id)
<1>1. Takeback(s, m, block, id)
  <2>1. /\ Keeps(s, m) /\ SameFlags(s, m) /\ m.held = s.held
        /\ m.infos[id].block = block /\ m.infos[id].fdSet = s.infos[id].fdSet
        /\ \A i \in Ids(s) \ {id} : /\ m.infos[i].block = s.infos[i].block
                                    /\ m.infos[i].fdSet = s.infos[i].fdSet
        /\ OwnedBy(m, "component") = OwnedBy(s, "component") \cup {id}
        /\ \A o \in {"client", "accelerator"} : OwnedBy(m, o) = OwnedBy(s, o) \ {id}
    BY ReturnedKeeps
  <2> HIDE DEF m
  <2>2. \A i \in Ids(s) : m.infos[i].fdSet = s.infos[i].fdSet
    <3> SUFFICES ASSUME NEW i \in Ids(s) PROVE m.infos[i].fdSet = s.infos[i].fdSet
      OBVIOUS
    <3>1. CASE i = id
      BY <2>1, <3>1
    <3>2. CASE i # id
      BY <2>1, <3>2
    <3> QED BY <3>1, <3>2
  <2>3. m \in Boards /\ Ids(m) = Ids(s)
    BY <2>1 DEF Keeps
  <2> QED BY <2>1, <2>2, <2>3 DEF Takeback, SameCourse, SameFlags
<1> HIDE DEF m
<1>2. m \in Boards /\ IsFiniteSet(Ids(m)) /\ ids \in SUBSET Ids(m)
  BY <1>1 DEF Takeback
<1>3. \A i : i \in ids <=> i = id
  OBVIOUS
<1>4. g = IF id \in IdsIn(m, Len(m.toWork)) THEN Sent(m, ids) ELSE Given(m, ids)
  BY DEF Reused
<1> HIDE DEF ids, g
<1>5. CASE id \in IdsIn(m, Len(m.toWork))
  <2>1. /\ g \in Boards /\ Ids(g) = Ids(m) /\ SameFlags(m, g)
        /\ g.held = IF m.decoder = "running" THEN m.held \cup ids ELSE m.held
        /\ \A i \in Ids(m) : /\ g.infos[i].block = m.infos[i].block
                             /\ g.infos[i].fdSet <=> i \in ids \/ m.infos[i].fdSet
    BY <1>2, <1>4, <1>5, SentKeeps
  <2>2. Giveback(m, g, id)
    BY <1>3, <2>1 DEF Giveback, SameCourse, SameFlags, ids
  <2> QED BY <1>1, <1>5, <2>2 DEF m, g
<1>6. CASE id \notin IdsIn(m, Len(m.toWork))
  <2>0. LET h == Given(m, ids)
        IN  /\ h \in Boards /\ Ids(h) = Ids(m) /\ SameFlags(m, h)
            /\ h.held = IF m.decoder = "running" THEN m.held \cup ids ELSE m.held
            /\ \A i \in Ids(m) : /\ h.infos[i].block = m.infos[i].block
                                 /\ h.infos[i].fdSet <=> i \in ids \/ m.infos[i].fdSet
            /\ OwnedBy(h, "accelerator") = OwnedBy(m, "accelerator") \cup ids
            /\ \A o \in {"client", "component"} : OwnedBy(h, o) = OwnedBy(m, o) \ ids
    BY <1>2, GivenKeeps
  <2>1. /\ g \in Boards /\ Ids(g) = Ids(m) /\ SameFlags(m, g)
        /\ g.held = IF m.decoder = "running" THEN m.held \cup ids ELSE m.held
        /\ \A i \in Ids(m) : /\ g.infos[i].block = m.infos[i].block
                             /\ g.infos[i].fdSet <=> i \in ids \/ m.infos[i].fdSet
        /\ OwnedBy(g, "accelerator") = OwnedBy(m, "accelerator") \cup ids
        /\ \A o \in {"client", "component"} : OwnedBy(g, o) = OwnedBy(m, o) \ ids
    <3>1. g = Given(m, ids)
      BY <1>4, <1>6
    <3> QED BY <2>0, <3>1
  <2>2. Giveback(m, g, id)
    BY <1>3, <2>1 DEF Giveback, SameCourse, SameFlags, ids
  <2> QED BY <1>1, <2>1, <2>2 DEF m, g, ids
<1> QED BY <1>5, <1>6

\* The block of a known id that came back is given to the decoder, or waits for the change of format.
LEMMA TakebackHeld ==
  ASSUME TypeInv, Tracked, todo # <<>>, Task.op = "returned", Task.id \in Ids(b),
         NEW m, Takeback(b, m, Task.block, Task.id)
  PROVE  /\ Task.id \in OwnedBy(b, "client") /\ Task.id \notin IdsIn(m, Len(m.toWork))
         /\ Queued(m) /\ BoundOn(m, Tail(todo), pool)
<1> DEFINE id == Task.id
           block == Task.block
<1>0. Takeback(b, m, block, id)
  OBVIOUS
<1>1. /\ id \in OwnedBy(b, "client") /\ b.infos[id].block = block
      /\ \A i \in DOMAIN Tail(todo) : Tail(todo)[i].op = "returned" => Tail(todo)[i].id # id
  BY ComesBack
<1> HIDE DEF id, block
<1>2. /\ Ids(m) = Ids(b) /\ SameCourse(b, m) /\ m.held = b.held /\ m.infos[id].block = block
      /\ \A i \in Ids(b) \ {id} : m.infos[i].block = b.infos[i].block
      /\ OwnedBy(m, "component") = OwnedBy(b, "component") \cup {id}
      /\ OwnedBy(m, "client") = OwnedBy(b, "client") \ {id}
  BY <1>0 DEF Takeback
<1>3. id \notin OwnedBy(b, "component") /\ id \notin OwnedBy(b, "accelerator")
  BY <1>1 DEF OwnedBy
<1>4. m.toWork = b.toWork
  BY <1>2 DEF SameCourse
<1>5. Queued(b) /\ BoundOn(b, todo, pool)
  BY DEF Tracked, HeldOn
<1>6. \A i \in 1 .. Len(b.toWork) : b.toWork[i] # id
  BY <1>3, <1>5 DEF Queued
<1>7. id \notin IdsIn(m, Len(m.toWork))
  BY <1>4, <1>6 DEF IdsIn
<1>8. Queued(m)
  BY <1>2, <1>4, <1>5 DEF Queued
<1>9. InPool(m, pool)
  <2>1. \A i \in Ids(b) : m.infos[i].block = b.infos[i].block
    BY <1>1, <1>2
  <2> QED BY <1>2, <1>5, <2>1 DEF BoundOn, InPool
<1>10. BackFrom(m, Tail(todo), pool)
  <2>1. Shifts(todo, Tail(todo))
    BY ShiftsOf DEF TypeInv, TypesOK
  <2> QED BY <1>1, <1>2, <1>5, <2>1, BackKept DEF BoundOn
<1> QED BY <1>1, <1>7, <1>8, <1>9, <1>10 DEF BoundOn, id

\* The decoder is given a block that came back.
LEMMA ReturnedHeld ==
  ASSUME HeldInv, TypeInv', NEW m, NEW id, id = Task.id, Takeback(b, m, Task.block, id), Giveback(m, b', id),
         id \notin IdsIn(m, Len(m.toWork)) =>
           /\ OwnedBy(b', "accelerator") = OwnedBy(m, "accelerator") \cup {id}
           /\ \A o \in {"client", "component"} : OwnedBy(b', o) = OwnedBy(m, o) \ {id},
         at = "idle", at' = "send", todo # <<>>, Task.op = "returned", id \in Ids(b), todo' = Tail(todo),
         FitsReturned(Task.block), pending = {},
         UNCHANGED <<stream, state, works, last, format, pending, first, client, reuse, device, poolVars, decVars>>
  PROVE  HeldInv'
<1>1. TypeInv /\ Shifts(todo, todo')
  BY ShiftsOf DEF HeldInv, TypeInv, TypesOK
<1>2. /\ Ids(b') = Ids(b) /\ b'.infos[id].block = Task.block
      /\ \A i \in Ids(b) \ {id} : b'.infos[i].block = b.infos[i].block
      /\ b'.held = IF b.decoder = "running" THEN b.held \cup {id} ELSE b.held
      /\ \A i \in Ids(b) : b'.infos[i].fdSet <=> i = id \/ b.infos[i].fdSet
  <2>1. m.decoder = b.decoder
    BY DEF Takeback, SameCourse
  <2>2. Ids(m) = Ids(b) /\ Ids(b') = Ids(m) /\ m.held = b.held /\ id \in Ids(m)
    BY DEF Takeback, Giveback
  <2>3. b'.held = IF b.decoder = "running" THEN b.held \cup {id} ELSE b.held
    BY <2>1, <2>2 DEF Giveback
  <2>4. \A i \in Ids(b) : b'.infos[i].fdSet <=> i = id \/ b.infos[i].fdSet
    BY <2>2 DEF Takeback, Giveback
  <2> QED BY <2>2, <2>3, <2>4 DEF Takeback, Giveback
<1>3. /\ b'.toWork = b.toWork /\ b'.fed = b.fed /\ b'.decoder = b.decoder /\ b'.error = b.error
      /\ b'.failed = b.failed /\ m.toWork = b.toWork
  BY DEF Takeback, Giveback, SameCourse
<1>4. SizesCurrent'
  <2>1. \A i \in Ids(b) : SizeOf(b'.infos[i].block) \in {format.size, ForcedSize(device, format.size)}
    <3> SUFFICES ASSUME NEW i \in Ids(b)
                 PROVE  SizeOf(b'.infos[i].block) \in {format.size, ForcedSize(device, format.size)}
      OBVIOUS
    <3>1. CASE i = id
      BY <1>2, <3>1 DEF FitsReturned
    <3>2. CASE i # id
      BY <1>2, <3>2 DEF HeldInv, SizesCurrent, Sized
    <3> QED BY <3>1, <3>2
  <2> QED BY <1>2, <2>1 DEF SizesCurrent, Sized
<1>5. Ordered'
  <2>1. client' = "woken" => client = "woken" /\ works' = <<>>
    BY DEF HeldInv, Ordered
  <2>2. b'.error => b'.failed
    BY <1>3 DEF HeldInv, Ordered
  <2> QED BY <1>1, <2>1, <2>2, OrderedKept DEF HeldInv
<1>6. ASSUME Sound' PROVE Tracked'
  <2>1. Sound /\ Tracked
    BY <1>3, <1>6 DEF Sound, HeldInv, decVars
  <2>2. /\ id \in OwnedBy(b, "client") /\ id \notin IdsIn(m, Len(m.toWork))
        /\ Queued(m) /\ BoundOn(m, Tail(todo), pool)
    BY <1>1, <2>1, TakebackHeld
  <2>3. id \notin OwnedBy(b, "component") /\ id \notin OwnedBy(b, "accelerator")
    BY <2>2 DEF OwnedBy
  <2>4. /\ OwnedBy(b', "accelerator") = OwnedBy(b, "accelerator") \cup {id}
        /\ OwnedBy(b', "component") = OwnedBy(b, "component")
        /\ OwnedBy(b', "client") = OwnedBy(b, "client") \ {id}
    <3>1. /\ OwnedBy(b', "accelerator") = OwnedBy(m, "accelerator") \cup {id}
          /\ OwnedBy(b', "component") = OwnedBy(m, "component") \ {id}
          /\ OwnedBy(b', "client") = OwnedBy(m, "client") \ {id}
      BY <2>2
    <3>2. /\ OwnedBy(m, "component") = OwnedBy(b, "component") \cup {id}
          /\ OwnedBy(m, "accelerator") = OwnedBy(b, "accelerator") \ {id}
          /\ OwnedBy(m, "client") = OwnedBy(b, "client") \ {id}
      BY DEF Takeback
    <3>3. \A C, D, E, x : x \notin C /\ D = C \cup {x} /\ E = D \ {x} => E = C
      OBVIOUS
    <3>4. \A C, x : (C \ {x}) \cup {x} = C \cup {x} /\ (C \ {x}) \ {x} = C \ {x}
      OBVIOUS
    <3>5. OwnedBy(b', "component") = OwnedBy(b, "component")
      BY <2>3, <3>1, <3>2, <3>3, Zenon
    <3>6. /\ OwnedBy(b', "accelerator") = OwnedBy(b, "accelerator") \cup {id}
          /\ OwnedBy(b', "client") = OwnedBy(b, "client") \ {id}
      BY <3>1, <3>2, <3>4
    <3> QED BY <3>5, <3>6
  <2>5. HeldBy(b')
    <3> SUFFICES ASSUME NEW i \in b'.held PROVE i \in OwnedBy(b', "accelerator") /\ b'.infos[i].fdSet
      BY DEF HeldBy
    <3>1. CASE i = id
      BY <1>2, <2>4, <3>1
    <3>2. CASE i # id
      <4>1. i \in b.held
        BY <1>2, <3>2
      <4>2. i \in OwnedBy(b, "accelerator") /\ b.infos[i].fdSet /\ i \in Ids(b)
        BY <2>1, <4>1 DEF Tracked, HeldOn, HeldBy, OwnedBy
      <4> QED BY <1>2, <2>4, <4>2
    <3> QED BY <3>1, <3>2
  <2>6. Shown(b', todo')
    <3>1. \A i : i \in OwnedBy(b, "accelerator") /\ i \notin b.held => i \in OwnedBy(b', "accelerator") /\ i \notin b'.held
      BY <1>2, <2>3, <2>4
    <3> QED BY <1>1, <2>1, <3>1, ShownKept DEF Tracked, HeldOn
  <2>7. Queued(b')
    BY <1>3, <2>1, <2>4 DEF Queued, Tracked, HeldOn
  <2>8. BoundOn(b, todo, pool)'
    <3>1. \A i \in DOMAIN todo' : todo'[i].op = "returned" => todo'[i].id # id
      BY <1>1, <2>1, ComesBack
    <3>2. BackFrom(b', todo', pool)
      BY <1>1, <1>2, <2>1, <2>4, <3>1, BackKept DEF BoundOn, Tracked
    <3>3. InPool(b', pool)
      <4>1. Task.block = m.infos[id].block /\ Ids(m) = Ids(b)
        BY DEF Takeback
      <4>2. \A i \in Ids(b) : b'.infos[i].block = m.infos[i].block
        BY <4>1 DEF Giveback
      <4> QED BY <1>2, <2>2, <4>1, <4>2 DEF InPool, BoundOn
    <3> QED BY <3>2, <3>3 DEF BoundOn, poolVars
  <2>9. Waiting'
    <3>1. b.decoder # "running" => b'.held = {}
      BY <1>2, <2>1 DEF Tracked, Waiting
    <3>2. at' \in {"change", "allocate"} => pending' # {}
      OBVIOUS
    <3> QED BY <1>1, <1>3, <2>1, <3>1, <3>2, WaitingKept DEF Tracked, decVars
  <2>10. Resets'
    BY <1>1, <1>3, <2>1, ResetsKept DEF Tracked, decVars
  <2> QED BY <2>5, <2>6, <2>7, <2>8, <2>9, <2>10 DEF Tracked, HeldOn
<1> QED BY <1>4, <1>5, <1>6 DEF HeldInv

\* OutputBufferReturned keeps the invariant.
LEMMA OutputBufferReturnedHolds ==
  ASSUME HeldInv, OutputBufferReturned
  PROVE  HeldInv'
<1> DEFINE block == Task.block
           id == Task.id
           taken == FitsReturned(block) /\ ~haveDrain
           known == taken /\ id \in Ids(b)
           r == Returned(Noted(b), block, id)
           e == [b EXCEPT !.slot = {block}]
<1>1. /\ at = "idle" /\ todo # <<>> /\ Task.op = "returned"
      /\ UNCHANGED <<stream, state, works, first, client, reuse, device, poolVars, decVars>>
      /\ UNCHANGED pending
  BY DEF OutputBufferReturned, inVars
<1>2. \/ /\ Takes("returned") /\ UNCHANGED <<at, last, format>>
         /\ b' \in {b, Failed(Noted(b)), Failed(b), e}
      \/ known /\ TryChangeOutputFormat(r, Tail(todo), pending)
      \/ /\ known /\ pending = {} /\ Takes("returned") /\ b' = Reused(r, id) /\ at' = "send"
         /\ UNCHANGED <<last, format>>
  BY DEF OutputBufferReturned
<1>3. TypeInv /\ TypeInv' /\ b \in Boards /\ IsFiniteSet(Ids(b)) /\ Shifts(todo, Tail(todo))
  BY <1>1, OutputBufferReturnedKeeps, ShiftsOf DEF HeldInv, TypeInv, TypesOK, BoardOK, Proper
<1>4. block \in Blocks
  <2>1. Task \in Tasks
    BY <1>1, <1>3, HeadTask DEF TypeInv, TypesOK, Task
  <2> QED BY <1>1, <2>1 DEF Tasks, PlainOps, BlockOps
<1>5. /\ Noted(b) \in Boards /\ Noted(b).infos = b.infos /\ Noted(b).held = b.held /\ Ids(Noted(b)) = Ids(b)
      /\ SameCourse(b, Noted(b)) /\ \A o : OwnedBy(Noted(b), o) = OwnedBy(b, o)
  <2>1. /\ Noted(b) \in Boards /\ Noted(b).infos = b.infos /\ Noted(b).held = b.held
        /\ SameCourse(b, Noted(b))
    BY <1>3 DEF Noted, Boards, IsChanged, SameCourse
  <2> QED BY <2>1 DEF Ids, OwnedBy
<1>6. ASSUME known
      PROVE  /\ Takeback(b, r, block, id) /\ Giveback(r, Reused(r, id), id)
             /\ id \notin IdsIn(r, Len(r.toWork)) =>
                  /\ OwnedBy(Reused(r, id), "accelerator") = OwnedBy(r, "accelerator") \cup {id}
                  /\ \A o \in {"client", "component"} : OwnedBy(Reused(r, id), o) = OwnedBy(r, o) \ {id}
  <2> DEFINE s == Noted(b)
  <2>1. s \in Boards /\ IsFiniteSet(Ids(s)) /\ id \in Ids(s)
    BY <1>3, <1>5, <1>6
  <2> HIDE DEF s, id, block
  <2>2. LET m == Returned(s, block, id)
            g == Reused(m, id)
        IN  /\ Takeback(s, m, block, id) /\ Giveback(m, g, id)
            /\ id \notin IdsIn(m, Len(m.toWork)) =>
                 /\ OwnedBy(g, "accelerator") = OwnedBy(m, "accelerator") \cup {id}
                 /\ \A o \in {"client", "component"} : OwnedBy(g, o) = OwnedBy(m, o) \ {id}
    BY <1>4, <2>1, ReusedBoard
  <2>3. r = Returned(s, block, id)
    BY DEF s, id, block
  <2> HIDE DEF r
  <2>4. Takeback(s, r, block, id)
    BY <2>2, <2>3
  <2>5. Takeback(b, r, block, id)
    BY <1>5, <2>4 DEF Takeback, SameCourse, s
  <2> QED BY <2>2, <2>3, <2>5
<1>7. Quiet(b, Failed(Noted(b))) /\ Quiet(b, Failed(b)) /\ Quiet(b, e) /\ Quiet(b, b)
      /\ \A m \in {b, Failed(Noted(b)), Failed(b), e} : m.fed = b.fed
  <2>1. Failed(Noted(b)).fed = b.fed /\ Failed(b).fed = b.fed /\ e.fed = b.fed
    <3>1. Failed(b).fed = b.fed /\ e.fed = b.fed
      BY <1>3, QuietFlags DEF Boards
    <3>2. Failed(Noted(b)).fed = Noted(b).fed /\ Noted(b).fed = b.fed
      BY <1>3, <1>5, QuietFlags
    <3> QED BY <3>1, <3>2
  <2>2. Quiet(b, Failed(b)) /\ Quiet(b, e) /\ Quiet(b, b)
    BY <1>3, QuietFlags
  <2>3. Quiet(Noted(b), Failed(Noted(b)))
    BY <1>5, QuietFlags
  <2>4. Quiet(b, Failed(Noted(b)))
    BY <1>5, <2>3 DEF Quiet, SameCourse
  <2> QED BY <2>1, <2>2, <2>4
<1> HIDE DEF r, e
<1>8. CASE Takes("returned") /\ UNCHANGED <<at, last, format>> /\ b' \in {b, Failed(Noted(b)), Failed(b), e}
  <2>1. Quiet(b, b') /\ b'.fed = b.fed /\ Leaves(b, b') /\ Shifts(todo, todo') /\ SameDevice(device, device')
    BY <1>1, <1>3, <1>7, <1>8, QuietHeld, Unmoved DEF Takes, Stays
  <2>2. client' = "woken" => client = "woken" /\ works' = <<>>
    BY <1>1 DEF HeldInv, Ordered
  <2>3. Passing
    BY <1>1, <1>8, <2>1, <2>2 DEF Passing, poolVars, decVars
  <2> QED BY <1>3, <2>1, <2>3, QuietPassing
<1>9. CASE known /\ TryChangeOutputFormat(r, Tail(todo), pending)
  <2>1. TryChangeOutputFormat(r, Tail(todo), pending')
    BY <1>1, <1>9 DEF TryChangeOutputFormat
  <2>2. Takeback(b, r, block, id)
    BY <1>6, <1>9
  <2>3. Sized(r, device', format.size)
    <3>1. \A i \in Ids(b) : SizeOf(r.infos[i].block) \in {format.size, ForcedSize(device, format.size)}
      <4> SUFFICES ASSUME NEW i \in Ids(b)
                   PROVE  SizeOf(r.infos[i].block) \in {format.size, ForcedSize(device, format.size)}
        OBVIOUS
      <4>1. CASE i = id
        BY <1>9, <2>2, <4>1 DEF FitsReturned, Takeback
      <4>2. CASE i # id
        BY <1>1, <2>2, <4>2 DEF HeldInv, SizesCurrent, Sized, Takeback
      <4> QED BY <4>1, <4>2
    <3> QED BY <1>1, <2>2, <3>1 DEF Sized, Takeback
  <2>4. /\ r \in Boards /\ r.toWork = b.toWork /\ r.fed = b.fed /\ r.decoder = b.decoder /\ r.error = b.error
        /\ r.failed = b.failed /\ r.held = b.held
    BY <2>2 DEF Takeback, SameCourse
  <2>5. b.error => b.failed
    BY DEF HeldInv, Ordered
  <2>6. ASSUME Sound, Tracked PROVE Awaits(r, Tail(todo))
    <3>1. pending # {}
      BY <1>9 DEF TryChangeOutputFormat
    <3>2. b.decoder = "waiting" /\ b.held = {} /\ ~Has(todo, "output") /\ ~Has(todo, "formatChanged")
      BY <2>6, <3>1 DEF Tracked, Waiting, Has
    <3>3. ~Has(Tail(todo), "output") /\ ~Has(Tail(todo), "formatChanged")
      BY <1>1, <1>3, <3>2, HeadTask DEF Has, TypeInv, TypesOK
    <3>4. Queued(r) /\ BoundOn(r, Tail(todo), pool)
      BY <1>1, <1>3, <1>9, <2>2, <2>6, TakebackHeld
    <3> QED BY <2>4, <3>2, <3>3, <3>4 DEF Awaits
  <2>7. UNCHANGED <<stream, state, works, first, client, reuse, poolVars, decVars>>
    BY <1>1
  <2> QED BY <1>1, <1>3, <2>1, <2>3, <2>4, <2>5, <2>6, <2>7, ChangeTriedHolds
<1>10. CASE /\ known /\ pending = {} /\ Takes("returned") /\ b' = Reused(r, id) /\ at' = "send"
            /\ UNCHANGED <<last, format>>
  <2>1. /\ Takeback(b, r, block, id) /\ Giveback(r, b', id)
        /\ id \notin IdsIn(r, Len(r.toWork)) =>
             /\ OwnedBy(b', "accelerator") = OwnedBy(r, "accelerator") \cup {id}
             /\ \A o \in {"client", "component"} : OwnedBy(b', o) = OwnedBy(r, o) \ {id}
    BY <1>6, <1>10
  <2>2. /\ UNCHANGED <<stream, state, works, last, format, pending, first, client, reuse, device, poolVars, decVars>>
        /\ todo' = Tail(todo)
    BY <1>1, <1>10 DEF Takes
  <2> QED BY <1>1, <1>3, <1>10, <2>1, <2>2, ReturnedHeld
<1> QED BY <1>2, <1>8, <1>9, <1>10

\* A board that was noted, and one that failed then.
LEMMA QuietNoted ==
  ASSUME NEW s \in Boards
  PROVE  /\ Noted(s) \in Boards /\ Noted(s).infos = s.infos /\ Noted(s).held = s.held /\ Ids(Noted(s)) = Ids(s)
         /\ SameCourse(s, Noted(s)) /\ \A o : OwnedBy(Noted(s), o) = OwnedBy(s, o)
         /\ Quiet(s, Noted(s)) /\ Quiet(s, Failed(Noted(s))) /\ Quiet(s, Failed(s)) /\ Quiet(s, s)
         /\ Noted(s).fed = s.fed /\ Failed(Noted(s)).fed = s.fed /\ Failed(s).fed = s.fed
<1>1. /\ Noted(s) \in Boards /\ Noted(s).infos = s.infos /\ Noted(s).held = s.held
      /\ SameCourse(s, Noted(s))
  BY DEF Noted, Boards, IsChanged, SameCourse
<1>2. Ids(Noted(s)) = Ids(s) /\ \A o : OwnedBy(Noted(s), o) = OwnedBy(s, o)
  BY <1>1 DEF Ids, OwnedBy
<1>3. Quiet(s, Noted(s)) /\ Quiet(s, Failed(s)) /\ Quiet(s, s) /\ Failed(s).fed = s.fed /\ Noted(s).fed = s.fed
  BY QuietFlags
<1>4. Quiet(Noted(s), Failed(Noted(s))) /\ Failed(Noted(s)).fed = s.fed
  BY <1>1, <1>3, QuietFlags
<1>5. Quiet(s, Failed(Noted(s)))
  BY <1>1, <1>4 DEF Quiet, SameCourse
<1> QED BY <1>1, <1>2, <1>3, <1>4, <1>5

\* The board with a new block, which the decoder is given.
Extended(s, g, block, id) ==
  /\ Ids(g) = Ids(s) \cup {id} /\ SameCourse(s, g) /\ g.infos[id].block = block /\ g.infos[id].fdSet
  /\ g.held = IF s.decoder = "running" THEN s.held \cup {id} ELSE s.held
  /\ \A i \in Ids(s) : g.infos[i].block = s.infos[i].block /\ g.infos[i].fdSet = s.infos[i].fdSet
  /\ OwnedBy(g, "accelerator") = OwnedBy(s, "accelerator") \cup {id}
  /\ OwnedBy(g, "component") = OwnedBy(s, "component")
  /\ OwnedBy(g, "client") = OwnedBy(s, "client")

\* appendOutputBuffer and sendOutputBufferToAccelerator give such a board.
LEMMA ExtendedBoard ==
  ASSUME NEW s \in Boards, IsFiniteSet(Ids(s)), NEW id \in Nat, id \notin Ids(s), NEW block \in Blocks
  PROVE  Extended(s, Given(Appended(s, block, id), {id}), block, id)
<1> DEFINE a == Appended(s, block, id)
           ids == {id}
           g == Given(a, ids)
<1>1. /\ a \in Boards /\ Ids(a) = Ids(s) \cup {id} /\ IsFiniteSet(Ids(a)) /\ SameFlags(s, a)
      /\ a.held = s.held /\ \A i \in Ids(s) : a.infos[i] = s.infos[i]
  BY AppendedKeeps
<1>2. /\ a.infos[id] = [block |-> block, owner |-> "component", fdSet |-> FALSE]
      /\ OwnedBy(a, "component") = OwnedBy(s, "component") \cup {id}
      /\ OwnedBy(a, "client") = OwnedBy(s, "client") /\ OwnedBy(a, "accelerator") = OwnedBy(s, "accelerator")
  BY AppendedKeeps
<1>3. a.infos[id].block = block
  BY <1>2
<1> HIDE DEF a
<1>4. ids \in SUBSET Ids(a) /\ \A i : i \in ids <=> i = id
  BY <1>1
<1> HIDE DEF ids
<1>5. /\ Ids(g) = Ids(a) /\ SameFlags(a, g)
      /\ g.held = IF a.decoder = "running" THEN a.held \cup ids ELSE a.held
      /\ \A i \in Ids(a) : /\ g.infos[i].block = a.infos[i].block
                           /\ g.infos[i].fdSet <=> i \in ids \/ a.infos[i].fdSet
      /\ g \in Boards
      /\ OwnedBy(g, "accelerator") = OwnedBy(a, "accelerator") \cup ids
      /\ OwnedBy(g, "component") = OwnedBy(a, "component") \ ids
      /\ OwnedBy(g, "client") = OwnedBy(a, "client") \ ids
  BY <1>1, <1>4, GivenKeeps
<1> HIDE DEF g
<1>6. SameCourse(s, g) /\ a.decoder = s.decoder
  BY <1>1, <1>5 DEF SameFlags, SameCourse
<1>7. \A i \in Ids(s) : g.infos[i].block = s.infos[i].block /\ g.infos[i].fdSet = s.infos[i].fdSet
  <2> SUFFICES ASSUME NEW i \in Ids(s)
               PROVE  g.infos[i].block = s.infos[i].block /\ g.infos[i].fdSet = s.infos[i].fdSet
    OBVIOUS
  <2>1. i \in Ids(g) /\ i \in Ids(a) /\ i # id /\ a.infos[i] = s.infos[i]
    BY <1>1, <1>5
  <2>2. g.infos[i].fdSet \in BOOLEAN /\ a.infos[i].fdSet \in BOOLEAN
    BY <1>1, <1>5, <2>1, BoardInfos
  <2>3. g.infos[i].fdSet <=> a.infos[i].fdSet
    BY <1>4, <1>5, <2>1
  <2> QED BY <1>5, <2>1, <2>2, <2>3
<1>8. id \notin OwnedBy(s, "component") /\ id \notin OwnedBy(s, "client")
  BY DEF OwnedBy
<1>9. OwnedBy(g, "component") = OwnedBy(s, "component") /\ OwnedBy(g, "client") = OwnedBy(s, "client")
  <2>1. \A C, D, E : id \notin C /\ D = C \cup {id} /\ E = D \ {id} => E = C
    OBVIOUS
  <2>2. \A C, E : id \notin C /\ E = C \ {id} => E = C
    OBVIOUS
  <2>3. OwnedBy(g, "component") = OwnedBy(a, "component") \ {id} /\ OwnedBy(g, "client") = OwnedBy(a, "client") \ {id}
    BY <1>5 DEF ids
  <2>4. OwnedBy(g, "component") = OwnedBy(s, "component")
    BY <1>2, <1>8, <2>1, <2>3, Zenon
  <2>5. OwnedBy(g, "client") = OwnedBy(s, "client")
    BY <1>2, <1>8, <2>2, <2>3, Zenon
  <2> QED BY <2>4, <2>5
<1>10. g.held = IF s.decoder = "running" THEN s.held \cup {id} ELSE s.held
  BY <1>1, <1>5, <1>6 DEF ids
<1>11. OwnedBy(g, "accelerator") = OwnedBy(s, "accelerator") \cup {id}
  BY <1>2, <1>5 DEF ids
<1>12. g.infos[id].block = block /\ g.infos[id].fdSet /\ Ids(g) = Ids(s) \cup {id}
  BY <1>1, <1>3, <1>4, <1>5
<1>13. Extended(s, g, block, id)
  BY <1>6, <1>7, <1>9, <1>10, <1>11, <1>12 DEF Extended
<1> QED BY <1>13 DEF g, a, ids

\* A new block at the head of the tasks is the only one of its id.
LEMMA ComesNew ==
  ASSUME TypeInv, Tracked, todo # <<>>, Task.op = "new", Task.block \in DOMAIN pool
  PROVE  /\ pool[Task.block] = Task.id /\ Task.id \notin Ids(b)
         /\ \A i \in DOMAIN Tail(todo) : Tail(todo)[i].op = "returned" => Tail(todo)[i].id # Task.id
<1>1. /\ 1 \in DOMAIN todo /\ todo[1] = Task
      /\ \A i \in DOMAIN Tail(todo) : i + 1 \in DOMAIN todo /\ Tail(todo)[i] = todo[i + 1] /\ i + 1 # 1
  BY HeadTask DEF Task, TypeInv, TypesOK
<1>2. \A i \in DOMAIN todo : i \in Nat /\ i >= 1
  BY LenProperties DEF TypeInv, TypesOK
<1>3. pool[Task.block] = Task.id /\ Task.id \notin Ids(b)
  BY <1>1 DEF TypeInv, Pooled, BlockOps
<1>4. ASSUME NEW i \in DOMAIN Tail(todo), Tail(todo)[i].op = "returned", Tail(todo)[i].id = Task.id PROVE FALSE
  <2>1. i + 1 \in DOMAIN todo /\ todo[i + 1].op = "returned" /\ todo[i + 1].id = Task.id /\ i + 1 # 1
    BY <1>1, <1>4
  <2>2. CASE todo[i + 1].block \in DOMAIN pool
    <3>1. pool[todo[i + 1].block] = Task.id
      BY <2>1, <2>2 DEF TypeInv, Pooled, BlockOps
    <3>2. todo[i + 1].block = todo[1].block
      BY <1>1, <1>3, <2>2, <3>1 DEF TypeInv, Pooled
    <3> QED BY <1>1, <2>1, <3>2 DEF TypeInv, Pooled, BlocksApart, BlockOps
  <2>3. CASE todo[i + 1].block \notin DOMAIN pool
    <3>1. i + 1 < 1
      BY <1>1, <2>1, <2>3 DEF Tracked, BoundOn, BackFrom
    <3> QED BY <1>2, <2>1, <3>1
  <2> QED BY <2>2, <2>3
<1> QED BY <1>3, <1>4

\* The decoder is given a new block.
LEMMA NewHeld ==
  ASSUME HeldInv, TypeInv', NEW id, id = Task.id, Extended(b, b', Task.block, id), todo # <<>>, Task.op = "new",
         todo' = Tail(todo), Task.block \in DOMAIN pool, FitsNew(b, Task.block), at = "idle",
         UNCHANGED <<stream, state, works, last, format, pending, first, client, reuse, device, at, poolVars, decVars>>
  PROVE  HeldInv'
<1>1. TypeInv /\ Shifts(todo, todo')
  BY ShiftsOf DEF HeldInv, TypeInv, TypesOK
<1>2. /\ b'.toWork = b.toWork /\ b'.fed = b.fed /\ b'.decoder = b.decoder /\ b'.error = b.error
      /\ b'.failed = b.failed
  BY DEF Extended, SameCourse
<1>3. SizesCurrent'
  <2>1. SizeOf(Task.block) \in {format.size, ForcedSize(device, format.size)}
    <3>1. format.size \in Sizes
      BY <1>1 DEF TypeInv, TypesOK, Formats
    <3> QED BY <3>1, AlignedSizes DEF FitsNew
  <2>2. \A i \in Ids(b') : SizeOf(b'.infos[i].block) \in {format.size, ForcedSize(device, format.size)}
    <3> SUFFICES ASSUME NEW i \in Ids(b')
                 PROVE  SizeOf(b'.infos[i].block) \in {format.size, ForcedSize(device, format.size)}
      OBVIOUS
    <3>1. CASE i = id
      BY <2>1, <3>1 DEF Extended
    <3>2. CASE i # id
      <4>1. i \in Ids(b) /\ b'.infos[i].block = b.infos[i].block
        BY <3>2 DEF Extended
      <4> QED BY <4>1 DEF HeldInv, SizesCurrent, Sized
    <3> QED BY <3>1, <3>2
  <2> QED BY <2>2 DEF SizesCurrent, Sized
<1>4. Ordered'
  <2>1. client' = "woken" => client = "woken" /\ works' = <<>>
    BY DEF HeldInv, Ordered
  <2>2. b'.error => b'.failed
    BY <1>2 DEF HeldInv, Ordered
  <2> QED BY <1>1, <2>1, <2>2, OrderedKept DEF HeldInv
<1>5. ASSUME Sound' PROVE Tracked'
  <2>1. Sound /\ Tracked
    BY <1>2, <1>5 DEF Sound, HeldInv, decVars
  <2>2. /\ pool[Task.block] = id /\ id \notin Ids(b)
        /\ \A i \in DOMAIN todo' : todo'[i].op = "returned" => todo'[i].id # id
    BY <1>1, <2>1, ComesNew
  <2>3. id \notin OwnedBy(b, "accelerator")
    BY <2>2 DEF OwnedBy
  <2>4. HeldBy(b')
    <3> SUFFICES ASSUME NEW i \in b'.held PROVE i \in OwnedBy(b', "accelerator") /\ b'.infos[i].fdSet
      BY DEF HeldBy
    <3>1. CASE i = id
      BY <3>1 DEF Extended
    <3>2. CASE i # id
      <4>1. i \in b.held
        BY <3>2 DEF Extended
      <4>2. i \in OwnedBy(b, "accelerator") /\ b.infos[i].fdSet /\ i \in Ids(b)
        BY <2>1, <4>1 DEF Tracked, HeldOn, HeldBy, OwnedBy
      <4> QED BY <4>2 DEF Extended
    <3> QED BY <3>1, <3>2
  <2>5. Shown(b', todo')
    <3>1. \A i : i \in OwnedBy(b, "accelerator") /\ i \notin b.held => i \in OwnedBy(b', "accelerator") /\ i \notin b'.held
      BY <2>3 DEF Extended
    <3> QED BY <1>1, <2>1, <3>1, ShownKept DEF Tracked, HeldOn
  <2>6. Queued(b')
    BY <1>2, <2>1 DEF Queued, Tracked, HeldOn, Extended
  <2>7. BoundOn(b, todo, pool)'
    <3>1. BackFrom(b, todo', pool)
      BY <1>1, <2>1, BackKept DEF BoundOn, Tracked
    <3>2. BackFrom(b', todo', pool)
      <4>1. \A i \in DOMAIN todo' : todo'[i].op = "returned" /\ todo'[i].id \in Ids(b') =>
              todo'[i].id \in Ids(b)
        BY <2>2 DEF Extended
      <4>2. OwnedBy(b', "client") = OwnedBy(b, "client")
        BY DEF Extended
      <4> QED BY <3>1, <4>1, <4>2 DEF BackFrom
    <3>3. InPool(b', pool)
      <4> SUFFICES ASSUME NEW i \in Ids(b') PROVE b'.infos[i].block \in DOMAIN pool /\ pool[b'.infos[i].block] = i
        BY DEF InPool
      <4>1. CASE i = id
        BY <2>2, <4>1 DEF Extended
      <4>2. CASE i # id
        <5>1. i \in Ids(b) /\ b'.infos[i].block = b.infos[i].block
          BY <4>2 DEF Extended
        <5> QED BY <2>1, <5>1 DEF Tracked, BoundOn, InPool
      <4> QED BY <4>1, <4>2
    <3> QED BY <3>2, <3>3 DEF BoundOn, poolVars
  <2>8. Waiting'
    <3>1. b.decoder # "running" => b'.held = {}
      BY <2>1 DEF Tracked, Waiting, Extended
    <3>2. at' \in {"change", "allocate"} => pending' # {}
      BY <2>1 DEF Tracked, Waiting
    <3> QED BY <1>1, <1>2, <2>1, <3>1, <3>2, WaitingKept DEF Tracked, decVars
  <2>9. Resets'
    BY <1>1, <1>2, <2>1, ResetsKept DEF Tracked, decVars
  <2> QED BY <2>4, <2>5, <2>6, <2>7, <2>8, <2>9 DEF Tracked, HeldOn
<1> QED BY <1>3, <1>4, <1>5 DEF HeldInv

\* NewBlockBufferFetched keeps the invariant.
LEMMA NewBlockBufferFetchedHolds ==
  ASSUME HeldInv, NewBlockBufferFetched
  PROVE  HeldInv'
<1> DEFINE block == Task.block
           id == Task.id
           fits == FitsNew(b, block) /\ block \in DOMAIN pool
           g == Given(Appended(Noted(b), block, id), {id})
<1>1. /\ at = "idle" /\ todo # <<>> /\ Task.op = "new" /\ todo' = Tail(todo)
      /\ UNCHANGED <<inVars, state, works, last, pending, first, client, haveFlush, reuse, formatVars,
                     loopVars, poolVars, decVars, at, haveDrain, withClient>>
      /\ b' \in {b, Noted(b), Failed(Noted(b))} \/ (fits /\ b' = g)
  BY DEF NewBlockBufferFetched, Takes, Task
<1>2. TypeInv /\ TypeInv' /\ b \in Boards /\ IsFiniteSet(Ids(b)) /\ Shifts(todo, Tail(todo))
  BY <1>1, NewBlockBufferFetchedKeeps, ShiftsOf DEF HeldInv, TypeInv, TypesOK, BoardOK, Proper
<1>3. Quiet(b, Noted(b)) /\ Quiet(b, Failed(Noted(b))) /\ Quiet(b, b) /\ Noted(b).fed = b.fed /\ Failed(Noted(b)).fed = b.fed
  BY <1>2, QuietNoted
<1>4. CASE b' \in {b, Noted(b), Failed(Noted(b))}
  <2>1. Quiet(b, b') /\ b'.fed = b.fed /\ Leaves(b, b') /\ Shifts(todo, todo') /\ SameDevice(device, device')
    BY <1>1, <1>2, <1>3, <1>4, QuietHeld, Unmoved DEF Stays, formatVars
  <2>2. client' = "woken" => client = "woken" /\ works' = <<>>
    BY <1>1 DEF HeldInv, Ordered
  <2>3. Passing
    BY <1>1, <2>1, <2>2 DEF Passing, inVars, formatVars, poolVars, decVars
  <2> QED BY <1>2, <2>1, <2>3, QuietPassing
<1>5. CASE fits /\ b' = g
  <2> DEFINE s == Noted(b)
  <2>1. s \in Boards /\ Ids(s) = Ids(b) /\ s.infos = b.infos /\ s.held = b.held /\ SameCourse(b, s)
        /\ \A o : OwnedBy(s, o) = OwnedBy(b, o)
    BY <1>2, QuietNoted
  <2>2. /\ Task \in Tasks /\ 1 \in DOMAIN todo /\ todo[1] = Task
    BY <1>1, <1>2, HeadTask DEF TypeInv, TypesOK, Task
  <2>3. block \in Blocks /\ id \in Nat
    BY <1>1, <2>2 DEF Tasks, PlainOps, BlockOps
  <2>4. id \notin Ids(s)
    BY <1>1, <1>2, <1>5, <2>1, <2>2 DEF TypeInv, Pooled, BlockOps
  <2>5. b' = Given(Appended(s, block, id), {id}) /\ IsFiniteSet(Ids(s))
    BY <1>2, <1>5, <2>1
  <2> HIDE DEF s, block, id, g
  <2>6. Extended(s, b', block, id)
    BY <2>1, <2>3, <2>4, <2>5, ExtendedBoard
  <2>7. Extended(b, b', block, id)
    BY <2>1, <2>6 DEF Extended, SameCourse
  <2>8. UNCHANGED <<stream, state, works, last, format, pending, first, client, reuse, device, at, poolVars, decVars>>
    BY <1>1 DEF inVars, formatVars
  <2> QED BY <1>1, <1>2, <1>5, <2>7, <2>8, NewHeld DEF block, id
<1> QED BY <1>1, <1>4, <1>5

\* The decoder is answered after a change of format, with the blocks it is to use.
LEMMA AnsweredHolds ==
  ASSUME HeldInv, TypeInv', at \in {"change", "allocate"}, at' = "idle", pending' = {},
         UNCHANGED <<stream, state, works, client, reuse, decVars, todo>>,
         Sized(b', device', format'.size), b.failed => b'.failed, b'.error => b'.failed, b'.fed = b.fed,
         Sound /\ Sound' /\ Tracked =>
           /\ b'.decoder = "running" /\ b'.toWork = <<>> /\ HeldBy(b') /\ BoundOn(b', todo, pool')
  PROVE  HeldInv'
<1>1. TypeInv /\ Shifts(todo, todo') /\ b.toWork = <<>>
  BY ShiftsPosts DEF HeldInv, TypeInv, BoardOK
<1>2. SizesCurrent'
  BY DEF SizesCurrent
<1>3. Ordered'
  <2>1. client' = "woken" => client = "woken" /\ works' = <<>>
    BY DEF HeldInv, Ordered
  <2> QED BY <1>1, <2>1, OrderedKept DEF HeldInv
<1>4. ASSUME Sound' PROVE Tracked'
  <2>1. Sound /\ Tracked
    BY <1>4 DEF Sound, HeldInv, decVars
  <2>2. b'.decoder = "running" /\ b'.toWork = <<>> /\ HeldBy(b') /\ BoundOn(b', todo, pool')
    BY <1>4, <2>1
  <2>3. b.decoder = "waiting" /\ ~Has(todo, "output") /\ ~Has(todo, "formatChanged") /\ shown # 0
    <3>1. pending # {}
      BY <2>1 DEF Tracked, Waiting
    <3> QED BY <2>1, <3>1 DEF Tracked, Waiting, Has
  <2>4. Waiting'
    BY <2>2, <2>3 DEF Waiting, Has, decVars
  <2>5. Resets'
    <3>1. b.toWork = <<>> => b'.toWork = <<>>
      BY <2>2
    <3>2. /\ state' \in {"STARTED", "DRAINING"} => state \in {"STARTED", "DRAINING"}
          /\ state' = "FLUSHING" => state = "FLUSHING"
          /\ client' = "woken" => client = "woken"
          /\ reuse' => reuse
          /\ at' = "flushDone" => at = "flushDone"
          /\ b'.fed => b.fed
          /\ UNCHANGED resets
      BY DEF decVars
    <3> QED BY <1>1, <2>1, <3>1, <3>2, ResetsKept DEF Tracked
  <2>6. HeldOn(b', todo')
    BY <2>2, <2>3 DEF HeldOn, Shown, Queued, Has
  <2>7. BoundOn(b', todo', pool')
    BY <2>2
  <2> QED BY <2>4, <2>5, <2>6, <2>7 DEF Tracked
<1> QED BY <1>2, <1>3, <1>4 DEF HeldInv

\* What goes on besides the decoder's blocks.
SameFlow(s, m) == m.toWork = s.toWork /\ m.fed = s.fed /\ m.failed = s.failed /\ m.error = s.error

\* The board with the first blocks, which the decoder has from then on.
Begins(s, g, k, size) ==
  /\ Ids(g) = 0 .. k - 1 /\ g.decoder = "running" /\ g.held = 0 .. k - 1 /\ SameFlow(s, g)
  /\ OwnedBy(g, "accelerator") = 0 .. k - 1
  /\ \A id \in 0 .. k - 1 : g.infos[id].block = <<size[1], size[2], id + 1>> /\ g.infos[id].fdSet

\* assignPictureBuffers and the sending of the first blocks give such a board.
LEMMA FirstGiven ==
  ASSUME NEW s, Proper(s), Ids(s) = {}, NEW k \in Nat, NEW size \in Sizes
  PROVE  Begins(s, Given([Assigned(s) EXCEPT !.infos = FirstInfos(size, k), !.count["component"] = @ + k], 0 .. k - 1),
                  k, size)
<1> DEFINE t == Assigned(s)
           u == [t EXCEPT !.infos = FirstInfos(size, k), !.count["component"] = @ + k]
           ids == 0 .. k - 1
           g == Given(u, ids)
<1>1. Keeps(s, t) /\ t.held = {} /\ t.decoder = "running" /\ SameFlow(s, t)
  BY AssignedKeeps DEF Proper, SameFlow
<1>2. t \in Boards /\ Ids(t) = {}
  BY <1>1 DEF Keeps
<1> HIDE DEF t
<1>4. /\ u \in Boards /\ Ids(u) = ids /\ IsFiniteSet(Ids(u)) /\ SameFlags(t, u) /\ u.held = t.held
      /\ u.infos = FirstInfos(size, k) /\ OwnedBy(u, "accelerator") = {}
  BY <1>2, AllocatedBoard
<1> HIDE DEF u
<1>5. \A id \in ids : u.infos[id].block = <<size[1], size[2], id + 1>>
  <2>1. u.infos = FirstInfos(size, k)
    BY <1>4
  <2>2. \A id \in ids : FirstInfos(size, k)[id].block = <<size[1], size[2], id + 1>>
    BY DEF FirstInfos
  <2> QED BY <2>1, <2>2
<1>6. ids \in SUBSET Ids(u)
  BY <1>4
<1> HIDE DEF ids
<1>7. /\ Ids(g) = Ids(u) /\ SameFlags(u, g)
      /\ g.held = IF u.decoder = "running" THEN u.held \cup ids ELSE u.held
      /\ \A id \in Ids(u) : /\ g.infos[id].block = u.infos[id].block
                            /\ g.infos[id].fdSet <=> id \in ids \/ u.infos[id].fdSet
      /\ OwnedBy(g, "accelerator") = OwnedBy(u, "accelerator") \cup ids
  BY <1>4, <1>6, GivenKeeps
<1> HIDE DEF g
<1>8. g.decoder = "running" /\ SameFlow(s, g) /\ u.decoder = "running"
  BY <1>1, <1>4, <1>7 DEF SameFlags, SameFlow
<1>9. g.held = ids /\ OwnedBy(g, "accelerator") = ids /\ Ids(g) = ids
  BY <1>1, <1>4, <1>7, <1>8
<1>10. \A id \in ids : g.infos[id].block = <<size[1], size[2], id + 1>> /\ g.infos[id].fdSet
  BY <1>4, <1>5, <1>7
<1>11. Begins(s, g, k, size)
  BY <1>8, <1>9, <1>10 DEF ids, Begins
<1> QED BY <1>11 DEF g, u, t, ids

\* AllocateBuffers keeps the invariant.
LEMMA AllocateBuffersHolds ==
  ASSUME HeldInv, AllocateBuffers
  PROVE  HeldInv'
<1> DEFINE count == BlockCount(device)
           d == Surfaced(device)
           size == AlignedSize(d, format.size)
<1>1. /\ at = "allocate" /\ at' = "idle" /\ device' = d /\ pending' = {}
      /\ UNCHANGED <<stream, state, works, client, reuse, decVars, todo>>
  BY DEF AllocateBuffers, inVars
<1>2. \/ b' = Failed([b EXCEPT !.infos = <<>>]) /\ UNCHANGED format
      \/ \E k \in 0 .. FirstBlocks(d, count, Smooth) :
           /\ pool' = [block \in {<<size[1], size[2], n>> : n \in 1 .. k} |-> block[3] - 1]
           /\ b' = Given([Assigned(b) EXCEPT !.infos = FirstInfos(size, k),
                                             !.count["component"] = @ + k], 0 .. k - 1)
           /\ format' = [format EXCEPT !.min = count]
  BY DEF AllocateBuffers, FirstInfos
<1>3. TypeInv /\ TypeInv' /\ ~first /\ state # "UNINITIALIZED" /\ Ids(b) = {} /\ b.toWork = <<>> /\ Proper(b)
      /\ b \in Boards
  BY <1>1, AllocateBuffersKeeps DEF HeldInv, TypeInv, Empty, BoardOK, Proper
<1>4. \A i \in DOMAIN todo : todo[i].op \notin BlockOps
  BY <1>3 DEF TypeInv, Empty
<1>5. count \in Nat /\ Smooth \in Nat
  BY <1>3, BlockNumbers, BoundsAssumption
<1>6. size \in Sizes /\ format \in Formats /\ format.size \in Sizes /\ size \in {format.size, ForcedSize(d, format.size)}
  <2>1. format \in Formats /\ format.size \in Sizes
    BY <1>3 DEF TypeInv, TypesOK, Formats
  <2> QED BY <2>1, AlignedSizes
<1> HIDE DEF count, d, size
<1>7. CASE b' = Failed([b EXCEPT !.infos = <<>>]) /\ UNCHANGED format
  <2>1. b'.infos = <<>> /\ b'.failed /\ b'.fed = b.fed
    BY <1>3, <1>7 DEF Failed, Boards
  <2>2. Sized(b', device', format'.size)
    BY <2>1, EmptyInfos DEF Sized, Ids
  <2>3. ~Sound'
    BY <2>1 DEF Sound
  <2> QED BY <1>1, <1>3, <2>1, <2>2, <2>3, AnsweredHolds
<1>8. ASSUME NEW k \in 0 .. FirstBlocks(d, count, Smooth),
             pool' = [block \in {<<size[1], size[2], n>> : n \in 1 .. k} |-> block[3] - 1],
             b' = Given([Assigned(b) EXCEPT !.infos = FirstInfos(size, k),
                                            !.count["component"] = @ + k], 0 .. k - 1),
             format' = [format EXCEPT !.min = count]
      PROVE  HeldInv'
  <2>1. k \in Nat
    <3>1. FirstBlocks(d, count, Smooth) \in 0 .. count
      BY <1>5, FirstBlocksWithin
    <3> QED BY <1>5, <3>1
  <2>2. /\ Ids(b') = 0 .. k - 1 /\ b'.decoder = "running" /\ b'.held = 0 .. k - 1 /\ b'.toWork = b.toWork
        /\ b'.fed = b.fed /\ b'.failed = b.failed /\ b'.error = b.error
        /\ OwnedBy(b', "accelerator") = 0 .. k - 1
        /\ \A id \in 0 .. k - 1 : b'.infos[id].block = <<size[1], size[2], id + 1>> /\ b'.infos[id].fdSet
    <3>1. Begins(b, Given([Assigned(b) EXCEPT !.infos = FirstInfos(size, k), !.count["component"] = @ + k], 0 .. k - 1),
                   k, size)
      BY <1>3, <1>6, <2>1, FirstGiven
    <3>2. Begins(b, b', k, size)
      BY <1>8, <3>1
    <3> QED BY <3>2 DEF Begins, SameFlow
  <2>3. Sized(b', device', format'.size)
    <3>1. format'.size = format.size
      BY <1>6, <1>8 DEF Formats
    <3>2. \A id \in Ids(b') : SizeOf(b'.infos[id].block) = size
      <4>1. size = <<size[1], size[2]>>
        BY <1>6 DEF Sizes
      <4> QED BY <2>2, <4>1 DEF SizeOf
    <3> QED BY <1>1, <1>6, <3>1, <3>2 DEF Sized
  <2>4. HeldBy(b')
    BY <2>2 DEF HeldBy
  <2>5. BoundOn(b', todo, pool')
    <3>1. InPool(b', pool')
      <4> SUFFICES ASSUME NEW id \in 0 .. k - 1
                   PROVE  b'.infos[id].block \in DOMAIN pool' /\ pool'[b'.infos[id].block] = id
        BY <2>2 DEF InPool
      <4> DEFINE block == <<size[1], size[2], id + 1>>
      <4>1. id + 1 \in 1 .. k /\ block[3] - 1 = id
        BY <2>1
      <4>2. block \in {<<size[1], size[2], n>> : n \in 1 .. k}
        BY <4>1
      <4>3. b'.infos[id].block = block
        BY <2>2
      <4> HIDE DEF block
      <4> QED BY <1>8, <4>1, <4>2, <4>3
    <3>2. BackFrom(b', todo, pool')
      BY <1>4 DEF BackFrom, BlockOps
    <3> QED BY <3>1, <3>2 DEF BoundOn
  <2>6. b'.error => b'.failed
    BY <2>2 DEF HeldInv, Ordered
  <2> QED BY <1>1, <1>3, <2>2, <2>3, <2>4, <2>5, <2>6, AnsweredHolds
<1> QED BY <1>2, <1>7, <1>8

\* The board after a change of format without new blocks, with the blocks of the component given.
Regiven(s, g) ==
  /\ Ids(g) = Ids(s) /\ g.decoder = "running" /\ g.held = OwnedBy(s, "component") /\ SameFlow(s, g)
  /\ \A id \in Ids(s) : g.infos[id].block = s.infos[id].block
  /\ HeldBy(g) /\ OwnedBy(g, "client") = OwnedBy(s, "client") \ OwnedBy(s, "component")

\* assignPictureBuffers and the sending of these blocks give such a board.
LEMMA RegivenBoard ==
  ASSUME NEW s, Proper(s)
  PROVE  Regiven(s, Given(Assigned(s), OwnedBy(s, "component")))
<1> DEFINE t == Assigned(s)
           ids == OwnedBy(s, "component")
           g == Given(t, ids)
<1>1. /\ Keeps(s, t) /\ t.held = {} /\ t.decoder = "running" /\ SameFlow(s, t)
      /\ \A id \in Ids(s) : t.infos[id].block = s.infos[id].block
      /\ \A o : OwnedBy(t, o) = OwnedBy(s, o)
  BY AssignedKeeps DEF Proper, SameFlow
<1>2. t \in Boards /\ Ids(t) = Ids(s) /\ IsFiniteSet(Ids(t)) /\ ids \in SUBSET Ids(t)
  BY <1>1 DEF Keeps, Proper, OwnedBy
<1> HIDE DEF t, ids
<1>3. /\ Ids(g) = Ids(t) /\ SameFlags(t, g)
      /\ g.held = IF t.decoder = "running" THEN t.held \cup ids ELSE t.held
      /\ \A id \in Ids(t) : /\ g.infos[id].block = t.infos[id].block
                            /\ g.infos[id].fdSet <=> id \in ids \/ t.infos[id].fdSet
      /\ OwnedBy(g, "accelerator") = OwnedBy(t, "accelerator") \cup ids
      /\ OwnedBy(g, "client") = OwnedBy(t, "client") \ ids
  BY <1>2, GivenKeeps
<1> HIDE DEF g
<1>4. g.decoder = "running" /\ g.held = ids /\ SameFlow(s, g)
  BY <1>1, <1>3 DEF SameFlags, SameFlow
<1>5. HeldBy(g)
  BY <1>2, <1>3, <1>4 DEF HeldBy
<1>6. Ids(g) = Ids(s) /\ \A id \in Ids(s) : g.infos[id].block = s.infos[id].block
  BY <1>1, <1>2, <1>3
<1>7. OwnedBy(g, "client") = OwnedBy(s, "client") \ ids
  BY <1>1, <1>3
<1>8. g.held = OwnedBy(s, "component") /\ OwnedBy(g, "client") = OwnedBy(s, "client") \ OwnedBy(s, "component")
  BY <1>4, <1>7 DEF ids
<1>9. Regiven(s, g)
  BY <1>4, <1>5, <1>6, <1>8 DEF Regiven
<1> QED BY <1>9 DEF g, t, ids

\* The board that lost its blocks.
LEMMA ClearedAssigned ==
  ASSUME NEW s, Proper(s)
  PROVE  LET m == Assigned(NoInfos(s))
             n == Assigned([s EXCEPT !.infos = <<>>])
         IN  /\ Ids(m) = {} /\ m.held = {} /\ m.decoder = "running" /\ SameFlow(s, m)
             /\ Ids(n) = {} /\ n.held = {} /\ n.decoder = "running" /\ SameFlow(s, n)
<1> DEFINE e == NoInfos(s)
           f == [s EXCEPT !.infos = <<>>]
<1>1. e \in Boards /\ Ids(e) = {} /\ f \in Boards /\ Ids(f) = {}
  BY ClearedBoard DEF Proper
<1>2. SameFlow(s, e) /\ SameFlow(s, f)
  BY DEF Proper, Boards, SameFlow, NoInfos
<1> HIDE DEF e, f
<1>3. \A u \in {e, f} : Ids(Assigned(u)) = {} /\ Assigned(u).held = {} /\ Assigned(u).decoder = "running" /\ SameFlow(s, Assigned(u))
  <2>1. \A u \in {e, f} : /\ Keeps(u, Assigned(u)) /\ Assigned(u).held = {} /\ Assigned(u).decoder = "running"
                          /\ Assigned(u).toWork = u.toWork /\ Assigned(u).failed = u.failed
                          /\ Assigned(u).fed = u.fed /\ Assigned(u).error = u.error
    BY <1>1, AssignedKeeps
  <2> QED BY <1>1, <1>2, <2>1 DEF Keeps, SameFlow
<1> QED BY <1>3 DEF e, f

\* VideoResolutionChange keeps the invariant.
LEMMA VideoResolutionChangeHolds ==
  ASSUME HeldInv, VideoResolutionChange
  PROVE  HeldInv'
<1>1. /\ at = "change" /\ at' = "idle" /\ pending' = {}
      /\ UNCHANGED <<stream, state, works, client, reuse, decVars, todo, format, last, device, first>>
  BY DEF VideoResolutionChange, inVars, formatVars
<1>2. \/ stream.surface /\ SizeChanged(last, format) /\ b' = Assigned(NoInfos(b))
      \/ /\ stream.surface /\ ~SizeChanged(last, format) /\ b' = Given(Assigned(b), OwnedBy(b, "component"))
         /\ pool' = pool
      \/ ~stream.surface /\ b' = Assigned([b EXCEPT !.infos = <<>>])
      \/ ~stream.surface /\ ~SizeChanged(last, format) /\ b' = Assigned(b)
  BY DEF VideoResolutionChange, IsReallocateOutputBuffer, poolVars
<1>3. TypeInv /\ TypeInv' /\ first /\ Proper(b) /\ b \in Boards /\ b.toWork = <<>>
  BY <1>1, VideoResolutionChangeKeeps DEF HeldInv, TypeInv, Empty, BoardOK, Proper
<1>4. b.error => b.failed
  BY DEF HeldInv, Ordered
<1>5. Sized(b, device, last.size)
  BY <1>1 DEF HeldInv, SizesCurrent
<1>6. Sound /\ Tracked => stream.surface
  <2>1. Sound /\ Tracked => b.decoder = "waiting"
    BY <1>1 DEF Tracked, Waiting
  <2> QED BY <1>3, <2>1 DEF Tracked, Waiting
<1>7. CASE stream.surface /\ SizeChanged(last, format) /\ b' = Assigned(NoInfos(b))
  <2>1. Ids(b') = {} /\ b'.held = {} /\ b'.decoder = "running" /\ SameFlow(b, b')
    BY <1>3, <1>7, ClearedAssigned
  <2>2. Sized(b', device', format'.size) /\ HeldBy(b')
    BY <2>1 DEF Sized, HeldBy
  <2>3. Sound /\ Tracked => BoundOn(b', todo, pool')
    <3>1. ASSUME Sound, Tracked PROVE BoundOn(b', todo, pool')
      <4>1. InPool(b', pool')
        BY <2>1 DEF InPool
      <4>2. BackFrom(b', todo, pool')
        <5>1. CancelAllGraphicBlock
          BY <1>6, <1>7, <3>1 DEF VideoResolutionChange
        <5>2. DOMAIN pool' = {}
          BY <5>1, EmptyInfos DEF CancelAllGraphicBlock
        <5> QED BY <2>1, <5>2 DEF BackFrom
      <4> QED BY <4>1, <4>2 DEF BoundOn
    <3> QED BY <3>1
  <2> QED BY <1>1, <1>3, <1>4, <2>1, <2>2, <2>3, AnsweredHolds DEF SameFlow
<1>8. CASE /\ stream.surface /\ ~SizeChanged(last, format) /\ b' = Given(Assigned(b), OwnedBy(b, "component"))
           /\ pool' = pool
  <2>1. Regiven(b, Given(Assigned(b), OwnedBy(b, "component")))
    BY <1>3, RegivenBoard
  <2>2. Regiven(b, b')
    BY <1>8, <2>1
  <2>3. /\ Ids(b') = Ids(b) /\ b'.decoder = "running" /\ SameFlow(b, b') /\ HeldBy(b')
        /\ \A id \in Ids(b) : b'.infos[id].block = b.infos[id].block
    BY <2>2 DEF Regiven
  <2>4. Sized(b', device', format'.size)
    BY <1>1, <1>5, <1>8, <2>3 DEF Sized, SizeChanged
  <2>5. OwnedBy(b, "client") \subseteq OwnedBy(b', "client")
    <3>1. OwnedBy(b, "client") \cap OwnedBy(b, "component") = {}
      BY DEF OwnedBy
    <3> QED BY <2>2, <3>1 DEF Regiven
  <2>6. Tracked => BoundOn(b', todo, pool')
    BY <1>8, <2>3, <2>5 DEF Tracked, BoundOn, InPool, BackFrom
  <2> QED BY <1>1, <1>3, <1>4, <2>3, <2>4, <2>6, AnsweredHolds DEF SameFlow
<1>9. CASE ~stream.surface /\ b' = Assigned([b EXCEPT !.infos = <<>>])
  <2>1. Ids(b') = {} /\ b'.decoder = "running" /\ SameFlow(b, b')
    BY <1>3, <1>9, ClearedAssigned
  <2>2. Sized(b', device', format'.size)
    BY <2>1 DEF Sized
  <2> QED BY <1>1, <1>3, <1>4, <1>6, <1>9, <2>1, <2>2, AnsweredHolds DEF SameFlow
<1>10. CASE ~stream.surface /\ ~SizeChanged(last, format) /\ b' = Assigned(b)
  <2>1. /\ Ids(b') = Ids(b) /\ SameFlow(b, b')
        /\ \A id \in Ids(b) : b'.infos[id].block = b.infos[id].block
    BY <1>3, <1>10, AssignedKeeps DEF Keeps, SameFlow
  <2>2. Sized(b', device', format'.size)
    BY <1>1, <1>5, <1>10, <2>1 DEF Sized, SizeChanged
  <2> QED BY <1>1, <1>3, <1>4, <1>6, <1>10, <2>1, <2>2, AnsweredHolds DEF SameFlow
<1> QED BY <1>2, <1>7, <1>8, <1>9, <1>10

\* A step that leaves the blocks, and is a step of the flush.
LEMMA CourseHolds ==
  ASSUME HeldInv, TypeInv', Shifts(todo, todo'), Quiet(b, b'), SameDevice(device, device'),
         UNCHANGED <<stream, first, shown, pool, format, last, pending>>,
         at' = "change" <=> at = "change", at' = "allocate" => at = "allocate",
         Ordered', Sound' => Sound, Sound' /\ Tracked => Resets'
  PROVE  HeldInv'
<1>1. Stays(b, b')
  BY QuietHeld
<1>2. SizesCurrent'
  BY <1>1, SizedKept DEF HeldInv, Stays, Leaves
<1>3. ASSUME Sound' PROVE Tracked'
  <2>1. Tracked
    BY <1>3 DEF HeldInv
  <2>2. Waiting'
    <3>1. at' \in {"change", "allocate"} => pending' # {}
      BY <2>1 DEF Tracked, Waiting
    <3>2. b.decoder # "running" => b'.held = {}
      BY <2>1 DEF Quiet, Tracked, Waiting
    <3>3. b'.decoder = b.decoder /\ pending' \subseteq pending
      BY DEF Quiet
    <3> QED BY <2>1, <3>1, <3>2, <3>3, WaitingKept DEF Tracked
  <2>3. Resets'
    BY <1>3, <2>1
  <2>4. HeldOn(b, todo)'
    BY <2>1, QuietHeld DEF Tracked
  <2>5. BoundOn(b, todo, pool)'
    BY <1>1, <2>1, StaysBound DEF Tracked
  <2> QED BY <2>2, <2>3, <2>4, <2>5 DEF Tracked
<1> QED BY <1>2, <1>3 DEF HeldInv

\* ResetDone keeps the invariant: after the answer to a flush there is nothing to decode.
LEMMA ResetDoneHolds ==
  ASSUME HeldInv, ResetDone
  PROVE  HeldInv'
<1>1. /\ at = "idle" /\ todo # <<>> /\ todo[1].op = "resetDone" /\ todo' = Tail(todo) /\ state # "UNINITIALIZED"
      /\ UNCHANGED <<stream, state, works, last, pending, first, client, reuse, formatVars, poolVars, decVars>>
  BY DEF ResetDone, Takes, inVars, Task
<1>2. /\ at' = "idle" \/ (state = "STOPPING" /\ at' = "stopDone") \/ (state = "FLUSHING" /\ at' = "flushDone" /\ b' = b)
      /\ b' = b \/ b' = Failed(b)
  BY <1>1 DEF ResetDone
<1>3. TypeInv /\ TypeInv' /\ b \in Boards
  BY ResetDoneKeeps, Unmoved DEF HeldInv
<1>4. Quiet(b, b') /\ b'.fed = b.fed
  BY <1>2, <1>3, QuietFlags
<1>5. Shifts(todo, todo') /\ SameDevice(device, device') /\ Stays(b, b')
  BY <1>1, <1>3, <1>4, ShiftsPosts, Unmoved DEF formatVars
<1>6. client' = "woken" => client = "woken" /\ works' = <<>>
  BY <1>1 DEF HeldInv, Ordered
<1>7. CASE at' \in {"idle", "stopDone"}
  <2>1. Passing
    BY <1>1, <1>4, <1>5, <1>6, <1>7 DEF Passing, Stays, formatVars, poolVars, decVars
  <2> QED BY <1>3, <1>4, <2>1, QuietPassing
<1>8. CASE state = "FLUSHING" /\ at' = "flushDone" /\ b' = b
  <2>1. Ordered'
    <3>1. b'.error => b'.failed
      BY <1>8 DEF HeldInv, Ordered
    <3> QED BY <1>1, <1>5, <1>6, <3>1, OrderedKept DEF HeldInv
  <2>2. Sound' => Sound
    BY <1>1, <1>8 DEF Sound, decVars
  <2>3. ASSUME Tracked PROVE Resets'
    <3>1. todo \in Seq(Tasks) /\ 1 \in DOMAIN todo
      BY <1>1, <1>3, LenProperties, EmptySeq DEF TypeInv, TypesOK
    <3>2. PICK k \in {0, 1} : Follows(todo, todo', k, {}) /\ k = 1
      BY <1>1, <3>1, TasksFollow
    <3>3. /\ ~b.fed
          /\ \A j \in DOMAIN todo : /\ todo[j].op = "resetDone" => 1 = j
                                    /\ todo[j].op = "output" => j < 1
      BY <1>1, <1>8, <2>3, <3>1 DEF Tracked, Resets
    <3>4. DOMAIN todo' \subseteq Nat \ {0} /\ DOMAIN todo \subseteq Nat \ {0}
      BY <1>5, <3>1, LenProperties DEF Shifts
    <3>5. \A i \in DOMAIN todo' : i + 1 \in DOMAIN todo /\ todo'[i] = todo[i + 1] /\ i + 1 # 1
      BY <3>2, <3>4 DEF Follows
    <3>6. ~Has(todo', "resetDone") /\ ~Has(todo', "output")
      <4>1. ASSUME NEW i \in DOMAIN todo' PROVE todo'[i].op \notin {"resetDone", "output"}
        <5>1. i + 1 \in DOMAIN todo /\ todo'[i] = todo[i + 1] /\ i + 1 # 1 /\ ~(i + 1 < 1)
          BY <3>4, <3>5
        <5> QED BY <3>3, <5>1
      <4> QED BY <4>1 DEF Has
    <3>7. resets' <= 1 /\ resets' # 1
      <4>1. Has(todo, "resetDone")
        BY <1>1, <3>1 DEF Has
      <4> QED BY <1>1, <1>8, <2>3, <4>1 DEF Tracked, Resets, decVars
    <3>8. client' = "woken" \/ reuse' => b'.toWork = <<>>
      BY <1>1, <1>8, <2>3 DEF Tracked, Resets
    <3> QED BY <1>1, <1>8, <3>3, <3>6, <3>7, <3>8 DEF Resets, Has
  <2> QED BY <1>1, <1>3, <1>4, <1>5, <1>8, <2>1, <2>2, <2>3, CourseHolds DEF decVars, formatVars, poolVars
<1> QED BY <1>2, <1>7, <1>8

\* FlushDone keeps the invariant: no reset is left, and the decoder reports nothing until it is fed.
LEMMA FlushDoneHolds ==
  ASSUME HeldInv, FlushDone
  PROVE  HeldInv'
<1>1. /\ at = "flushDone" /\ at' = "idle" /\ works' = <<>> /\ state' = "STARTED" /\ client' = "woken"
      /\ b' = [b EXCEPT !.afterFlush = IdsIn(b, Len(b.toWork)) \cap Ids(b), !.toWork = <<>>, !.outputs = 0]
      /\ UNCHANGED <<stream, last, pending, first, reuse, formatVars, poolVars, decVars, todo>>
  BY DEF FlushDone, inVars
<1>2. TypeInv /\ TypeInv' /\ b \in Boards /\ state = "FLUSHING"
  BY <1>1, FlushDoneKeeps, Unmoved DEF HeldInv, TypeInv, Serial
<1>3. Quiet(b, b') /\ b'.fed = b.fed /\ b'.toWork = <<>> /\ b'.failed = b.failed /\ b'.error = b.error
  BY <1>1, <1>2 DEF Quiet, Boards
<1>4. Shifts(todo, todo') /\ SameDevice(device, device')
  BY <1>1, <1>2, ShiftsPosts, Unmoved DEF formatVars
<1>5. Ordered'
  BY <1>1, <1>2, <1>3 DEF HeldInv, Ordered, Has
<1>6. Sound' => Sound
  BY <1>1, <1>2, <1>3 DEF Sound, decVars
<1>7. ASSUME Tracked PROVE Resets'
  <2>1. resets <= 1 /\ resets # 1 /\ ~Has(todo, "resetDone") /\ ~b.fed /\ ~Has(todo, "output")
    BY <1>1, <1>2, <1>7 DEF Tracked, Resets
  <2>2. resets = 0
    BY <1>2, <2>1 DEF TypeInv, TypesOK
  <2> QED BY <1>1, <1>3, <2>1, <2>2 DEF Resets, Has, decVars
<1> QED BY <1>1, <1>2, <1>3, <1>4, <1>5, <1>6, <1>7, CourseHolds DEF decVars, formatVars, poolVars

\* Flush keeps the invariant: it is the last call queued, and its reset the only one.
LEMMA FlushHolds ==
  ASSUME HeldInv, Flush
  PROVE  HeldInv'
<1>1. /\ at = "idle" /\ todo # <<>> /\ todo[1].op = "flush" /\ todo' = Tail(todo) /\ at' = at
      /\ state \notin {"FLUSHING", "STOPPING"} /\ state' = "FLUSHING" /\ b' = [b EXCEPT !.error = FALSE]
      /\ resets' = resets + 1
      /\ UNCHANGED <<stream, works, last, pending, first, client, reuse, formatVars, poolVars, shown>>
  BY DEF Flush, Takes, inVars, Task
<1>2. TypeInv /\ TypeInv' /\ b \in Boards /\ todo \in Seq(Tasks) /\ 1 \in DOMAIN todo
  <2>1. TypeInv /\ TypeInv' /\ b \in Boards /\ todo \in Seq(Tasks)
    BY FlushKeeps, Unmoved DEF HeldInv, TypeInv, TypesOK
  <2> QED BY <1>1, <2>1, LenProperties, EmptySeq
<1>3. client = "flushing" /\ state \in {"STARTED", "DRAINING"}
  <2>1. Has(todo, "flush")
    BY <1>1, <1>2 DEF Has
  <2> QED BY <1>1, <1>2, <2>1 DEF TypeInv, Serial, TypesOK, States
<1>4. Quiet(b, b') /\ b'.fed = b.fed /\ b'.toWork = b.toWork /\ b'.failed = b.failed /\ ~b'.error
  BY <1>1, <1>2 DEF Quiet, Boards
<1>5. Shifts(todo, todo') /\ SameDevice(device, device')
  BY <1>1, <1>2, ShiftsPosts, Unmoved DEF formatVars
<1>6. DOMAIN todo \subseteq Nat \ {0} /\ DOMAIN todo' \subseteq Nat
  BY <1>2, <1>5, LenProperties DEF Shifts
<1>7. Ordered'
  <2>1. ~Has(todo, "queueWork")
    <3>1. \A j \in DOMAIN todo : todo[j].op = "queueWork" => j < 1
      BY <1>1, <1>2 DEF HeldInv, Ordered
    <3>2. \A j \in DOMAIN todo : ~(j < 1)
      BY <1>6
    <3> QED BY <3>1, <3>2 DEF Has
  <2>2. ~Has(todo', "queueWork")
    BY <1>5, <2>1 DEF Shifts, Has, NotedOps
  <2> QED BY <1>1, <1>3, <1>4, <2>2 DEF Ordered, Has
<1>8. Sound' => Sound
  BY <1>1, <1>3, <1>4 DEF Sound
<1>9. ASSUME Tracked PROVE Resets'
  <2>1. resets = 0 /\ ~Has(todo, "resetDone")
    BY <1>3, <1>9 DEF Tracked, Resets
  <2>2. ~Has(todo', "resetDone") /\ (Has(todo', "output") => Has(todo, "output"))
    BY <1>5, <2>1 DEF Shifts, Has, NotedOps
  <2>3. client' = "woken" \/ reuse' \/ at' = "flushDone" => ~b'.fed /\ ~Has(todo', "output")
    BY <1>1, <1>4, <1>9, <2>2 DEF Tracked, Resets
  <2>4. client' = "woken" \/ reuse' => b'.toWork = <<>>
    BY <1>1, <1>4, <1>9 DEF Tracked, Resets
  <2>5. resets' = 1 /\ at' # "flushDone"
    BY <1>1, <2>1
  <2> QED BY <1>1, <2>2, <2>3, <2>4, <2>5 DEF Resets, Has
<1> QED BY <1>1, <1>2, <1>4, <1>5, <1>7, <1>8, <1>9, CourseHolds DEF formatVars, poolVars

\* StopJoined keeps the invariant: what the decoder has no longer matters to a flush.
LEMMA StopJoinedHolds ==
  ASSUME HeldInv, StopJoined
  PROVE  HeldInv'
<1>1. /\ at = "stopping" /\ at' = "idle" /\ resets' = resets + 1
      /\ UNCHANGED <<stream, compVars, formatVars, poolVars, shown, todo>>
  BY DEF StopJoined, inVars
<1>2. TypeInv /\ TypeInv' /\ b \in Boards /\ state = "STOPPING"
  BY <1>1, StopJoinedKeeps, Unmoved DEF HeldInv, TypeInv, Serial
<1>3. b' = b /\ Quiet(b, b')
  BY <1>1, <1>2, Unmoved DEF compVars
<1>4. Shifts(todo, todo') /\ SameDevice(device, device')
  BY <1>1, <1>2, ShiftsPosts, Unmoved DEF formatVars
<1>5. Ordered'
  BY <1>1, <1>2, <1>3 DEF HeldInv, Ordered, Has, compVars
<1>6. Sound' => Sound
  BY <1>1, <1>2, <1>3 DEF Sound, compVars
<1>7. ASSUME Tracked PROVE Resets'
  <2>1. state' = "STOPPING"
    BY <1>1, <1>2 DEF compVars
  <2> QED BY <1>1, <1>3, <1>7, <2>1 DEF Tracked, Resets, Has, compVars
<1> QED BY <1>1, <1>2, <1>3, <1>4, <1>5, <1>6, <1>7, CourseHolds DEF formatVars, poolVars, compVars

\* FlushReturns keeps the invariant: the decoder was quiet since the flush was done.
LEMMA FlushReturnsHolds ==
  ASSUME HeldInv, FlushReturns
  PROVE  HeldInv'
<1>1. /\ client = "woken" /\ client' = "idle" /\ todo' = Append(todo, Plain("dequeueWork"))
      /\ reuse' = TRUE
      /\ UNCHANGED <<stream, state, works, b, last, pending, first, formatVars, poolVars, decVars, at>>
  BY DEF FlushReturns, Posts, inVars
<1>2. TypeInv /\ TypeInv' /\ b \in Boards /\ Quiet(b, b)
  BY FlushReturnsKeeps, Unmoved DEF HeldInv
<1>3. Shifts(todo, todo') /\ SameDevice(device, device')
  <2>1. Shifts(todo, todo')
    BY <1>1, <1>2, ShiftsPosts, PlainUnnoted DEF PlainOps
  <2> QED BY <1>1, <1>2, <2>1, Unmoved DEF formatVars
<1>4. Ordered'
  BY <1>1, <1>3, OrderedKept DEF HeldInv, Ordered
<1>5. Sound' => Sound
  BY <1>1 DEF Sound, decVars
<1>6. ASSUME Tracked PROVE Resets'
  <2>1. ~b.fed /\ ~Has(todo, "output") /\ b.toWork = <<>>
    BY <1>1, <1>6 DEF Tracked, Resets
  <2>2. state' # "FLUSHING" /\ at' # "flushDone"
    BY <1>1, <1>2 DEF TypeInv, Serial
  <2>3. (Has(todo', "output") => Has(todo, "output")) /\ (Has(todo', "resetDone") => Has(todo, "resetDone"))
    BY <1>3 DEF Shifts, Has, NotedOps
  <2>4. state' \in {"STARTED", "DRAINING"} => resets' = 0 /\ ~Has(todo', "resetDone")
    BY <1>1, <1>6, <2>3 DEF Tracked, Resets, decVars
  <2> QED BY <1>1, <2>1, <2>2, <2>3, <2>4 DEF Resets, Has
<1> QED BY <1>1, <1>2, <1>3, <1>4, <1>5, <1>6, CourseHolds DEF formatVars, poolVars, decVars

\* StopDone keeps the invariant: a stopped component has no block.
LEMMA StopDoneHolds ==
  ASSUME HeldInv, StopDone
  PROVE  HeldInv'
<1>1. /\ at = "stopDone" /\ at' = "idle" /\ state' = "UNINITIALIZED"
      /\ b' = [b EXCEPT !.infos = <<>>, !.toWork = <<>>, !.slot = {}, !.outputs = 0, !.error = FALSE]
      /\ UNCHANGED <<works, client, todo>>
  BY DEF StopDone
<1>2. TypeInv /\ TypeInv' /\ b \in Boards /\ state = "STOPPING" /\ client = "stopping"
  BY <1>1, StopDoneKeeps, Unmoved DEF HeldInv, TypeInv, Serial
<1>3. Ids(b') = {} /\ ~b'.error
  BY <1>1, <1>2, EmptyInfos DEF Ids, Boards
<1>4. SizesCurrent'
  BY <1>3 DEF SizesCurrent, Sized
<1>5. Ordered'
  BY <1>1, <1>2, <1>3 DEF HeldInv, Ordered, Has
<1>6. ~Sound'
  BY <1>1 DEF Sound
<1> QED BY <1>2, <1>4, <1>5, <1>6 DEF HeldInv

\* A task that was posted is the last one.
Ends(q, r, t) ==
  /\ DOMAIN r = DOMAIN q \cup {Len(r)} /\ Len(r) \notin DOMAIN q /\ r[Len(r)] = t
  /\ \A i \in DOMAIN q : r[i] = q[i] /\ i < Len(r)

\* Append gives such tasks.
LEMMA PostedLast ==
  ASSUME NEW q \in Seq(Tasks), NEW t \in Tasks
  PROVE  Ends(q, Append(q, t), t)
<1>1. /\ Append(q, t) \in Seq(Tasks) /\ Len(Append(q, t)) = Len(q) + 1 /\ Append(q, t)[Len(q) + 1] = t
      /\ \A i \in 1 .. Len(q) : Append(q, t)[i] = q[i]
  BY AppendProperties
<1>2. Len(q) \in Nat /\ DOMAIN q = 1 .. Len(q) /\ DOMAIN Append(q, t) = 1 .. Len(q) + 1
  BY <1>1, LenProperties
<1>3. 1 .. Len(q) + 1 = (1 .. Len(q)) \cup {Len(q) + 1} /\ Len(q) + 1 \notin 1 .. Len(q)
      /\ \A i \in 1 .. Len(q) : i < Len(q) + 1
  BY <1>2
<1> QED BY <1>1, <1>2, <1>3 DEF Ends

\* What a step that posts one task leaves of each part of the invariant.
LEMMA WaitingEnds ==
  ASSUME Waiting, NEW t, Ends(todo, todo', t), t.op \notin {"output", "formatChanged"},
         UNCHANGED <<stream, first, shown, pending, at>>, b'.decoder = b.decoder, b'.held \subseteq b.held
  PROVE  Waiting'
<1>1. \A i \in DOMAIN todo' : todo'[i].op \in {"output", "formatChanged"} => i \in DOMAIN todo /\ todo'[i] = todo[i]
  BY Zenon DEF Ends
<1>2. Has(todo', "output") => Has(todo, "output")
  BY <1>1 DEF Has
<1>3. \A i \in DOMAIN todo' : todo'[i].op = "formatChanged" =>
        /\ b'.decoder = "waiting" /\ pending' = {}
        /\ \A j \in DOMAIN todo' : /\ todo'[j].op = "formatChanged" => i = j
                                   /\ todo'[j].op = "output" => j < i
  BY <1>1 DEF Waiting
<1>4. b'.decoder # "running" => b'.held = {}
  BY DEF Waiting
<1> QED BY <1>2, <1>3, <1>4 DEF Waiting, Has

\* A task that is no answer to a reset, nor a picture of a decoder that was not fed.
LEMMA ResetsEnds ==
  ASSUME Resets, NEW t, Ends(todo, todo', t), t.op # "resetDone",
         t.op = "output" => b.fed,
         UNCHANGED <<resets, state, reuse, at>>, client' = "woken" => client = "woken",
         b'.fed = b.fed, b'.toWork = b.toWork
  PROVE  Resets'
<1>1. \A i \in DOMAIN todo' : todo'[i].op = "resetDone" => i \in DOMAIN todo /\ todo'[i] = todo[i]
  BY Zenon DEF Ends
<1>2. \A i \in DOMAIN todo' : todo'[i].op = "output" => (i \in DOMAIN todo /\ todo'[i] = todo[i]) \/ b.fed
  BY Zenon DEF Ends
<1>3. Has(todo', "resetDone") => Has(todo, "resetDone")
  BY <1>1 DEF Has
<1>4. Has(todo', "output") => Has(todo, "output") \/ b.fed
  BY <1>2 DEF Has
<1>5. state' = "FLUSHING" =>
        \A i \in DOMAIN todo' : todo'[i].op = "resetDone" =>
            /\ ~b'.fed
            /\ \A j \in DOMAIN todo' : /\ todo'[j].op = "resetDone" => i = j
                                       /\ todo'[j].op = "output" => j < i
  <2>1. SUFFICES ASSUME state = "FLUSHING", NEW i \in DOMAIN todo, todo[i].op = "resetDone"
                 PROVE  /\ ~b.fed
                        /\ \A j \in DOMAIN todo' : /\ todo'[j].op = "resetDone" => i = j
                                                   /\ todo'[j].op = "output" => j < i
    BY <1>1
  <2>2. /\ ~b.fed
        /\ \A j \in DOMAIN todo : /\ todo[j].op = "resetDone" => i = j
                                  /\ todo[j].op = "output" => j < i
    BY <2>1 DEF Resets
  <2> QED BY <1>1, <1>2, <2>2
<1> QED BY <1>3, <1>4, <1>5 DEF Resets

\* A picture in a block that the decoder had.
LEMMA HeldEnds ==
  ASSUME HeldOn(b, todo), NEW t, Ends(todo, todo', t),
         t.op = "output" => t.id \in b.held \ b'.held,
         b'.infos = b.infos, b'.toWork = b.toWork, b'.held \subseteq b.held
  PROVE  HeldOn(b, todo)'
<1>1. Ids(b') = Ids(b) /\ \A o : OwnedBy(b', o) = OwnedBy(b, o)
  BY DEF Ids, OwnedBy
<1>2. HeldBy(b') /\ Queued(b')
  BY <1>1 DEF HeldOn, HeldBy, Queued
<1>3. Shown(b', todo')
  <2>1. \A i \in DOMAIN todo' : todo'[i].op = "output" =>
          \/ i \in DOMAIN todo /\ todo'[i] = todo[i]
          \/ i = Len(todo') /\ todo'[i] = t /\ t.id \in b.held \ b'.held
    BY Zenon DEF Ends
  <2>2. \A i \in DOMAIN todo : todo[i].op = "output" =>
          /\ todo[i].id \in OwnedBy(b, "accelerator") /\ todo[i].id \notin b.held
          /\ \A j \in DOMAIN todo : todo[j].op = "output" /\ todo[i].id = todo[j].id => i = j
    BY DEF HeldOn, Shown
  <2>3. b.held \subseteq OwnedBy(b, "accelerator")
    BY DEF HeldOn, HeldBy
  <2> QED BY <1>1, <2>1, <2>2, <2>3 DEF Shown
<1> QED BY <1>2, <1>3 DEF HeldOn

\* A task that brings no block.
LEMMA BoundEnds ==
  ASSUME BoundOn(b, todo, pool), NEW t, Ends(todo, todo', t), t.op \notin BlockOps,
         b'.infos = b.infos, pool' = pool
  PROVE  BoundOn(b, todo, pool)'
<1>1. Ids(b') = Ids(b) /\ \A o : OwnedBy(b', o) = OwnedBy(b, o)
  BY DEF Ids, OwnedBy
<1>2. \A i \in DOMAIN todo' : todo'[i].op \in BlockOps => i \in DOMAIN todo /\ todo'[i] = todo[i]
  BY Zenon DEF Ends
<1>3. BackFrom(b', todo', pool')
  BY <1>1, <1>2 DEF BoundOn, BackFrom, BlockOps
<1> QED BY <1>1, <1>3 DEF BoundOn, InPool

\* ClientCalls keeps the invariant: while it flushes, the client queues nothing.
LEMMA ClientCallsHolds ==
  ASSUME HeldInv, ClientCalls
  PROVE  HeldInv'
<1>1. \A kind, task, place : Calls(kind, task, place) =>
        /\ client = "idle" /\ client' = place /\ todo' = Append(todo, task)
        /\ UNCHANGED <<stream, state, works, b, last, pending, first, reuse, formatVars, poolVars, decVars, at>>
  BY DEF Calls, Posts
<1>2. PICK task \in Tasks :
        /\ client = "idle" /\ client' \in {"idle", "flushing", "stopping"} /\ todo' = Append(todo, task)
        /\ task.op \in {"queueWork", "drain", "flush", "stop"}
        /\ UNCHANGED <<stream, state, works, b, last, pending, first, reuse, formatVars, poolVars, decVars, at>>
  <2>1. ASSUME NEW kind \in {"data", "eos"}
        PROVE  LET t == [op |-> "queueWork", kind |-> kind] IN t \in Tasks /\ t.op = "queueWork"
    BY DEF Tasks
  <2>2. \A op \in {"drain", "flush", "stop"} : Plain(op) \in Tasks /\ Plain(op).op = op
    BY PlainTasks DEF PlainOps
  <2> QED BY <1>1, <2>1, <2>2 DEF ClientCalls
<1>3. TypeInv /\ TypeInv' /\ todo \in Seq(Tasks)
  BY ClientCallsKeeps DEF HeldInv, TypeInv, TypesOK
<1>4. Ends(todo, todo', task) /\ task.op \notin BlockOps
  BY <1>2, <1>3, PostedLast DEF BlockOps
<1>5. SizesCurrent'
  BY <1>2 DEF HeldInv, SizesCurrent, formatVars
<1>6. Ordered'
  <2>1. state # "FLUSHING" /\ ~Has(todo, "flush")
    BY <1>2, <1>3 DEF TypeInv, Serial
  <2>2. \A i \in DOMAIN todo' : \/ i \in DOMAIN todo /\ todo'[i] = todo[i]
                                \/ i = Len(todo') /\ todo'[i] = task
    BY Zenon, <1>4 DEF Ends
  <2>3. \A i \in DOMAIN todo : i < Len(todo')
    BY <1>4 DEF Ends
  <2>4. \A i, j \in DOMAIN todo' : todo'[i].op = "flush" /\ todo'[j].op = "queueWork" => j < i
    <3>1. \A i \in DOMAIN todo' : todo'[i].op = "flush" => i = Len(todo') /\ task.op = "flush"
      BY <2>1, <2>2 DEF Has
    <3>2. \A j \in DOMAIN todo' : todo'[j].op = "queueWork" => j \in DOMAIN todo \/ task.op = "queueWork"
      BY <2>2
    <3> QED BY <2>3, <3>1, <3>2
  <2> QED BY <1>2, <2>1, <2>4 DEF HeldInv, Ordered
<1>7. ASSUME Sound' PROVE Tracked'
  <2>1. Tracked
    BY <1>2, <1>7 DEF HeldInv, Sound, decVars
  <2>2. Waiting'
    BY <1>2, <1>4, <2>1, WaitingEnds DEF Tracked, decVars
  <2>3. Resets'
    BY <1>2, <1>4, <2>1, ResetsEnds DEF Tracked, decVars
  <2>4. HeldOn(b, todo)'
    BY <1>2, <1>4, <2>1, HeldEnds DEF Tracked
  <2>5. BoundOn(b, todo, pool)'
    BY <1>2, <1>4, <2>1, BoundEnds DEF Tracked, poolVars
  <2> QED BY <2>2, <2>3, <2>4, <2>5 DEF Tracked
<1> QED BY <1>3, <1>5, <1>6, <1>7 DEF HeldInv

\* Decode keeps the invariant: the decoder has the block, so no change or flush is on its way.
LEMMA DecodeHolds ==
  ASSUME HeldInv, Decode
  PROVE  HeldInv'
<1>1. PICK id \in b.held :
        /\ b.fed /\ todo' = Append(todo, [op |-> "output", id |-> id])
        /\ b' = [b EXCEPT !.held = @ \ {id}]
        /\ UNCHANGED <<stream, state, works, last, pending, first, client, reuse, formatVars, poolVars,
                       decVars, at>>
  BY DEF Decode, Posts, inVars
<1> DEFINE task == [op |-> "output", id |-> id]
<1>2. TypeInv /\ TypeInv' /\ todo \in Seq(Tasks) /\ b \in Boards /\ b.held \subseteq Nat
  BY DecodeKeeps, Unmoved DEF HeldInv, TypeInv, TypesOK, Boards
<1>3. task \in Tasks /\ task.op = "output" /\ task.id = id
  BY <1>1, <1>2 DEF Tasks
<1>4. todo' = Append(todo, task)
  BY <1>1
<1> HIDE DEF task
<1>5. Ends(todo, todo', task)
  BY <1>2, <1>3, <1>4, PostedLast
<1>6. /\ b'.infos = b.infos /\ b'.toWork = b.toWork /\ b'.held = b.held \ {id} /\ b'.decoder = b.decoder
      /\ b'.fed = b.fed /\ b'.failed = b.failed /\ b'.error = b.error
  BY <1>1, <1>2 DEF Boards
<1>7. SizesCurrent'
  BY <1>1, <1>6 DEF HeldInv, SizesCurrent, formatVars, Sized, Ids
<1>8. Ordered'
  <2>1. \A i \in DOMAIN todo' : todo'[i].op \in {"flush", "queueWork"} => i \in DOMAIN todo /\ todo'[i] = todo[i]
    BY Zenon, <1>3, <1>5 DEF Ends
  <2>2. Has(todo', "queueWork") => Has(todo, "queueWork")
    BY <2>1 DEF Has
  <2>3. \A i, j \in DOMAIN todo' : todo'[i].op = "flush" /\ todo'[j].op = "queueWork" => j < i
    BY <2>1 DEF HeldInv, Ordered
  <2> QED BY <1>1, <1>6, <2>2, <2>3 DEF HeldInv, Ordered
<1>9. ASSUME Sound' PROVE Tracked'
  <2>1. Tracked
    BY <1>1, <1>6, <1>9 DEF HeldInv, Sound, decVars
  <2>2. b.decoder = "running" /\ pending = {} /\ ~Has(todo, "formatChanged") /\ at \notin {"change", "allocate"}
        /\ shown # 0
    <3>1. b.decoder = "running"
      BY <1>1, <2>1 DEF Tracked, Waiting
    <3> QED BY <2>1, <3>1 DEF Tracked, Waiting, Has
  <2>3. Waiting'
    <3>1. ~Has(todo', "formatChanged")
      BY Zenon, <1>3, <1>5, <2>2 DEF Ends, Has
    <3> QED BY <1>1, <1>6, <2>2, <3>1 DEF Waiting, Has, decVars
  <2>4. Resets'
    BY <1>1, <1>3, <1>5, <1>6, <2>1, ResetsEnds DEF Tracked, decVars
  <2>5. HeldOn(b, todo)'
    <3>1. task.id \in b.held \ b'.held /\ b'.held \subseteq b.held
      BY <1>1, <1>3, <1>6
    <3> QED BY <1>5, <1>6, <2>1, <3>1, HeldEnds DEF Tracked
  <2>6. BoundOn(b, todo, pool)'
    BY <1>1, <1>3, <1>5, <1>6, <2>1, BoundEnds DEF Tracked, poolVars, BlockOps
  <2> QED BY <2>3, <2>4, <2>5, <2>6 DEF Tracked
<1> QED BY <1>2, <1>7, <1>8, <1>9 DEF HeldInv

\* NotifyResetDone keeps the invariant: the decoder stops with it.
LEMMA NotifyResetDoneHolds ==
  ASSUME HeldInv, NotifyResetDone
  PROVE  HeldInv'
<1>1. /\ resets > 0 /\ resets' = resets - 1 /\ todo' = Append(todo, Plain("resetDone"))
      /\ b' = [b EXCEPT !.held = {}, !.fed = FALSE]
      /\ UNCHANGED <<stream, state, works, last, pending, first, client, reuse, formatVars, poolVars, shown, at>>
  BY DEF NotifyResetDone, Posts, inVars
<1>2. TypeInv /\ TypeInv' /\ todo \in Seq(Tasks) /\ b \in Boards
  BY NotifyResetDoneKeeps, Unmoved DEF HeldInv, TypeInv, TypesOK
<1> DEFINE task == Plain("resetDone")
<1>3. task \in Tasks /\ task.op = "resetDone" /\ task.op \notin BlockOps
  BY PlainTasks DEF PlainOps, BlockOps
<1> HIDE DEF task
<1>4. Ends(todo, todo', task)
  BY <1>1, <1>2, <1>3, PostedLast DEF task
<1>5. /\ b'.infos = b.infos /\ b'.toWork = b.toWork /\ b'.held = {} /\ b'.decoder = b.decoder
      /\ b'.fed = FALSE /\ b'.failed = b.failed /\ b'.error = b.error
  BY <1>1, <1>2 DEF Boards
<1>6. SizesCurrent'
  BY <1>1, <1>5 DEF HeldInv, SizesCurrent, formatVars, Sized, Ids
<1>7. \A i \in DOMAIN todo' : todo'[i].op # "resetDone" => i \in DOMAIN todo /\ todo'[i] = todo[i]
  BY Zenon, <1>3, <1>4 DEF Ends
<1>8. Ordered'
  <2>1. Has(todo', "queueWork") => Has(todo, "queueWork")
    BY <1>7 DEF Has
  <2>2. \A i, j \in DOMAIN todo' : todo'[i].op = "flush" /\ todo'[j].op = "queueWork" => j < i
    BY <1>7 DEF HeldInv, Ordered
  <2> QED BY <1>1, <1>5, <2>1, <2>2 DEF HeldInv, Ordered
<1>9. ASSUME Sound' PROVE Tracked'
  <2>1. Tracked
    BY <1>1, <1>5, <1>9 DEF HeldInv, Sound
  <2>2. Waiting'
    BY <1>1, <1>3, <1>4, <1>5, <2>1, WaitingEnds DEF Tracked
  <2>3. Resets'
    <3>1. resets \in Nat
      BY <1>2 DEF TypeInv, TypesOK
    <3>2. state \notin {"STARTED", "DRAINING"}
      BY <1>1, <2>1 DEF Tracked, Resets
    <3>3. state = "FLUSHING" => resets = 1 /\ ~Has(todo, "resetDone") /\ at # "flushDone"
      <4>1. state = "FLUSHING" => resets <= 1
        BY <2>1 DEF Tracked, Resets
      <4>2. state = "FLUSHING" => resets = 1
        BY <1>1, <3>1, <4>1
      <4> QED BY <2>1, <4>2 DEF Tracked, Resets
    <3>4. state = "FLUSHING" => \A i \in DOMAIN todo' : todo'[i].op = "resetDone" =>
            \A j \in DOMAIN todo' : /\ todo'[j].op = "resetDone" => i = j
                                    /\ todo'[j].op = "output" => j < i
      <4>1. SUFFICES ASSUME state = "FLUSHING", NEW i \in DOMAIN todo', todo'[i].op = "resetDone", NEW j \in DOMAIN todo'
                     PROVE  /\ todo'[j].op = "resetDone" => i = j
                            /\ todo'[j].op = "output" => j < i
        OBVIOUS
      <4>2. \A k \in DOMAIN todo' : todo'[k].op = "resetDone" => k = Len(todo')
        BY Zenon, <1>4, <3>3, <4>1 DEF Ends, Has
      <4>3. todo'[j].op = "output" => j < Len(todo')
        BY Zenon, <1>3, <1>4 DEF Ends
      <4> QED BY <4>1, <4>2, <4>3
    <3>5. Has(todo', "output") => Has(todo, "output")
      BY <1>7 DEF Has
    <3>6. client' = "woken" \/ reuse' \/ at' = "flushDone" => ~Has(todo', "output")
      BY <1>1, <2>1, <3>5 DEF Tracked, Resets
    <3>7. client' = "woken" \/ reuse' => b'.toWork = <<>>
      BY <1>1, <1>5, <2>1 DEF Tracked, Resets
    <3>8. state' = "FLUSHING" => resets' = 0 /\ at' # "flushDone"
      BY <1>1, <3>3
    <3> QED BY <1>1, <1>5, <3>2, <3>4, <3>6, <3>7, <3>8 DEF Resets
  <2>4. HeldOn(b, todo)'
    BY <1>3, <1>4, <1>5, <2>1, HeldEnds DEF Tracked
  <2>5. BoundOn(b, todo, pool)'
    BY <1>1, <1>3, <1>4, <1>5, <2>1, BoundEnds DEF Tracked, poolVars
  <2> QED BY <2>2, <2>3, <2>4, <2>5 DEF Tracked
<1> QED BY <1>2, <1>6, <1>8, <1>9 DEF HeldInv

\* ProvidePictureBuffers keeps the invariant: the pictures before the change are ahead of it.
LEMMA ProvidePictureBuffersHolds ==
  ASSUME HeldInv, ProvidePictureBuffers
  PROVE  HeldInv'
<1>1. PICK f :
        /\ b.fed /\ b.decoder # "waiting"
        /\ device' = QueryStreamBitDepth(device, stream.depth)
        /\ todo' = Append(todo, [op |-> "formatChanged", format |-> f]) /\ shown' = shown + 1
        /\ b' = [b EXCEPT !.decoder = "waiting", !.held = {}]
        /\ UNCHANGED <<stream, state, works, last, pending, first, client, reuse, format, poolVars, resets, at>>
  BY DEF ProvidePictureBuffers, Posts, inVars
<1> DEFINE task == [op |-> "formatChanged", format |-> f]
<1>2. TypeInv /\ TypeInv' /\ todo \in Seq(Tasks) /\ todo' \in Seq(Tasks) /\ b \in Boards /\ shown \in Nat
  BY ProvidePictureBuffersKeeps, Unmoved DEF HeldInv, TypeInv, TypesOK
<1>3. task.op = "formatChanged" /\ todo' = Append(todo, task)
  BY <1>1
<1> HIDE DEF task
<1>4. Ends(todo, todo', task)
  <2>1. Len(todo) \in Nat /\ DOMAIN todo = 1 .. Len(todo)
    BY <1>2, LenProperties
  <2>2. /\ Len(todo') = Len(todo) + 1 /\ DOMAIN todo' = 1 .. Len(todo) + 1 /\ todo'[Len(todo) + 1] = task
        /\ \A i \in 1 .. Len(todo) : todo'[i] = todo[i]
    BY <1>2, <1>3, <2>1
  <2>3. 1 .. Len(todo) + 1 = (1 .. Len(todo)) \cup {Len(todo) + 1} /\ Len(todo) + 1 \notin 1 .. Len(todo)
        /\ \A i \in 1 .. Len(todo) : i < Len(todo) + 1
    BY <2>1
  <2> QED BY <2>1, <2>2, <2>3 DEF Ends
<1>5. /\ b'.infos = b.infos /\ b'.toWork = b.toWork /\ b'.held = {} /\ b'.decoder = "waiting"
      /\ b'.fed = b.fed /\ b'.failed = b.failed /\ b'.error = b.error
  BY <1>1, <1>2 DEF Boards
<1>6. SizesCurrent'
  <2>1. SameDevice(device, device')
    BY <1>1, <1>2, DeviceKept DEF TypeInv, TypesOK
  <2>2. Ids(b') = Ids(b)
    BY <1>5 DEF Ids
  <2> QED BY <1>1, <1>5, <2>1, <2>2, SizedKept DEF HeldInv
<1>7. \A i \in DOMAIN todo' : todo'[i].op # "formatChanged" => i \in DOMAIN todo /\ todo'[i] = todo[i]
  BY <1>3, <1>4 DEF Ends
<1>8. Ordered'
  <2>1. Has(todo', "queueWork") => Has(todo, "queueWork")
    BY <1>7 DEF Has
  <2>2. \A i, j \in DOMAIN todo' : todo'[i].op = "flush" /\ todo'[j].op = "queueWork" => j < i
    BY <1>7 DEF HeldInv, Ordered
  <2> QED BY <1>1, <1>5, <2>1, <2>2 DEF HeldInv, Ordered
<1>9. ASSUME Sound' PROVE Tracked'
  <2>1. Sound
    <3>1. shown + 1 <= 1 => shown <= 1
      BY <1>2
    <3> QED BY <1>1, <1>5, <1>9, <3>1 DEF Sound
  <2>2. Tracked
    BY <2>1 DEF HeldInv
  <2>3. pending = {} /\ ~Has(todo, "formatChanged") /\ at \notin {"change", "allocate"}
    BY <1>1, <2>2 DEF Tracked, Waiting, Has
  <2>4. ~stream.surface => ~first
    <3>1. ~stream.surface => shown = 0
      <4>1. ~stream.surface => shown + 1 <= 1
        BY <1>1, <1>9 DEF Sound
      <4> QED BY <1>2, <4>1
    <3> QED BY <2>2, <3>1 DEF Tracked, Waiting
  <2>5. Waiting'
    <3>1. \A i \in DOMAIN todo' : todo'[i].op = "formatChanged" => i = Len(todo')
      BY Zenon, <1>4, <2>3 DEF Ends, Has
    <3>2. \A j \in DOMAIN todo' : todo'[j].op = "output" => j < Len(todo')
      BY <1>3, <1>4 DEF Ends
    <3>3. \A i \in DOMAIN todo' : todo'[i].op = "formatChanged" =>
             \A j \in DOMAIN todo' : /\ todo'[j].op = "formatChanged" => i = j
                                     /\ todo'[j].op = "output" => j < i
      BY <3>1, <3>2
    <3>4. shown' # 0
      BY <1>1, <1>2
    <3> QED BY <1>1, <1>5, <2>3, <2>4, <3>3, <3>4 DEF Waiting
  <2>6. Resets'
    BY <1>1, <1>3, <1>4, <1>5, <2>2, ResetsEnds DEF Tracked
  <2>7. HeldOn(b, todo)'
    BY <1>3, <1>4, <1>5, <2>2, HeldEnds DEF Tracked
  <2>8. BoundOn(b, todo, pool)'
    BY <1>1, <1>3, <1>4, <1>5, <2>2, BoundEnds DEF Tracked, poolVars, BlockOps
  <2> QED BY <2>5, <2>6, <2>7, <2>8 DEF Tracked
<1> QED BY <1>2, <1>6, <1>8, <1>9 DEF HeldInv

\* The pool keeps the ids it gave, and gives one to a block it has not seen.
LEMMA PoolGrows ==
  ASSUME TypeInv, NEW block, Known(block)
  PROVE  /\ DOMAIN pool' = DOMAIN pool \cup {block} /\ pool'[block] = IdOf(block)
         /\ \A x \in DOMAIN pool : pool'[x] = pool[x]
<1>1. CASE block \in DOMAIN pool
  BY <1>1 DEF Known, IdOf, poolVars
<1>2. CASE block \notin DOMAIN pool
  <2>1. pool' = [k \in DOMAIN pool \cup {block} |-> IdOf(k)]
    BY <1>2 DEF Known
  <2>2. \A x \in DOMAIN pool : IdOf(x) = pool[x]
    BY DEF IdOf
  <2> QED BY <2>1, <2>2
<1> QED BY <1>1, <1>2

\* A fetched block that the component has is one the client gave back.
LEMMA FetchedBack ==
  ASSUME TypeInv, InPool(b, pool), NEW block, block \notin InUse, IdOf(block) \in Ids(b)
  PROVE  IdOf(block) \in OwnedBy(b, "client")
<1> DEFINE id == IdOf(block)
<1>1. b.infos[id].block \in DOMAIN pool /\ pool[b.infos[id].block] = id
  BY DEF InPool
<1>2. \A x \in DOMAIN pool : pool[x] \in Nat /\ pool[x] < nextId
  BY DEF TypeInv, TypesOK, Pooled
<1>3. block \in DOMAIN pool
  <2>1. CASE block \notin DOMAIN pool
    <3>1. id = nextId /\ nextId \in Nat
      BY <2>1 DEF IdOf, TypeInv, TypesOK
    <3>2. pool[b.infos[id].block] < nextId
      BY <1>1, <1>2
    <3> HIDE DEF id
    <3> QED BY <1>1, <3>1, <3>2
  <2> QED BY <2>1
<1>4. b.infos[id].block = block
  <2>1. pool[block] = id
    BY <1>3 DEF IdOf
  <2> QED BY <1>1, <1>3, <2>1 DEF TypeInv, Pooled
<1>5. b \in Boards /\ id \in Ids(b)
  BY Unmoved
<1> HIDE DEF id
<1>6. b.infos[id].owner \in Owners
  BY <1>5, BoardInfos DEF Infos
<1>7. id \notin OwnedBy(b, "component") \cup OwnedBy(b, "accelerator")
  BY <1>4 DEF InUse
<1>8. id \in OwnedBy(b, "client")
  BY <1>5, <1>6, <1>7 DEF OwnedBy, Owners
<1> QED BY <1>8 DEF id

\* The blocks that come back, when the pool has one more and that one may be on its way.
LEMMA BoundGrows ==
  ASSUME TypeInv, BoundOn(b, todo, pool), NEW block, block \notin InUse, NEW p, NEW r, NEW task,
         DOMAIN p = DOMAIN pool \cup {block}, \A x \in DOMAIN pool : p[x] = pool[x],
         r = todo \/ Ends(todo, r, task),
         task.op = IF IdOf(block) \in Ids(b) THEN "returned" ELSE "new", task.block = block, task.id = IdOf(block)
  PROVE  BoundOn(b, r, p)
<1>1. InPool(b, p)
  BY DEF BoundOn, InPool
<1>2. \A i \in DOMAIN todo : todo[i].op \in BlockOps => todo[i].block # block
  BY DEF InUse, BlockOps
<1>3. \A i \in DOMAIN r : (i \in DOMAIN todo /\ r[i] = todo[i]) \/ (i = Len(r) /\ r[i] = task /\ i \notin DOMAIN todo)
  BY DEF Ends
<1>4. ASSUME NEW i \in DOMAIN r, r[i].op = "returned"
      PROVE  /\ r[i].id \in Ids(b) => r[i].block \in DOMAIN p /\ r[i].id \in OwnedBy(b, "client")
             /\ r[i].block \notin DOMAIN p =>
                  \A j \in DOMAIN r : r[j].op = "new" /\ r[j].block \in DOMAIN p /\ r[i].id = r[j].id => i < j
  <2>1. CASE i \in DOMAIN todo /\ r[i] = todo[i]
    <3>1. r[i].id \in Ids(b) => r[i].block \in DOMAIN p /\ r[i].id \in OwnedBy(b, "client")
      BY <1>4, <2>1 DEF BoundOn, BackFrom
    <3>2. ASSUME r[i].block \notin DOMAIN p, NEW j \in DOMAIN r, r[j].op = "new", r[j].block \in DOMAIN p, r[i].id = r[j].id
          PROVE  i < j
      <4>1. CASE j \in DOMAIN todo /\ r[j] = todo[j]
        <5>1. todo[j].block \in DOMAIN pool
          BY <1>2, <3>2, <4>1 DEF BlockOps
        <5> QED BY <1>4, <2>1, <3>2, <4>1, <5>1 DEF BoundOn, BackFrom
      <4>2. CASE j = Len(r) /\ j \notin DOMAIN todo
        <5>1. Ends(todo, r, task)
          BY <3>2, <4>2
        <5> QED BY <2>1, <4>2, <5>1 DEF Ends
      <4> QED BY <1>3, <4>1, <4>2
    <3> QED BY <3>1, <3>2
  <2>2. CASE r[i] = task
    <3>1. IdOf(block) \in Ids(b)
      BY <1>4, <2>2
    <3>2. IdOf(block) \in OwnedBy(b, "client")
      BY <3>1, FetchedBack DEF BoundOn
    <3> QED BY <2>2, <3>2
  <2> QED BY <1>3, <2>1, <2>2
<1> QED BY <1>1, <1>4 DEF BoundOn, BackFrom

\* FetchGraphicBlock keeps the invariant: only a block nobody uses is fetched.
LEMMA FetchGraphicBlockHolds ==
  ASSUME HeldInv, FetchGraphicBlock
  PROVE  HeldInv'
<1>1. PICK size \in fetch :
        /\ \/ \E block \in Available(AlignedSize(device, size)) :
                /\ Known(block)
                /\ \/ Posts([op |-> IF IsCompHaveCurrentBlock(block) THEN "returned" ELSE "new",
                             block |-> block, id |-> IdOf(block)])
                   \/ UNCHANGED todo
           \/ UNCHANGED <<todo, poolVars>>
        /\ UNCHANGED <<inVars, compVars, formatVars, decVars, at>>
  BY DEF FetchGraphicBlock
<1>2. TypeInv /\ TypeInv' /\ todo \in Seq(Tasks) /\ b' = b /\ Quiet(b, b)
  <2>1. b' = b
    BY <1>1 DEF compVars
  <2> QED BY <2>1, FetchGraphicBlockKeeps, Unmoved DEF HeldInv, TypeInv, TypesOK
<1>3. CASE UNCHANGED <<todo, poolVars>>
  <2>1. Shifts(todo, todo') /\ SameDevice(device, device')
    BY <1>1, <1>2, <1>3, ShiftsPosts, Unmoved DEF formatVars
  <2>2. client' = "woken" => client = "woken" /\ works' = <<>>
    BY <1>1 DEF HeldInv, Ordered, compVars
  <2>3. Passing
    <3>1. Leaves(b, b')
      BY <1>2, QuietHeld DEF Stays
    <3> QED BY <1>1, <1>2, <1>3, <2>1, <2>2, <3>1 DEF Passing, inVars, formatVars, poolVars, decVars, compVars
  <2> QED BY <1>2, <2>3, QuietPassing
<1>4. ASSUME NEW block \in Available(AlignedSize(device, size)), Known(block),
             \/ Posts([op |-> IF IsCompHaveCurrentBlock(block) THEN "returned" ELSE "new",
                       block |-> block, id |-> IdOf(block)])
             \/ UNCHANGED todo
      PROVE  HeldInv'
  <2> DEFINE new == IF IdOf(block) \in Ids(b) THEN "returned" ELSE "new"
             task == [op |-> new, block |-> block, id |-> IdOf(block)]
  <2>1. task.op = new /\ task.block = block /\ task.id = IdOf(block) /\ new \in BlockOps
    BY DEF BlockOps
  <2>2. task \in Tasks
    <3>1. size \in Sizes
      BY <1>2 DEF TypeInv, TypesOK
    <3>2. block \in Blocks
      BY <1>2, <3>1, AvailableBlocks
    <3>3. IdOf(block) \in Nat
      BY <1>2 DEF IdOf, TypeInv, TypesOK
    <3> QED BY <2>1, <3>2, <3>3 DEF Tasks
  <2>3. todo' = todo \/ todo' = Append(todo, task)
    BY <1>4 DEF Posts, IsCompHaveCurrentBlock
  <2> HIDE DEF task
  <2>4. todo' = todo \/ Ends(todo, todo', task)
    BY <1>2, <2>2, <2>3, PostedLast
  <2>5. task.op \in {"returned", "new"} /\ task.op = IF IdOf(block) \in Ids(b) THEN "returned" ELSE "new"
    BY <2>1 DEF BlockOps
  <2> HIDE DEF new
  <2>6. block \notin InUse
    BY DEF Available
  <2>7. \A i \in DOMAIN todo' : todo'[i].op \in {"flush", "queueWork"} => i \in DOMAIN todo /\ todo'[i] = todo[i]
    BY <2>4, <2>5 DEF Ends
  <2>8. SizesCurrent'
    BY <1>1, <1>2 DEF HeldInv, SizesCurrent, formatVars, compVars
  <2>9. Ordered'
    <3>1. Has(todo', "queueWork") => Has(todo, "queueWork")
      BY <2>7 DEF Has
    <3>2. \A i, j \in DOMAIN todo' : todo'[i].op = "flush" /\ todo'[j].op = "queueWork" => j < i
      BY <2>7 DEF HeldInv, Ordered
    <3> QED BY <1>1, <3>1, <3>2 DEF HeldInv, Ordered, compVars
  <2>10. ASSUME Sound' PROVE Tracked'
    <3>1. Tracked
      BY <1>1, <2>10 DEF HeldInv, Sound, inVars, compVars, decVars
    <3>2. BoundOn(b', todo', pool')
      <4>1. /\ DOMAIN pool' = DOMAIN pool \cup {block} /\ \A x \in DOMAIN pool : pool'[x] = pool[x]
        BY <1>2, <1>4, PoolGrows
      <4>2. BoundOn(b, todo', pool')
        BY <1>2, <2>1, <2>4, <2>5, <2>6, <3>1, <4>1, BoundGrows DEF Tracked
      <4> QED BY <1>2, <4>2
    <3>3. UNCHANGED <<stream, first, shown, pending, at, resets, state, reuse, client>>
      BY <1>1 DEF inVars, compVars, decVars
    <3>4. CASE todo' = todo
      <4>1. Waiting' /\ Resets' /\ HeldOn(b', todo')
        BY <1>2, <3>1, <3>3, <3>4 DEF Tracked, Waiting, Resets, Has
      <4> QED BY <3>2, <4>1 DEF Tracked
    <3>5. CASE Ends(todo, todo', task)
      <4>1. Waiting'
        BY <1>2, <2>5, <3>1, <3>3, <3>5, WaitingEnds DEF Tracked
      <4>2. Resets'
        BY <1>2, <2>5, <3>1, <3>3, <3>5, ResetsEnds DEF Tracked
      <4>3. HeldOn(b, todo)'
        BY <1>2, <2>5, <3>1, <3>5, HeldEnds DEF Tracked
      <4> QED BY <3>2, <4>1, <4>2, <4>3 DEF Tracked
    <3> QED BY <2>4, <3>4, <3>5
  <2> QED BY <1>2, <2>8, <2>9, <2>10 DEF HeldInv
<1> QED BY <1>1, <1>3, <1>4

\* The initial states have no block, no task and a decoder that was not fed.
LEMMA HeldInit == Init => HeldInv
<1> SUFFICES ASSUME Init PROVE HeldInv
  OBVIOUS
<1>1. TypeInv
  BY TypeInit
<1>2. /\ state = "STARTED" /\ todo = <<>> /\ at = "idle" /\ works = <<>> /\ b = NoBlocks /\ pending = {}
      /\ client = "idle" /\ resets = 0 /\ shown = 0 /\ first = FALSE /\ reuse = FALSE
  BY DEF Init
<1>3. DOMAIN todo = {}
  BY <1>2, EmptyInfos
<1>4. Ids(b) = {} /\ b.held = {} /\ b.decoder = "none" /\ b.fed = FALSE /\ b.toWork = <<>> /\ b.error = FALSE
  BY <1>2, EmptyInfos DEF NoBlocks, Ids
<1>5. SizesCurrent
  BY <1>4 DEF SizesCurrent, Sized
<1>6. Ordered
  BY <1>2, <1>3, <1>4 DEF Ordered, Has
<1>7. Waiting /\ Resets
  BY <1>2, <1>3, <1>4 DEF Waiting, Resets, Has
<1>8. HeldOn(b, todo)
  BY <1>3, <1>4 DEF HeldOn, HeldBy, Shown, Queued
<1>9. BoundOn(b, todo, pool)
  BY <1>3, <1>4 DEF BoundOn, InPool, BackFrom
<1> QED BY <1>1, <1>5, <1>6, <1>7, <1>8, <1>9 DEF HeldInv, Tracked

\* Every step keeps the invariant.
LEMMA HeldStep == HeldInv /\ [Next]_vars => HeldInv'
<1> SUFFICES ASSUME HeldInv, [Next]_vars PROVE HeldInv'
  OBVIOUS
<1>1. CASE ComponentThread
  BY <1>1, QueueWorkHolds, DequeueWorkHolds, DrainHolds, OutputBufferDoneHolds, SendOutputBufferToWorkIfAnyHolds,
     TryChangeAgainHolds, OutputFormatChangedHolds, OutputBufferReturnedHolds, NewBlockBufferFetchedHolds,
     AllocateBuffersHolds, VideoResolutionChangeHolds, ResetDoneHolds, FlushDoneHolds, StopDoneHolds,
     FlushHolds, StopHolds, StopJoinedHolds, DrainDoneHolds, DrainSentHolds, DroppedHolds
  DEF ComponentThread
<1>2. CASE DequeueThread
  BY <1>2, LoopsHold, FetchGraphicBlockHolds DEF DequeueThread
<1>3. CASE Decoder
  BY <1>3, ProvidePictureBuffersHolds, DecodeHolds, NotifyFlushDoneHolds, NotifyResetDoneHolds DEF Decoder
<1>4. CASE Client
  BY <1>4, ClientCallsHolds, FlushReturnsHolds, LoopsHold DEF Client
<1>5. CASE UNCHANGED vars
  <2>1. UNCHANGED <<inVars, compVars, formatVars, loopVars, poolVars, decVars, todo, at, haveDrain, withClient>>
    BY <1>5 DEF vars
  <2>2. TypeInv /\ TypeInv'
    BY TypeStep DEF HeldInv
  <2>3. Quiet(b, b') /\ b' = b
    BY <2>1, <2>2, Unmoved DEF compVars
  <2>4. Shifts(todo, todo') /\ SameDevice(device, device') /\ Stays(b, b')
    BY <2>1, <2>2, <2>3, ShiftsPosts, Unmoved DEF formatVars
  <2>5. client' = "woken" => client = "woken" /\ works' = <<>>
    BY <2>1 DEF HeldInv, Ordered, compVars
  <2>6. Passing
    BY <2>1, <2>3, <2>4, <2>5 DEF Passing, Stays, inVars, formatVars, poolVars, decVars, compVars
  <2> QED BY <2>2, <2>3, <2>6, QuietPassing
<1> QED BY <1>1, <1>2, <1>3, <1>4, <1>5 DEF Next

\* What the invariant says of the decoder's blocks.
LEMMA HeldGives ==
  ASSUME HeldInv
  PROVE  HeldIsCurrent
<1> SUFFICES ASSUME b.decoder = "running", ~b.failed, state # "UNINITIALIZED", stream.surface \/ shown = 1
             PROVE  /\ \A id \in b.held :
                         /\ id \in OwnedBy(b, "accelerator") /\ b.infos[id].fdSet
                         /\ SizeOf(b.infos[id].block) \in
                              {format.size, AlignedSize(device, format.size), ForcedSize(device, format.size)}
                    /\ \A i \in DOMAIN todo : todo[i].op = "output" => todo[i].id \in Ids(b)
  BY DEF HeldIsCurrent
<1>1. Tracked
  BY DEF Sound, HeldInv
<1>2. at # "change"
  BY <1>1 DEF Tracked, Waiting
<1>3. Sized(b, device, format.size)
  BY <1>2 DEF HeldInv, SizesCurrent
<1>4. \A id \in b.held : id \in OwnedBy(b, "accelerator") /\ b.infos[id].fdSet /\ id \in Ids(b)
  BY <1>1 DEF Tracked, HeldOn, HeldBy, OwnedBy
<1>5. \A i \in DOMAIN todo : todo[i].op = "output" => todo[i].id \in Ids(b)
  BY <1>1 DEF Tracked, HeldOn, Shown, OwnedBy
<1> QED BY <1>3, <1>4, <1>5 DEF Sized

\* In every behaviour the invariant holds (onFlush, tryChangeOutputFormat, onReusedOutBuf and the
\* dequeue thread never bring the blocks of the decoder out of step).
THEOREM HeldInvariant == Spec => []HeldInv
<1>1. Init => HeldInv
  BY HeldInit
<1>2. HeldInv /\ [Next]_vars => HeldInv'
  BY HeldStep
<1> QED BY <1>1, <1>2, PTL DEF Spec

\* Every block a running decoder has is one the component knows, takes to be with the decoder and
\* imported, in the size of the format; so is the block of every picture on its way
\* (sendOutputBufferToAccelerator, videoResolutionChange, onReusedOutBuf).
THEOREM HeldBlocksAreCurrent == Spec => []HeldIsCurrent
<1>1. HeldInv => HeldIsCurrent
  BY HeldGives
<1> QED BY <1>1, HeldInvariant, PTL

\* Unless the component failed, was stopped, or changed its format without a surface: a block is
\* with the decoder, in one picture on its way or in one that waits for its work, and in no two of
\* these; the first two are counted for the decoder and the third for the component (GraphicBlockStateChange).
THEOREM OnePlace == Spec => [](Sound => HeldOn(b, todo))
<1>1. HeldInv => (Sound => HeldOn(b, todo))
  BY DEF HeldInv, Tracked
<1> QED BY <1>1, HeldInvariant, PTL
=============================================================================
