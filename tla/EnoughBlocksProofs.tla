------------------------- MODULE EnoughBlocksProofs -------------------------
(***************************************************************************)
(* With an orderly client the decoder never runs out of blocks for good,   *)
(* whatever the streams and the numbers of works, drains, flushes and      *)
(* formats: EnoughBlocks of GraphicBlocks, in OrderlySpec.                 *)
(*                                                                         *)
(* EnoughInv adds to HeldInv, for a component that works, that the counts  *)
(* are exact (Exact), who waits for whom (Awaiting), that a drain is       *)
(* answered once and behind its pictures (Drains), that a work with EOS is *)
(* alone (EosAlone), and where the blocks of the component and of the      *)
(* decoder are (Spread); then the number of blocks the decoder has, of     *)
(* those on their way to it and of the tasks to fetch one is never below   *)
(* the number it asked for while blocks go round (Balanced).  They do not  *)
(* after a drain until the restart by the next work; an orderly client     *)
(* leaves the decoder without input until then (Unfed).                    *)
(*                                                                         *)
(* There is one lemma for each action, as QueueWorkEnough for QueueWork,   *)
(* after those about the boards and tasks it needs.                        *)
(***************************************************************************)
EXTENDS GraphicBlocksProofs

-----------------------------------------------------------------------------
(* The invariant.                                                           *)

\* The component works, and nothing is said of a stop.
Runs == Sound /\ state # "STOPPING"

\* A flush is done, and onReusedOutBuf is still to give the blocks to the decoder again.
Again == client = "woken" \/ reuse

\* Without a failure the counts are exactly those of the blocks.
Exact == \A o \in Owners : Excess(b, o) = 0

\* Who waits for whom: the decoder for the answer to a format it announced, the dequeue thread for
\* the next work after a flush, and a block fetched is one of the present format.
Awaiting ==
  /\ haveFlush = reuse
  /\ reuse => works = <<>>
  /\ first /\ b.decoder # "running" => Has(todo, "formatChanged") \/ pending # {}
  /\ changing => b.decoder = "waiting" /\ at \notin {"change", "allocate"}
  /\ at \in {"change", "allocate"} => OwnedBy(b, "accelerator") = {}
  /\ fetch \subseteq {format.size} \/ pending # {}

\* A drain is answered once, behind every picture of it and before a reset, and the decoder is not
\* fed from its answer on.
Drains ==
  /\ draining \/ Has(todo, "drainDone") => state \in {"DRAINING", "FLUSHING"}
  /\ draining => ~Has(todo, "drainDone") /\ at # "drained"
  /\ Has(todo, "drainDone") => ~b.fed /\ at # "drained"
  /\ \A i, j \in DOMAIN todo : todo[i].op = "drainDone" =>
       /\ todo[j].op = "output" => j < i
       /\ todo[j].op = "drainDone" => i = j
       /\ todo[j].op = "resetDone" => i < j
  /\ Has(todo, "resetDone") \/ at = "flushDone" => ~draining
  /\ at = "flushDone" => ~Has(todo, "drainDone")
  /\ at = "drained" => ~b.fed /\ ~Has(todo, "output")

\* Until a work with EOS is answered there is no other work, and after that, until the next one,
\* no picture.
EosAlone ==
  /\ draining \/ Has(todo, "drainDone") \/ at = "drained" => (b.drainEos => works = <<>>)
  /\ b.eosReported => ~b.fed /\ ~Has(todo, "output") /\ b.toWork = <<>> /\ works = <<>>

\* The pictures on their way, and what they are in.
Pictures(q) == {q[i].id : i \in {j \in DOMAIN q : q[j].op = "output"}}

\* The blocks that the component has are those of the pictures that wait, or waited at the flush;
\* those counted for the decoder are with it, or in the pictures on their way.
Spread ==
  pending = {} =>
    /\ OwnedBy(b, "component") \subseteq Waits(b) \cup (IF Again THEN b.afterFlush ELSE {})
    /\ b.decoder = "running" /\ state # "FLUSHING" /\ ~Again =>
         OwnedBy(b, "accelerator") \subseteq b.held \cup Pictures(todo)

\* The posted tasks that will give the decoder a block, or a task to the dequeue thread.
Useful ==
  {t \in Tasks : \/ t.op = "output"
                 \/ t.op = "returned" /\ t.id \in Ids(b)
                 \/ /\ t.op = "new" /\ t.block \in DOMAIN pool
                    /\ SizeOf(t.block) = AlignedSize(device, format.size)}
Count(q, S) == Cardinality({i \in DOMAIN q : q[i] \in S})

\* The blocks the decoder has or a posted task will give it, and those the dequeue thread fetches
\* or has a task to fetch.
Near == Cardinality(b.held) + Count(todo, Useful)
Coming == tasks + waiting + Cardinality(fetch)

\* While blocks go round, as many as the decoder asked for are with it or on their way to it, and
\* the dequeue thread is not stopped.
Rounds == first /\ state # "FLUSHING" /\ ~Again /\ pending = {} /\ b.decoder = "running" /\ ~haveDrain
Balanced == Rounds => Near + Coming >= format.min /\ runLoop /\ allocLoop

EnoughInv == Runs => Exact /\ Awaiting /\ Drains /\ EosAlone /\ Spread /\ Balanced

-----------------------------------------------------------------------------
(* Counting tasks.                                                          *)

\* The tasks counted are a number.
LEMMA CountIs ==
  ASSUME NEW q \in Seq(Tasks), NEW S
  PROVE  IsFiniteSet({i \in DOMAIN q : q[i] \in S}) /\ Count(q, S) \in Nat
<1>1. IsFiniteSet(1 .. Len(q)) BY FS_Interval
<1>2. {i \in DOMAIN q : q[i] \in S} \subseteq 1 .. Len(q) OBVIOUS
<1> QED BY <1>1, <1>2, FS_Subset, FS_CardinalityType DEF Count

\* The number alone.
LEMMA CountNat ==
  ASSUME NEW q \in Seq(Tasks), NEW S
  PROVE  Count(q, S) \in Nat
BY CountIs

\* More kinds of tasks are no fewer tasks.
LEMMA CountMore ==
  ASSUME NEW q \in Seq(Tasks), NEW S, NEW T, \A i \in DOMAIN q : q[i] \in S => q[i] \in T
  PROVE  Count(q, S) <= Count(q, T)
<1>1. {i \in DOMAIN q : q[i] \in S} \subseteq {i \in DOMAIN q : q[i] \in T} OBVIOUS
<1> QED BY <1>1, CountIs, FS_Subset DEF Count

\* A posted task may be one more.
LEMMA CountPosted ==
  ASSUME NEW q \in Seq(Tasks), NEW t \in Tasks, NEW S
  PROVE  Count(Append(q, t), S) = Count(q, S) + IF t \in S THEN 1 ELSE 0
<1> DEFINE r == Append(q, t)
           Q == {i \in DOMAIN q : q[i] \in S}
           R == {i \in DOMAIN r : r[i] \in S}
<1>1. Ends(q, r, t) BY PostedLast
<1>2. IsFiniteSet(Q) /\ Len(r) \notin Q BY <1>1, CountIs DEF Ends
<1>3. R = IF t \in S THEN Q \cup {Len(r)} ELSE Q BY <1>1 DEF Ends
<1>4. Count(q, S) = Cardinality(Q) /\ Count(Append(q, t), S) = Cardinality(R) /\ Count(q, S) \in Nat
  BY CountIs DEF Count
<1> HIDE DEF Q, R, r
<1>5. CASE t \in S BY <1>2, <1>3, <1>4, <1>5, FS_AddElement
<1>6. CASE t \notin S BY <1>3, <1>4, <1>6
<1> QED BY <1>5, <1>6

\* A task taken is one less at the most.
LEMMA CountTaken ==
  ASSUME NEW q \in Seq(Tasks), q # <<>>, NEW S
  PROVE  /\ Count(Tail(q), S) + 1 >= Count(q, S)
         /\ Head(q) \notin S => Count(Tail(q), S) >= Count(q, S)
<1> DEFINE r == Tail(q)
           Q == {i \in DOMAIN q : q[i] \in S}
           R == {i \in DOMAIN r : r[i] \in S}
           I == {i + 1 : i \in R}
<1>1. r \in Seq(Tasks) /\ DOMAIN r = 1 .. Len(q) - 1 /\ Len(q) \in Nat /\ DOMAIN q = 1 .. Len(q)
  OBVIOUS
<1>2. IsFiniteSet(R) /\ Cardinality(R) = Count(r, S) /\ Count(r, S) \in Nat
  BY <1>1, CountIs DEF Count
<1>3. Cardinality(Q) = Count(q, S) /\ Count(q, S) \in Nat
  BY CountIs DEF Count
<1>4. [i \in R |-> i + 1] \in Surjection(R, I)
  BY DEF Surjection
<1>5. Q \subseteq IF Head(q) \in S THEN I \cup {1} ELSE I
  <2> SUFFICES ASSUME NEW i \in Q
               PROVE  i \in IF Head(q) \in S THEN I \cup {1} ELSE I
    OBVIOUS
  <2>1. CASE i = 1 BY <2>1, HeadTask
  <2>2. CASE i # 1
    <3>1. i - 1 \in DOMAIN r /\ r[i - 1] = q[i] BY <1>1, <2>2
    <3>2. i = (i - 1) + 1 BY <1>1
    <3> QED BY <3>1, <3>2
  <2> QED BY <2>1, <2>2
<1> HIDE DEF Q, R, I, r
<1>6. IsFiniteSet(I) /\ Cardinality(I) <= Cardinality(R) /\ Cardinality(I) \in Nat
  BY <1>2, <1>4, FS_Surjection, FS_CardinalityType
<1>7. IsFiniteSet(I \cup {1}) /\ Cardinality(I \cup {1}) <= Cardinality(I) + 1
  <2>1. Cardinality(I \cup {1}) \in {Cardinality(I), Cardinality(I) + 1} /\ IsFiniteSet(I \cup {1})
    BY <1>6, FS_AddElement, Zenon
  <2> QED BY <2>1, <1>6
<1>8. CASE Head(q) \in S
  <2>1. Cardinality(Q) <= Cardinality(I \cup {1}) BY <1>5, <1>7, <1>8, FS_Subset
  <2>2. Cardinality(I \cup {1}) \in Nat BY <1>7, FS_CardinalityType
  <2> QED BY <2>1, <2>2, <1>2, <1>3, <1>6, <1>7, <1>8 DEF r
<1>9. CASE Head(q) \notin S
  <2>1. Cardinality(Q) <= Cardinality(I) BY <1>5, <1>6, <1>9, FS_Subset
  <2> QED BY <2>1, <1>2, <1>3, <1>6, <1>9 DEF r
<1> QED BY <1>8, <1>9

-----------------------------------------------------------------------------
(* What a step leaves of the balance.                                       *)

\* What a step leaves of the tasks: the pictures and formats announced, and as many useful tasks.
Carries(q, r, S) ==
  /\ \A i \in DOMAIN q : q[i].op \in {"output", "formatChanged"} => \E j \in DOMAIN r : r[j] = q[i]
  /\ Count(r, S) >= Count(q, S)

\* The tasks that give a block, by their kind.
LEMMA UsefulOps ==
  \A t \in Useful : t \in Tasks /\ t.op \in {"output", "returned", "new"}
BY DEF Useful

\* Posting a task leaves them, and so does taking one of another kind.
LEMMA CarriesOf ==
  ASSUME NEW q \in Seq(Tasks), NEW S, \A t \in S : t.op \in {"output", "returned", "new"}
  PROVE  /\ Carries(q, q, S) /\ \A t \in Tasks : Carries(q, Append(q, t), S)
         /\ q # <<>> /\ Head(q).op \notin {"output", "returned", "new", "formatChanged"} =>
              Carries(q, Tail(q), S) /\ \A t \in Tasks : Carries(q, Append(Tail(q), t), S)
<1>1. Carries(q, q, S) BY CountNat DEF Carries
<1>2. ASSUME NEW r \in Seq(Tasks), Carries(q, r, S), NEW t \in Tasks
      PROVE  Carries(q, Append(r, t), S)
  <2>1. Ends(r, Append(r, t), t) BY PostedLast
  <2>2. Count(Append(r, t), S) >= Count(q, S)
    BY <1>2, CountNat, CountPosted DEF Carries
  <2> QED BY <1>2, <2>1, <2>2 DEF Carries, Ends
<1>3. ASSUME q # <<>>, Head(q).op \notin {"output", "returned", "new", "formatChanged"}
      PROVE  Carries(q, Tail(q), S) /\ Tail(q) \in Seq(Tasks)
  <2>1. Head(q) \notin S BY <1>3
  <2>2. Tail(q) \in Seq(Tasks) BY <1>3
  <2>3. Count(Tail(q), S) >= Count(q, S) BY <1>3, <2>1, <2>2, CountTaken, CountNat
  <2>4. ASSUME NEW i \in DOMAIN q, q[i].op \in {"output", "formatChanged"}
        PROVE  \E j \in DOMAIN Tail(q) : Tail(q)[j] = q[i]
    <3>1. i # 1 BY <1>3, <2>4, HeadTask
    <3>2. i - 1 \in DOMAIN Tail(q) /\ Tail(q)[i - 1] = q[i] BY <1>3, <3>1
    <3> QED BY <3>2
  <2> QED BY <2>2, <2>3, <2>4 DEF Carries
<1> QED BY <1>1, <1>2, <1>3

\* A useful task stays one while the blocks, the format and the pool are there.
LEMMA UsefulKept ==
  ASSUME Ids(b) \subseteq Ids(b'), UNCHANGED <<device, format>>, DOMAIN pool \subseteq DOMAIN pool'
  PROVE  Useful \subseteq Useful'
BY DEF Useful

\* A step that leaves the drain alone, or ends it.
LEMMA DrainsFollow ==
  ASSUME Drains, NEW k, NEW posted, Follows(todo, todo', k, posted),
         \A t \in posted : t.op \notin {"drainDone", "resetDone"} /\ (t.op = "output" => b.fed),
         draining' => draining, at' \in {"drained", "flushDone"} => at' = at,
         state \in {"DRAINING", "FLUSHING"} => state' \in {"DRAINING", "FLUSHING"}, b'.fed => b.fed
  PROVE  /\ Drains'
         /\ Has(todo', "drainDone") => Has(todo, "drainDone")
         /\ Has(todo', "output") => Has(todo, "output") \/ b.fed
<1>1. ASSUME NEW i \in DOMAIN todo'
      PROVE  \/ i + k \in DOMAIN todo /\ todo'[i] = todo[i + k]
             \/ i = Len(todo') /\ todo'[i] \in posted
  BY DEF Follows
<1>2. k \in {0, 1} /\ DOMAIN todo' = 1 .. Len(todo') /\ Len(todo') \in Nat
  BY DEF Follows
<1>3. /\ Has(todo', "drainDone") => Has(todo, "drainDone")
      /\ Has(todo', "resetDone") => Has(todo, "resetDone")
      /\ Has(todo', "output") => Has(todo, "output") \/ b.fed
  BY <1>1 DEF Has
<1>4. ASSUME NEW i \in DOMAIN todo', NEW j \in DOMAIN todo', todo'[i].op = "drainDone"
      PROVE  /\ todo'[j].op = "output" => j < i
             /\ todo'[j].op = "drainDone" => i = j
             /\ todo'[j].op = "resetDone" => i < j
  <2>1. i + k \in DOMAIN todo /\ todo'[i] = todo[i + k] BY <1>1, <1>4
  <2>2. ~b.fed BY <2>1, <1>4 DEF Drains, Has
  <2>3. CASE j + k \in DOMAIN todo /\ todo'[j] = todo[j + k]
    <3>1. /\ todo'[j].op = "output" => j + k < i + k
          /\ todo'[j].op = "drainDone" => i + k = j + k
          /\ todo'[j].op = "resetDone" => i + k < j + k
      BY <1>4, <2>1, <2>3 DEF Drains
    <3> QED BY <3>1, <1>2
  <2>4. CASE todo'[j] \in posted BY <2>2, <2>4
  <2> QED BY <1>1, <2>3, <2>4
<1>5. Drains' BY <1>3, <1>4 DEF Drains
<1> QED BY <1>3, <1>5

\* Such a step that queues no work either.
LEMMA DrainsKept ==
  ASSUME Drains, EosAlone, NEW k, NEW posted, Follows(todo, todo', k, posted),
         \A t \in posted : t.op \notin {"drainDone", "resetDone"} /\ (t.op = "output" => b.fed),
         draining' => draining, at' \in {"drained", "flushDone"} => at' = at,
         state \in {"DRAINING", "FLUSHING"} => state' \in {"DRAINING", "FLUSHING"},
         b'.fed => b.fed, b'.drainEos => b.drainEos, b'.eosReported => b.eosReported,
         b.toWork = <<>> => b'.toWork = <<>>, works = <<>> => works' = <<>>
  PROVE  Drains' /\ EosAlone'
<1>1. /\ Drains' /\ (Has(todo', "drainDone") => Has(todo, "drainDone"))
      /\ Has(todo', "output") => Has(todo, "output") \/ b.fed
  BY DrainsFollow
<1> QED BY <1>1 DEF EosAlone

\* The blocks the decoder has are finitely many.
LEMMA HeldFinite ==
  ASSUME NEW s, IsFiniteSet(Ids(s)), HeldBy(s)
  PROVE  s.held \subseteq OwnedBy(s, "accelerator") /\ IsFiniteSet(s.held) /\ Cardinality(s.held) \in Nat
<1>1. s.held \subseteq OwnedBy(s, "accelerator") BY DEF HeldBy
<1> QED BY <1>1, OwnedFinite, FS_Subset, FS_CardinalityType

\* A set of one at the most has a size.
LEMMA WithinOne ==
  ASSUME NEW x, NEW S, S \subseteq {x}
  PROVE  IsFiniteSet(S) /\ Cardinality(S) \in {0, 1}
<1>1. S = {} \/ S = {x} OBVIOUS
<1>2. CASE S = {} BY <1>2, FS_EmptySet
<1>3. CASE S = {x} BY <1>3, FS_Singleton, Zenon
<1> QED BY <1>1, <1>2, <1>3

\* What is counted is numbers, as long as a fetched block is one of the format.
LEMMA NearComing ==
  ASSUME TypeInv, HeldBy(b), fetch \subseteq {format.size}
  PROVE  /\ Cardinality(b.held) \in Nat /\ Count(todo, Useful) \in Nat /\ Cardinality(fetch) \in {0, 1}
         /\ Near \in Nat /\ Coming \in Nat
<1>1. /\ todo \in Seq(Tasks) /\ tasks \in Nat /\ waiting \in Nat /\ IsFiniteSet(Ids(b))
  BY DEF TypeInv, TypesOK, BoardOK, Proper
<1>2. Cardinality(b.held) \in Nat BY <1>1, HeldFinite
<1>3. Count(todo, Useful) \in Nat BY <1>1, CountNat
<1>4. Cardinality(fetch) \in {0, 1} BY WithinOne, Zenon
<1> QED BY <1>1, <1>2, <1>3, <1>4 DEF Near, Coming

\* And after a step.
LEMMA NearComingNext ==
  ASSUME TypeInv', HeldBy(b'), fetch' \subseteq {format'.size}
  PROVE  /\ Cardinality(b'.held) \in Nat /\ Count(todo', Useful') \in Nat /\ Cardinality(fetch') \in {0, 1}
         /\ Near' \in Nat /\ Coming' \in Nat
<1>1. /\ todo' \in Seq(Tasks) /\ tasks' \in Nat /\ waiting' \in Nat /\ IsFiniteSet(Ids(b'))
  BY DEF TypeInv, TypesOK, BoardOK, Proper
<1>2. Cardinality(b'.held) \in Nat BY <1>1, HeldFinite
<1>3. Count(todo', Useful') \in Nat BY <1>1, CountNat
<1>4. Cardinality(fetch') \in {0, 1} BY WithinOne, Zenon
<1> QED BY <1>1, <1>2, <1>3, <1>4 DEF Near, Coming

\* The same blocks, where they were.
SameBlocks(s, m) ==
  /\ m.infos = s.infos /\ m.count = s.count /\ m.toWork = s.toWork /\ m.afterFlush = s.afterFlush
  /\ m.held = s.held /\ m.decoder = s.decoder

\* A step that leaves the blocks where they are, and the useful tasks.
LEMMA CalmKept ==
  ASSUME HeldInv, TypeInv', Sound, Exact, Awaiting, Spread, Balanced,
         SameBlocks(b, b'), Carries(todo, todo', Useful),
         UNCHANGED <<device, format, pending, first, changing, haveFlush, reuse>>, DOMAIN pool \subseteq DOMAIN pool',
         client' = "woken" <=> client = "woken",
         at' \in {"change", "allocate"} => at' = at,
         state = "FLUSHING" => state' = "FLUSHING",
         reuse /\ works = <<>> => works' = <<>>,
         fetch' \subseteq fetch \cup {format.size},
         haveDrain => haveDrain',
         Rounds /\ Rounds' => Coming' = Coming /\ runLoop' = runLoop /\ allocLoop' = allocLoop
  PROVE  Exact' /\ Awaiting' /\ Spread' /\ Balanced'
<1>1. /\ Ids(b') = Ids(b) /\ \A o : OwnedBy(b', o) = OwnedBy(b, o)
      /\ Waits(b') = Waits(b) /\ \A o : Excess(b', o) = Excess(b, o)
  BY DEF SameBlocks, Ids, OwnedBy, Waits, IdsIn, Excess
<1>2. Exact' BY <1>1 DEF Exact
<1>3. Has(todo, "formatChanged") => Has(todo', "formatChanged") BY DEF Carries, Has
<1>4. Pictures(todo) \subseteq Pictures(todo') BY DEF Carries, Pictures
<1>5. Awaiting' BY <1>1, <1>3 DEF Awaiting, SameBlocks
<1>6. Again' <=> Again BY DEF Again
<1>7. Spread' BY <1>1, <1>4, <1>6 DEF Spread, SameBlocks
<1>8. SUFFICES ASSUME Rounds'
               PROVE  Near' + Coming' >= format'.min /\ runLoop' /\ allocLoop'
  BY <1>2, <1>5, <1>7 DEF Balanced
<1>9. Rounds BY <1>6, <1>8 DEF Rounds, SameBlocks
<1>10. Count(todo', Useful') >= Count(todo, Useful)
  <2>1. Useful \subseteq Useful' BY <1>1, UsefulKept
  <2>2. todo' \in Seq(Tasks) /\ todo \in Seq(Tasks) BY DEF HeldInv, TypeInv, TypesOK
  <2>3. Count(todo', Useful') >= Count(todo', Useful) BY <2>1, <2>2, CountMore
  <2> QED BY <2>2, <2>3, CountNat DEF Carries
<1>11. HeldBy(b) /\ HeldBy(b') BY DEF HeldInv, Tracked, HeldOn, HeldBy, SameBlocks, OwnedBy, Ids
<1>12. /\ Near \in Nat /\ Coming \in Nat /\ Near' \in Nat /\ Coming' \in Nat
       /\ Cardinality(b.held) \in Nat /\ Count(todo, Useful) \in Nat /\ Count(todo', Useful') \in Nat
  <2>1. fetch \subseteq {format.size} /\ fetch' \subseteq {format'.size}
    BY <1>9 DEF Awaiting, Rounds
  <2> QED BY <2>1, <1>11, NearComing, NearComingNext DEF HeldInv
<1>13. Near' >= Near
  <2>1. Cardinality(b'.held) = Cardinality(b.held) BY DEF SameBlocks
  <2>2. Near = Cardinality(b.held) + Count(todo, Useful) /\ Near' = Cardinality(b'.held) + Count(todo', Useful')
    BY DEF Near
  <2> QED BY <2>1, <2>2, <1>10, <1>12
<1>14. Near + Coming >= format.min /\ Coming' = Coming /\ format.min \in Nat /\ format'.min = format.min
  BY <1>8, <1>9 DEF Balanced, HeldInv, TypeInv, TypesOK, Formats
<1>15. Near' + Coming' >= format'.min BY <1>12, <1>13, <1>14
<1>16. runLoop' /\ allocLoop'
  BY <1>8, <1>9, Zenon DEF Balanced
<1> QED BY <1>15, <1>16

-----------------------------------------------------------------------------
(* The balance and each action.                                             *)

\* What is known before and after a step, and what is to be shown of it.
LEMMA EnoughParts ==
  ASSUME HeldInv, EnoughInv, Runs
  PROVE  /\ TypeInv /\ Ordered /\ Sound /\ Tracked /\ b \in Boards /\ IsFiniteSet(Ids(b)) /\ todo \in Seq(Tasks)
         /\ Exact /\ Awaiting /\ Drains /\ EosAlone /\ Spread /\ Balanced
         /\ \A t \in Useful : t.op \in {"output", "returned", "new"}
         /\ ~b.failed /\ ~b.error /\ state \in {"STARTED", "DRAINING", "FLUSHING"}
BY UsefulOps DEF EnoughInv, HeldInv, TypeInv, TypesOK, BoardOK, Proper, Runs, Sound, States, Ordered

\* FetchBegins keeps the balance: a task of the dequeue thread becomes a fetch.
LEMMA FetchBeginsEnough ==
  ASSUME HeldInv, HeldInv', EnoughInv, Runs', FetchBegins
  PROVE  EnoughInv'
<1>1. UNCHANGED <<inVars, compVars, formatVars, runLoop, allocLoop, waiting, poolVars, decVars, todo,
                  at, haveDrain, withClient>> /\ tasks' = tasks - 1 /\ fetch = {} /\ fetch' = {format.size} /\ tasks \in Nat
  BY DEF FetchBegins, NextAllocTask, HeldInv, TypeInv, TypesOK
<1>2. Runs BY <1>1 DEF Runs, Sound, compVars, inVars, decVars
<1>3. Drains' /\ EosAlone' BY <1>1, <1>2, EnoughParts DEF Drains, EosAlone, compVars, decVars
<1>4. Coming' = Coming
  <2>1. Cardinality(fetch) = 0 /\ Cardinality(fetch') = 1 BY <1>1, FS_EmptySet, FS_Singleton
  <2> QED BY <2>1, <1>1 DEF Coming, HeldInv, TypeInv, TypesOK
<1>5. SameBlocks(b, b') BY <1>1 DEF SameBlocks, compVars
<1>6. Carries(todo, todo', Useful) BY <1>1, <1>2, EnoughParts, CarriesOf
<1>7. Exact' /\ Awaiting' /\ Spread' /\ Balanced'
  BY <1>1, <1>2, <1>4, <1>5, <1>6, EnoughParts, CalmKept
     DEF HeldInv, compVars, formatVars, poolVars
<1> QED BY <1>3, <1>7 DEF EnoughInv

\* TaskCancelled keeps the balance: as long as blocks go round, the allocation is not stopped.
LEMMA TaskCancelledEnough ==
  ASSUME HeldInv, HeldInv', EnoughInv, Runs', TaskCancelled
  PROVE  EnoughInv'
<1>1. UNCHANGED <<inVars, compVars, formatVars, runLoop, allocLoop, waiting, fetch, poolVars, decVars, todo,
                  at, haveDrain, withClient>> /\ (state = "STOPPING" \/ ~allocLoop)
  BY DEF TaskCancelled
<1>2. Runs BY <1>1 DEF Runs, Sound, compVars, inVars, decVars
<1>3. Drains' /\ EosAlone' BY <1>1, <1>2, EnoughParts DEF Drains, EosAlone, compVars, decVars
<1>4. ~Rounds BY <1>1, <1>2, EnoughParts DEF Balanced, Runs
<1>5. SameBlocks(b, b') BY <1>1 DEF SameBlocks, compVars
<1>6. Carries(todo, todo', Useful) BY <1>1, <1>2, EnoughParts, CarriesOf
<1>7. Exact' /\ Awaiting' /\ Spread' /\ Balanced'
  BY <1>1, <1>2, <1>4, <1>5, <1>6, EnoughParts, CalmKept
     DEF HeldInv, compVars, formatVars, poolVars
<1> QED BY <1>3, <1>7 DEF EnoughInv

\* ClientReleases keeps the balance: a block the client lets go has a task that will fetch it.
LEMMA ClientReleasesEnough ==
  ASSUME HeldInv, HeldInv', EnoughInv, Runs', ClientReleases
  PROVE  EnoughInv'
<1>1. UNCHANGED <<inVars, compVars, formatVars, loopVars, poolVars, decVars, todo, at, haveDrain>>
  BY DEF ClientReleases
<1>2. Runs BY <1>1 DEF Runs, Sound, compVars, inVars, decVars
<1>3. Drains' /\ EosAlone' BY <1>1, <1>2, EnoughParts DEF Drains, EosAlone, compVars, decVars
<1>4. SameBlocks(b, b') BY <1>1 DEF SameBlocks, compVars
<1>5. Carries(todo, todo', Useful) BY <1>1, <1>2, EnoughParts, CarriesOf
<1>6. Coming' = Coming BY <1>1 DEF Coming, loopVars
<1>7. Exact' /\ Awaiting' /\ Spread' /\ Balanced'
  BY <1>1, <1>2, <1>4, <1>5, <1>6, EnoughParts, CalmKept
     DEF HeldInv, compVars, formatVars, poolVars, loopVars
<1> QED BY <1>3, <1>7 DEF EnoughInv

\* Drain keeps the balance: it is about the works.
LEMMA DrainEnough ==
  ASSUME HeldInv, HeldInv', EnoughInv, Runs', Drain
  PROVE  EnoughInv'
<1>1. /\ UNCHANGED <<inVars, last, pending, first, client, haveFlush, reuse, formatVars, loopVars,
                      poolVars, resets, shown, at, haveDrain, withClient>>
      /\ at = "idle" /\ todo # <<>> /\ Head(todo).op = "drain" /\ todo' = Tail(todo)
  BY DEF Drain, Takes
<1>2. \/ works # <<>> /\ works' = [works EXCEPT ![Len(works)] = IF @ = "data" THEN "drain" ELSE @] /\ UNCHANGED <<state, b, draining>>
      \/ works = <<>> /\ works' = <<>> /\ state = "STARTED" /\ state' = "DRAINING" /\ draining' = TRUE /\ b' = [b EXCEPT !.drainEos = FALSE]
      \/ works = <<>> /\ UNCHANGED <<state, works, b, draining>>
  BY DEF Drain
<1>3. Runs /\ b \in Boards
  <2>1. b \in Boards BY DEF HeldInv, TypeInv, BoardOK, Proper
  <2>2. b'.failed = b.failed BY <1>2, <2>1 DEF Boards
  <2>3. state \notin {"STOPPING", "UNINITIALIZED"} BY <1>2 DEF Runs, Sound
  <2> QED BY <1>1, <2>1, <2>2, <2>3 DEF Runs, Sound, inVars
<1>4. /\ works # <<>> => works' # <<>>
      /\ works = <<>> => works' = <<>>
  BY <1>2, <1>3 DEF HeldInv, TypeInv, TypesOK
<1>5. SameBlocks(b, b') /\ b'.fed = b.fed /\ b'.eosReported = b.eosReported
      /\ (b'.drainEos => b.drainEos /\ draining' = draining /\ state' = state)
  BY <1>2, <1>3 DEF SameBlocks, Boards
<1>6. Follows(todo, todo', 1, {}) BY <1>1, <1>3, EnoughParts, TasksFollow
<1>7. Drains' /\ EosAlone'
  <2>1. CASE UNCHANGED <<state, draining>>
    BY <2>1, <1>1, <1>3, <1>4, <1>5, <1>6, EnoughParts, DrainsKept DEF SameBlocks
  <2>2. CASE state = "STARTED" /\ state' = "DRAINING" /\ draining' = TRUE
    <3>1. Follows(todo, todo', 1, {}) => \A op : Has(todo', op) => Has(todo, op)
      BY DEF Follows, Has
    <3>2. ~Has(todo, "resetDone") /\ ~Has(todo, "drainDone") /\ ~draining
      BY <2>2, <1>3, EnoughParts DEF Tracked, Resets, Drains
    <3>3. ~Has(todo', "resetDone") /\ ~Has(todo', "drainDone") BY <3>1, <3>2, <1>6
    <3>4. Drains' BY <3>3, <2>2, <1>1 DEF Drains, Has
    <3>5. EosAlone'
      BY <3>1, <2>2, <1>1, <1>2, <1>3, <1>4, <1>5, <1>6, EnoughParts DEF EosAlone, SameBlocks
    <3> QED BY <3>4, <3>5
  <2> QED BY <2>1, <2>2, <1>2
<1>8. Carries(todo, todo', Useful) BY <1>1, <1>3, EnoughParts, CarriesOf
<1>9. Coming' = Coming BY <1>1 DEF Coming, loopVars
<1>10. Exact' /\ Awaiting' /\ Spread' /\ Balanced'
  BY <1>1, <1>2, <1>3, <1>4, <1>5, <1>8, <1>9, EnoughParts, CalmKept
     DEF HeldInv, formatVars, poolVars, loopVars
<1> QED BY <1>7, <1>10 DEF EnoughInv

\* Flush keeps the balance: nothing is said of it until the flush is done.
LEMMA FlushEnough ==
  ASSUME HeldInv, HeldInv', EnoughInv, Runs', Flush
  PROVE  EnoughInv'
<1>1. /\ UNCHANGED <<inVars, works, last, pending, first, client, haveFlush, reuse, formatVars, loopVars,
                      poolVars, draining, shown, at, haveDrain, withClient>>
      /\ at = "idle" /\ todo # <<>> /\ Head(todo).op = "flush" /\ todo' = Tail(todo)
      /\ state \notin {"FLUSHING", "STOPPING"} /\ state' = "FLUSHING" /\ b' = [b EXCEPT !.error = FALSE]
  BY DEF Flush, Takes
<1>2. state # "UNINITIALIZED"
  <2>1. Has(todo, "flush") BY <1>1, HeadTask DEF Has, HeldInv, TypeInv, TypesOK
  <2> QED BY <2>1 DEF HeldInv, TypeInv, Serial
<1>3. b'.failed = b.failed /\ b \in Boards BY <1>1 DEF Boards, HeldInv, TypeInv, BoardOK, Proper
<1>4. Runs BY <1>1, <1>2, <1>3 DEF Runs, Sound, inVars
<1>5. /\ SameBlocks(b, b') /\ b'.fed = b.fed /\ b'.eosReported = b.eosReported /\ b'.drainEos = b.drainEos
  BY <1>1, <1>3 DEF SameBlocks, Boards
<1>6. Follows(todo, todo', 1, {}) BY <1>1, <1>4, EnoughParts, TasksFollow
<1>7. Drains' /\ EosAlone'
  BY <1>1, <1>4, <1>5, <1>6, EnoughParts, DrainsKept DEF SameBlocks
<1>8. Carries(todo, todo', Useful) BY <1>1, <1>4, EnoughParts, CarriesOf
<1>9. Coming' = Coming BY <1>1 DEF Coming, loopVars
<1>10. Exact' /\ Awaiting' /\ Spread' /\ Balanced'
  BY <1>1, <1>4, <1>5, <1>8, <1>9, EnoughParts, CalmKept
     DEF HeldInv, formatVars, poolVars, loopVars
<1> QED BY <1>7, <1>10 DEF EnoughInv

\* ResetDone keeps the balance: only a flush has a reset, and it ends the drain.
LEMMA ResetDoneEnough ==
  ASSUME HeldInv, HeldInv', EnoughInv, Runs', ResetDone
  PROVE  EnoughInv'
<1>1. /\ UNCHANGED <<inVars, state, works, last, pending, first, client, haveFlush, reuse, formatVars,
                      allocLoop, tasks, waiting, fetch, poolVars, decVars, haveDrain, withClient>>
      /\ at = "idle" /\ todo # <<>> /\ Head(todo).op = "resetDone" /\ todo' = Tail(todo)
      /\ at' \in {"idle", "flushDone", "stopDone"}
      /\ b' = IF state \in {"FLUSHING", "STOPPING"} THEN b ELSE Failed(b)
  BY DEF ResetDone, Takes
<1>2. b' = b /\ Runs
  <2>1. b \in Boards BY DEF HeldInv, TypeInv, BoardOK, Proper
  <2>2. Failed(b).failed BY <2>1, QuietFlags
  <2> QED BY <1>1, <2>2 DEF Runs, Sound, inVars, decVars
<1>3. state = "FLUSHING" /\ Has(todo, "resetDone")
  <2>1. Has(todo, "resetDone") BY <1>1, <1>2, EnoughParts, HeadTask DEF Has
  <2> QED BY <2>1, <1>2, EnoughParts DEF Tracked, Resets
<1>4. Follows(todo, todo', 1, {}) /\ \A i \in DOMAIN todo' : todo'[i] = todo[i + 1] /\ i + 1 \in DOMAIN todo /\ i + 1 # 1
  BY <1>1, <1>2, EnoughParts, TasksFollow, HeadTask
<1>5. ~draining /\ ~Has(todo, "drainDone")
  <2>1. ~draining BY <1>2, <1>3, EnoughParts DEF Drains
  <2>2. 1 \in DOMAIN todo /\ todo[1].op = "resetDone" BY <1>1, <1>2, EnoughParts, HeadTask
  <2>3. \A i \in DOMAIN todo : ~(i < 1) BY <1>2, EnoughParts
  <2> QED BY <2>1, <2>2, <2>3, <1>2, EnoughParts DEF Drains, Has
<1>6. Drains' /\ EosAlone'
  <2>1. \A op : Has(todo', op) => Has(todo, op) BY <1>4 DEF Has
  <2>2. Drains' BY <1>1, <1>2, <1>3, <1>5, <2>1, EnoughParts DEF Drains, decVars, Has
  <2>3. EosAlone' BY <1>1, <1>2, <1>5, <2>1, EnoughParts DEF EosAlone, decVars
  <2> QED BY <2>2, <2>3
<1>7. Carries(todo, todo', Useful) BY <1>1, <1>2, EnoughParts, CarriesOf
<1>8. ~Rounds BY <1>3 DEF Rounds
<1>9. SameBlocks(b, b') BY <1>2 DEF SameBlocks
<1>10. Exact' /\ Awaiting' /\ Spread' /\ Balanced'
  BY <1>1, <1>2, <1>7, <1>8, <1>9, EnoughParts, CalmKept
     DEF HeldInv, formatVars, poolVars
<1> QED BY <1>6, <1>10 DEF EnoughInv

\* DrainDone keeps the balance: the answer is taken, and its drain is over.
LEMMA DrainDoneEnough ==
  ASSUME HeldInv, HeldInv', EnoughInv, Runs', DrainDone
  PROVE  EnoughInv'
<1>1. /\ UNCHANGED <<inVars, works, last, pending, first, client, haveFlush, reuse, formatVars, loopVars,
                      poolVars, decVars, haveDrain, withClient>>
      /\ at = "idle" /\ todo # <<>> /\ Head(todo).op = "drainDone" /\ todo' = Tail(todo)
      /\ state' = IF state = "DRAINING" THEN "STARTED" ELSE state
      /\ IF state \in {"DRAINING", "FLUSHING"} THEN at' = "drained" /\ UNCHANGED b
         ELSE UNCHANGED at /\ b' = IF state = "STOPPING" THEN EosReported(b) ELSE Failed(b)
  BY DEF DrainDone, Takes
<1>2. b' = b /\ Runs /\ at' = "drained"
  <2>1. b \in Boards BY DEF HeldInv, TypeInv, BoardOK, Proper
  <2>2. Failed(b).failed BY <2>1, QuietFlags
  <2> QED BY <1>1, <2>2 DEF Runs, Sound, inVars, decVars
<1>3. /\ Follows(todo, todo', 1, {}) /\ 1 \in DOMAIN todo /\ todo[1].op = "drainDone"
      /\ \A i \in DOMAIN todo' : todo'[i] = todo[i + 1] /\ i + 1 \in DOMAIN todo /\ i + 1 # 1
  BY <1>1, <1>2, EnoughParts, TasksFollow, HeadTask
<1>4. Has(todo, "drainDone") /\ ~draining /\ ~b.fed
  BY <1>2, <1>3, EnoughParts DEF Drains, Has
<1>5. ~Has(todo', "drainDone") /\ ~Has(todo', "output")
  <2>1. \A j \in DOMAIN todo : ~(j < 1) BY <1>2, EnoughParts
  <2> QED BY <2>1, <1>2, <1>3, EnoughParts DEF Drains, Has
<1>6. Drains' /\ EosAlone'
  <2>1. \A op : Has(todo', op) => Has(todo, op) BY <1>3 DEF Has
  <2>2. Drains' BY <1>1, <1>2, <1>4, <1>5, <2>1, EnoughParts DEF Drains, decVars, Has
  <2>3. EosAlone' BY <1>1, <1>2, <1>4, <1>5, <2>1, EnoughParts DEF EosAlone, decVars
  <2> QED BY <2>2, <2>3
<1>7. Carries(todo, todo', Useful) BY <1>1, <1>2, EnoughParts, CarriesOf
<1>8. Coming' = Coming BY <1>1 DEF Coming, loopVars
<1>9. SameBlocks(b, b') BY <1>2 DEF SameBlocks
<1>10. Exact' /\ Awaiting' /\ Spread' /\ Balanced'
  BY <1>1, <1>2, <1>7, <1>8, <1>9, EnoughParts, CalmKept
     DEF HeldInv, formatVars, poolVars, loopVars
<1> QED BY <1>6, <1>10 DEF EnoughInv

\* NotifyFlushDone keeps the balance: the decoder that is drained is no longer fed.
LEMMA NotifyFlushDoneEnough ==
  ASSUME HeldInv, HeldInv', EnoughInv, Runs', NotifyFlushDone
  PROVE  EnoughInv'
<1>1. /\ UNCHANGED <<inVars, state, works, last, pending, first, client, haveFlush, reuse, formatVars,
                      runLoop, tasks, waiting, fetch, poolVars, resets, shown, at, withClient>>
      /\ draining /\ draining' = FALSE /\ haveDrain' = TRUE /\ todo' = Append(todo, Plain("drainDone"))
      /\ b' = [b EXCEPT !.fed = FALSE]
  BY DEF NotifyFlushDone, Posts
<1>2. /\ b \in Boards /\ b'.failed = b.failed /\ SameBlocks(b, b') /\ ~b'.fed
      /\ b'.eosReported = b.eosReported /\ b'.drainEos = b.drainEos
  <2>1. b \in Boards BY DEF HeldInv, TypeInv, BoardOK, Proper
  <2> QED BY <1>1, <2>1 DEF Boards, SameBlocks
<1>3. Runs BY <1>1, <1>2 DEF Runs, Sound, inVars
<1>4. Plain("drainDone") \in Tasks /\ Plain("drainDone").op = "drainDone" BY PlainTasks DEF PlainOps
<1>5. Ends(todo, todo', Plain("drainDone")) BY <1>1, <1>3, <1>4, EnoughParts, PostedLast
<1>6. /\ state \in {"DRAINING", "FLUSHING"} /\ ~Has(todo, "drainDone") /\ ~Has(todo, "resetDone")
      /\ at \notin {"flushDone", "drained"}
  BY <1>1, <1>3, EnoughParts DEF Drains
<1>7. \A op : op # "drainDone" => (Has(todo', op) => Has(todo, op))
  BY <1>4, <1>5, Zenon DEF Has, Ends
<1>8. Drains'
  <2>1. \A i, j \in DOMAIN todo' : todo'[i].op = "drainDone" =>
          /\ todo'[j].op = "output" => j < i
          /\ todo'[j].op = "drainDone" => i = j
          /\ todo'[j].op = "resetDone" => i < j
    <3> SUFFICES ASSUME NEW i \in DOMAIN todo', NEW j \in DOMAIN todo', todo'[i].op = "drainDone"
                 PROVE  /\ todo'[j].op = "output" => j < i
                        /\ todo'[j].op = "drainDone" => i = j
                        /\ todo'[j].op = "resetDone" => i < j
      OBVIOUS
    <3>1. i = Len(todo') BY <1>5, <1>6, Zenon DEF Ends, Has
    <3>2. CASE j \in DOMAIN todo
      <4>1. todo'[j] = todo[j] /\ j < i BY <3>1, <3>2, <1>5 DEF Ends
      <4> QED BY <4>1, <3>2, <1>6 DEF Has
    <3>3. CASE j = Len(todo') BY <3>1, <3>3, <1>4, <1>5 DEF Ends
    <3> QED BY <3>2, <3>3, <1>5, Zenon DEF Ends
  <2> QED BY <2>1, <1>1, <1>2, <1>6, <1>7 DEF Drains
<1>9. EosAlone' BY <1>1, <1>2, <1>3, <1>7, EnoughParts DEF EosAlone, SameBlocks
<1>10. Carries(todo, todo', Useful) BY <1>1, <1>3, <1>4, EnoughParts, CarriesOf
<1>11. ~Rounds' BY <1>1 DEF Rounds
<1>12. Exact' /\ Awaiting' /\ Spread' /\ Balanced'
  BY <1>1, <1>2, <1>3, <1>10, <1>11, EnoughParts, CalmKept
     DEF HeldInv, formatVars, poolVars
<1> QED BY <1>8, <1>9, <1>12 DEF EnoughInv

\* Dropped keeps the balance: a component that works drops only the call to take up a work.
LEMMA DroppedEnough ==
  ASSUME HeldInv, HeldInv', EnoughInv, Runs', Dropped
  PROVE  EnoughInv'
<1>1. /\ UNCHANGED <<inVars, compVars, formatVars, loopVars, poolVars, decVars, at, haveDrain, withClient>>
      /\ at = "idle" /\ todo # <<>> /\ todo' = Tail(todo)
      /\ \/ Refuses \/ state = "UNINITIALIZED" \/ Head(todo).op = "dequeueWork"
  BY DEF Dropped, Task
<1>2. Runs BY <1>1 DEF Runs, Sound, compVars, inVars, decVars
<1>3. Head(todo).op = "dequeueWork" BY <1>1, <1>2, EnoughParts DEF Refuses
<1>4. Follows(todo, todo', 1, {}) BY <1>1, <1>2, EnoughParts, TasksFollow
<1>5. Drains' /\ EosAlone'
  BY <1>1, <1>2, <1>4, EnoughParts, DrainsKept DEF compVars, decVars
<1>6. SameBlocks(b, b') BY <1>1 DEF SameBlocks, compVars
<1>7. Carries(todo, todo', Useful) BY <1>1, <1>2, <1>3, EnoughParts, CarriesOf
<1>8. Coming' = Coming BY <1>1 DEF Coming, loopVars
<1>9. Exact' /\ Awaiting' /\ Spread' /\ Balanced'
  BY <1>1, <1>2, <1>6, <1>7, <1>8, EnoughParts, CalmKept
     DEF HeldInv, compVars, formatVars, poolVars, loopVars
<1> QED BY <1>5, <1>9 DEF EnoughInv

\* ClientCalls keeps the balance: a call is a task, and no block.
LEMMA ClientCallsEnough ==
  ASSUME HeldInv, HeldInv', EnoughInv, Runs', ClientCalls
  PROVE  EnoughInv'
<1>1. PICK task \in Tasks :
        /\ todo' = Append(todo, task) /\ task.op \in {"queueWork", "drain", "flush", "stop"}
        /\ client = "idle" /\ client' \in {"idle", "flushing", "stopping"}
        /\ UNCHANGED <<stream, state, works, b, last, pending, first, haveFlush, reuse, formatVars, loopVars,
                       poolVars, decVars, at, haveDrain, withClient>>
  <2>1. /\ Plain("drain") \in Tasks /\ Plain("flush") \in Tasks /\ Plain("stop") \in Tasks
        /\ Plain("drain").op = "drain" /\ Plain("flush").op = "flush" /\ Plain("stop").op = "stop"
    BY PlainTasks DEF PlainOps
  <2>2. \A kind \in {"data", "eos"} : [op |-> "queueWork", kind |-> kind] \in Tasks BY DEF Tasks
  <2>3. CASE \E kind \in {"data", "eos"} : ~b.failed /\ Calls(kind, [op |-> "queueWork", kind |-> kind], "idle")
    BY <2>2, <2>3 DEF Calls, Posts
  <2>4. CASE ~b.failed /\ Calls("drain", Plain("drain"), "idle") BY <2>1, <2>4 DEF Calls, Posts
  <2>5. CASE ~b.failed /\ Calls("flush", Plain("flush"), "flushing") BY <2>1, <2>5 DEF Calls, Posts
  <2>6. CASE Calls("stop", Plain("stop"), "stopping") BY <2>1, <2>6 DEF Calls, Posts
  <2> QED BY <2>3, <2>4, <2>5, <2>6 DEF ClientCalls
<1>2. Runs BY <1>1 DEF Runs, Sound, decVars
<1>3. Follows(todo, todo', 0, {task}) BY <1>1, <1>2, EnoughParts, TasksFollow
<1>4. Drains' /\ EosAlone'
  BY <1>1, <1>2, <1>3, EnoughParts, DrainsKept DEF decVars
<1>5. SameBlocks(b, b') BY <1>1 DEF SameBlocks
<1>6. Carries(todo, todo', Useful) BY <1>1, <1>2, EnoughParts, CarriesOf
<1>7. Coming' = Coming BY <1>1 DEF Coming, loopVars
<1>8. Exact' /\ Awaiting' /\ Spread' /\ Balanced'
  BY <1>1, <1>2, <1>5, <1>6, <1>7, EnoughParts, CalmKept
     DEF HeldInv, formatVars, poolVars, loopVars
<1> QED BY <1>4, <1>8 DEF EnoughInv

\* DequeueWork keeps the balance: a work that starts a drain with EOS is the last one.
LEMMA DequeueWorkEnough ==
  ASSUME HeldInv, HeldInv', EnoughInv, OrderlyClient, Runs', DequeueWork
  PROVE  EnoughInv'
<1>1. b \in Boards /\ Proper(b) /\ works \in Seq(Kinds) /\ works # <<>> /\ state = "STARTED"
  BY DEF DequeueWork, HeldInv, TypeInv, TypesOK, BoardOK, Proper
<1>2. /\ UNCHANGED <<inVars, last, pending, first, client, formatVars, fetch, poolVars, resets, shown,
                     at, haveDrain, withClient>>
      /\ works' = Tail(works) /\ reuse' = FALSE /\ haveFlush' = FALSE
      /\ at = "idle" /\ todo # <<>> /\ Head(todo).op = "dequeueWork"
      /\ todo' = Tail(todo) \/ todo' = Append(Tail(todo), Plain("dequeueWork"))
      /\ b' = [ReusedOutBuf(b) EXCEPT !.drainEos = IF Head(works) # "data" THEN Head(works) = "eos" ELSE @, !.fed = TRUE]
      /\ state' = IF Head(works) # "data" THEN "DRAINING" ELSE state
      /\ draining' = (draining \/ Head(works) # "data")
      /\ ~haveFlush => UNCHANGED <<runLoop, allocLoop, tasks, waiting>>
  BY DEF DequeueWork, Takes, TakesPosting
<1>3. Runs
  <2>1. b.failed => ReusedOutBuf(b).failed /\ ReusedOutBuf(b) \in Boards
    BY <1>1, ReusedHolds DEF Stays, Leaves
  <2>2. b.failed => b'.failed BY <1>2, <2>1 DEF Boards
  <2> QED BY <1>1, <1>2, <2>2 DEF Runs, Sound, inVars
<1>4. ~reuse /\ ~haveFlush BY <1>1, <1>3, EnoughParts DEF Awaiting
<1>5. ReusedOutBuf(b) = b BY <1>4 DEF ReusedOutBuf
<1>6. SameBlocks(b, b') /\ b'.eosReported = b.eosReported
      /\ b'.drainEos = IF Head(works) # "data" THEN Head(works) = "eos" ELSE b.drainEos
  BY <1>1, <1>2, <1>5 DEF SameBlocks, Boards
<1>7. ~Has(todo, "drainDone") /\ ~Has(todo, "resetDone") /\ ~draining /\ ~b.eosReported
  BY <1>1, <1>3, EnoughParts DEF Drains, EosAlone, Tracked, Resets
<1>8. \A op : op # "dequeueWork" => (Has(todo', op) => Has(todo, op))
  <2>1. Plain("dequeueWork") \in Tasks /\ Plain("dequeueWork").op = "dequeueWork" BY PlainTasks DEF PlainOps
  <2>2. Follows(todo, todo', 1, {}) \/ Follows(todo, todo', 1, {Plain("dequeueWork")})
    BY <1>2, <1>3, <2>1, EnoughParts, TasksFollow
  <2> QED BY <2>1, <2>2 DEF Follows, Has
<1>9. Drains' BY <1>1, <1>2, <1>7, <1>8 DEF Drains, Has
<1>10. EosAlone'
  <2>1. Head(works) = "eos" => works' = <<>>
    <3>1. 1 \in DOMAIN works /\ works[1] = Head(works) BY <1>1
    <3>2. Head(works) = "eos" => Len(works) = 1 BY <3>1 DEF OrderlyClient
    <3> QED BY <1>1, <1>2, <3>2
  <2>2. ~Has(todo', "drainDone") /\ at' # "drained" BY <1>2, <1>7, <1>8
  <2> QED BY <2>1, <2>2, <1>2, <1>6, <1>7 DEF EosAlone
<1>11. Carries(todo, todo', Useful)
  <2>1. Plain("dequeueWork") \in Tasks BY PlainTasks DEF PlainOps
  <2> QED BY <1>2, <1>3, <2>1, EnoughParts, CarriesOf
<1>12. Coming' = Coming BY <1>2, <1>4 DEF Coming
<1>13. UNCHANGED <<haveFlush, reuse, runLoop, allocLoop>>
  <2>1. reuse \in BOOLEAN /\ haveFlush \in BOOLEAN BY DEF HeldInv, TypeInv, TypesOK
  <2> QED BY <2>1, <1>2, <1>4
<1>14. Exact' /\ Awaiting' /\ Spread' /\ Balanced'
  BY <1>1, <1>2, <1>3, <1>4, <1>6, <1>11, <1>12, <1>13, EnoughParts, CalmKept
     DEF HeldInv, formatVars, poolVars
<1> QED BY <1>9, <1>10, <1>14 DEF EnoughInv

\* FlushReturns keeps the balance: the next work will start the dequeue thread again.
LEMMA FlushReturnsEnough ==
  ASSUME HeldInv, HeldInv', EnoughInv, Runs', FlushReturns
  PROVE  EnoughInv'
<1>1. /\ UNCHANGED <<inVars, state, works, b, last, pending, first, formatVars, loopVars, poolVars,
                      decVars, at, haveDrain, withClient>>
      /\ client = "woken" /\ haveFlush' = TRUE /\ reuse' = TRUE
      /\ todo' = Append(todo, Plain("dequeueWork"))
  BY DEF FlushReturns, Posts
<1>2. Runs BY <1>1 DEF Runs, Sound, inVars, decVars
<1>3. Plain("dequeueWork") \in Tasks /\ Plain("dequeueWork").op = "dequeueWork" BY PlainTasks DEF PlainOps
<1>4. Follows(todo, todo', 0, {Plain("dequeueWork")}) BY <1>1, <1>2, <1>3, EnoughParts, TasksFollow
<1>5. Drains' /\ EosAlone'
  BY <1>1, <1>2, <1>3, <1>4, EnoughParts, DrainsKept DEF decVars
<1>6. Carries(todo, todo', Useful) BY <1>1, <1>2, <1>3, EnoughParts, CarriesOf
<1>7. Again /\ Again' BY <1>1 DEF Again
<1>8. works = <<>> BY <1>1, <1>2, EnoughParts DEF Ordered
<1>9. Has(todo, "formatChanged") => Has(todo', "formatChanged") BY <1>6 DEF Carries, Has
<1>10. Awaiting' BY <1>1, <1>2, <1>8, <1>9, EnoughParts DEF Awaiting, formatVars, loopVars
<1>11. Exact' /\ Spread' BY <1>1, <1>2, <1>7, EnoughParts DEF Exact, Spread
<1>12. Balanced' BY <1>7 DEF Balanced, Rounds
<1> QED BY <1>5, <1>10, <1>11, <1>12 DEF EnoughInv

\* NotifyResetDone keeps the balance: the answer to a flush comes behind that to a drain.
LEMMA NotifyResetDoneEnough ==
  ASSUME HeldInv, HeldInv', EnoughInv, Runs', NotifyResetDone
  PROVE  EnoughInv'
<1>1. /\ UNCHANGED <<inVars, state, works, last, pending, first, client, haveFlush, reuse, formatVars,
                      loopVars, poolVars, shown, at, haveDrain, withClient>>
      /\ resets > 0 /\ draining' = FALSE /\ todo' = Append(todo, Plain("resetDone"))
      /\ b' = [b EXCEPT !.held = {}, !.fed = FALSE]
  BY DEF NotifyResetDone, Posts
<1>2. /\ b \in Boards /\ b'.failed = b.failed /\ ~b'.fed /\ b'.decoder = b.decoder
      /\ b'.infos = b.infos /\ b'.count = b.count /\ b'.toWork = b.toWork /\ b'.afterFlush = b.afterFlush
      /\ b'.eosReported = b.eosReported /\ b'.drainEos = b.drainEos
  <2>1. b \in Boards BY DEF HeldInv, TypeInv, BoardOK, Proper
  <2> QED BY <1>1, <2>1 DEF Boards
<1>3. Runs BY <1>1, <1>2 DEF Runs, Sound, inVars
<1>4. state = "FLUSHING" /\ at # "flushDone"
  BY <1>1, <1>3, EnoughParts DEF Tracked, Resets, HeldInv, TypeInv, TypesOK
<1>5. Plain("resetDone") \in Tasks /\ Plain("resetDone").op = "resetDone" BY PlainTasks DEF PlainOps
<1>6. Ends(todo, todo', Plain("resetDone")) BY <1>1, <1>3, <1>5, EnoughParts, PostedLast
<1>7. \A op : op # "resetDone" => (Has(todo', op) <=> Has(todo, op))
  BY <1>5, <1>6, Zenon DEF Has, Ends
<1>8. Drains'
  <2>1. \A i, j \in DOMAIN todo' : todo'[i].op = "drainDone" =>
          /\ todo'[j].op = "output" => j < i
          /\ todo'[j].op = "drainDone" => i = j
          /\ todo'[j].op = "resetDone" => i < j
    <3> SUFFICES ASSUME NEW i \in DOMAIN todo', NEW j \in DOMAIN todo', todo'[i].op = "drainDone"
                 PROVE  /\ todo'[j].op = "output" => j < i
                        /\ todo'[j].op = "drainDone" => i = j
                        /\ todo'[j].op = "resetDone" => i < j
      OBVIOUS
    <3>1. i \in DOMAIN todo /\ todo'[i] = todo[i] /\ i < Len(todo') BY <1>5, <1>6, Zenon DEF Ends
    <3>2. CASE j \in DOMAIN todo
      <4>1. todo'[j] = todo[j] BY <3>2, <1>6, Zenon DEF Ends
      <4> QED BY <4>1, <3>1, <3>2, <1>3, EnoughParts DEF Drains
    <3>3. CASE j = Len(todo') BY <3>1, <3>3, <1>5, <1>6 DEF Ends
    <3> QED BY <3>2, <3>3, <1>6, Zenon DEF Ends
  <2> QED BY <2>1, <1>1, <1>2, <1>3, <1>4, <1>7, EnoughParts DEF Drains
<1>9. EosAlone' BY <1>1, <1>2, <1>3, <1>7, EnoughParts DEF EosAlone
<1>10. Ids(b') = Ids(b) /\ Waits(b') = Waits(b) /\ \A o : OwnedBy(b', o) = OwnedBy(b, o) /\ Excess(b', o) = Excess(b, o)
  BY <1>2 DEF Ids, OwnedBy, Excess, Waits, IdsIn
<1>11. Exact' BY <1>3, <1>10, EnoughParts DEF Exact
<1>12. Awaiting' BY <1>1, <1>2, <1>3, <1>7, <1>10, EnoughParts DEF Awaiting, formatVars, loopVars
<1>13. Spread' BY <1>1, <1>2, <1>3, <1>4, <1>10, EnoughParts DEF Spread, Again
<1>14. Balanced' BY <1>1, <1>4 DEF Balanced, Rounds
<1> QED BY <1>8, <1>9, <1>11, <1>12, <1>13, <1>14 DEF EnoughInv

\* ProvidePictureBuffers keeps the balance: a decoder that waits for blocks has none.
LEMMA ProvidePictureBuffersEnough ==
  ASSUME HeldInv, HeldInv', EnoughInv, Runs', ProvidePictureBuffers
  PROVE  EnoughInv'
<1>1. PICK t : /\ t.op = "formatChanged" /\ todo' = Append(todo, t)
               /\ UNCHANGED <<inVars, state, works, last, pending, first, client, haveFlush, reuse, format,
                               loopVars, poolVars, draining, resets, at, haveDrain, withClient>>
               /\ b.decoder # "waiting" /\ b' = [b EXCEPT !.decoder = "waiting", !.held = {}]
               /\ shown' = shown + 1
  BY DEF ProvidePictureBuffers, Posts
<1>2. /\ b \in Boards /\ b'.failed = b.failed /\ b'.fed = b.fed /\ b'.decoder = "waiting"
      /\ b'.infos = b.infos /\ b'.count = b.count /\ b'.toWork = b.toWork /\ b'.afterFlush = b.afterFlush
      /\ b'.eosReported = b.eosReported /\ b'.drainEos = b.drainEos
  <2>1. b \in Boards BY DEF HeldInv, TypeInv, BoardOK, Proper
  <2> QED BY <1>1, <2>1 DEF Boards
<1>3. Runs BY <1>1, <1>2 DEF Runs, Sound, inVars, HeldInv, TypeInv, TypesOK
<1>4. t \in Tasks
  <2>1. todo' \in Seq(Tasks) /\ todo \in Seq(Tasks) BY DEF HeldInv, TypeInv, TypesOK
  <2>2. Len(todo') \in DOMAIN todo' /\ todo'[Len(todo')] = t BY <1>1, <2>1
  <2> QED BY <2>1, <2>2
<1>5. Follows(todo, todo', 0, {t}) /\ Ends(todo, todo', t) BY <1>1, <1>3, <1>4, EnoughParts, TasksFollow, PostedLast
<1>6. Drains' /\ EosAlone'
  BY <1>1, <1>2, <1>3, <1>5, EnoughParts, DrainsKept
<1>7. Has(todo', "formatChanged") BY <1>1, <1>5 DEF Has, Ends
<1>8. at \notin {"change", "allocate"} BY <1>1, <1>3, EnoughParts DEF Tracked, Waiting
<1>9. Ids(b') = Ids(b) /\ Waits(b') = Waits(b) /\ \A o : OwnedBy(b', o) = OwnedBy(b, o) /\ Excess(b', o) = Excess(b, o)
  BY <1>2 DEF Ids, OwnedBy, Excess, Waits, IdsIn
<1>10. Exact' BY <1>3, <1>9, EnoughParts DEF Exact
<1>11. Awaiting' BY <1>1, <1>2, <1>3, <1>7, <1>8, EnoughParts DEF Awaiting, loopVars
<1>12. Spread' BY <1>1, <1>2, <1>3, <1>9, EnoughParts DEF Spread, Again
<1>13. Balanced' BY <1>2 DEF Balanced, Rounds
<1> QED BY <1>6, <1>10, <1>11, <1>12, <1>13 DEF EnoughInv

\* What onReusedOutBuf makes of the blocks.
LEMMA ReusedParts ==
  ASSUME NEW s, Proper(s)
  PROVE  LET m == ReusedOutBuf(s)
         IN  /\ m \in Boards /\ Ids(m) = Ids(s) /\ m.toWork = s.toWork /\ m.decoder = s.decoder
             /\ m.failed = s.failed /\ m.fed = s.fed /\ m.drainEos = s.drainEos /\ m.eosReported = s.eosReported
             /\ \A o \in Owners : Excess(m, o) = Excess(s, o)
             /\ ~(reuse /\ first) => m = s
             /\ reuse /\ first =>
                  /\ OwnedBy(m, "component") \subseteq OwnedBy(s, "component") \ s.afterFlush
                  /\ OwnedBy(m, "accelerator") = OwnedBy(s, "accelerator")
                                                    \cup (s.afterFlush \cap OwnedBy(s, "component"))
                  /\ s.decoder = "running" => OwnedBy(m, "accelerator") \subseteq m.held
<1> DEFINE own == [s EXCEPT !.afterFlush = {}]
           ids == (s.afterFlush \cap OwnedBy(s, "component")) \cup OwnedBy(s, "accelerator")
           given == Given(own, ids)
           m == ReusedOutBuf(s)
<1>1. s \in Boards /\ own \in Boards /\ own.infos = s.infos /\ own.toWork = s.toWork /\ own.fed = s.fed
      /\ own.held = s.held /\ own.decoder = s.decoder /\ own.failed = s.failed /\ own.count = s.count
      /\ own.drainEos = s.drainEos /\ own.eosReported = s.eosReported
  BY DEF Proper, Boards
<1>2. Ids(own) = Ids(s) /\ \A o : OwnedBy(own, o) = OwnedBy(s, o) /\ Excess(own, o) = Excess(s, o)
  BY <1>1 DEF Ids, OwnedBy, Excess
<1>3. ids \in SUBSET Ids(own) /\ IsFiniteSet(Ids(own))
  BY <1>2 DEF Proper, OwnedBy
<1>4. IF reuse /\ first THEN m = given ELSE m = s
  BY DEF ReusedOutBuf
<1> HIDE DEF own, given
<1>5. /\ given \in Boards /\ Ids(given) = Ids(own) /\ SameFlags(own, given)
      /\ given.held = IF own.decoder = "running" THEN own.held \cup ids ELSE own.held
      /\ OwnedBy(given, "accelerator") = OwnedBy(own, "accelerator") \cup ids
      /\ \A o \in {"client", "component"} : OwnedBy(given, o) = OwnedBy(own, o) \ ids
      /\ \A o \in Owners : Excess(given, o) = Excess(own, o)
  BY <1>1, <1>3, GivenKeeps DEF given
<1> HIDE DEF m
<1>6. CASE reuse /\ first
  <2>1. m = given BY <1>4, <1>6
  <2>2. /\ m \in Boards /\ Ids(m) = Ids(s) /\ m.toWork = s.toWork /\ m.decoder = s.decoder
        /\ m.failed = s.failed /\ m.fed = s.fed /\ m.drainEos = s.drainEos /\ m.eosReported = s.eosReported
    BY <2>1, <1>1, <1>2, <1>5 DEF SameFlags
  <2>3. \A o \in Owners : Excess(m, o) = Excess(s, o) BY <2>1, <1>2, <1>5
  <2>4. /\ OwnedBy(m, "component") \subseteq OwnedBy(s, "component") \ s.afterFlush
        /\ OwnedBy(m, "accelerator") = OwnedBy(s, "accelerator") \cup (s.afterFlush \cap OwnedBy(s, "component"))
    BY <2>1, <1>2, <1>5
  <2>5. s.decoder = "running" => OwnedBy(m, "accelerator") \subseteq m.held
    BY <2>1, <1>1, <1>2, <1>5
  <2> QED BY <1>6, <2>2, <2>3, <2>4, <2>5 DEF m
<1>7. CASE ~(reuse /\ first)
  BY <1>1, <1>4, <1>7 DEF m
<1> QED BY <1>6, <1>7

\* A task for every block that neither the decoder has nor the component is enough.
LEMMA RestartCovers ==
  ASSUME TypeInv', HeldBy(b'), Exact', fetch' \subseteq {format'.size}, format' = format,
         NEW s, s.count = b'.count, tasks' >= RestartTasks(s),
         OwnedBy(b', "component") = {}, OwnedBy(b', "accelerator") \subseteq b'.held
  PROVE  Near' + Coming' >= format'.min
<1>1. /\ Cardinality(b'.held) \in Nat /\ Count(todo', Useful') \in Nat /\ Cardinality(fetch') \in {0, 1}
      /\ Near' \in Nat /\ Coming' \in Nat
  BY NearComingNext
<1>2. /\ tasks' \in Nat /\ waiting' \in Nat /\ format.min \in Nat /\ b' \in Boards /\ IsFiniteSet(Ids(b'))
  BY DEF TypeInv, TypesOK, Formats, BoardOK, Proper
<1> DEFINE a == s.count["accelerator"]
           c == s.count["client"]
           stop == StopCount(s)
<1>3. a \in Int /\ c \in Int /\ s.count["component"] = 0
  <2>1. b'.count \in [Owners -> Int] BY <1>2, BoardInfos
  <2>2. Excess(b', "component") = 0 BY DEF Exact, Owners
  <2>3. Cardinality(OwnedBy(b', "component")) = 0 BY FS_EmptySet
  <2> QED BY <2>1, <2>2, <2>3 DEF Owners, Excess
<1>4. a <= Cardinality(b'.held)
  <2>1. Excess(b', "accelerator") = 0 BY DEF Exact, Owners
  <2>2. IsFiniteSet(b'.held) BY <1>2, HeldFinite
  <2>3. Cardinality(OwnedBy(b', "accelerator")) <= Cardinality(b'.held) BY <2>2, FS_Subset
  <2>4. Cardinality(OwnedBy(b', "accelerator")) \in Nat BY <1>2, OwnedFinite
  <2> QED BY <1>1, <1>3, <2>1, <2>3, <2>4 DEF Excess
<1>5. stop = format.min - c - a
  <2>1. stop = format.min - c - a - s.count["component"] BY DEF StopCount
  <2> HIDE DEF stop, c, a
  <2> QED BY <2>1, <1>2, <1>3
<1>6. RestartTasks(s) = c + Larger(stop, 0) BY DEF RestartTasks
<1> HIDE DEF stop, c, a
<1>7. Larger(stop, 0) >= stop /\ Larger(stop, 0) \in Int BY <1>5, <1>2, <1>3 DEF Larger
<1>8. tasks' + a >= format.min BY <1>2, <1>3, <1>5, <1>6, <1>7
<1>9. Coming' >= tasks' BY <1>1, <1>2 DEF Coming
<1>10. Near' >= a
  <2>1. Near' = Cardinality(b'.held) + Count(todo', Useful') BY DEF Near
  <2> QED BY <2>1, <1>1, <1>3, <1>4
<1> QED BY <1>1, <1>2, <1>3, <1>8, <1>9, <1>10

\* QueueWork keeps the balance: the first work after a drain or a flush brings the dequeue thread the
\* tasks for all blocks that the decoder lacks.
LEMMA QueueWorkEnough ==
  ASSUME HeldInv, HeldInv', EnoughInv, OrderlyClient', Runs', QueueWork
  PROVE  EnoughInv'
<1> DEFINE s == ReusedOutBuf(b)
           restart == s.eosReported \/ haveFlush
<1>1. /\ todo # <<>> /\ Head(todo).op = "queueWork" /\ todo' = Append(Tail(todo), Plain("dequeueWork"))
      /\ at = "idle" /\ b' = [s EXCEPT !.eosReported = @ /\ ~restart] /\ haveDrain' = (haveDrain /\ ~restart)
      /\ reuse' = FALSE /\ haveFlush' = FALSE
      /\ IF restart THEN ReStartAllocTask(s) ELSE UNCHANGED <<runLoop, allocLoop, tasks, waiting>>
      /\ UNCHANGED <<inVars, state, last, pending, first, client, formatVars, fetch, poolVars, decVars,
                     at, withClient>>
  BY DEF QueueWork, TakesPosting
<1>2. /\ s \in Boards /\ Ids(s) = Ids(b) /\ s.toWork = b.toWork /\ s.decoder = b.decoder
      /\ s.failed = b.failed /\ s.fed = b.fed /\ s.drainEos = b.drainEos /\ s.eosReported = b.eosReported
      /\ \A o \in Owners : Excess(s, o) = Excess(b, o)
      /\ ~(reuse /\ first) => s = b
      /\ reuse /\ first =>
           /\ OwnedBy(s, "component") \subseteq OwnedBy(b, "component") \ b.afterFlush
           /\ OwnedBy(s, "accelerator") = OwnedBy(b, "accelerator")
                                             \cup (b.afterFlush \cap OwnedBy(b, "component"))
           /\ b.decoder = "running" => OwnedBy(s, "accelerator") \subseteq s.held
  BY ReusedParts DEF HeldInv, TypeInv, BoardOK
<1>3. restart = (b.eosReported \/ haveFlush) BY <1>2
<1> HIDE DEF s, restart
<1>4. /\ b' \in Boards /\ b'.eosReported = FALSE /\ b'.infos = s.infos /\ b'.count = s.count /\ b'.toWork = s.toWork
      /\ b'.held = s.held /\ b'.decoder = s.decoder /\ b'.failed = s.failed /\ b'.fed = s.fed
      /\ b'.drainEos = s.drainEos /\ b'.afterFlush = s.afterFlush
  BY <1>1, <1>2, <1>3 DEF Boards
<1>5. Runs BY <1>1, <1>2, <1>4 DEF Runs, Sound, inVars, decVars
<1>6. Plain("dequeueWork") \in Tasks /\ Plain("dequeueWork").op = "dequeueWork" BY PlainTasks DEF PlainOps
<1>7. Follows(todo, todo', 1, {Plain("dequeueWork")}) /\ Carries(todo, todo', Useful)
  BY <1>1, <1>5, <1>6, EnoughParts, TasksFollow, CarriesOf
<1>8. /\ Drains' /\ (Has(todo', "drainDone") => Has(todo, "drainDone"))
      /\ Has(todo', "output") => Has(todo, "output") \/ b.fed
  <2>1. /\ Drains' /\ (Has(todo', "drainDone") => Has(todo, "drainDone"))
        /\ Has(todo', "output") => Has(todo, "output") \/ b.fed
    BY <1>1, <1>2, <1>4, <1>5, <1>6, <1>7, EnoughParts, DrainsFollow DEF decVars
  <2> QED BY <2>1
<1>9. state # "FLUSHING" /\ client # "woken"
  <2>1. Has(todo, "queueWork") BY <1>1, <1>5, EnoughParts, HeadTask DEF Has
  <2> QED BY <2>1, <1>5, EnoughParts DEF Ordered
<1>10. EosAlone'
  <2>1. draining' \/ Has(todo', "drainDone") => state' = "DRAINING"
    BY <1>1, <1>5, <1>8, <1>9, EnoughParts DEF Drains, decVars
  <2> QED BY <1>1, <1>4, <2>1 DEF EosAlone, OrderlyClient
<1>11. Exact'
  <2>1. \A o : Excess(b', o) = Excess(s, o) BY <1>4 DEF Excess, OwnedBy, Ids
  <2> QED BY <2>1, <1>2, <1>5, EnoughParts DEF Exact
<1>12. ~Again' BY <1>1, <1>9 DEF Again
<1>13. Ids(b') = Ids(b) /\ (\A o : OwnedBy(b', o) = OwnedBy(s, o)) /\ Waits(b') = Waits(b)
  BY <1>2, <1>4 DEF Ids, OwnedBy, Waits, IdsIn
<1>14. Awaiting'
  <2>1. Has(todo, "formatChanged") => Has(todo', "formatChanged") BY <1>7 DEF Carries, Has
  <2> QED BY <1>1, <1>2, <1>4, <1>5, <2>1, EnoughParts DEF Awaiting, formatVars
<1>15. Pictures(todo) \subseteq Pictures(todo') BY <1>7 DEF Carries, Pictures
<1>16. reuse \in BOOLEAN /\ haveFlush \in BOOLEAN /\ haveFlush = reuse
  BY <1>5, EnoughParts DEF TypeInv, TypesOK, Awaiting
<1>17. Spread'
  <2> SUFFICES ASSUME pending = {}
               PROVE  /\ OwnedBy(b', "component") \subseteq Waits(b')
                      /\ b'.decoder = "running" =>
                           OwnedBy(b', "accelerator") \subseteq b'.held \cup Pictures(todo')
    BY <1>1, <1>12 DEF Spread
  <2>1. /\ OwnedBy(b, "component") \subseteq Waits(b) \cup (IF Again THEN b.afterFlush ELSE {})
        /\ b.decoder = "running" /\ state # "FLUSHING" /\ ~Again =>
             OwnedBy(b, "accelerator") \subseteq b.held \cup Pictures(todo)
    BY <1>5, EnoughParts DEF Spread
  <2>2. CASE reuse /\ first BY <2>1, <2>2, <1>2, <1>4, <1>13
  <2>3. CASE ~reuse
    <3>1. ~Again /\ s = b BY <2>3, <1>2, <1>9 DEF Again
    <3> QED BY <3>1, <2>1, <1>4, <1>9, <1>13, <1>15
  <2>4. CASE reuse /\ ~first
    <3>1. Ids(b') = {} BY <2>4, <1>13, <1>5, EnoughParts DEF TypeInv, Empty
    <3> QED BY <3>1 DEF OwnedBy
  <2> QED BY <2>2, <2>3, <2>4
<1>18. HeldBy(b') /\ TypeInv' /\ ~Again' /\ b'.failed = b.failed
  BY <1>2, <1>4, <1>12 DEF HeldInv, Tracked, HeldOn, Runs
<1>19. CASE ~restart
  <2>1. ~reuse /\ s = b /\ b.eosReported = FALSE /\ ~haveFlush
    BY <1>19, <1>2, <1>3, <1>16, <1>5 DEF HeldInv, TypeInv, BoardOK, Proper, Boards
  <2>2. UNCHANGED <<runLoop, allocLoop, tasks, waiting>> /\ (haveDrain => haveDrain')
    BY <1>1, <1>19
  <2>3. Coming' = Coming BY <1>1, <2>2 DEF Coming
  <2>4. SameBlocks(b, b') BY <2>1, <1>4 DEF SameBlocks
  <2>5. UNCHANGED <<haveFlush, reuse>> BY <2>1, <1>1, <1>16
  <2>6. Balanced'
    BY <1>1, <1>5, <1>7, <2>1, <2>2, <2>3, <2>4, <2>5, EnoughParts, CalmKept
       DEF HeldInv, formatVars, poolVars
  <2> QED BY <2>6, <1>8, <1>10, <1>11, <1>14, <1>17 DEF EnoughInv
<1>20. CASE restart
  <2> SUFFICES ASSUME Rounds'
               PROVE  Near' + Coming' >= format'.min /\ runLoop' /\ allocLoop'
    BY <1>8, <1>10, <1>11, <1>14, <1>17 DEF EnoughInv, Balanced
  <2>1. first /\ pending' = {} /\ b'.decoder = "running" BY <1>1 DEF Rounds
  <2>2. b.toWork = <<>> /\ ~Has(todo, "output") /\ ~b.fed
    <3>1. CASE reuse BY <3>1, <1>5, EnoughParts DEF Tracked, Resets
    <3>2. CASE b.eosReported BY <3>2, <1>5, EnoughParts DEF EosAlone
    <3> QED BY <3>1, <3>2, <1>20, <1>3, <1>16
  <2>3. Waits(b') = {} /\ Pictures(todo') = {}
    <3>1. Len(b'.toWork) = 0 BY <2>2, <1>2, <1>4
    <3>2. 1 .. Len(b'.toWork) = {} BY <3>1
    <3>3. Waits(b') = {} BY <3>2 DEF Waits, IdsIn
    <3>4. ~Has(todo', "output") BY <1>8, <2>2
    <3>5. Pictures(todo') = {} BY <3>4 DEF Pictures, Has
    <3> QED BY <3>3, <3>5
  <2>4. OwnedBy(b', "component") = {} /\ OwnedBy(b', "accelerator") \subseteq b'.held
    BY <1>1, <1>9, <1>12, <1>17, <2>1, <2>3 DEF Spread
  <2>5. Keeps(b, s) BY ReusedKeeps DEF HeldInv, TypeInv, BoardOK, s
  <2>6. ReStartAllocTask(s) BY <1>1, <1>20
  <2>7. runLoop' = TRUE /\ allocLoop' = TRUE
    BY <2>5, <2>6, Restarts, <1>5 DEF HeldInv, Runs, Sound
  <2>8. tasks' = tasks + waiting + RestartTasks(s)
    BY <2>6, <2>1 DEF ReStartAllocTask, Started
  <2>9. tasks' >= RestartTasks(s)
    <3>1. tasks \in Nat /\ waiting \in Nat /\ tasks' \in Nat BY DEF HeldInv, TypeInv, TypesOK
    <3>2. RestartTasks(s) \in Int
      <4>1. s.count \in [Owners -> Int] /\ format.min \in Int
        <5>1. s.count \in [Owners -> Int] BY <1>2, BoardInfos
        <5>2. format.min \in Int BY DEF HeldInv, TypeInv, TypesOK, Formats
        <5> QED BY <5>1, <5>2
      <4>2. StopCount(s) \in Int BY <4>1 DEF StopCount, Owners
      <4> QED BY <4>1, <4>2 DEF RestartTasks, Larger, Owners
    <3> HIDE DEF RestartTasks
    <3> QED BY <3>1, <3>2, <2>8
  <2>10. fetch' \subseteq {format'.size} /\ format' = format
    BY <1>1, <1>14, <2>1 DEF Awaiting, formatVars
  <2>11. Near' + Coming' >= format'.min
    BY <1>4, <1>11, <1>18, <2>4, <2>9, <2>10, RestartCovers
  <2> QED BY <2>7, <2>11
<1> QED BY <1>19, <1>20

\* A step that brings no format, and posts a task that takes a block on: the blocks are where they were.
LEMMA PostedKept ==
  ASSUME HeldInv, EnoughInv, Runs, Runs', NEW t \in Tasks, todo' = Append(todo, t),
         t.op \in {"output", "returned", "new"}, t.op = "output" => b.fed,
         UNCHANGED <<device, state, works, format, pending, first, client, changing, haveFlush, reuse, draining, at>>,
         b'.infos = b.infos, b'.count = b.count, b'.toWork = b.toWork, b'.afterFlush = b.afterFlush,
         b'.decoder = b.decoder, b'.fed = b.fed, b'.drainEos = b.drainEos, b'.eosReported = b.eosReported,
         t.op = "output" => b.held \subseteq b'.held \cup {t.id}, t.op # "output" => b'.held = b.held,
         fetch' \subseteq fetch
  PROVE  Exact' /\ Awaiting' /\ Drains' /\ EosAlone' /\ Spread'
<1>1. Ends(todo, todo', t) /\ Follows(todo, todo', 0, {t}) BY EnoughParts, PostedLast, TasksFollow
<1>2. Drains' /\ EosAlone' BY <1>1, EnoughParts, DrainsKept
<1>3. Ids(b') = Ids(b) /\ Waits(b') = Waits(b) /\ \A o : OwnedBy(b', o) = OwnedBy(b, o) /\ Excess(b', o) = Excess(b, o)
  BY DEF Ids, OwnedBy, Excess, Waits, IdsIn
<1>4. Exact' BY <1>3, EnoughParts DEF Exact
<1>5. Has(todo, "formatChanged") => Has(todo', "formatChanged") BY <1>1 DEF Ends, Has
<1>6. Awaiting' BY <1>3, <1>5, EnoughParts DEF Awaiting
<1>7. Pictures(todo) \subseteq Pictures(todo') /\ (t.op = "output" => t.id \in Pictures(todo'))
  BY <1>1 DEF Ends, Pictures
<1>8. Spread' BY <1>3, <1>7, EnoughParts DEF Spread, Again
<1> QED BY <1>2, <1>4, <1>6, <1>8

\* Decode keeps the balance: a block becomes a picture.
LEMMA DecodeEnough ==
  ASSUME HeldInv, HeldInv', EnoughInv, Runs', Decode
  PROVE  EnoughInv'
<1>1. PICK id \in b.held :
        /\ b.fed /\ todo' = Append(todo, [op |-> "output", id |-> id]) /\ b' = [b EXCEPT !.held = @ \ {id}]
        /\ UNCHANGED <<inVars, state, works, last, pending, first, client, haveFlush, reuse, formatVars,
                        loopVars, poolVars, decVars, at, haveDrain, withClient>>
  BY DEF Decode, Posts
<1> DEFINE t == [op |-> "output", id |-> id]
<1>2. /\ b \in Boards /\ b'.failed = b.failed /\ b'.infos = b.infos /\ b'.count = b.count /\ b'.toWork = b.toWork
      /\ b'.afterFlush = b.afterFlush /\ b'.decoder = b.decoder /\ b'.fed = b.fed /\ b'.drainEos = b.drainEos
      /\ b'.eosReported = b.eosReported /\ b'.held = b.held \ {id} /\ id \in Nat
  <2>1. b \in Boards BY DEF HeldInv, TypeInv, BoardOK, Proper
  <2> QED BY <1>1, <2>1 DEF Boards
<1>3. Runs BY <1>1, <1>2 DEF Runs, Sound, inVars, decVars
<1>4. t \in Tasks /\ t.op = "output" /\ t.id = id BY <1>2 DEF Tasks
<1> HIDE DEF t
<1>5. todo' = Append(todo, t) BY <1>1 DEF t
<1>6. Exact' /\ Awaiting' /\ Drains' /\ EosAlone' /\ Spread'
  BY <1>1, <1>2, <1>3, <1>4, <1>5, PostedKept DEF formatVars, loopVars, decVars
<1>7. SUFFICES ASSUME Rounds'
               PROVE  Near' + Coming' >= format'.min /\ runLoop' /\ allocLoop'
  BY <1>6 DEF EnoughInv, Balanced
<1>8. Rounds BY <1>1, <1>2, <1>7 DEF Rounds, Again
<1>9. Coming' = Coming /\ format' = format /\ runLoop' = runLoop /\ allocLoop' = allocLoop
  BY <1>1 DEF Coming, loopVars, formatVars
<1>10. HeldBy(b) /\ HeldBy(b') /\ fetch \subseteq {format.size} /\ fetch' \subseteq {format'.size}
  BY <1>1, <1>3, <1>7, <1>8, EnoughParts DEF HeldInv, Tracked, HeldOn, Awaiting, Rounds, formatVars, loopVars, Runs
<1>11. /\ Near \in Nat /\ Near' \in Nat /\ Coming \in Nat /\ Count(todo, Useful) \in Nat
       /\ Cardinality(b.held) \in Nat /\ Count(todo', Useful') \in Nat /\ Cardinality(b'.held) \in Nat
  BY <1>10, NearComing, NearComingNext DEF HeldInv
<1>12. Cardinality(b'.held) = Cardinality(b.held) - 1
  <2>1. IsFiniteSet(b.held) BY <1>3, <1>10, EnoughParts, HeldFinite
  <2> QED BY <2>1, <1>1, <1>2, FS_RemoveElement
<1>13. Count(todo', Useful') = Count(todo, Useful) + 1
  <2>1. Useful' = Useful /\ t \in Useful
    BY <1>1, <1>2, <1>4 DEF Useful, Ids, formatVars, poolVars
  <2>2. Count(todo', Useful) = Count(todo, Useful) + IF t \in Useful THEN 1 ELSE 0
    BY <1>3, <1>4, <1>5, EnoughParts, CountPosted
  <2> QED BY <2>1, <2>2
<1>14. Near' = Near
  <2>1. Near = Cardinality(b.held) + Count(todo, Useful) /\ Near' = Cardinality(b'.held) + Count(todo', Useful')
    BY DEF Near
  <2> QED BY <2>1, <1>11, <1>12, <1>13
<1>15. Near + Coming >= format.min BY <1>3, <1>8, EnoughParts DEF Balanced
<1>16. Near' + Coming' >= format'.min BY <1>9, <1>14, <1>15
<1>17. runLoop' /\ allocLoop' BY <1>3, <1>8, <1>9, EnoughParts, Zenon DEF Balanced
<1> QED BY <1>16, <1>17

\* A size is rounded up.
LEMMA AlignedFits ==
  ASSUME NEW d, NEW size \in Sizes
  PROVE  size[1] <= AlignedSize(d, size)[1] /\ size[2] <= AlignedSize(d, size)[2]
<1>1. size[1] \in Int /\ size[2] \in Int BY DEF Sizes
<1>2. WidthAlign(d) \in {32, 64} BY DEF WidthAlign
<1>3. \A n \in Int : n <= RoundedUp(n, 32) /\ n <= RoundedUp(n, 64) BY DEF RoundedUp
<1>4. \A n \in Int : n <= RoundedUp(n, WidthAlign(d)) BY <1>2, <1>3
<1>5. \A n \in Int, a \in BOOLEAN : n <= GetOutAlignedSize(d, n, a, FALSE)
  <2> SUFFICES ASSUME NEW n \in Int, NEW a \in BOOLEAN
               PROVE  n <= GetOutAlignedSize(d, n, a, FALSE)
    OBVIOUS
  <2>1. GetOutAlignedSize(d, n, a, FALSE) \in {RoundedUp(n, 64), RoundedUp(n, WidthAlign(d)), n}
    BY DEF GetOutAlignedSize
  <2>2. n <= RoundedUp(n, 64) /\ n <= RoundedUp(n, WidthAlign(d)) /\ n <= n BY <1>3, <1>4
  <2> QED BY <2>1, <2>2
<1> QED BY <1>1, <1>5 DEF AlignedSize

\* FetchGraphicBlock keeps the balance: the block is posted, or the task is posted again.
LEMMA FetchGraphicBlockEnough ==
  ASSUME HeldInv, HeldInv', EnoughInv, Runs', FetchGraphicBlock
  PROVE  EnoughInv'
<1>1. PICK size \in fetch :
        /\ fetch' = {}
        /\ \/ \E block \in Available(AlignedSize(device, size)) :
                /\ Known(block)
                /\ \/ Posts([op |-> IF IsCompHaveCurrentBlock(block) THEN "returned" ELSE "new",
                             block |-> block, id |-> IdOf(block)])
                   \/ ~Fits(block, format.size) /\ UNCHANGED todo
                /\ UNCHANGED tasks
           \/ tasks' = tasks + 1 /\ UNCHANGED <<todo, poolVars>>
        /\ UNCHANGED <<inVars, compVars, formatVars, runLoop, allocLoop, waiting, decVars, at, haveDrain,
                        withClient>>
  BY DEF FetchGraphicBlock
<1>2. b' = b /\ Runs BY <1>1 DEF Runs, Sound, compVars, inVars, decVars
<1>3. size \in Sizes BY DEF HeldInv, TypeInv, TypesOK
<1>4. Cardinality(fetch') = 0 BY <1>1, FS_EmptySet
<1>5. Rounds' => /\ Rounds /\ size = format.size /\ Near + Coming >= format.min
                 /\ runLoop' /\ allocLoop' /\ Cardinality(fetch) = 1 /\ Near \in Nat /\ Coming \in Nat
                 /\ Cardinality(b.held) \in Nat /\ Count(todo, Useful) \in Nat
  <2> SUFFICES ASSUME Rounds'
               PROVE  /\ Rounds /\ size = format.size /\ Near + Coming >= format.min
                      /\ runLoop' /\ allocLoop' /\ Cardinality(fetch) = 1 /\ Near \in Nat /\ Coming \in Nat
                      /\ Cardinality(b.held) \in Nat /\ Count(todo, Useful) \in Nat
    OBVIOUS
  <2>1. Rounds BY <1>1, <1>2 DEF Rounds, Again, compVars
  <2>2. Near + Coming >= format.min /\ runLoop' = runLoop /\ allocLoop' = allocLoop
    BY <1>1, <1>2, <2>1, EnoughParts DEF Balanced
  <2>3. fetch \subseteq {format.size} BY <1>2, <2>1, EnoughParts DEF Awaiting, Rounds
  <2>4. fetch = {format.size} BY <2>3
  <2>5. Cardinality(fetch) = 1 BY <2>4, FS_Singleton, Zenon
  <2>6. HeldBy(b) BY <1>2, EnoughParts DEF Tracked, HeldOn
  <2>7. runLoop' /\ allocLoop' BY <1>2, <2>1, <2>2, EnoughParts, Zenon DEF Balanced
  <2>8. /\ Near \in Nat /\ Coming \in Nat /\ Cardinality(b.held) \in Nat /\ Count(todo, Useful) \in Nat
    BY <2>3, <2>6, NearComing DEF HeldInv
  <2> QED BY <2>1, <2>2, <2>4, <2>5, <2>7, <2>8
<1>6. ASSUME UNCHANGED todo, DOMAIN pool \subseteq DOMAIN pool'
      PROVE  EnoughInv'
  <2>1. SameBlocks(b, b') BY <1>2 DEF SameBlocks
  <2>2. Carries(todo, todo', Useful) BY <1>2, <1>6, EnoughParts, CarriesOf
  <2>3. Drains' /\ EosAlone' BY <1>1, <1>2, <1>6, EnoughParts DEF Drains, EosAlone, compVars, decVars
  <2>4. Rounds' => tasks' = tasks + 1
    <3>1. CASE tasks' = tasks + 1 BY <3>1
    <3>2. ASSUME NEW block \in Available(AlignedSize(device, size)), Rounds',
                 \/ Posts([op |-> IF IsCompHaveCurrentBlock(block) THEN "returned" ELSE "new",
                           block |-> block, id |-> IdOf(block)])
                 \/ ~Fits(block, format.size)
          PROVE  FALSE
      <4>1. todo \in Seq(Tasks) BY <1>2, EnoughParts
      <4>2. \A task : todo # Append(todo, task) BY <4>1
      <4>3. ~Fits(block, format.size) BY <3>2, <4>2, <1>6 DEF Posts
      <4> DEFINE z == AlignedSize(device, size)
      <4>4. block \in BuffersOf(z) /\ size = format.size BY <1>5, <3>2 DEF Available
      <4>5. size[1] <= z[1] /\ size[2] <= z[2] BY <1>3, AlignedFits
      <4> HIDE DEF z
      <4>6. block[1] = z[1] /\ block[2] = z[2] BY <4>4 DEF BuffersOf
      <4> QED BY <4>3, <4>4, <4>5, <4>6 DEF Fits
    <3> QED BY <1>1, <3>1, <3>2
  <2>5. Rounds' => Coming' = Coming
    <3>1. tasks \in Nat /\ waiting \in Nat BY DEF HeldInv, TypeInv, TypesOK
    <3> QED BY <3>1, <1>1, <1>4, <1>5, <2>4 DEF Coming
  <2>6. Exact' /\ Awaiting' /\ Spread' /\ Balanced'
    BY <1>1, <1>2, <1>6, <2>1, <2>2, <2>5, EnoughParts, CalmKept
       DEF HeldInv, compVars, formatVars
  <2> QED BY <2>3, <2>6 DEF EnoughInv
<1>7. ASSUME NEW block \in Available(AlignedSize(device, size)), Known(block), UNCHANGED tasks,
             Posts([op |-> IF IsCompHaveCurrentBlock(block) THEN "returned" ELSE "new",
                    block |-> block, id |-> IdOf(block)])
      PROVE  EnoughInv'
  <2> DEFINE op == IF IdOf(block) \in Ids(b) THEN "returned" ELSE "new"
             t == [op |-> op, block |-> block, id |-> IdOf(block)]
  <2>1. t.op = op /\ t.block = block /\ t.id = IdOf(block) /\ op \in BlockOps BY DEF BlockOps
  <2>2. t \in Tasks
    <3>1. block \in Blocks BY <1>3, AvailableBlocks DEF HeldInv
    <3>2. IdOf(block) \in Nat BY DEF IdOf, HeldInv, TypeInv, TypesOK
    <3> QED BY <2>1, <3>1, <3>2 DEF Tasks
  <2>3. todo' = Append(todo, t) BY <1>7 DEF Posts, IsCompHaveCurrentBlock
  <2> HIDE DEF t
  <2>4. t.op \in {"returned", "new"} /\ (t.op = "returned" => t.id \in Ids(b)) BY <2>1 DEF BlockOps
  <2> HIDE DEF op
  <2>5. Exact' /\ Awaiting' /\ Drains' /\ EosAlone' /\ Spread'
    BY <1>1, <1>2, <2>2, <2>3, <2>4, PostedKept DEF compVars, formatVars, decVars
  <2>6. SUFFICES ASSUME Rounds'
                 PROVE  Near' + Coming' >= format'.min /\ runLoop' /\ allocLoop'
    BY <2>5 DEF EnoughInv, Balanced
  <2>7. DOMAIN pool' = DOMAIN pool \cup {block} BY <1>7, PoolGrows DEF HeldInv
  <2>8. Useful \subseteq Useful'
    BY <1>1, <1>2, <2>7, UsefulKept DEF formatVars
  <2>9. t \in Useful'
    <3> DEFINE z == AlignedSize(device, size)
    <3>1. z \in Sizes /\ block \in BuffersOf(z) BY <1>3, AlignedSizes DEF Available
    <3>2. z = <<z[1], z[2]>> BY <3>1 DEF Sizes
    <3> HIDE DEF z
    <3>3. SizeOf(block) = z BY <3>1, <3>2 DEF BuffersOf, SizeOf
    <3>4. SizeOf(block) = AlignedSize(device', format'.size)
      BY <1>1, <1>5, <2>6, <3>3 DEF z, formatVars
    <3> QED BY <1>2, <2>1, <2>2, <2>4, <2>7, <3>4 DEF Useful
  <2>10. Count(todo', Useful') >= Count(todo, Useful) + 1
    <3>1. todo \in Seq(Tasks) BY <1>2, EnoughParts
    <3>2. Count(todo', Useful') = Count(todo, Useful') + IF t \in Useful' THEN 1 ELSE 0
      BY <2>2, <2>3, <3>1, CountPosted
    <3>3. Count(todo, Useful') >= Count(todo, Useful) BY <2>8, <3>1, CountMore
    <3> QED BY <2>9, <3>1, <3>2, <3>3, CountNat
  <2>11. HeldBy(b') /\ fetch' \subseteq {format'.size}
    BY <1>1 DEF HeldInv, Tracked, HeldOn, Runs
  <2>12. Near' \in Nat /\ Coming' \in Nat /\ Count(todo', Useful') \in Nat
    BY <2>11, NearComingNext DEF HeldInv
  <2>13. Near' >= Near + 1
    <3>1. Near = Cardinality(b.held) + Count(todo, Useful) /\ Near' = Cardinality(b.held) + Count(todo', Useful')
      BY <1>2 DEF Near
    <3> QED BY <3>1, <1>5, <2>6, <2>10, <2>12
  <2>14. Coming' = Coming - 1
    <3>1. tasks \in Nat /\ waiting \in Nat BY DEF HeldInv, TypeInv, TypesOK
    <3> QED BY <3>1, <1>1, <1>4, <1>5, <1>7, <2>6 DEF Coming
  <2>15. format' = format BY <1>1 DEF formatVars
  <2>16. Near' + Coming' >= format'.min
    <3>1. format.min \in Nat BY DEF HeldInv, TypeInv, TypesOK, Formats
    <3> QED BY <3>1, <1>5, <2>6, <2>12, <2>13, <2>14, <2>15
  <2> QED BY <2>16, <1>5, <2>6
<1>8. CASE tasks' = tasks + 1 /\ UNCHANGED <<todo, poolVars>> BY <1>6, <1>8 DEF poolVars
<1>9. ASSUME NEW block \in Available(AlignedSize(device, size)), Known(block), UNCHANGED todo
      PROVE  EnoughInv'
  <2>1. DOMAIN pool' = DOMAIN pool \cup {block} BY <1>9, PoolGrows DEF HeldInv
  <2> QED BY <2>1, <1>6, <1>9
<1> QED BY <1>1, <1>7, <1>8, <1>9

\* The pictures that are left.
LEMMA PicturesTaken ==
  ASSUME NEW q \in Seq(Tasks), q # <<>>
  PROVE  /\ Head(q).op = "output" => Pictures(q) \subseteq Pictures(Tail(q)) \cup {Head(q).id}
         /\ Head(q).op # "output" => Pictures(q) \subseteq Pictures(Tail(q))
<1>1. q[1] = Head(q) BY HeadTask
<1>2. ASSUME NEW i \in DOMAIN q, i # 1
      PROVE  i - 1 \in DOMAIN Tail(q) /\ Tail(q)[i - 1] = q[i]
  BY <1>2
<1> QED BY <1>1, <1>2 DEF Pictures

\* A task is taken that announces no format, ends no drain and no flush.
LEMMA TakesKept ==
  ASSUME HeldInv, EnoughInv, Runs, todo # <<>>, todo' = Tail(todo), Head(todo).op # "formatChanged",
         UNCHANGED <<state, works, format, pending, first, client, changing, haveFlush, reuse, draining, fetch>>,
         at' \in {"idle", "send"},
         b'.decoder = b.decoder, b'.fed = b.fed, b'.drainEos = b.drainEos, b'.eosReported = b.eosReported,
         b.toWork = <<>> => b'.toWork = <<>> \/ Head(todo).op = "output"
  PROVE  Awaiting' /\ Drains' /\ EosAlone'
<1>1. Follows(todo, todo', 1, {}) BY EnoughParts, TasksFollow
<1>2. /\ Drains' /\ (Has(todo', "drainDone") => Has(todo, "drainDone"))
      /\ Has(todo', "output") => Has(todo, "output") \/ b.fed
  <2>1. /\ Drains' /\ (Has(todo', "drainDone") => Has(todo, "drainDone"))
        /\ Has(todo', "output") => Has(todo, "output") \/ b.fed
    BY <1>1, EnoughParts, DrainsFollow
  <2> QED BY <2>1
<1>3. Head(todo).op = "output" => Has(todo, "output") BY EnoughParts, HeadTask DEF Has
<1>4. EosAlone' BY <1>2, <1>3, EnoughParts DEF EosAlone
<1>5. Has(todo, "formatChanged") => Has(todo', "formatChanged")
  <2> SUFFICES ASSUME NEW i \in DOMAIN todo, todo[i].op = "formatChanged"
               PROVE  Has(todo', "formatChanged")
    BY DEF Has
  <2>1. i # 1 BY EnoughParts, HeadTask
  <2>2. i - 1 \in DOMAIN Tail(todo) /\ Tail(todo)[i - 1] = todo[i] BY <2>1, EnoughParts
  <2> QED BY <2>2 DEF Has
<1>6. Awaiting' BY <1>5, EnoughParts DEF Awaiting
<1> QED BY <1>2, <1>4, <1>6

\* One less here and one more there.
LEMMA OneMore ==
  \A n, c, m, d, x \in Nat : n + c >= x /\ m + 1 >= n /\ d >= c + 1 => m + d >= x
OBVIOUS

\* The task that is taken was not useful, or gave a block, or a task to the dequeue thread.
LEMMA TakenBalance ==
  ASSUME HeldInv, HeldInv', EnoughInv, Runs, Runs', Rounds, Rounds', Awaiting',
         todo # <<>>, todo' = Tail(todo), Useful \subseteq Useful', format' = format,
         \/ Head(todo) \notin Useful' /\ Cardinality(b'.held) >= Cardinality(b.held) /\ Coming' >= Coming
         \/ Cardinality(b'.held) >= Cardinality(b.held) + 1 /\ Coming' >= Coming
         \/ Cardinality(b'.held) >= Cardinality(b.held) /\ Coming' >= Coming + 1
  PROVE  Near' + Coming' >= format'.min
<1>1. todo \in Seq(Tasks) /\ Near + Coming >= format.min BY EnoughParts DEF Balanced
<1>2. fetch \subseteq {format.size} /\ fetch' \subseteq {format'.size}
  BY EnoughParts DEF Awaiting, Rounds
<1>3. HeldBy(b) /\ HeldBy(b') BY DEF HeldInv, Tracked, HeldOn, Runs
<1>4. /\ Near \in Nat /\ Coming \in Nat /\ Near' \in Nat /\ Coming' \in Nat
      /\ Cardinality(b.held) \in Nat /\ Count(todo, Useful) \in Nat
      /\ Cardinality(b'.held) \in Nat /\ Count(todo', Useful') \in Nat
  BY <1>2, <1>3, NearComing, NearComingNext DEF HeldInv
<1>5. Count(todo, Useful') >= Count(todo, Useful) /\ Count(todo, Useful') \in Nat
  BY <1>1, CountMore, CountNat
<1>6. /\ Count(todo', Useful') + 1 >= Count(todo, Useful')
      /\ Head(todo) \notin Useful' => Count(todo', Useful') >= Count(todo, Useful')
  BY <1>1, CountTaken
<1>7. Near = Cardinality(b.held) + Count(todo, Useful) /\ Near' = Cardinality(b'.held) + Count(todo', Useful')
  BY DEF Near
<1>11. format.min \in Nat /\ format'.min = format.min BY DEF HeldInv, TypeInv, TypesOK, Formats
<1>8. CASE Head(todo) \notin Useful' /\ Cardinality(b'.held) >= Cardinality(b.held) /\ Coming' >= Coming
  <2>1. Near' >= Near BY <1>4, <1>5, <1>6, <1>7, <1>8
  <2> QED BY <2>1, <1>1, <1>4, <1>8, <1>11
<1>9. CASE Cardinality(b'.held) >= Cardinality(b.held) + 1 /\ Coming' >= Coming
  <2>1. Near' >= Near BY <1>4, <1>5, <1>6, <1>7, <1>9
  <2> QED BY <2>1, <1>1, <1>4, <1>9, <1>11
<1>10. CASE Cardinality(b'.held) >= Cardinality(b.held) /\ Coming' >= Coming + 1
  <2>1. Near' + 1 >= Near BY <1>4, <1>5, <1>6, <1>7, <1>10
  <2>2. Coming' >= Coming + 1 BY <1>10
  <2>3. Near + Coming >= format.min /\ format.min \in Nat BY <1>1, <1>11
  <2>4. Near' + Coming' >= format.min BY <2>1, <2>2, <2>3, <1>4, OneMore
  <2> QED BY <2>4, <1>11
<1> QED BY <1>8, <1>9, <1>10

\* The blocks of the picture that is taken.
LEMMA PictureParts ==
  ASSUME HeldInv, EnoughInv, Runs, todo # <<>>, Head(todo).op = "output"
  PROVE  LET id == Head(todo).id
             s == Moved(b, {id}, "component")
             g == Given(s, {id})
         IN  /\ id \in OwnedBy(b, "accelerator") /\ id \notin b.held /\ id \in Nat /\ id \in Ids(b)
             /\ s \in Boards /\ SameFlags(b, s) /\ s.held = b.held /\ Ids(s) = Ids(b)
             /\ OwnedBy(s, "accelerator") = OwnedBy(b, "accelerator") \ {id}
             /\ OwnedBy(s, "component") = OwnedBy(b, "component") \cup {id}
             /\ \A o \in Owners : Excess(s, o) = 0
             /\ g \in Boards /\ SameFlags(b, g) /\ Ids(g) = Ids(b)
             /\ g.held = IF b.decoder = "running" THEN b.held \cup {id} ELSE b.held
             /\ OwnedBy(g, "accelerator") = OwnedBy(b, "accelerator")
             /\ OwnedBy(g, "component") \subseteq OwnedBy(b, "component")
             /\ \A o \in Owners : Excess(g, o) = 0
<1> DEFINE id == Head(todo).id
           ids == {id}
           s == Moved(b, ids, "component")
           g == Given(s, ids)
<1>1. 1 \in DOMAIN todo /\ todo[1] = Head(todo) BY EnoughParts, HeadTask
<1>2. id \in OwnedBy(b, "accelerator") /\ id \notin b.held
  BY <1>1, EnoughParts DEF Tracked, HeldOn, Shown
<1>3. id \in Ids(b) /\ id \in Nat /\ ids \in SUBSET Ids(b) /\ "component" \in Owners
  BY <1>2, EnoughParts, BoardInfos DEF OwnedBy, Owners
<1> HIDE DEF ids, s, g, id
<1>5. /\ s \in Boards /\ SameFlags(b, s) /\ s.held = b.held /\ Ids(s) = Ids(b)
      /\ OwnedBy(s, "component") = OwnedBy(b, "component") \cup ids
      /\ OwnedBy(s, "accelerator") = OwnedBy(b, "accelerator") \ ids
      /\ \A o \in Owners : Excess(s, o) = Excess(b, o)
  <2>1. b \in Boards /\ IsFiniteSet(Ids(b)) BY EnoughParts
  <2> QED BY <2>1, <1>3, MovedKeeps DEF s, Owners
<1>6. /\ g \in Boards /\ SameFlags(s, g) /\ Ids(g) = Ids(s)
      /\ g.held = IF s.decoder = "running" THEN s.held \cup ids ELSE s.held
      /\ OwnedBy(g, "accelerator") = OwnedBy(s, "accelerator") \cup ids
      /\ \A o \in {"client", "component"} : OwnedBy(g, o) = OwnedBy(s, o) \ ids
      /\ \A o \in Owners : Excess(g, o) = Excess(s, o)
  <2>1. ids \in SUBSET Ids(s) /\ IsFiniteSet(Ids(s)) BY <1>3, <1>5, EnoughParts
  <2> QED BY <2>1, <1>5, GivenKeeps DEF g
<1>7. SameFlags(b, g) BY <1>5, <1>6 DEF SameFlags
<1>8. g.held = IF b.decoder = "running" THEN b.held \cup ids ELSE b.held
  BY <1>5, <1>6 DEF SameFlags
<1>9. \A o \in Owners : Excess(b, o) = 0 BY EnoughParts DEF Exact
<1>10. OwnedBy(s, "accelerator") = OwnedBy(b, "accelerator") \ ids BY <1>5
<1>11. OwnedBy(g, "accelerator") = OwnedBy(b, "accelerator") BY <1>2, <1>6, <1>10 DEF ids
<1>12. OwnedBy(g, "component") \subseteq OwnedBy(b, "component") BY <1>5, <1>6
<1> QED BY <1>2, <1>3, <1>5, <1>6, <1>7, <1>8, <1>9, <1>10, <1>11, <1>12 DEF id, s, g, ids

\* OutputBufferDone keeps the balance: for a picture that waits for its work, the dequeue thread has
\* another task.
LEMMA OutputBufferDoneEnough ==
  ASSUME HeldInv, HeldInv', EnoughInv, Runs', OutputBufferDone
  PROVE  EnoughInv'
<1> DEFINE id == Head(todo).id
           s == Moved(b, {id}, "component")
           g == Given(s, {id})
<1>1. /\ todo # <<>> /\ Head(todo).op = "output" /\ todo' = Tail(todo) /\ at = "idle"
      /\ UNCHANGED <<inVars, state, works, last, pending, first, client, haveFlush, reuse, formatVars,
                      runLoop, fetch, poolVars, decVars, haveDrain, withClient>>
  BY DEF OutputBufferDone, Takes
<1>2. Runs
  <2>1. b' \in Boards /\ b \in Boards BY DEF HeldInv, TypeInv, BoardOK, Proper
  <2>2. b.failed => b'.failed
    <3> DEFINE m == IF id \in OwnedBy(b, "accelerator") THEN s ELSE b
    <3>1. m \in Boards /\ m.failed = b.failed /\ Ids(m) = Ids(b) /\ IsFiniteSet(Ids(b))
      <4> DEFINE ids == {id}
      <4>1. id \in OwnedBy(b, "accelerator") => ids \in SUBSET Ids(b) /\ "component" \in Owners
        BY DEF OwnedBy, Owners
      <4>2. IsFiniteSet(Ids(b)) BY DEF HeldInv, TypeInv, BoardOK, Proper
      <4>3. s = Moved(b, ids, "component") OBVIOUS
      <4> HIDE DEF ids, s
      <4>4. id \in OwnedBy(b, "accelerator") => s \in Boards /\ SameFlags(b, s) /\ Ids(s) = Ids(b)
        BY <2>1, <4>1, <4>2, <4>3, MovedKeeps
      <4> QED BY <2>1, <4>2, <4>4 DEF SameFlags
    <3>2. \/ b' = b
          \/ b' = (IF id \in Ids(b) THEN Given(m, {id}) ELSE Failed(b))
          \/ \E n : b' = [m EXCEPT !.toWork = Append(@, id), !.outputs = n]
      BY DEF OutputBufferDone, Task
    <3> HIDE DEF m
    <3>3. id \in Ids(b) => Given(m, {id}).failed = b.failed
      <4> DEFINE ids == {id}
      <4>1. id \in Ids(b) => ids \in SUBSET Ids(m) BY <3>1
      <4> HIDE DEF ids
      <4>2. id \in Ids(b) => SameFlags(m, Given(m, ids)) BY <3>1, <4>1, GivenKeeps
      <4> QED BY <3>1, <4>2 DEF SameFlags, ids
    <3>4. Failed(b).failed BY <2>1, QuietFlags
    <3>5. \A n : [m EXCEPT !.toWork = Append(@, id), !.outputs = n].failed = b.failed
      BY <3>1 DEF Boards
    <3> QED BY <3>2, <3>3, <3>4, <3>5
  <2> QED BY <1>1, <2>2 DEF Runs, Sound, inVars, decVars
<1>3. /\ id \in OwnedBy(b, "accelerator") /\ id \notin b.held /\ id \in Nat /\ id \in Ids(b)
      /\ s \in Boards /\ SameFlags(b, s) /\ s.held = b.held /\ Ids(s) = Ids(b)
      /\ OwnedBy(s, "accelerator") = OwnedBy(b, "accelerator") \ {id}
      /\ OwnedBy(s, "component") = OwnedBy(b, "component") \cup {id}
      /\ \A o \in Owners : Excess(s, o) = 0
      /\ g \in Boards /\ SameFlags(b, g) /\ Ids(g) = Ids(b)
      /\ g.held = IF b.decoder = "running" THEN b.held \cup {id} ELSE b.held
      /\ OwnedBy(g, "accelerator") = OwnedBy(b, "accelerator")
      /\ OwnedBy(g, "component") \subseteq OwnedBy(b, "component")
      /\ \A o \in Owners : Excess(g, o) = 0
  <2> HIDE DEF id, s, g
  <2> QED BY <1>1, <1>2, PictureParts DEF id, s, g
<1>4. \/ state = "FLUSHING" /\ UNCHANGED <<b, at, allocLoop, tasks, waiting>>
      \/ state # "FLUSHING" /\ b' = g /\ UNCHANGED <<at, allocLoop, tasks, waiting>>
      \/ /\ state # "FLUSHING" /\ \E n : b' = [s EXCEPT !.toWork = Append(@, id), !.outputs = n]
         /\ at' = "send" /\ (allocLoop => Posted(1) /\ UNCHANGED allocLoop)
  <2> DEFINE m == IF id \in OwnedBy(b, "accelerator") THEN s ELSE b
  <2>1. m = s BY <1>3
  <2>2. \/ state = "FLUSHING" /\ UNCHANGED <<b, at, allocLoop, tasks, waiting>>
        \/ state # "FLUSHING" /\ b' = (IF id \in Ids(b) THEN Given(m, {id}) ELSE Failed(b)) /\ UNCHANGED <<at, allocLoop, tasks, waiting>>
        \/ /\ state # "FLUSHING" /\ \E n : b' = [m EXCEPT !.toWork = Append(@, id), !.outputs = n]
           /\ at' = "send" /\ (allocLoop => Posted(1) /\ UNCHANGED allocLoop)
    BY DEF OutputBufferDone, Task
  <2> HIDE DEF m, s, id
  <2> QED BY <1>3, <2>1, <2>2
<1> HIDE DEF id, s, g
<1>5. Pictures(todo) \subseteq Pictures(todo') \cup {id}
  BY <1>1, <1>2, EnoughParts, PicturesTaken DEF id
<1>6. Rounds' => /\ Rounds /\ Useful = Useful' /\ format' = format /\ runLoop' = runLoop
                 /\ runLoop /\ allocLoop
  <2>1. b'.decoder = b.decoder /\ Ids(b') = Ids(b)
    <3>1. CASE b' = b BY <3>1
    <3>2. CASE b' = g BY <3>2, <1>3 DEF SameFlags
    <3>3. CASE \E n : b' = [s EXCEPT !.toWork = Append(@, id), !.outputs = n]
      BY <3>3, <1>3 DEF SameFlags, Boards, Ids
    <3> QED BY <1>4, <3>1, <3>2, <3>3
  <2>2. Useful = Useful' BY <2>1, <1>1 DEF Useful, formatVars, poolVars
  <2>3. Rounds' => Rounds BY <2>1, <1>1 DEF Rounds, Again
  <2>4. Rounds' => runLoop /\ allocLoop BY <2>3, <1>2, EnoughParts, Zenon DEF Balanced
  <2> QED BY <1>1, <2>2, <2>3, <2>4 DEF formatVars
<1>7. CASE state = "FLUSHING" /\ UNCHANGED <<b, at>>
  <2>1. Awaiting' /\ Drains' /\ EosAlone'
    BY <1>1, <1>2, <1>7, TakesKept DEF formatVars, decVars
  <2>2. Exact' BY <1>2, <1>7, EnoughParts DEF Exact
  <2>3. Spread' BY <1>1, <1>2, <1>7, EnoughParts DEF Spread, Again
  <2>4. Balanced' BY <1>1, <1>7 DEF Balanced, Rounds
  <2> QED BY <2>1, <2>2, <2>3, <2>4 DEF EnoughInv
<1>8. CASE state # "FLUSHING" /\ b' = g /\ UNCHANGED <<at, allocLoop, tasks, waiting>>
  <2>1. Awaiting' /\ Drains' /\ EosAlone'
    BY <1>1, <1>2, <1>3, <1>8, TakesKept DEF formatVars, decVars, SameFlags
  <2>2. Exact' BY <1>3, <1>8 DEF Exact
  <2>3. Waits(b') = Waits(b) BY <1>3, <1>8 DEF SameFlags, Waits, IdsIn
  <2>4. Spread' BY <1>1, <1>2, <1>3, <1>5, <1>8, <2>3, EnoughParts DEF Spread, Again, SameFlags
  <2>5. SUFFICES ASSUME Rounds'
                 PROVE  Near' + Coming' >= format'.min /\ runLoop' /\ allocLoop'
    BY <2>1, <2>2, <2>4 DEF EnoughInv, Balanced
  <2>6. b'.held = b.held \cup {id}
    BY <1>3, <1>6, <1>8, <2>5 DEF Rounds
  <2>7. IsFiniteSet(b.held) /\ Cardinality(b.held) \in Nat
    BY <1>2, EnoughParts, HeldFinite DEF Tracked, HeldOn
  <2>8. Cardinality(b'.held) = Cardinality(b.held) + 1 BY <1>3, <2>6, <2>7, FS_AddElement, Zenon
  <2>9. Coming' = Coming /\ Coming \in Nat
    <3>1. Coming' = Coming BY <1>1, <1>8 DEF Coming
    <3>2. fetch \subseteq {format.size} BY <1>2, <1>6, <2>5, EnoughParts DEF Awaiting, Rounds
    <3> QED BY <3>1, <3>2, <1>2, EnoughParts, NearComing DEF Tracked, HeldOn
  <2>10. Near' + Coming' >= format'.min
    <3>1. Cardinality(b'.held) >= Cardinality(b.held) + 1 /\ Coming' >= Coming BY <2>7, <2>8, <2>9
    <3> QED BY <3>1, <1>1, <1>2, <1>6, <2>1, <2>5, TakenBalance
  <2>11. runLoop' /\ allocLoop' BY <1>6, <1>8, <2>5
  <2> QED BY <2>10, <2>11
<1>9. CASE /\ state # "FLUSHING" /\ \E n : b' = [s EXCEPT !.toWork = Append(@, id), !.outputs = n]
           /\ at' = "send" /\ (allocLoop => Posted(1) /\ UNCHANGED allocLoop)
  <2>1. /\ b'.infos = s.infos /\ b'.count = s.count /\ b'.toWork = Append(b.toWork, id) /\ b'.held = b.held
        /\ b'.decoder = b.decoder /\ b'.fed = b.fed /\ b'.drainEos = b.drainEos /\ b'.eosReported = b.eosReported
        /\ b'.afterFlush = b.afterFlush
    BY <1>3, <1>9 DEF Boards, SameFlags
  <2>2. Awaiting' /\ Drains' /\ EosAlone'
    BY <1>1, <1>2, <1>9, <2>1, TakesKept DEF formatVars, decVars
  <2>3. \A o : OwnedBy(b', o) = OwnedBy(s, o) /\ Excess(b', o) = Excess(s, o)
    BY <2>1 DEF OwnedBy, Excess, Ids
  <2>4. Exact' BY <1>3, <2>3 DEF Exact
  <2>5. Waits(b') = Waits(b) \cup {id}
    <3>1. b.toWork \in Seq(Nat) BY <1>2, EnoughParts DEF Boards
    <3>2. /\ Len(Append(b.toWork, id)) = Len(b.toWork) + 1 /\ Append(b.toWork, id)[Len(b.toWork) + 1] = id
          /\ \A i \in 1 .. Len(b.toWork) : Append(b.toWork, id)[i] = b.toWork[i]
      BY <3>1, <1>3, AppendProperties
    <3>3. /\ Len(b'.toWork) = Len(b.toWork) + 1 /\ b'.toWork[Len(b.toWork) + 1] = id
          /\ \A i \in 1 .. Len(b.toWork) : b'.toWork[i] = b.toWork[i]
      BY <2>1, <3>2
    <3> DEFINE n == Len(b.toWork)
    <3>4. n \in Nat /\ Len(b'.toWork) = n + 1 BY <3>1, <3>3
    <3> HIDE DEF n
    <3>5. 1 .. n + 1 = (1 .. n) \cup {n + 1} BY <3>4
    <3>6. Waits(b') = {b'.toWork[i] : i \in 1 .. n + 1} /\ Waits(b) = {b.toWork[i] : i \in 1 .. n}
      BY <3>4 DEF Waits, IdsIn, n
    <3>7. b'.toWork[n + 1] = id /\ \A i \in 1 .. n : b'.toWork[i] = b.toWork[i] BY <3>3 DEF n
    <3> QED BY <3>5, <3>6, <3>7
  <2>6. Spread' BY <1>1, <1>2, <1>3, <1>5, <2>1, <2>3, <2>5, EnoughParts DEF Spread, Again
  <2>7. SUFFICES ASSUME Rounds'
                 PROVE  Near' + Coming' >= format'.min /\ runLoop' /\ allocLoop'
    BY <2>2, <2>4, <2>6 DEF EnoughInv, Balanced
  <2>8. tasks' = tasks + 1 /\ waiting' = waiting /\ allocLoop' = allocLoop
    BY <1>6, <1>9, <2>7 DEF Posted
  <2>9. Cardinality(b'.held) \in Nat /\ Cardinality(b'.held) = Cardinality(b.held)
    <3>1. Cardinality(b.held) \in Nat BY <1>2, EnoughParts, HeldFinite DEF Tracked, HeldOn
    <3> QED BY <3>1, <2>1
  <2>10. Coming' = Coming + 1 /\ Coming \in Nat
    <3>1. fetch \subseteq {format.size} BY <1>2, <1>6, <2>7, EnoughParts DEF Awaiting, Rounds
    <3>2. Coming \in Nat /\ Cardinality(fetch) \in {0, 1}
      BY <3>1, <1>2, EnoughParts, NearComing DEF Tracked, HeldOn
    <3>3. tasks \in Nat /\ waiting \in Nat BY DEF HeldInv, TypeInv, TypesOK
    <3> QED BY <3>2, <3>3, <2>8, <1>1 DEF Coming
  <2>11. Near' + Coming' >= format'.min
    <3>1. Cardinality(b'.held) >= Cardinality(b.held) /\ Coming' >= Coming + 1 BY <2>9, <2>10
    <3> QED BY <3>1, <1>1, <1>2, <1>6, <2>2, <2>7, TakenBalance
  <2>12. runLoop' /\ allocLoop' BY <1>6, <2>7, <2>8
  <2> QED BY <2>11, <2>12
<1> QED BY <1>4, <1>7, <1>8, <1>9

\* tryChangeOutputFormat keeps the balance, whether it waits or begins: until the decoder is answered
\* it waits for the blocks.
LEMMA TriedEnough ==
  ASSUME HeldInv, HeldInv', EnoughInv, Runs, Runs', at = "idle", todo # <<>>, Head(todo).op # "output",
         NEW s \in Boards, TryChangeOutputFormat(s, Tail(todo), pending'),
         \A o \in Owners : Excess(s, o) = 0,
         s.fed = b.fed, s.drainEos = b.drainEos, s.eosReported = b.eosReported,
         b.toWork = <<>> => s.toWork = <<>>,
         UNCHANGED <<state, works, first, client, haveFlush, reuse, fetch, draining>>
  PROVE  EnoughInv'
<1> DEFINE p == Plain("tryChange")
           r == [s EXCEPT !.resCh = @ \/ first]
<1>1. pending' # {} /\ b'.decoder = "waiting"
  BY DEF TryChangeOutputFormat, HeldInv, Runs, Tracked, Waiting
<1>2. p \in Tasks /\ p.op = "tryChange" BY PlainTasks DEF PlainOps
<1> HIDE DEF p, r
<1>3. /\ b' = s \/ b' = r
      /\ todo' = Append(Tail(todo), p) \/ todo' = Tail(todo)
      /\ at' \in {"idle", "change", "allocate"}
      /\ at' \in {"change", "allocate"} => OwnedBy(s, "accelerator") = {}
      /\ changing' => at' = "idle"
  <2>1. Failed(s).failed BY QuietFlags
  <2>2. b' # Failed(s) BY <2>1 DEF Runs, Sound
  <2>3. \/ b' = s /\ todo' = Append(Tail(todo), p) /\ UNCHANGED at
        \/ /\ b' = r /\ todo' = Tail(todo) /\ OwnedBy(s, "accelerator") = {} /\ changing' = FALSE
           /\ at' = IF first THEN "change" ELSE "allocate"
    BY <2>2 DEF TryChangeOutputFormat, p, r
  <2>4. CASE b' = s /\ todo' = Append(Tail(todo), p) /\ UNCHANGED at BY <2>4
  <2>5. CASE /\ b' = r /\ todo' = Tail(todo) /\ OwnedBy(s, "accelerator") = {} /\ changing' = FALSE
             /\ at' = IF first THEN "change" ELSE "allocate"
    <3>1. at' \in {"change", "allocate"} BY <2>5
    <3> QED BY <2>5, <3>1
  <2> QED BY <2>3, <2>4, <2>5
<1>4. /\ b'.infos = s.infos /\ b'.count = s.count /\ b'.toWork = s.toWork
      /\ b'.fed = b.fed /\ b'.drainEos = b.drainEos /\ b'.eosReported = b.eosReported
  BY <1>3 DEF Boards, r
<1>5. \A o : OwnedBy(b', o) = OwnedBy(s, o) /\ Excess(b', o) = Excess(s, o)
  BY <1>4 DEF OwnedBy, Ids, Excess
<1>6. Follows(todo, todo', 1, {}) \/ Follows(todo, todo', 1, {p})
  BY <1>2, <1>3, EnoughParts, TasksFollow
<1>7. Drains' /\ EosAlone'
  BY <1>2, <1>3, <1>4, <1>6, EnoughParts, DrainsKept
<1>8. Exact' BY <1>5 DEF Exact
<1>9. Awaiting' BY <1>1, <1>3, <1>5, EnoughParts DEF Awaiting
<1>10. Spread' /\ Balanced' BY <1>1 DEF Spread, Balanced, Rounds
<1> QED BY <1>7, <1>8, <1>9, <1>10 DEF EnoughInv

\* TryChangeAgain keeps the balance.
LEMMA TryChangeAgainEnough ==
  ASSUME HeldInv, HeldInv', EnoughInv, Runs', TryChangeAgain
  PROVE  EnoughInv'
<1>1. /\ at = "idle" /\ todo # <<>> /\ Head(todo).op = "tryChange"
      /\ UNCHANGED <<inVars, state, works, first, client, haveFlush, reuse, device, allocLoop, tasks,
                      waiting, fetch, poolVars, decVars, haveDrain, withClient>>
      /\ UNCHANGED pending
      /\ \/ TryChangeOutputFormat(b, Tail(todo), pending')
         \/ todo' = Tail(todo) /\ UNCHANGED <<at, b, last, format, changing, runLoop>>
  BY DEF TryChangeAgain, Task, Takes
<1>2. b \in Boards BY DEF HeldInv, TypeInv, BoardOK, Proper
<1>3. Runs
  <2>1. b.failed => b'.failed
    <3>1. Failed(b).failed BY <1>2, QuietFlags
    <3>2. \A v : [b EXCEPT !.resCh = v].failed = b.failed BY <1>2 DEF Boards
    <3> QED BY <3>1, <3>2, <1>1 DEF TryChangeOutputFormat
  <2> QED BY <2>1, <1>1 DEF Runs, Sound, inVars, decVars
<1>4. CASE TryChangeOutputFormat(b, Tail(todo), pending')
  BY <1>1, <1>2, <1>3, <1>4, EnoughParts, TriedEnough DEF Exact, decVars
<1>5. CASE todo' = Tail(todo) /\ UNCHANGED <<at, b, last, format, changing, runLoop>>
  <2>1. Awaiting' /\ Drains' /\ EosAlone' BY <1>1, <1>3, <1>5, TakesKept DEF decVars
  <2>2. SameBlocks(b, b') BY <1>5 DEF SameBlocks
  <2>3. Carries(todo, todo', Useful) BY <1>1, <1>3, <1>5, EnoughParts, CarriesOf
  <2>4. Coming' = Coming BY <1>1 DEF Coming
  <2>5. Exact' /\ Spread' /\ Balanced'
    BY <1>1, <1>3, <1>5, <2>2, <2>3, <2>4, EnoughParts, CalmKept DEF HeldInv, poolVars
  <2> QED BY <2>1, <2>5 DEF EnoughInv
<1> QED BY <1>1, <1>4, <1>5

\* OutputFormatChanged keeps the balance: the decoder has no block any more.
LEMMA OutputFormatChangedEnough ==
  ASSUME HeldInv, HeldInv', EnoughInv, Runs', OutputFormatChanged
  PROVE  EnoughInv'
<1> DEFINE ids == OwnedBy(b, "accelerator")
           s == Moved(b, ids, "component")
<1>1. /\ at = "idle" /\ todo # <<>> /\ Head(todo).op = "formatChanged"
      /\ UNCHANGED <<inVars, state, works, first, client, haveFlush, reuse, allocLoop, tasks, waiting,
                      fetch, poolVars, decVars, haveDrain, withClient>>
      /\ TryChangeOutputFormat(s, Tail(todo), pending')
  BY DEF OutputFormatChanged, Task
<1>2. b \in Boards /\ IsFiniteSet(Ids(b)) /\ ids \in SUBSET Ids(b)
  BY DEF HeldInv, TypeInv, BoardOK, Proper, OwnedBy
<1> HIDE DEF ids
<1>3. s \in Boards /\ SameFlags(b, s) /\ \A o \in Owners : Excess(s, o) = Excess(b, o)
  BY <1>2, MovedKeeps DEF Owners
<1> HIDE DEF s
<1>4. Runs
  <2>1. b.failed => b'.failed
    <3>1. Failed(s).failed BY <1>3, QuietFlags
    <3>2. b' = s \/ b' = Failed(s) \/ b' = [s EXCEPT !.resCh = @ \/ first] BY <1>1 DEF TryChangeOutputFormat
    <3>3. b'.failed = s.failed \/ b'.failed BY <3>1, <3>2, <1>3 DEF Boards
    <3> QED BY <3>3, <1>3 DEF SameFlags
  <2> QED BY <2>1, <1>1 DEF Runs, Sound, inVars, decVars
<1>5. \A o \in Owners : Excess(s, o) = 0 BY <1>3, <1>4, EnoughParts DEF Exact
<1> QED BY <1>1, <1>3, <1>4, <1>5, TriedEnough DEF decVars, SameFlags

\* The flags of a board that the balance is about.
SameMarks(s, m) ==
  /\ m.toWork = s.toWork /\ m.afterFlush = s.afterFlush /\ m.failed = s.failed /\ m.decoder = s.decoder
  /\ m.eosReported = s.eosReported /\ m.drainEos = s.drainEos /\ m.fed = s.fed

\* A change of resolution that is noted is no change of the blocks.
LEMMA NotedParts ==
  ASSUME NEW s \in Boards
  PROVE  /\ Noted(s) \in Boards /\ Noted(s).infos = s.infos /\ Noted(s).held = s.held /\ Ids(Noted(s)) = Ids(s)
         /\ SameMarks(s, Noted(s)) /\ (\A o : OwnedBy(Noted(s), o) = OwnedBy(s, o))
         /\ \A o \in Owners : Excess(Noted(s), o) = Excess(s, o)
<1>1. /\ Noted(s) \in Boards /\ Noted(s).infos = s.infos /\ Noted(s).held = s.held /\ Noted(s).count = s.count
      /\ SameMarks(s, Noted(s))
  BY DEF Noted, Boards, IsChanged, SameMarks
<1>2. Ids(Noted(s)) = Ids(s) /\ \A o : OwnedBy(Noted(s), o) = OwnedBy(s, o)
  BY <1>1 DEF Ids, OwnedBy
<1>3. \A o \in Owners : Excess(Noted(s), o) = Excess(s, o) BY <1>1, <1>2 DEF Excess
<1> QED BY <1>1, <1>2, <1>3

\* The board after a block of a known id came back.
LEMMA BackParts ==
  ASSUME HeldInv, EnoughInv, Runs, todo # <<>>, Head(todo).op = "returned", Head(todo).id \in Ids(b)
  PROVE  LET id == Head(todo).id
             r == Returned(Noted(b), Head(todo).block, id)
             g == Reused(r, id)
         IN  /\ id \in Nat /\ id \in OwnedBy(b, "client") /\ id \notin b.held /\ b.infos[id].block = Head(todo).block
             /\ r \in Boards /\ SameMarks(b, r) /\ \A o \in Owners : Excess(r, o) = 0
             /\ g \in Boards /\ SameMarks(b, g) /\ (\A o \in Owners : Excess(g, o) = 0) /\ Ids(g) = Ids(b)
             /\ g.held = IF b.decoder = "running" THEN b.held \cup {id} ELSE b.held
             /\ OwnedBy(g, "accelerator") = OwnedBy(b, "accelerator") \cup {id}
             /\ OwnedBy(g, "component") = OwnedBy(b, "component")
<1> DEFINE id == Head(todo).id
           block == Head(todo).block
           n == Noted(b)
           r == Returned(n, block, id)
           ids == {id}
           g == Reused(r, id)
<1>1. /\ id \in OwnedBy(b, "client") /\ b.infos[id].block = block
  BY EnoughParts, ComesBack DEF Task
<1>2. id \in Ids(b) /\ id \in Nat /\ block \in Blocks
  <2>1. Head(todo) \in Tasks BY EnoughParts, HeadTask
  <2> QED BY <2>1, EnoughParts, BoardInfos DEF Tasks, PlainOps, BlockOps
<1> HIDE DEF n, r, g, ids, id, block
<1>3. id \notin OwnedBy(b, "component") /\ id \notin OwnedBy(b, "accelerator") BY <1>1 DEF OwnedBy
<1>4. id \notin b.held BY <1>3, EnoughParts DEF Tracked, HeldOn, HeldBy
<1>5. /\ n \in Boards /\ n.held = b.held /\ Ids(n) = Ids(b) /\ SameMarks(b, n)
      /\ \A o : OwnedBy(n, o) = OwnedBy(b, o)
      /\ \A o \in Owners : Excess(n, o) = Excess(b, o)
  BY EnoughParts, NotedParts DEF n
<1>6. /\ Keeps(n, r) /\ SameFlags(n, r) /\ r.held = n.held
      /\ OwnedBy(r, "component") = OwnedBy(n, "component") \cup {id}
      /\ OwnedBy(r, "accelerator") = OwnedBy(n, "accelerator") \ {id}
  <2>1. IsFiniteSet(Ids(n)) /\ id \in Ids(n) BY <1>2, <1>5, EnoughParts
  <2> QED BY <2>1, <1>2, <1>5, ReturnedKeeps DEF r
<1>7. /\ r \in Boards /\ Ids(r) = Ids(b) /\ SameMarks(b, r) /\ \A o \in Owners : Excess(r, o) = 0
  <2>1. \A o \in Owners : Excess(b, o) = 0 BY EnoughParts DEF Exact
  <2> QED BY <2>1, <1>5, <1>6 DEF Keeps, SameFlags, SameMarks
<1>8. id \notin IdsIn(r, Len(r.toWork))
  <2>1. r.toWork = b.toWork BY <1>7 DEF SameMarks
  <2>2. \A i \in 1 .. Len(b.toWork) : b.toWork[i] # id
    BY <1>3, EnoughParts DEF Tracked, HeldOn, Queued
  <2> QED BY <2>1, <2>2 DEF IdsIn
<1>9. /\ g \in Boards /\ SameFlags(r, g) /\ Ids(g) = Ids(r)
      /\ g.held = IF r.decoder = "running" THEN r.held \cup ids ELSE r.held
      /\ OwnedBy(g, "accelerator") = OwnedBy(r, "accelerator") \cup ids
      /\ \A o \in {"client", "component"} : OwnedBy(g, o) = OwnedBy(r, o) \ ids
      /\ \A o \in Owners : Excess(g, o) = Excess(r, o)
  <2>1. ids \in SUBSET Ids(r) /\ IsFiniteSet(Ids(r)) BY <1>2, <1>7, EnoughParts DEF ids
  <2>2. g = Given(r, ids) BY <1>8 DEF g, Reused, ids
  <2>3. LET h == Given(r, ids)
        IN  /\ h \in Boards /\ SameFlags(r, h) /\ Ids(h) = Ids(r)
            /\ h.held = IF r.decoder = "running" THEN r.held \cup ids ELSE r.held
            /\ OwnedBy(h, "accelerator") = OwnedBy(r, "accelerator") \cup ids
            /\ \A o \in {"client", "component"} : OwnedBy(h, o) = OwnedBy(r, o) \ ids
            /\ \A o \in Owners : Excess(h, o) = Excess(r, o)
    <3>1. r \in Boards BY <1>7
    <3> QED BY <2>1, <3>1, GivenKeeps
  <2> QED BY <2>2, <2>3
<1>10. SameMarks(b, g) BY <1>7, <1>9 DEF SameMarks, SameFlags
<1>11. g.held = IF b.decoder = "running" THEN b.held \cup ids ELSE b.held
  BY <1>5, <1>6, <1>7, <1>9 DEF SameMarks
<1>12. OwnedBy(g, "accelerator") = OwnedBy(b, "accelerator") \cup ids
  BY <1>5, <1>6, <1>9 DEF ids
<1>13. OwnedBy(g, "component") = OwnedBy(b, "component")
  <2>1. OwnedBy(g, "component") = OwnedBy(r, "component") \ {id} BY <1>9 DEF ids
  <2>2. OwnedBy(r, "component") = OwnedBy(b, "component") \cup {id} BY <1>5, <1>6
  <2> QED BY <2>1, <2>2, <1>3
<1>14. \A o \in Owners : Excess(g, o) = 0 BY <1>7, <1>9
<1> QED BY <1>1, <1>2, <1>4, <1>7, <1>9, <1>10, <1>11, <1>12, <1>13, <1>14 DEF id, block, n, r, g, ids

\* OutputBufferReturned keeps the balance: the block goes to the decoder, or was of no use to it.
LEMMA OutputBufferReturnedEnough ==
  ASSUME HeldInv, HeldInv', EnoughInv, Runs', OutputBufferReturned
  PROVE  EnoughInv'
<1> DEFINE id == Head(todo).id
           block == Head(todo).block
           taken == FitsReturned(block) /\ ~haveDrain
           r == Returned(Noted(b), block, id)
           g == Reused(r, id)
           e == [b EXCEPT !.slot = {block}]
<1>1. /\ todo # <<>> /\ Head(todo).op = "returned" /\ at = "idle"
      /\ UNCHANGED <<inVars, state, works, first, client, haveFlush, reuse, device, allocLoop,
                      tasks, waiting, fetch, poolVars, decVars, haveDrain, withClient>>
      /\ UNCHANGED pending
  BY DEF OutputBufferReturned, Task
<1>2. \/ /\ todo' = Tail(todo) /\ UNCHANGED <<at, last, format, changing, runLoop>>
         /\ \/ ~taken /\ b' = b
            \/ taken /\ id \in Ids(b) /\ b' = Failed(Noted(b))
            \/ taken /\ id \notin Ids(b) /\ b' \in {e, Failed(b)}
      \/ taken /\ id \in Ids(b) /\ TryChangeOutputFormat(r, Tail(todo), pending)
      \/ /\ taken /\ id \in Ids(b) /\ pending = {} /\ todo' = Tail(todo) /\ b' = g /\ at' = "send"
         /\ UNCHANGED <<last, format, changing, runLoop>>
  BY DEF OutputBufferReturned, Takes, Task
<1>3. b \in Boards /\ IsFiniteSet(Ids(b)) BY DEF HeldInv, TypeInv, BoardOK, Proper
<1>4. Failed(Noted(b)).failed /\ Failed(b).failed
  <2>1. Noted(b) \in Boards BY <1>3, NotedParts
  <2> QED BY <2>1, <1>3, QuietFlags
<1>5. /\ e \in Boards /\ e.infos = b.infos /\ e.count = b.count /\ e.held = b.held /\ SameMarks(b, e)
  <2>1. Head(todo) \in Tasks BY <1>1, HeadTask DEF HeldInv, TypeInv, TypesOK
  <2>2. block \in Blocks BY <1>1, <2>1 DEF Tasks, PlainOps, BlockOps
  <2> HIDE DEF block
  <2> QED BY <2>2, <1>3 DEF Boards, SameMarks
<1> HIDE DEF r, g, e
<1>6. Runs
  <2>1. b.failed => b'.failed
    <3>1. ASSUME taken, id \in Ids(b)
          PROVE  r \in Boards /\ r.failed = b.failed /\ g.failed = b.failed
      <4> DEFINE n == Noted(b)
      <4>1. block \in Blocks
        <5>1. Head(todo) \in Tasks BY <1>1, HeadTask DEF HeldInv, TypeInv, TypesOK
        <5> QED BY <1>1, <5>1 DEF Tasks, PlainOps, BlockOps
      <4>2. n \in Boards /\ IsFiniteSet(Ids(n)) /\ id \in Ids(n) /\ n.failed = b.failed
        BY <1>3, <3>1, NotedParts DEF SameMarks
      <4> HIDE DEF n, id, block
      <4>3. Takeback(n, r, block, id) /\ Giveback(r, g, id)
        <5>1. LET m == Returned(n, block, id)
              IN  Takeback(n, m, block, id) /\ Giveback(m, Reused(m, id), id)
          BY <4>1, <4>2, ReusedBoard
        <5> QED BY <5>1 DEF r, g, n
      <4> QED BY <4>2, <4>3 DEF Takeback, Giveback, SameCourse
    <3>2. CASE taken /\ id \in Ids(b) /\ TryChangeOutputFormat(r, Tail(todo), pending)
      <4>1. b' = r \/ b' = Failed(r) \/ b' = [r EXCEPT !.resCh = @ \/ first]
        BY <3>2 DEF TryChangeOutputFormat
      <4>2. r \in Boards /\ r.failed = b.failed BY <3>1, <3>2
      <4>3. Failed(r).failed /\ \A v : [r EXCEPT !.resCh = v].failed = r.failed
        BY <4>2, QuietFlags DEF Boards
      <4> QED BY <4>1, <4>2, <4>3
    <3>3. CASE taken /\ id \in Ids(b) /\ b' = g BY <3>1, <3>3
    <3> QED BY <1>2, <1>4, <1>5, <3>2, <3>3 DEF SameMarks
  <2> QED BY <1>1, <2>1 DEF Runs, Sound, inVars, decVars
<1>7. ASSUME id \in Ids(b)
      PROVE  /\ id \in Nat /\ id \in OwnedBy(b, "client") /\ id \notin b.held /\ b.infos[id].block = block
             /\ r \in Boards /\ SameMarks(b, r) /\ \A o \in Owners : Excess(r, o) = 0
             /\ g \in Boards /\ SameMarks(b, g) /\ (\A o \in Owners : Excess(g, o) = 0) /\ Ids(g) = Ids(b)
             /\ g.held = IF b.decoder = "running" THEN b.held \cup {id} ELSE b.held
             /\ OwnedBy(g, "accelerator") = OwnedBy(b, "accelerator") \cup {id}
             /\ OwnedBy(g, "component") = OwnedBy(b, "component")
  BY <1>1, <1>6, <1>7, BackParts DEF r, g
<1>8. ~b'.failed BY DEF Runs, Sound
<1>9. Coming' = Coming BY <1>1 DEF Coming
<1>10. Pictures(todo) \subseteq Pictures(Tail(todo))
  BY <1>1, <1>6, EnoughParts, PicturesTaken
<1>11. CASE taken /\ id \in Ids(b) /\ TryChangeOutputFormat(r, Tail(todo), pending)
  <2>1. TryChangeOutputFormat(r, Tail(todo), pending') BY <1>1, <1>11 DEF TryChangeOutputFormat
  <2> QED BY <1>1, <1>6, <1>7, <1>11, <2>1, TriedEnough DEF SameMarks, decVars
<1>12. CASE /\ todo' = Tail(todo) /\ UNCHANGED <<at, last, format, changing, runLoop>>
            /\ (~taken /\ b' = b) \/ (taken /\ id \notin Ids(b) /\ b' = e)
  <2>1. /\ b'.infos = b.infos /\ b'.count = b.count /\ b'.held = b.held /\ SameMarks(b, b')
    BY <1>5, <1>12 DEF SameMarks
  <2>2. Awaiting' /\ Drains' /\ EosAlone'
    BY <1>1, <1>6, <1>12, <2>1, TakesKept DEF SameMarks, decVars
  <2>3. /\ Ids(b') = Ids(b) /\ Waits(b') = Waits(b) /\ \A o : OwnedBy(b', o) = OwnedBy(b, o)
    BY <2>1 DEF SameMarks, Ids, OwnedBy, Waits, IdsIn
  <2>4. Exact' BY <1>6, <2>1, <2>3, EnoughParts DEF Exact, Excess
  <2>5. Spread' BY <1>1, <1>6, <1>10, <1>12, <2>1, <2>3, EnoughParts DEF Spread, Again, SameMarks
  <2>6. SUFFICES ASSUME Rounds'
                 PROVE  Near' + Coming' >= format'.min /\ runLoop' /\ allocLoop'
    BY <2>2, <2>4, <2>5 DEF EnoughInv, Balanced
  <2>7. Rounds /\ ~haveDrain BY <1>1, <1>12, <2>1, <2>6 DEF Rounds, Again, SameMarks
  <2>8. id \notin Ids(b)
    <3> SUFFICES ASSUME id \in Ids(b) PROVE FALSE
      OBVIOUS
    <3>1. ~FitsReturned(block) /\ b.infos[id].block = block BY <1>7, <1>12, <2>7
    <3> QED BY <1>1, <3>1 DEF HeldInv, SizesCurrent, Sized, FitsReturned
  <2>9. Useful' = Useful /\ Head(todo) \notin Useful'
    <3>1. Useful' = Useful BY <1>1, <1>12, <2>3 DEF Useful, poolVars
    <3> QED BY <3>1, <1>1, <2>8 DEF Useful
  <2>10. Cardinality(b.held) \in Nat /\ Coming \in Nat
    <3>1. fetch \subseteq {format.size} BY <1>6, <2>7, EnoughParts DEF Awaiting, Rounds
    <3> QED BY <3>1, <1>6, EnoughParts, NearComing, HeldFinite DEF Tracked, HeldOn
  <2>11. Cardinality(b'.held) >= Cardinality(b.held) /\ Coming' >= Coming BY <1>9, <2>1, <2>10
  <2>12. Near' + Coming' >= format'.min
    BY <1>1, <1>6, <1>12, <2>2, <2>6, <2>7, <2>9, <2>11, TakenBalance
  <2>13. runLoop /\ allocLoop BY <1>6, <2>7, EnoughParts, Zenon DEF Balanced
  <2> QED BY <1>1, <1>12, <2>12, <2>13
<1>13. CASE /\ taken /\ id \in Ids(b) /\ pending = {} /\ todo' = Tail(todo) /\ b' = g /\ at' = "send"
            /\ UNCHANGED <<last, format, changing, runLoop>>
  <2>1. Awaiting' /\ Drains' /\ EosAlone'
    BY <1>1, <1>6, <1>7, <1>13, TakesKept DEF SameMarks, decVars
  <2>2. Exact' BY <1>7, <1>13 DEF Exact
  <2>3. Waits(b') = Waits(b) BY <1>7, <1>13 DEF SameMarks, Waits, IdsIn
  <2>4. Spread'
    <3>1. b.decoder = "running" => b'.held = b.held \cup {id} BY <1>7, <1>13
    <3>2. b'.decoder = b.decoder /\ b'.afterFlush = b.afterFlush BY <1>7, <1>13 DEF SameMarks
    <3>3. /\ OwnedBy(b', "accelerator") = OwnedBy(b, "accelerator") \cup {id}
          /\ OwnedBy(b', "component") = OwnedBy(b, "component")
      BY <1>7, <1>13
    <3> QED BY <1>1, <1>6, <1>10, <1>13, <2>3, <3>1, <3>2, <3>3, EnoughParts DEF Spread, Again
  <2>5. SUFFICES ASSUME Rounds'
                 PROVE  Near' + Coming' >= format'.min /\ runLoop' /\ allocLoop'
    BY <2>1, <2>2, <2>4 DEF EnoughInv, Balanced
  <2>6. b'.decoder = b.decoder /\ Ids(b') = Ids(b) BY <1>7, <1>13 DEF SameMarks
  <2>7. Rounds BY <1>1, <1>13, <2>5, <2>6 DEF Rounds, Again
  <2>8. Useful' = Useful BY <1>1, <1>13, <2>6 DEF Useful, poolVars
  <2>9. b'.held = b.held \cup {id} /\ id \notin b.held BY <1>7, <1>13, <2>7 DEF Rounds
  <2>10. IsFiniteSet(b.held) /\ Cardinality(b.held) \in Nat /\ Coming \in Nat
    <3>1. fetch \subseteq {format.size} BY <1>6, <2>7, EnoughParts DEF Awaiting, Rounds
    <3> QED BY <3>1, <1>6, EnoughParts, NearComing, HeldFinite DEF Tracked, HeldOn
  <2>11. Cardinality(b'.held) = Cardinality(b.held) + 1 BY <2>9, <2>10, FS_AddElement, Zenon
  <2>12. Cardinality(b'.held) >= Cardinality(b.held) + 1 /\ Coming' >= Coming BY <1>9, <2>10, <2>11
  <2>13. Near' + Coming' >= format'.min
    BY <1>1, <1>6, <1>13, <2>1, <2>5, <2>7, <2>8, <2>12, TakenBalance
  <2>14. runLoop /\ allocLoop BY <1>6, <2>7, EnoughParts, Zenon DEF Balanced
  <2> QED BY <1>1, <1>13, <2>13, <2>14
<1> QED BY <1>2, <1>4, <1>8, <1>11, <1>12, <1>13

\* A board with a new block, which the decoder is given.
LEMMA ExtendedParts ==
  ASSUME NEW s \in Boards, IsFiniteSet(Ids(s)), NEW id \in Nat, id \notin Ids(s), NEW block \in Blocks
  PROVE  LET g == Given(Appended(s, block, id), {id})
         IN  SameMarks(s, g) /\ \A o \in Owners : Excess(g, o) = Excess(s, o)
<1> DEFINE a == Appended(s, block, id)
           ids == {id}
           g == Given(a, ids)
<1>1. /\ a \in Boards /\ Ids(a) = Ids(s) \cup {id} /\ IsFiniteSet(Ids(a)) /\ SameFlags(s, a)
      /\ \A o \in Owners : Excess(a, o) = Excess(s, o)
  BY AppendedKeeps
<1> HIDE DEF a
<1>2. ids \in SUBSET Ids(a) BY <1>1
<1> HIDE DEF ids
<1>3. SameFlags(a, g) /\ \A o \in Owners : Excess(g, o) = Excess(a, o)
  BY <1>1, <1>2, GivenKeeps
<1> HIDE DEF g
<1>4. SameMarks(s, g) BY <1>1, <1>3 DEF SameFlags, SameMarks
<1>5. \A o \in Owners : Excess(g, o) = Excess(s, o) BY <1>1, <1>3
<1> QED BY <1>4, <1>5 DEF g, a, ids

\* NewBlockBufferFetched keeps the balance: the decoder is given the block, or it was of no use.
LEMMA NewBlockBufferFetchedEnough ==
  ASSUME HeldInv, HeldInv', EnoughInv, Runs', NewBlockBufferFetched
  PROVE  EnoughInv'
<1> DEFINE id == Head(todo).id
           block == Head(todo).block
           n == Noted(b)
           g == Given(Appended(n, block, id), {id})
<1>1. /\ todo # <<>> /\ Head(todo).op = "new" /\ at = "idle" /\ todo' = Tail(todo)
      /\ UNCHANGED <<inVars, state, works, last, pending, first, client, haveFlush, reuse, formatVars,
                      loopVars, poolVars, decVars, at, haveDrain, withClient>>
      /\ b' = IF changing \/ state = "STOPPING" THEN b
              ELSE IF ~FitsNew(b, block) THEN n
              ELSE IF block \notin DOMAIN pool THEN Failed(n) ELSE g
  BY DEF NewBlockBufferFetched, Takes, Task
<1>2. b \in Boards /\ IsFiniteSet(Ids(b)) BY DEF HeldInv, TypeInv, BoardOK, Proper
<1>3. block \in Blocks /\ id \in Nat
  <2>1. Head(todo) \in Tasks BY <1>1, HeadTask DEF HeldInv, TypeInv, TypesOK
  <2> QED BY <1>1, <2>1 DEF Tasks, PlainOps, BlockOps
<1>4. /\ n \in Boards /\ n.infos = b.infos /\ n.held = b.held /\ Ids(n) = Ids(b)
      /\ SameMarks(b, n) /\ (\A o : OwnedBy(n, o) = OwnedBy(b, o))
      /\ \A o \in Owners : Excess(n, o) = Excess(b, o)
  BY <1>2, NotedParts
<1> HIDE DEF n, id, block
<1>5. Failed(n).failed BY <1>4, QuietFlags
<1>6. ASSUME block \in DOMAIN pool
      PROVE  /\ id \notin Ids(b) /\ Extended(n, g, block, id) /\ SameMarks(n, g)
             /\ \A o \in Owners : Excess(g, o) = Excess(n, o)
  <2>1. id \notin Ids(b)
    <3>1. 1 \in DOMAIN todo /\ todo[1] = Head(todo) BY <1>1, HeadTask DEF HeldInv, TypeInv, TypesOK
    <3> QED BY <1>1, <1>6, <3>1 DEF HeldInv, TypeInv, Pooled, BlockOps, id, block
  <2>2. IsFiniteSet(Ids(n)) /\ id \notin Ids(n) BY <1>2, <1>4, <2>1
  <2>3. Extended(n, g, block, id) BY <1>3, <1>4, <2>2, ExtendedBoard
  <2>4. SameMarks(n, g) /\ \A o \in Owners : Excess(g, o) = Excess(n, o)
    BY <1>3, <1>4, <2>2, ExtendedParts
  <2> QED BY <2>1, <2>3, <2>4
<1> HIDE DEF g
<1>7. /\ ~b'.failed
      /\ \/ b' = b /\ (changing \/ state = "STOPPING")
         \/ b' = n /\ ~FitsNew(b, block)
         \/ b' = g /\ block \in DOMAIN pool
  BY <1>1, <1>5 DEF Runs, Sound
<1>8. Runs
  <2>1. b.failed => b'.failed BY <1>4, <1>6, <1>7 DEF SameMarks
  <2> QED BY <1>1, <2>1 DEF Runs, Sound, inVars, decVars
<1>9. Coming' = Coming BY <1>1 DEF Coming, loopVars
<1>10. Pictures(todo) \subseteq Pictures(todo')
  BY <1>1, <1>8, EnoughParts, PicturesTaken
<1>11. SameMarks(b, b') /\ \A o \in Owners : Excess(b', o) = 0
  <2>1. \A o \in Owners : Excess(b, o) = 0 BY <1>8, EnoughParts DEF Exact
  <2>2. SameMarks(b, b) BY DEF SameMarks
  <2>3. CASE b' = b BY <2>1, <2>2, <2>3
  <2>4. CASE b' = n BY <2>1, <2>4, <1>4
  <2>5. CASE b' = g /\ block \in DOMAIN pool
    <3>1. SameMarks(b, g) BY <2>5, <1>4, <1>6 DEF SameMarks
    <3> QED BY <2>1, <2>5, <3>1, <1>4, <1>6
  <2> QED BY <1>7, <2>3, <2>4, <2>5
<1>12. Awaiting' /\ Drains' /\ EosAlone'
  BY <1>1, <1>8, <1>11, TakesKept DEF SameMarks, formatVars, loopVars, decVars
<1>13. Exact' BY <1>11 DEF Exact
<1>14. Waits(b') = Waits(b) BY <1>11 DEF SameMarks, Waits, IdsIn
<1>15. Ids(b) \subseteq Ids(b') /\ Useful \subseteq Useful'
  <2>1. Ids(b) \subseteq Ids(b') BY <1>4, <1>6, <1>7 DEF Extended
  <2> QED BY <2>1, <1>1, UsefulKept DEF formatVars, poolVars
<1>16. \/ OwnedBy(b', "accelerator") = OwnedBy(b, "accelerator") /\ b'.held = b.held
       \/ /\ b' = g /\ block \in DOMAIN pool
          /\ OwnedBy(b', "accelerator") = OwnedBy(b, "accelerator") \cup {id}
          /\ b'.held = IF b.decoder = "running" THEN b.held \cup {id} ELSE b.held
  BY <1>4, <1>6, <1>7 DEF Extended, SameMarks
<1>17. OwnedBy(b', "component") = OwnedBy(b, "component")
  BY <1>4, <1>6, <1>7 DEF Extended
<1>18. b'.afterFlush = b.afterFlush /\ b'.decoder = b.decoder BY <1>11 DEF SameMarks
<1>19. Spread'
  BY <1>1, <1>8, <1>10, <1>14, <1>16, <1>17, <1>18, EnoughParts DEF Spread, Again
<1>20. SUFFICES ASSUME Rounds'
                PROVE  Near' + Coming' >= format'.min /\ runLoop' /\ allocLoop'
  BY <1>12, <1>13, <1>19 DEF EnoughInv, Balanced
<1>21. Rounds BY <1>1, <1>18, <1>20 DEF Rounds, Again
<1>22. ~changing BY <1>8, <1>21, EnoughParts DEF Awaiting, Rounds
<1>23. IsFiniteSet(b.held) /\ Cardinality(b.held) \in Nat /\ Coming \in Nat
  <2>1. fetch \subseteq {format.size} BY <1>8, <1>21, EnoughParts DEF Awaiting, Rounds
  <2> QED BY <2>1, <1>8, EnoughParts, NearComing, HeldFinite DEF Tracked, HeldOn
<1>24. \/ Head(todo) \notin Useful' /\ Cardinality(b'.held) >= Cardinality(b.held) /\ Coming' >= Coming
       \/ Cardinality(b'.held) >= Cardinality(b.held) + 1 /\ Coming' >= Coming
  <2>1. CASE b' = g /\ block \in DOMAIN pool
    <3>1. b'.held = b.held \cup {id} BY <1>4, <1>6, <1>21, <2>1 DEF Extended, SameMarks, Rounds
    <3>2. id \notin b.held BY <1>6, <1>8, <2>1, EnoughParts DEF Tracked, HeldOn, HeldBy, OwnedBy
    <3>3. Cardinality(b'.held) = Cardinality(b.held) + 1 BY <1>23, <3>1, <3>2, FS_AddElement, Zenon
    <3> QED BY <1>9, <1>23, <3>3
  <2>2. CASE b' = n /\ ~FitsNew(b, block)
    <3>1. format.size \in Sizes BY DEF HeldInv, TypeInv, TypesOK, Formats
    <3>2. SizeOf(block) # AlignedSize(device, format.size) BY <3>1, <2>2, AlignedSizes DEF FitsNew
    <3>3. Head(todo) \notin Useful'
      <4>1. device' = device /\ format' = format BY <1>1 DEF formatVars
      <4> QED BY <1>1, <3>2, <4>1 DEF Useful, block
    <3>4. b'.held = b.held BY <1>4, <2>2
    <3> QED BY <1>9, <1>23, <3>3, <3>4
  <2> QED BY <1>7, <1>8, <1>22, <2>1, <2>2 DEF Runs
<1>25. Near' + Coming' >= format'.min
  <2>1. format' = format BY <1>1 DEF formatVars
  <2> QED BY <2>1, <1>1, <1>8, <1>12, <1>15, <1>20, <1>21, <1>24, TakenBalance
<1>26. runLoop /\ allocLoop BY <1>8, <1>21, EnoughParts, Zenon DEF Balanced
<1> QED BY <1>1, <1>25, <1>26 DEF loopVars

\* What a board is after pictures went out: the decoder may have been given blocks of theirs.
Gives(s, m) ==
  /\ m \in Boards /\ Ids(m) = Ids(s) /\ \A o \in Owners : Excess(m, o) = Excess(s, o)
  /\ m.decoder = s.decoder /\ m.fed = s.fed /\ m.afterFlush = s.afterFlush /\ m.failed = s.failed
  /\ s.toWork = <<>> => m.toWork = <<>>
  /\ OwnedBy(m, "component") \subseteq OwnedBy(s, "component")
  /\ \A x \in OwnedBy(m, "component") : x \in Waits(s) => x \in Waits(m)
  /\ s.held \subseteq m.held
  /\ s.decoder = "running" => OwnedBy(m, "accelerator") \subseteq OwnedBy(s, "accelerator") \cup m.held

\* Such a board is what SentTo makes.
LEMMA SentGives ==
  ASSUME NEW s, Proper(s), NEW n \in 0 .. Len(s.toWork), NEW back \in SUBSET IdsIn(s, n)
  PROVE  LET m == SentTo(s, n, back)
         IN  Gives(s, m) /\ m.eosReported = s.eosReported /\ m.drainEos = s.drainEos
<1> DEFINE front == IdsIn(s, n)
           gone == front \ back
           out == Moved(s, gone, "client")
           given == Given(out, back)
           m == SentTo(s, n, back)
           q == s.toWork
           w == SubSeq(given.toWork, n + 1, Len(given.toWork))
<1>1. q \in Seq(Nat) /\ n \in Nat /\ Len(q) \in Nat /\ n <= Len(q) /\ s \in Boards /\ IsFiniteSet(Ids(s))
  BY LenProperties DEF Proper, Boards
<1>2. front \subseteq Ids(s) /\ gone \in SUBSET Ids(s) /\ back \subseteq front
  BY <1>1 DEF Proper, Waits, IdsIn
<1>3. Keeps(s, m) /\ Sends(s, m) BY SendingKeeps, SendingLeaves
<1> HIDE DEF gone, front
<1>4. /\ out \in Boards /\ Ids(out) = Ids(s) /\ SameFlags(s, out) /\ out.held = s.held
      /\ OwnedBy(out, "accelerator") = OwnedBy(s, "accelerator") \ gone
      /\ OwnedBy(out, "component") = OwnedBy(s, "component") \ gone
  BY <1>1, <1>2, MovedKeeps DEF Owners
<1> HIDE DEF out
<1>5. back \in SUBSET Ids(out) /\ IsFiniteSet(Ids(out)) BY <1>1, <1>2, <1>4
<1>6. /\ given \in Boards /\ SameFlags(out, given)
      /\ given.held = IF out.decoder = "running" THEN out.held \cup back ELSE out.held
      /\ OwnedBy(given, "accelerator") = OwnedBy(out, "accelerator") \cup back
      /\ OwnedBy(given, "component") = OwnedBy(out, "component") \ back
  BY <1>4, <1>5, GivenKeeps
<1>7. m = [given EXCEPT !.toWork = w] BY DEF SentTo, out, gone, front
<1> HIDE DEF m, given
<1>8. SameFlags(s, given) /\ out.decoder = s.decoder BY <1>4, <1>6 DEF SameFlags
<1>9. w = SubSeq(q, n + 1, Len(q)) BY <1>8 DEF SameFlags
<1>10. w \in Seq(Nat) /\ Len(w) = Len(q) - n /\ \A i \in 1 .. Len(w) : w[i] = q[n + i]
  <2>1. n + 1 \in Int /\ Len(q) \in Int /\ \A i \in n + 1 .. Len(q) : q[i] \in Nat
    BY <1>1, ElementOfSeq
  <2> HIDE DEF w, q
  <2>2. /\ w \in Seq(Nat)
        /\ Len(w) = IF n + 1 <= Len(q) THEN Len(q) - (n + 1) + 1 ELSE 0
        /\ \A i \in 1 .. Len(q) - (n + 1) + 1 : w[i] = q[n + 1 + i - 1]
    BY <1>9, <2>1, SubSeqProperties
  <2>3. Len(w) = Len(q) - n BY <1>1, <2>2
  <2>4. ASSUME NEW i \in 1 .. Len(w) PROVE w[i] = q[n + i]
    <3>1. i \in 1 .. Len(q) - (n + 1) + 1 /\ n + 1 + i - 1 = n + i BY <1>1, <2>3
    <3> QED BY <2>2, <3>1
  <2> QED BY <2>2, <2>3, <2>4
<1> HIDE DEF w
<1>11. /\ m.infos = given.infos /\ m.held = given.held /\ m.toWork = w /\ m.eosReported = s.eosReported
       /\ m.drainEos = s.drainEos /\ m.decoder = s.decoder /\ m.fed = s.fed /\ m.afterFlush = s.afterFlush
       /\ m.failed = s.failed
  BY <1>6, <1>7, <1>8, <1>10 DEF Boards, SameFlags
<1>12. \A o : OwnedBy(m, o) = OwnedBy(given, o) BY <1>11 DEF Ids, OwnedBy
<1>13. OwnedBy(m, "component") = OwnedBy(s, "component") \ front
  BY <1>2, <1>4, <1>6, <1>12 DEF gone
<1>14. ASSUME NEW x \in OwnedBy(m, "component"), x \in Waits(s) PROVE x \in Waits(m)
  <2>1. PICK i \in 1 .. Len(q) : x = q[i] BY <1>14 DEF Waits, IdsIn
  <2>2. i \notin 1 .. n BY <1>13, <1>14, <2>1 DEF front, IdsIn
  <2>3. i - n \in 1 .. Len(w) /\ n + (i - n) = i BY <1>1, <1>10, <2>2
  <2>4. x = m.toWork[i - n] BY <1>10, <1>11, <2>1, <2>3
  <2>5. i - n \in 1 .. Len(m.toWork) BY <1>11, <2>3
  <2> QED BY <2>4, <2>5 DEF Waits, IdsIn
<1>15. s.held \subseteq m.held BY <1>4, <1>6, <1>11
<1>16. s.decoder = "running" => OwnedBy(m, "accelerator") \subseteq OwnedBy(s, "accelerator") \cup m.held
  BY <1>4, <1>6, <1>8, <1>11, <1>12
<1>17. s.toWork = <<>> => m.toWork = <<>> BY <1>3 DEF Sends
<1>18. Gives(s, m)
  BY <1>3, <1>11, <1>13, <1>14, <1>15, <1>16, <1>17 DEF Gives, Keeps
<1> QED BY <1>11, <1>18 DEF m

\* What is sent without a failure.
LEMMA SendingsGive ==
  ASSUME Proper(b), NEW sending \in Sendings
  PROVE  Gives(b, sending.b) /\ sending.b.eosReported = b.eosReported /\ sending.b.drainEos = b.drainEos
<1>1. \A n \in Disposable(b) : n \in 0 .. Len(b.toWork) BY DEF Disposable
<1>2. PICK n \in Disposable(b) : \E back \in SUBSET IdsIn(b, n) :
        sending = [b |-> SentTo(b, n, back), out |-> IdsIn(b, n) \ back, bad |-> Cardinality(back)]
  BY DEF Sendings
<1>3. PICK back \in SUBSET IdsIn(b, n) : sending.b = SentTo(b, n, back) BY <1>2
<1>4. LET m == SentTo(b, n, back)
      IN  Gives(b, m) /\ m.eosReported = b.eosReported /\ m.drainEos = b.drainEos
  BY <1>1, SentGives
<1> QED BY <1>3, <1>4

\* A sending that fails leaves the component failed.
LEMMA SendingsFail ==
  ASSUME Proper(b), NEW sending \in FailedSendings
  PROVE  sending.b.failed
<1>1. PICK n \in Disposable(b) :
        sending = [b |-> Failed(SentTo(b, n, {})), out |-> IdsIn(b, n), bad |-> 0]
  BY DEF FailedSendings
<1>2. n \in 0 .. Len(b.toWork) BY DEF Disposable
<1> DEFINE none == {}
<1>3. none \in SUBSET IdsIn(b, n) OBVIOUS
<1> HIDE DEF none
<1>4. SentTo(b, n, none) \in Boards BY <1>2, <1>3, SendingKeeps DEF Keeps
<1>5. Failed(SentTo(b, n, none)).failed BY <1>4, QuietFlags
<1> QED BY <1>1, <1>5 DEF none

\* Pictures that go out keep the balance: only the client gets blocks, and the decoder.
LEMMA SentEnough ==
  ASSUME HeldInv, HeldInv', EnoughInv, Runs, Runs', Gives(b, b'), at' = "idle",
         Carries(todo, todo', Useful),
         UNCHANGED <<state, works, pending, first, client, haveFlush, reuse, formatVars, loopVars,
                     poolVars, haveDrain>>
  PROVE  Exact' /\ Awaiting' /\ Spread' /\ Balanced'
<1>1. Ids(b') = Ids(b) /\ \A o \in Owners : Excess(b', o) = Excess(b, o) BY DEF Gives
<1>2. Exact' BY <1>1, EnoughParts DEF Exact
<1>3. Has(todo, "formatChanged") => Has(todo', "formatChanged") BY DEF Carries, Has
<1>4. Pictures(todo) \subseteq Pictures(todo') BY DEF Carries, Pictures
<1>5. Awaiting' BY <1>3, EnoughParts DEF Awaiting, Gives, formatVars, loopVars
<1>6. Again' <=> Again BY DEF Again
<1>7. Spread' BY <1>4, <1>6, EnoughParts DEF Spread, Gives
<1>8. SUFFICES ASSUME Rounds'
               PROVE  Near' + Coming' >= format'.min /\ runLoop' /\ allocLoop'
  BY <1>2, <1>5, <1>7 DEF Balanced
<1>9. Rounds BY <1>6, <1>8 DEF Rounds, Gives
<1>10. Count(todo', Useful') >= Count(todo, Useful) /\ Useful' = Useful
  BY <1>1 DEF Useful, Carries, formatVars, poolVars
<1>11. HeldBy(b) /\ HeldBy(b') BY DEF HeldInv, Tracked, HeldOn, Runs
<1>12. /\ Near \in Nat /\ Coming \in Nat /\ Near' \in Nat /\ Coming' \in Nat
       /\ Cardinality(b.held) \in Nat /\ Count(todo, Useful) \in Nat /\ Count(todo', Useful') \in Nat
       /\ Cardinality(b'.held) \in Nat
  <2>1. fetch \subseteq {format.size} /\ fetch' \subseteq {format'.size}
    BY <1>9, EnoughParts DEF Awaiting, Rounds, loopVars, formatVars
  <2> QED BY <2>1, <1>11, NearComing, NearComingNext DEF HeldInv
<1>13. Cardinality(b'.held) >= Cardinality(b.held)
  <2>1. IsFiniteSet(Ids(b')) BY <1>1, EnoughParts
  <2>2. IsFiniteSet(b'.held) /\ b.held \subseteq b'.held BY <2>1, <1>11, HeldFinite DEF Gives
  <2> QED BY <2>2, <1>12, FS_Subset
<1>14. Near' >= Near
  <2>1. Near = Cardinality(b.held) + Count(todo, Useful) /\ Near' = Cardinality(b'.held) + Count(todo', Useful')
    BY DEF Near
  <2> QED BY <2>1, <1>10, <1>12, <1>13
<1>15. Near + Coming >= format.min /\ Coming' = Coming /\ format.min \in Nat /\ format'.min = format.min
  <2>1. Coming' = Coming /\ format' = format BY DEF Coming, loopVars, formatVars
  <2>2. Near + Coming >= format.min BY <1>9, EnoughParts DEF Balanced
  <2> QED BY <2>1, <2>2 DEF HeldInv, TypeInv, TypesOK, Formats
<1>16. Near' + Coming' >= format'.min BY <1>12, <1>14, <1>15
<1>17. runLoop /\ allocLoop BY <1>9, EnoughParts, Zenon DEF Balanced
<1> QED BY <1>16, <1>17 DEF loopVars

\* SendOutputBufferToWorkIfAny keeps the balance.
LEMMA SendOutputBufferToWorkIfAnyEnough ==
  ASSUME HeldInv, HeldInv', EnoughInv, Runs', SendOutputBufferToWorkIfAny
  PROVE  EnoughInv'
<1>1. /\ at = "send" /\ at' = "idle" /\ UNCHANGED stream
      /\ UNCHANGED <<state, works, last, pending, first, client, haveFlush, reuse, formatVars,
                      loopVars, poolVars, decVars, todo, haveDrain>>
  BY DEF SendOutputBufferToWorkIfAny
<1>2. Proper(b) BY DEF HeldInv, TypeInv, BoardOK
<1>3. PICK sending \in Sendings \cup FailedSendings : b' = sending.b
  BY DEF SendOutputBufferToWorkIfAny
<1>4. sending \in Sendings BY <1>2, <1>3, SendingsFail DEF Runs, Sound
<1>5. Gives(b, b') /\ b'.eosReported = b.eosReported /\ b'.drainEos = b.drainEos
  BY <1>2, <1>3, <1>4, SendingsGive
<1>6. Runs BY <1>1, <1>5 DEF Runs, Sound, Gives, decVars
<1>7. Carries(todo, todo', Useful) BY <1>1, <1>6, EnoughParts, CarriesOf
<1>8. Exact' /\ Awaiting' /\ Spread' /\ Balanced' BY <1>1, <1>5, <1>6, <1>7, SentEnough
<1>9. Drains' BY <1>1, <1>5, <1>6, EnoughParts DEF Drains, Gives, decVars
<1>10. EosAlone' BY <1>1, <1>5, <1>6, EnoughParts DEF EosAlone, Gives, decVars
<1> QED BY <1>8, <1>9, <1>10 DEF EnoughInv

\* DrainSent keeps the balance: after an EOS there is nothing left to show.
LEMMA DrainSentEnough ==
  ASSUME HeldInv, HeldInv', EnoughInv, Runs', DrainSent
  PROVE  EnoughInv'
<1> DEFINE p == Plain("dequeueWork")
<1>1. /\ at = "drained" /\ at' = "idle" /\ UNCHANGED stream
      /\ UNCHANGED <<state, works, last, pending, first, client, haveFlush, reuse, formatVars,
                      loopVars, poolVars, decVars, haveDrain>>
  BY DEF DrainSent
<1>2. Proper(b) /\ todo \in Seq(Tasks) BY DEF HeldInv, TypeInv, BoardOK, TypesOK
<1>3. PICK sending \in {s \in Sendings : s.b.toWork = <<>>} \cup FailedSendings :
        IF sending \in FailedSendings THEN b' = sending.b /\ UNCHANGED todo
        ELSE b' = EosReported(sending.b) /\ todo' = Append(todo, p)
  BY DEF DrainSent
<1>4. /\ sending \in Sendings /\ sending.b.toWork = <<>>
      /\ b' = EosReported(sending.b) /\ todo' = Append(todo, p)
  BY <1>2, <1>3, SendingsFail DEF Runs, Sound
<1> DEFINE m == sending.b
<1>5. Gives(b, m) /\ m.eosReported = b.eosReported /\ m.drainEos = b.drainEos
  BY <1>2, <1>4, SendingsGive
<1>6. p \in Tasks /\ p.op = "dequeueWork" BY PlainTasks DEF PlainOps
<1> HIDE DEF m, p
<1>7. /\ b' \in Boards /\ b'.infos = m.infos /\ b'.count = m.count /\ b'.toWork = m.toWork /\ b'.held = m.held
      /\ b'.decoder = m.decoder /\ b'.fed = m.fed /\ b'.afterFlush = m.afterFlush /\ b'.failed = m.failed
      /\ (b'.eosReported => m.eosReported \/ m.drainEos) /\ ~b'.drainEos
  BY <1>4, <1>5 DEF Gives, Boards, EosReported, m
<1>8. Gives(b, b')
  <2>1. /\ Ids(b') = Ids(m) /\ Waits(b') = Waits(m) /\ \A o : OwnedBy(b', o) = OwnedBy(m, o)
    BY <1>7 DEF Ids, OwnedBy, Waits, IdsIn
  <2>2. \A o \in Owners : Excess(b', o) = Excess(m, o) BY <1>7, <2>1 DEF Excess
  <2> QED BY <1>5, <1>7, <2>1, <2>2 DEF Gives
<1>9. Runs BY <1>1, <1>8 DEF Runs, Sound, Gives, decVars
<1>10. Carries(todo, todo', Useful) BY <1>4, <1>6, <1>9, EnoughParts, CarriesOf
<1>11. Exact' /\ Awaiting' /\ Spread' /\ Balanced' BY <1>1, <1>8, <1>9, <1>10, SentEnough
<1>12. Follows(todo, todo', 0, {p}) BY <1>2, <1>4, <1>6, TasksFollow
<1>13. Drains' /\ (Has(todo', "drainDone") => Has(todo, "drainDone"))
       /\ (Has(todo', "output") => Has(todo, "output") \/ b.fed)
  <2>1. b'.fed => b.fed BY <1>8 DEF Gives
  <2>2. UNCHANGED <<draining, state>> BY <1>1 DEF decVars
  <2> QED BY <1>1, <1>6, <1>9, <1>12, <2>1, <2>2, EnoughParts, DrainsFollow
<1>14. ~draining /\ ~Has(todo, "drainDone") /\ ~b.fed /\ ~Has(todo, "output")
       /\ (b.drainEos => works = <<>>)
  BY <1>1, <1>9, EnoughParts DEF Drains, EosAlone
<1>15. EosAlone'
  BY <1>1, <1>4, <1>5, <1>7, <1>8, <1>9, <1>13, <1>14, EnoughParts DEF EosAlone, Gives, decVars, m
<1> QED BY <1>11, <1>13, <1>15 DEF EnoughInv

\* FlushDone keeps the balance: until the next work nothing is said but that the pictures that
\* waited are remembered.
LEMMA FlushDoneEnough ==
  ASSUME HeldInv, HeldInv', OrderlyClient, EnoughInv, Runs', FlushDone
  PROVE  EnoughInv'
<1>1. /\ at = "flushDone" /\ at' = "idle" /\ fetch = {} /\ works' = <<>> /\ state' = "STARTED" /\ client' = "woken"
      /\ b' = [b EXCEPT !.afterFlush = IdsIn(b, Len(b.toWork)) \cap Ids(b), !.toWork = <<>>, !.outputs = 0]
      /\ UNCHANGED <<inVars, last, pending, first, haveFlush, reuse, formatVars, runLoop, allocLoop,
                      fetch, poolVars, decVars, todo, haveDrain, withClient>>
  BY DEF FlushDone, Joined
<1>2. Proper(b) /\ b \in Boards /\ state = "FLUSHING" /\ client = "flushing"
  BY <1>1 DEF HeldInv, TypeInv, BoardOK, Proper, Serial
<1>3. /\ b'.infos = b.infos /\ b'.count = b.count /\ b'.toWork = <<>> /\ b'.afterFlush = Waits(b) \cap Ids(b)
      /\ b'.decoder = b.decoder /\ b'.fed = b.fed /\ b'.failed = b.failed
  BY <1>1, <1>2 DEF Boards, Waits
<1>4. Runs BY <1>1, <1>2, <1>3 DEF Runs, Sound, inVars, decVars
<1>5. Ids(b') = Ids(b) /\ \A o : OwnedBy(b', o) = OwnedBy(b, o) /\ Excess(b', o) = Excess(b, o)
  BY <1>3 DEF Ids, OwnedBy, Excess
<1>6. Exact' BY <1>4, <1>5, EnoughParts DEF Exact
<1>7. Awaiting' BY <1>1, <1>3, <1>4, EnoughParts DEF Awaiting, formatVars
<1>8. ~draining /\ ~Has(todo, "drainDone") BY <1>1, <1>4, EnoughParts DEF Drains
<1>9. Drains' BY <1>1, <1>3, <1>4, <1>8, EnoughParts DEF Drains, decVars
<1>10. EosAlone' BY <1>1, <1>3, <1>4, <1>8, EnoughParts DEF EosAlone, decVars, Boards
<1>11. Again' BY <1>1 DEF Again
<1>12. Spread'
  <2>1. Again => b.afterFlush = {} BY <1>2 DEF Again, OrderlyClient
  <2>2. pending = {} => OwnedBy(b, "component") \subseteq Waits(b)
    BY <2>1, <1>4, EnoughParts DEF Spread
  <2>3. Waits(b) \subseteq Ids(b) BY <1>2 DEF Proper
  <2> QED BY <1>1, <1>3, <1>5, <1>11, <2>2, <2>3 DEF Spread
<1>13. Balanced' BY <1>11 DEF Balanced, Rounds
<1> QED BY <1>6, <1>7, <1>9, <1>10, <1>12, <1>13 DEF EnoughInv

\* The decoder is answered: it has all blocks there are, and the dequeue thread has tasks for the
\* others.
LEMMA AnsweredEnough ==
  ASSUME HeldInv, HeldInv', EnoughInv, Runs, at \in {"change", "allocate"}, at' = "idle",
         pending' = {}, fetch = {},
         UNCHANGED <<state, works, client, haveFlush, reuse, changing, fetch, draining, todo>>,
         b'.decoder = "running", b'.toWork = b.toWork, b'.fed = b.fed, b'.eosReported = b.eosReported,
         b'.drainEos = b.drainEos, \A o \in Owners : Excess(b', o) = 0, HeldBy(b'),
         OwnedBy(b', "component") = {}, OwnedBy(b', "accelerator") \subseteq b'.held,
         tasks' \in Nat, Cardinality(b'.held) + tasks' >= format'.min, waiting' = 0, runLoop', allocLoop'
  PROVE  EnoughInv'
<1>1. Exact' BY DEF Exact
<1>2. Awaiting' BY EnoughParts DEF Awaiting
<1>3. Drains' BY EnoughParts DEF Drains
<1>4. EosAlone' BY EnoughParts DEF EosAlone
<1>5. Spread' BY DEF Spread
<1>6. Near' + Coming' >= format'.min
  <2>1. Cardinality(b'.held) \in Nat /\ Count(todo', Useful') \in Nat
    BY NearComingNext DEF HeldInv
  <2>2. Near' = Cardinality(b'.held) + Count(todo', Useful') BY DEF Near
  <2>3. Coming' = tasks'
    <3>1. Cardinality(fetch') = 0 BY FS_EmptySet
    <3> QED BY <3>1 DEF Coming
  <2>4. format'.min \in Nat BY DEF HeldInv, TypeInv, TypesOK, Formats
  <2> QED BY <2>1, <2>2, <2>3, <2>4
<1> QED BY <1>1, <1>2, <1>3, <1>4, <1>5, <1>6 DEF EnoughInv, Balanced

\* The boards the decoder is answered with.
LEMMA AnswerBoards ==
  ASSUME NEW s, Proper(s)
  PROVE  /\ LET m == Assigned(NoInfos(s))
            IN  m.toWork = s.toWork /\ m.drainEos = s.drainEos /\ m.eosReported = s.eosReported
         /\ LET m == Given(Assigned(s), OwnedBy(s, "component"))
            IN  /\ m.drainEos = s.drainEos /\ m.eosReported = s.eosReported
                /\ OwnedBy(m, "component") = {}
                /\ OwnedBy(m, "accelerator") = OwnedBy(s, "accelerator") \cup OwnedBy(s, "component")
         /\ Ids(s) = {} => \A k \in Nat, size \in Sizes :
              LET m == Given([Assigned(s) EXCEPT !.infos = FirstInfos(size, k), !.count["component"] = @ + k], 0 .. k - 1)
              IN  m.drainEos = s.drainEos /\ m.eosReported = s.eosReported
<1>1. s \in Boards /\ IsFiniteSet(Ids(s)) BY DEF Proper
<1>2. \A u \in Boards : /\ Assigned(u) \in Boards /\ Ids(Assigned(u)) = Ids(u) /\ Assigned(u).toWork = u.toWork
                        /\ Assigned(u).drainEos = u.drainEos /\ Assigned(u).eosReported = u.eosReported
                        /\ \A o : OwnedBy(Assigned(u), o) = OwnedBy(u, o)
  <2> SUFFICES ASSUME NEW u \in Boards
               PROVE  /\ Assigned(u) \in Boards /\ Ids(Assigned(u)) = Ids(u) /\ Assigned(u).toWork = u.toWork
                      /\ Assigned(u).drainEos = u.drainEos /\ Assigned(u).eosReported = u.eosReported
                      /\ \A o : OwnedBy(Assigned(u), o) = OwnedBy(u, o)
    OBVIOUS
  <2>1. /\ Keeps(u, Assigned(u)) /\ Assigned(u).toWork = u.toWork /\ \A o : OwnedBy(Assigned(u), o) = OwnedBy(u, o)
    BY AssignedKeeps
  <2>2. Assigned(u).drainEos = u.drainEos /\ Assigned(u).eosReported = u.eosReported
    BY DEF Assigned, Boards
  <2> QED BY <2>1, <2>2 DEF Keeps
<1>3. LET m == Assigned(NoInfos(s))
      IN  m.toWork = s.toWork /\ m.drainEos = s.drainEos /\ m.eosReported = s.eosReported
  <2>1. NoInfos(s) \in Boards /\ NoInfos(s).toWork = s.toWork BY <1>1, ClearedBoard
  <2>2. NoInfos(s).drainEos = s.drainEos /\ NoInfos(s).eosReported = s.eosReported
    BY <1>1 DEF NoInfos, Boards
  <2> QED BY <1>2, <2>1, <2>2
<1> DEFINE t == Assigned(s)
<1>4. /\ t \in Boards /\ Ids(t) = Ids(s) /\ t.drainEos = s.drainEos /\ t.eosReported = s.eosReported
      /\ \A o : OwnedBy(t, o) = OwnedBy(s, o)
  BY <1>1, <1>2
<1> HIDE DEF t
<1>5. LET m == Given(t, OwnedBy(s, "component"))
      IN  /\ m.drainEos = s.drainEos /\ m.eosReported = s.eosReported
          /\ OwnedBy(m, "component") = {}
          /\ OwnedBy(m, "accelerator") = OwnedBy(s, "accelerator") \cup OwnedBy(s, "component")
  <2> DEFINE ids == OwnedBy(s, "component")
             m == Given(t, ids)
  <2>1. ids \in SUBSET Ids(t) /\ IsFiniteSet(Ids(t)) BY <1>1, <1>4 DEF OwnedBy
  <2> HIDE DEF ids
  <2>2. /\ SameFlags(t, m) /\ OwnedBy(m, "accelerator") = OwnedBy(t, "accelerator") \cup ids
        /\ OwnedBy(m, "component") = OwnedBy(t, "component") \ ids
    BY <1>4, <2>1, GivenKeeps
  <2> HIDE DEF m
  <2>3. m.drainEos = s.drainEos /\ m.eosReported = s.eosReported BY <1>4, <2>2 DEF SameFlags
  <2>4. OwnedBy(m, "component") = {} BY <1>4, <2>2 DEF ids
  <2>5. OwnedBy(m, "accelerator") = OwnedBy(s, "accelerator") \cup ids BY <1>4, <2>2
  <2> QED BY <2>3, <2>4, <2>5 DEF m, ids
<1>6. ASSUME Ids(s) = {}, NEW k \in Nat, NEW size \in Sizes
      PROVE  LET m == Given([t EXCEPT !.infos = FirstInfos(size, k), !.count["component"] = @ + k], 0 .. k - 1)
             IN  m.drainEos = s.drainEos /\ m.eosReported = s.eosReported
  <2> DEFINE u == [t EXCEPT !.infos = FirstInfos(size, k), !.count["component"] = @ + k]
             ids == 0 .. k - 1
             m == Given(u, ids)
  <2>1. u \in Boards /\ Ids(u) = ids /\ IsFiniteSet(Ids(u)) /\ SameFlags(t, u)
    BY <1>4, <1>6, AllocatedBoard
  <2> HIDE DEF u
  <2>2. ids \in SUBSET Ids(u) BY <2>1
  <2> HIDE DEF ids
  <2>3. SameFlags(u, m) BY <2>1, <2>2, GivenKeeps
  <2> HIDE DEF m
  <2>4. m.drainEos = s.drainEos /\ m.eosReported = s.eosReported BY <1>4, <2>1, <2>3 DEF SameFlags
  <2> QED BY <2>4 DEF m, u, ids
<1> QED BY <1>3, <1>5, <1>6 DEF t

\* AllocateBuffers keeps the balance: the dequeue thread has a task for each block the pool had none for.
LEMMA AllocateBuffersEnough ==
  ASSUME HeldInv, HeldInv', EnoughInv, Runs', AllocateBuffers
  PROVE  EnoughInv'
<1> DEFINE count == BlockCount(device)
           d == Surfaced(device)
           size == AlignedSize(d, format.size)
<1>1. /\ at = "allocate" /\ at' = "idle" /\ pending' = {} /\ fetch = {}
      /\ UNCHANGED <<inVars, state, works, client, haveFlush, reuse, changing, fetch, decVars, todo>>
  BY DEF AllocateBuffers, Joined
<1>2. \/ b' = Failed([b EXCEPT !.infos = <<>>])
      \/ \E k \in 0 .. FirstBlocks(d, count, Smooth) :
           /\ b' = Given([Assigned(b) EXCEPT !.infos = FirstInfos(size, k),
                                             !.count["component"] = @ + k], 0 .. k - 1)
           /\ format' = [format EXCEPT !.min = count]
           /\ runLoop' = TRUE /\ allocLoop' = TRUE /\ tasks' = count - k /\ waiting' = 0
  BY DEF AllocateBuffers, FirstInfos
<1>3. TypeInv /\ TypeInv' /\ Ids(b) = {} /\ b.toWork = <<>> /\ Proper(b) /\ b \in Boards
  BY <1>1 DEF HeldInv, TypeInv, Empty, BoardOK, Proper
<1>4. count \in Nat /\ Smooth \in Nat
  BY <1>3, BlockNumbers, BoundsAssumption
<1>5. size \in Sizes /\ format \in Formats
  <2>1. format \in Formats /\ format.size \in Sizes BY <1>3 DEF TypeInv, TypesOK, Formats
  <2> QED BY <2>1, AlignedSizes
<1> HIDE DEF count, d, size
<1>6. b' # Failed([b EXCEPT !.infos = <<>>])
  <2>1. Failed([b EXCEPT !.infos = <<>>]).failed BY <1>3 DEF Failed, Boards
  <2> QED BY <2>1 DEF Runs, Sound
<1>7. PICK k \in 0 .. FirstBlocks(d, count, Smooth) :
        /\ b' = Given([Assigned(b) EXCEPT !.infos = FirstInfos(size, k),
                                          !.count["component"] = @ + k], 0 .. k - 1)
        /\ format' = [format EXCEPT !.min = count]
        /\ runLoop' = TRUE /\ allocLoop' = TRUE /\ tasks' = count - k /\ waiting' = 0
  BY <1>2, <1>6
<1>8. k \in Nat /\ k <= count
  <2>1. FirstBlocks(d, count, Smooth) \in 0 .. count BY <1>4, FirstBlocksWithin
  <2> QED BY <1>4, <2>1
<1>9. Begins(b, b', k, size)
  <2>1. Begins(b, Given([Assigned(b) EXCEPT !.infos = FirstInfos(size, k), !.count["component"] = @ + k], 0 .. k - 1),
                 k, size)
    BY <1>3, <1>5, <1>8, FirstGiven
  <2> QED BY <1>7, <2>1
<1>10. /\ Ids(b') = 0 .. k - 1 /\ b'.decoder = "running" /\ b'.held = 0 .. k - 1 /\ b'.toWork = b.toWork
       /\ b'.fed = b.fed /\ b'.failed = b.failed /\ OwnedBy(b', "accelerator") = 0 .. k - 1
       /\ \A id \in 0 .. k - 1 : b'.infos[id].fdSet
  BY <1>9 DEF Begins, SameFlow
<1>11. Runs BY <1>1, <1>10 DEF Runs, Sound, inVars, decVars
<1>12. b'.drainEos = b.drainEos /\ b'.eosReported = b.eosReported
  <2>1. LET m == Given([Assigned(b) EXCEPT !.infos = FirstInfos(size, k), !.count["component"] = @ + k], 0 .. k - 1)
        IN  m.drainEos = b.drainEos /\ m.eosReported = b.eosReported
    <3>1. \A j \in Nat, z \in Sizes :
            LET m == Given([Assigned(b) EXCEPT !.infos = FirstInfos(z, j), !.count["component"] = @ + j], 0 .. j - 1)
            IN  m.drainEos = b.drainEos /\ m.eosReported = b.eosReported
      BY <1>3, AnswerBoards
    <3> QED BY <1>5, <1>8, <3>1
  <2> QED BY <1>7, <2>1
<1>13. \A o \in Owners : Excess(b', o) = 0
  <2>1. LET m == Given([Assigned(b) EXCEPT !.infos = FirstInfos(size, k), !.count["component"] = @ + k], 0 .. k - 1)
        IN  \A o \in Owners : Excess(m, o) = Excess(b, o)
    BY <1>3, <1>5, <1>8, FirstBoards
  <2>2. \A o \in Owners : Excess(b', o) = Excess(b, o) BY <1>7, <2>1
  <2> QED BY <2>2, <1>11, EnoughParts DEF Exact
<1>14. HeldBy(b') /\ OwnedBy(b', "component") = {}
  BY <1>10 DEF HeldBy, OwnedBy
<1>15. Cardinality(b'.held) + tasks' >= format'.min /\ tasks' \in Nat
  <2>1. Cardinality(0 .. k - 1) = k BY <1>8, FS_Interval
  <2>2. format'.min = count BY <1>5, <1>7 DEF Formats
  <2>3. Cardinality(b'.held) = k /\ tasks' = count - k BY <2>1, <1>7, <1>10
  <2> QED BY <2>2, <2>3, <1>4, <1>8
<1>16. waiting' = 0 /\ runLoop' /\ allocLoop' BY <1>7
<1>17. UNCHANGED draining /\ OwnedBy(b', "accelerator") \subseteq b'.held BY <1>1, <1>10 DEF decVars
<1> QED BY <1>1, <1>10, <1>11, <1>12, <1>13, <1>14, <1>15, <1>16, <1>17, AnsweredEnough

\* VideoResolutionChange keeps the balance: the dequeue thread has a task for every block.
LEMMA VideoResolutionChangeEnough ==
  ASSUME HeldInv, HeldInv', EnoughInv, Runs', VideoResolutionChange
  PROVE  EnoughInv'
<1>1. /\ at = "change" /\ at' = "idle" /\ pending' = {} /\ fetch = {}
      /\ UNCHANGED <<inVars, state, works, client, haveFlush, reuse, changing, fetch, draining, shown, todo, format, first>>
      /\ runLoop' = TRUE /\ allocLoop' = TRUE /\ tasks' = format.min /\ waiting' = 0
  BY DEF VideoResolutionChange, Joined, formatVars, decVars
<1>2. \/ stream.surface /\ b' = Assigned(NoInfos(b))
      \/ stream.surface /\ b' = Given(Assigned(b), OwnedBy(b, "component"))
      \/ ~stream.surface /\ (b' = Assigned([b EXCEPT !.infos = <<>>]) \/ b' = Assigned(b))
  BY DEF VideoResolutionChange
<1>3. TypeInv /\ TypeInv' /\ first /\ Proper(b) /\ b \in Boards /\ b.toWork = <<>>
  BY <1>1 DEF HeldInv, TypeInv, Empty, BoardOK, Proper
<1>4. /\ LET m == Assigned(NoInfos(b))
         IN  /\ m.toWork = b.toWork /\ m.drainEos = b.drainEos /\ m.eosReported = b.eosReported
             /\ Ids(m) = {} /\ m.held = {} /\ m.decoder = "running" /\ SameFlow(b, m)
             /\ \A o \in Owners : Excess(m, o) = Excess(b, o)
      /\ LET m == Given(Assigned(b), OwnedBy(b, "component"))
         IN  /\ m.drainEos = b.drainEos /\ m.eosReported = b.eosReported
             /\ OwnedBy(m, "component") = {}
             /\ OwnedBy(m, "accelerator") = OwnedBy(b, "accelerator") \cup OwnedBy(b, "component")
             /\ Regiven(b, m) /\ Keeps(b, m)
  BY <1>3, AnswerBoards, ClearedAssigned, ChangedBoards, RegivenBoard
<1>5. b'.failed = b.failed
  <2>1. \A u \in Boards : Assigned(u).failed = u.failed BY DEF Assigned, Boards
  <2>2. [b EXCEPT !.infos = <<>>] \in Boards /\ [b EXCEPT !.infos = <<>>].failed = b.failed
    BY <1>3, ClearedBoard DEF Boards
  <2> QED BY <1>2, <1>3, <1>4, <2>1, <2>2 DEF SameFlow, Regiven
<1>6. Runs BY <1>1, <1>5 DEF Runs, Sound, inVars
<1>7. stream.surface
  <2>1. Tracked /\ pending # {} BY <1>1, <1>6, EnoughParts DEF Tracked, Waiting
  <2>2. b.decoder = "waiting" BY <2>1 DEF Tracked, Waiting
  <2> QED BY <1>3, <2>1, <2>2 DEF Tracked, Waiting
<1>8. OwnedBy(b, "accelerator") = {} /\ \A o \in Owners : Excess(b, o) = 0
  BY <1>1, <1>6, EnoughParts DEF Awaiting, Exact
<1>9. /\ b'.decoder = "running" /\ b'.toWork = b.toWork /\ b'.fed = b.fed
      /\ b'.eosReported = b.eosReported /\ b'.drainEos = b.drainEos
      /\ \A o \in Owners : Excess(b', o) = 0
      /\ HeldBy(b') /\ OwnedBy(b', "component") = {} /\ OwnedBy(b', "accelerator") \subseteq b'.held
  <2>1. CASE b' = Assigned(NoInfos(b))
    <3>1. /\ b'.toWork = b.toWork /\ b'.drainEos = b.drainEos /\ b'.eosReported = b.eosReported
          /\ Ids(b') = {} /\ b'.held = {} /\ b'.decoder = "running" /\ b'.fed = b.fed
          /\ \A o \in Owners : Excess(b', o) = Excess(b, o)
      BY <1>4, <2>1 DEF SameFlow
    <3> QED BY <3>1, <1>8 DEF HeldBy, OwnedBy
  <2>2. CASE b' = Given(Assigned(b), OwnedBy(b, "component"))
    <3>1. /\ b'.drainEos = b.drainEos /\ b'.eosReported = b.eosReported /\ OwnedBy(b', "component") = {}
          /\ OwnedBy(b', "accelerator") = OwnedBy(b, "accelerator") \cup OwnedBy(b, "component")
          /\ Regiven(b, b') /\ Keeps(b, b')
      BY <1>4, <2>2
    <3>2. b'.decoder = "running" /\ b'.held = OwnedBy(b, "component") /\ b'.toWork = b.toWork /\ b'.fed = b.fed /\ HeldBy(b')
      BY <3>1 DEF Regiven, SameFlow
    <3>3. \A o \in Owners : Excess(b', o) = 0 BY <3>1, <1>8 DEF Keeps
    <3> QED BY <3>1, <3>2, <3>3, <1>8
  <2> QED BY <1>2, <1>7, <2>1, <2>2
<1>10. tasks' \in Nat /\ Cardinality(b'.held) + tasks' >= format'.min
  <2>1. IsFiniteSet(Ids(b')) /\ Cardinality(b'.held) \in Nat BY <1>3, <1>9, HeldFinite DEF TypeInv, BoardOK, Proper
  <2>2. format.min \in Nat BY <1>3 DEF TypeInv, TypesOK, Formats
  <2> QED BY <1>1, <2>1, <2>2
<1> QED BY <1>1, <1>6, <1>9, <1>10, AnsweredEnough

-----------------------------------------------------------------------------
(* A drained decoder gets no input before the next work.                    *)

\* Only a work taken from the queue feeds the decoder, and after a drain an orderly client has none
\* there before the restart.
Unfed == haveDrain => ~b.fed

\* A board that feeds the decoder as the other does.
SameFed(s, m) == "fed" \in DOMAIN s => "fed" \in DOMAIN m /\ m.fed = s.fed

\* One after the other.
LEMMA SameFedTwice ==
  ASSUME NEW s, NEW m, NEW u, SameFed(s, m), SameFed(m, u)
  PROVE  SameFed(s, u)
BY DEF SameFed

\* What is done with single fields of a board.
LEMMA FieldsFed ==
  ASSUME NEW s
  PROVE  /\ SameFed(s, s) /\ SameFed(s, Failed(s)) /\ SameFed(s, Noted(s)) /\ SameFed(s, EosReported(s))
         /\ SameFed(s, Assigned(s)) /\ SameFed(s, NoInfos(s))
         /\ \A v : /\ SameFed(s, [s EXCEPT !.infos = v]) /\ SameFed(s, [s EXCEPT !.toWork = v])
                   /\ SameFed(s, [s EXCEPT !.slot = v]) /\ SameFed(s, [s EXCEPT !.resCh = v])
                   /\ SameFed(s, [s EXCEPT !.error = v]) /\ SameFed(s, [s EXCEPT !.drainEos = v])
                   /\ SameFed(s, [s EXCEPT !.afterFlush = v]) /\ SameFed(s, [s EXCEPT !.eosReported = v])
                   /\ SameFed(s, [s EXCEPT !.held = v])
                   /\ \A w : /\ SameFed(s, [s EXCEPT !.toWork = v, !.outputs = w])
                             /\ SameFed(s, [s EXCEPT !.decoder = v, !.held = w])
                             /\ SameFed(s, [s EXCEPT !.infos = v, !.count["component"] = w])
                             /\ \A x : SameFed(s, [s EXCEPT !.afterFlush = v, !.toWork = w, !.outputs = x])
<1>1. SameFed(s, s) /\ SameFed(s, Failed(s)) /\ SameFed(s, Noted(s)) BY DEF SameFed, Failed, Noted
<1>2. SameFed(s, EosReported(s)) BY DEF SameFed, EosReported
<1>3. SameFed(s, Assigned(s)) BY DEF SameFed, Assigned
<1>4. SameFed(s, NoInfos(s)) BY DEF SameFed, NoInfos
<1> QED BY <1>1, <1>2, <1>3, <1>4 DEF SameFed

\* What is done with blocks.
LEMMA BlocksFed ==
  ASSUME NEW s
  PROVE  /\ \A ids, to : SameFed(s, Moved(s, ids, to))
         /\ \A ids : SameFed(s, Sent(s, ids)) /\ SameFed(s, Given(s, ids))
         /\ \A block, id : SameFed(s, Appended(s, block, id)) /\ SameFed(s, Returned(s, block, id))
         /\ \A id : SameFed(s, Reused(s, id))
         /\ \A n, back : SameFed(s, SentTo(s, n, back))
         /\ SameFed(s, ReusedOutBuf(s))
<1>1. \A m, ids, to : SameFed(m, Moved(m, ids, to)) BY DEF SameFed, Moved
<1>2. \A m, ids : SameFed(m, Sent(m, ids)) BY DEF SameFed, Sent
<1>3. \A m, ids : SameFed(m, Given(m, ids)) BY <1>1, <1>2, SameFedTwice DEF Given
<1>4. \A block, id : SameFed(s, Appended(s, block, id)) BY DEF SameFed, Appended
<1>5. \A block, id : SameFed(s, Returned(s, block, id))
  <2> TAKE block, id
  <2> DEFINE m == [s EXCEPT !.infos[id].block = block]
  <2>1. SameFed(s, m) BY DEF SameFed
  <2>2. SameFed(m, Moved(m, {id}, "component")) BY <1>1
  <2> HIDE DEF m
  <2>3. SameFed(s, Moved(m, {id}, "component")) BY <2>1, <2>2, SameFedTwice
  <2> QED BY <2>3 DEF Returned, m
<1>6. \A id : SameFed(s, Reused(s, id)) BY <1>2, <1>3 DEF Reused
<1>7. \A n, back : SameFed(s, SentTo(s, n, back))
  <2> TAKE n, back
  <2> DEFINE m == Moved(s, IdsIn(s, n) \ back, "client")
             g == Given(m, back)
  <2>1. SameFed(s, g) BY <1>1, <1>3, SameFedTwice
  <2>2. SameFed(g, [g EXCEPT !.toWork = SubSeq(@, n + 1, Len(@))]) BY DEF SameFed
  <2>3. SentTo(s, n, back) = [g EXCEPT !.toWork = SubSeq(@, n + 1, Len(@))] BY DEF SentTo
  <2> HIDE DEF g
  <2> QED BY <2>1, <2>2, <2>3, SameFedTwice
<1>8. SameFed(s, ReusedOutBuf(s))
  <2> DEFINE m == [s EXCEPT !.afterFlush = {}]
  <2>1. SameFed(s, m) BY DEF SameFed
  <2>2. \A ids : SameFed(m, Given(m, ids)) BY <1>3
  <2>3. ReusedOutBuf(s) = s \/ \E ids : ReusedOutBuf(s) = Given(m, ids) BY DEF ReusedOutBuf
  <2>4. SameFed(s, s) BY DEF SameFed
  <2> HIDE DEF m
  <2> QED BY <2>1, <2>2, <2>3, <2>4, SameFedTwice
<1> QED BY <1>1, <1>2, <1>3, <1>4, <1>5, <1>6, <1>7, <1>8

\* The answer to a format feeds the decoder as before.
LEMMA AnswerFed ==
  AllocateBuffers \/ VideoResolutionChange => SameFed(b, b') /\ UNCHANGED haveDrain
<1>1. ASSUME AllocateBuffers PROVE SameFed(b, b') /\ UNCHANGED haveDrain
  <2>1. CASE b' = Failed([b EXCEPT !.infos = <<>>])
    <3> DEFINE m == [b EXCEPT !.infos = <<>>]
    <3>1. SameFed(b, m) BY FieldsFed
    <3> HIDE DEF m
    <3>2. SameFed(m, Failed(m)) BY FieldsFed
    <3>3. b' = Failed(m) BY <2>1 DEF m
    <3> QED BY <1>1, <3>1, <3>2, <3>3, SameFedTwice DEF AllocateBuffers
  <2>2. ASSUME NEW v, NEW k, b' = Given([Assigned(b) EXCEPT !.infos = v, !.count["component"] = @ + k], 0 .. k - 1)
        PROVE  SameFed(b, b')
    <3> DEFINE m == Assigned(b)
               g == [m EXCEPT !.infos = v, !.count["component"] = @ + k]
    <3>1. SameFed(b, m) BY FieldsFed
    <3> HIDE DEF m
    <3>2. SameFed(m, g) BY DEF SameFed
    <3> HIDE DEF g
    <3>3. SameFed(g, Given(g, 0 .. k - 1)) BY BlocksFed
    <3>4. b' = Given(g, 0 .. k - 1) BY <2>2 DEF g, m
    <3> QED BY <3>1, <3>2, <3>3, <3>4, SameFedTwice
  <2> QED BY <1>1, <2>1, <2>2, Zenon DEF AllocateBuffers
<1>2. ASSUME VideoResolutionChange PROVE SameFed(b, b') /\ UNCHANGED haveDrain
  <2>1. SameFed(b, Assigned(NoInfos(b))) BY FieldsFed, SameFedTwice
  <2>2. SameFed(b, Given(Assigned(b), OwnedBy(b, "component"))) BY FieldsFed, BlocksFed, SameFedTwice
  <2>3. SameFed(b, Assigned([b EXCEPT !.infos = <<>>])) /\ SameFed(b, Assigned(b))
    <3> DEFINE m == [b EXCEPT !.infos = <<>>]
    <3>1. SameFed(b, m) BY FieldsFed
    <3> HIDE DEF m
    <3>2. SameFed(m, Assigned(m)) /\ SameFed(b, Assigned(b)) BY FieldsFed
    <3>3. SameFed(b, Assigned(m)) BY <3>1, <3>2, SameFedTwice
    <3> QED BY <3>2, <3>3 DEF m
  <2>4. UNCHANGED haveDrain BY <1>2 DEF VideoResolutionChange
  <2>5. \/ b' = Assigned(NoInfos(b)) \/ b' = Given(Assigned(b), OwnedBy(b, "component"))
        \/ b' = Assigned([b EXCEPT !.infos = <<>>]) \/ b' = Assigned(b)
    BY <1>2, Zenon DEF VideoResolutionChange
  <2> QED BY <2>1, <2>2, <2>3, <2>4, <2>5, Zenon
<1> QED BY <1>1, <1>2

\* Sending pictures out leaves the decoder fed or not.
LEMMA SendingFed ==
  \A sending \in Sendings \cup FailedSendings : SameFed(b, sending.b)
<1>1. \A n, back : SameFed(b, SentTo(b, n, back)) /\ SameFed(b, Failed(SentTo(b, n, back)))
  BY BlocksFed, FieldsFed, SameFedTwice
<1>2. \A sending \in Sendings : \E n, back : sending.b = SentTo(b, n, back)
  BY DEF Sendings
<1>3. \A sending \in FailedSendings : \E n : sending.b = Failed(SentTo(b, n, {}))
  BY DEF FailedSendings
<1> QED BY <1>1, <1>2, <1>3

\* So does a try to change the format.
LEMMA TriedFed ==
  ASSUME NEW s, NEW rest, NEW new, SameFed(b, s), TryChangeOutputFormat(s, rest, new)
  PROVE  SameFed(b, b')
<1>1. b' \in {s, Failed(s), [s EXCEPT !.resCh = @ \/ first]}
  BY DEF TryChangeOutputFormat
<1>2. SameFed(s, s) /\ SameFed(s, Failed(s)) /\ SameFed(s, [s EXCEPT !.resCh = @ \/ first])
  BY FieldsFed
<1> QED BY <1>1, <1>2, SameFedTwice

\* The steps of the component thread that take a work, a picture or a block neither feed the decoder
\* nor say that a drain is done.
LEMMA WorkFed ==
  QueueWork \/ Drain \/ OutputBufferDone \/ SendOutputBufferToWorkIfAny \/ TryChangeAgain
    \/ OutputFormatChanged \/ OutputBufferReturned \/ NewBlockBufferFetched
  => SameFed(b, b') /\ (haveDrain' => haveDrain)
<1>1. ASSUME QueueWork PROVE SameFed(b, b') /\ (haveDrain' => haveDrain)
  <2> DEFINE s == ReusedOutBuf(b)
  <2>1. SameFed(b, s) BY BlocksFed
  <2>2. \E v : b' = [s EXCEPT !.eosReported = v] BY <1>1 DEF QueueWork
  <2>3. haveDrain' => haveDrain BY <1>1 DEF QueueWork
  <2> HIDE DEF s
  <2>4. \A v : SameFed(s, [s EXCEPT !.eosReported = v]) BY FieldsFed
  <2> QED BY <2>1, <2>2, <2>3, <2>4, SameFedTwice
<1>2. ASSUME Drain PROVE SameFed(b, b') /\ UNCHANGED haveDrain
  <2>1. b' \in {b, [b EXCEPT !.drainEos = FALSE]} /\ UNCHANGED haveDrain BY <1>2 DEF Drain
  <2>2. SameFed(b, b) /\ SameFed(b, [b EXCEPT !.drainEos = FALSE]) BY FieldsFed
  <2> QED BY <2>1, <2>2
<1>3. ASSUME OutputBufferDone PROVE SameFed(b, b') /\ UNCHANGED haveDrain
  <2> DEFINE id == Task.id
             s == IF id \in OwnedBy(b, "accelerator") THEN Moved(b, {id}, "component") ELSE b
  <2>1. SameFed(b, s) BY BlocksFed, FieldsFed
  <2>2. \/ b' \in {b, Given(s, {id}), Failed(b)}
        \/ b' = [s EXCEPT !.toWork = Append(@, id), !.outputs = IF @ < 2 THEN @ + 1 ELSE 2]
    BY <1>3 DEF OutputBufferDone
  <2> HIDE DEF s
  <2>3. SameFed(s, Given(s, {id})) /\ SameFed(b, Failed(b)) /\ SameFed(b, b) BY BlocksFed, FieldsFed
  <2>4. SameFed(s, [s EXCEPT !.toWork = Append(@, id), !.outputs = IF @ < 2 THEN @ + 1 ELSE 2])
    BY FieldsFed
  <2>5. UNCHANGED haveDrain BY <1>3 DEF OutputBufferDone
  <2>6. CASE b' = [s EXCEPT !.toWork = Append(@, id), !.outputs = IF @ < 2 THEN @ + 1 ELSE 2]
    <3>1. SameFed(s, b') BY <2>4, <2>6
    <3> QED BY <2>1, <2>5, <3>1, SameFedTwice
  <2>7. CASE b' \in {b, Given(s, {id}), Failed(b)}
    <3>1. SameFed(b, Given(s, {id})) BY <2>1, <2>3, SameFedTwice
    <3> QED BY <2>3, <2>5, <2>7, <3>1
  <2> QED BY <2>2, <2>6, <2>7
<1>4. ASSUME SendOutputBufferToWorkIfAny PROVE SameFed(b, b') /\ UNCHANGED haveDrain
  BY <1>4, SendingFed DEF SendOutputBufferToWorkIfAny
<1>5. ASSUME TryChangeAgain PROVE SameFed(b, b') /\ UNCHANGED haveDrain
  BY <1>5, TriedFed, FieldsFed DEF TryChangeAgain
<1>6. ASSUME OutputFormatChanged PROVE SameFed(b, b') /\ UNCHANGED haveDrain
  BY <1>6, TriedFed, BlocksFed DEF OutputFormatChanged
<1>7. ASSUME OutputBufferReturned PROVE SameFed(b, b') /\ UNCHANGED haveDrain
  <2> DEFINE block == Task.block
             id == Task.id
             r == Returned(Noted(b), block, id)
  <2>1. SameFed(b, r) /\ SameFed(b, Reused(r, id)) /\ SameFed(b, Failed(Noted(b)))
    BY BlocksFed, FieldsFed, SameFedTwice
  <2>2. \/ b' \in {b, Failed(Noted(b)), Failed(b), [b EXCEPT !.slot = {block}], Reused(r, id)}
        \/ TryChangeOutputFormat(r, Tail(todo), pending)
    BY <1>7 DEF OutputBufferReturned
  <2>3. UNCHANGED haveDrain BY <1>7 DEF OutputBufferReturned
  <2>4. SameFed(b, r) => (TryChangeOutputFormat(r, Tail(todo), pending) => SameFed(b, b'))
    BY TriedFed
  <2>5. SameFed(b, b) /\ SameFed(b, Failed(b)) /\ SameFed(b, [b EXCEPT !.slot = {block}])
    BY FieldsFed
  <2> HIDE DEF r
  <2> QED BY <2>1, <2>2, <2>3, <2>4, <2>5
<1>8. ASSUME NewBlockBufferFetched PROVE SameFed(b, b') /\ UNCHANGED haveDrain
  <2> DEFINE block == Task.block
             id == Task.id
  <2>1. b' \in {b, Noted(b), Failed(Noted(b)), Given(Appended(Noted(b), block, id), {id})}
    BY <1>8 DEF NewBlockBufferFetched
  <2>2. SameFed(b, Failed(Noted(b))) /\ SameFed(b, Given(Appended(Noted(b), block, id), {id}))
    BY BlocksFed, FieldsFed, SameFedTwice
  <2>3. UNCHANGED haveDrain BY <1>8 DEF NewBlockBufferFetched
  <2> QED BY <2>1, <2>2, <2>3, FieldsFed
<1> QED BY <1>1, <1>2, <1>3, <1>4, <1>5, <1>6, <1>7, <1>8

\* And those of a flush, a drain or a stop.
LEMMA CallFed ==
  ResetDone \/ FlushDone \/ StopDone \/ Flush \/ Stop \/ StopJoined \/ DrainDone \/ DrainSent \/ Dropped
  => SameFed(b, b') /\ UNCHANGED haveDrain
<1>1. ASSUME ResetDone \/ Flush \/ Stop \/ StopJoined \/ Dropped PROVE SameFed(b, b') /\ UNCHANGED haveDrain
  <2>1. b' \in {b, Failed(b), [b EXCEPT !.error = FALSE]} /\ UNCHANGED haveDrain
    BY <1>1 DEF ResetDone, Flush, Stop, StopJoined, Dropped, compVars
  <2>2. SameFed(b, b) /\ SameFed(b, Failed(b)) /\ SameFed(b, [b EXCEPT !.error = FALSE])
    BY FieldsFed
  <2> QED BY <2>1, <2>2
<1>2. ASSUME FlushDone PROVE SameFed(b, b') /\ UNCHANGED haveDrain
  BY <1>2, FieldsFed DEF FlushDone
<1>3. ASSUME StopDone PROVE SameFed(b, b') /\ UNCHANGED haveDrain
  BY <1>3 DEF StopDone, SameFed
<1>4. ASSUME DrainDone PROVE SameFed(b, b') /\ UNCHANGED haveDrain
  BY <1>4, FieldsFed DEF DrainDone
<1>5. ASSUME DrainSent PROVE SameFed(b, b') /\ UNCHANGED haveDrain
  <2>1. PICK sending \in Sendings \cup FailedSendings : b' \in {sending.b, EosReported(sending.b)}
    BY <1>5 DEF DrainSent
  <2>2. SameFed(b, sending.b) /\ SameFed(sending.b, EosReported(sending.b)) BY SendingFed, FieldsFed
  <2> QED BY <1>5, <2>1, <2>2, SameFedTwice DEF DrainSent
<1> QED BY <1>1, <1>2, <1>3, <1>4, <1>5

\* Every step leaves a drained decoder unfed, as long as the client is orderly.
LEMMA UnfedStep ==
  TypeInv /\ OrderlyClient /\ Unfed /\ [Next]_vars => Unfed'
<1> SUFFICES ASSUME TypeInv, OrderlyClient, Unfed, [Next]_vars PROVE Unfed'
  OBVIOUS
<1>1. "fed" \in DOMAIN b BY DEF TypeInv, BoardOK, Proper, Boards
<1>2. ASSUME SameFed(b, b'), haveDrain' => haveDrain PROVE Unfed'
  BY <1>1, <1>2 DEF SameFed, Unfed
<1>3. CASE DequeueWork
  <2>1. ~haveDrain BY <1>3 DEF DequeueWork, OrderlyClient
  <2> QED BY <1>3, <2>1 DEF DequeueWork, Unfed
<1>4. CASE ComponentThread /\ ~DequeueWork
  BY <1>2, <1>4, WorkFed, AnswerFed, CallFed DEF ComponentThread
<1>5. CASE DequeueThread
  BY <1>2, <1>5, FieldsFed DEF DequeueThread, TaskCancelled, FetchBegins, FetchGraphicBlock, compVars
<1>6. CASE Client
  BY <1>2, <1>6, FieldsFed DEF Client, ClientCalls, Calls, FlushReturns, ClientReleases, compVars
<1>7. CASE ProvidePictureBuffers \/ Decode
  <2>1. CASE ProvidePictureBuffers
    <3>1. b' = [b EXCEPT !.decoder = "waiting", !.held = {}] /\ UNCHANGED haveDrain
      BY <2>1 DEF ProvidePictureBuffers
    <3>2. SameFed(b, [b EXCEPT !.decoder = "waiting", !.held = {}]) BY FieldsFed
    <3> QED BY <1>2, <3>1, <3>2
  <2>2. CASE Decode
    <3>1. PICK id \in b.held : b' = [b EXCEPT !.held = @ \ {id}] /\ UNCHANGED haveDrain
      BY <2>2 DEF Decode
    <3>2. SameFed(b, [b EXCEPT !.held = @ \ {id}]) BY FieldsFed
    <3> QED BY <1>2, <3>1, <3>2
  <2> QED BY <1>7, <2>1, <2>2
<1>8. CASE NotifyFlushDone \/ NotifyResetDone
  BY <1>1, <1>8 DEF NotifyFlushDone, NotifyResetDone, Unfed
<1>9. CASE UNCHANGED vars
  BY <1>2, <1>9, FieldsFed DEF vars, compVars
<1> QED BY <1>3, <1>4, <1>5, <1>6, <1>7, <1>8, <1>9 DEF Next, Decoder

-----------------------------------------------------------------------------
(* Blocks never run out.                                                    *)

\* The initial states are not in a round: there is no block.
LEMMA EnoughInit == Init => EnoughInv
<1> SUFFICES ASSUME Init PROVE EnoughInv
  OBVIOUS
<1>1. /\ state = "STARTED" /\ todo = <<>> /\ at = "idle" /\ works = <<>> /\ b = NoBlocks /\ pending = {}
      /\ client = "idle" /\ first = FALSE /\ reuse = FALSE /\ haveFlush = FALSE /\ changing = FALSE
      /\ fetch = {} /\ draining = FALSE
  BY DEF Init
<1>2. DOMAIN todo = {} BY <1>1, EmptyInfos
<1>3. /\ Ids(b) = {} /\ \A o \in Owners : b.count[o] = 0
      /\ b.toWork = <<>> /\ ~b.fed /\ ~b.eosReported /\ ~b.drainEos
  BY <1>1, EmptyInfos DEF NoBlocks, Ids
<1>4. \A o : OwnedBy(b, o) = {} BY <1>3 DEF OwnedBy
<1>5. Exact
  <2>1. \A o \in Owners : Cardinality(OwnedBy(b, o)) = 0 BY <1>4, FS_EmptySet
  <2> QED BY <2>1, <1>3 DEF Exact, Excess
<1>6. Awaiting BY <1>1 DEF Awaiting
<1>7. Drains BY <1>1, <1>2 DEF Drains, Has
<1>8. EosAlone BY <1>1, <1>2, <1>3 DEF EosAlone, Has
<1>9. Spread BY <1>4 DEF Spread
<1>10. Balanced BY <1>1 DEF Balanced, Rounds
<1> QED BY <1>5, <1>6, <1>7, <1>8, <1>9, <1>10 DEF EnoughInv

\* Every step keeps the balance, as long as the client is orderly.
LEMMA EnoughStep ==
  HeldInv /\ HeldInv' /\ OrderlyClient /\ OrderlyClient' /\ EnoughInv /\ [Next]_vars => EnoughInv'
<1> SUFFICES ASSUME HeldInv, HeldInv', OrderlyClient, OrderlyClient', EnoughInv, [Next]_vars
             PROVE  EnoughInv'
  OBVIOUS
<1>1. SUFFICES ASSUME Runs' PROVE EnoughInv'
  BY DEF EnoughInv
<1>2. ~Stop /\ ~StopJoined /\ ~StopDone
  <2>1. ~Stop BY <1>1 DEF Stop, Runs
  <2>2. ~StopJoined BY <1>1 DEF StopJoined, Runs, HeldInv, TypeInv, Serial, compVars
  <2>3. ~StopDone BY <1>1 DEF StopDone, Runs, Sound
  <2> QED BY <2>1, <2>2, <2>3
<1>3. CASE ComponentThread
  BY <1>1, <1>2, <1>3, QueueWorkEnough, DequeueWorkEnough, DrainEnough, OutputBufferDoneEnough,
     SendOutputBufferToWorkIfAnyEnough, TryChangeAgainEnough, OutputFormatChangedEnough,
     OutputBufferReturnedEnough, NewBlockBufferFetchedEnough, AllocateBuffersEnough,
     VideoResolutionChangeEnough, ResetDoneEnough, FlushDoneEnough, FlushEnough, DrainDoneEnough,
     DrainSentEnough, DroppedEnough
  DEF ComponentThread
<1>4. CASE DequeueThread
  BY <1>1, <1>4, TaskCancelledEnough, FetchBeginsEnough, FetchGraphicBlockEnough DEF DequeueThread
<1>5. CASE Decoder
  BY <1>1, <1>5, ProvidePictureBuffersEnough, DecodeEnough, NotifyFlushDoneEnough, NotifyResetDoneEnough DEF Decoder
<1>6. CASE Client
  BY <1>1, <1>6, ClientCallsEnough, FlushReturnsEnough, ClientReleasesEnough DEF Client
<1>7. CASE UNCHANGED vars
  <2>1. UNCHANGED <<inVars, compVars, formatVars, loopVars, poolVars, decVars, todo, at, haveDrain, withClient>>
    BY <1>7 DEF vars
  <2>2. Runs BY <1>1, <2>1 DEF Runs, Sound, compVars, inVars, decVars
  <2>3. Drains' /\ EosAlone' BY <2>1, <2>2, EnoughParts DEF Drains, EosAlone, compVars, decVars
  <2>4. SameBlocks(b, b') BY <2>1 DEF SameBlocks, compVars
  <2>5. Carries(todo, todo', Useful) BY <2>1, <2>2, EnoughParts, CarriesOf
  <2>6. Coming' = Coming BY <2>1 DEF Coming, loopVars
  <2>7. Exact' /\ Awaiting' /\ Spread' /\ Balanced'
    BY <2>1, <2>2, <2>4, <2>5, <2>6, EnoughParts, CalmKept
       DEF HeldInv, compVars, formatVars, loopVars, poolVars
  <2> QED BY <2>3, <2>7 DEF EnoughInv
<1> QED BY <1>3, <1>4, <1>5, <1>6, <1>7 DEF Next

\* When nothing is under way that would give blocks later, the balance is what was promised: with
\* work for the decoder, no drain or flush of an orderly client is still to be restarted after.
LEMMA EnoughGives ==
  ASSUME HeldInv, EnoughInv, OrderlyClient, Unfed
  PROVE  EnoughBlocks
<1> SUFFICES ASSUME Settled
             PROVE  /\ Cardinality(b.held) + PostedOf({"output", "returned", "new"})
                         + tasks + waiting + Cardinality(fetch) >= format.min
                    /\ tasks + waiting > 0 => runLoop
                    /\ tasks > 0 => allocLoop
  BY DEF EnoughBlocks
<1>1. /\ state \in {"STARTED", "DRAINING"} /\ first /\ ~b.failed /\ client = "idle"
      /\ pending = {} /\ (stream.surface \/ shown = 1)
      /\ PostedOf({"formatChanged", "tryChange"}) = 0
      /\ haveFlush \/ haveDrain => works # <<>> \/ b.fed
  BY DEF Settled
<1>2. Runs BY <1>1 DEF Runs, Sound
<1>3. ~haveDrain /\ ~reuse
  <2>1. ~haveDrain BY <1>1 DEF OrderlyClient, Unfed
  <2>2. /\ haveFlush = reuse
        /\ reuse => works = <<>> /\ ~b.fed
    BY <1>2, EnoughParts DEF Awaiting, Tracked, Resets
  <2> QED BY <1>1, <2>1, <2>2
<1>4. todo \in Seq(Tasks) BY <1>2, EnoughParts
<1>5. \A S : IsFiniteSet({i \in DOMAIN todo : todo[i].op \in S})
  <2>1. IsFiniteSet(1 .. Len(todo)) BY <1>4, FS_Interval
  <2>2. \A S : {i \in DOMAIN todo : todo[i].op \in S} \subseteq 1 .. Len(todo) BY <1>4
  <2> QED BY <2>1, <2>2, FS_Subset
<1>6. ~Has(todo, "formatChanged")
  <2>1. {i \in DOMAIN todo : todo[i].op \in {"formatChanged", "tryChange"}} = {}
    BY <1>1, <1>5, FS_EmptySet DEF PostedOf
  <2> QED BY <2>1 DEF Has
<1>7. Rounds
  <2>1. b.decoder = "running" BY <1>1, <1>2, <1>6, EnoughParts DEF Awaiting
  <2> QED BY <1>1, <1>3, <2>1 DEF Rounds, Again
<1>8. Near + Coming >= format.min /\ runLoop /\ allocLoop
  BY <1>2, <1>7, EnoughParts DEF Balanced
<1>9. /\ Cardinality(b.held) \in Nat /\ Count(todo, Useful) \in Nat /\ Cardinality(fetch) \in Nat
      /\ tasks \in Nat /\ waiting \in Nat /\ format.min \in Nat
  <2>1. HeldBy(b) BY <1>2, EnoughParts DEF Tracked, HeldOn
  <2>2. fetch \subseteq {format.size} BY <1>1, <1>2, EnoughParts DEF Awaiting
  <2>3. /\ Cardinality(b.held) \in Nat /\ Count(todo, Useful) \in Nat /\ Cardinality(fetch) \in {0, 1}
    BY <2>1, <2>2, NearComing DEF HeldInv
  <2>4. tasks \in Nat /\ waiting \in Nat /\ format.min \in Nat
    BY DEF HeldInv, TypeInv, TypesOK, Formats
  <2> QED BY <2>3, <2>4
<1>10. PostedOf({"output", "returned", "new"}) >= Count(todo, Useful) /\ PostedOf({"output", "returned", "new"}) \in Nat
  <2> DEFINE G == {i \in DOMAIN todo : todo[i] \in Useful}
             P == {i \in DOMAIN todo : todo[i].op \in {"output", "returned", "new"}}
  <2>1. G \subseteq P BY UsefulOps
  <2>2. IsFiniteSet(P) BY <1>5
  <2>3. Cardinality(G) <= Cardinality(P) /\ Cardinality(P) \in Nat BY <2>1, <2>2, FS_Subset, FS_CardinalityType
  <2>4. Count(todo, Useful) = Cardinality(G) /\ PostedOf({"output", "returned", "new"}) = Cardinality(P)
    BY DEF Count, PostedOf
  <2> HIDE DEF G, P
  <2> QED BY <2>3, <2>4, <1>9
<1>11. \A h, n, p, t, w, f, m \in Nat : p >= n /\ (h + n) + (t + w + f) >= m => h + p + t + w + f >= m
  OBVIOUS
<1>12. Cardinality(b.held) + PostedOf({"output", "returned", "new"}) + tasks + waiting + Cardinality(fetch) >= format.min
  <2> DEFINE h == Cardinality(b.held)
             p == PostedOf({"output", "returned", "new"})
             n == Count(todo, Useful)
             f == Cardinality(fetch)
             m == format.min
  <2>1. (h + n) + (tasks + waiting + f) >= m BY <1>8 DEF Near, Coming
  <2>2. p >= n /\ h \in Nat /\ n \in Nat /\ p \in Nat /\ f \in Nat /\ m \in Nat /\ tasks \in Nat /\ waiting \in Nat
    BY <1>9, <1>10
  <2> HIDE DEF h, p, n, f, m
  <2>3. h + p + tasks + waiting + f >= m BY <1>11, <2>1, <2>2
  <2> QED BY <2>3 DEF h, p, f, m
<1> QED BY <1>8, <1>12

\* The client stays orderly: the steps of OrderlySpec are those after which it is.
LEMMA OrderlyKept ==
  OrderlyClient /\ [Next /\ OrderlyClient']_vars => OrderlyClient'
<1> SUFFICES ASSUME OrderlyClient, UNCHANGED vars PROVE OrderlyClient'
  OBVIOUS
<1>1. UNCHANGED <<works, state, b, haveDrain, reuse>> BY DEF vars, compVars
<1> QED BY <1>1 DEF OrderlyClient

\* With an orderly client (OrderlyClient: among others it queues nothing between a drain without EOS
\* and a flush), the decoder has a block, or one on its way, or a task to fetch one, for each it
\* asked for (postDelayedAllocTask, onOutputBufferDone, reStartAllocTask): it never runs out of
\* blocks for good, whatever the numbers of works, drains, flushes and formats.
THEOREM BlocksNeverRunOut == OrderlySpec => []EnoughBlocks
<1>1. Init => OrderlyClient /\ Unfed
  <2> SUFFICES ASSUME Init PROVE OrderlyClient /\ Unfed
    OBVIOUS
  <2>1. works = <<>> /\ state = "STARTED" /\ ~haveDrain /\ ~reuse BY DEF Init
  <2> QED BY <2>1 DEF OrderlyClient, Unfed
<1>2. [Next /\ OrderlyClient']_vars => [Next]_vars
  OBVIOUS
<1>3. OrderlySpec => Spec /\ []OrderlyClient
  BY <1>1, <1>2, OrderlyKept, PTL DEF OrderlySpec, Spec
<1>4. HeldInv => TypeInv
  BY DEF HeldInv
<1>5. TypeInv /\ OrderlyClient /\ Unfed /\ [Next]_vars => Unfed'
  BY UnfedStep
<1>6. Spec /\ []OrderlyClient => []Unfed
  BY <1>1, <1>4, <1>5, HeldInvariant, PTL DEF Spec
<1>7. HeldInv /\ HeldInv' /\ OrderlyClient /\ OrderlyClient' /\ EnoughInv /\ [Next]_vars => EnoughInv'
  BY EnoughStep
<1>8. Spec /\ []OrderlyClient => []EnoughInv
  BY <1>7, EnoughInit, HeldInvariant, PTL DEF Spec
<1>9. HeldInv /\ EnoughInv /\ OrderlyClient /\ Unfed => EnoughBlocks
  BY EnoughGives
<1> QED BY <1>3, <1>6, <1>8, <1>9, HeldInvariant, PTL
=============================================================================
