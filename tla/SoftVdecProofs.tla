--------------------------- MODULE SoftVdecProofs ---------------------------
(***************************************************************************)
(* Proofs about SoftVdecComponent, for every set of client threads and     *)
(* number of entries: type correctness, the accounting of works, its       *)
(* contract and what flush_sm returns with.                                *)
(***************************************************************************)
EXTENDS SoftVdecComponent, WorkDequeProofs, SequenceTheorems

-----------------------------------------------------------------------------
(* Type correctness.                                                        *)

Outcomes == {"none", "ok", "notFound", "flushed", "lost"}

\* Posting keeps the messages well formed.
LEMMA PostType ==
  ASSUME TypeOK, NEW m \in Messages, messages' = Append(messages, m)
  PROVE  messages' \in Seq(Messages)
BY AppendProperties DEF TypeOK

\* So does taking the first one, which is a message.
LEMMA HeadType ==
  ASSUME TypeOK, messages # <<>>
  PROVE  Head(messages) \in Messages /\ Tail(messages) \in Seq(Messages)
BY HeadTailProperties DEF TypeOK

\* A thread that moves stays at a known place.
LEMMA GoToType ==
  ASSUME TypeOK, NEW c, NEW place \in Places, GoTo(c, place)
  PROVE  pc' \in [Callers -> Places]
BY DEF GoTo, TypeOK

\* Giving entries back yields a well-formed table of answers.
LEMMA AnswerType ==
  ASSUME TypeOK, NEW S, NEW how \in Outcomes
  PROVE  Answer(S, how) \in [Entries -> Outcomes]
BY DEF Answer, TypeOK, Outcomes

\* What the codec keeps stays well formed.
LEMMA CodecType ==
  ASSUME TypeOK
  PROVE  /\ NewCodec \in Codecs /\ StoppedCodec \in Codecs
         /\ codec.indexes \in Seq(Entries) /\ codec.first \in BOOLEAN
         /\ \A s \in Seq(Entries) : [codec EXCEPT !.indexes = s] \in Codecs
         /\ \A s \in Seq(Entries) : [codec EXCEPT !.indexes = s, !.first = TRUE] \in Codecs
         /\ [codec EXCEPT !.error = TRUE] \in Codecs /\ [codec EXCEPT !.error = FALSE] \in Codecs
         /\ [codec EXCEPT !.eos = TRUE] \in Codecs /\ [codec EXCEPT !.first = TRUE] \in Codecs
         /\ \A b \in BOOLEAN : [codec EXCEPT !.eos = TRUE, !.first = b] \in Codecs
<1>1. codec \in Codecs
  BY DEF TypeOK
<1>2. codec.indexes \in Seq(Entries) /\ codec.first \in BOOLEAN
  BY <1>1 DEF Codecs
<1>3. NewCodec \in Codecs
  <2>1. <<>> \in Seq(Entries)
    BY EmptySeq
  <2> QED BY <2>1 DEF NewCodec, Codecs
<1>4. StoppedCodec \in Codecs
  BY <1>1 DEF Codecs, StoppedCodec
<1>5. \A s \in Seq(Entries) : [codec EXCEPT !.indexes = s] \in Codecs
  BY <1>1 DEF Codecs
<1>6. \A s \in Seq(Entries) : [codec EXCEPT !.indexes = s, !.first = TRUE] \in Codecs
  BY <1>1 DEF Codecs
<1>7. \A b \in BOOLEAN : [codec EXCEPT !.error = b] \in Codecs /\ [codec EXCEPT !.eos = b] \in Codecs
  BY <1>1 DEF Codecs
<1>8. [codec EXCEPT !.first = TRUE] \in Codecs
  BY <1>1 DEF Codecs
<1>9. \A b \in BOOLEAN : [codec EXCEPT !.eos = TRUE, !.first = b] \in Codecs
  BY <1>1 DEF Codecs
<1> QED BY <1>2, <1>3, <1>4, <1>5, <1>6, <1>7, <1>8, <1>9

\* The steps of the client threads keep the types.
LEMMA ClientsType ==
  ASSUME TypeOK, NEW c \in Callers, Calls(c) \/ Continues(c)
  PROVE  TypeOK'
<1> USE DEF clientVars, queueVars, handlerVars, entryVars
<1>1. ASSUME NEW place \in Places, Passes(c, place) PROVE TypeOK'
  <2>1. pc' \in [Callers -> Places]
    BY <1>1, GoToType DEF Passes
  <2> QED BY <1>1, <2>1 DEF Passes, TypeOK
<1>2. ASSUME NEW place \in Places, NEW what, NEW from, Message(what, from) \in Messages,
             Posts(c, what, from, place)
      PROVE  TypeOK'
  <2>1. pc' \in [Callers -> Places] /\ messages' \in Seq(Messages)
    BY <1>2, GoToType, PostType DEF Posts, Post
  <2> QED BY <1>2, <2>1 DEF Posts, TypeOK
<1>3. ASSUME NEW s \in {"UNINITIALIZED", "STOPPED", "RUNNING"}, NEW place \in Places,
             SetState(s), GoTo(c, place)
      PROVE  TypeOK'
  <2>1. pc' \in [Callers -> Places]
    BY <1>3, GoToType
  <2> QED BY <1>3, <2>1 DEF SetState, TypeOK
<1>4. \A what \in Awaited : Message(what, c) \in Messages
  BY DEF Message, Messages
<1>5. \A what \in {"start", "process"} : Message(what, NoCaller) \in Messages
  BY DEF Message, Messages
<1>6. CASE StartCheck(c) \/ QueueCheck(c) \/ FlushCheck(c) \/ ReleaseCall(c)
  <2>1. \E place \in Places : Passes(c, place)
    BY <1>6 DEF StartCheck, QueueCheck, FlushCheck, ReleaseCall, Places
  <2> QED BY <2>1, <1>1
<1>7. CASE StopCheck(c) \/ ResetCall(c) \/ StartReturn(c)
  <2>1. \E s \in {"UNINITIALIZED", "STOPPED", "RUNNING"}, place \in Places :
          SetState(s) /\ GoTo(c, place)
    BY <1>7 DEF StopCheck, ResetCall, StartReturn, Places
  <2> QED BY <2>1, <1>3
<1>8. CASE StartPost(c)
  BY <1>8, <1>2, <1>4, <1>5 DEF StartPost, Awaited, Places
<1>9. CASE QueuePost(c)
  BY <1>9, <1>2, <1>5 DEF QueuePost, Places
<1>10. CASE ClearPost(c)
  BY <1>10, <1>2, <1>4 DEF ClearPost, Awaited, Places
<1>11. CASE FlushTake(c)
  <2>1. answer' \in [Entries -> Outcomes]
    BY <1>11, AnswerType DEF FlushTake, Outcomes
  <2>2. pc' \in [Callers -> Places] /\ before' \in [Callers -> 0 .. MaxEntries]
    BY <1>11, GoToType DEF FlushTake, Places, TypeOK
  <2> QED BY <1>11, <2>1, <2>2 DEF FlushTake, TypeOK, Outcomes
<1>12. CASE FlushReturn(c)
  <2>1. pc' \in [Callers -> Places] /\ before' \in [Callers -> 0 .. MaxEntries]
    BY <1>12, GoToType, BoundsAssumption DEF FlushReturn, Places, TypeOK
  <2> QED BY <1>12, <2>1 DEF FlushReturn, TypeOK
<1>13. CASE Clear(c)
  <2>1. answer' \in [Entries -> Outcomes]
    BY <1>13, AnswerType DEF Clear, Outcomes
  <2>2. pc' \in [Callers -> Places]
    BY <1>13, GoToType DEF Clear, Places
  <2> QED BY <1>13, <2>1, <2>2 DEF Clear, ClearQueue, TypeOK, Outcomes
<1>14. ASSUME NEW k \in Kinds, QueuePush(c, k) PROVE TypeOK'
  <2>1. next + 1 \in Entries /\ next' \in 0 .. MaxEntries
    BY <1>14, BoundsAssumption DEF QueuePush, TypeOK, Entries
  <2>2. kind' \in [Entries -> AllKinds] /\ queue' \in SUBSET Entries
    BY <1>14, <2>1, KindsAssumption DEF QueuePush, TypeOK
  <2>3. pc' \in [Callers -> Places]
    BY <1>14, GoToType DEF QueuePush, Places
  <2> QED BY <1>14, <2>1, <2>2, <2>3 DEF QueuePush, TypeOK
<1> QED BY <1>6, <1>7, <1>8, <1>9, <1>10, <1>11, <1>12, <1>13, <1>14 DEF Calls, Continues

\* The entry processQueue takes is one of those queued.
LEMMA TakesQueued ==
  ASSUME TypeOK, queue # {}
  PROVE  Front(queue) \in queue /\ Front(queue) \in Entries
<1>1. queue \in SUBSET Nat
  BY BoundsAssumption DEF TypeOK, Entries
<1> QED BY <1>1, FrontProperty DEF TypeOK

\* The steps of process() keep the types.
LEMMA ProcessType ==
  ASSUME TypeOK, Process, current \in Entries
  PROVE  TypeOK'
<1> USE DEF clientVars, queueVars, handlerVars, entryVars
<1>1. ASSUME NEW done \in BOOLEAN, NEW newCodec \in Codecs, Processed(done, newCodec),
             answer' = answer, left' \in Nat
      PROVE  TypeOK'
  BY <1>1 DEF Processed, CodecStep, TypeOK
<1>2. left \in Nat /\ (left > 0 => left - 1 \in Nat) /\ codec \in Codecs
  BY DEF TypeOK
<1>3. ASSUME NEW w, Finish(w)
      PROVE  pending' \in SUBSET Entries /\ answer' \in [Entries -> Outcomes]
  BY <1>3, AnswerType DEF Finish, TypeOK, Outcomes
<1>4. codec.indexes # <<>> => Tail(codec.indexes) \in Seq(Entries)
  BY CodecType, HeadTailProperties
<1>5. \A s \in Seq(Entries) : Append(s, current) \in Seq(Entries)
  BY AppendProperties
<1>6. CASE ProcessRefused \/ ProcessCsd
  BY <1>1, <1>2, <1>6 DEF ProcessRefused, ProcessCsd
<1>7. CASE MapFails \/ DecoderFails
  BY <1>1, <1>2, <1>7, CodecType DEF MapFails, DecoderFails
<1>8. CASE PictureForEarlier
  <2>1. codec' \in Codecs
    BY <1>4, <1>5, <1>8, CodecType DEF PictureForEarlier
  <2> QED BY <1>3, <1>8, <2>1 DEF PictureForEarlier, TypeOK, Outcomes
<1>9. CASE PictureForCurrent
  BY <1>1, <1>2, <1>9, CodecType DEF PictureForCurrent
<1>10. CASE NoPicture
  <2>1. [codec EXCEPT !.indexes = Append(codec.indexes, current)] \in Codecs
    BY <1>5, CodecType
  <2> QED BY <1>1, <1>2, <1>10, <2>1 DEF NoPicture
<1>11. CASE EosBegins
  BY <1>11 DEF EosBegins, CodecStep, TypeOK
<1>12. CASE EosPicture
  <2>1. codec' \in Codecs
    BY <1>4, <1>12, CodecType DEF EosPicture
  <2> QED BY <1>3, <1>12, <2>1 DEF EosPicture, TypeOK, Outcomes
<1>13. CASE EosEnds
  BY <1>1, <1>2, <1>13, CodecType DEF EosEnds
<1>14. CASE EosAlone
  <2>1. PICK picture \in BOOLEAN :
          Processed(TRUE, [codec EXCEPT !.eos = TRUE, !.first = codec.first \/ picture])
    BY <1>14 DEF EosAlone
  <2>2. codec.first \/ picture \in BOOLEAN
    OBVIOUS
  <2>3. [codec EXCEPT !.eos = TRUE, !.first = codec.first \/ picture] \in Codecs
    BY <2>2, CodecType
  <2> QED BY <1>1, <1>2, <1>14, <2>1, <2>3 DEF EosAlone
<1> QED BY <1>6, <1>7, <1>8, <1>9, <1>10, <1>11, <1>12, <1>13, <1>14 DEF Process

\* The steps of the handler thread keep the types.
LEMMA HandlerType ==
  ASSUME TypeOK, HandleMessage, Processing => current \in Entries
  PROVE  TypeOK'
<1> USE DEF clientVars, queueVars, handlerVars, entryVars
<1>1. left \in Nat /\ (left > 0 => left - 1 \in Nat) /\ codec \in Codecs
  BY DEF TypeOK
<1>2. ASSUME messages # <<>>, HandlerStep, pc' \in [Callers -> Places], codec' \in Codecs,
             running' \in BOOLEAN, left' \in Nat
      PROVE  TypeOK'
  <2>1. messages' \in Seq(Messages)
    BY <1>2, HeadType DEF HandlerStep, Dispatched
  <2> QED BY <1>2, <2>1 DEF HandlerStep, TypeOK
<1>3. \A place \in Places : Reply(place) => pc' \in [Callers -> Places]
  BY GoToType DEF Reply
<1>4. CASE OnInit
  BY <1>1, <1>2, <1>3, <1>4, CodecType DEF OnInit, Handles, Places
<1>5. CASE OnStart \/ ProcessNothing
  BY <1>1, <1>2, <1>5 DEF OnStart, ProcessNothing, Handles, TypeOK
<1>6. CASE OnStop \/ OnReset \/ OnRelease
  BY <1>1, <1>2, <1>3, <1>6, CodecType DEF OnStop, OnReset, OnRelease, Handles, Places, TypeOK
<1>7. CASE Take
  <2>1. messages' \in Seq(Messages)
    BY <1>7, HeadType DEF Take, Handles, Dispatched
  <2>2. current' \in Entries /\ codec' \in Codecs /\ more' \in BOOLEAN
    BY <1>1, <1>7, TakesQueued, CodecType DEF Take, FlushedCodec
  <2> QED BY <1>7, <2>1, <2>2 DEF Take, TypeOK
<1>8. CASE NoPool \/ Drain
  <2>1. answer' \in [Entries -> Outcomes]
    BY <1>8, AnswerType DEF NoPool, Drain, Outcomes
  <2> QED BY <1>1, <1>8, <2>1 DEF NoPool, Drain, CodecStep, TypeOK, Outcomes
<1>9. CASE Process
  <2>1. Processing
    BY <1>9 DEF Process, Processing, ProcessRefused, ProcessCsd, MapFails, DecoderFails, Looping,
                PictureForEarlier, PictureForCurrent, NoPicture, EosBegins, EosPicture, EosEnds,
                EosAlone, Decoding, Processes
  <2> QED BY <1>9, <2>1, ProcessType
<1>10. CASE Dispose
  <2>1. answer' \in [Entries -> Outcomes]
    BY <1>10, AnswerType DEF Dispose, Outcomes, TypeOK
  <2>2. pending' \in SUBSET Entries
    BY <1>10 DEF Dispose, Processing, TypeOK
  <2> QED BY <1>10, <2>1, <2>2 DEF Dispose, TypeOK, Outcomes
<1>11. CASE GoOn
  <2>1. messages' \in Seq(Messages)
    <3>1. Message("process", NoCaller) \in Messages
      BY DEF Message, Messages
    <3> QED BY <1>11, <3>1, PostType DEF GoOn, Post, TypeOK
  <2> QED BY <1>11, <2>1 DEF GoOn, TypeOK
<1> QED BY <1>4, <1>5, <1>6, <1>7, <1>8, <1>9, <1>10, <1>11 DEF HandleMessage

-----------------------------------------------------------------------------
(* The strengthened invariant.                                              *)

\* processQueue works on an entry.
HandsFull == Processing => current \in Entries

\* An entry that was not pushed was not given back.
NotYet == \A w \in Entries : w > next => answer[w] = "none"

\* What a thread in flush_sm has not seen given back is the entry processQueue works
\* on, and processQueue will find the generation changed.
AwaitedFlush ==
  \A c \in Callers : pc[c] = "flushWait" =>
    \A w \in 1 .. before[c] : answer[w] # "none" \/ (Processing /\ current = w /\ outdated)

AccountInv == HandsFull /\ WorkAccounting /\ NotYet /\ AwaitedFlush
Held == queue \cup InHand \cup pending

\* No other thread begins to wait in flush_sm.
NoNewFlush ==
  \A c \in Callers : pc'[c] = "flushWait" => pc[c] = "flushWait" /\ before'[c] = before[c]

\* Only entries held are given back.
GivesBack ==
  /\ next' = next
  /\ \A w \in Entries : answer'[w] # answer[w] => w \in Held /\ answer'[w] # "none"

\* A thread that goes elsewhere than to wait in flush_sm, in a step that leaves
\* before alone, begins no wait.
LEMMA GoesElsewhere ==
  ASSUME TypeOK, NEW c, NEW place, place # "flushWait", GoTo(c, place), before' = before
  PROVE  NoNewFlush
BY DEF GoTo, NoNewFlush, TypeOK

\* A step that leaves the works where they are keeps the invariant.
LEMMA Undisturbed ==
  ASSUME TypeOK, AccountInv, UNCHANGED <<queue, pending, answer, next, outdated>>,
         Processing' <=> Processing, Processing => current' = current, NoNewFlush
  PROVE  AccountInv' /\ GivesBack
<1>1. InHand' = InHand
  BY DEF InHand
<1>2. HandsFull' /\ WorkAccounting' /\ NotYet'
  BY <1>1 DEF AccountInv, HandsFull, WorkAccounting, NotYet
<1>3. AwaitedFlush'
  <2>1. SUFFICES ASSUME NEW c \in Callers, pc'[c] = "flushWait", NEW w \in 1 .. before'[c]
                 PROVE  answer[w] # "none" \/ (Processing /\ current' = w /\ outdated)
    BY DEF AwaitedFlush
  <2> QED BY <2>1 DEF AccountInv, AwaitedFlush, NoNewFlush
<1> QED BY <1>2, <1>3 DEF AccountInv, GivesBack

\* What is held is pushed and not given back.
LEMMA HeldProperty ==
  ASSUME TypeOK, AccountInv
  PROVE  /\ Held \subseteq Entries
         /\ \A w \in Entries : w \in Held <=> w \in 1 .. next /\ answer[w] = "none"
BY DEF AccountInv, HandsFull, WorkAccounting, Held, InHand, TypeOK

\* A step that gives back all and only the entries that leave Held, with no new
\* entry, keeps the invariant, given that it keeps queued, taken and pending apart.
LEMMA AnswersWhatLeaves ==
  ASSUME TypeOK, AccountInv, NEW S \in SUBSET Held, NEW how \in Outcomes \ {"none"},
         answer' = Answer(S, how), next' = next, Held' = Held \ S, HandsFull',
         queue' \cap InHand' = {}, (queue' \cup InHand') \cap pending' = {}
  PROVE  HandsFull' /\ WorkAccounting' /\ NotYet' /\ GivesBack
<1>1. \A w \in Entries : answer'[w] = IF w \in S THEN how ELSE answer[w]
  BY DEF Answer
<1>2. \A w \in Entries : w \in Held' <=> w \in 1 .. next' /\ answer'[w] = "none"
  BY <1>1, HeldProperty
<1>3. WorkAccounting'
  BY <1>2 DEF WorkAccounting, Held
<1>4. NotYet'
  BY <1>1, HeldProperty DEF NotYet, AccountInv, Entries, TypeOK
<1> QED BY <1>1, <1>3, <1>4 DEF GivesBack

\* Outside flush_sm and its wait, a step in which every entry given back stays so, and
\* an outdated entry stays in hand or is given back, lets no flush miss an entry.
LEMMA FlushGoesOn ==
  ASSUME TypeOK, AccountInv, GivesBack, NoNewFlush,
         Processing /\ outdated /\ answer'[current] = "none" =>
           Processing' /\ current' = current /\ outdated'
  PROVE  AwaitedFlush'
<1>1. SUFFICES ASSUME NEW c \in Callers, pc'[c] = "flushWait", NEW w \in 1 .. before'[c]
               PROVE  answer'[w] # "none" \/ (Processing' /\ current' = w /\ outdated')
  BY DEF AwaitedFlush
<1>2. w \in Entries /\ before'[c] = before[c] /\ pc[c] = "flushWait"
  BY <1>1, BoundsAssumption DEF NoNewFlush, TypeOK, Entries
<1>3. answer[w] # "none" \/ (Processing /\ current = w /\ outdated)
  BY <1>1, <1>2 DEF AccountInv, AwaitedFlush
<1> QED BY <1>2, <1>3 DEF GivesBack

-----------------------------------------------------------------------------
(* The invariant is inductive.                                              *)

\* A push adds an entry, not given back; it gives nothing back.
LEMMA PushAccounted ==
  ASSUME TypeOK, AccountInv, NEW c \in Callers, NEW k \in Kinds, QueuePush(c, k)
  PROVE  AccountInv' /\ next' = next + 1 /\ next < MaxEntries /\ answer' = answer
<1> USE DEF QueuePush, handlerVars
<1>1. InHand' = InHand /\ (Processing' <=> Processing)
  BY DEF InHand, Processing
<1>2. next \in 0 .. MaxEntries /\ MaxEntries \in Nat /\ next + 1 \in Entries
  BY BoundsAssumption DEF TypeOK, Entries
<1>3. answer[next + 1] = "none" /\ next + 1 \notin Held
  BY <1>2, HeldProperty DEF AccountInv, NotYet
<1>4. WorkAccounting'
  <2>1. queue' = queue \cup {next + 1} /\ pending' = pending
    OBVIOUS
  <2>2. \A w \in Entries : w \in 1 .. next' <=> w \in 1 .. next \/ w = next + 1
    BY <1>2 DEF Entries
  <2> QED BY <1>1, <1>3, <2>1, <2>2 DEF AccountInv, WorkAccounting, Held
<1>5. NotYet'
  BY <1>2 DEF AccountInv, NotYet, Entries
<1>6. HandsFull'
  BY <1>1 DEF AccountInv, HandsFull
<1>7. NoNewFlush
  BY GoesElsewhere
<1>8. AwaitedFlush'
  BY <1>1, <1>7 DEF AccountInv, AwaitedFlush, NoNewFlush
<1> QED BY <1>2, <1>4, <1>5, <1>6, <1>8 DEF AccountInv

\* flush_sm gives back what is queued and pending; what is in hand is outdated.
LEMMA FlushAccounted ==
  ASSUME TypeOK, AccountInv, NEW c \in Callers, FlushTake(c)
  PROVE  AccountInv' /\ GivesBack
<1> USE DEF FlushTake, handlerVars
<1>1. InHand' = InHand /\ (Processing' <=> Processing) /\ current' = current
  BY DEF InHand, Processing
<1>2. HandsFull'
  BY <1>1 DEF AccountInv, HandsFull
<1>3. Held' = Held \ Flushed /\ Flushed \in SUBSET Held
  BY <1>1 DEF Held, Flushed, AccountInv, WorkAccounting
<1>4. WorkAccounting' /\ NotYet' /\ GivesBack
  BY <1>1, <1>2, <1>3, AnswersWhatLeaves DEF entryVars, Outcomes
<1>5. AwaitedFlush'
  <2>1. SUFFICES ASSUME NEW d \in Callers, pc'[d] = "flushWait", NEW w \in 1 .. before'[d],
                        answer'[w] = "none"
                 PROVE  Processing' /\ current' = w /\ outdated'
    BY DEF AwaitedFlush
  <2>2. CASE d = c
    <3>1. before'[d] = next /\ w \in Entries
      BY <2>2, BoundsAssumption DEF TypeOK, Entries
    <3>2. w \in Held'
      BY <2>1, <3>1, <1>4 DEF WorkAccounting, Held, entryVars
    <3> QED BY <1>1, <3>2 DEF Held, InHand
  <2>3. CASE d # c
    <3>1. pc[d] = "flushWait" /\ before'[d] = before[d] /\ w \in Entries
      BY <2>1, <2>3, BoundsAssumption DEF GoTo, TypeOK, Entries
    <3>2. answer[w] = "none"
      BY <2>1, <3>1, <1>4 DEF GivesBack
    <3> QED BY <1>1, <2>1, <3>1, <3>2 DEF AccountInv, AwaitedFlush
  <2> QED BY <2>2, <2>3
<1> QED BY <1>2, <1>4, <1>5 DEF AccountInv

\* stop and reset destroy what is queued and pending.
LEMMA ClearAccounted ==
  ASSUME TypeOK, AccountInv, NEW c \in Callers, Clear(c)
  PROVE  AccountInv' /\ GivesBack
<1> USE DEF Clear, ClearQueue, handlerVars
<1>1. InHand' = InHand /\ (Processing' <=> Processing) /\ current' = current
  BY DEF InHand, Processing
<1>2. HandsFull'
  BY <1>1 DEF AccountInv, HandsFull
<1>3. /\ Held' = Held \ (queue \cup pending) /\ queue \cup pending \in SUBSET Held
      /\ answer' = Answer(queue \cup pending, "lost")
  BY <1>1 DEF Held, AccountInv, WorkAccounting
<1>4. WorkAccounting' /\ NotYet' /\ GivesBack
  BY <1>1, <1>2, <1>3, AnswersWhatLeaves DEF entryVars, Outcomes
<1>5. NoNewFlush
  BY GoesElsewhere
<1>6. AwaitedFlush'
  BY <1>1, <1>4, <1>5, FlushGoesOn
<1> QED BY <1>2, <1>4, <1>6 DEF AccountInv

\* The end of flush_sm.
LEMMA FlushReturnAccounted ==
  ASSUME TypeOK, AccountInv, NEW c \in Callers, FlushReturn(c)
  PROVE  AccountInv' /\ GivesBack
<1>1. NoNewFlush
  BY DEF FlushReturn, GoTo, NoNewFlush, TypeOK
<1>2. UNCHANGED <<queue, pending, answer, next, outdated, current, handler>>
  BY DEF FlushReturn, queueVars, handlerVars, entryVars
<1> QED BY <1>1, <1>2, Undisturbed DEF Processing

\* The other steps of the calls.
LEMMA ClientsAccounted ==
  ASSUME TypeOK, AccountInv, NEW c \in Callers, Calls(c) \/ Continues(c),
         ~(\E k \in Kinds : QueuePush(c, k))
  PROVE  AccountInv' /\ GivesBack
<1>1. ASSUME NEW place, place # "flushWait", GoTo(c, place),
             UNCHANGED <<queue, pending, answer, next, outdated, current, handler, before>>
      PROVE  AccountInv' /\ GivesBack
  BY <1>1, GoesElsewhere, Undisturbed DEF Processing
<1> USE DEF queueVars, handlerVars, entryVars
<1>2. CASE StartCheck(c) \/ QueueCheck(c) \/ FlushCheck(c) \/ ReleaseCall(c)
  BY <1>1, <1>2 DEF StartCheck, QueueCheck, FlushCheck, ReleaseCall, Passes
<1>3. CASE StopCheck(c) \/ ResetCall(c) \/ StartReturn(c)
  BY <1>1, <1>3 DEF StopCheck, ResetCall, StartReturn, SetState
<1>4. CASE StartPost(c) \/ QueuePost(c) \/ ClearPost(c)
  BY <1>1, <1>4 DEF StartPost, QueuePost, ClearPost, Posts
<1> QED BY <1>2, <1>3, <1>4, FlushAccounted, ClearAccounted, FlushReturnAccounted
        DEF Calls, Continues

\* processQueue takes an entry.
LEMMA TakeAccounted ==
  ASSUME TypeOK, AccountInv, Take
  PROVE  AccountInv' /\ GivesBack
<1> DEFINE w == Front(queue)
<1>1. w \in queue /\ w \in Entries
  BY TakesQueued DEF Take
<1>2. ~Processing /\ InHand = {} /\ Processing' /\ InHand' = {w} /\ current' = w
  BY DEF Take, Handles, Processing, InHand
<1>3. queue' = queue \ {w} /\ UNCHANGED <<pending, answer, next, before, pc>>
  BY DEF Take, clientVars, entryVars
<1> HIDE DEF w
<1>4. HandsFull' /\ NotYet' /\ GivesBack
  BY <1>1, <1>2, <1>3 DEF AccountInv, HandsFull, NotYet, GivesBack
<1>5. WorkAccounting'
  BY <1>1, <1>2, <1>3 DEF AccountInv, WorkAccounting
<1>6. AwaitedFlush'
  BY <1>2, <1>3 DEF AccountInv, AwaitedFlush
<1> QED BY <1>4, <1>5, <1>6 DEF AccountInv

\* processQueue gives its entry back, or keeps it pending.
LEMMA GiveBackAccounted ==
  ASSUME TypeOK, AccountInv, NoPool \/ Drain \/ Dispose
  PROVE  AccountInv' /\ GivesBack
<1>1. Processing /\ InHand = {current} /\ current \in Entries
  BY DEF NoPool, Drain, Dispose, Processing, InHand, AccountInv, HandsFull
<1>2. ~Processing' /\ InHand' = {} /\ HandsFull'
  BY DEF NoPool, Drain, Dispose, Processing, InHand, HandsFull
<1>3. UNCHANGED <<queue, next, pc, before, outdated, current>>
  BY DEF NoPool, Drain, Dispose, CodecStep, clientVars, queueVars, entryVars
<1>4. NoNewFlush
  BY <1>3 DEF NoNewFlush
<1>5. ASSUME NEW how \in Outcomes \ {"none"}, answer' = Answer({current}, how), pending' = pending
      PROVE  AccountInv' /\ GivesBack
  <2>1. Held' = Held \ {current} /\ {current} \in SUBSET Held
    BY <1>1, <1>2, <1>3, <1>5 DEF Held, AccountInv, WorkAccounting
  <2>2. WorkAccounting' /\ NotYet' /\ GivesBack
    BY <1>2, <1>3, <1>5, <2>1, AnswersWhatLeaves DEF AccountInv, WorkAccounting
  <2>3. answer'[current] # "none"
    BY <1>1, <1>5 DEF Answer
  <2> QED BY <1>2, <1>4, <2>2, <2>3, FlushGoesOn DEF AccountInv
<1>6. CASE NoPool \/ Drain
  BY <1>5, <1>6 DEF NoPool, Drain, CodecStep, queueVars, Outcomes
<1>7. CASE Dispose /\ pending' = pending
  <2>1. \E how \in {"notFound", "ok"} : answer' = Answer({current}, how)
    <3>1. current \notin pending
      BY <1>1 DEF AccountInv, WorkAccounting
    <3> QED BY <1>7, <3>1 DEF Dispose
  <2> QED BY <1>5, <1>7, <2>1 DEF Outcomes
<1>8. CASE Dispose /\ ~outdated /\ pending' = pending \cup {current} /\ answer' = answer
  <2>1. WorkAccounting'
    BY <1>1, <1>2, <1>3, <1>8 DEF AccountInv, WorkAccounting
  <2>2. NotYet' /\ GivesBack
    BY <1>3, <1>8 DEF AccountInv, NotYet, GivesBack
  <2> QED BY <1>2, <1>4, <1>8, <2>1, <2>2, FlushGoesOn DEF AccountInv
<1> QED BY <1>6, <1>7, <1>8 DEF Dispose

\* process() answers at most the pending works whose pictures come out.
LEMMA ProcessAccounted ==
  ASSUME TypeOK, AccountInv, Process
  PROVE  AccountInv' /\ GivesBack
<1> USE DEF queueVars, entryVars, clientVars
<1>1. Processing /\ InHand = {current} /\ Processing'
  BY DEF Process, Processing, InHand, ProcessRefused, ProcessCsd, MapFails, DecoderFails, Looping,
         PictureForEarlier, PictureForCurrent, NoPicture, EosBegins, EosPicture, EosEnds, EosAlone,
         Decoding, Processes, Processed
<1>2. UNCHANGED <<queue, next, before, outdated, current, pc>>
  BY DEF Process, ProcessRefused, ProcessCsd, MapFails, DecoderFails, PictureForEarlier,
         PictureForCurrent, NoPicture, EosBegins, EosPicture, EosEnds, EosAlone, Processed, CodecStep
<1>3. NoNewFlush
  BY <1>2 DEF NoNewFlush
<1>4. CASE \E w : Finish(w)
  <2>1. PICK w : Finish(w)
    BY <1>4
  <2>2. InHand' = InHand /\ HandsFull'
    BY <1>1, <1>2 DEF InHand, HandsFull, AccountInv
  <2>3. CASE w \notin pending
    <3>1. pending' = pending /\ answer' = answer
      BY <2>1, <2>3 DEF Finish, TypeOK
    <3> QED BY <1>1, <1>2, <1>3, <3>1, Undisturbed
  <2>4. CASE w \in pending
    <3>1. pending' = pending \ {w} /\ answer' = Answer({w}, "ok")
      BY <2>1, <2>4 DEF Finish
    <3>2. Held' = Held \ {w} /\ {w} \in SUBSET Held
      BY <1>2, <2>2, <2>4, <3>1 DEF Held, AccountInv, WorkAccounting
    <3>3. WorkAccounting' /\ NotYet' /\ GivesBack
      BY <1>2, <2>2, <3>1, <3>2, AnswersWhatLeaves DEF AccountInv, WorkAccounting, Outcomes
    <3>4. AwaitedFlush'
      BY <1>1, <1>2, <1>3, <3>3, FlushGoesOn
    <3> QED BY <2>2, <3>3, <3>4 DEF AccountInv
  <2> QED BY <2>3, <2>4
<1>5. CASE UNCHANGED <<pending, answer>>
  BY <1>1, <1>2, <1>3, <1>5, Undisturbed
<1>6. (\E w : Finish(w)) \/ UNCHANGED <<pending, answer>>
  BY DEF Process, ProcessRefused, ProcessCsd, MapFails, DecoderFails, PictureForEarlier,
         PictureForCurrent, NoPicture, EosBegins, EosPicture, EosEnds, EosAlone, Processed, CodecStep
<1> QED BY <1>4, <1>5, <1>6

\* The steps of the handler thread.
LEMMA HandlerAccounted ==
  ASSUME TypeOK, AccountInv, HandleMessage
  PROVE  AccountInv' /\ GivesBack
<1> USE DEF queueVars, entryVars, clientVars
<1>1. ASSUME HandlerStep, NoNewFlush PROVE AccountInv' /\ GivesBack
  BY <1>1, Undisturbed DEF HandlerStep, Processing
<1>2. CASE OnInit \/ OnStop \/ OnReset \/ OnRelease
  <2>1. HandlerStep /\ \E place : place # "flushWait" /\ Reply(place)
    BY <1>2 DEF OnInit, OnStop, OnReset, OnRelease
  <2> QED BY <1>1, <2>1, GoesElsewhere DEF Reply, HandlerStep
<1>3. CASE OnStart \/ ProcessNothing
  <2>1. HandlerStep /\ NoNewFlush
    BY <1>3 DEF OnStart, ProcessNothing, HandlerStep, NoNewFlush
  <2> QED BY <1>1, <2>1
<1>4. CASE GoOn
  <2>1. ~Processing /\ ~Processing' /\ NoNewFlush
    BY <1>4 DEF GoOn, Processing, NoNewFlush
  <2> QED BY <1>4, <2>1, Undisturbed DEF GoOn
<1> QED BY <1>2, <1>3, <1>4, TakeAccounted, GiveBackAccounted, ProcessAccounted
        DEF HandleMessage

\* Every step keeps the types.
LEMMA TypeStep ==
  ASSUME TypeOK, AccountInv, [Next]_vars
  PROVE  TypeOK'
<1>1. CASE Done \/ UNCHANGED vars
  BY <1>1 DEF Done, TypeOK, vars, clientVars, queueVars, handlerVars, entryVars
<1>2. CASE HandleMessage
  BY <1>2, HandlerType DEF AccountInv, HandsFull
<1> QED BY <1>1, <1>2, ClientsType DEF Next

\* Every step keeps the accounting, and either pushes one entry or gives back some
\* that were held.
LEMMA AccountStep ==
  ASSUME TypeOK, AccountInv, [Next]_vars
  PROVE  /\ AccountInv'
         /\ GivesBack \/ (next' = next + 1 /\ next < MaxEntries /\ answer' = answer)
<1>1. CASE Done \/ UNCHANGED vars
  <2>1. UNCHANGED vars
    BY <1>1 DEF Done
  <2> QED BY <2>1, Undisturbed
          DEF vars, clientVars, queueVars, handlerVars, entryVars, Processing, NoNewFlush
<1>2. CASE HandleMessage
  BY <1>2, HandlerAccounted
<1>3. ASSUME NEW c \in Callers, Calls(c) \/ Continues(c)
      PROVE  /\ AccountInv'
             /\ GivesBack \/ (next' = next + 1 /\ next < MaxEntries /\ answer' = answer)
  BY <1>3, ClientsAccounted, PushAccounted
<1> QED BY <1>1, <1>2, <1>3 DEF Next

\* The component as it is created.
LEMMA InitInv == Init => TypeOK /\ AccountInv
<1> SUFFICES ASSUME Init PROVE TypeOK /\ AccountInv
  OBVIOUS
<1> USE DEF Init
<1>1. messages \in Seq(Messages)
  BY EmptySeq
<1>2. codec \in Codecs
  <2>1. <<>> \in Seq(Entries)
    BY EmptySeq
  <2> QED BY <2>1 DEF NewCodec, Codecs
<1>3. TypeOK
  <2>1. /\ pc \in [Callers -> Places] /\ kind \in [Entries -> AllKinds]
        /\ answer \in [Entries -> {"none", "ok", "notFound", "flushed", "lost"}]
    BY DEF Places, AllKinds
  <2>2. before \in [Callers -> 0 .. MaxEntries] /\ next \in 0 .. MaxEntries /\ left \in Nat
    BY BoundsAssumption
  <2> QED BY <1>1, <1>2, <2>1, <2>2 DEF TypeOK, NoEntry
<1>4. AccountInv
  BY DEF AccountInv, HandsFull, WorkAccounting, NotYet, AwaitedFlush, Processing, InHand
<1> QED BY <1>3, <1>4

-----------------------------------------------------------------------------
(* Replies.                                                                 *)

\* The thread a message names waits for its reply, and no other message names it:
\* no reply reaches a thread that has gone on to another call.
WaitPlaces == {"initWait", "stopWait", "resetWait", "relWait"}
RepliesAwaited ==
  /\ \A i \in 1 .. Len(messages) :
       messages[i].from \in Callers => pc[messages[i].from] \in WaitPlaces
  /\ \A i, j \in 1 .. Len(messages) :
       messages[i].from \in Callers /\ messages[i].from = messages[j].from => i = j

\* No thread that waits for a reply moves.
WaitersStay == \A c \in Callers : pc[c] \in WaitPlaces => pc'[c] = pc[c]

\* Steps that post nothing.
LEMMA RepliesKept ==
  ASSUME RepliesAwaited, WaitersStay, messages' = messages
  PROVE  RepliesAwaited'
BY DEF RepliesAwaited, WaitersStay

\* Steps that post a message nobody awaits.
LEMMA RepliesPosted ==
  ASSUME TypeOK, RepliesAwaited, WaitersStay, NEW what, Post(what, NoCaller),
         Message(what, NoCaller) \in Messages
  PROVE  RepliesAwaited'
<1> DEFINE m == Message(what, NoCaller)
<1>1. messages \in Seq(Messages) /\ m \in Messages /\ m.from \notin Callers
  BY CallersAssumption DEF TypeOK, Message
<1>2. messages' = Append(messages, m)
  BY DEF Post
<1> HIDE DEF m
<1>3. /\ Len(messages') = Len(messages) + 1 /\ Len(messages) \in Nat
      /\ \A i \in 1 .. Len(messages) : messages'[i] = messages[i]
      /\ messages'[Len(messages) + 1] = m
  BY <1>1, <1>2, AppendProperties, LenProperties
<1>4. \A i \in 1 .. Len(messages') : i \in 1 .. Len(messages) \/ i = Len(messages) + 1
  BY <1>3
<1> QED BY <1>1, <1>3, <1>4 DEF RepliesAwaited, WaitersStay

\* A thread posts a message and waits for the reply.
LEMMA RepliesAsked ==
  ASSUME TypeOK, RepliesAwaited, NEW c \in Callers, pc[c] \notin WaitPlaces,
         NEW what, Post(what, c), Message(what, c) \in Messages,
         NEW place \in WaitPlaces, GoTo(c, place)
  PROVE  RepliesAwaited'
<1> DEFINE m == Message(what, c)
<1>1. messages \in Seq(Messages) /\ m \in Messages /\ m.from = c
  BY DEF TypeOK, Message
<1>2. messages' = Append(messages, m)
  BY DEF Post
<1> HIDE DEF m
<1>3. /\ Len(messages') = Len(messages) + 1 /\ Len(messages) \in Nat
      /\ \A i \in 1 .. Len(messages) : messages'[i] = messages[i]
      /\ messages'[Len(messages) + 1] = m
  BY <1>1, <1>2, AppendProperties, LenProperties
<1>4. \A i \in 1 .. Len(messages') : i \in 1 .. Len(messages) \/ i = Len(messages) + 1
  BY <1>3
<1>5. pc'[c] \in WaitPlaces /\ \A d \in Callers : d # c => pc'[d] = pc[d]
  BY DEF GoTo, TypeOK
<1>6. \A i \in 1 .. Len(messages) : messages[i].from # c
  BY DEF RepliesAwaited
<1> QED BY <1>1, <1>3, <1>4, <1>5, <1>6 DEF RepliesAwaited

\* The handler takes a message; nobody moves but, if it replies, the thread the
\* message names.
LEMMA RepliesGiven ==
  ASSUME TypeOK, RepliesAwaited, messages # <<>>, Dispatched,
         pc' = pc \/ (Head(messages).from \in Callers /\ \E place : Reply(place))
  PROVE  RepliesAwaited'
<1>1. messages \in Seq(Messages)
  BY DEF TypeOK
<1>2. /\ Len(messages) \in Nat /\ Len(messages) > 0 /\ Head(messages) = messages[1]
      /\ Len(messages') = Len(messages) - 1
      /\ \A i \in 1 .. Len(messages') : messages'[i] = messages[i + 1]
  BY <1>1, HeadTailProperties, LenProperties, EmptySeq DEF Dispatched
<1>3. \A i \in 1 .. Len(messages') :
        /\ i + 1 \in 1 .. Len(messages) /\ 1 \in 1 .. Len(messages) /\ i + 1 # 1
        /\ messages'[i].from \in Callers => messages'[i].from # Head(messages).from
  BY <1>2 DEF RepliesAwaited
<1>4. \A c \in Callers : c # Head(messages).from => pc'[c] = pc[c]
  BY DEF Reply, GoTo, TypeOK
<1>5. \A i \in 1 .. Len(messages') :
        messages'[i].from \in Callers => pc'[messages'[i].from] \in WaitPlaces
  BY <1>2, <1>3, <1>4 DEF RepliesAwaited
<1>6. \A i, j \in 1 .. Len(messages') :
        messages'[i].from \in Callers /\ messages'[i].from = messages'[j].from => i = j
  <2>1. SUFFICES ASSUME NEW i \in 1 .. Len(messages'), NEW j \in 1 .. Len(messages'),
                        messages'[i].from \in Callers, messages'[i].from = messages'[j].from
                 PROVE  i = j
    OBVIOUS
  <2>2. i + 1 = j + 1
    BY <1>2, <1>3, <2>1 DEF RepliesAwaited
  <2> QED BY <2>2, <1>2
<1> QED BY <1>5, <1>6 DEF RepliesAwaited

\* A message the handler replies to names a client thread.
LEMMA ReplyToCaller ==
  ASSUME TypeOK, messages # <<>>, Head(messages).what \in Awaited
  PROVE  Head(messages).from \in Callers
BY HeadType DEF Messages, Awaited

\* Every step of the component keeps replies awaited.
LEMMA RepliesStep ==
  ASSUME TypeOK, RepliesAwaited, [Next]_vars
  PROVE  RepliesAwaited'
<1>1. ASSUME UNCHANGED pc PROVE WaitersStay
  BY <1>1 DEF WaitersStay
<1>2. ASSUME NEW c \in Callers, pc[c] \notin WaitPlaces, NEW place, GoTo(c, place)
      PROVE  WaitersStay
  BY <1>2 DEF WaitersStay, GoTo, TypeOK
<1> USE DEF clientVars
<1>3. CASE Done \/ UNCHANGED vars
  BY <1>1, <1>3, RepliesKept DEF Done, vars
<1>4. CASE OnInit \/ OnStop \/ OnReset \/ OnRelease
  <2>1. /\ messages # <<>> /\ Head(messages).what \in Awaited /\ Dispatched
        /\ \E place : Reply(place)
    BY <1>4 DEF OnInit, OnStop, OnReset, OnRelease, Handles, HandlerStep, Awaited
  <2> QED BY <2>1, ReplyToCaller, RepliesGiven
<1>5. CASE OnStart \/ ProcessNothing \/ Take
  BY <1>5, RepliesGiven DEF OnStart, ProcessNothing, Take, Handles, HandlerStep
<1>6. CASE NoPool \/ Drain \/ Process \/ Dispose
  <2>1. UNCHANGED <<pc, messages>>
    BY <1>6 DEF NoPool, Drain, Process, Dispose, ProcessRefused, ProcessCsd, MapFails, DecoderFails,
                PictureForEarlier, PictureForCurrent, NoPicture, EosBegins, EosPicture, EosEnds,
                EosAlone, Processed, CodecStep
  <2> QED BY <1>1, <2>1, RepliesKept
<1>7. CASE GoOn
  <2>1. WaitersStay /\ Message("process", NoCaller) \in Messages
    BY <1>1, <1>7 DEF GoOn, Message, Messages
  <2> QED BY <1>7, <2>1, RepliesKept, RepliesPosted DEF GoOn
<1>8. ASSUME NEW c \in Callers, Calls(c) \/ Continues(c) PROVE RepliesAwaited'
  <2>1. pc[c] \notin WaitPlaces
    BY <1>8 DEF Calls, Continues, StartCheck, QueueCheck, FlushCheck, StopCheck, ResetCall,
                ReleaseCall, MayCall, StartPost, StartReturn, QueuePost, FlushTake, FlushReturn,
                Clear, ClearPost, QueuePush, WaitPlaces
  <2>2. CASE UNCHANGED messages
    <3>1. \E place : GoTo(c, place)
      BY <1>8, <2>2 DEF Calls, Continues, StartCheck, QueueCheck, FlushCheck, StopCheck, ResetCall,
                ReleaseCall, StartPost, StartReturn, QueuePost, FlushTake, FlushReturn,
                Clear, ClearPost, QueuePush, Passes, Posts
    <3> QED BY <1>2, <2>1, <2>2, <3>1, RepliesKept
  <2>3. CASE \E what \in {"start", "process"}, place \in Places : Posts(c, what, NoCaller, place)
    <3>1. PICK what \in {"start", "process"}, place \in Places : Posts(c, what, NoCaller, place)
      BY <2>3
    <3>2. Message(what, NoCaller) \in Messages
      BY DEF Message, Messages
    <3> QED BY <1>2, <2>1, <3>1, <3>2, RepliesPosted DEF Posts
  <2>4. CASE \E what \in Awaited, place \in WaitPlaces : Posts(c, what, c, place)
    <3>1. PICK what \in Awaited, place \in WaitPlaces : Posts(c, what, c, place)
      BY <2>4
    <3>2. Message(what, c) \in Messages
      BY DEF Message, Messages
    <3> QED BY <2>1, <3>1, <3>2, RepliesAsked DEF Posts
  <2>5. CASE StartPost(c) \/ QueuePost(c) \/ ClearPost(c)
    BY <2>3, <2>4, <2>5 DEF StartPost, QueuePost, ClearPost, WaitPlaces, Awaited, Places
  <2>6. CASE ~(StartPost(c) \/ QueuePost(c) \/ ClearPost(c))
    <3>1. UNCHANGED messages
      BY <1>8, <2>6 DEF Calls, Continues, StartCheck, QueueCheck, FlushCheck, StopCheck, ResetCall,
                ReleaseCall, StartReturn, FlushTake, FlushReturn, Clear, QueuePush, Passes, SetState
    <3> QED BY <2>2, <3>1
  <2> QED BY <2>5, <2>6
<1> QED BY <1>3, <1>4, <1>5, <1>6, <1>7, <1>8 DEF Next, HandleMessage

-----------------------------------------------------------------------------
(* The theorems.                                                            *)

\* Every reachable state is well formed, and all entries are accounted for.
THEOREM Invariants == Spec => [](TypeOK /\ AccountInv)
BY InitInv, TypeStep, AccountStep, PTL DEF Spec

\* Every reachable state is well formed: among others, a message that is replied to
\* names the thread that waits for it.
THEOREM TypeCorrect == Spec => []TypeOK
BY Invariants, PTL

\* A work is in exactly one place until it is given back, and in none afterwards,
\* whatever client threads do while processQueue works on an entry.
THEOREM WorksAccounted == Spec => []WorkAccounting
<1>1. TypeOK /\ AccountInv => WorkAccounting
  BY DEF AccountInv
<1> QED BY <1>1, Invariants, PTL

\* The component keeps the contract of WorkContract: no work is given back twice, none
\* before it was accepted.
THEOREM ContractKept == Spec => GivenBackOnce
<1> USE DEF Contract!Works, Contract!vars, Entries
<1>1. Init => Contract!Init
  BY DEF Init, Contract!Init
<1>2. ASSUME TypeOK, AccountInv, TypeOK', [Next]_vars PROVE [Contract!Next]_(Contract!vars)
  <2>1. CASE next' = next + 1 /\ next < MaxEntries /\ answer' = answer
    BY <2>1 DEF Contract!Next, Contract!Accept
  <2>2. CASE GivesBack
    <3>1. answer' \in [1 .. MaxEntries -> {"ok", "notFound", "flushed", "lost"} \cup {"none"}]
      BY <1>2 DEF TypeOK
    <3>2. \A w \in Entries : answer'[w] # answer[w] => w \in Contract!Outstanding
      BY <1>2, <2>2, HeldProperty DEF GivesBack, Contract!Outstanding
    <3> QED BY <2>2, <3>1, <3>2 DEF GivesBack, Contract!Next, Contract!GiveBack
  <2> QED BY <1>2, <2>1, <2>2, AccountStep
<1> QED BY <1>1, <1>2, Invariants, PTL DEF Spec, GivenBackOnce, Contract!Spec

\* A reply goes to the thread that waits for it, and to no other.
THEOREM RepliesMatch == Spec => []RepliesAwaited
<1>1. Init => RepliesAwaited
  BY DEF Init, RepliesAwaited
<1> QED BY <1>1, RepliesStep, TypeCorrect, PTL DEF Spec

\* When flush_sm returns, every work pushed before it emptied the queue has been given
\* back, the one processQueue was working on included.
THEOREM FlushComplete == Spec => FlushGivesAllBack
<1>1. ASSUME TypeOK, AccountInv, RepliesAwaited, Next, NEW c \in Callers,
             pc[c] = "flushWait", pc'[c] = "idle"
      PROVE  ~Processing
  <2>1. ASSUME NEW d, NEW place, GoTo(d, place) PROVE d = c
    BY <1>1, <2>1 DEF GoTo, TypeOK
  <2>2. pc' # pc
    BY <1>1
  <2>3. CASE HandleMessage
    <3>1. /\ messages # <<>> /\ Head(messages).what \in Awaited
          /\ \E place : Reply(place)
      BY <2>2, <2>3 DEF HandleMessage, OnInit, OnStop, OnReset, OnRelease, Handles, Awaited,
           OnStart, ProcessNothing, Take, HandlerStep, NoPool, Drain, Process, Dispose, GoOn,
           ProcessRefused, ProcessCsd, MapFails, DecoderFails, PictureForEarlier,
           PictureForCurrent, NoPicture, EosBegins, EosPicture, EosEnds, EosAlone, Processed,
           CodecStep, clientVars
    <3>2. Head(messages).from = c
      BY <2>1, <3>1 DEF Reply
    <3>3. 1 \in 1 .. Len(messages) /\ Head(messages) = messages[1]
      BY <1>1, <3>1, HeadTailProperties, LenProperties, EmptySeq DEF TypeOK
    <3> QED BY <1>1, <3>2, <3>3 DEF RepliesAwaited, WaitPlaces
  <2>4. ASSUME NEW d \in Callers, Calls(d) \/ Continues(d) PROVE ~Processing
    <3>1. d = c
      BY <2>1, <2>4 DEF Calls, Continues, StartCheck, QueueCheck, FlushCheck, StopCheck, ResetCall,
              ReleaseCall, StartPost, StartReturn, QueuePost, FlushTake, FlushReturn,
              Clear, ClearPost, QueuePush, Passes, Posts
    <3>2. FlushReturn(c)
      BY <1>1, <2>4, <3>1 DEF Calls, Continues, StartCheck, QueueCheck, FlushCheck, StopCheck,
              ResetCall, ReleaseCall, MayCall, StartPost, StartReturn, QueuePost, FlushTake,
              Clear, ClearPost, QueuePush
    <3> QED BY <3>2 DEF FlushReturn, ProcessQueueFinished
  <2> QED BY <1>1, <2>2, <2>3, <2>4 DEF Next, Done, vars, clientVars
<1>2. ASSUME TypeOK, AccountInv, RepliesAwaited, [Next]_vars
      PROVE  [\A c \in Callers : pc[c] = "flushWait" /\ pc'[c] = "idle" =>
                \A w \in 1 .. before[c] : answer[w] # "none"]_vars
  BY <1>1, <1>2 DEF AccountInv, AwaitedFlush
<1> QED BY <1>2, Invariants, RepliesMatch, PTL DEF Spec, FlushGivesAllBack

-----------------------------------------------------------------------------
(* A stopped component.  stop() sets the state first and empties the queue      *)
(* afterwards, while processQueue may work on an entry; the client goes on when  *)
(* the handler, with nothing in hand, has replied.                               *)

StoppedInv(c) ==
  /\ pc[c] \in {"queueing", "posting", "flushing", "flushWait"} => execState # "STOPPED"
  /\ execState = "STOPPED" /\ pc[c] # "stopping" => queue = {}
  /\ execState = "STOPPED" /\ pc[c] \notin {"stopping", "stopPost", "stopWait"} => ~Processing

\* The handler takes no entry in hand but from the queue, and replies with none in hand.
LEMMA HandlerQuiet ==
  ASSUME TypeOK, RepliesAwaited, NEW c, Callers = {c}, HandleMessage
  PROVE  /\ execState' = execState /\ queue' \subseteq queue
         /\ Processing' => Processing \/ queue # {}
         /\ \/ pc' = pc
            \/ pc[c] \in WaitPlaces /\ pc'[c] \in {"idle", "started", "released"} /\ ~Processing'
<1> DEFINE Quiet == /\ execState' = execState /\ queue' \subseteq queue
                    /\ Processing' => Processing \/ queue # {}
                    /\ \/ pc' = pc
                       \/ pc[c] \in WaitPlaces /\ pc'[c] \in {"idle", "started", "released"} /\ ~Processing'
<1> USE DEF clientVars, queueVars, CodecStep, Processed
<1>1. CASE OnInit \/ OnStop \/ OnReset \/ OnRelease
  <2>1. /\ messages # <<>> /\ Head(messages).what \in Awaited /\ handler = "idle"
        /\ UNCHANGED <<execState, queue, handler>>
        /\ \E place \in {"idle", "started", "released"} : Reply(place)
    BY <1>1 DEF OnInit, OnStop, OnReset, OnRelease, Handles, Awaited, HandlerStep
  <2>2. Head(messages).from = c
    BY <2>1, ReplyToCaller
  <2>3. pc[c] \in WaitPlaces
    <3>1. 1 \in 1 .. Len(messages) /\ Head(messages) = messages[1]
      BY <2>1, HeadTailProperties, LenProperties, EmptySeq DEF TypeOK
    <3> QED BY <2>2, <3>1 DEF RepliesAwaited
  <2>4. pc'[c] \in {"idle", "started", "released"}
    BY <2>1, <2>2 DEF Reply, GoTo, TypeOK
  <2> QED BY <2>1, <2>3, <2>4 DEF Processing
<1>2. CASE OnStart \/ ProcessNothing
  BY <1>2 DEF OnStart, ProcessNothing, HandlerStep, Processing
<1>3. CASE Take
  BY <1>3 DEF Take, Processing
<1>4. CASE NoPool \/ Drain \/ Dispose \/ GoOn
  BY <1>4 DEF NoPool, Drain, Dispose, GoOn, Processing
<1>5. CASE ProcessRefused \/ MapFails \/ ProcessCsd \/ DecoderFails
  BY <1>5 DEF ProcessRefused, MapFails, ProcessCsd, DecoderFails, Looping, Decoding, Processes, Processing
<1>6. CASE PictureForEarlier \/ PictureForCurrent \/ NoPicture
  BY <1>6 DEF PictureForEarlier, PictureForCurrent, NoPicture, Decoding, Processes, Processing
<1>7. CASE EosBegins \/ EosPicture \/ EosEnds \/ EosAlone
  BY <1>7 DEF EosBegins, EosPicture, EosEnds, EosAlone, Decoding, Processes, Processing
<1> QED BY <1>1, <1>2, <1>3, <1>4, <1>5, <1>6, <1>7 DEF HandleMessage, Process

\* StoppedInv is kept by the client's calls.
LEMMA StoppedCalls ==
  ASSUME TypeOK, NEW c, Callers = {c}, StoppedInv(c), Calls(c) \/ Continues(c)
  PROVE  StoppedInv(c)'
<1> USE DEF queueVars, handlerVars, StoppedInv, Processing
<1>0. \A place : GoTo(c, place) => pc'[c] = place
  BY DEF GoTo, TypeOK
<1>1. CASE StartCheck(c) \/ QueueCheck(c) \/ FlushCheck(c) \/ ReleaseCall(c)
  <2>1. /\ pc[c] = "idle" /\ UNCHANGED <<execState, queue, handler>>
        /\ \E place \in {"init", "start", "queueing", "flushing", "releasing"} :
             /\ GoTo(c, place)
             /\ place \in {"queueing", "flushing"} => execState = "RUNNING"
    BY <1>1 DEF StartCheck, QueueCheck, FlushCheck, ReleaseCall, MayCall, Passes
  <2> QED BY <1>0, <2>1
<1>2. CASE StopCheck(c) \/ ResetCall(c)
  <2>1. /\ UNCHANGED <<queue, handler>>
        /\ \/ execState' = "STOPPED" /\ GoTo(c, "stopping")
           \/ execState' = "UNINITIALIZED" /\ GoTo(c, "resetting")
    BY <1>2 DEF StopCheck, ResetCall, SetState
  <2> QED BY <1>0, <2>1
<1>3. CASE StartPost(c) \/ ClearPost(c)
  <2>1. /\ UNCHANGED <<execState, queue, handler>>
        /\ \/ pc[c] = "stopPost" /\ GoTo(c, "stopWait")
           \/ /\ pc[c] \in {"init", "start", "resetPost", "releasing"}
              /\ \E place \in {"initWait", "started", "resetWait", "relWait"} : GoTo(c, place)
    BY <1>3 DEF StartPost, ClearPost, Posts
  <2> QED BY <1>0, <2>1
<1>4. CASE StartReturn(c)
  <2>1. execState' = "RUNNING"
    BY <1>4 DEF StartReturn, SetState
  <2> QED BY <2>1
<1>5. CASE QueuePost(c) \/ FlushTake(c) \/ FlushReturn(c)
  <2>1. execState # "STOPPED" /\ execState' = execState
    BY <1>5 DEF QueuePost, FlushTake, FlushReturn, Posts
  <2> QED BY <2>1
<1>6. CASE Clear(c)
  <2>1. /\ queue' = {} /\ UNCHANGED <<execState, handler>>
        /\ \/ pc[c] = "stopping" /\ GoTo(c, "stopPost")
           \/ pc[c] = "resetting" /\ GoTo(c, "resetPost")
    BY <1>6 DEF Clear, ClearQueue
  <2> QED BY <1>0, <2>1
<1>7. ASSUME NEW k \in Kinds, QueuePush(c, k) PROVE StoppedInv(c)'
  <2>1. execState # "STOPPED" /\ execState' = execState
    BY <1>7 DEF QueuePush
  <2> QED BY <2>1
<1> QED BY <1>1, <1>2, <1>3, <1>4, <1>5, <1>6, <1>7 DEF Calls, Continues

\* StoppedInv is inductive for one client.
LEMMA StoppedStep ==
  ASSUME TypeOK, RepliesAwaited, NEW c, Callers = {c}, StoppedInv(c), [Next]_vars
  PROVE  StoppedInv(c)'
<1>1. CASE UNCHANGED vars
  BY <1>1 DEF vars, clientVars, queueVars, handlerVars, StoppedInv, Processing
<1>2. CASE HandleMessage
  <2>1. /\ execState' = execState /\ queue' \subseteq queue
        /\ Processing' => Processing \/ queue # {}
        /\ \/ pc' = pc
           \/ pc[c] \in WaitPlaces /\ pc'[c] \in {"idle", "started", "released"} /\ ~Processing'
    BY <1>2, HandlerQuiet
  <2> QED BY <2>1 DEF StoppedInv, WaitPlaces
<1>3. CASE Calls(c) \/ Continues(c)
  BY <1>3, StoppedCalls
<1> QED BY <1>1, <1>2, <1>3 DEF Next, Done

\* A stopped component reports nothing to its one client once the stop has returned.
THEOREM StoppedIsQuiet ==
  ASSUME NEW only, Callers = {only}
  PROVE  Spec => QuietWhenStopped
<1>1. Init => StoppedInv(only)
  BY DEF Init, StoppedInv, Processing
<1>2. TypeOK /\ RepliesAwaited /\ StoppedInv(only) /\ [Next]_vars => StoppedInv(only)'
  BY StoppedStep
<1>3. TypeOK /\ StoppedInv(only) /\ [Next]_vars =>
        [execState = "STOPPED" /\ (\A c \in Callers : pc[c] = "idle") => answer' = answer]_vars
  <2> SUFFICES ASSUME TypeOK, StoppedInv(only), Next, execState = "STOPPED", pc[only] = "idle"
               PROVE  answer' = answer
    OBVIOUS
  <2>1. queue = {} /\ handler \in {"idle", "done"}
    BY DEF StoppedInv, Processing, TypeOK
  <2>2. CASE HandleMessage
    BY <2>1, <2>2 DEF HandleMessage, Process, OnInit, OnStop, OnReset, OnRelease, OnStart, ProcessNothing, HandlerStep,
           Take, NoPool, Drain, ProcessRefused, MapFails, ProcessCsd, DecoderFails, PictureForEarlier,
           PictureForCurrent, NoPicture, EosBegins, EosPicture, EosEnds, EosAlone, Looping, Decoding, Processes,
           Dispose, GoOn
  <2>3. CASE Calls(only) \/ Continues(only)
    BY <2>3 DEF Calls, Continues, StartCheck, QueueCheck, FlushCheck, StopCheck, ResetCall, ReleaseCall, Passes,
           SetState, StartPost, StartReturn, QueuePost, FlushTake, FlushReturn, Clear, ClearPost, QueuePush
  <2> QED BY <2>2, <2>3 DEF Next, Done, vars
<1> QED BY <1>1, <1>2, <1>3, TypeCorrect, RepliesMatch, PTL DEF Spec, QuietWhenStopped
=============================================================================
