------------------------ MODULE VdecComponentProofs ------------------------
(***************************************************************************)
(* Proofs about VdecComponent, for every set of client threads, number of  *)
(* works and value of the other constants: type correctness, and the       *)
(* safety invariants the runs check.  A stopped component is empty, the    *)
(* event of a stop belongs to a thread that waits, works keep their order, *)
(* and every work is in one place until it is given back once.             *)
(***************************************************************************)
EXTENDS VdecComponent, WorkDequeProofs, TLAPS, FiniteSetTheorems, SequenceTheorems

-----------------------------------------------------------------------------
(* Type correctness.                                                        *)

\* Posting a task, and running the first one, keep the message loop well formed.
LEMMA PostType ==
  ASSUME TypeOK, NEW t \in Tasks, Post(t)
  PROVE  tasks' \in Seq(Tasks)
BY AppendProperties DEF Post, TypeOK, DataOK

\* What the first task and the rest of the loop look like.
LEMMA HeadType ==
  ASSUME TypeOK, tasks # <<>>
  PROVE  /\ Head(tasks) \in Tasks /\ Tail(tasks) \in Seq(Tasks)
         /\ Len(Tail(tasks)) = Len(tasks) - 1
         /\ \A i \in 1 .. Len(Tail(tasks)) : Tail(tasks)[i] = tasks[i + 1]
BY HeadTailProperties DEF TypeOK, DataOK

\* Completing a task leaves a well-formed message loop.
LEMMA CompletesType ==
  ASSUME TypeOK, tasks # <<>>, Completes
  PROVE  tasks' \in Seq(Tasks)
BY HeadType DEF Completes

\* So does completing it and posting another.
LEMMA CompletesPostingType ==
  ASSUME TypeOK, tasks # <<>>, NEW t \in Tasks, CompletesPosting(t)
  PROVE  tasks' \in Seq(Tasks)
BY HeadType, AppendProperties DEF CompletesPosting

\* Giving works back yields a well-formed table of answers.
LEMMA AnswerType ==
  ASSUME TypeOK, NEW S, NEW how \in {"none", "ok", "eos", "notFound", "lost"}
  PROVE  Answer(S, how) \in [Works -> {"none", "ok", "eos", "notFound", "lost"}]
BY DEF Answer, TypeOK, DataOK

\* Signalling the event of a call moves its thread to a known place.
LEMMA SignalType ==
  ASSUME TypeOK, NEW c \in Callers \cup {NoCaller}, Signal(c)
  PROVE  pc' \in [Callers -> Places]
<1>1. \A place \in Places : Signalled(place) \in Places
  BY DEF Signalled, Places
<1> QED BY <1>1, CallersAssumption DEF Signal, TypeOK, DataOK

\* The loop of sendOutputBufferToWorkIfAny disposes of a prefix of its list.
LEMMA SentCountType ==
  ASSUME NEW o \in Seq(Pictures)
  PROVE  SentCount(o) \in 0 .. Len(o) /\ \A j \in 1 .. SentCount(o) : Sendable(o, j)
<1>1. Len(o) \in Nat
  BY LenProperties
<1>2. Sendables(o) \in SUBSET (0 .. Len(o)) /\ 0 \in Sendables(o)
  BY <1>1 DEF Sendables
<1>3. SentCount(o) \in Sendables(o)
  BY <1>1, <1>2, BackProperty DEF SentCount
<1> QED BY <1>3 DEF Sendables

\* Handing out pictures leaves well-formed pictures and works.
LEMMA SendOutputsType ==
  ASSUME TypeOK, NEW o \in Seq(Pictures), SendOutputs(o)
  PROVE  outs' \in Seq(Pictures) /\ lastReport' \in BOOLEAN /\ dropped' \in SUBSET Works
<1>1. Len(o) \in Nat /\ \A i \in 1 .. Len(o) : o[i] \in Pictures
  BY LenProperties, ElementOfSeq
<1>2. SentCount(o) \in 0 .. Len(o)
  BY SentCountType
<1>3. outs' \in Seq(Pictures)
  <2> DEFINE m == SentCount(o) + (IF Discards(o) THEN 2 ELSE 1)
  <2>1. m \in Nat /\ m >= 1
    BY <1>2
  <2>2. outs' = SubSeq(o, m, Len(o))
    BY DEF SendOutputs
  <2> HIDE DEF m
  <2> QED BY <1>1, <2>1, <2>2, SubSeqProperties
<1>4. lastReport' \in BOOLEAN
  BY DEF SendOutputs
<1>5. dropped' \in SUBSET Works
  BY <1>1 DEF SendOutputs, TypeOK, DataOK, Pictures
<1> QED BY <1>3, <1>4, <1>5

\* The flags only ever get truth values.
LEMMA FlagsType ==
  ASSUME FlagsOK, Next \/ UNCHANGED vars
  PROVE  FlagsOK'
<1> USE DEF FlagsOK, clientVars, threadVars, workVars, outVars, envVars
<1>1. ASSUME NEW c \in Callers, Calls(c) PROVE FlagsOK'
  BY <1>1 DEF Calls, StartCall, StopCall, ResetCall, FlushCall, QueueCall, DrainCall
<1>2. ASSUME NEW c \in Callers, Returns(c) PROVE FlagsOK'
  BY <1>2 DEF Returns, StartReturn, StopReturn, FlushWait, FlushTimeOut, FlushReturn,
              DestroyCall, StopNeedless, UpdateState
<1>3. CASE Decoder
  BY <1>3 DEF Decoder, DecoderStep, DecInputDone, DecPicture, DecExtraPicture, DecNoPicture,
              DecDrained, DecResetDone, DecError
<1>4. CASE RunTask
  <2> USE DEF UpdateState, ReportError
  <2>1. CASE RefuseTask
    BY <2>1 DEF RefuseTask
  <2>2. CASE OnQueueWork
    BY <2>2 DEF OnQueueWork
  <2>3. CASE SkipDequeue
    BY <2>3 DEF SkipDequeue
  <2>4. CASE OnDequeueWork
    BY <2>4 DEF OnDequeueWork
  <2>5. CASE OnInputDoneUnknown
    BY <2>5 DEF OnInputDoneUnknown
  <2>6. CASE OnInputBufferDone
    BY <2>6 DEF OnInputBufferDone
  <2>7. CASE OnSendOutputs
    BY <2>7 DEF OnSendOutputs, SendOutputs
  <2>8. CASE OnOutputWhileFlushing
    BY <2>8 DEF OnOutputWhileFlushing
  <2>9. CASE OnOutputUnknown
    BY <2>9 DEF OnOutputUnknown
  <2>10. CASE OnOutputBufferDone
    BY <2>10 DEF OnOutputBufferDone, SendOutputs
  <2>11. CASE OnDrain
    BY <2>11 DEF OnDrain
  <2>12. CASE OnDrainDone
    BY <2>12 DEF OnDrainDone, ReportEos, SendOutputs
  <2>13. CASE OnDrainDoneNoEos
    BY <2>13 DEF OnDrainDoneNoEos, SendOutputs
  <2>14. CASE OnDrainDoneStopping
    BY <2>14 DEF OnDrainDoneStopping, ReportEos
  <2>15. CASE OnDrainDoneUnexpected
    BY <2>15 DEF OnDrainDoneUnexpected
  <2>16. CASE OnFlush
    BY <2>16 DEF OnFlush
  <2>17. CASE OnFlushDoneWithError
    BY <2>17 DEF OnFlushDoneWithError
  <2>18. CASE OnFlushDone
    BY <2>18 DEF OnFlushDone
  <2>19. CASE OnStop
    BY <2>19 DEF OnStop
  <2>20. CASE OnStopDone
    BY <2>20 DEF OnStopDone
  <2>21. CASE OnResetDoneStopped
    BY <2>21 DEF OnResetDoneStopped
  <2>22. CASE OnResetDoneUnexpected
    BY <2>22 DEF OnResetDoneUnexpected
  <2>23. ASSUME NEW result \in InitResults, OnStart(result) PROVE FlagsOK'
    BY <2>23 DEF OnStart
  <2>24. CASE OnDestroy
    BY <2>24 DEF OnDestroy
  <2>25. CASE OnReportError
    BY <2>25 DEF OnReportError
  <2>26. CASE OnNoOutFrameNotify
    BY <2>26 DEF OnNoOutFrameNotify
  <2>27. CASE OnReportNoOutFrameFinished
    BY <2>27 DEF OnReportNoOutFrameFinished
  <2>28. CASE OnErrorFrame
    BY <2>28 DEF OnErrorFrame
  <2> QED BY <1>4, <2>1, <2>2, <2>3, <2>4, <2>5, <2>6, <2>7, <2>8, <2>9, <2>10, <2>11, <2>12,
            <2>13, <2>14, <2>15, <2>16, <2>17, <2>18, <2>19, <2>20, <2>21, <2>22, <2>23, <2>24,
            <2>25, <2>26, <2>27, <2>28 DEF RunTask
<1> QED BY <1>1, <1>2, <1>3, <1>4 DEF Next, Done, vars

\* Every step of a client thread keeps the types.
LEMMA CallsType ==
  ASSUME TypeOK, NEW c \in Callers, Calls(c) \/ Returns(c)
  PROVE  DataOK'
<1>0. DataOK
  BY DEF TypeOK
<1> USE DEF DataOK, Places, Tasks, WorkOps, PlainOps, NoWork
<1> USE DEF clientVars, threadVars, workVars, outVars, envVars
<1>1. CASE StartCall(c)
  BY <1>0, <1>1, PostType DEF StartCall, GoTo, PlainTask, Task
<1>2. CASE StopCall(c)
  BY <1>0, <1>2, PostType DEF StopCall, GoTo, PlainTask, Task
<1>3. CASE ResetCall(c)
  BY <1>0, <1>3 DEF ResetCall, GoTo
<1>4. CASE FlushCall(c)
  BY <1>0, <1>4, PostType DEF FlushCall, GoTo, PlainTask, Task
<1>5. CASE StartReturn(c)
  BY <1>0, <1>5 DEF StartReturn, GoTo
<1>6. CASE StopReturn(c)
  BY <1>0, <1>6 DEF StopReturn, GoTo
<1>7. CASE FlushWait(c)
  BY <1>0, <1>7 DEF FlushWait, GoTo
<1>8. CASE FlushTimeOut(c)
  BY <1>0, <1>8 DEF FlushTimeOut, GoTo, UpdateState
<1>9. CASE FlushReturn(c)
  BY <1>0, <1>9, PostType, AnswerType DEF FlushReturn, GoTo, PlainTask, Task
<1>10. CASE DestroyCall(c)
  BY <1>0, <1>10, PostType DEF DestroyCall, GoTo, PlainTask, Task
<1>11. CASE StopNeedless(c)
  BY <1>0, <1>11 DEF StopNeedless, GoTo
<1>12. ASSUME NEW k \in Kinds, QueueCall(c, k) PROVE DataOK'
  <2>1. next + 1 \in Works /\ next + 1 \in 0 .. MaxWorks
    BY <1>0, <1>12, BoundsAssumption DEF QueueCall, Works
  <2>2. WorkTask("queueWork", next + 1) \in Tasks
    BY <2>1 DEF WorkTask, Task
  <2>3. kind' \in [Works -> AllKinds]
    BY <1>0, <1>12, <2>1, KindsAssumption DEF QueueCall
  <2> QED BY <1>0, <1>12, <2>1, <2>2, <2>3, PostType DEF QueueCall
<1>13. ASSUME NEW mode \in {"EOS", "NO_EOS"}, DrainCall(c, mode) PROVE DataOK'
  BY <1>0, <1>13, PostType DEF DrainCall, Task
<1> QED BY <1>1, <1>2, <1>3, <1>4, <1>5, <1>6, <1>7, <1>8, <1>9, <1>10, <1>11, <1>12,
          <1>13 DEF Calls, Returns

\* The decoder's notifications keep the types.
LEMMA DecoderType ==
  ASSUME TypeOK, Decoder
  PROVE  DataOK'
<1>0. DataOK
  BY DEF TypeOK
<1>a. Works \in SUBSET Nat /\ dec \in Decoders
      /\ dec.inputs \in SUBSET Works /\ dec.frames \in SUBSET Works
  BY <1>0, BoundsAssumption DEF DataOK, Works, Decoders
<1>b. dec.resets > 0 => [dec EXCEPT !.resets = @ - 1] \in Decoders
  BY <1>a DEF Decoders
<1>c. \A w : /\ [dec EXCEPT !.frames = @ \ {w}] \in Decoders
             /\ [dec EXCEPT !.inputs = @ \ {w}] \in Decoders
  BY <1>a DEF Decoders
<1>d. [dec EXCEPT !.eos = FALSE] \in Decoders
  BY <1>a DEF Decoders
<1>e. \A w \in Works : \A op \in WorkOps : WorkTask(op, w) \in Tasks
  BY DEF WorkTask, Task, Tasks
<1>f. \A op \in PlainOps : PlainTask(op) \in Tasks
  BY DEF PlainTask, Task, Tasks
<1>g. \A w \in Works : \A quality \in {"good", "bad"} : Task("outputDone", w, quality) \in Tasks
  BY DEF Task, Tasks, WorkOps
<1>h. ASSUME NEW t \in Tasks, DecoderStep(t), dec' \in Decoders, left' \in Nat
      PROVE  DataOK'
  <2>1. tasks' \in Seq(Tasks)
    BY <1>0, <1>h, PostType DEF DecoderStep, DataOK
  <2> QED BY <1>0, <1>h, <2>1
          DEF DataOK, DecoderStep, clientVars, threadVars, workVars, outVars
<1>i. left \in Nat /\ (left > 0 => left - 1 \in Nat)
  BY <1>0 DEF DataOK
<1>1. CASE DecInputDone
  <2>1. Front(dec.inputs) \in Works
    BY <1>1, <1>a, FrontProperty DEF DecInputDone
  <2>2. dec' \in Decoders
    BY <1>c, <2>1, <1>1 DEF DecInputDone
  <2>3. WorkTask("inputDone", Front(dec.inputs)) \in Tasks
    BY <1>e, <2>1 DEF WorkOps
  <2> QED BY <1>1, <1>h, <1>i, <2>2, <2>3 DEF DecInputDone
<1>2. CASE DecDrained
  <2>1. dec' \in Decoders
    BY <1>d, <1>2 DEF DecDrained
  <2>2. PlainTask("drainDone") \in Tasks
    BY <1>f DEF PlainOps
  <2> QED BY <1>2, <1>h, <1>i, <2>1, <2>2 DEF DecDrained
<1>3. CASE DecResetDone
  <2>1. dec' \in Decoders
    BY <1>b, <1>3 DEF DecResetDone
  <2>2. PlainTask("resetDone") \in Tasks
    BY <1>f DEF PlainOps
  <2> QED BY <1>3, <1>h, <1>i, <2>1, <2>2 DEF DecResetDone
<1>4. CASE DecError
  <2>1. PlainTask("reportError") \in Tasks
    BY <1>f DEF PlainOps
  <2> QED BY <1>4, <1>a, <1>h, <1>i, <2>1 DEF DecError
<1>5. ASSUME NEW w \in dec.frames, NEW quality \in {"good", "bad"}, DecPicture(w, quality)
      PROVE  DataOK'
  <2>1. dec' \in Decoders
    BY <1>c, <1>5 DEF DecPicture
  <2>2. Task("outputDone", w, quality) \in Tasks
    BY <1>a, <1>g
  <2> QED BY <1>5, <1>h, <1>i, <2>1, <2>2 DEF DecPicture
<1>6. ASSUME NEW w \in dec.frames, DecExtraPicture(w) PROVE DataOK'
  <2>1. Task("outputDone", w, "good") \in Tasks
    BY <1>a, <1>g
  <2> QED BY <1>6, <1>a, <1>h, <1>i, <2>1 DEF DecExtraPicture
<1>7. ASSUME NEW w \in dec.frames, NEW op \in {"noOutNotify", "errorFrame"}, DecNoPicture(w, op)
      PROVE  DataOK'
  <2>1. dec' \in Decoders
    BY <1>c, <1>7 DEF DecNoPicture
  <2>2. WorkTask(op, w) \in Tasks
    BY <1>a, <1>e DEF WorkOps
  <2> QED BY <1>7, <1>h, <1>i, <2>1, <2>2 DEF DecNoPicture
<1> QED BY <1>1, <1>2, <1>3, <1>4, <1>5, <1>6, <1>7 DEF Decoder

\* Every task the component thread runs keeps the types.
LEMMA RunTaskType ==
  ASSUME TypeOK, RunTask
  PROVE  DataOK'
<1>0. DataOK
  BY DEF TypeOK
<1>a. Works \in SUBSET Nat /\ dec \in Decoders
      /\ dec.inputs \in SUBSET Works /\ dec.frames \in SUBSET Works
  BY <1>0, BoundsAssumption DEF DataOK, Works, Decoders
<1>b. NoDecoder \in Decoders /\ NewDecoder \in Decoders
  BY DEF NoDecoder, NewDecoder, Decoders
<1>c. \A w \in Works : Decode(w) \in Decoders
  BY <1>a DEF Decode, Decoders
<1>d. ResetDecoder => dec' \in Decoders
  <2>1. [dec EXCEPT !.inputs = {}, !.frames = {}, !.eos = FALSE, !.resets = @ + 1] \in Decoders
    <3>1. dec.resets + 1 \in Nat
      BY <1>a DEF Decoders
    <3>2. \A n \in Nat :
            [dec EXCEPT !.inputs = {}, !.frames = {}, !.eos = FALSE, !.resets = n] \in Decoders
      BY <1>a DEF Decoders
    <3> QED BY <3>1, <3>2
  <2> QED BY <1>a, <2>1 DEF ResetDecoder
<1>e. [dec EXCEPT !.eos = TRUE] \in Decoders
  BY <1>a DEF Decoders
<1>f. tasks # <<>> => /\ Head(tasks) \in Tasks
                      /\ Head(tasks).op \in WorkOps => Head(tasks).w \in Works
                      /\ Head(tasks).op = "drain" => Head(tasks).arg \in {"none", "EOS", "NO_EOS"}
  BY HeadType DEF Tasks, WorkOps, PlainOps
<1>g. \A S \in SUBSET Works : S # {} => Front(S) \in S /\ Back(S) \in S
  <2>1. \A S \in SUBSET Works : S \in SUBSET Nat /\ S \in SUBSET (0 .. MaxWorks)
    BY BoundsAssumption DEF Works
  <2> QED BY <2>1, FrontProperty, BackProperty, BoundsAssumption
<1>h. \A op : PlainTask(op) = [op |-> op, w |-> NoWork, arg |-> "none"]
  BY DEF PlainTask, Task
<1>i. \A op \in PlainOps : PlainTask(op) \in Tasks
  BY <1>h DEF Tasks
<1>k. PendingAfter(outs) \in SUBSET Works /\ \A o : PendingAfter(o) \in SUBSET Works
  BY <1>0 DEF DataOK, PendingAfter
<1>l. \A S : pending \ S \in SUBSET Works
  BY <1>0 DEF DataOK
<1> USE DEF DataOK, NoWork, PlainOps
<1> USE DEF clientVars, threadVars, workVars, outVars, envVars, Runs
<1>1. CASE RefuseTask
  BY <1>0, <1>1, CompletesType, AnswerType DEF RefuseTask
<1>2. CASE OnQueueWork
  BY <1>0, <1>f, <1>i, <1>2, CompletesPostingType DEF OnQueueWork, WorkOps
<1>3. CASE SkipDequeue
  BY <1>0, <1>3, CompletesType DEF SkipDequeue
<1>4. CASE OnDequeueWork
  <2>1. Front(queue) \in Works
    BY <1>0, <1>g, <1>4 DEF OnDequeueWork
  <2>2. dec' \in Decoders
    BY <1>c, <1>4, <2>1 DEF OnDequeueWork
  <2>3. tasks' \in Seq(Tasks)
    BY <1>4, <1>i, CompletesType, CompletesPostingType DEF OnDequeueWork
  <2>4. answer' \in [Works -> {"none", "ok", "eos", "notFound", "lost"}]
    BY <1>0, <1>4, AnswerType DEF OnDequeueWork
  <2>5. comp' \in {comp, "DRAINING"}
    BY <1>4 DEF OnDequeueWork, UpdateState
  <2>6. pending' \in SUBSET Works /\ queue' \in SUBSET Works /\ inputHeld' \in SUBSET Works
    BY <1>0, <1>4, <2>1 DEF OnDequeueWork
  <2> QED BY <1>0, <1>4, <2>2, <2>3, <2>4, <2>5, <2>6 DEF OnDequeueWork
<1>5. CASE OnInputDoneUnknown
  BY <1>0, <1>5, CompletesType DEF OnInputDoneUnknown, ReportError
<1>6. CASE OnInputBufferDone
  <2>1. tasks' \in Seq(Tasks)
    BY <1>6, <1>i, CompletesType, CompletesPostingType DEF OnInputBufferDone
  <2>2. answer' \in [Works -> {"none", "ok", "eos", "notFound", "lost"}]
    BY <1>0, <1>6, AnswerType DEF OnInputBufferDone
  <2> QED BY <1>0, <1>6, <2>1, <2>2 DEF OnInputBufferDone
<1>7. CASE OnSendOutputs
  BY <1>0, <1>7, CompletesType, AnswerType, SendOutputsType, <1>k DEF OnSendOutputs
<1>8. CASE OnOutputWhileFlushing
  BY <1>0, <1>8, <1>f, CompletesType DEF OnOutputWhileFlushing, WorkOps
<1>9. CASE OnOutputUnknown
  BY <1>0, <1>9, CompletesType DEF OnOutputUnknown
<1>10. CASE OnOutputBufferDone
  <2> DEFINE w == Head(tasks).w
             o == Append(outs, [w |-> w, bad |-> Head(tasks).arg = "bad"])
  <2>1. w \in Works
    BY <1>f, <1>10 DEF OnOutputBufferDone, WorkOps
  <2>2. o \in Seq(Pictures)
    <3>1. [w |-> w, bad |-> Head(tasks).arg = "bad"] \in Pictures
      BY <2>1 DEF Pictures
    <3> QED BY <3>1, <1>0, AppendProperties
  <2>3. sent' \in Seq(Works)
    <3> DEFINE longer == IF w # lastOut /\ w \in pending /\ kind[w] = "decodeOnly"
                  THEN sent ELSE <<w>> \o sent
    <3>1. longer \in Seq(Works)
      BY <2>1, <1>0, ConcatProperties
    <3>2. Len(longer) \in Nat
      BY <3>1, LenProperties
    <3>3. Len(longer) > SentLimit => SubSeq(longer, 1, Len(longer) - 1) \in Seq(Works)
      BY <3>1, <3>2, BoundsAssumption, SubSeqProperties
    <3> QED BY <3>1, <3>3, <1>10 DEF OnOutputBufferDone, SentWith
  <2>4. SendOutputs(o) /\ pending' = PendingAfter(o) /\ answer' = Answer(SentWorks(o), "ok")
        /\ lastOut' = w /\ Completes
    BY <1>10 DEF OnOutputBufferDone
  <2> HIDE DEF o
  <2>5. outs' \in Seq(Pictures) /\ dropped' \in SUBSET Works
    BY <2>2, <2>4, SendOutputsType
  <2>6. tasks' \in Seq(Tasks)
    BY <1>10, <2>4, CompletesType DEF OnOutputBufferDone
  <2>7. answer' \in [Works -> {"none", "ok", "eos", "notFound", "lost"}]
    BY <2>4, AnswerType
  <2>8. pending' \in SUBSET Works
    BY <2>4, <1>k
  <2> QED BY <1>0, <1>10, <2>1, <2>3, <2>4, <2>5, <2>6, <2>7, <2>8 DEF OnOutputBufferDone
<1>11. CASE OnDrain
  <2>1. tasks # <<>> /\ tasks' \in Seq(Tasks)
    BY <1>11, CompletesType DEF OnDrain
  <2>2. dec' \in Decoders
    BY <1>a, <1>e, <1>11 DEF OnDrain
  <2>3. drainAt' \in [Works -> {"none", "EOS", "NO_EOS"}]
    BY <1>0, <1>g, <1>f, <2>1, <1>11 DEF OnDrain
  <2> QED BY <1>0, <1>11, <2>1, <2>2, <2>3 DEF OnDrain, UpdateState
<1>12. CASE OnDrainDone
  <2>1. tasks' \in Seq(Tasks)
    BY <1>12, <1>i, CompletesPostingType DEF OnDrainDone, RestartDequeue
  <2>2. comp' \in {comp, "STARTED"}
    BY <1>12 DEF OnDrainDone, UpdateState
  <2>3. CASE ~pendingEOS
    <3>1. SendOutputs(outs) /\ pending' = PendingAfter(outs)
          /\ answer' = Answer(SentWorks(outs), "ok") /\ UNCHANGED <<abandoned, inputHeld>>
      BY <1>12, <2>3 DEF OnDrainDone
    <3>2. outs' \in Seq(Pictures) /\ dropped' \in SUBSET Works
      BY <3>1, <1>0, SendOutputsType
    <3> QED BY <1>0, <1>12, <2>1, <2>2, <3>1, <3>2, <1>k, AnswerType DEF OnDrainDone
  <2>4. CASE pendingEOS
    <3> DEFINE m == SentCount(outs) + (IF Discards(outs) THEN 2 ELSE 1)
    <3>1. outs' \in Seq(Pictures)
      <4>1. m \in Nat /\ m >= 1 /\ Len(outs) \in Nat
        BY <1>0, SentCountType, LenProperties
      <4>2. outs' = SubSeq(outs, m, Len(outs))
        BY <1>12, <2>4 DEF OnDrainDone
      <4> HIDE DEF m
      <4> QED BY <1>0, <4>1, <4>2, SubSeqProperties
    <3>2. ReportEos(PendingAfter(outs), SentWorks(outs)) /\ dropped' = {}
      BY <1>12, <2>4 DEF OnDrainDone
    <3>3. answer' \in [Works -> {"none", "ok", "eos", "notFound", "lost"}]
      BY <1>0, <3>2 DEF ReportEos
    <3>4. abandoned' \in SUBSET Works /\ pending' \in SUBSET Works /\ inputHeld' \in SUBSET Works
      BY <1>0, <3>2 DEF ReportEos
    <3> QED BY <1>0, <1>12, <2>1, <2>2, <3>1, <3>2, <3>3, <3>4 DEF OnDrainDone
  <2> QED BY <2>3, <2>4
<1>13. CASE OnDrainDoneNoEos
  <2>1. outs' \in Seq(Pictures) /\ dropped' \in SUBSET Works
    BY <1>0, <1>13, SendOutputsType DEF OnDrainDoneNoEos
  <2> QED BY <1>0, <1>13, <2>1, CompletesType, AnswerType DEF OnDrainDoneNoEos
<1>14. CASE OnDrainDoneStopping
  <2>1. answer' \in [Works -> {"none", "ok", "eos", "notFound", "lost"}]
    BY <1>0, <1>14 DEF OnDrainDoneStopping, ReportEos
  <2>2. abandoned' \in SUBSET Works /\ pending' \in SUBSET Works /\ inputHeld' \in SUBSET Works
        /\ dropped' \in SUBSET Works
    BY <1>0, <1>14 DEF OnDrainDoneStopping, ReportEos
  <2>3. mState' \in {mState, "ERROR"}
    BY <1>14 DEF OnDrainDoneStopping, ReportError
  <2> QED BY <1>0, <1>14, <2>1, <2>2, <2>3, CompletesType DEF OnDrainDoneStopping
<1>15. CASE OnDrainDoneUnexpected
  BY <1>0, <1>15, CompletesType DEF OnDrainDoneUnexpected, ReportError
<1>16. CASE OnFlush
  <2>1. dec' \in Decoders
    BY <1>a, <1>d, <1>16 DEF OnFlush
  <2> QED BY <1>0, <1>16, <2>1, CompletesType DEF OnFlush, UpdateState
<1>17. CASE OnFlushDoneWithError
  BY <1>0, <1>17, CompletesType DEF OnFlushDoneWithError
<1>18. CASE OnFlushDone
  <2>1. pc' \in [Callers -> Places]
    BY <1>0, <1>18 DEF OnFlushDone, GoTo, Places
  <2>2. outs' \in Seq(Pictures) /\ sent' \in Seq(Works)
    BY <1>18, EmptySeq DEF OnFlushDone, ClearOutputs
  <2> QED BY <1>0, <1>18, <2>1, <2>2, CompletesType, AnswerType
          DEF OnFlushDone, UpdateState, Flushed
<1>19. CASE OnStop
  <2>1. dec' \in Decoders
    BY <1>a, <1>d, <1>19 DEF OnStop
  <2> QED BY <1>0, <1>19, <2>1, CompletesType DEF OnStop, UpdateState, KeepDoneEvent
<1>20. CASE OnStopDone
  <2>1. pc' \in [Callers -> Places]
    BY <1>0, <1>20, SignalType DEF OnStopDone
  <2>2. outs' \in Seq(Pictures) /\ sent' \in Seq(Works) /\ noOut' \in Seq(Works)
    BY <1>20, EmptySeq DEF OnStopDone, ClearOutputs
  <2> QED BY <1>0, <1>20, <2>1, <2>2, CompletesType, AnswerType DEF OnStopDone, UpdateState
<1>21. CASE OnResetDoneStopped
  BY <1>0, <1>21, CompletesType DEF OnResetDoneStopped
<1>22. CASE OnResetDoneUnexpected
  BY <1>0, <1>22, CompletesType DEF OnResetDoneUnexpected, ReportError
<1>23. ASSUME NEW result \in InitResults, OnStart(result) PROVE DataOK'
  <2>1. pc' \in [Callers -> Places]
    BY <1>0, <1>23, SignalType DEF OnStart
  <2>2. dec' \in Decoders
    BY <1>b, <1>23 DEF OnStart
  <2>3. initResult' \in {"ok", "fail"}
    BY <1>0, <1>23, KindsAssumption DEF OnStart, VdecInitResult
  <2> QED BY <1>0, <1>23, <2>1, <2>2, <2>3, CompletesType DEF OnStart, UpdateState
<1>24. CASE OnDestroy
  <2>1. pc' \in [Callers -> Places]
    BY <1>0, <1>24 DEF OnDestroy, Signalled, Places
  <2>2. outs' \in Seq(Pictures) /\ sent' \in Seq(Works) /\ noOut' \in Seq(Works)
    BY <1>24, EmptySeq DEF OnDestroy, ClearOutputs
  <2>3. dec' \in Decoders
    BY <1>b, <1>24 DEF OnDestroy
  <2> QED BY <1>0, <1>24, <2>1, <2>2, <2>3, CompletesType DEF OnDestroy, UpdateState
<1>25. CASE OnReportError
  BY <1>0, <1>25, CompletesType DEF OnReportError, ReportError
<1>26. CASE OnNoOutFrameNotify
  BY <1>0, <1>26, <1>f, <1>i, CompletesPostingType, AppendProperties
     DEF OnNoOutFrameNotify, WorkOps
<1>27. CASE OnReportNoOutFrameFinished
  <2> DEFINE S == {n \in 0 .. Len(noOut) : \A j \in 1 .. n : Reportable(j)}
  <2>1. Len(noOut) \in Nat
    BY <1>0, LenProperties
  <2>2. NoOutCount \in 0 .. Len(noOut)
    <3>1. S \in SUBSET (0 .. Len(noOut)) /\ 0 \in S
      BY <2>1
    <3>2. Back(S) \in S
      <4> HIDE DEF S
      <4> QED BY <2>1, <3>1, BackProperty
    <3> QED BY <3>1, <3>2 DEF NoOutCount
  <2>3. noOut' \in Seq(Works)
    BY <1>0, <1>27, <2>1, <2>2, SubSeqProperties DEF OnReportNoOutFrameFinished
  <2>4. mState' \in {mState, "ERROR"}
    BY <1>27 DEF OnReportNoOutFrameFinished, ReportError
  <2> QED BY <1>0, <1>27, <2>3, <2>4, CompletesType, AnswerType DEF OnReportNoOutFrameFinished
<1>28. CASE OnErrorFrame
  <2>1. Head(tasks).w \in Works
    BY <1>f, <1>28 DEF OnErrorFrame, WorkOps
  <2>2. answer' \in [Works -> {"none", "ok", "eos", "notFound", "lost"}]
    BY <1>0, <1>28, AnswerType DEF OnErrorFrame
  <2> QED BY <1>0, <1>28, <2>1, <2>2, CompletesType DEF OnErrorFrame
<1> QED BY <1>1, <1>2, <1>3, <1>4, <1>5, <1>6, <1>7, <1>8, <1>9, <1>10, <1>11, <1>12, <1>13,
          <1>14, <1>15, <1>16, <1>17, <1>18, <1>19, <1>20, <1>21, <1>22, <1>23, <1>24, <1>25,
          <1>26, <1>27, <1>28 DEF RunTask

\* A component that was created but never started is well formed.
LEMMA InitType == Init => TypeOK
<1> SUFFICES ASSUME Init PROVE FlagsOK /\ DataOK
  BY DEF TypeOK
<1>1. FlagsOK
  BY DEF Init, FlagsOK
<1>2. dec \in Decoders
  BY DEF Init, NoDecoder, Decoders
<1>3. tasks \in Seq(Tasks) /\ outs \in Seq(Pictures) /\ sent \in Seq(Works) /\ noOut \in Seq(Works)
  BY EmptySeq DEF Init
<1>4. next \in 0 .. MaxWorks /\ left \in Nat
  BY BoundsAssumption DEF Init
<1>5. /\ pc \in [Callers -> Places] /\ kind \in [Works -> AllKinds]
      /\ drainAt \in [Works -> {"none", "EOS", "NO_EOS"}]
      /\ answer \in [Works -> {"none", "ok", "eos", "notFound", "lost"}]
  BY DEF Init, Places, AllKinds
<1> QED BY <1>1, <1>2, <1>3, <1>4, <1>5 DEF Init, DataOK

\* Every step keeps the types.
LEMMA TypeStep ==
  ASSUME TypeOK, [Next]_vars
  PROVE  TypeOK'
<1>1. FlagsOK'
  BY FlagsType DEF TypeOK
<1>2. DataOK'
  <2>1. CASE UNCHANGED vars
    BY <2>1 DEF TypeOK, DataOK, vars, clientVars, threadVars, workVars, outVars, envVars
  <2>2. CASE Next
    <3>1. CASE Done
      BY <3>1 DEF Done, TypeOK, DataOK, vars, clientVars, threadVars, workVars, outVars, envVars
    <3> QED BY <2>2, <3>1, CallsType, DecoderType, RunTaskType DEF Next
  <2> QED BY <2>1, <2>2
<1> QED BY <1>1, <1>2 DEF TypeOK

\* Every reachable state is well formed: every task carries the work or the mode its
\* handler needs, and no handler ends a reset that was not begun.
THEOREM TypeCorrect == Spec => []TypeOK
BY InitType, TypeStep, PTL DEF Spec

-----------------------------------------------------------------------------
(* The message loop, by its indices.                                        *)

\* What running a task does to the loop: the task is gone, and one task of the
\* component's own may have been posted.
OwnOps == {"dequeueWork", "sendOutputs", "reportNoOut"}
Took ==
  tasks # <<>> /\ (Completes \/ \E op \in OwnOps : CompletesPosting(PlainTask(op)))

\* Every action of the component thread takes exactly one task.
LEMMA ThreadTakes ==
  ASSUME RunTask
  PROVE  Took
<1> USE DEF Runs, Took, OwnOps
<1>1. ASSUME RefuseTask \/ OnQueueWork \/ SkipDequeue \/ OnDequeueWork PROVE Took
  BY <1>1 DEF RefuseTask, OnQueueWork, SkipDequeue, OnDequeueWork
<1>2. ASSUME OnInputDoneUnknown \/ OnInputBufferDone \/ OnSendOutputs PROVE Took
  BY <1>2 DEF OnInputDoneUnknown, OnInputBufferDone, OnSendOutputs
<1>3. ASSUME OnOutputWhileFlushing \/ OnOutputUnknown \/ OnOutputBufferDone PROVE Took
  BY <1>3 DEF OnOutputWhileFlushing, OnOutputUnknown, OnOutputBufferDone
<1>4. ASSUME OnDrain \/ OnDrainDone PROVE Took
  BY <1>4 DEF OnDrain, OnDrainDone, RestartDequeue
<1>5. ASSUME OnDrainDoneNoEos \/ OnDrainDoneStopping \/ OnDrainDoneUnexpected PROVE Took
  BY <1>5 DEF OnDrainDoneNoEos, OnDrainDoneStopping, OnDrainDoneUnexpected
<1>6. ASSUME OnFlush \/ OnFlushDoneWithError \/ OnFlushDone \/ OnStop \/ OnStopDone PROVE Took
  BY <1>6 DEF OnFlush, OnFlushDoneWithError, OnFlushDone, OnStop, OnStopDone
<1>7. ASSUME OnResetDoneStopped \/ OnResetDoneUnexpected PROVE Took
  BY <1>7 DEF OnResetDoneStopped, OnResetDoneUnexpected
<1>8. ASSUME NEW result \in InitResults, OnStart(result) PROVE Took
  BY <1>8 DEF OnStart
<1>9. ASSUME OnDestroy \/ OnReportError \/ OnNoOutFrameNotify PROVE Took
  BY <1>9 DEF OnDestroy, OnReportError, OnNoOutFrameNotify
<1>10. ASSUME OnReportNoOutFrameFinished \/ OnErrorFrame PROVE Took
  BY <1>10 DEF OnReportNoOutFrameFinished, OnErrorFrame
<1> QED BY <1>1, <1>2, <1>3, <1>4, <1>5, <1>6, <1>7, <1>8, <1>9, <1>10 DEF RunTask

\* After a task was taken, the others are each one place further on.
LEMMA TookTasks ==
  ASSUME TypeOK, Took
  PROVE  /\ Len(tasks) \in Nat /\ Len(tasks') \in Nat
         /\ 1 \in 1 .. Len(tasks) /\ tasks[1] = Head(tasks)
         /\ \A i \in 1 .. Len(tasks') :
              \/ i + 1 \in 1 .. Len(tasks) /\ tasks'[i] = tasks[i + 1]
              \/ i = Len(tasks) /\ tasks'[i].op \in OwnOps
         /\ \A i \in 2 .. Len(tasks) : i - 1 \in 1 .. Len(tasks') /\ tasks'[i - 1] = tasks[i]
<1>1. /\ Len(tasks) \in Nat /\ Len(tasks) # 0 /\ tasks[1] = Head(tasks)
      /\ Tail(tasks) \in Seq(Tasks) /\ Len(Tail(tasks)) = Len(tasks) - 1
      /\ \A i \in 1 .. Len(tasks) - 1 : Tail(tasks)[i] = tasks[i + 1]
  BY HeadTailProperties, LenProperties, EmptySeq DEF TypeOK, DataOK, Took
<1>2. Completes => /\ Len(tasks') = Len(tasks) - 1
                   /\ \A i \in 1 .. Len(tasks) - 1 : tasks'[i] = tasks[i + 1]
  BY <1>1 DEF Completes
<1>3. ASSUME NEW op \in OwnOps, CompletesPosting(PlainTask(op))
      PROVE  /\ Len(tasks') = Len(tasks)
             /\ \A i \in 1 .. Len(tasks) - 1 : tasks'[i] = tasks[i + 1]
             /\ tasks'[Len(tasks)].op \in OwnOps
  <2>1. PlainTask(op) \in Tasks /\ PlainTask(op).op = op
    BY DEF PlainTask, Task, Tasks, PlainOps, OwnOps
  <2> QED BY <1>1, <1>3, <2>1, AppendProperties DEF CompletesPosting
<1>4. Len(tasks) \in Nat /\ 1 \in 1 .. Len(tasks) /\ tasks[1] = Head(tasks)
  BY <1>1
<1>5. \/ Len(tasks') = Len(tasks) - 1
      \/ Len(tasks') = Len(tasks) /\ tasks'[Len(tasks)].op \in OwnOps
  BY <1>2, <1>3 DEF Took
<1>6. Len(tasks') \in Nat /\ \A i \in 1 .. Len(tasks) - 1 : tasks'[i] = tasks[i + 1]
  BY <1>2, <1>3, <1>4 DEF Took
<1>7. \A i \in 1 .. Len(tasks') :
        \/ i + 1 \in 1 .. Len(tasks) /\ tasks'[i] = tasks[i + 1]
        \/ i = Len(tasks) /\ tasks'[i].op \in OwnOps
  BY <1>4, <1>5, <1>6
<1>8. \A i \in 2 .. Len(tasks) : i - 1 \in 1 .. Len(tasks') /\ tasks'[i - 1] = tasks[i]
  BY <1>4, <1>5, <1>6
<1> QED BY <1>4, <1>6, <1>7, <1>8

\* After a task was posted, it is the last one.
LEMMA PostedTasks ==
  ASSUME TypeOK, NEW t \in Tasks, Post(t)
  PROVE  /\ Len(tasks) \in Nat /\ Len(tasks') = Len(tasks) + 1
         /\ \A i \in 1 .. Len(tasks) : tasks'[i] = tasks[i]
         /\ tasks'[Len(tasks) + 1] = t
BY AppendProperties, LenProperties DEF Post, TypeOK, DataOK

DecoderOps == {"inputDone", "outputDone", "noOutNotify", "errorFrame", "drainDone", "resetDone",
               "reportError"}

\* A notification of the decoder posts one task, and none that starts or stops.
LEMMA DecoderPosts ==
  ASSUME TypeOK, Decoder
  PROVE  /\ \E t \in Tasks : t.op \in DecoderOps /\ Post(t)
         /\ UNCHANGED <<clientVars, threadVars, workVars, outVars, next, kind, answer>>
<1>1. /\ Works \in SUBSET Nat
      /\ dec.inputs \in SUBSET Works /\ dec.frames \in SUBSET Works
  BY BoundsAssumption DEF TypeOK, DataOK, Works, Decoders
<1>2. DecInputDone => Front(dec.inputs) \in Works
  BY <1>1, FrontProperty DEF DecInputDone
<1> USE DEF DecoderStep, WorkTask, PlainTask, Task, Tasks, WorkOps, PlainOps, DecoderOps, NoWork
<1>3. ASSUME DecInputDone \/ DecDrained \/ DecResetDone \/ DecError
      PROVE  \E t \in Tasks : t.op \in DecoderOps /\ DecoderStep(t)
  BY <1>2, <1>3 DEF DecInputDone, DecDrained, DecResetDone, DecError
<1>4. ASSUME NEW w \in dec.frames,
             \/ \E quality \in {"good", "bad"} : DecPicture(w, quality)
             \/ DecExtraPicture(w)
             \/ \E op \in {"noOutNotify", "errorFrame"} : DecNoPicture(w, op)
      PROVE  \E t \in Tasks : t.op \in DecoderOps /\ DecoderStep(t)
  BY <1>1, <1>4 DEF DecPicture, DecExtraPicture, DecNoPicture
<1>5. \E t \in Tasks : t.op \in DecoderOps /\ DecoderStep(t)
  BY <1>3, <1>4 DEF Decoder
<1> QED BY <1>5 DEF DecoderStep

-----------------------------------------------------------------------------
(* A stopped component is empty.                                            *)

\* Handing out pictures when there are none changes nothing.
LEMMA NothingToSend ==
  ASSUME SendOutputs(<<>>)
  PROVE  outs' = <<>>
<1>1. SentCount(<<>>) \in 0 .. 0
  <2>1. <<>> \in Seq(Pictures) /\ Len(<<>>) = 0
    BY EmptySeq
  <2> QED BY <2>1, SentCountType
<1>2. ~Discards(<<>>)
  BY <1>1, EmptySeq DEF Discards
<1> QED BY <1>1, <1>2 DEF SendOutputs

\* StoppedIsEmpty is inductive.  Only OnStopDone enters UNINITIALIZED, and there
\* only the handlers that no state check guards touch works or pictures.
LEMMA StoppedStep ==
  ASSUME TypeOK, StoppedIsEmpty, [Next]_vars
  PROVE  StoppedIsEmpty'
<1> USE DEF StoppedIsEmpty, clientVars, threadVars, workVars, outVars, envVars
<1>1. CASE UNCHANGED vars
  BY <1>1 DEF vars
<1>2. ASSUME NEW c \in Callers, Calls(c) PROVE StoppedIsEmpty'
  BY <1>2 DEF Calls, StartCall, StopCall, ResetCall, FlushCall, QueueCall, DrainCall
<1>3. ASSUME NEW c \in Callers, Returns(c) PROVE StoppedIsEmpty'
  BY <1>3 DEF Returns, StartReturn, StopReturn, FlushWait, FlushTimeOut, FlushReturn,
              DestroyCall, StopNeedless, UpdateState
<1>4. CASE Decoder
  BY <1>4, DecoderPosts
<1>5. CASE RunTask
  <2> USE DEF UpdateState, ReportError, Refuses
  <2>1. CASE RefuseTask \/ OnQueueWork \/ SkipDequeue \/ OnDequeueWork
    BY <2>1 DEF RefuseTask, OnQueueWork, SkipDequeue, OnDequeueWork
  <2>2. CASE OnInputDoneUnknown \/ OnInputBufferDone
    BY <2>2 DEF OnInputDoneUnknown, OnInputBufferDone
  <2>3. CASE OnSendOutputs
    BY <2>3, NothingToSend DEF OnSendOutputs, PendingAfter
  <2>4. CASE OnOutputWhileFlushing \/ OnOutputUnknown \/ OnOutputBufferDone
    BY <2>4 DEF OnOutputWhileFlushing, OnOutputUnknown, OnOutputBufferDone
  <2>5. CASE OnDrain \/ OnDrainDone \/ OnDrainDoneNoEos
    BY <2>5 DEF OnDrain, OnDrainDone, OnDrainDoneNoEos
  <2>6. CASE OnDrainDoneStopping \/ OnDrainDoneUnexpected
    BY <2>6 DEF OnDrainDoneStopping, OnDrainDoneUnexpected
  <2>7. CASE OnFlush \/ OnFlushDoneWithError \/ OnFlushDone
    BY <2>7 DEF OnFlush, OnFlushDoneWithError, OnFlushDone
  <2>8. CASE OnStop
    BY <2>8 DEF OnStop
  <2>9. CASE OnStopDone
    BY <2>9 DEF OnStopDone, ClearOutputs
  <2>10. CASE OnResetDoneStopped \/ OnResetDoneUnexpected \/ OnDestroy
    BY <2>10 DEF OnResetDoneStopped, OnResetDoneUnexpected, OnDestroy
  <2>11. ASSUME NEW result \in InitResults, OnStart(result) PROVE StoppedIsEmpty'
    BY <2>11 DEF OnStart
  <2>12. CASE OnReportError \/ OnNoOutFrameNotify
    BY <2>12 DEF OnReportError, OnNoOutFrameNotify
  <2>13. CASE OnReportNoOutFrameFinished \/ OnErrorFrame
    BY <2>13 DEF OnReportNoOutFrameFinished, OnErrorFrame
  <2> QED BY <1>5, <2>1, <2>2, <2>3, <2>4, <2>5, <2>6, <2>7, <2>8, <2>9, <2>10, <2>11, <2>12,
            <2>13 DEF RunTask
<1> QED BY <1>1, <1>2, <1>3, <1>4, <1>5 DEF Next, Done

\* A stopped component holds no work it has dequeued, no picture and no drain,
\* however calls, tasks and notifications interleave.
THEOREM StoppedEmpty == Spec => []StoppedIsEmpty
<1>1. Init => StoppedIsEmpty
  BY DEF Init, StoppedIsEmpty
<1> QED BY <1>1, TypeCorrect, StoppedStep, PTL DEF Spec

-----------------------------------------------------------------------------
(* The event of a stop.  StopEventLive alone is not inductive: it has to be  *)
(* known who holds mStartStopLock, that at most one start or stop is posted, *)
(* and that its caller waits for it.                                         *)

Locked == {"starting", "started", "stopping", "stopDone", "relStopping", "relStopDone"}
StopWaiter(c) == c \in Callers /\ pc[c] \in {"stopping", "relStopping"}

LockHeld == \A c \in Callers : pc[c] \in Locked => lock = c
OneAtATime ==
  \A i, j \in 1 .. Len(tasks) :
    tasks[i].op \in {"start", "stop"} /\ tasks[j].op \in {"start", "stop"} => i = j
StarterWaits ==
  \A i \in 1 .. Len(tasks) :
    tasks[i].op = "start" => lock \in Callers /\ pc[lock] = "starting"
StopperWaits ==
  \A i \in 1 .. Len(tasks) :
    tasks[i].op = "stop" => StopWaiter(lock) /\ comp # "STOPPING"
EventOfHolder == comp = "STOPPING" => stopEvent = lock /\ StopWaiter(lock)

StopProtocol == LockHeld /\ OneAtATime /\ StarterWaits /\ StopperWaits /\ EventOfHolder

\* Taking a task, or posting one that neither starts nor stops, adds no start and
\* no stop: what is required of those in the loop still holds if it only depends on
\* what has not changed.
LEMMA NoNewStop ==
  ASSUME TypeOK, StopProtocol,
         Took \/ UNCHANGED tasks \/ \E t \in Tasks : t.op \notin {"start", "stop"} /\ Post(t)
  PROVE  /\ OneAtATime'
         /\ \A i \in 1 .. Len(tasks') : tasks'[i].op \in {"start", "stop"} =>
              \E j \in 1 .. Len(tasks) : tasks'[i] = tasks[j]
<1>1. CASE Took
  <2>1. \A i \in 1 .. Len(tasks') : tasks'[i].op \in {"start", "stop"} =>
          i + 1 \in 1 .. Len(tasks) /\ tasks'[i] = tasks[i + 1]
    BY <1>1, TookTasks DEF OwnOps
  <2>2. \A i, j \in 1 .. Len(tasks') : i + 1 = j + 1 => i = j
    OBVIOUS
  <2>3. OneAtATime'
    BY <2>1, <2>2 DEF StopProtocol, OneAtATime
  <2> QED BY <2>1, <2>3
<1>2. CASE UNCHANGED tasks
  BY <1>2 DEF StopProtocol, OneAtATime
<1>3. ASSUME NEW t \in Tasks, t.op \notin {"start", "stop"}, Post(t)
      PROVE  \A i \in 1 .. Len(tasks') : tasks'[i].op \in {"start", "stop"} =>
               i \in 1 .. Len(tasks) /\ tasks'[i] = tasks[i]
  BY <1>3, PostedTasks
<1> QED BY <1>1, <1>2, <1>3 DEF StopProtocol, OneAtATime

\* The first task is the only start or stop, if it is one.
LEMMA TakenWasOnly ==
  ASSUME TypeOK, StopProtocol, Took, Head(tasks).op \in {"start", "stop"}
  PROVE  \A i \in 1 .. Len(tasks') : tasks'[i].op \notin {"start", "stop"}
<1> SUFFICES ASSUME NEW i \in 1 .. Len(tasks'), tasks'[i].op \in {"start", "stop"} PROVE FALSE
  OBVIOUS
<1>1. i + 1 \in 1 .. Len(tasks) /\ tasks'[i] = tasks[i + 1]
  BY TookTasks DEF OwnOps
<1>2. 1 \in 1 .. Len(tasks) /\ tasks[1].op \in {"start", "stop"} /\ i + 1 # 1
  BY TookTasks
<1> QED BY <1>1, <1>2 DEF StopProtocol, OneAtATime

\* With an own or a decoder's task, nothing that the protocol speaks of changes.
LEMMA QuietStep ==
  ASSUME TypeOK, StopProtocol, UNCHANGED <<lock, pc, stopEvent>>,
         Took \/ UNCHANGED tasks \/ \E t \in Tasks : t.op \notin {"start", "stop"} /\ Post(t),
         comp' = comp \/ comp' # "STOPPING"
  PROVE  StopProtocol'
<1>1. /\ OneAtATime'
      /\ \A i \in 1 .. Len(tasks') : tasks'[i].op \in {"start", "stop"} =>
           \E j \in 1 .. Len(tasks) : tasks'[i] = tasks[j]
  BY NoNewStop
<1>2. LockHeld' /\ EventOfHolder'
  BY DEF StopProtocol, LockHeld, EventOfHolder, StopWaiter
<1>3. StarterWaits' /\ StopperWaits'
  BY <1>1 DEF StopProtocol, StarterWaits, StopperWaits, StopWaiter
<1> QED BY <1>1, <1>2, <1>3 DEF StopProtocol

\* A step of a client thread that neither has nor takes nor gives up the lock.
LEMMA BystanderStep ==
  ASSUME TypeOK, StopProtocol, NEW c \in Callers, NEW place \in Places \ Locked,
         pc[c] \notin Locked, GoTo(c, place), UNCHANGED <<lock, stopEvent>>,
         UNCHANGED tasks \/ \E t \in Tasks : t.op \notin {"start", "stop"} /\ Post(t),
         comp' = comp \/ comp' # "STOPPING"
  PROVE  StopProtocol'
<1>1. /\ OneAtATime'
      /\ \A i \in 1 .. Len(tasks') : tasks'[i].op \in {"start", "stop"} =>
           \E j \in 1 .. Len(tasks) : tasks'[i] = tasks[j]
  BY NoNewStop
<1>2. \A d \in Callers : pc'[d] = IF d = c THEN place ELSE pc[d]
  BY DEF GoTo, TypeOK, DataOK
<1>3. LockHeld'
  BY <1>2 DEF StopProtocol, LockHeld
<1>4. EventOfHolder'
  BY <1>2 DEF StopProtocol, EventOfHolder, StopWaiter, Locked
<1>5. StarterWaits' /\ StopperWaits'
  BY <1>1, <1>2 DEF StopProtocol, StarterWaits, StopperWaits, StopWaiter, Locked
<1> QED BY <1>1, <1>3, <1>4, <1>5 DEF StopProtocol

\* StopProtocol is inductive.
LEMMA StopProtocolStep ==
  ASSUME TypeOK, StopProtocol, [Next]_vars
  PROVE  StopProtocol'
<1> USE DEF clientVars, threadVars, workVars, outVars, envVars
<1>1. CASE UNCHANGED vars
  BY <1>1, QuietStep DEF vars
<1>2. CASE Decoder
  <2>1. \E t \in Tasks : t.op \notin {"start", "stop"} /\ Post(t)
    BY <1>2, DecoderPosts DEF DecoderOps
  <2> QED BY <1>2, <2>1, DecoderPosts, QuietStep
<1>3. ASSUME NEW c \in Callers, Calls(c) \/ Returns(c) PROVE StopProtocol'
  <2>0. \A op \in {"flush", "dequeueWork", "destroy", "start", "stop"} :
          PlainTask(op) \in Tasks /\ PlainTask(op).op = op
    BY DEF PlainTask, Task, Tasks, PlainOps
  <2>1. \A w \in Works : WorkTask("queueWork", w) \in Tasks /\ WorkTask("queueWork", w).op = "queueWork"
    BY DEF WorkTask, Task, Tasks, WorkOps
  <2>2. \A mode \in {"EOS", "NO_EOS"} : Task("drain", NoWork, mode) \in Tasks
                                        /\ Task("drain", NoWork, mode).op = "drain"
    BY DEF Task, Tasks, PlainOps
  <2>3. CASE StartCall(c) \/ StopCall(c)
    <3> DEFINE place == pc'[c]
    <3>1. /\ lock = NoCaller /\ lock' = c /\ UNCHANGED <<comp, stopEvent>>
          /\ \E t \in Tasks : /\ Post(t)
                              /\ \/ t.op = "start" /\ GoTo(c, "starting")
                                 \/ /\ t.op = "stop"
                                    /\ \E q \in {"stopping", "relStopping"} : GoTo(c, q)
      BY <2>3, <2>0 DEF StartCall, StopCall
    <3>2. PICK t \in Tasks : /\ Post(t)
                             /\ \/ t.op = "start" /\ GoTo(c, "starting")
                                \/ /\ t.op = "stop"
                                   /\ \E q \in {"stopping", "relStopping"} : GoTo(c, q)
      BY <3>1
    <3>3. /\ \A d \in Callers : pc'[d] = IF d = c THEN place ELSE pc[d]
          /\ \/ t.op = "start" /\ place = "starting"
             \/ t.op = "stop" /\ place \in {"stopping", "relStopping"}
      BY <3>2 DEF GoTo, TypeOK, DataOK
    <3>4. \A d \in Callers : pc[d] \notin Locked
      BY <3>1, CallersAssumption DEF StopProtocol, LockHeld
    <3>5. /\ \A i \in 1 .. Len(tasks) : tasks[i].op \notin {"start", "stop"}
          /\ comp # "STOPPING"
      BY <3>1, <3>4, CallersAssumption
         DEF StopProtocol, StarterWaits, StopperWaits, EventOfHolder, StopWaiter
    <3>6. /\ Len(tasks) \in Nat /\ Len(tasks') = Len(tasks) + 1
          /\ \A i \in 1 .. Len(tasks) : tasks'[i] = tasks[i]
          /\ tasks'[Len(tasks) + 1] = t
      BY <3>2, PostedTasks
    <3> HIDE DEF place
    <3>7. \A i \in 1 .. Len(tasks') : tasks'[i].op \in {"start", "stop"} =>
            i = Len(tasks) + 1 /\ tasks'[i] = t
      BY <3>5, <3>6
    <3>8. LockHeld'
      BY <3>1, <3>3, <3>4 DEF LockHeld
    <3>9. OneAtATime'
      BY <3>7 DEF OneAtATime
    <3>10. StarterWaits' /\ StopperWaits' /\ EventOfHolder'
      BY <3>1, <3>3, <3>5, <3>7 DEF StarterWaits, StopperWaits, EventOfHolder, StopWaiter
    <3> QED BY <3>8, <3>9, <3>10 DEF StopProtocol
  <2>4. CASE StartReturn(c) \/ StopReturn(c)
    <3>1. /\ lock' = NoCaller /\ UNCHANGED <<comp, tasks>>
          /\ pc[c] \in {"started", "stopDone", "relStopDone"}
          /\ \E q \in {"idle", "relDone"} : GoTo(c, q)
      BY <2>4 DEF StartReturn, StopReturn
    <3>2. lock = c
      BY <3>1 DEF StopProtocol, LockHeld, Locked
    <3>3. \A d \in Callers : pc'[d] \notin Locked
      BY <3>1, <3>2 DEF StopProtocol, LockHeld, Locked, GoTo, TypeOK, DataOK
    <3>4. /\ \A i \in 1 .. Len(tasks) : tasks[i].op \notin {"start", "stop"}
          /\ comp # "STOPPING"
      BY <3>1, <3>2 DEF StopProtocol, StarterWaits, StopperWaits, EventOfHolder, StopWaiter
    <3> QED BY <3>1, <3>3, <3>4
            DEF StopProtocol, LockHeld, OneAtATime, StarterWaits, StopperWaits, EventOfHolder
  <2>5. CASE ResetCall(c)
    BY <2>5, BystanderStep DEF ResetCall, MayCall, Places, Locked
  <2>6. CASE FlushCall(c)
    BY <2>6, <2>0, BystanderStep DEF FlushCall, MayCall, Places, Locked
  <2>7. CASE FlushWait(c) \/ FlushTimeOut(c)
    BY <2>7, BystanderStep DEF FlushWait, FlushTimeOut, UpdateState, Places, Locked
  <2>8. CASE FlushReturn(c)
    BY <2>8, <2>0, BystanderStep DEF FlushReturn, Places, Locked
  <2>9. CASE DestroyCall(c)
    BY <2>9, <2>0, BystanderStep DEF DestroyCall, Places, Locked
  <2>10. CASE StopNeedless(c)
    BY <2>10, BystanderStep DEF StopNeedless, Places, Locked
  <2>11. ASSUME NEW k \in Kinds, QueueCall(c, k) PROVE StopProtocol'
    <3>1. next + 1 \in Works
      BY <2>11, BoundsAssumption DEF QueueCall, Works, TypeOK, DataOK
    <3> QED BY <2>11, <2>1, <3>1, QuietStep DEF QueueCall
  <2>12. ASSUME NEW mode \in {"EOS", "NO_EOS"}, DrainCall(c, mode) PROVE StopProtocol'
    BY <2>12, <2>2, QuietStep DEF DrainCall
  <2> QED BY <1>3, <2>3, <2>4, <2>5, <2>6, <2>7, <2>8, <2>9, <2>10, <2>11, <2>12
          DEF Calls, Returns
<1>4. CASE RunTask
  <2>0. Took
    BY <1>4, ThreadTakes
  <2>1. CASE OnStop
    <3>1. Head(tasks).op = "stop" /\ UNCHANGED <<lock, pc>>
      BY <2>1 DEF OnStop, Runs
    <3>2. StopWaiter(lock) /\ comp # "STOPPING"
      BY <2>0, <3>1, TookTasks DEF StopProtocol, StopperWaits
    <3>3. \A i \in 1 .. Len(tasks') : tasks'[i].op \notin {"start", "stop"}
      BY <2>0, <3>1, TakenWasOnly
    <3>4. comp' = comp \/ stopEvent' = lock
      BY <2>1 DEF OnStop, KeepDoneEvent
    <3> QED BY <3>1, <3>2, <3>3, <3>4
            DEF StopProtocol, LockHeld, OneAtATime, StarterWaits, StopperWaits, EventOfHolder,
                StopWaiter
  <2>2. CASE OnStopDone
    <3>1. comp = "STOPPING" /\ comp' = "UNINITIALIZED" /\ UNCHANGED lock /\ Signal(stopEvent)
      BY <2>2 DEF OnStopDone, UpdateState
    <3>2. stopEvent = lock /\ StopWaiter(lock)
      BY <3>1 DEF StopProtocol, EventOfHolder
    <3>3. \A d \in Callers : pc'[d] = IF d = lock THEN Signalled(pc[d]) ELSE pc[d]
      BY <3>1, <3>2, CallersAssumption DEF Signal, StopWaiter, TypeOK, DataOK
    <3>4. \A i \in 1 .. Len(tasks) : tasks[i].op \notin {"start", "stop"}
      BY <3>1, <3>2 DEF StopProtocol, StarterWaits, StopperWaits, StopWaiter
    <3>5. \A i \in 1 .. Len(tasks') : tasks'[i].op \notin {"start", "stop"}
      BY <2>0, <3>4, NoNewStop
    <3> QED BY <3>1, <3>3, <3>5
            DEF StopProtocol, LockHeld, OneAtATime, StarterWaits, StopperWaits, EventOfHolder
  <2>3. ASSUME NEW result \in InitResults, OnStart(result) PROVE StopProtocol'
    <3>1. /\ Head(tasks).op = "start" /\ UNCHANGED <<lock, stopEvent>>
          /\ comp' \in {"STARTED", "STARTING"} /\ (pc' = pc \/ Signal(lock))
      BY <2>3 DEF OnStart, Runs, UpdateState
    <3>2. lock \in Callers /\ pc[lock] = "starting"
      BY <2>0, <3>1, TookTasks DEF StopProtocol, StarterWaits
    <3>3. \A d \in Callers : pc'[d] = pc[d] \/ (d = lock /\ pc'[d] = "started")
      BY <3>1, <3>2, CallersAssumption DEF Signal, Signalled, TypeOK, DataOK
    <3>4. \A i \in 1 .. Len(tasks') : tasks'[i].op \notin {"start", "stop"}
      BY <2>0, <3>1, TakenWasOnly
    <3>5. LockHeld'
      BY <3>1, <3>3 DEF StopProtocol, LockHeld
    <3> QED BY <3>1, <3>4, <3>5
            DEF StopProtocol, OneAtATime, StarterWaits, StopperWaits, EventOfHolder
  <2>4. CASE OnDestroy
    <3>1. /\ comp' = "DESTROYED" /\ UNCHANGED lock
          /\ \A d \in Callers : pc'[d] = pc[d] \/ (pc[d] = "destroying" /\ pc'[d] = "released")
      BY <2>4 DEF OnDestroy, UpdateState, Signalled
    <3>2. /\ OneAtATime'
          /\ \A i \in 1 .. Len(tasks') : tasks'[i].op \in {"start", "stop"} =>
               \E j \in 1 .. Len(tasks) : tasks'[i] = tasks[j]
      BY <2>0, NoNewStop
    <3>3. LockHeld' /\ EventOfHolder'
      BY <3>1 DEF StopProtocol, LockHeld, EventOfHolder, Locked
    <3>4. StarterWaits' /\ StopperWaits'
      BY <3>1, <3>2 DEF StopProtocol, StarterWaits, StopperWaits, StopWaiter
    <3> QED BY <3>2, <3>3, <3>4 DEF StopProtocol
  <2>5. CASE OnFlushDone
    <3>1. CASE pc' = pc
      BY <2>0, <2>5, <3>1, QuietStep DEF OnFlushDone, UpdateState
    <3>2. CASE \E c \in Callers : pc[c] = "waiting" /\ GoTo(c, "woken")
      <4>1. /\ comp' = "STARTED" /\ UNCHANGED lock
            /\ \A d \in Callers : pc'[d] = pc[d] \/ (pc[d] = "waiting" /\ pc'[d] = "woken")
        BY <2>5, <3>2 DEF OnFlushDone, UpdateState, GoTo, TypeOK, DataOK
      <4>2. /\ OneAtATime'
            /\ \A i \in 1 .. Len(tasks') : tasks'[i].op \in {"start", "stop"} =>
                 \E j \in 1 .. Len(tasks) : tasks'[i] = tasks[j]
        BY <2>0, NoNewStop
      <4>3. LockHeld' /\ EventOfHolder'
        BY <4>1 DEF StopProtocol, LockHeld, EventOfHolder, Locked
      <4>4. StarterWaits' /\ StopperWaits'
        BY <4>1, <4>2 DEF StopProtocol, StarterWaits, StopperWaits, StopWaiter
      <4> QED BY <4>2, <4>3, <4>4 DEF StopProtocol
    <3> QED BY <2>5, <3>1, <3>2 DEF OnFlushDone
  <2>6. ASSUME UNCHANGED <<lock, pc, stopEvent>>, comp' = comp \/ comp' # "STOPPING"
        PROVE  StopProtocol'
    BY <2>0, <2>6, QuietStep
  <2> USE DEF UpdateState, ReportError
  <2>7. CASE RefuseTask \/ OnQueueWork \/ SkipDequeue \/ OnDequeueWork
    BY <2>6, <2>7 DEF RefuseTask, OnQueueWork, SkipDequeue, OnDequeueWork
  <2>8. CASE OnInputDoneUnknown \/ OnInputBufferDone \/ OnSendOutputs
    BY <2>6, <2>8 DEF OnInputDoneUnknown, OnInputBufferDone, OnSendOutputs
  <2>9. CASE OnOutputWhileFlushing \/ OnOutputUnknown \/ OnOutputBufferDone
    BY <2>6, <2>9 DEF OnOutputWhileFlushing, OnOutputUnknown, OnOutputBufferDone
  <2>10. CASE OnDrain \/ OnDrainDone \/ OnDrainDoneNoEos
    BY <2>6, <2>10 DEF OnDrain, OnDrainDone, OnDrainDoneNoEos
  <2>11. CASE OnDrainDoneStopping \/ OnDrainDoneUnexpected
    BY <2>6, <2>11 DEF OnDrainDoneStopping, OnDrainDoneUnexpected
  <2>12. CASE OnFlush \/ OnFlushDoneWithError
    BY <2>6, <2>12 DEF OnFlush, OnFlushDoneWithError
  <2>13. CASE OnResetDoneStopped \/ OnResetDoneUnexpected
    BY <2>6, <2>13 DEF OnResetDoneStopped, OnResetDoneUnexpected
  <2>14. CASE OnReportError \/ OnNoOutFrameNotify
    BY <2>6, <2>14 DEF OnReportError, OnNoOutFrameNotify
  <2>15. CASE OnReportNoOutFrameFinished \/ OnErrorFrame
    BY <2>6, <2>15 DEF OnReportNoOutFrameFinished, OnErrorFrame
  <2> QED BY <1>4, <2>1, <2>2, <2>3, <2>4, <2>5, <2>7, <2>8, <2>9, <2>10, <2>11, <2>12, <2>13,
            <2>14, <2>15 DEF RunTask
<1> QED BY <1>1, <1>2, <1>3, <1>4 DEF Next, Done

\* The event onStopDone signals belongs to the thread that waits in stop() for it,
\* whoever else starts, stops, resets, flushes or releases in the meantime.
THEOREM StopEvent == Spec => []StopEventLive
<1>1. Init => StopProtocol
  BY EmptySeq DEF Init, StopProtocol, LockHeld, OneAtATime, StarterWaits, StopperWaits,
                  EventOfHolder, Locked
<1>2. StopProtocol => StopEventLive
  BY DEF StopProtocol, EventOfHolder, StopWaiter, StopEventLive
<1> QED BY <1>1, <1>2, TypeCorrect, StopProtocolStep, PTL DEF Spec

-----------------------------------------------------------------------------
(* The order of works.  Order needs to know that what is queued or pending   *)
(* has been accepted, which makes the next work the youngest.                *)

Increasing ==
  \A i, j \in 1 .. Len(tasks) :
    i < j /\ tasks[i].op = "queueWork" /\ tasks[j].op = "queueWork" => tasks[i].w < tasks[j].w
Accepted == \A w \in queue \cup pending : w <= next
OrderInv == Order /\ Accepted

\* A work arrives exactly if some queueWork task carries it.
LEMMA InArriving ==
  ASSUME NEW w
  PROVE  w \in Arriving <=>
           \E i \in 1 .. Len(tasks) : tasks[i].op = "queueWork" /\ tasks[i].w = w
BY DEF Arriving

\* The same after a step.
LEMMA InArrivingPrime ==
  ASSUME NEW w
  PROVE  w \in Arriving' <=>
           \E i \in 1 .. Len(tasks') : tasks'[i].op = "queueWork" /\ tasks'[i].w = w
BY DEF Arriving

\* What arrives are works, and works are natural numbers.
LEMMA ArrivingType ==
  ASSUME TypeOK
  PROVE  Arriving \in SUBSET Works /\ Works \in SUBSET Nat
<1>1. \A i \in 1 .. Len(tasks) : tasks[i] \in Tasks
  BY ElementOfSeq DEF TypeOK, DataOK
<1>2. \A i \in 1 .. Len(tasks) : tasks[i].op = "queueWork" => tasks[i].w \in Works
  BY <1>1 DEF Tasks, PlainOps
<1> QED BY <1>2, BoundsAssumption DEF Arriving, Works

\* When the component thread takes a queueWork task, it takes the oldest of the
\* works that arrive; any other task leaves them alone.
LEMMA ArrivingTook ==
  ASSUME TypeOK, Increasing, Took
  PROVE  /\ Increasing'
         /\ Head(tasks).op # "queueWork" => Arriving' = Arriving
         /\ Head(tasks).op = "queueWork" =>
              /\ Head(tasks).w \in Arriving
              /\ Arriving' = Arriving \ {Head(tasks).w}
              /\ \A w \in Arriving' : Head(tasks).w < w
<1>1. /\ Len(tasks) \in Nat /\ 1 \in 1 .. Len(tasks) /\ tasks[1] = Head(tasks)
      /\ \A i \in 1 .. Len(tasks') : tasks'[i].op = "queueWork" =>
           i + 1 \in 1 .. Len(tasks) /\ tasks'[i] = tasks[i + 1]
      /\ \A i \in 2 .. Len(tasks) : i - 1 \in 1 .. Len(tasks') /\ tasks'[i - 1] = tasks[i]
  BY TookTasks DEF OwnOps
<1>2. Increasing'
  <2> SUFFICES ASSUME NEW i \in 1 .. Len(tasks'), NEW j \in 1 .. Len(tasks'), i < j,
                      tasks'[i].op = "queueWork", tasks'[j].op = "queueWork"
               PROVE  tasks'[i].w < tasks'[j].w
    BY DEF Increasing
  <2>1. i + 1 < j + 1
    OBVIOUS
  <2> QED BY <1>1, <2>1 DEF Increasing
<1>3. \A w \in Arriving' :
        \E i \in 2 .. Len(tasks) : tasks[i].op = "queueWork" /\ tasks[i].w = w
  <2> SUFFICES ASSUME NEW w \in Arriving'
               PROVE  \E i \in 2 .. Len(tasks) : tasks[i].op = "queueWork" /\ tasks[i].w = w
    OBVIOUS
  <2>1. PICK i \in 1 .. Len(tasks') : tasks'[i].op = "queueWork" /\ tasks'[i].w = w
    BY InArrivingPrime
  <2>2. i + 1 \in 2 .. Len(tasks) /\ tasks[i + 1] = tasks'[i]
    BY <1>1, <2>1
  <2> QED BY <2>1, <2>2
<1>4. \A i \in 2 .. Len(tasks) : tasks[i].op = "queueWork" => tasks[i].w \in Arriving'
  <2> SUFFICES ASSUME NEW i \in 2 .. Len(tasks), tasks[i].op = "queueWork"
               PROVE  tasks[i].w \in Arriving'
    OBVIOUS
  <2>1. i - 1 \in 1 .. Len(tasks') /\ tasks'[i - 1] = tasks[i]
    BY <1>1
  <2> QED BY <2>1, InArrivingPrime
<1>5. \A w : w \in Arriving <=> \/ w \in Arriving'
                                \/ Head(tasks).op = "queueWork" /\ w = Head(tasks).w
  <2> TAKE w
  <2>1. ASSUME w \in Arriving
        PROVE  w \in Arriving' \/ (Head(tasks).op = "queueWork" /\ w = Head(tasks).w)
    <3>1. PICK i \in 1 .. Len(tasks) : tasks[i].op = "queueWork" /\ tasks[i].w = w
      BY <2>1, InArriving
    <3>2. i = 1 \/ i \in 2 .. Len(tasks)
      BY <1>1
    <3> QED BY <1>1, <1>4, <3>1, <3>2
  <2>2. ASSUME w \in Arriving' PROVE w \in Arriving
    BY <1>1, <1>3, <2>2, InArriving
  <2>3. ASSUME Head(tasks).op = "queueWork" PROVE Head(tasks).w \in Arriving
    BY <1>1, <2>3, InArriving
  <2> QED BY <2>1, <2>2, <2>3
<1>6. Head(tasks).op = "queueWork" => \A w \in Arriving' : Head(tasks).w < w
  <2> SUFFICES ASSUME Head(tasks).op = "queueWork", NEW w \in Arriving'
               PROVE  Head(tasks).w < w
    OBVIOUS
  <2>1. PICK i \in 2 .. Len(tasks) : tasks[i].op = "queueWork" /\ tasks[i].w = w
    BY <1>3
  <2>2. 1 < i /\ i \in 1 .. Len(tasks)
    BY <1>1
  <2> QED BY <1>1, <2>1, <2>2 DEF Increasing
<1>7. Head(tasks).op = "queueWork" => Head(tasks).w \in Nat
  BY <1>5, ArrivingType
<1>8. Head(tasks).op # "queueWork" => Arriving' = Arriving
  BY <1>5
<1>9. Head(tasks).op = "queueWork" =>
        Head(tasks).w \in Arriving /\ Arriving' = Arriving \ {Head(tasks).w}
  BY <1>5, <1>6, <1>7
<1> QED BY <1>2, <1>6, <1>8, <1>9

\* Posting a task adds its work to those that arrive if it is a queueWork task.
LEMMA ArrivingPosted ==
  ASSUME TypeOK, NEW t \in Tasks, Post(t)
  PROVE  /\ t.op # "queueWork" => Arriving' = Arriving
         /\ t.op = "queueWork" => Arriving' = Arriving \cup {t.w}
         /\ (t.op = "queueWork" => \A w \in Arriving : w < t.w) => (Increasing => Increasing')
<1>1. /\ Len(tasks) \in Nat /\ Len(tasks') = Len(tasks) + 1
      /\ \A i \in 1 .. Len(tasks) : tasks'[i] = tasks[i]
      /\ tasks'[Len(tasks) + 1] = t
  BY PostedTasks
<1>2. \A i : i \in 1 .. Len(tasks') <=> i \in 1 .. Len(tasks) \/ i = Len(tasks) + 1
  BY <1>1
<1>3. \A w : w \in Arriving' <=> w \in Arriving \/ (t.op = "queueWork" /\ w = t.w)
  BY <1>1, <1>2, InArriving, InArrivingPrime
<1>4. ASSUME Increasing, t.op = "queueWork" => \A w \in Arriving : w < t.w
      PROVE  Increasing'
  <2> SUFFICES ASSUME NEW i \in 1 .. Len(tasks'), NEW j \in 1 .. Len(tasks'), i < j,
                      tasks'[i].op = "queueWork", tasks'[j].op = "queueWork"
               PROVE  tasks'[i].w < tasks'[j].w
    BY DEF Increasing
  <2>1. i \in 1 .. Len(tasks)
    BY <1>1
  <2>2. CASE j \in 1 .. Len(tasks)
    BY <1>1, <1>4, <2>1, <2>2 DEF Increasing
  <2>3. CASE j = Len(tasks) + 1
    <3>1. tasks[i].w \in Arriving
      BY <1>1, <2>1, InArriving
    <3> QED BY <1>1, <1>4, <2>1, <2>3, <3>1
  <2> QED BY <1>2, <2>2, <2>3
<1>5. (t.op # "queueWork" => Arriving' = Arriving)
      /\ (t.op = "queueWork" => Arriving' = Arriving \cup {t.w})
  BY <1>3
<1> QED BY <1>4, <1>5

\* Handlers other than onQueueWork and onDequeueWork only ever take works away.
LEMMA WorksLeave ==
  ASSUME RunTask, ~OnQueueWork, ~OnDequeueWork
  PROVE  queue' \subseteq queue /\ pending' \subseteq pending /\ next' = next
<1> USE DEF workVars, envVars, PendingAfter
<1> DEFINE Leave == queue' \subseteq queue /\ pending' \subseteq pending /\ next' = next
<1>1. CASE RefuseTask \/ SkipDequeue
  BY <1>1 DEF RefuseTask, SkipDequeue
<1>2. CASE OnInputDoneUnknown \/ OnInputBufferDone \/ OnSendOutputs
  BY <1>2 DEF OnInputDoneUnknown, OnInputBufferDone, OnSendOutputs
<1>3. CASE OnOutputWhileFlushing \/ OnOutputUnknown \/ OnOutputBufferDone
  BY <1>3 DEF OnOutputWhileFlushing, OnOutputUnknown, OnOutputBufferDone
<1>4. CASE OnDrain
  BY <1>4 DEF OnDrain
<1>5. CASE OnDrainDone
  BY <1>5 DEF OnDrainDone, ReportEos
<1>6. CASE OnDrainDoneNoEos \/ OnDrainDoneStopping \/ OnDrainDoneUnexpected
  BY <1>6 DEF OnDrainDoneNoEos, OnDrainDoneStopping, OnDrainDoneUnexpected, ReportEos
<1>7. CASE OnFlush \/ OnFlushDoneWithError \/ OnFlushDone
  BY <1>7 DEF OnFlush, OnFlushDoneWithError, OnFlushDone
<1>8. CASE OnStop \/ OnStopDone
  BY <1>8 DEF OnStop, OnStopDone
<1>9. CASE OnResetDoneStopped \/ OnResetDoneUnexpected \/ OnDestroy
  BY <1>9 DEF OnResetDoneStopped, OnResetDoneUnexpected, OnDestroy
<1>10. ASSUME NEW result \in InitResults, OnStart(result) PROVE Leave
  BY <1>10 DEF OnStart
<1>11. CASE OnReportError \/ OnNoOutFrameNotify
  BY <1>11 DEF OnReportError, OnNoOutFrameNotify
<1>12. CASE OnReportNoOutFrameFinished \/ OnErrorFrame
  BY <1>12 DEF OnReportNoOutFrameFinished, OnErrorFrame
<1> QED BY <1>1, <1>2, <1>3, <1>4, <1>5, <1>6, <1>7, <1>8, <1>9, <1>10, <1>11, <1>12 DEF RunTask

\* A queueWork task that is not refused is taken by onQueueWork.
LEMMA QueueWorkTaken ==
  ASSUME RunTask, ~OnQueueWork, Head(tasks).op = "queueWork"
  PROVE  RefuseTask
<1> USE DEF Runs, RunTask
<1> QED BY DEF SkipDequeue, OnDequeueWork, OnInputDoneUnknown, OnInputBufferDone,
         OnSendOutputs, OnOutputWhileFlushing, OnOutputUnknown, OnOutputBufferDone, OnDrain,
         OnDrainDone, OnDrainDoneNoEos, OnDrainDoneStopping, OnDrainDoneUnexpected, OnFlush,
         OnFlushDoneWithError, OnFlushDone, OnStop, OnStopDone, OnResetDoneStopped,
         OnResetDoneUnexpected, OnStart, OnDestroy, OnReportError, OnNoOutFrameNotify,
         OnReportNoOutFrameFinished, OnErrorFrame

\* The client's calls other than queue_nb, and the decoder, bring no work.
LEMMA NoWorkComes ==
  ASSUME TypeOK, \/ UNCHANGED vars
                 \/ Decoder
                 \/ \E c \in Callers : Returns(c)
                 \/ \E c \in Callers : Calls(c) /\ ~(\E k \in Kinds : QueueCall(c, k))
  PROVE  /\ UNCHANGED <<queue, pending, abandoned, next>>
         /\ UNCHANGED tasks \/ \E t \in Tasks : t.op # "queueWork" /\ Post(t)
<1> USE DEF clientVars, threadVars, workVars, outVars, envVars
<1>1. CASE UNCHANGED vars
  BY <1>1 DEF vars
<1>2. CASE Decoder
  BY <1>2, DecoderPosts DEF DecoderOps
<1>0. \A op \in PlainOps : PlainTask(op) \in Tasks /\ PlainTask(op).op = op
  BY DEF PlainTask, Task, Tasks
<1>3. ASSUME NEW c \in Callers, Returns(c)
      PROVE  /\ UNCHANGED <<queue, pending, abandoned, next>>
             /\ UNCHANGED tasks \/ \E t \in Tasks : t.op # "queueWork" /\ Post(t)
  BY <1>0, <1>3 DEF Returns, StartReturn, StopReturn, FlushWait, FlushTimeOut, FlushReturn,
                    DestroyCall, StopNeedless, PlainOps
<1>4. ASSUME NEW c \in Callers, StartCall(c) \/ StopCall(c) \/ ResetCall(c) \/ FlushCall(c)
      PROVE  /\ UNCHANGED <<queue, pending, abandoned, next>>
             /\ UNCHANGED tasks \/ \E t \in Tasks : t.op # "queueWork" /\ Post(t)
  BY <1>0, <1>4 DEF StartCall, StopCall, ResetCall, FlushCall, PlainOps
<1>5. ASSUME NEW c \in Callers, NEW mode \in {"EOS", "NO_EOS"}, DrainCall(c, mode)
      PROVE  /\ UNCHANGED <<queue, pending, abandoned, next>>
             /\ UNCHANGED tasks \/ \E t \in Tasks : t.op # "queueWork" /\ Post(t)
  <2>1. Task("drain", NoWork, mode) \in Tasks /\ Task("drain", NoWork, mode).op = "drain"
    BY DEF Task, Tasks, PlainOps
  <2> QED BY <1>5, <2>1 DEF DrainCall
<1> QED BY <1>1, <1>2, <1>3, <1>4, <1>5 DEF Calls

\* Order with Accepted is inductive.
LEMMA OrderStep ==
  ASSUME TypeOK, OrderInv, [Next]_vars
  PROVE  OrderInv'
<1>0. /\ Increasing /\ Accepted
      /\ \A w \in Arriving : w <= next /\ \A v \in queue \cup pending : v < w
      /\ \A w \in queue, v \in pending : v < w
  BY DEF OrderInv, Order, Increasing
<1>a. ASSUME Increasing', \A w \in (queue \cup pending)' : w <= next',
             \A w \in Arriving' : w <= next' /\ \A v \in (queue \cup pending)' : v < w,
             \A w \in queue', v \in pending' : v < w
      PROVE  OrderInv'
  BY <1>a DEF OrderInv, Order, Increasing, Accepted
<1>b. /\ Arriving \in SUBSET Works /\ Works \in SUBSET Nat /\ next \in Nat
      /\ queue \in SUBSET Works /\ pending \in SUBSET Works
  BY ArrivingType DEF TypeOK, DataOK
<1>1. ASSUME UNCHANGED <<queue, pending, next>>,
             UNCHANGED tasks \/ \E t \in Tasks : t.op # "queueWork" /\ Post(t)
      PROVE  OrderInv'
  <2>1. Increasing' /\ Arriving' = Arriving
    <3>1. CASE UNCHANGED tasks
      BY <1>0, <3>1 DEF Increasing, Arriving
    <3>2. ASSUME NEW t \in Tasks, t.op # "queueWork", Post(t)
          PROVE  Increasing' /\ Arriving' = Arriving
      BY <1>0, <3>2, ArrivingPosted
    <3> QED BY <1>1, <3>1, <3>2
  <2> QED BY <1>0, <1>1, <1>a, <2>1 DEF Accepted
<1>2. ASSUME NEW c \in Callers, NEW k \in Kinds, QueueCall(c, k) PROVE OrderInv'
  <2>1. next + 1 \in Works /\ next' = next + 1 /\ UNCHANGED <<queue, pending>>
    BY <1>2, BoundsAssumption DEF QueueCall, Works, TypeOK, DataOK, workVars
  <2> DEFINE t == WorkTask("queueWork", next + 1)
  <2>2. t \in Tasks /\ t.op = "queueWork" /\ t.w = next + 1 /\ Post(t)
    BY <1>2, <2>1 DEF WorkTask, Task, Tasks, WorkOps, QueueCall
  <2>3. \A w \in Arriving : w < next + 1
    BY <1>0, <1>b
  <2> HIDE DEF t
  <2>4. Increasing' /\ Arriving' = Arriving \cup {next + 1}
    BY <1>0, <2>2, <2>3, ArrivingPosted
  <2> QED BY <1>0, <1>a, <1>b, <2>1, <2>4 DEF Accepted
<1>3. CASE RunTask
  <2>0. Took
    BY <1>3, ThreadTakes
  <2>1. Increasing'
    BY <1>0, <2>0, ArrivingTook
  <2>2. CASE OnQueueWork
    <3> DEFINE w == Head(tasks).w
    <3>1. Head(tasks).op = "queueWork" /\ queue' = queue \cup {w} /\ UNCHANGED <<pending, next>>
      BY <2>2 DEF OnQueueWork, Runs, envVars
    <3>2. /\ w \in Arriving /\ Arriving' = Arriving \ {w}
          /\ \A v \in Arriving' : w < v
      BY <1>0, <2>0, <3>1, ArrivingTook
    <3> HIDE DEF w
    <3> QED BY <1>0, <1>a, <2>1, <3>1, <3>2 DEF Accepted
  <2>3. CASE OnDequeueWork
    <3> DEFINE w == Front(queue)
    <3>1. /\ Head(tasks).op # "queueWork" /\ queue # {} /\ queue' = queue \ {w}
          /\ pending' \subseteq pending \cup {w} /\ next' = next
      BY <2>3 DEF OnDequeueWork, Runs
    <3>2. w \in queue /\ \A v \in queue : w <= v
      BY <1>b, <3>1, FrontProperty
    <3>3. Arriving' = Arriving
      BY <1>0, <2>0, <3>1, ArrivingTook
    <3> HIDE DEF w
    <3>4. \A v \in queue' : w < v
      BY <1>b, <3>1, <3>2
    <3> QED BY <1>0, <1>a, <2>1, <3>1, <3>2, <3>3, <3>4 DEF Accepted
  <2>4. CASE ~OnQueueWork /\ ~OnDequeueWork
    <3>1. queue' \subseteq queue /\ pending' \subseteq pending /\ next' = next
      BY <1>3, <2>4, WorksLeave
    <3>2. Arriving' \subseteq Arriving
      BY <1>0, <2>0, ArrivingTook
    <3> QED BY <1>0, <1>a, <2>1, <3>1, <3>2 DEF Accepted
  <2> QED BY <2>2, <2>3, <2>4
<1>4. CASE RunTask \/ \E c \in Callers, k \in Kinds : QueueCall(c, k)
  BY <1>2, <1>3, <1>4
<1>5. CASE ~RunTask /\ ~(\E c \in Callers, k \in Kinds : QueueCall(c, k))
  <2>1. \/ UNCHANGED vars \/ Decoder
        \/ \E c \in Callers : Returns(c)
        \/ \E c \in Callers : Calls(c) /\ ~(\E k \in Kinds : QueueCall(c, k))
    BY <1>5 DEF Next, Done
  <2>2. /\ UNCHANGED <<queue, pending, next>>
        /\ UNCHANGED tasks \/ \E t \in Tasks : t.op # "queueWork" /\ Post(t)
    BY <2>1, NoWorkComes
  <2> QED BY <2>2, <1>1
<1> QED BY <1>4, <1>5

\* Works keep the order in which queue_nb accepted them, through the message loop,
\* mQueue and mPendingWorks.  It is what makes a deque of works the set of its
\* members, front() its least and back() its greatest.
THEOREM WorksInOrder == Spec => []Order
<1>1. Init => OrderInv
  BY EmptySeq DEF Init, OrderInv, Order, Accepted, Arriving
<1>2. OrderInv => Order
  BY DEF OrderInv
<1> QED BY <1>1, <1>2, TypeCorrect, OrderStep, PTL DEF Spec

-----------------------------------------------------------------------------
(* Where works are.  Placed(w) is WorkAccounting for one work, with the fact *)
(* that a work not accepted yet has no answer.                               *)

Placed(w) ==
  /\ w <= next /\ answer[w] = "none" <=>
       \/ w \in Arriving \/ w \in queue \/ w \in pending \/ w \in abandoned \/ w \in flushList
  /\ w \in Arriving => w \notin queue /\ w \notin pending /\ w \notin abandoned /\ w \notin flushList
  /\ w \in queue => w \notin pending /\ w \notin abandoned /\ w \notin flushList
  /\ w \in pending => w \notin abandoned /\ w \notin flushList
  /\ w \in abandoned => w \notin flushList
  /\ ~(w <= next) => answer[w] = "none"
AllPlaced == \A w \in Works : Placed(w)

\* All works are placed exactly if they are accounted for.
LEMMA PlacedIsAccounted ==
  ASSUME TypeOK, AllPlaced
  PROVE  WorkAccounting
<1>1. /\ Arriving \in SUBSET Works /\ Works \in SUBSET Nat /\ queue \in SUBSET Works
      /\ pending \in SUBSET Works /\ abandoned \in SUBSET Works /\ flushList \in SUBSET Works
  BY ArrivingType DEF TypeOK, DataOK
<1>2. \A w \in Works : w \in 1 .. next <=> w <= next
  BY DEF Works, TypeOK, DataOK
<1>3. ASSUME NEW w \in Works
      PROVE  w \in 1 .. next /\ answer[w] = "none"
               <=> w \in Arriving \cup queue \cup pending \cup abandoned \cup flushList
  BY <1>2 DEF AllPlaced, Placed
<1>4. Arriving \cap queue = {} /\ (Arriving \cup queue) \cap pending = {}
  BY <1>1 DEF AllPlaced, Placed
<1>5. /\ (Arriving \cup queue \cup pending) \cap abandoned = {}
      /\ (Arriving \cup queue \cup pending \cup abandoned) \cap flushList = {}
  BY <1>1 DEF AllPlaced, Placed
<1> QED BY <1>3, <1>4, <1>5 DEF WorkAccounting

\* The answers a handler gives, work by work.
LEMMA AnswerAt ==
  ASSUME NEW w \in Works, NEW S, NEW how
  PROVE  Answer(S, how)[w] = IF w \in S THEN how ELSE answer[w]
BY DEF Answer

\* The step leaves w in its place, moves it to another, or gives it back if it was
\* still to be given back.
Keeps(w) ==
  /\ Placed(w)'
  /\ answer'[w] # answer[w] => w <= next /\ answer[w] = "none"

\* A step that keeps every work where it is and answers none keeps it placed.
LEMMA PlacedStays ==
  ASSUME AllPlaced, NEW w \in Works,
         UNCHANGED <<queue, pending, abandoned, flushList, next, answer>>, Arriving' = Arriving
  PROVE  Keeps(w)
BY DEF AllPlaced, Placed, Keeps

\* reportEOSWork gives back all pending works, of which those answered just before are
\* some, and perhaps the abandoned ones.
LEMMA ReportEosPlaced ==
  ASSUME TypeOK, AllPlaced, NEW answered \in SUBSET pending, NEW w \in Works,
         ReportEos(pending \ answered, answered),
         UNCHANGED <<queue, flushList, next>>, Arriving' = Arriving
  PROVE  Keeps(w)
<1> DEFINE works == pending \ answered
           alone == works = {Back(works)}
<1>1. works # {} /\ pending' = {} /\ abandoned' = (IF alone THEN abandoned ELSE {})
  BY DEF ReportEos
<1>2. Back(works) \in works
  <2>1. works \in SUBSET (0 .. MaxWorks) /\ MaxWorks \in Nat
    BY BoundsAssumption DEF TypeOK, DataOK, Works
  <2> HIDE DEF works
  <2> QED BY <1>1, <2>1, BackProperty
<1>3. answer'[w] = IF w = Back(works) THEN "eos"
                   ELSE IF w \in works \cup (IF alone THEN {} ELSE abandoned) THEN "notFound"
                   ELSE IF w \in answered THEN "ok" ELSE answer[w]
  BY DEF ReportEos
<1>4. w \in pending <=> w \in works \/ w \in answered
  OBVIOUS
<1> HIDE DEF works, alone
<1>5. answer'[w] = "none" <=>
        answer[w] = "none" /\ w \notin pending /\ (w \in abandoned => alone)
  BY <1>2, <1>3, <1>4 DEF AllPlaced, Placed
<1>6. w \in abandoned' <=> w \in abandoned /\ alone
  BY <1>1
<1>7. w \notin pending'
  BY <1>1
<1>8. answer'[w] # answer[w] => w \in pending \/ w \in abandoned
  BY <1>2, <1>3, <1>4
<1> QED BY <1>5, <1>6, <1>7, <1>8 DEF AllPlaced, Placed, Keeps

\* Running a task keeps every work in one place or answers it, once.
LEMMA RunTaskPlaced ==
  ASSUME TypeOK, OrderInv, AllPlaced, RunTask, NEW w \in Works
  PROVE  Keeps(w)
<1>0. Took /\ Increasing
  BY ThreadTakes DEF OrderInv, Order, Increasing
<1>a. Head(tasks).op # "queueWork" => Arriving' = Arriving
  BY <1>0, ArrivingTook
<1>b. Head(tasks).op = "queueWork" =>
        Head(tasks).w \in Arriving /\ Arriving' = Arriving \ {Head(tasks).w}
  BY <1>0, ArrivingTook
<1>c. Placed(w)
  BY DEF AllPlaced
<1>d. \A S, how : Answer(S, how)[w] = IF w \in S THEN how ELSE answer[w]
  BY AnswerAt
<1> USE DEF workVars, envVars, Runs
<1>1. CASE RefuseTask
  <2>1. CASE Head(tasks).op = "queueWork"
    BY <1>1, <1>b, <1>c, <1>d, <2>1 DEF RefuseTask, Placed, Keeps
  <2>2. CASE Head(tasks).op # "queueWork"
    BY <1>1, <1>a, <2>2, PlacedStays DEF RefuseTask
  <2> QED BY <2>1, <2>2
<1>2. CASE OnQueueWork
  BY <1>2, <1>b, <1>c DEF OnQueueWork, Placed, Keeps
<1>3. CASE SkipDequeue \/ OnInputDoneUnknown
  BY <1>3, <1>a, PlacedStays DEF SkipDequeue, OnInputDoneUnknown
<1>4. CASE OnDequeueWork
  <2> DEFINE v == Front(queue)
             atOnce == \E eos \in BOOLEAN : ReportedAtOnce(v, eos)
  <2>1. queue \in SUBSET Nat /\ queue # {}
    BY <1>4, ArrivingType DEF OnDequeueWork, TypeOK, DataOK
  <2>2. v \in queue
    BY <2>1, FrontProperty
  <2>3. /\ queue' = queue \ {v}
        /\ \/ pending' = pending /\ answer' = Answer({v}, "ok")
           \/ pending' = pending \cup {v} /\ answer' = answer
        /\ UNCHANGED <<abandoned, flushList, next>> /\ Arriving' = Arriving
    BY <1>4, <1>a DEF OnDequeueWork
  <2> HIDE DEF v
  <2> QED BY <1>c, <1>d, <2>2, <2>3 DEF Placed, Keeps
<1>5. CASE OnInputBufferDone
  <2> DEFINE v == Head(tasks).w
  <2>1. /\ v \in pending
        /\ \/ pending' = pending \ {v} /\ answer' = Answer({v}, "ok")
           \/ pending' = pending /\ answer' = answer
        /\ UNCHANGED <<queue, abandoned, flushList, next>> /\ Arriving' = Arriving
    BY <1>5, <1>a DEF OnInputBufferDone
  <2> HIDE DEF v
  <2> QED BY <1>c, <1>d, <2>1 DEF Placed, Keeps
<1>6. ASSUME NEW S \in SUBSET pending,
             pending' = pending \ S, answer' = Answer(S, "ok"),
             UNCHANGED <<queue, abandoned, flushList, next>>, Arriving' = Arriving
      PROVE  Keeps(w)
  BY <1>6, <1>c, <1>d DEF Placed, Keeps
<1>7. \A o : SentWorks(o) \in SUBSET pending /\ PendingAfter(o) = pending \ SentWorks(o)
  BY DEF SentWorks, PendingAfter
<1>8. CASE OnSendOutputs
  BY <1>6, <1>7, <1>8, <1>a DEF OnSendOutputs
<1>9. CASE OnOutputWhileFlushing \/ OnOutputUnknown
  BY <1>9, <1>a, PlacedStays DEF OnOutputWhileFlushing, OnOutputUnknown
<1>10. CASE OnOutputBufferDone
  BY <1>6, <1>7, <1>10, <1>a DEF OnOutputBufferDone
<1>11. CASE OnDrain
  BY <1>11, <1>a, PlacedStays DEF OnDrain
<1>12. CASE OnDrainDone
  <2>1. UNCHANGED <<queue, flushList, next>> /\ Arriving' = Arriving
    BY <1>12, <1>a DEF OnDrainDone
  <2>2. CASE ReportEos(PendingAfter(outs), SentWorks(outs))
    BY <1>7, <2>1, <2>2, ReportEosPlaced
  <2>3. CASE /\ pending' = PendingAfter(outs) /\ answer' = Answer(SentWorks(outs), "ok")
             /\ UNCHANGED abandoned
    BY <1>6, <1>7, <2>1, <2>3
  <2> QED BY <1>12, <2>2, <2>3 DEF OnDrainDone
<1>13. CASE OnDrainDoneNoEos
  <2>1. /\ PendingAfter(outs) = {} /\ pending' = {} /\ answer' = Answer(SentWorks(outs), "ok")
        /\ UNCHANGED <<queue, abandoned, flushList, next>> /\ Arriving' = Arriving
    BY <1>13, <1>a DEF OnDrainDoneNoEos
  <2> QED BY <1>6, <1>7, <2>1
<1>14. CASE OnDrainDoneStopping
  <2>1. UNCHANGED <<queue, flushList, next>> /\ Arriving' = Arriving
    BY <1>14, <1>a DEF OnDrainDoneStopping
  <2>2. CASE ReportEos(pending, {})
    <3>1. pending \ {} = pending /\ {} \in SUBSET pending
      OBVIOUS
    <3> QED BY <2>1, <2>2, <3>1, ReportEosPlaced
  <2>3. CASE UNCHANGED <<answer, abandoned, pending>>
    BY <2>1, <2>3, PlacedStays
  <2> QED BY <1>14, <2>2, <2>3 DEF OnDrainDoneStopping
<1>15. CASE OnDrainDoneUnexpected \/ OnFlush \/ OnFlushDoneWithError
  BY <1>15, <1>a, PlacedStays DEF OnDrainDoneUnexpected, OnFlush, OnFlushDoneWithError
<1>16. CASE OnFlushDone
  <2>1. /\ answer' = Answer(flushList, "lost") /\ flushList' = queue \cup abandoned \cup pending
        /\ queue' = {} /\ abandoned' = {} /\ pending' = {} /\ next' = next /\ Arriving' = Arriving
    BY <1>16, <1>a DEF OnFlushDone, Flushed
  <2> QED BY <1>c, <1>d, <2>1 DEF Placed, Keeps
<1>17. CASE OnStop
  <2>1. /\ \/ UNCHANGED <<queue, abandoned>>
           \/ abandoned' = abandoned \cup queue /\ queue' = {}
        /\ UNCHANGED <<pending, flushList, next, answer>> /\ Arriving' = Arriving
    BY <1>17, <1>a DEF OnStop
  <2> QED BY <1>c, <2>1 DEF Placed, Keeps
<1>18. CASE OnStopDone
  <2>1. /\ answer' = Answer(pending \cup abandoned, "notFound") /\ pending' = {} /\ abandoned' = {}
        /\ UNCHANGED <<queue, flushList, next>> /\ Arriving' = Arriving
    BY <1>18, <1>a DEF OnStopDone, Abandoned
  <2> QED BY <1>c, <1>d, <2>1 DEF Placed, Keeps
<1>19. CASE OnResetDoneStopped \/ OnResetDoneUnexpected \/ OnDestroy
  BY <1>19, <1>a, PlacedStays DEF OnResetDoneStopped, OnResetDoneUnexpected, OnDestroy
<1>20. ASSUME NEW result \in InitResults, OnStart(result) PROVE Keeps(w)
  BY <1>20, <1>a, PlacedStays DEF OnStart
<1>21. CASE OnReportError \/ OnNoOutFrameNotify
  BY <1>21, <1>a, PlacedStays DEF OnReportError, OnNoOutFrameNotify
<1>22. CASE OnReportNoOutFrameFinished
  <2> DEFINE reported == {noOut[i] : i \in 1 .. NoOutCount}
             N == {n \in 0 .. Len(noOut) : \A j \in 1 .. n : Reportable(j)}
  <2>1. Len(noOut) \in Nat
    BY LenProperties DEF TypeOK, DataOK
  <2>2. N \in SUBSET (0 .. Len(noOut)) /\ 0 \in N
    BY <2>1
  <2>3. NoOutCount \in N
    <3>1. Back(N) \in N
      <4> HIDE DEF N
      <4> QED BY <2>1, <2>2, BackProperty
    <3> QED BY <3>1 DEF NoOutCount
  <2>4. reported \in SUBSET pending
    BY <2>3 DEF Reportable
  <2>5. /\ pending' = pending \ reported /\ answer' = Answer(reported, "ok")
        /\ UNCHANGED <<queue, abandoned, flushList, next>> /\ Arriving' = Arriving
    BY <1>22, <1>a DEF OnReportNoOutFrameFinished
  <2> HIDE DEF reported
  <2> QED BY <1>6, <2>4, <2>5
<1>23. CASE OnErrorFrame
  <2> DEFINE v == Head(tasks).w
  <2>1. /\ \/ v \in pending /\ pending' = pending \ {v} /\ answer' = Answer({v}, "ok")
           \/ pending' = pending /\ answer' = answer
        /\ UNCHANGED <<queue, abandoned, flushList, next>> /\ Arriving' = Arriving
    BY <1>23, <1>a DEF OnErrorFrame
  <2> HIDE DEF v
  <2> QED BY <1>c, <1>d, <2>1 DEF Placed, Keeps
<1> QED BY <1>1, <1>2, <1>3, <1>4, <1>5, <1>8, <1>9, <1>10, <1>11, <1>12, <1>13, <1>14, <1>15,
          <1>16, <1>17, <1>18, <1>19, <1>20, <1>21, <1>22, <1>23 DEF RunTask

\* Every step keeps every work placed.
LEMMA PlacedStep ==
  ASSUME TypeOK, OrderInv, AllPlaced, [Next]_vars
  PROVE  AllPlaced' /\ \A w \in Works : Keeps(w)
<1>1. SUFFICES ASSUME NEW w \in Works PROVE Keeps(w)
  BY DEF AllPlaced, Works, Keeps
<1>2. CASE RunTask
  BY <1>2, RunTaskPlaced
<1>3. ASSUME NEW c \in Callers, NEW k \in Kinds, QueueCall(c, k) PROVE Keeps(w)
  <2>1. /\ next \in Nat /\ next + 1 \in Works /\ next' = next + 1
        /\ UNCHANGED <<queue, pending, abandoned, flushList, answer>>
    BY <1>3, BoundsAssumption DEF QueueCall, Works, TypeOK, DataOK, workVars
  <2> DEFINE t == WorkTask("queueWork", next + 1)
  <2>2. t \in Tasks /\ t.op = "queueWork" /\ t.w = next + 1 /\ Post(t)
    BY <1>3, <2>1 DEF WorkTask, Task, Tasks, WorkOps, QueueCall
  <2> HIDE DEF t
  <2>3. Arriving' = Arriving \cup {next + 1}
    BY <2>2, ArrivingPosted
  <2>4. w \in Nat /\ (w <= next' <=> w <= next \/ w = next + 1) /\ ~(next + 1 <= next)
    BY <2>1, ArrivingType
  <2>5. CASE w = next + 1
    BY <2>1, <2>3, <2>4, <2>5 DEF AllPlaced, Placed, Keeps
  <2>6. CASE w # next + 1
    BY <2>1, <2>3, <2>4, <2>6 DEF AllPlaced, Placed, Keeps
  <2> QED BY <2>5, <2>6
<1>4. CASE \E c \in Callers : FlushReturn(c)
  <2>1. PICK c \in Callers : FlushReturn(c)
    BY <1>4
  <2>2. /\ answer' = Answer(flushList, "notFound") /\ flushList' = {}
        /\ UNCHANGED <<queue, pending, abandoned, next>>
    BY <2>1 DEF FlushReturn, envVars
  <2>3. PlainTask("dequeueWork") \in Tasks /\ PlainTask("dequeueWork").op # "queueWork"
        /\ Post(PlainTask("dequeueWork"))
    BY <2>1 DEF FlushReturn, PlainTask, Task, Tasks, PlainOps
  <2>4. Arriving' = Arriving
    BY <2>3, ArrivingPosted
  <2>5. answer'[w] = IF w \in flushList THEN "notFound" ELSE answer[w]
    BY <2>2, AnswerAt
  <2> QED BY <2>2, <2>4, <2>5 DEF AllPlaced, Placed, Keeps
<1>5. CASE /\ ~RunTask /\ ~(\E c \in Callers, k \in Kinds : QueueCall(c, k))
           /\ ~(\E c \in Callers : FlushReturn(c))
  <2>1. \/ UNCHANGED vars \/ Decoder
        \/ \E c \in Callers : Returns(c)
        \/ \E c \in Callers : Calls(c) /\ ~(\E k \in Kinds : QueueCall(c, k))
    BY <1>5 DEF Next, Done
  <2>2. /\ UNCHANGED <<queue, pending, abandoned, next>>
        /\ UNCHANGED tasks \/ \E t \in Tasks : t.op # "queueWork" /\ Post(t)
    BY <2>1, NoWorkComes
  <2>3. Arriving' = Arriving
    <3>1. CASE UNCHANGED tasks
      BY <3>1 DEF Arriving
    <3>2. CASE \E t \in Tasks : t.op # "queueWork" /\ Post(t)
      BY <3>2, ArrivingPosted
    <3> QED BY <2>2, <3>1, <3>2
  <2>4. UNCHANGED <<flushList, answer>>
    <3> USE DEF workVars
    <3>1. CASE UNCHANGED vars
      BY <3>1 DEF vars
    <3>2. CASE Decoder
      BY <3>2, DecoderPosts
    <3>3. ASSUME NEW c \in Callers, Returns(c) PROVE UNCHANGED <<flushList, answer>>
      BY <1>5, <3>3 DEF Returns, StartReturn, StopReturn, FlushWait, FlushTimeOut, DestroyCall,
                        StopNeedless
    <3>4. ASSUME NEW c \in Callers, Calls(c), ~(\E k \in Kinds : QueueCall(c, k))
          PROVE  UNCHANGED <<flushList, answer>>
      BY <3>4 DEF Calls, StartCall, StopCall, ResetCall, FlushCall, DrainCall
    <3> QED BY <2>1, <3>1, <3>2, <3>3, <3>4
  <2> QED BY <2>2, <2>3, <2>4, PlacedStays
<1> QED BY <1>2, <1>3, <1>4, <1>5

\* A component that was never started has accepted no work.
LEMMA InitPlaced == Init => OrderInv /\ AllPlaced
<1> SUFFICES ASSUME Init PROVE OrderInv /\ AllPlaced
  OBVIOUS
<1>1. Arriving = {}
  BY EmptySeq DEF Init, Arriving
<1>2. OrderInv
  BY <1>1, EmptySeq DEF Init, OrderInv, Order, Accepted
<1>3. \A w \in Works : ~(w <= next)
  BY DEF Init, Works
<1>4. AllPlaced
  BY <1>1, <1>3 DEF Init, AllPlaced, Placed
<1> QED BY <1>2, <1>4

\* Every work accepted by queue_nb and not given back is in exactly one place of the
\* component, and a work given back is in none.
THEOREM WorksAccounted == Spec => []WorkAccounting
<1>1. TypeOK /\ AllPlaced => WorkAccounting
  BY PlacedIsAccounted
<1> QED BY <1>1, InitPlaced, TypeCorrect, OrderStep, PlacedStep, PTL DEF Spec

\* The component keeps the contract of WorkContract: no work is given back twice, none
\* is given back that was not accepted, and no outcome is revised.
THEOREM ContractKept == Spec => GivenBackOnce
<1> USE DEF Contract!Works, Contract!vars, Works
<1>1. Init => Contract!Init
  BY DEF Init, Contract!Init
<1>2. ASSUME TypeOK, OrderInv, AllPlaced, [Next]_vars PROVE [Contract!Next]_(Contract!vars)
  <2>1. \A w \in Works : Keeps(w)
    BY <1>2, PlacedStep
  <2>2. CASE \E c \in Callers, k \in Kinds : QueueCall(c, k)
    BY <2>2 DEF QueueCall, Contract!Next, Contract!Accept
  <2>3. CASE next' = next
    <3>1. answer' \in [Works -> {"none", "ok", "eos", "notFound", "lost"}]
      <4>1. TypeOK'
        BY <1>2, TypeStep
      <4> QED BY <4>1 DEF TypeOK, DataOK
    <3>2. \A w \in Works : answer'[w] # answer[w] => w \in Contract!Outstanding
      BY <2>1 DEF Keeps, Contract!Outstanding
    <3> QED BY <2>3, <3>1, <3>2 DEF Contract!Next, Contract!GiveBack
  <2>4. CASE ~(\E c \in Callers, k \in Kinds : QueueCall(c, k))
    <3>1. CASE RunTask
      <4>1. OnQueueWork \/ OnDequeueWork => next' = next
        BY DEF OnQueueWork, OnDequeueWork, envVars
      <4> QED BY <2>3, <3>1, <4>1, WorksLeave
    <3>2. CASE ~RunTask
      <4>1. \/ UNCHANGED vars \/ Decoder
            \/ \E c \in Callers : Returns(c)
            \/ \E c \in Callers : Calls(c) /\ ~(\E k \in Kinds : QueueCall(c, k))
        BY <1>2, <2>4, <3>2 DEF Next, Done
      <4> QED BY <1>2, <2>3, <4>1, NoWorkComes
    <3> QED BY <3>1, <3>2
  <2> QED BY <2>2, <2>4
<1> QED BY <1>1, <1>2, InitPlaced, TypeCorrect, OrderStep, PlacedStep, PTL
        DEF Spec, GivenBackOnce, Contract!Spec

-----------------------------------------------------------------------------
(* The end of the stream.                                                   *)

\* A handler reports the end of the stream only by reportEOSWork.
LEMMA EosByReport ==
  ASSUME RunTask, NEW e \in Works, answer'[e] = "eos", answer[e] # "eos"
  PROVE  /\ UNCHANGED queue /\ Head(tasks).op # "queueWork"
         /\ \E answered \in SUBSET pending : ReportEos(pending \ answered, answered)
<1>a. \A S, how : Answer(S, how)[e] = IF e \in S THEN how ELSE answer[e]
  BY AnswerAt
<1> USE DEF Runs
<1>1. CASE OnDrainDone
  <2>1. SentWorks(outs) \in SUBSET pending /\ PendingAfter(outs) = pending \ SentWorks(outs)
    BY DEF SentWorks, PendingAfter
  <2>2. ReportEos(PendingAfter(outs), SentWorks(outs))
    BY <1>a, <1>1 DEF OnDrainDone
  <2> QED BY <1>1, <2>1, <2>2 DEF OnDrainDone
<1>2. CASE OnDrainDoneStopping
  <2>1. {} \in SUBSET pending /\ pending \ {} = pending
    OBVIOUS
  <2>2. ReportEos(pending, {})
    BY <1>2 DEF OnDrainDoneStopping
  <2> QED BY <1>2, <2>1, <2>2 DEF OnDrainDoneStopping
<1>3. CASE RefuseTask
  BY <1>a, <1>3 DEF RefuseTask
<1>4. CASE OnQueueWork \/ SkipDequeue \/ OnInputDoneUnknown
  BY <1>4 DEF OnQueueWork, SkipDequeue, OnInputDoneUnknown
<1>5. CASE OnDequeueWork
  BY <1>a, <1>5 DEF OnDequeueWork
<1>6. CASE OnInputBufferDone \/ OnSendOutputs
  BY <1>a, <1>6 DEF OnInputBufferDone, OnSendOutputs
<1>7. CASE OnOutputWhileFlushing \/ OnOutputUnknown \/ OnOutputBufferDone
  BY <1>a, <1>7 DEF OnOutputWhileFlushing, OnOutputUnknown, OnOutputBufferDone
<1>8. CASE OnDrain \/ OnDrainDoneNoEos \/ OnDrainDoneUnexpected
  BY <1>a, <1>8 DEF OnDrain, OnDrainDoneNoEos, OnDrainDoneUnexpected
<1>9. CASE OnFlush \/ OnFlushDoneWithError \/ OnFlushDone
  BY <1>a, <1>9 DEF OnFlush, OnFlushDoneWithError, OnFlushDone
<1>10. CASE OnStop \/ OnStopDone
  BY <1>a, <1>10 DEF OnStop, OnStopDone
<1>11. CASE OnResetDoneStopped \/ OnResetDoneUnexpected \/ OnDestroy
  BY <1>11 DEF OnResetDoneStopped, OnResetDoneUnexpected, OnDestroy
<1>12. ASSUME NEW result \in InitResults PROVE ~OnStart(result)
  BY DEF OnStart
<1>13. CASE OnReportError \/ OnNoOutFrameNotify
  BY <1>13 DEF OnReportError, OnNoOutFrameNotify
<1>14. CASE OnReportNoOutFrameFinished \/ OnErrorFrame
  BY <1>a, <1>14 DEF OnReportNoOutFrameFinished, OnErrorFrame
<1> QED BY <1>1, <1>2, <1>3, <1>4, <1>5, <1>6, <1>7, <1>8, <1>9, <1>10, <1>11, <1>12, <1>13,
          <1>14 DEF RunTask

\* Client threads and the decoder report no end of the stream.
LEMMA ClientsGiveNoEos ==
  ASSUME [Next]_vars, ~RunTask, NEW e \in Works, answer'[e] = "eos"
  PROVE  answer[e] = "eos"
<1>1. CASE UNCHANGED vars
  BY <1>1 DEF vars
<1>2. CASE Decoder
  BY <1>2 DEF Decoder, DecoderStep, DecInputDone, DecPicture, DecExtraPicture, DecNoPicture,
              DecDrained, DecResetDone, DecError
<1>3. ASSUME NEW c \in Callers, Returns(c) PROVE answer[e] = "eos"
  <2>1. CASE FlushReturn(c)
    BY <2>1, AnswerAt DEF FlushReturn
  <2> QED BY <1>3, <2>1 DEF Returns, StartReturn, StopReturn, FlushWait, FlushTimeOut,
                            DestroyCall, StopNeedless
<1>4. ASSUME NEW c \in Callers, Calls(c) PROVE answer[e] = "eos"
  BY <1>4 DEF Calls, StartCall, StopCall, ResetCall, FlushCall, QueueCall, DrainCall
<1> QED BY <1>1, <1>2, <1>3, <1>4 DEF Next, Done

\* Works in the loop, queued or pending after a task were so before it.
LEMMA NoneComesBack ==
  ASSUME TypeOK, OrderInv, RunTask
  PROVE  (queue \cup pending \cup Arriving)' \subseteq queue \cup pending \cup Arriving
<1>0. Took /\ Increasing
  BY ThreadTakes DEF OrderInv, Order, Increasing
<1>1. CASE OnQueueWork
  <2>1. /\ queue' = queue \cup {Head(tasks).w} /\ UNCHANGED pending
        /\ Head(tasks).op = "queueWork"
    BY <1>1 DEF OnQueueWork, Runs
  <2> QED BY <1>0, <2>1, ArrivingTook
<1>2. CASE OnDequeueWork
  <2>1. /\ queue' \subseteq queue /\ pending' \subseteq pending \cup {Front(queue)}
        /\ queue # {}
    BY <1>2 DEF OnDequeueWork
  <2>2. Front(queue) \in queue
    BY <2>1, ArrivingType, FrontProperty DEF TypeOK, DataOK
  <2> QED BY <1>0, <2>1, <2>2, ArrivingTook
<1>3. CASE ~OnQueueWork /\ ~OnDequeueWork
  BY <1>0, <1>3, WorksLeave, ArrivingTook
<1> QED BY <1>1, <1>2, <1>3

\* EosIsLast is preserved by every step.
LEMMA EosStep ==
  ASSUME TypeOK, OrderInv, AllPlaced, EosIsLast, [Next]_vars
  PROVE  EosIsLast'
<1> SUFFICES ASSUME NEW e \in Works, answer'[e] = "eos",
                    NEW w \in (queue \cup pending \cup Arriving)'
             PROVE  e < w
  BY DEF EosIsLast, Works
<1>0. /\ queue \in SUBSET Works /\ pending \in SUBSET Works /\ Arriving \in SUBSET Works
      /\ Works \in SUBSET Nat /\ next \in Nat
  BY ArrivingType DEF TypeOK, DataOK
<1>1. CASE RunTask
  <2>1. w \in queue \cup pending \cup Arriving
    BY <1>1, NoneComesBack
  <2>2. CASE answer[e] = "eos"
    BY <2>1, <2>2 DEF EosIsLast
  <2>3. CASE answer[e] # "eos"
    <3>1. PICK answered \in SUBSET pending : ReportEos(pending \ answered, answered)
      BY <1>1, <2>3, EosByReport
    <3>2. UNCHANGED queue /\ Arriving' = Arriving
      BY <1>1, <2>3, EosByReport, ThreadTakes, ArrivingTook DEF OrderInv, Order, Increasing
    <3>3. pending' = {}
      BY <3>1 DEF ReportEos
    <3>4. e \in pending
      <4> DEFINE works == pending \ answered
      <4>1. works # {} /\ e = Back(works)
        BY <2>3, <3>1 DEF ReportEos
      <4>2. works \in SUBSET (0 .. MaxWorks) /\ MaxWorks \in Nat
        BY BoundsAssumption DEF TypeOK, DataOK, Works
      <4>3. Back(works) \in works
        <5> HIDE DEF works
        <5> QED BY <4>1, <4>2, BackProperty
      <4> QED BY <4>1, <4>3
    <3>5. w \in queue \cup Arriving
      BY <3>2, <3>3
    <3> QED BY <3>4, <3>5 DEF OrderInv, Order
  <2> QED BY <2>2, <2>3
<1>2. CASE ~RunTask
  <2>1. answer[e] = "eos" /\ e <= next
    BY <1>2, PlacedStep, <1>0, ClientsGiveNoEos DEF AllPlaced, Placed
  <2>2. CASE \E c \in Callers, k \in Kinds : QueueCall(c, k)
    <3>1. PICK c \in Callers, k \in Kinds : QueueCall(c, k)
      BY <2>2
    <3>2. next + 1 \in Works /\ UNCHANGED <<queue, pending>>
      BY <3>1, BoundsAssumption DEF QueueCall, Works, TypeOK, DataOK, workVars
    <3>3. Arriving' = Arriving \cup {next + 1}
      <4> DEFINE t == WorkTask("queueWork", next + 1)
      <4>1. t \in Tasks /\ t.op = "queueWork" /\ t.w = next + 1 /\ Post(t)
        BY <3>1, <3>2 DEF WorkTask, Task, Tasks, WorkOps, QueueCall
      <4> HIDE DEF t
      <4> QED BY <4>1, ArrivingPosted
    <3> QED BY <1>0, <2>1, <3>2, <3>3 DEF EosIsLast
  <2>3. CASE ~(\E c \in Callers, k \in Kinds : QueueCall(c, k))
    <3>1. \/ UNCHANGED vars \/ Decoder
          \/ \E c \in Callers : Returns(c)
          \/ \E c \in Callers : Calls(c) /\ ~(\E k \in Kinds : QueueCall(c, k))
      BY <1>2, <2>3 DEF Next, Done
    <3>2. /\ UNCHANGED <<queue, pending>>
          /\ UNCHANGED tasks \/ \E t \in Tasks : t.op # "queueWork" /\ Post(t)
      BY <3>1, NoWorkComes
    <3>3. Arriving' = Arriving
      <4>1. CASE UNCHANGED tasks
        BY <4>1 DEF Arriving
      <4>2. CASE \E t \in Tasks : t.op # "queueWork" /\ Post(t)
        BY <4>2, ArrivingPosted
      <4> QED BY <3>2, <4>1, <4>2
    <3> QED BY <2>1, <3>2, <3>3 DEF EosIsLast
  <2> QED BY <2>2, <2>3
<1> QED BY <1>1, <1>2

\* No work queued before the end of the stream is still queued or pending once the end
\* has been reported.
THEOREM EosLast == Spec => []EosIsLast
<1>1. Init => EosIsLast
  BY DEF Init, EosIsLast
<1> QED BY <1>1, InitPlaced, TypeCorrect, OrderStep, PlacedStep, EosStep, PTL DEF Spec

-----------------------------------------------------------------------------
(* A stop is served.  The thread that stops waits until the decoder has been *)
(* reset, so what has to be known is that there is a decoder to reset when    *)
(* onStop runs, and that nobody overwrites STOPPING.  With two threads         *)
(* flush_sm does: its timeout writes mComponentState from the client thread.   *)

\* No thread is in flush_sm while another is in stop.
Answered(c) == pc[c] \in {"stopDone", "relStopDone"}
FlushApart ==
  \A c, d \in Callers : pc[c] \in {"flushing", "waiting"} => ~StopWaiter(d) /\ ~Answered(d)

Has(op) == \E i \in 1 .. Len(tasks) : tasks[i].op = op
Down == comp \in {"UNINITIALIZED", "DESTROYED"}
InStart == \E c \in Callers : pc[c] \in {"starting", "started"}

\* What the client threads see of the component, and what the component is.
DecoderUp == ~Down => dec.up
StateTold ==
  /\ initResult = "ok"
  /\ mState # "LOADED" => ~Down \/ \E c \in Callers : Answered(c)
  /\ mState = "LOADED" => Down \/ InStart
  /\ stopped => mState = "LOADED" \/ InStart
PlacesKnown ==
  \A c \in Callers :
    /\ Answered(c) => comp = "UNINITIALIZED"
    /\ pc[c] = "started" => ~Down
    /\ pc[c] \in {"flushing", "waiting"} => mState # "LOADED"
    /\ pc[c] \in {"relDone", "destroying", "released"} => mState = "LOADED" /\ lock = NoCaller

\* A flush posted before a stop is done before it.
NoFlushBehind ==
  \A i, j \in 1 .. Len(tasks) : i < j /\ tasks[i].op = "stop" => tasks[j].op # "flush"
TasksKnown ==
  /\ Down \/ comp = "STOPPING" \/ mState = "LOADED" => ~Has("flush")
  /\ Has("stop") => ~Down
  /\ Has("destroy") => \E c \in Callers : pc[c] \in {"destroying", "released"}
  /\ NoFlushBehind

\* The reset onStopDone waits for.
ResetComes == dec.resets > 0 \/ Has("resetDone")
ServedInv == DecoderUp /\ StateTold /\ PlacesKnown /\ TasksKnown /\ StopIsServed

NotedOps == {"start", "stop", "flush", "destroy"}
PostsUnnoted ==
  Took \/ UNCHANGED tasks \/ \E t \in Tasks : t.op \notin NotedOps /\ Post(t)

\* StopIsServed in these terms.
LEMMA ServedMeans ==
  /\ StopIsServed <=>
       \A c \in Callers : StopWaiter(c) => Has("stop") \/ (comp = "STOPPING" /\ ResetComes)
  /\ StopIsServed' <=>
       \A c \in Callers : StopWaiter(c)' => Has("stop")' \/ (comp' = "STOPPING" /\ ResetComes')
BY DEF StopIsServed, StopWaiter, Has, ResetComes

\* Taking or posting a task that the invariant does not speak of adds none of those it does.
LEMMA NoneNoted ==
  ASSUME TypeOK, PostsUnnoted
  PROVE  /\ \A op \in NotedOps : Has(op)' => Has(op)
         /\ NoFlushBehind => NoFlushBehind'
<1>1. CASE Took
  <2>1. \A i \in 1 .. Len(tasks') : tasks'[i].op \in NotedOps =>
          i + 1 \in 1 .. Len(tasks) /\ tasks'[i] = tasks[i + 1]
    BY <1>1, TookTasks DEF OwnOps, NotedOps
  <2>2. \A op \in NotedOps : Has(op)' => Has(op)
    BY <2>1 DEF Has
  <2>3. ASSUME NoFlushBehind PROVE NoFlushBehind'
    <3> SUFFICES ASSUME NEW i \in 1 .. Len(tasks'), NEW j \in 1 .. Len(tasks'), i < j,
                        tasks'[i].op = "stop", tasks'[j].op = "flush"
                 PROVE  FALSE
      BY DEF NoFlushBehind
    <3>1. /\ i + 1 \in 1 .. Len(tasks) /\ tasks[i + 1].op = "stop"
          /\ j + 1 \in 1 .. Len(tasks) /\ tasks[j + 1].op = "flush"
      BY <2>1 DEF NotedOps
    <3>2. i + 1 < j + 1
      OBVIOUS
    <3> QED BY <2>3, <3>1, <3>2 DEF NoFlushBehind
  <2> QED BY <2>2, <2>3
<1>2. CASE UNCHANGED tasks
  BY <1>2 DEF Has, NoFlushBehind
<1>3. ASSUME NEW t \in Tasks, t.op \notin NotedOps, Post(t)
      PROVE  /\ \A op \in NotedOps : Has(op)' => Has(op)
             /\ NoFlushBehind => NoFlushBehind'
  <2>1. \A i \in 1 .. Len(tasks') : tasks'[i].op \in NotedOps =>
          i \in 1 .. Len(tasks) /\ tasks'[i] = tasks[i]
    BY <1>3, PostedTasks
  <2>2. \A op \in NotedOps : Has(op)' => Has(op)
    BY <2>1 DEF Has
  <2> QED BY <2>1, <2>2 DEF NoFlushBehind, NotedOps
<1> QED BY <1>1, <1>2, <1>3 DEF PostsUnnoted

\* A task that is not taken stays.
LEMMA OthersStay ==
  ASSUME TypeOK, NEW op,
         (Took /\ Head(tasks).op # op) \/ UNCHANGED tasks \/ \E t \in Tasks : Post(t), Has(op)
  PROVE  Has(op)'
<1>1. PICK i \in 1 .. Len(tasks) : tasks[i].op = op
  BY DEF Has
<1>2. CASE Took /\ Head(tasks).op # op
  <2>1. /\ Len(tasks) \in Nat /\ tasks[1] = Head(tasks)
        /\ \A k \in 2 .. Len(tasks) : k - 1 \in 1 .. Len(tasks') /\ tasks'[k - 1] = tasks[k]
    BY <1>2, TookTasks
  <2>2. i # 1
    BY <1>1, <1>2, <2>1
  <2>3. i \in 2 .. Len(tasks)
    BY <2>1, <2>2
  <2> QED BY <1>1, <2>1, <2>3 DEF Has
<1>3. CASE UNCHANGED tasks
  BY <1>3 DEF Has
<1>4. ASSUME NEW t \in Tasks, Post(t) PROVE Has(op)'
  <2>1. /\ Len(tasks) \in Nat /\ Len(tasks') = Len(tasks) + 1
        /\ \A k \in 1 .. Len(tasks) : tasks'[k] = tasks[k]
    BY <1>4, PostedTasks
  <2>2. i \in 1 .. Len(tasks')
    BY <2>1
  <2> QED BY <1>1, <2>1, <2>2 DEF Has
<1> QED BY <1>2, <1>3, <1>4

\* A state of the component a flush, a drain or a start may leave it in.
InService(s) == s \notin {"UNINITIALIZED", "DESTROYED", "STOPPING"}

\* The places of which the invariant says nothing, or only that there was a start.
Loose == {"idle", "resetting", "releasing", "flushing", "waiting", "woken"}

\* Threads move between those places, and the component neither stops nor is stopped.
LEMMA ServedStays ==
  ASSUME TypeOK, StopProtocol, ServedInv, PostsUnnoted, UNCHANGED <<lock, initResult>>, stopped' => stopped,
         \A d \in Callers : \/ pc'[d] = pc[d]
                            \/ /\ pc[d] \in Loose /\ pc'[d] \in Loose
                               /\ pc'[d] \in {"flushing", "waiting"} => mState # "LOADED",
         mState' = mState \/ (mState' = "ERROR" /\ ~Down),
         comp' = comp \/ (InService(comp) /\ InService(comp')),
         dec'.up = dec.up, Has("stop") => Has("stop")', (comp = "STOPPING" /\ ResetComes) => ResetComes'
  PROVE  ServedInv'
<1>1. (Down' <=> Down) /\ (comp' = "STOPPING" <=> comp = "STOPPING")
  BY DEF Down, InService
<1>2. InStart' <=> InStart
  BY DEF InStart, Loose
<1>3. \A c \in Callers : (Answered(c)' <=> Answered(c)) /\ (StopWaiter(c)' <=> StopWaiter(c))
  BY DEF Answered, StopWaiter, Loose
<1>4. mState = "LOADED" /\ ~Down => \E c \in Callers : lock = c
  BY DEF ServedInv, StateTold, InStart, StopProtocol, LockHeld, Locked
<1>5. \A c \in Callers : Answered(c) => Down
  BY DEF ServedInv, PlacesKnown, Down
<1>6. DecoderUp'
  BY <1>1 DEF ServedInv, DecoderUp
<1>7. StateTold'
  BY <1>1, <1>2, <1>3 DEF ServedInv, StateTold
<1>8. PlacesKnown'
  <2> SUFFICES ASSUME NEW c \in Callers
               PROVE  /\ Answered(c)' => comp' = "UNINITIALIZED"
                      /\ pc'[c] = "started" => ~Down'
                      /\ pc'[c] \in {"flushing", "waiting"} => mState' # "LOADED"
                      /\ pc'[c] \in {"relDone", "destroying", "released"} => mState' = "LOADED" /\ lock = NoCaller
    BY DEF PlacesKnown
  <2>1. Answered(c) => comp' = "UNINITIALIZED"
    BY DEF ServedInv, PlacesKnown, InService
  <2>2. pc[c] \in {"relDone", "destroying", "released"} => mState' = "LOADED" /\ lock = NoCaller
    BY <1>4, CallersAssumption DEF ServedInv, PlacesKnown
  <2>4. CASE pc'[c] = pc[c]
    BY <1>1, <1>3, <2>1, <2>2, <2>4 DEF ServedInv, PlacesKnown
  <2>5. CASE pc[c] \in Loose /\ pc'[c] \in Loose /\ (pc'[c] \in {"flushing", "waiting"} => mState # "LOADED")
    BY <2>5 DEF Loose, Answered
  <2> QED BY <2>4, <2>5
<1>9. TasksKnown'
  <2>1. /\ \A op \in NotedOps : Has(op)' => Has(op)
        /\ NoFlushBehind => NoFlushBehind'
    BY NoneNoted
  <2>2. mState' = "LOADED" => mState = "LOADED"
    OBVIOUS
  <2>3. (\E c \in Callers : pc[c] \in {"destroying", "released"})
          => \E c \in Callers : pc'[c] \in {"destroying", "released"}
    BY DEF Loose
  <2> QED BY <1>1, <2>1, <2>2, <2>3 DEF ServedInv, TasksKnown, NotedOps
<1>10. StopIsServed'
  BY <1>1, <1>3, ServedMeans DEF ServedInv
<1> QED BY <1>6, <1>7, <1>8, <1>9, <1>10 DEF ServedInv

\* The decoder: a reset it owes becomes a notification on its way.
LEMMA ServedDecoder ==
  ASSUME TypeOK, StopProtocol, ServedInv, Decoder
  PROVE  ServedInv'
<1> USE DEF clientVars, threadVars
<1>1. /\ \E t \in Tasks : t.op \in DecoderOps /\ Post(t)
      /\ UNCHANGED <<clientVars, threadVars>>
  BY DecoderPosts
<1>2. PostsUnnoted
  BY <1>1 DEF PostsUnnoted, DecoderOps, NotedOps
<1>3. \A op : Has(op) => Has(op)'
  BY <1>1, OthersStay
<1>4. dec'.up = dec.up
  BY DEF Decoder, DecInputDone, DecDrained, DecResetDone, DecError, DecPicture, DecExtraPicture,
         DecNoPicture, TypeOK, DataOK, Decoders
<1>5. ResetComes => ResetComes'
  <2>1. CASE DecResetDone
    <3>1. PlainTask("resetDone") \in Tasks /\ PlainTask("resetDone").op = "resetDone"
      BY DEF PlainTask, Task, Tasks, PlainOps
    <3>2. Post(PlainTask("resetDone"))
      BY <2>1 DEF DecResetDone, DecoderStep
    <3>3. /\ Len(tasks) \in Nat /\ Len(tasks') = Len(tasks) + 1
          /\ tasks'[Len(tasks) + 1] = PlainTask("resetDone")
      BY <3>1, <3>2, PostedTasks
    <3>4. Len(tasks) + 1 \in 1 .. Len(tasks')
      BY <3>3
    <3> QED BY <3>1, <3>3, <3>4 DEF ResetComes, Has
  <2>2. CASE ~DecResetDone
    <3>1. dec'.resets = dec.resets
      BY <2>2 DEF Decoder, DecInputDone, DecDrained, DecError, DecPicture, DecExtraPicture,
                  DecNoPicture, TypeOK, DataOK, Decoders
    <3> QED BY <1>3, <3>1 DEF ResetComes
  <2> QED BY <2>1, <2>2
<1> QED BY <1>1, <1>2, <1>3, <1>4, <1>5, ServedStays

\* The tasks of the component thread that have no part in flush, stop, start and destroy.
LEMMA ServedTask ==
  ASSUME TypeOK, StopProtocol, ServedInv, Took, Head(tasks).op \notin {"stop", "resetDone"},
         UNCHANGED <<stopped, lock, pc, initResult>>,
         mState' = mState \/ (mState' = "ERROR" /\ ~Down),
         comp' = comp \/ (InService(comp) /\ InService(comp')),
         dec'.up = dec.up, dec'.resets \in Nat, dec'.resets >= dec.resets
  PROVE  ServedInv'
<1>1. PostsUnnoted
  BY DEF PostsUnnoted
<1>2. Has("stop") => Has("stop")'
  BY OthersStay
<1>3. ResetComes => ResetComes'
  <2>1. Has("resetDone") => Has("resetDone")'
    BY OthersStay
  <2>2. dec.resets \in Nat /\ dec'.resets >= dec.resets
    BY DEF TypeOK, DataOK, Decoders
  <2>3. dec.resets > 0 => dec'.resets > 0
    BY <2>2
  <2> QED BY <2>1, <2>3 DEF ResetComes
<1> QED BY <1>1, <1>2, <1>3, ServedStays

\* What handlers make the decoder do leaves it up, and takes no reset back.
LEMMA DecoderKept ==
  ASSUME TypeOK
  PROVE  /\ dec.resets \in Nat /\ dec.resets >= dec.resets
         /\ \A w : Decode(w).up = dec.up /\ Decode(w).resets = dec.resets
         /\ [dec EXCEPT !.eos = TRUE].up = dec.up /\ [dec EXCEPT !.eos = TRUE].resets = dec.resets
         /\ ResetDecoder => /\ dec'.up = dec.up /\ dec'.resets \in Nat /\ dec'.resets >= dec.resets
                            /\ dec.up => dec'.resets > 0
<1>1. dec \in Decoders /\ dec.resets \in Nat
  BY DEF TypeOK, DataOK, Decoders
<1>2. \A w : Decode(w).up = dec.up /\ Decode(w).resets = dec.resets
  BY <1>1 DEF Decode, Decoders
<1>3. [dec EXCEPT !.eos = TRUE].up = dec.up /\ [dec EXCEPT !.eos = TRUE].resets = dec.resets
  BY <1>1 DEF Decoders
<1>4. ASSUME ResetDecoder
      PROVE  /\ dec'.up = dec.up /\ dec'.resets \in Nat /\ dec'.resets >= dec.resets
             /\ dec.up => dec'.resets > 0
  <2>1. CASE dec.up
    <3>1. dec'.resets = dec.resets + 1 /\ dec'.up = dec.up
      BY <1>1, <1>4, <2>1 DEF ResetDecoder, Decoders
    <3> QED BY <1>1, <3>1
  <2>2. CASE ~dec.up
    BY <1>1, <1>4, <2>2 DEF ResetDecoder
  <2> QED BY <2>1, <2>2
<1> QED BY <1>1, <1>2, <1>3, <1>4

\* Every task but those of stop, start, destroy and the end of a reset.
LEMMA ServedOrdinary ==
  ASSUME TypeOK, StopProtocol, ServedInv, RunTask, Head(tasks).op \notin {"stop", "resetDone", "start", "destroy"}
  PROVE  ServedInv'
<1> USE DEF clientVars, threadVars, envVars, Runs, ReportError, UpdateState
<1>1. Took /\ tasks # <<>>
  BY ThreadTakes DEF Took
<1>2. ~Refuses => ~Down
  BY DEF Refuses, Down
<1>3. ASSUME UNCHANGED <<stopped, lock, pc, initResult, dec>>, mState' = mState \/ (mState' = "ERROR" /\ ~Down),
             comp' = comp \/ (InService(comp) /\ InService(comp'))
      PROVE  ServedInv'
  BY <1>1, <1>3, ServedTask, DecoderKept
<1>4. CASE RefuseTask \/ OnQueueWork \/ SkipDequeue
  BY <1>3, <1>4 DEF RefuseTask, OnQueueWork, SkipDequeue
<1>5. CASE OnDequeueWork
  <2>1. /\ comp = "STARTED" /\ (comp' = comp \/ comp' = "DRAINING")
        /\ UNCHANGED <<mState, stopped, lock, pc, initResult>> /\ \E w : dec' = Decode(w)
    BY <1>5 DEF OnDequeueWork
  <2>2. comp' = comp \/ (InService(comp) /\ InService(comp'))
    BY <2>1 DEF InService
  <2>3. dec'.up = dec.up /\ dec'.resets \in Nat /\ dec'.resets >= dec.resets
    BY <2>1, DecoderKept
  <2> QED BY <1>1, <2>1, <2>2, <2>3, ServedTask
<1>6. CASE OnInputDoneUnknown \/ OnInputBufferDone \/ OnSendOutputs
  BY <1>2, <1>3, <1>6 DEF OnInputDoneUnknown, OnInputBufferDone, OnSendOutputs, Down
<1>7. CASE OnOutputWhileFlushing \/ OnOutputUnknown \/ OnOutputBufferDone
  BY <1>3, <1>7 DEF OnOutputWhileFlushing, OnOutputUnknown, OnOutputBufferDone
<1>8. CASE OnDrain
  <2>1. /\ UNCHANGED <<mState, stopped, lock, pc, initResult>>
        /\ comp' = comp \/ (comp = "STARTED" /\ comp' = "DRAINING")
        /\ dec' = dec \/ dec' = [dec EXCEPT !.eos = TRUE]
    BY <1>8 DEF OnDrain
  <2>2. comp' = comp \/ (InService(comp) /\ InService(comp'))
    BY <2>1 DEF InService
  <2>3. dec'.up = dec.up /\ dec'.resets \in Nat /\ dec'.resets >= dec.resets
    BY <2>1, DecoderKept
  <2> QED BY <1>1, <2>1, <2>2, <2>3, ServedTask
<1>9. CASE OnDrainDone \/ OnDrainDoneNoEos
  <2>1. /\ UNCHANGED <<stopped, lock, pc, initResult, dec>> /\ (mState' = mState \/ mState' = "ERROR")
        /\ comp \in {"DRAINING", "FLUSHING"} /\ (comp' = comp \/ comp' = "STARTED")
    BY <1>9 DEF OnDrainDone, OnDrainDoneNoEos
  <2>2. ~Down /\ (comp' = comp \/ (InService(comp) /\ InService(comp')))
    BY <2>1 DEF InService, Down
  <2> QED BY <1>3, <2>1, <2>2
<1>10. CASE OnDrainDoneStopping \/ OnDrainDoneUnexpected
  <2>1. /\ UNCHANGED <<stopped, lock, pc, initResult, dec, comp>> /\ (mState' = mState \/ mState' = "ERROR")
        /\ ~Refuses
    BY <1>10 DEF OnDrainDoneStopping, OnDrainDoneUnexpected
  <2> QED BY <1>2, <1>3, <2>1
<1>11. CASE OnFlush
  <2>1. Has("flush")
    <3>1. 1 \in 1 .. Len(tasks) /\ tasks[1] = Head(tasks)
      BY <1>1, TookTasks
    <3> QED BY <1>11, <3>1 DEF OnFlush, Has
  <2>2. ~Down /\ comp # "STOPPING"
    BY <2>1 DEF ServedInv, TasksKnown
  <2>3. /\ UNCHANGED <<mState, stopped, lock, pc, initResult>>
        /\ (comp' = comp /\ dec' = dec) \/ (comp' = "FLUSHING" /\ ResetDecoder)
    BY <1>11 DEF OnFlush
  <2>4. comp' = comp \/ (InService(comp) /\ InService(comp'))
    BY <2>2, <2>3 DEF InService, Down
  <2>5. dec'.up = dec.up /\ dec'.resets \in Nat /\ dec'.resets >= dec.resets
    BY <2>3, DecoderKept
  <2> QED BY <1>1, <2>3, <2>4, <2>5, ServedTask
<1>12. CASE OnReportError \/ OnNoOutFrameNotify
  BY <1>3, <1>12 DEF OnReportError, OnNoOutFrameNotify, Down
<1>13. CASE OnReportNoOutFrameFinished \/ OnErrorFrame
  BY <1>3, <1>13 DEF OnReportNoOutFrameFinished, OnErrorFrame, Down
<1> QED BY <1>4, <1>5, <1>6, <1>7, <1>8, <1>9, <1>10, <1>11, <1>12, <1>13
       DEF RunTask, OnFlushDoneWithError, OnFlushDone, OnStop, OnStopDone, OnResetDoneStopped,
           OnResetDoneUnexpected, OnStart, OnDestroy

\* A flush or a stop ends, or a reset nobody waits for is noticed.
LEMMA ServedResetDone ==
  ASSUME TypeOK, StopProtocol, ServedInv, RunTask, Head(tasks).op = "resetDone"
  PROVE  ServedInv'
<1> USE DEF clientVars, threadVars, envVars, ReportError, UpdateState
<1>1. Took /\ PostsUnnoted
  BY ThreadTakes DEF PostsUnnoted
<1>2. Has("stop") => Has("stop")'
  BY <1>1, OthersStay
<1>3. \/ OnFlushDoneWithError \/ OnFlushDone \/ OnStopDone \/ OnResetDoneStopped \/ OnResetDoneUnexpected
  <2>1. tasks # <<>>
    BY <1>1 DEF Took
  <2> QED BY <2>1 DEF RunTask, Runs, RefuseTask, RefusingTasks, OnQueueWork, SkipDequeue, OnDequeueWork,
         OnInputDoneUnknown, OnInputBufferDone, OnSendOutputs, OnOutputWhileFlushing, OnOutputUnknown,
         OnOutputBufferDone, OnDrain, OnDrainDone, OnDrainDoneNoEos, OnDrainDoneStopping,
         OnDrainDoneUnexpected, OnFlush, OnStop, OnStart, OnDestroy, OnReportError,
         OnNoOutFrameNotify, OnReportNoOutFrameFinished, OnErrorFrame
<1>4. CASE OnFlushDoneWithError \/ OnFlushDone
  <2>1. /\ comp = "FLUSHING" /\ (comp' = comp \/ comp' = "STARTED")
        /\ UNCHANGED <<mState, stopped, lock, initResult, dec>>
        /\ \/ pc' = pc
           \/ \E c \in Callers : pc[c] = "waiting" /\ GoTo(c, "woken")
    BY <1>4 DEF OnFlushDoneWithError, OnFlushDone
  <2>2. \A d \in Callers : \/ pc'[d] = pc[d]
                           \/ /\ pc[d] \in Loose /\ pc'[d] \in Loose
                              /\ pc'[d] \in {"flushing", "waiting"} => mState # "LOADED"
    BY <2>1 DEF GoTo, Loose, TypeOK, DataOK
  <2>3. (comp' = comp \/ (InService(comp) /\ InService(comp'))) /\ comp # "STOPPING"
    BY <2>1 DEF InService
  <2> QED BY <1>1, <1>2, <2>1, <2>2, <2>3, ServedStays
<1>5. CASE OnResetDoneStopped \/ OnResetDoneUnexpected
  <2>1. /\ UNCHANGED <<comp, stopped, lock, pc, initResult, dec>> /\ comp # "STOPPING"
        /\ mState' = mState \/ (mState' = "ERROR" /\ comp \notin {"UNINITIALIZED", "DESTROYED"})
    BY <1>5 DEF OnResetDoneStopped, OnResetDoneUnexpected
  <2>2. mState' = mState \/ (mState' = "ERROR" /\ ~Down)
    BY <2>1 DEF Down
  <2> QED BY <1>1, <1>2, <2>1, <2>2, ServedStays
<1>6. CASE OnStopDone
  <2>1. /\ comp = "STOPPING" /\ comp' = "UNINITIALIZED" /\ Signal(stopEvent)
        /\ UNCHANGED <<mState, stopped, lock, initResult, dec>>
    BY <1>6 DEF OnStopDone
  <2>2. stopEvent = lock /\ StopWaiter(lock) /\ lock # NoCaller
    BY <2>1, CallersAssumption DEF StopProtocol, EventOfHolder, StopWaiter
  <2>3. pc' = [pc EXCEPT ![lock] = Signalled(@)]
    BY <2>1, <2>2 DEF Signal
  <2>4. \A d \in Callers : d # lock => pc'[d] = pc[d] /\ pc[d] \notin Locked
    BY <2>2, <2>3 DEF StopProtocol, LockHeld, TypeOK, DataOK
  <2>5. lock \in Callers /\ pc'[lock] \in {"stopDone", "relStopDone"}
    BY <2>2, <2>3 DEF StopWaiter, Signalled, TypeOK, DataOK
  <2>6. Down' /\ ~Down
    BY <2>1 DEF Down
  <2>7. ~Has("stop")
    BY <2>1, <2>2 DEF StopProtocol, StopperWaits, Has
  <2>8. DecoderUp'
    BY <2>6 DEF DecoderUp
  <2>9. StateTold'
    <3>1. ~InStart
      BY <2>2, <2>4 DEF InStart, StopWaiter, Locked
    <3>2. \E c \in Callers : Answered(c)'
      BY <2>5 DEF Answered
    <3> QED BY <2>1, <2>6, <3>1, <3>2 DEF ServedInv, StateTold
  <2>10. PlacesKnown'
    <3> SUFFICES ASSUME NEW c \in Callers
                 PROVE  /\ Answered(c)' => comp' = "UNINITIALIZED"
                        /\ pc'[c] = "started" => ~Down'
                        /\ pc'[c] \in {"flushing", "waiting"} => mState' # "LOADED"
                        /\ pc'[c] \in {"relDone", "destroying", "released"} => mState' = "LOADED" /\ lock' = NoCaller
      BY DEF PlacesKnown
    <3>1. CASE c = lock
      BY <2>1, <2>5, <3>1
    <3>2. CASE c # lock
      BY <2>1, <2>4, <3>2 DEF ServedInv, PlacesKnown, Locked
    <3> QED BY <3>1, <3>2
  <2>11. TasksKnown'
    <3>1. /\ \A op \in NotedOps : Has(op)' => Has(op)
          /\ NoFlushBehind'
      BY <1>1, NoneNoted DEF ServedInv, TasksKnown
    <3>2. ~Has("flush")' /\ ~Has("stop")'
      BY <2>1, <2>7, <3>1 DEF ServedInv, TasksKnown, NotedOps
    <3>3. Has("destroy")' => \E c \in Callers : pc'[c] \in {"destroying", "released"}
      <4>1. Has("destroy")' => \E c \in Callers : pc[c] \in {"destroying", "released"}
        BY <3>1 DEF ServedInv, TasksKnown, NotedOps
      <4>2. \A c \in Callers : pc[c] \in {"destroying", "released"} => pc'[c] = pc[c]
        BY <2>2, <2>4 DEF StopWaiter
      <4> QED BY <4>1, <4>2
    <3> QED BY <3>1, <3>2, <3>3 DEF TasksKnown
  <2>12. StopIsServed'
    <3>1. \A c \in Callers : ~StopWaiter(c)'
      BY <2>4, <2>5 DEF StopWaiter, Locked
    <3> QED BY <3>1, ServedMeans
  <2> QED BY <2>8, <2>9, <2>10, <2>11, <2>12 DEF ServedInv
<1> QED BY <1>3, <1>4, <1>5, <1>6

\* onStop asks the decoder for a reset: a thread stops only what runs.
LEMMA ServedStop ==
  ASSUME TypeOK, StopProtocol, ServedInv, OnStop
  PROVE  ServedInv'
<1>1. /\ Took /\ tasks # <<>> /\ Head(tasks).op = "stop" /\ UNCHANGED <<mState, stopped, lock, pc, initResult>>
  BY ThreadTakes DEF OnStop, Runs, RunTask, clientVars, Took
<1>2. 1 \in 1 .. Len(tasks) /\ tasks[1].op = "stop"
  BY <1>1, TookTasks
<1>3. ~Down
  BY <1>2 DEF ServedInv, TasksKnown, Has
<1>4. comp' = "STOPPING" /\ ResetDecoder
  BY <1>3 DEF OnStop, NothingToStop, Down, UpdateState
<1>5. dec'.up = dec.up /\ dec'.resets > 0 /\ ~Down'
  BY <1>3, <1>4, DecoderKept DEF ServedInv, DecoderUp, Down
<1>6. DecoderUp' /\ StateTold'
  BY <1>1, <1>3, <1>5 DEF ServedInv, DecoderUp, StateTold, InStart
<1>7. PlacesKnown'
  <2>1. \A c \in Callers : ~Answered(c)
    BY <1>3 DEF ServedInv, PlacesKnown, Down
  <2> QED BY <1>1, <1>5, <2>1 DEF ServedInv, PlacesKnown, Answered
<1>8. TasksKnown'
  <2>1. /\ \A op \in NotedOps : Has(op)' => Has(op)
        /\ NoFlushBehind'
    BY <1>1, NoneNoted DEF ServedInv, TasksKnown, PostsUnnoted
  <2>2. \A i \in 1 .. Len(tasks) : tasks[i].op # "flush" \/ i = 1
    BY <1>2, TookTasks, <1>1 DEF ServedInv, TasksKnown, NoFlushBehind
  <2>3. ~Has("flush")'
    <3>1. \A i \in 1 .. Len(tasks') : tasks'[i].op = "flush" => i + 1 \in 1 .. Len(tasks) /\ tasks'[i] = tasks[i + 1]
      BY <1>1, TookTasks DEF OwnOps
    <3>2. \A i \in 1 .. Len(tasks') : i + 1 # 1
      OBVIOUS
    <3> QED BY <2>2, <3>1, <3>2 DEF Has
  <2> QED BY <1>1, <1>5, <2>1, <2>3 DEF ServedInv, TasksKnown, NotedOps
<1>9. StopIsServed'
  BY <1>4, <1>5, ServedMeans DEF ResetComes
<1> QED BY <1>6, <1>7, <1>8, <1>9 DEF ServedInv

\* The component starts: its caller waits, so nobody stops or releases it.
LEMMA ServedStart ==
  ASSUME TypeOK, StopProtocol, ServedInv, InitResults = {"ok"}, NEW result \in InitResults, OnStart(result)
  PROVE  ServedInv'
<1>1. /\ Took /\ tasks # <<>> /\ Head(tasks).op = "start" /\ UNCHANGED <<mState, stopped, lock>>
      /\ comp' = "STARTED" /\ dec' = NewDecoder /\ initResult' = "ok" /\ Signal(lock)
  BY ThreadTakes DEF OnStart, Runs, RunTask, clientVars, Took, UpdateState, VdecInitResult
<1>2. 1 \in 1 .. Len(tasks) /\ tasks[1].op = "start"
  BY <1>1, TookTasks
<1>3. lock \in Callers /\ pc[lock] = "starting" /\ lock # NoCaller
  BY <1>2, CallersAssumption DEF StopProtocol, StarterWaits
<1>4. /\ pc'[lock] = "started"
      /\ \A d \in Callers : d # lock => pc'[d] = pc[d] /\ pc[d] \notin Locked
  BY <1>1, <1>3 DEF Signal, Signalled, StopProtocol, LockHeld, TypeOK, DataOK
<1>5. ~Down' /\ dec'.up
  BY <1>1 DEF Down, NewDecoder, NoDecoder
<1>6. InStart'
  BY <1>3, <1>4 DEF InStart
<1>7. DecoderUp' /\ StateTold'
  BY <1>1, <1>5, <1>6 DEF DecoderUp, StateTold
<1>8. PlacesKnown'
  <2> SUFFICES ASSUME NEW c \in Callers
               PROVE  /\ Answered(c)' => comp' = "UNINITIALIZED"
                      /\ pc'[c] = "started" => ~Down'
                      /\ pc'[c] \in {"flushing", "waiting"} => mState' # "LOADED"
                      /\ pc'[c] \in {"relDone", "destroying", "released"} => mState' = "LOADED" /\ lock' = NoCaller
    BY DEF PlacesKnown
  <2>1. CASE c = lock
    BY <1>4, <1>5, <2>1 DEF Answered
  <2>2. CASE c # lock
    BY <1>1, <1>4, <1>5, <2>2 DEF ServedInv, PlacesKnown, Locked, Answered
  <2> QED BY <2>1, <2>2
<1>9. TasksKnown'
  <2>1. /\ \A op \in NotedOps : Has(op)' => Has(op)
        /\ NoFlushBehind'
    BY <1>1, NoneNoted DEF ServedInv, TasksKnown, PostsUnnoted
  <2>2. (\E c \in Callers : pc[c] \in {"destroying", "released"}) => \E c \in Callers : pc'[c] \in {"destroying", "released"}
    BY <1>3, <1>4
  <2> QED BY <1>1, <1>5, <2>1, <2>2 DEF ServedInv, TasksKnown, NotedOps
<1>10. StopIsServed'
  <2>1. \A c \in Callers : ~StopWaiter(c)'
    BY <1>4 DEF StopWaiter, Locked
  <2> QED BY <2>1, ServedMeans
<1> QED BY <1>7, <1>8, <1>9, <1>10 DEF ServedInv

\* The component is destroyed after it has been stopped.
LEMMA ServedDestroy ==
  ASSUME TypeOK, StopProtocol, ServedInv, OnDestroy
  PROVE  ServedInv'
<1>1. /\ Took /\ tasks # <<>> /\ Head(tasks).op = "destroy" /\ UNCHANGED <<mState, stopped, lock, initResult>>
      /\ comp' = "DESTROYED"
      /\ \A d \in Callers : pc'[d] = IF pc[d] = "destroying" THEN "released" ELSE pc[d]
  BY ThreadTakes DEF OnDestroy, Runs, RunTask, Took, UpdateState, Signalled
<1>2. 1 \in 1 .. Len(tasks) /\ tasks[1].op = "destroy"
  BY <1>1, TookTasks
<1>3. mState = "LOADED" /\ lock = NoCaller
  BY <1>2 DEF ServedInv, TasksKnown, Has, PlacesKnown
<1>4. \A d \in Callers : pc[d] \notin Locked
  BY <1>3, CallersAssumption DEF StopProtocol, LockHeld
<1>5. Down'
  BY <1>1 DEF Down
<1>6. DecoderUp' /\ StateTold'
  BY <1>1, <1>3, <1>5 DEF ServedInv, DecoderUp, StateTold
<1>7. PlacesKnown'
  BY <1>1, <1>3, <1>4 DEF ServedInv, PlacesKnown, Answered, Locked
<1>8. TasksKnown'
  <2>1. /\ \A op \in NotedOps : Has(op)' => Has(op)
        /\ NoFlushBehind'
    BY <1>1, NoneNoted DEF ServedInv, TasksKnown, PostsUnnoted
  <2>2. (\E c \in Callers : pc[c] \in {"destroying", "released"}) => \E c \in Callers : pc'[c] \in {"destroying", "released"}
    BY <1>1
  <2>3. ~Has("stop")
    BY <1>3, CallersAssumption DEF StopProtocol, StopperWaits, StopWaiter, Has
  <2> QED BY <1>3, <2>1, <2>2, <2>3 DEF ServedInv, TasksKnown, NotedOps
<1>9. StopIsServed'
  <2>1. \A c \in Callers : ~StopWaiter(c)'
    BY <1>1, <1>4 DEF StopWaiter, Locked
  <2> QED BY <2>1, ServedMeans
<1> QED BY <1>6, <1>7, <1>8, <1>9 DEF ServedInv

\* Where the threads are after a step of one of them.
LEMMA OneMoves ==
  ASSUME TypeOK, NEW c \in Callers, NEW place, GoTo(c, place)
  PROVE  \A d \in Callers : pc'[d] = IF d = c THEN place ELSE pc[d]
BY DEF GoTo, TypeOK, DataOK

\* A thread that moves between places that matter little.
LEMMA ServedMove ==
  ASSUME TypeOK, StopProtocol, ServedInv, NEW c \in Callers, NEW place \in Loose, pc[c] \in Loose, GoTo(c, place),
         place \in {"flushing", "waiting"} => mState # "LOADED",
         UNCHANGED tasks \/ \E t \in Tasks : t.op \notin NotedOps /\ Post(t),
         UNCHANGED <<mState, lock, initResult, dec>>, stopped' => stopped,
         comp' = comp \/ (InService(comp) /\ InService(comp'))
  PROVE  ServedInv'
<1>1. PostsUnnoted
  BY DEF PostsUnnoted
<1>2. \A op : Has(op) => Has(op)'
  BY OthersStay
<1>3. \A d \in Callers : \/ pc'[d] = pc[d]
                         \/ /\ pc[d] \in Loose /\ pc'[d] \in Loose
                            /\ pc'[d] \in {"flushing", "waiting"} => mState # "LOADED"
  BY OneMoves
<1>4. ResetComes => ResetComes'
  BY <1>2 DEF ResetComes
<1> QED BY <1>1, <1>2, <1>3, <1>4, ServedStays

\* What is known when nobody holds mStartStopLock.
LEMMA LockFree ==
  ASSUME StopProtocol, ServedInv, lock = NoCaller
  PROVE  /\ \A c \in Callers : pc[c] \notin Locked
         /\ ~InStart /\ ~Has("stop") /\ ~Has("start") /\ comp # "STOPPING"
         /\ mState = "LOADED" <=> Down
         /\ stopped => mState = "LOADED"
<1>1. \A c \in Callers : pc[c] \notin Locked
  BY CallersAssumption DEF StopProtocol, LockHeld
<1>2. ~InStart /\ \A c \in Callers : ~Answered(c)
  BY <1>1 DEF InStart, Locked, Answered
<1>3. ~Has("stop") /\ ~Has("start") /\ comp # "STOPPING"
  BY CallersAssumption DEF StopProtocol, StarterWaits, StopperWaits, EventOfHolder, StopWaiter, Has
<1> QED BY <1>1, <1>2, <1>3 DEF ServedInv, StateTold

\* One task more: it is the last one, and the others are where they were.
LEMMA Posted ==
  ASSUME TypeOK, NEW t \in Tasks, Post(t)
  PROVE  /\ \A op : Has(op)' <=> Has(op) \/ t.op = op
         /\ NoFlushBehind /\ ~(t.op = "flush" /\ Has("stop")) => NoFlushBehind'
<1>1. /\ Len(tasks) \in Nat /\ Len(tasks') = Len(tasks) + 1
      /\ \A k \in 1 .. Len(tasks) : tasks'[k] = tasks[k]
      /\ tasks'[Len(tasks) + 1] = t
  BY PostedTasks
<1>2. /\ \A k \in 1 .. Len(tasks') : k \in 1 .. Len(tasks) \/ k = Len(tasks) + 1
      /\ \A k \in 1 .. Len(tasks) : k \in 1 .. Len(tasks')
      /\ Len(tasks) + 1 \in 1 .. Len(tasks')
  BY <1>1
<1>3. \A op : Has(op)' <=> Has(op) \/ t.op = op
  BY <1>1, <1>2 DEF Has
<1>4. ASSUME NoFlushBehind, ~(t.op = "flush" /\ Has("stop")) PROVE NoFlushBehind'
  <2> SUFFICES ASSUME NEW i \in 1 .. Len(tasks'), NEW j \in 1 .. Len(tasks'), i < j,
                      tasks'[i].op = "stop", tasks'[j].op = "flush"
               PROVE  FALSE
    BY DEF NoFlushBehind
  <2>1. i \in 1 .. Len(tasks)
    BY <1>1, <1>2
  <2>2. CASE j \in 1 .. Len(tasks)
    BY <1>1, <1>4, <2>1, <2>2 DEF NoFlushBehind
  <2>3. CASE j = Len(tasks) + 1
    BY <1>1, <1>4, <2>1, <2>3 DEF Has
  <2> QED BY <1>2, <2>2, <2>3
<1> QED BY <1>3, <1>4

\* start takes the lock of a component that is loaded.
LEMMA ServedStartCall ==
  ASSUME TypeOK, StopProtocol, ServedInv, NEW c \in Callers, StartCall(c)
  PROVE  ServedInv'
<1> USE DEF threadVars, envVars
<1>1. /\ pc[c] = "idle" /\ lock = NoCaller /\ mState = "LOADED" /\ lock' = c /\ GoTo(c, "starting")
      /\ UNCHANGED <<mState, stopped, comp, initResult, dec>> /\ Post(PlainTask("start"))
      /\ \A d \in Callers : pc[d] \notin {"releasing", "relStopping", "relStopDone", "relDone", "destroying", "released"}
  BY DEF StartCall, MayCall, Releasing
<1>2. PlainTask("start") \in Tasks /\ PlainTask("start").op = "start"
  BY DEF PlainTask, Task, Tasks, PlainOps
<1>3. /\ \A op : Has(op)' <=> Has(op) \/ op = "start"
      /\ NoFlushBehind'
  BY <1>1, <1>2, Posted DEF ServedInv, TasksKnown
<1>4. /\ \A d \in Callers : pc[d] \notin Locked
      /\ Down /\ Down' /\ ~Has("stop")
  BY <1>1, LockFree DEF Down
<1>5. \A d \in Callers : pc'[d] = IF d = c THEN "starting" ELSE pc[d]
  BY <1>1, OneMoves
<1>6. DecoderUp' /\ StateTold'
  BY <1>1, <1>4, <1>5 DEF ServedInv, DecoderUp, StateTold, InStart
<1>7. PlacesKnown'
  BY <1>1, <1>4, <1>5 DEF ServedInv, PlacesKnown, Locked, Answered
<1>8. TasksKnown'
  BY <1>1, <1>3, <1>4, <1>5 DEF ServedInv, TasksKnown
<1>9. StopIsServed'
  <2>1. \A d \in Callers : ~StopWaiter(d)'
    BY <1>4, <1>5 DEF StopWaiter, Locked
  <2> QED BY <2>1, ServedMeans
<1> QED BY <1>6, <1>7, <1>8, <1>9 DEF ServedInv

\* stop takes the lock of a component that runs.
LEMMA ServedStopCall ==
  ASSUME TypeOK, StopProtocol, ServedInv, NEW c \in Callers, StopCall(c)
  PROVE  ServedInv'
<1> USE DEF threadVars, envVars
<1>1. /\ pc[c] \in {"idle", "resetting", "releasing"} /\ lock = NoCaller /\ mState # "LOADED" /\ lock' = c
      /\ \E place \in {"stopping", "relStopping"} : GoTo(c, place)
      /\ UNCHANGED <<mState, stopped, comp, initResult, dec>> /\ Post(PlainTask("stop")) /\ ~stopped
  BY DEF StopCall, MayCall
<1>2. PlainTask("stop") \in Tasks /\ PlainTask("stop").op = "stop"
  BY DEF PlainTask, Task, Tasks, PlainOps
<1>3. /\ \A op : Has(op)' <=> Has(op) \/ op = "stop"
      /\ NoFlushBehind'
  BY <1>1, <1>2, Posted DEF ServedInv, TasksKnown
<1>4. /\ \A d \in Callers : pc[d] \notin Locked
      /\ ~Down /\ ~Down'
  BY <1>1, LockFree DEF Down
<1>5. \A d \in Callers : pc'[d] = pc[d] \/ (d = c /\ pc'[d] \in {"stopping", "relStopping"})
  BY <1>1, OneMoves
<1>6. DecoderUp' /\ StateTold'
  BY <1>1, <1>4 DEF ServedInv, DecoderUp, StateTold
<1>7. PlacesKnown'
  BY <1>1, <1>4, <1>5 DEF ServedInv, PlacesKnown, Locked, Answered
<1>8. TasksKnown'
  BY <1>1, <1>3, <1>4, <1>5 DEF ServedInv, TasksKnown
<1>9. StopIsServed'
  BY <1>3, ServedMeans
<1> QED BY <1>6, <1>7, <1>8, <1>9 DEF ServedInv

\* start returns, and the client sees the component run.
LEMMA ServedStartReturn ==
  ASSUME TypeOK, StopProtocol, ServedInv, NEW c \in Callers, StartReturn(c)
  PROVE  ServedInv'
<1> USE DEF threadVars, envVars
<1>1. /\ pc[c] = "started" /\ lock' = NoCaller /\ GoTo(c, "idle") /\ mState' = "RUNNING" /\ stopped' = FALSE
      /\ UNCHANGED <<comp, initResult, dec, tasks>>
  BY DEF StartReturn, ServedInv, StateTold
<1>2. lock = c /\ \A d \in Callers : d # c => pc[d] \notin Locked
  BY <1>1 DEF StopProtocol, LockHeld, Locked
<1>3. ~Down /\ ~Down'
  BY <1>1 DEF ServedInv, PlacesKnown, Down
<1>4. \A d \in Callers : pc'[d] = IF d = c THEN "idle" ELSE pc[d]
  BY <1>1, OneMoves
<1>5. DecoderUp' /\ StateTold'
  BY <1>1, <1>3 DEF ServedInv, DecoderUp, StateTold
<1>6. PlacesKnown'
  BY <1>1, <1>2, <1>3, <1>4, CallersAssumption DEF ServedInv, PlacesKnown, Locked, Answered
<1>7. TasksKnown'
  <2>1. comp # "STOPPING"
    BY <1>1, <1>2 DEF StopProtocol, EventOfHolder, StopWaiter
  <2>2. (\E d \in Callers : pc[d] \in {"destroying", "released"}) => \E d \in Callers : pc'[d] \in {"destroying", "released"}
    BY <1>1, <1>4
  <2>3. \A op : Has(op)' <=> Has(op)
    BY <1>1 DEF Has
  <2>4. NoFlushBehind'
    BY <1>1 DEF ServedInv, TasksKnown, NoFlushBehind
  <2> QED BY <1>1, <1>3, <2>1, <2>2, <2>3, <2>4 DEF ServedInv, TasksKnown
<1>8. StopIsServed'
  <2>1. \A d \in Callers : ~StopWaiter(d)'
    BY <1>2, <1>4 DEF StopWaiter, Locked
  <2> QED BY <2>1, ServedMeans
<1> QED BY <1>5, <1>6, <1>7, <1>8 DEF ServedInv

\* stop returns, and the client sees the component loaded.
LEMMA ServedStopReturn ==
  ASSUME TypeOK, StopProtocol, ServedInv, FlushApart, NEW c \in Callers, StopReturn(c)
  PROVE  ServedInv'
<1> USE DEF threadVars, envVars
<1>1. /\ Answered(c) /\ lock' = NoCaller /\ mState' = "LOADED"
      /\ \E place \in {"idle", "relDone"} : GoTo(c, place)
      /\ UNCHANGED <<comp, initResult, dec, tasks>>
  BY DEF StopReturn, Answered
<1>2. lock = c /\ \A d \in Callers : d # c => pc[d] \notin Locked
  BY <1>1 DEF StopProtocol, LockHeld, Locked, Answered
<1>3. comp = "UNINITIALIZED" /\ Down /\ Down'
  BY <1>1 DEF ServedInv, PlacesKnown, Down
<1>4. \A d \in Callers : pc'[d] = pc[d] \/ (d = c /\ pc'[d] \in {"idle", "relDone"})
  BY <1>1, OneMoves
<1>5. DecoderUp' /\ StateTold'
  BY <1>1, <1>3 DEF ServedInv, DecoderUp, StateTold
<1>6. \A d \in Callers : pc[d] \notin {"flushing", "waiting"}
  BY <1>1 DEF FlushApart
<1>7. PlacesKnown'
  BY <1>1, <1>2, <1>3, <1>4, <1>6 DEF ServedInv, PlacesKnown, Locked, Answered
<1>8. TasksKnown'
  <2>1. (\E d \in Callers : pc[d] \in {"destroying", "released"}) => \E d \in Callers : pc'[d] \in {"destroying", "released"}
    BY <1>1, <1>4 DEF Answered
  <2>2. \A op : Has(op)' <=> Has(op)
    BY <1>1 DEF Has
  <2>3. NoFlushBehind'
    BY <1>1 DEF ServedInv, TasksKnown, NoFlushBehind
  <2> QED BY <1>1, <1>3, <2>1, <2>2, <2>3 DEF ServedInv, TasksKnown
<1>9. StopIsServed'
  <2>1. \A d \in Callers : ~StopWaiter(d)'
    BY <1>1, <1>2, <1>4 DEF StopWaiter, Locked, Answered
  <2> QED BY <2>1, ServedMeans
<1> QED BY <1>5, <1>7, <1>8, <1>9 DEF ServedInv

\* release of a component that is stopped, and the rest of it.
LEMMA ServedRelease ==
  ASSUME TypeOK, StopProtocol, ServedInv, NEW c \in Callers, StopNeedless(c) \/ DestroyCall(c)
  PROVE  ServedInv'
<1> USE DEF threadVars, envVars
<1>1. /\ pc[c] \in {"resetting", "releasing", "relDone"} /\ \E place \in {"idle", "relDone", "destroying"} : GoTo(c, place)
      /\ UNCHANGED <<mState, stopped, lock, comp, initResult, dec>>
      /\ UNCHANGED tasks \/ (Post(PlainTask("destroy")) /\ GoTo(c, "destroying"))
      /\ lock = NoCaller /\ (stopped \/ mState = "LOADED")
  BY DEF StopNeedless, DestroyCall, ServedInv, PlacesKnown
<1>2. PlainTask("destroy") \in Tasks /\ PlainTask("destroy").op = "destroy"
  BY DEF PlainTask, Task, Tasks, PlainOps
<1>3. /\ \A d \in Callers : pc[d] \notin Locked
      /\ Down /\ Down' /\ ~Has("stop") /\ mState = "LOADED"
  BY <1>1, LockFree DEF Down
<1>4. \A d \in Callers : pc'[d] = pc[d] \/ (d = c /\ pc'[d] \in {"idle", "relDone", "destroying"})
  BY <1>1, OneMoves
<1>5. DecoderUp' /\ StateTold'
  BY <1>1, <1>3 DEF ServedInv, DecoderUp, StateTold
<1>6. PlacesKnown'
  BY <1>1, <1>3, <1>4 DEF ServedInv, PlacesKnown, Locked, Answered
<1>7. TasksKnown'
  <2>1. (\E d \in Callers : pc[d] \in {"destroying", "released"}) => \E d \in Callers : pc'[d] \in {"destroying", "released"}
    BY <1>1, <1>4
  <2>2. CASE UNCHANGED tasks
    <3>1. \A op : Has(op)' <=> Has(op)
      BY <2>2 DEF Has
    <3>2. NoFlushBehind'
      BY <2>2 DEF ServedInv, TasksKnown, NoFlushBehind
    <3> QED BY <1>1, <1>3, <2>1, <3>1, <3>2 DEF ServedInv, TasksKnown
  <2>3. CASE Post(PlainTask("destroy")) /\ GoTo(c, "destroying")
    <3>1. /\ \A op : Has(op)' <=> Has(op) \/ op = "destroy"
          /\ NoFlushBehind'
      BY <1>2, <2>3, Posted DEF ServedInv, TasksKnown
    <3>2. pc'[c] = "destroying"
      BY <2>3, OneMoves
    <3> QED BY <1>1, <1>3, <3>1, <3>2 DEF ServedInv, TasksKnown
  <2> QED BY <1>1, <2>2, <2>3
<1>8. StopIsServed'
  <2>1. \A d \in Callers : ~StopWaiter(d)'
    BY <1>3, <1>4 DEF StopWaiter, Locked
  <2> QED BY <2>1, ServedMeans
<1> QED BY <1>5, <1>6, <1>7, <1>8 DEF ServedInv

\* flush_sm is called of a component that runs, and not while another thread stops it.
LEMMA ServedFlushCall ==
  ASSUME TypeOK, StopProtocol, ServedInv, FlushApart', NEW c \in Callers, FlushCall(c)
  PROVE  ServedInv'
<1> USE DEF threadVars, envVars
<1>1. /\ pc[c] = "idle" /\ GoTo(c, "flushing") /\ mState = "RUNNING" /\ Post(PlainTask("flush"))
      /\ UNCHANGED <<mState, stopped, lock, comp, initResult, dec>>
  BY DEF FlushCall, MayCall
<1>2. PlainTask("flush") \in Tasks /\ PlainTask("flush").op = "flush"
  BY DEF PlainTask, Task, Tasks, PlainOps
<1>3. \A d \in Callers : pc'[d] = IF d = c THEN "flushing" ELSE pc[d]
  BY <1>1, OneMoves
<1>4. \A d \in Callers : ~StopWaiter(d) /\ ~Answered(d)
  BY <1>1, <1>3 DEF FlushApart, StopWaiter, Answered
<1>5. ~Down /\ ~Down' /\ comp # "STOPPING" /\ ~Has("stop")
  BY <1>1, <1>4 DEF ServedInv, StateTold, Down, StopProtocol, EventOfHolder, StopperWaits, StopWaiter, Has
<1>6. /\ \A op : Has(op)' <=> Has(op) \/ op = "flush"
      /\ NoFlushBehind'
  BY <1>1, <1>2, <1>5, Posted DEF ServedInv, TasksKnown
<1>7. DecoderUp' /\ StateTold'
  <2>1. InStart => InStart'
    BY <1>1, <1>3 DEF InStart
  <2> QED BY <1>1, <1>5, <2>1 DEF ServedInv, DecoderUp, StateTold
<1>8. PlacesKnown'
  BY <1>1, <1>3, <1>4, <1>5 DEF ServedInv, PlacesKnown, Answered
<1>9. TasksKnown'
  <2>1. (\E d \in Callers : pc[d] \in {"destroying", "released"}) => \E d \in Callers : pc'[d] \in {"destroying", "released"}
    BY <1>1, <1>3
  <2> QED BY <1>1, <1>5, <1>6, <2>1 DEF ServedInv, TasksKnown
<1>10. StopIsServed'
  <2>1. \A d \in Callers : ~StopWaiter(d)'
    BY <1>3, <1>4 DEF StopWaiter
  <2> QED BY <2>1, ServedMeans
<1> QED BY <1>7, <1>8, <1>9, <1>10 DEF ServedInv

\* ServedInv is inductive as long as no thread is in flush_sm while another is in stop.
LEMMA ServedStep ==
  ASSUME TypeOK, StopProtocol, ServedInv, InitResults = {"ok"}, FlushApart, FlushApart', [Next]_vars
  PROVE  ServedInv'
<1> USE DEF clientVars, threadVars, envVars
<1>1. CASE UNCHANGED vars
  <2>1. UNCHANGED <<mState, stopped, lock, pc, comp, initResult, stopEvent, tasks, dec>>
    BY <1>1 DEF vars
  <2>2. \A op : Has(op) => Has(op)'
    BY <2>1 DEF Has
  <2>3. ResetComes => ResetComes'
    BY <2>1, <2>2 DEF ResetComes
  <2> QED BY <2>1, <2>2, <2>3, ServedStays DEF PostsUnnoted
<1>2. CASE Decoder
  BY <1>2, ServedDecoder
<1>3. CASE RunTask
  <2>1. CASE Head(tasks).op \notin {"stop", "resetDone", "start", "destroy"}
    BY <1>3, <2>1, ServedOrdinary
  <2>2. CASE Head(tasks).op = "resetDone"
    BY <1>3, <2>2, ServedResetDone
  <2>3. ASSUME Head(tasks).op \in {"stop", "start", "destroy"}
        PROVE  OnStop \/ (\E result \in InitResults : OnStart(result)) \/ OnDestroy
    BY <1>3, <2>3 DEF RunTask, Runs, RefuseTask, RefusingTasks, OnQueueWork, SkipDequeue, OnDequeueWork,
         OnInputDoneUnknown, OnInputBufferDone, OnSendOutputs, OnOutputWhileFlushing, OnOutputUnknown,
         OnOutputBufferDone, OnDrain, OnDrainDone, OnDrainDoneNoEos, OnDrainDoneStopping,
         OnDrainDoneUnexpected, OnFlush, OnFlushDoneWithError, OnFlushDone, OnStopDone,
         OnResetDoneStopped, OnResetDoneUnexpected, OnReportError, OnNoOutFrameNotify,
         OnReportNoOutFrameFinished, OnErrorFrame
  <2> QED BY <2>1, <2>2, <2>3, ServedStop, ServedStart, ServedDestroy
<1>4. ASSUME NEW c \in Callers, Calls(c) \/ Returns(c) PROVE ServedInv'
  <2>0. \A op \in {"dequeueWork", "drain"} :
          \A arg \in {"none", "EOS", "NO_EOS"} : Task(op, NoWork, arg) \in Tasks /\ Task(op, NoWork, arg).op = op
    BY DEF Task, Tasks, PlainOps
  <2>1. ASSUME ResetCall(c) PROVE ServedInv'
    <3>1. \E place \in {"resetting", "releasing"} : GoTo(c, place)
      BY <2>1 DEF ResetCall
    <3>2. /\ pc[c] \in Loose /\ UNCHANGED <<tasks, mState, lock, initResult, dec, comp>> /\ ~stopped'
      BY <2>1 DEF ResetCall, MayCall, Loose
    <3> QED BY <3>1, <3>2, ServedMove DEF Loose
  <2>2. ASSUME NEW k \in Kinds, QueueCall(c, k) PROVE ServedInv'
    <3>1. next + 1 \in Works
      BY <2>2, BoundsAssumption DEF QueueCall, Works, TypeOK, DataOK
    <3>2. WorkTask("queueWork", next + 1) \in Tasks /\ WorkTask("queueWork", next + 1).op = "queueWork"
      BY <3>1 DEF WorkTask, Task, Tasks, WorkOps
    <3>3. /\ Post(WorkTask("queueWork", next + 1)) /\ UNCHANGED <<mState, stopped, lock, pc, comp, initResult, dec>>
      BY <2>2 DEF QueueCall
    <3>4. PostsUnnoted /\ \A op : Has(op) => Has(op)'
      BY <3>2, <3>3, OthersStay DEF PostsUnnoted, NotedOps
    <3>5. ResetComes => ResetComes'
      BY <3>3, <3>4 DEF ResetComes
    <3> QED BY <3>3, <3>4, <3>5, ServedStays
  <2>3. ASSUME NEW mode \in {"EOS", "NO_EOS"}, DrainCall(c, mode) PROVE ServedInv'
    <3>1. Post(Task("drain", NoWork, mode)) /\ UNCHANGED <<mState, stopped, lock, pc, comp, initResult, dec>>
      BY <2>3 DEF DrainCall
    <3>2. PostsUnnoted /\ \A op : Has(op) => Has(op)'
      BY <2>0, <3>1, OthersStay DEF PostsUnnoted, NotedOps
    <3>3. ResetComes => ResetComes'
      BY <3>1, <3>2 DEF ResetComes
    <3> QED BY <3>1, <3>2, <3>3, ServedStays
  <2>4. CASE FlushWait(c)
    <3>1. pc[c] = "flushing" /\ GoTo(c, "waiting") /\ UNCHANGED <<tasks, mState, stopped, lock, initResult, dec, comp>>
      BY <2>4 DEF FlushWait
    <3>2. mState # "LOADED"
      BY <3>1 DEF ServedInv, PlacesKnown
    <3> QED BY <3>1, <3>2, ServedMove DEF Loose
  <2>5. CASE FlushTimeOut(c)
    <3>1. /\ pc[c] = "waiting" /\ GoTo(c, "idle") /\ comp' = "STARTED"
          /\ UNCHANGED <<tasks, mState, stopped, lock, initResult, dec>>
      BY <2>5 DEF FlushTimeOut, UpdateState
    <3>2. mState # "LOADED" /\ \A d \in Callers : ~StopWaiter(d) /\ ~Answered(d)
      BY <3>1 DEF ServedInv, PlacesKnown, FlushApart
    <3>3. InService(comp) /\ InService(comp')
      BY <3>1, <3>2 DEF ServedInv, StateTold, Down, StopProtocol, EventOfHolder, StopWaiter, InService
    <3> QED BY <3>1, <3>3, ServedMove DEF Loose
  <2>6. CASE FlushReturn(c)
    <3>1. /\ pc[c] = "woken" /\ GoTo(c, "idle") /\ Post(PlainTask("dequeueWork"))
          /\ UNCHANGED <<mState, stopped, lock, initResult, dec, comp>>
      BY <2>6 DEF FlushReturn
    <3>2. PlainTask("dequeueWork") \in Tasks /\ PlainTask("dequeueWork").op \notin NotedOps
      BY <2>0 DEF PlainTask, NotedOps
    <3> QED BY <3>1, <3>2, ServedMove DEF Loose
  <2> QED BY <1>4, <2>1, <2>2, <2>3, <2>4, <2>5, <2>6, ServedStartCall, ServedStopCall, ServedStartReturn,
            ServedStopReturn, ServedRelease, ServedFlushCall DEF Calls, Returns
<1> QED BY <1>1, <1>2, <1>3, <1>4 DEF Next, Done

\* As long as starts succeed and no thread is in flush_sm while another is in stop, a thread that
\* waits in stop() will be answered, whatever is posted, reported late or refused meanwhile.
THEOREM StopServed ==
  ASSUME InitResults = {"ok"}
  PROVE  Spec /\ []FlushApart => []StopIsServed
<1>1. Init => StopProtocol
  BY EmptySeq DEF Init, StopProtocol, LockHeld, OneAtATime, StarterWaits, StopperWaits,
                  EventOfHolder, Locked
<1>2. Init => ServedInv
  BY EmptySeq, ServedMeans DEF Init, ServedInv, DecoderUp, StateTold, PlacesKnown, TasksKnown, NoFlushBehind, Has,
     Down, Answered, StopWaiter
<1>3. ServedInv => StopIsServed
  BY DEF ServedInv
<1>4. TypeOK /\ StopProtocol /\ ServedInv /\ FlushApart /\ FlushApart' /\ [Next]_vars => ServedInv'
  BY ServedStep
<1> QED BY <1>1, <1>2, <1>3, <1>4, TypeCorrect, StopProtocolStep, PTL DEF Spec

\* One client thread is in one call at a time.
THEOREM OneClientIsServed ==
  ASSUME InitResults = {"ok"}, NEW c, Callers = {c}
  PROVE  Spec => []StopIsServed
<1>1. FlushApart
  BY DEF FlushApart, StopWaiter, Answered
<1>2. Spec /\ []FlushApart => []StopIsServed
  BY StopServed
<1> QED BY <1>1, <1>2, PTL

-----------------------------------------------------------------------------
(* A flush gives everything back, to a single client.  What has to be known is *)
(* that the answer onFlushDone runs for is that of the flush under way, and     *)
(* that nothing is queued behind the flush before flush_sm returns.             *)

\* The wait of flush_sm does not end while the answer is still on its way.
Patient == \A c \in Callers : pc[c] = "waiting" /\ pc'[c] = "idle" => NoAnswerComing

InFlush(c) == pc[c] \in {"flushing", "waiting"}
Alone(op) ==
  \A i, j \in 1 .. Len(tasks) : tasks[i].op = op /\ tasks[j].op = op => i = j

\* One reset at a time, which is owed or answered.
ResetsOnce ==
  dec.resets <= 1 /\ (dec.resets = 1 => ~Has("resetDone")) /\ Alone("resetDone")

\* Whoever is owed it: the flush whose task has run, or the stop.
ResetIsFor(c) ==
  \/ InFlush(c) /\ comp = "FLUSHING" /\ ~Has("flush")
  \/ StopWaiter(c) /\ comp = "STOPPING"

\* Works on their way come before the flush.
WorkBeforeFlush ==
  \A i \in 1 .. Len(tasks) : tasks[i].op = "queueWork" =>
    \E j \in 1 .. Len(tasks) : i < j /\ tasks[j].op = "flush"

EmptyHands == Arriving = {} /\ queue = {} /\ pending = {} /\ abandoned = {}

FlushInv(c) ==
  /\ ResetsOnce /\ Alone("flush")
  /\ ResetComes => ResetIsFor(c)
  /\ Has("flush") \/ comp = "FLUSHING" => InFlush(c)
  /\ InFlush(c) => WorkBeforeFlush
  /\ pc[c] = "woken" => EmptyHands
  /\ Has("destroy") => pc[c] \in {"destroying", "released"}

\* What is known of the tasks after one was taken.
LEMMA FlushTook ==
  ASSUME TypeOK, Took
  PROVE  /\ \A op : op \notin OwnOps => /\ Has(op)' => Has(op)
                                        /\ Alone(op) => Alone(op)'
                                        /\ Alone(op) /\ Head(tasks).op = op => ~Has(op)'
         /\ WorkBeforeFlush /\ Head(tasks).op # "flush" => WorkBeforeFlush'
         /\ WorkBeforeFlush /\ Alone("flush") /\ Head(tasks).op = "flush" => ~Has("queueWork")'
         /\ Has(Head(tasks).op)
<1>1. /\ Len(tasks) \in Nat /\ Len(tasks') \in Nat /\ 1 \in 1 .. Len(tasks) /\ tasks[1] = Head(tasks)
      /\ \A k \in 2 .. Len(tasks) : k - 1 \in 1 .. Len(tasks') /\ tasks'[k - 1] = tasks[k]
  BY TookTasks
<1>2. ASSUME NEW i \in 1 .. Len(tasks'), tasks'[i].op \notin OwnOps
      PROVE  i + 1 \in 1 .. Len(tasks) /\ tasks'[i] = tasks[i + 1]
  BY <1>2, TookTasks
<1>3. ASSUME NEW op, op \notin OwnOps
      PROVE  /\ Has(op)' => Has(op)
             /\ Alone(op) => Alone(op)'
             /\ Alone(op) /\ Head(tasks).op = op => ~Has(op)'
  <2>1. Has(op)' => Has(op)
    BY <1>2, <1>3 DEF Has
  <2>2. ASSUME Alone(op) PROVE Alone(op)'
    <3> SUFFICES ASSUME NEW i \in 1 .. Len(tasks'), NEW j \in 1 .. Len(tasks'),
                        tasks'[i].op = op, tasks'[j].op = op
                 PROVE  i = j
      BY DEF Alone
    <3>1. i + 1 = j + 1
      BY <1>2, <1>3, <2>2 DEF Alone
    <3> QED BY <3>1
  <2>3. ASSUME Alone(op), Head(tasks).op = op PROVE ~Has(op)'
    <3> SUFFICES ASSUME NEW i \in 1 .. Len(tasks'), tasks'[i].op = op PROVE FALSE
      BY DEF Has
    <3>1. i + 1 = 1
      BY <1>1, <1>2, <1>3, <2>3 DEF Alone
    <3> QED BY <3>1
  <2> QED BY <2>1, <2>2, <2>3
<1>4. ASSUME WorkBeforeFlush, Head(tasks).op # "flush" PROVE WorkBeforeFlush'
  <2> SUFFICES ASSUME NEW i \in 1 .. Len(tasks'), tasks'[i].op = "queueWork"
               PROVE  \E j \in 1 .. Len(tasks') : i < j /\ tasks'[j].op = "flush"
    BY DEF WorkBeforeFlush
  <2>1. i + 1 \in 1 .. Len(tasks) /\ tasks[i + 1].op = "queueWork"
    BY <1>2 DEF OwnOps
  <2>2. PICK j \in 1 .. Len(tasks) : i + 1 < j /\ tasks[j].op = "flush"
    BY <1>4, <2>1 DEF WorkBeforeFlush
  <2>3. j \in 2 .. Len(tasks) /\ i < j - 1
    BY <2>2
  <2> QED BY <1>1, <2>2, <2>3
<1>5. ASSUME WorkBeforeFlush, Alone("flush"), Head(tasks).op = "flush" PROVE ~Has("queueWork")'
  <2> SUFFICES ASSUME NEW i \in 1 .. Len(tasks'), tasks'[i].op = "queueWork" PROVE FALSE
    BY DEF Has
  <2>1. i + 1 \in 1 .. Len(tasks) /\ tasks[i + 1].op = "queueWork"
    BY <1>2 DEF OwnOps
  <2>2. PICK j \in 1 .. Len(tasks) : i + 1 < j /\ tasks[j].op = "flush"
    BY <1>5, <2>1 DEF WorkBeforeFlush
  <2>3. j = 1
    BY <1>1, <1>5, <2>2 DEF Alone
  <2> QED BY <2>2, <2>3
<1>6. Has(Head(tasks).op)
  BY <1>1 DEF Has
<1> QED BY <1>3, <1>4, <1>5, <1>6

\* And after one was posted.
LEMMA FlushPosted ==
  ASSUME TypeOK, NEW t \in Tasks, Post(t)
  PROVE  /\ \A op : Has(op)' <=> Has(op) \/ t.op = op
         /\ \A op : Alone(op) /\ ~(t.op = op /\ Has(op)) => Alone(op)'
         /\ WorkBeforeFlush /\ t.op # "queueWork" => WorkBeforeFlush'
         /\ t.op = "flush" => WorkBeforeFlush'
<1>1. /\ Len(tasks) \in Nat /\ Len(tasks') = Len(tasks) + 1
      /\ \A k \in 1 .. Len(tasks) : tasks'[k] = tasks[k]
      /\ tasks'[Len(tasks) + 1] = t
  BY PostedTasks
<1>2. /\ \A k \in 1 .. Len(tasks') : k \in 1 .. Len(tasks) \/ k = Len(tasks) + 1
      /\ \A k \in 1 .. Len(tasks) : k \in 1 .. Len(tasks') /\ k < Len(tasks) + 1
      /\ Len(tasks) + 1 \in 1 .. Len(tasks')
  BY <1>1
<1>3. \A op : Has(op)' <=> Has(op) \/ t.op = op
  BY Posted
<1>4. ASSUME NEW op, Alone(op), ~(t.op = op /\ Has(op)) PROVE Alone(op)'
  <2> SUFFICES ASSUME NEW i \in 1 .. Len(tasks'), NEW j \in 1 .. Len(tasks'),
                      tasks'[i].op = op, tasks'[j].op = op
               PROVE  i = j
    BY DEF Alone
  <2>1. CASE t.op = op
    <3>1. \A k \in 1 .. Len(tasks') : tasks'[k].op = op => k = Len(tasks) + 1
      BY <1>1, <1>2, <1>4, <2>1 DEF Has
    <3> QED BY <3>1
  <2>2. CASE t.op # op
    <3>1. \A k \in 1 .. Len(tasks') : tasks'[k].op = op => k \in 1 .. Len(tasks) /\ tasks[k].op = op
      BY <1>1, <1>2, <2>2
    <3> QED BY <1>4, <3>1 DEF Alone
  <2> QED BY <2>1, <2>2
<1>5. ASSUME WorkBeforeFlush, t.op # "queueWork" PROVE WorkBeforeFlush'
  <2>1. \A i \in 1 .. Len(tasks') : tasks'[i].op = "queueWork" => i \in 1 .. Len(tasks) /\ tasks[i].op = "queueWork"
    BY <1>1, <1>2, <1>5
  <2> QED BY <1>1, <1>2, <1>5, <2>1 DEF WorkBeforeFlush
<1>6. ASSUME t.op = "flush" PROVE WorkBeforeFlush'
  <2>1. \A i \in 1 .. Len(tasks') : tasks'[i].op = "queueWork" => i \in 1 .. Len(tasks)
    BY <1>1, <1>2, <1>6
  <2> QED BY <1>1, <1>2, <1>6, <2>1 DEF WorkBeforeFlush
<1> QED BY <1>3, <1>4, <1>5, <1>6

\* Without a queueWork task nothing arrives.
LEMMA NoneArrive == ~Has("queueWork") => Arriving = {} /\ WorkBeforeFlush
BY DEF Has, Arriving, WorkBeforeFlush

\* The same after a step.
LEMMA NoneArrivePrime == ~Has("queueWork")' => Arriving' = {} /\ WorkBeforeFlush'
BY DEF Has, Arriving, WorkBeforeFlush

\* Once the flush has run, nothing arrives until flush_sm returns.
LEMMA FlushBarrier ==
  ASSUME WorkBeforeFlush, ~Has("flush")
  PROVE  ~Has("queueWork")
BY DEF WorkBeforeFlush, Has

\* Handlers bring no work back into the component.
LEMMA HandsEmpty ==
  ASSUME TypeOK, OrderInv, RunTask, EmptyHands
  PROVE  EmptyHands'
<1>1. (queue \cup pending \cup Arriving)' \subseteq queue \cup pending \cup Arriving
  BY NoneComesBack
<1>2. abandoned' \subseteq abandoned \cup queue
  <2> USE DEF workVars
  <2>1. CASE RefuseTask \/ SkipDequeue \/ OnQueueWork \/ OnDequeueWork
    BY <2>1 DEF RefuseTask, SkipDequeue, OnQueueWork, OnDequeueWork
  <2>2. CASE OnInputDoneUnknown \/ OnInputBufferDone \/ OnSendOutputs
    BY <2>2 DEF OnInputDoneUnknown, OnInputBufferDone, OnSendOutputs
  <2>3. CASE OnOutputWhileFlushing \/ OnOutputUnknown \/ OnOutputBufferDone \/ OnDrain
    BY <2>3 DEF OnOutputWhileFlushing, OnOutputUnknown, OnOutputBufferDone, OnDrain
  <2>4. CASE OnDrainDone
    BY <2>4 DEF OnDrainDone, ReportEos
  <2>5. CASE OnDrainDoneNoEos \/ OnDrainDoneStopping \/ OnDrainDoneUnexpected
    BY <2>5 DEF OnDrainDoneNoEos, OnDrainDoneStopping, OnDrainDoneUnexpected, ReportEos
  <2>6. CASE OnFlush \/ OnFlushDoneWithError \/ OnFlushDone
    BY <2>6 DEF OnFlush, OnFlushDoneWithError, OnFlushDone
  <2>7. CASE OnStop \/ OnStopDone
    BY <2>7 DEF OnStop, OnStopDone
  <2>8. CASE OnResetDoneStopped \/ OnResetDoneUnexpected \/ OnDestroy
    BY <2>8 DEF OnResetDoneStopped, OnResetDoneUnexpected, OnDestroy
  <2>9. ASSUME NEW result \in InitResults, OnStart(result) PROVE abandoned' \subseteq abandoned \cup queue
    BY <2>9 DEF OnStart
  <2>10. CASE OnReportError \/ OnNoOutFrameNotify \/ OnReportNoOutFrameFinished \/ OnErrorFrame
    BY <2>10 DEF OnReportError, OnNoOutFrameNotify, OnReportNoOutFrameFinished, OnErrorFrame
  <2> QED BY <2>1, <2>2, <2>3, <2>4, <2>5, <2>6, <2>7, <2>8, <2>9, <2>10 DEF RunTask
<1> QED BY <1>1, <1>2 DEF EmptyHands

\* A step that has no part in flushes, resets, stops and starts.
LEMMA FlushQuiet ==
  ASSUME TypeOK, NEW c, Callers = {c}, FlushInv(c),
         \/ Took /\ Head(tasks).op # "flush"
         \/ UNCHANGED tasks
         \/ \E t \in Tasks : t.op \notin {"flush", "resetDone", "destroy", "queueWork"} /\ Post(t),
         UNCHANGED pc, dec'.resets = dec.resets,
         \/ comp' = comp
         \/ comp \notin {"FLUSHING", "STOPPING"} /\ comp' \notin {"FLUSHING", "STOPPING"},
         pc[c] = "woken" => EmptyHands'
  PROVE  FlushInv(c)'
<1>1. /\ \A op \in {"flush", "resetDone", "destroy"} : (Has(op)' => Has(op)) /\ (Alone(op) => Alone(op)')
      /\ WorkBeforeFlush => WorkBeforeFlush'
  <2>1. CASE Took /\ Head(tasks).op # "flush"
    BY <2>1, FlushTook DEF OwnOps
  <2>2. CASE UNCHANGED tasks
    BY <2>2 DEF Has, Alone, WorkBeforeFlush
  <2>3. CASE \E t \in Tasks : t.op \notin {"flush", "resetDone", "destroy", "queueWork"} /\ Post(t)
    BY <2>3, FlushPosted
  <2> QED BY <2>1, <2>2, <2>3
<1>2. ResetsOnce' /\ Alone("flush")'
  BY <1>1 DEF FlushInv, ResetsOnce
<1>3. (ResetIsFor(c) => ResetIsFor(c)') /\ (InFlush(c)' <=> InFlush(c))
  BY <1>1 DEF ResetIsFor, InFlush, StopWaiter
<1>4. ResetComes' => ResetIsFor(c)'
  BY <1>1, <1>3 DEF FlushInv, ResetComes
<1> QED BY <1>1, <1>2, <1>3, <1>4 DEF FlushInv

\* The decoder: a reset it owes becomes the one notification on its way.
LEMMA FlushDecoder ==
  ASSUME TypeOK, NEW c, Callers = {c}, FlushInv(c), Decoder
  PROVE  FlushInv(c)'
<1> USE DEF clientVars, threadVars, workVars
<1>1. /\ \E t \in Tasks : t.op \in DecoderOps /\ Post(t)
      /\ UNCHANGED <<clientVars, threadVars, workVars>>
  BY DecoderPosts
<1>2. Arriving' = Arriving
  BY <1>1, ArrivingPosted DEF DecoderOps
<1>3. CASE DecResetDone
  <2>1. PlainTask("resetDone") \in Tasks /\ PlainTask("resetDone").op = "resetDone"
    BY DEF PlainTask, Task, Tasks, PlainOps
  <2>2. Post(PlainTask("resetDone")) /\ dec.resets > 0 /\ dec' = [dec EXCEPT !.resets = @ - 1]
    BY <1>3 DEF DecResetDone, DecoderStep
  <2>3. dec.resets = 1 /\ dec'.resets = 0
    BY <2>2 DEF FlushInv, ResetsOnce, TypeOK, DataOK, Decoders
  <2>4. /\ \A op : Has(op)' <=> Has(op) \/ op = "resetDone"
        /\ \A op \in {"flush", "resetDone"} : Alone(op) /\ ~(op = "resetDone" /\ Has(op)) => Alone(op)'
        /\ WorkBeforeFlush => WorkBeforeFlush'
    BY <2>1, <2>2, FlushPosted
  <2>5. ResetsOnce' /\ Alone("flush")'
    BY <2>3, <2>4 DEF FlushInv, ResetsOnce
  <2>6. ResetIsFor(c)'
    <3>1. ResetIsFor(c)
      BY <2>3 DEF FlushInv, ResetComes
    <3> QED BY <1>1, <2>4, <3>1 DEF ResetIsFor, InFlush, StopWaiter
  <2> QED BY <1>1, <1>2, <2>4, <2>5, <2>6 DEF FlushInv, InFlush, EmptyHands
<1>4. CASE ~DecResetDone
  <2>1. /\ dec'.resets = dec.resets
        /\ \E op \in DecoderOps \ {"resetDone"}, w \in Works \cup {NoWork}, arg \in {"none", "good", "bad"} :
             Task(op, w, arg) \in Tasks /\ Post(Task(op, w, arg))
    <3>1. /\ Works \in SUBSET Nat
          /\ dec \in Decoders /\ dec.inputs \in SUBSET Works /\ dec.frames \in SUBSET Works
      BY BoundsAssumption DEF TypeOK, DataOK, Works, Decoders
    <3>2. DecInputDone => Front(dec.inputs) \in Works
      BY <3>1, FrontProperty DEF DecInputDone
    <3> USE DEF DecoderStep, WorkTask, PlainTask, Task, Tasks, WorkOps, PlainOps, DecoderOps
    <3>3. CASE DecInputDone
      BY <3>1, <3>2, <3>3 DEF DecInputDone, Decoders
    <3>4. CASE DecDrained \/ DecError
      BY <3>1, <3>4 DEF DecDrained, DecError, Decoders
    <3>5. ASSUME NEW w \in dec.frames, NEW quality \in {"good", "bad"}, DecPicture(w, quality)
          PROVE  /\ dec'.resets = dec.resets
                 /\ Task("outputDone", w, quality) \in Tasks /\ Post(Task("outputDone", w, quality))
      BY <3>1, <3>5 DEF DecPicture, Decoders
    <3>6. ASSUME NEW w \in dec.frames, DecExtraPicture(w)
          PROVE  /\ dec'.resets = dec.resets
                 /\ Task("outputDone", w, "good") \in Tasks /\ Post(Task("outputDone", w, "good"))
      BY <3>1, <3>6 DEF DecExtraPicture
    <3>7. ASSUME NEW w \in dec.frames, NEW op \in {"noOutNotify", "errorFrame"}, DecNoPicture(w, op)
          PROVE  /\ dec'.resets = dec.resets
                 /\ Task(op, w, "none") \in Tasks /\ Post(Task(op, w, "none"))
      BY <3>1, <3>7 DEF DecNoPicture, Decoders
    <3> HIDE DEF DecoderStep, WorkTask, PlainTask, Task, Tasks, WorkOps, PlainOps
    <3> QED BY <1>4, <3>1, <3>3, <3>4, <3>5, <3>6, <3>7 DEF Decoder
  <2>2. \E t \in Tasks : t.op \notin {"flush", "resetDone", "destroy", "queueWork"} /\ Post(t)
    BY <2>1 DEF Task, DecoderOps
  <2>3. UNCHANGED pc /\ comp' = comp /\ (pc[c] = "woken" => EmptyHands')
    BY <1>1, <1>2 DEF FlushInv, EmptyHands
  <2> QED BY <2>1, <2>2, <2>3, FlushQuiet
<1> QED BY <1>3, <1>4

\* Every task but those of flush, stop, start, destroy and the end of a reset.
LEMMA FlushOrdinary ==
  ASSUME TypeOK, OrderInv, NEW c, Callers = {c}, FlushInv(c), RunTask,
         Head(tasks).op \notin {"flush", "stop", "resetDone", "start", "destroy"}
  PROVE  FlushInv(c)'
<1> USE DEF clientVars, threadVars, envVars, Runs, ReportError, UpdateState
<1> DEFINE Aside == /\ UNCHANGED pc /\ dec'.resets = dec.resets
                    /\ \/ comp' = comp
                       \/ comp \notin {"FLUSHING", "STOPPING"} /\ comp' \notin {"FLUSHING", "STOPPING"}
<1>1. Took /\ tasks # <<>> /\ (pc[c] = "woken" => EmptyHands')
  BY ThreadTakes, HandsEmpty DEF Took, FlushInv
<1>2. Aside
  <2>1. CASE RefuseTask \/ OnQueueWork \/ SkipDequeue
    BY <2>1 DEF RefuseTask, OnQueueWork, SkipDequeue
  <2>2. CASE OnDequeueWork
    <3>1. comp = "STARTED" /\ (comp' = comp \/ comp' = "DRAINING") /\ UNCHANGED pc /\ \E w : dec' = Decode(w)
      BY <2>2 DEF OnDequeueWork
    <3>2. dec'.resets = dec.resets
      BY <3>1, DecoderKept
    <3> QED BY <3>1, <3>2
  <2>3. CASE OnInputDoneUnknown \/ OnInputBufferDone \/ OnSendOutputs
    BY <2>3 DEF OnInputDoneUnknown, OnInputBufferDone, OnSendOutputs
  <2>4. CASE OnOutputWhileFlushing \/ OnOutputUnknown \/ OnOutputBufferDone
    BY <2>4 DEF OnOutputWhileFlushing, OnOutputUnknown, OnOutputBufferDone
  <2>5. CASE OnDrain
    <3>1. /\ UNCHANGED pc /\ (comp' = comp \/ (comp = "STARTED" /\ comp' = "DRAINING"))
          /\ dec' = dec \/ dec' = [dec EXCEPT !.eos = TRUE]
      BY <2>5 DEF OnDrain
    <3>2. dec'.resets = dec.resets
      BY <3>1, DecoderKept
    <3> QED BY <3>1, <3>2
  <2>6. CASE OnDrainDone \/ OnDrainDoneNoEos
    BY <2>6 DEF OnDrainDone, OnDrainDoneNoEos
  <2>7. CASE OnDrainDoneStopping \/ OnDrainDoneUnexpected
    BY <2>7 DEF OnDrainDoneStopping, OnDrainDoneUnexpected
  <2>8. CASE OnReportError \/ OnNoOutFrameNotify
    BY <2>8 DEF OnReportError, OnNoOutFrameNotify
  <2>9. CASE OnReportNoOutFrameFinished \/ OnErrorFrame
    BY <2>9 DEF OnReportNoOutFrameFinished, OnErrorFrame
  <2> QED BY <2>1, <2>2, <2>3, <2>4, <2>5, <2>6, <2>7, <2>8, <2>9
        DEF RunTask, OnFlush, OnFlushDoneWithError, OnFlushDone, OnStop, OnStopDone, OnResetDoneStopped,
           OnResetDoneUnexpected, OnStart, OnDestroy
<1> HIDE DEF Aside
<1> QED BY <1>1, <1>2, FlushQuiet DEF Aside

\* onFlush asks for a reset: none is under way, and no work is queued behind it.
LEMMA FlushOnFlush ==
  ASSUME TypeOK, StopProtocol, OrderInv, NEW c, Callers = {c}, FlushInv(c), OnFlush
  PROVE  FlushInv(c)'
<1>1. Took /\ Head(tasks).op = "flush" /\ UNCHANGED <<pc, workVars>> /\ RunTask
  BY ThreadTakes DEF OnFlush, Runs, RunTask, clientVars
<1>2. /\ Has("flush") /\ ~Has("flush")' /\ ~Has("queueWork")' /\ Alone("resetDone")' /\ Alone("flush")'
      /\ \A op \in {"resetDone", "destroy"} : Has(op)' => Has(op)
  BY <1>1, FlushTook DEF FlushInv, ResetsOnce, OwnOps, InFlush
<1>3. InFlush(c) /\ InFlush(c)' /\ pc[c] # "woken" /\ pc'[c] # "woken" /\ ~StopWaiter(c) /\ ~Has("destroy")
  BY <1>1, <1>2 DEF FlushInv, InFlush, StopWaiter
<1>4. ~ResetComes
  BY <1>2, <1>3 DEF FlushInv, ResetIsFor
<1>5. dec.resets = 0 /\ ~Has("resetDone") /\ dec \in Decoders
  BY <1>4 DEF ResetComes, TypeOK, DataOK, Decoders
<1>6. CASE comp \in {"FLUSHING", "STOPPING"}
  <2>1. comp' = comp /\ dec' = dec
    BY <1>6 DEF OnFlush
  <2> QED BY <1>2, <1>3, <1>5, <2>1, NoneArrivePrime DEF FlushInv, ResetsOnce, ResetComes
<1>7. CASE comp \notin {"FLUSHING", "STOPPING"}
  <2>1. comp' = "FLUSHING" /\ ResetDecoder
    BY <1>7 DEF OnFlush, UpdateState
  <2>2. dec'.resets \in {0, 1}
    BY <1>5, <2>1 DEF ResetDecoder, Decoders
  <2> QED BY <1>2, <1>3, <1>5, <2>1, <2>2, NoneArrivePrime DEF FlushInv, ResetsOnce, ResetIsFor
<1> QED BY <1>6, <1>7

\* The answer to the flush or the stop under way: there is no other.
LEMMA FlushResetDone ==
  ASSUME TypeOK, OrderInv, NEW c, Callers = {c}, FlushInv(c), RunTask, Head(tasks).op = "resetDone"
  PROVE  FlushInv(c)'
<1> USE DEF clientVars, threadVars, envVars, UpdateState
<1>1. /\ Took /\ tasks # <<>> /\ Has("resetDone") /\ ~Has("resetDone")' /\ Alone("resetDone")' /\ Alone("flush")'
      /\ \A op \in {"flush", "destroy", "queueWork"} : Has(op)' => Has(op)
      /\ WorkBeforeFlush => WorkBeforeFlush'
  BY ThreadTakes, FlushTook DEF FlushInv, ResetsOnce, OwnOps, Took
<1>2. dec.resets = 0 /\ ResetIsFor(c)
  BY <1>1 DEF FlushInv, ResetsOnce, ResetComes, TypeOK, DataOK, Decoders
<1>3. ASSUME dec' = dec PROVE ResetsOnce' /\ ~ResetComes'
  BY <1>1, <1>2, <1>3 DEF ResetsOnce, ResetComes
<1>4. comp \in {"FLUSHING", "STOPPING"}
  BY <1>2 DEF ResetIsFor
<1>5. CASE OnFlushDoneWithError
  <2>1. UNCHANGED <<pc, comp, dec>>
    BY <1>5 DEF OnFlushDoneWithError
  <2>2. InFlush(c) /\ pc'[c] # "woken"
    BY <1>5, <2>1 DEF OnFlushDoneWithError, FlushInv, InFlush
  <2> QED BY <1>1, <1>3, <2>1, <2>2 DEF FlushInv, InFlush
<1>6. CASE OnFlushDone
  <2>1. /\ comp = "FLUSHING" /\ comp' = "STARTED" /\ dec' = dec
        /\ queue' = {} /\ pending' = {} /\ abandoned' = {}
    BY <1>6 DEF OnFlushDone
  <2>2. InFlush(c) /\ ~Has("flush") /\ ~Has("queueWork")
    BY <1>2, <2>1, FlushBarrier DEF ResetIsFor, FlushInv
  <2>3. pc'[c] \in {"woken", "flushing"}
    <3>1. CASE pc[c] = "waiting"
      <4>1. GoTo(c, "woken")
        BY <1>6, <3>1 DEF OnFlushDone
      <4> QED BY <4>1, OneMoves
    <3>2. CASE pc[c] = "flushing"
      BY <1>6, <3>2 DEF OnFlushDone
    <3> QED BY <2>2, <3>1, <3>2 DEF InFlush
  <2>4. EmptyHands' /\ WorkBeforeFlush'
    BY <1>1, <2>1, <2>2, NoneArrivePrime DEF EmptyHands
  <2>5. ~Has("destroy") /\ ~Has("flush")'
    BY <1>1, <2>2 DEF FlushInv, InFlush
  <2>6. \/ pc'[c] = "woken"
        \/ pc'[c] = "flushing"
    BY <2>3
  <2> QED BY <1>1, <1>3, <2>1, <2>4, <2>5 DEF FlushInv
<1>7. CASE OnStopDone
  <2>1. comp = "STOPPING" /\ comp' = "UNINITIALIZED" /\ dec' = dec /\ Signal(stopEvent)
    BY <1>7 DEF OnStopDone
  <2>2. StopWaiter(c) /\ ~Has("flush") /\ ~Has("destroy")
    BY <1>2, <2>1 DEF ResetIsFor, FlushInv, StopWaiter, InFlush
  <2>3. pc'[c] \notin {"flushing", "waiting", "woken"}
    BY <2>1, <2>2 DEF Signal, Signalled, StopWaiter, TypeOK, DataOK
  <2> QED BY <1>1, <1>3, <2>1, <2>2, <2>3 DEF FlushInv, InFlush
<1> QED BY <1>4, <1>5, <1>6, <1>7
        DEF RunTask, Runs, RefuseTask, RefusingTasks, OnQueueWork, SkipDequeue, OnDequeueWork,
            OnInputDoneUnknown, OnInputBufferDone, OnSendOutputs, OnOutputWhileFlushing, OnOutputUnknown,
            OnOutputBufferDone, OnDrain, OnDrainDone, OnDrainDoneNoEos, OnDrainDoneStopping,
            OnDrainDoneUnexpected, OnFlush, OnStop, OnResetDoneStopped, OnResetDoneUnexpected, OnStart,
            OnDestroy, OnReportError, OnNoOutFrameNotify, OnReportNoOutFrameFinished, OnErrorFrame

\* A stop, a start, a release: no flush is under way.
LEMMA FlushOthers ==
  ASSUME TypeOK, StopProtocol, OrderInv, NEW c, Callers = {c}, FlushInv(c),
         OnStop \/ (\E result \in InitResults : OnStart(result)) \/ OnDestroy
  PROVE  FlushInv(c)'
<1> USE DEF clientVars, UpdateState, Runs
<1>1. /\ Took /\ tasks # <<>> /\ Head(tasks).op \in {"stop", "start", "destroy"}
  BY ThreadTakes DEF OnStop, OnStart, OnDestroy, RunTask, Took
<1>2. /\ 1 \in 1 .. Len(tasks) /\ tasks[1] = Head(tasks)
      /\ Has(Head(tasks).op) /\ Alone("resetDone")' /\ Alone("flush")'
      /\ \A op \in {"flush", "resetDone", "destroy"} : Has(op)' => Has(op)
  BY <1>1, TookTasks, FlushTook DEF FlushInv, ResetsOnce, OwnOps
<1>3. ASSUME ~InFlush(c), ~ResetComes, dec'.resets \in {0, 1}, comp' # "FLUSHING",
             pc'[c] \notin {"flushing", "waiting", "woken"},
             dec'.resets = 1 => ResetIsFor(c)',
             Has("destroy") => pc'[c] \in {"destroying", "released"}
      PROVE  FlushInv(c)'
  <2>1. ~Has("flush")' /\ ~Has("resetDone")'
    BY <1>2, <1>3 DEF FlushInv, ResetComes
  <2>2. ResetsOnce' /\ (ResetComes' => ResetIsFor(c)')
    BY <1>2, <1>3, <2>1 DEF ResetsOnce, ResetComes
  <2> QED BY <1>2, <1>3, <2>1, <2>2 DEF FlushInv, InFlush
<1>4. CASE OnStop
  <2>1. StopWaiter(c) /\ comp # "STOPPING"
    BY <1>2, <1>4 DEF OnStop, StopProtocol, StopperWaits, StopWaiter
  <2>2. ~InFlush(c) /\ ~ResetComes /\ ~Has("destroy")
    BY <2>1 DEF InFlush, StopWaiter, FlushInv, ResetIsFor
  <2>3. dec.resets = 0 /\ dec \in Decoders /\ UNCHANGED pc
    BY <1>4, <2>2 DEF ResetComes, TypeOK, DataOK, Decoders, OnStop
  <2>4. (comp' = comp /\ dec' = dec /\ NothingToStop) \/ (comp' = "STOPPING" /\ ResetDecoder)
    BY <1>4 DEF OnStop
  <2>5. dec'.resets \in {0, 1} /\ (dec'.resets = 1 => comp' = "STOPPING") /\ comp' # "FLUSHING"
    <3>1. CASE comp' = comp /\ dec' = dec /\ NothingToStop
      BY <2>3, <3>1 DEF NothingToStop
    <3>2. CASE comp' = "STOPPING" /\ ResetDecoder
      <4>1. dec'.resets \in {0, 1}
        BY <2>3, <3>2 DEF ResetDecoder, Decoders
      <4> QED BY <3>2, <4>1
    <3> QED BY <2>4, <3>1, <3>2
  <2> QED BY <1>3, <2>1, <2>2, <2>3, <2>5 DEF ResetIsFor, StopWaiter
<1>5. ASSUME NEW result \in InitResults, OnStart(result) PROVE FlushInv(c)'
  <2>1. pc[c] = "starting" /\ lock = c
    BY <1>2, <1>5 DEF OnStart, StopProtocol, StarterWaits
  <2>2. ~InFlush(c) /\ ~ResetComes /\ ~Has("destroy")
    BY <2>1 DEF InFlush, StopWaiter, FlushInv, ResetIsFor
  <2>3. dec'.resets = 0 /\ comp' # "FLUSHING"
    BY <1>5 DEF OnStart, NewDecoder, NoDecoder
  <2>4. pc'[c] \in {"starting", "started"}
    BY <1>5, <2>1, OneMoves DEF OnStart, Signal, Signalled, GoTo, TypeOK, DataOK
  <2> QED BY <1>3, <2>2, <2>3, <2>4
<1>6. CASE OnDestroy
  <2>1. pc[c] \in {"destroying", "released"}
    BY <1>2, <1>6 DEF OnDestroy, FlushInv
  <2>2. ~InFlush(c) /\ ~ResetComes
    BY <2>1 DEF InFlush, StopWaiter, FlushInv, ResetIsFor
  <2>3. dec'.resets = 0 /\ comp' # "FLUSHING" /\ pc'[c] = "released"
    BY <1>6, <2>1 DEF OnDestroy, NoDecoder, Signalled
  <2> QED BY <1>3, <2>2, <2>3
<1> QED BY <1>4, <1>5, <1>6

\* FlushInv is kept by the component thread.
LEMMA FlushThread ==
  ASSUME TypeOK, StopProtocol, OrderInv, NEW c, Callers = {c}, FlushInv(c), RunTask
  PROVE  FlushInv(c)'
<1>1. CASE Head(tasks).op \notin {"flush", "stop", "resetDone", "start", "destroy"}
  BY <1>1, FlushOrdinary
<1>2. CASE Head(tasks).op = "resetDone"
  BY <1>2, FlushResetDone
<1>3. ASSUME Head(tasks).op \in {"flush", "stop", "start", "destroy"}
      PROVE  OnFlush \/ OnStop \/ (\E result \in InitResults : OnStart(result)) \/ OnDestroy
  BY <1>3 DEF RunTask, Runs, RefuseTask, RefusingTasks, OnQueueWork, SkipDequeue, OnDequeueWork,
       OnInputDoneUnknown, OnInputBufferDone, OnSendOutputs, OnOutputWhileFlushing, OnOutputUnknown,
       OnOutputBufferDone, OnDrain, OnDrainDone, OnDrainDoneNoEos, OnDrainDoneStopping,
       OnDrainDoneUnexpected, OnFlushDoneWithError, OnFlushDone, OnStopDone, OnResetDoneStopped,
       OnResetDoneUnexpected, OnReportError, OnNoOutFrameNotify, OnReportNoOutFrameFinished, OnErrorFrame
<1> QED BY <1>1, <1>2, <1>3, FlushOnFlush, FlushOthers

\* A step of the client that is not waiting for a reset: none is under way.
LEMMA FlushMove ==
  ASSUME TypeOK, NEW c, Callers = {c}, FlushInv(c), ~InFlush(c), ~StopWaiter(c), NEW place, GoTo(c, place),
         place # "woken", pc[c] \in {"destroying", "released"} => place = pc[c],
         UNCHANGED <<comp, dec>>,
         \/ UNCHANGED tasks /\ place \notin {"flushing", "waiting"}
         \/ \E t \in Tasks : /\ t.op # "resetDone" /\ Post(t)
                             /\ t.op = "flush" <=> place = "flushing"
                             /\ t.op = "destroy" => place = "destroying"
                             /\ place # "waiting"
  PROVE  FlushInv(c)'
<1>1. pc'[c] = place
  BY OneMoves
<1>2. ~Has("flush") /\ comp # "FLUSHING" /\ ~ResetComes
  BY DEF FlushInv, ResetIsFor
<1>3. CASE UNCHANGED tasks /\ place \notin {"flushing", "waiting"}
  BY <1>1, <1>2, <1>3 DEF FlushInv, ResetsOnce, Alone, Has, ResetComes, InFlush
<1>4. ASSUME NEW t \in Tasks, t.op # "resetDone", Post(t), t.op = "flush" <=> place = "flushing",
             t.op = "destroy" => place = "destroying", place # "waiting"
      PROVE  FlushInv(c)'
  <2>1. /\ \A op : Has(op)' <=> Has(op) \/ t.op = op
        /\ Alone("flush")' /\ Alone("resetDone")'
        /\ t.op = "flush" => WorkBeforeFlush'
    BY <1>2, <1>4, FlushPosted DEF FlushInv, ResetsOnce
  <2>2. ResetsOnce' /\ ~ResetComes'
    BY <1>2, <1>4, <2>1 DEF FlushInv, ResetsOnce, ResetComes
  <2>3. Has("destroy")' => place \in {"destroying", "released"}
    BY <1>4, <2>1 DEF FlushInv
  <2>4. /\ Has("flush")' \/ comp' = "FLUSHING" => InFlush(c)'
        /\ InFlush(c)' => WorkBeforeFlush'
    BY <1>1, <1>2, <1>4, <2>1 DEF InFlush
  <2> QED BY <1>1, <2>1, <2>2, <2>3, <2>4 DEF FlushInv
<1> QED BY <1>3, <1>4

\* A task the client posts while it stays where it is.
LEMMA FlushStays ==
  ASSUME TypeOK, NEW c, Callers = {c}, FlushInv(c), MayCall(c), UNCHANGED <<pc, comp, dec>>,
         NEW t \in Tasks, t.op \in {"queueWork", "drain"}, Post(t)
  PROVE  FlushInv(c)'
<1>1. pc[c] = "idle" /\ GoTo(c, "idle")
  BY DEF MayCall, GoTo, TypeOK, DataOK
<1> QED BY <1>1, FlushMove DEF InFlush, StopWaiter

\* FlushInv is kept by the calls of the client.
LEMMA FlushCalls ==
  ASSUME TypeOK, NEW c, Callers = {c}, FlushInv(c), Calls(c)
  PROVE  FlushInv(c)'
<1> USE DEF threadVars, envVars
<1>0. /\ \A op \in PlainOps : PlainTask(op) \in Tasks /\ PlainTask(op).op = op
      /\ \A mode \in {"EOS", "NO_EOS"} : Task("drain", NoWork, mode) \in Tasks /\ Task("drain", NoWork, mode).op = "drain"
  BY DEF PlainTask, Task, Tasks, PlainOps
<1>1. ASSUME StartCall(c) PROVE FlushInv(c)'
  <2>1. pc[c] = "idle" /\ GoTo(c, "starting") /\ Post(PlainTask("start")) /\ UNCHANGED <<comp, dec>>
    BY <1>1 DEF StartCall, MayCall
  <2>2. ~InFlush(c) /\ ~StopWaiter(c)
    BY <2>1 DEF InFlush, StopWaiter
  <2>3. PlainTask("start") \in Tasks /\ PlainTask("start").op = "start"
    BY <1>0 DEF PlainOps
  <2> QED BY <2>1, <2>2, <2>3, FlushMove
<1>2. ASSUME StopCall(c) PROVE FlushInv(c)'
  <2>1. /\ pc[c] \in {"idle", "resetting", "releasing"} /\ Post(PlainTask("stop")) /\ UNCHANGED <<comp, dec>>
        /\ \E place \in {"stopping", "relStopping"} : GoTo(c, place)
    BY <1>2 DEF StopCall, MayCall
  <2>2. ~InFlush(c) /\ ~StopWaiter(c)
    BY <2>1 DEF InFlush, StopWaiter
  <2>3. PlainTask("stop") \in Tasks /\ PlainTask("stop").op = "stop"
    BY <1>0 DEF PlainOps
  <2> QED BY <2>1, <2>2, <2>3, FlushMove
<1>3. ASSUME ResetCall(c) PROVE FlushInv(c)'
  <2>1. /\ pc[c] = "idle" /\ UNCHANGED <<tasks, comp, dec>>
        /\ \E place \in {"resetting", "releasing"} : GoTo(c, place)
    BY <1>3 DEF ResetCall, MayCall
  <2> QED BY <2>1, FlushMove DEF InFlush, StopWaiter
<1>4. ASSUME FlushCall(c) PROVE FlushInv(c)'
  <2>1. pc[c] = "idle" /\ GoTo(c, "flushing") /\ Post(PlainTask("flush")) /\ UNCHANGED <<comp, dec>>
    BY <1>4 DEF FlushCall, MayCall
  <2>2. ~InFlush(c) /\ ~StopWaiter(c)
    BY <2>1 DEF InFlush, StopWaiter
  <2>3. PlainTask("flush") \in Tasks /\ PlainTask("flush").op = "flush"
    BY <1>0 DEF PlainOps
  <2> QED BY <2>1, <2>2, <2>3, FlushMove
<1>5. ASSUME NEW k \in Kinds, QueueCall(c, k) PROVE FlushInv(c)'
  <2>1. next + 1 \in Works
    BY <1>5, BoundsAssumption DEF QueueCall, Works, TypeOK, DataOK
  <2>2. WorkTask("queueWork", next + 1) \in Tasks /\ WorkTask("queueWork", next + 1).op = "queueWork"
    BY <2>1 DEF WorkTask, Task, Tasks, WorkOps
  <2>3. MayCall(c) /\ UNCHANGED <<pc, comp, dec>> /\ Post(WorkTask("queueWork", next + 1))
    BY <1>5 DEF QueueCall
  <2> QED BY <2>2, <2>3, FlushStays
<1>6. ASSUME NEW mode \in {"EOS", "NO_EOS"}, DrainCall(c, mode) PROVE FlushInv(c)'
  <2>1. MayCall(c) /\ UNCHANGED <<pc, comp, dec>> /\ Post(Task("drain", NoWork, mode))
    BY <1>6 DEF DrainCall, clientVars
  <2> QED BY <1>0, <2>1, FlushStays
<1> QED BY <1>1, <1>2, <1>3, <1>4, <1>5, <1>6 DEF Calls

\* And as they end, if a flush does not end while its answer is on its way.
LEMMA FlushReturns ==
  ASSUME TypeOK, NEW c, Callers = {c}, FlushInv(c), Returns(c), Patient
  PROVE  FlushInv(c)'
<1> USE DEF threadVars, envVars, workVars
<1>0. \A op \in PlainOps : PlainTask(op) \in Tasks /\ PlainTask(op).op = op
  BY DEF PlainTask, Task, Tasks
<1>1. CASE StartReturn(c) \/ StopReturn(c) \/ StopNeedless(c)
  <2>1. /\ pc[c] \in {"started", "stopDone", "relStopDone", "resetting", "releasing"}
        /\ UNCHANGED <<tasks, comp, dec>> /\ \E place \in {"idle", "relDone"} : GoTo(c, place)
    BY <1>1 DEF StartReturn, StopReturn, StopNeedless
  <2> QED BY <2>1, FlushMove DEF InFlush, StopWaiter
<1>2. CASE DestroyCall(c)
  <2>1. pc[c] = "relDone" /\ GoTo(c, "destroying") /\ Post(PlainTask("destroy")) /\ UNCHANGED <<comp, dec>>
    BY <1>2 DEF DestroyCall
  <2>2. ~InFlush(c) /\ ~StopWaiter(c)
    BY <2>1 DEF InFlush, StopWaiter
  <2>3. PlainTask("destroy") \in Tasks /\ PlainTask("destroy").op = "destroy"
    BY <1>0 DEF PlainOps
  <2> QED BY <2>1, <2>2, <2>3, FlushMove
<1>3. CASE FlushReturn(c)
  <2>1. pc[c] = "woken" /\ GoTo(c, "idle") /\ Post(PlainTask("dequeueWork")) /\ UNCHANGED <<comp, dec>>
    BY <1>3 DEF FlushReturn
  <2>2. ~InFlush(c) /\ ~StopWaiter(c)
    BY <2>1 DEF InFlush, StopWaiter
  <2>3. PlainTask("dequeueWork") \in Tasks /\ PlainTask("dequeueWork").op = "dequeueWork"
    BY <1>0 DEF PlainOps
  <2> QED BY <2>1, <2>2, <2>3, FlushMove
<1>4. CASE FlushWait(c)
  <2>1. pc[c] = "flushing" /\ GoTo(c, "waiting") /\ UNCHANGED <<tasks, comp, dec>>
    BY <1>4 DEF FlushWait
  <2>2. pc'[c] = "waiting"
    BY <2>1, OneMoves
  <2> QED BY <2>1, <2>2 DEF FlushInv, ResetsOnce, Alone, Has, ResetComes, ResetIsFor, InFlush, StopWaiter,
                             WorkBeforeFlush
<1>5. CASE FlushTimeOut(c)
  <2>1. /\ pc[c] = "waiting" /\ GoTo(c, "idle") /\ comp' = "STARTED" /\ UNCHANGED <<tasks, dec>>
    BY <1>5 DEF FlushTimeOut, UpdateState
  <2>2. pc'[c] = "idle"
    BY <2>1, OneMoves
  <2>3. NoAnswerComing
    BY <2>1, <2>2 DEF Patient
  <2>4. tasks' = <<>> /\ dec'.resets = 0 /\ Len(tasks') = 0
    BY <2>1, <2>3, EmptySeq DEF NoAnswerComing
  <2>5. \A op : ~Has(op)' /\ Alone(op)'
    BY <2>4 DEF Has, Alone
  <2>6. ResetsOnce' /\ ~ResetComes'
    BY <2>4, <2>5 DEF ResetsOnce, ResetComes
  <2> QED BY <2>1, <2>2, <2>5, <2>6 DEF FlushInv, InFlush
<1> QED BY <1>1, <1>2, <1>3, <1>4, <1>5 DEF Returns

\* FlushInv is inductive for one client that waits for its flushes.
LEMMA FlushStep ==
  ASSUME TypeOK, StopProtocol, OrderInv, NEW c, Callers = {c}, FlushInv(c), [Next /\ Patient]_vars
  PROVE  FlushInv(c)'
<1>1. CASE UNCHANGED vars
  <2>1. UNCHANGED <<tasks, dec, pc, comp, queue, pending, abandoned>>
    BY <1>1 DEF vars, clientVars, threadVars, workVars, envVars
  <2>2. Arriving' = Arriving
    BY <2>1 DEF Arriving
  <2> QED BY <2>1, <2>2 DEF FlushInv, ResetsOnce, Alone, Has, ResetComes, ResetIsFor, InFlush, StopWaiter,
                             WorkBeforeFlush, EmptyHands
<1>2. CASE RunTask
  BY <1>2, FlushThread
<1>3. CASE Decoder
  BY <1>3, FlushDecoder
<1>4. CASE Patient /\ (Calls(c) \/ Returns(c))
  BY <1>4, FlushCalls, FlushReturns
<1> QED BY <1>1, <1>2, <1>3, <1>4 DEF Next, Done

\* Only flush_sm leaves the wait it was woken from, and it gives back the list.
LEMMA WokenReturns ==
  ASSUME TypeOK, Next, NEW c \in Callers, pc[c] = "woken", pc'[c] = "idle"
  PROVE  FlushReturn(c)
<1> USE DEF clientVars, threadVars, envVars
<1>1. ~(UNCHANGED vars)
  BY DEF vars
<1>2. ~Decoder
  BY DecoderPosts
<1>3. ASSUME NEW d \in Callers, Calls(d) \/ Returns(d) PROVE FlushReturn(c)
  <2>1. ASSUME d # c PROVE FALSE
    <3>1. UNCHANGED pc \/ \E place : GoTo(d, place)
      BY <1>3 DEF Calls, Returns, StartCall, StopCall, ResetCall, FlushCall, QueueCall, DrainCall, StartReturn,
                  StopReturn, FlushWait, FlushTimeOut, FlushReturn, DestroyCall, StopNeedless
    <3> QED BY <2>1, <3>1, OneMoves
  <2>2. CASE d = c
    BY <1>3, <2>2 DEF Calls, Returns, StartCall, StopCall, ResetCall, FlushCall, QueueCall, DrainCall, StartReturn,
                      StopReturn, FlushWait, FlushTimeOut, DestroyCall, StopNeedless, MayCall
  <2> QED BY <2>1, <2>2
<1>4. ASSUME RunTask PROVE FALSE
  <2>1. UNCHANGED pc \/ (\E d : Signal(d)) \/ (\E d \in Callers : GoTo(d, "woken"))
        \/ pc' = [d \in Callers |-> IF pc[d] = "destroying" THEN Signalled(pc[d]) ELSE pc[d]]
    <3>1. CASE OnFlushDone
      BY <3>1 DEF OnFlushDone
    <3>2. CASE OnStopDone \/ OnDestroy
      BY <3>2 DEF OnStopDone, OnDestroy
    <3>3. ASSUME NEW result \in InitResults, OnStart(result) PROVE UNCHANGED pc \/ \E d : Signal(d)
      BY <3>3 DEF OnStart
    <3>4. CASE RefuseTask \/ OnQueueWork \/ SkipDequeue \/ OnDequeueWork
      BY <3>4 DEF RefuseTask, OnQueueWork, SkipDequeue, OnDequeueWork
    <3>5. CASE OnInputDoneUnknown \/ OnInputBufferDone \/ OnSendOutputs
      BY <3>5 DEF OnInputDoneUnknown, OnInputBufferDone, OnSendOutputs
    <3>6. CASE OnOutputWhileFlushing \/ OnOutputUnknown \/ OnOutputBufferDone \/ OnDrain
      BY <3>6 DEF OnOutputWhileFlushing, OnOutputUnknown, OnOutputBufferDone, OnDrain
    <3>7. CASE OnDrainDone \/ OnDrainDoneNoEos \/ OnDrainDoneStopping \/ OnDrainDoneUnexpected
      BY <3>7 DEF OnDrainDone, OnDrainDoneNoEos, OnDrainDoneStopping, OnDrainDoneUnexpected
    <3>8. CASE OnFlush \/ OnFlushDoneWithError \/ OnStop
      BY <3>8 DEF OnFlush, OnFlushDoneWithError, OnStop
    <3>9. CASE OnResetDoneStopped \/ OnResetDoneUnexpected
      BY <3>9 DEF OnResetDoneStopped, OnResetDoneUnexpected
    <3>10. CASE OnReportError \/ OnNoOutFrameNotify \/ OnReportNoOutFrameFinished \/ OnErrorFrame
      BY <3>10 DEF OnReportError, OnNoOutFrameNotify, OnReportNoOutFrameFinished, OnErrorFrame
    <3> QED BY <1>4, <3>1, <3>2, <3>3, <3>4, <3>5, <3>6, <3>7, <3>8, <3>9, <3>10 DEF RunTask
  <2>2. ASSUME NEW d, Signal(d) PROVE FALSE
    BY <2>2 DEF Signal, Signalled, TypeOK, DataOK
  <2>3. ASSUME NEW d \in Callers, GoTo(d, "woken") PROVE FALSE
    BY <2>3, OneMoves
  <2> QED BY <2>1, <2>2, <2>3
<1> QED BY <1>1, <1>2, <1>3, <1>4 DEF Next, Done

\* flush_sm returns C2_OK only with every work queued before it given back, to a single
\* client whose flush does not time out while the answer is on its way.
THEOREM FlushComplete ==
  ASSUME NEW only, Callers = {only}
  PROVE  Spec /\ [][Patient]_vars => FlushGivesAllBack
<1>1. Init => StopProtocol
  BY EmptySeq DEF Init, StopProtocol, LockHeld, OneAtATime, StarterWaits, StopperWaits,
                  EventOfHolder, Locked
<1>2. Init => FlushInv(only)
  BY EmptySeq DEF Init, FlushInv, ResetsOnce, Alone, Has, ResetComes, InFlush, NoDecoder
<1>3. TypeOK /\ StopProtocol /\ OrderInv /\ FlushInv(only) /\ [Next]_vars /\ [Patient]_vars => FlushInv(only)'
  BY FlushStep
<1>4. TypeOK /\ AllPlaced /\ FlushInv(only) /\ [Next]_vars =>
        [\A c \in Callers : pc[c] = "woken" /\ pc'[c] = "idle" =>
           \A w \in 1 .. next : answer'[w] # "none"]_vars
  <2> SUFFICES ASSUME TypeOK, AllPlaced, FlushInv(only), Next,
                      NEW c \in Callers, pc[c] = "woken", pc'[c] = "idle", NEW w \in 1 .. next
               PROVE  answer'[w] # "none"
    OBVIOUS
  <2>1. answer' = Answer(flushList, "notFound")
    BY WokenReturns DEF FlushReturn
  <2>2. w \in Works /\ w <= next
    BY BoundsAssumption DEF TypeOK, DataOK, Works
  <2>3. answer[w] = "none" => w \in flushList
    BY <2>2 DEF AllPlaced, Placed, FlushInv, EmptyHands
  <2>4. answer'[w] = IF w \in flushList THEN "notFound" ELSE answer[w]
    BY <2>1, <2>2, AnswerAt
  <2> QED BY <2>3, <2>4
<1>5. Spec /\ [][Patient]_vars => []FlushInv(only)
  BY <1>1, <1>2, <1>3, InitPlaced, TypeCorrect, StopProtocolStep, OrderStep, PTL DEF Spec
<1>6. Spec => []AllPlaced
  BY InitPlaced, TypeCorrect, OrderStep, PlacedStep, PTL DEF Spec
<1> QED BY <1>4, <1>5, <1>6, TypeCorrect, PTL DEF Spec, FlushGivesAllBack

=============================================================================
