----------------------------- MODULE ImportProofs -----------------------------
(***************************************************************************)
(* Lemmas about the steps of Import and DbInteractions: what keeps the     *)
(* types, the semaphores, the correlation of answers and the staging       *)
(* databases in order.  ImportServiceProofs and IngestProofs draw their    *)
(* theorems from them.                                                     *)
(***************************************************************************)
EXTENDS Import, TLAPS, SequenceTheorems

USE DEF dbVars, importVars, rpcVars

\* The first message of a queue is a message, the rest of it is a queue.
LEMMA QueueLemma ==
    ASSUME NEW q \in Seq(Message), q # <<>>
    PROVE  Head(q) \in Message /\ Tail(q) \in Seq(Message)
BY HeadTailProperties

-----------------------------------------------------------------------------
(* Types *)

\* The operations of RunningPicture keep the databases well-typed.
LEMMA DbOperationsType ==
    ASSUME DbTypeOK, NEW s \in Source, NEW f \in File,
           \/ CreateProcessedFileEntry(s, f) \/ Stage(s, f) \/ Merge(s, f)
           \/ ClearStaging(s)
    PROVE  DbTypeOK'
<1> USE DEF DbTypeOK, Swallowed, SetStatus, Status, Source
<1>1. CASE CreateProcessedFileEntry(s, f) BY <1>1 DEF CreateProcessedFileEntry
<1>2. CASE Stage(s, f) BY <1>2 DEF Stage
<1>3. CASE Merge(s, f) BY <1>3 DEF Merge
<1>4. CASE ClearStaging(s) BY <1>4 DEF ClearStaging
<1> QED BY <1>1, <1>2, <1>3, <1>4

\* What Import's own steps keep well-typed.
LEMMA ImportStepType ==
    ASSUME ImportTypeOK, ImportStep, UNCHANGED crashes
    PROVE  ImportTypeOK'
<1> USE DEF At, Goto, Return
<1>1. PICK h \in Handler :
        \/ \E s \in Source : Receive(h, s)
        \/ Acquire(h) \/ SendStage(h) \/ StageAnswered(h) \/ SendMerge(h)
        \/ MergeAnswered(h) \/ Release(h) \/ Complete(h) \/ Check(h) \/ Reset(h)
        \/ PublishImportFinished(h)
  BY DEF ImportStep
<1>2. ASSUME NEW s \in Source, Receive(h, s) PROVE ImportTypeOK'
  <2>1. Head(inbox[s]) \in Message /\ Tail(inbox[s]) \in Seq(Message)
    BY <1>2, QueueLemma DEF ImportTypeOK, Receive
  <2>2. inbox' \in [Source -> Seq(Message)]
    BY <1>2, <2>1 DEF ImportTypeOK, Receive
  <2>3. job'[h] \in Job
    BY <1>2, <2>1 DEF ImportTypeOK, Receive, Job, Message
  <2> QED BY <1>2, <2>2, <2>3 DEF ImportTypeOK, DbTypeOK, Receive, Step
<1>3. CASE Acquire(h) BY <1>3 DEF ImportTypeOK, DbTypeOK, Acquire, Step, Job
<1>4. ASSUME NEW op \in Call, NEW w \in Step, Send(h, op, w), w # "idle" PROVE ImportTypeOK'
  <2>1. job[h] \in Job BY <1>4 DEF ImportTypeOK, Send, Call
  <2>2. requests' \in SUBSET Request
    BY <1>4, <2>1 DEF ImportTypeOK, Send, Request, Job
  <2>3. DbTypeOK' BY <1>4 DEF ImportTypeOK, DbTypeOK, Send
  <2>4. /\ pc' \in [Handler -> Step] /\ job' \in [Handler -> Job \cup {NoJob}]
        /\ \A g \in Handler : pc'[g] # "idle" => job'[g] \in Job
    BY <1>4, <2>1 DEF ImportTypeOK, Send
  <2> QED BY <1>4, <2>2, <2>3, <2>4 DEF ImportTypeOK, Send
<1>5. ASSUME NEW op \in Call, NEW w \in Step, NEW n \in Step, w # "idle",
             Answered(h, op, w, n)
      PROVE ImportTypeOK'
  <2>1. job[h] \in Job BY <1>5 DEF ImportTypeOK, Answered
  <2>2. responses' \in [Source -> [Call -> Nat]]
    BY <1>5, <2>1 DEF ImportTypeOK, Answered, Job
  <2> QED BY <1>5, <2>1, <2>2 DEF ImportTypeOK, DbTypeOK, Answered
<1>6. CASE Release(h) BY <1>6 DEF ImportTypeOK, DbTypeOK, Release, Step, Job
<1>7. CASE Complete(h) BY <1>7 DEF ImportTypeOK, DbTypeOK, Complete, Step, Job
<1>8. CASE Check(h) BY <1>8 DEF ImportTypeOK, DbTypeOK, Check, Step
<1>9. CASE Reset(h) BY <1>9 DEF ImportTypeOK, DbTypeOK, Reset, Step
<1>10. CASE PublishImportFinished(h)
  BY <1>10 DEF ImportTypeOK, DbTypeOK, PublishImportFinished, Step
<1>11. {"stage", "staging", "merge", "merging", "release"} \subseteq Step
       /\ {"stage", "merge"} \subseteq Call
  BY DEF Step, Call
<1> QED
  BY <1>1, <1>2, <1>3, <1>4, <1>5, <1>6, <1>7, <1>8, <1>9, <1>10, <1>11
     DEF SendStage, StageAnswered, SendMerge, MergeAnswered

\* What the handlers of DbInteractions keep well-typed.
LEMMA DbStepType ==
    ASSUME ImportTypeOK, DbStep, UNCHANGED crashes
    PROVE  ImportTypeOK'
<1>1. PICK r \in requests :
        RunStage(r) \/ RunMerge(r) \/ ClearAfterMerge(r) \/ Reply(r)
  BY DEF DbStep
<1>2. r \in Request /\ r.src \in Source /\ r.file \in File /\ r.op \in Call
  BY DEF ImportTypeOK, Request
<1>3. ASSUME NEW step \in {"run", "clear", "reply"}, Advance(r, step)
      PROVE  requests' \subseteq Request
  <2>1. [r EXCEPT !.at = step] \in Request BY <1>2 DEF Request
  <2> QED BY <1>3, <2>1 DEF Advance, ImportTypeOK
<1>4. CASE RunStage(r)
  <2>1. DbTypeOK' BY <1>2, <1>4, DbOperationsType DEF ImportTypeOK, RunStage
  <2> QED BY <1>3, <1>4, <2>1 DEF ImportTypeOK, RunStage
<1>5. CASE RunMerge(r)
  <2>1. DbTypeOK' BY <1>2, <1>5, DbOperationsType DEF ImportTypeOK, RunMerge
  <2> QED BY <1>3, <1>5, <2>1 DEF ImportTypeOK, RunMerge
<1>6. CASE ClearAfterMerge(r)
  <2>1. DbTypeOK' BY <1>2, <1>6, DbOperationsType DEF ImportTypeOK, ClearAfterMerge
  <2> QED BY <1>3, <1>6, <2>1 DEF ImportTypeOK, ClearAfterMerge
<1>7. CASE Reply(r)
  <2>1. responses' \in [Source -> [Call -> Nat]]
    BY <1>2, <1>7 DEF ImportTypeOK, Reply
  <2> QED BY <1>7, <2>1 DEF ImportTypeOK, DbTypeOK, Reply
<1> QED BY <1>1, <1>4, <1>5, <1>6, <1>7

LEMMA ImportInitType == ImportInit => ImportTypeOK
<1>1. "idle" \in Step /\ "None" \in Status BY DEF Step, Status
<1>2. ASSUME ImportInit PROVE inbox \in [Source -> Seq(Message)]
  <2>1. <<>> \in Seq(Message) BY EmptySeq
  <2> QED BY <1>2, <2>1 DEF ImportInit
<1> QED BY <1>1, <1>2 DEF ImportInit, DbInit, ImportTypeOK, DbTypeOK

\* A crash sets all that a process keeps in memory back to what it starts with.
LEMMA CrashType ==
    ASSUME ImportTypeOK, Crash
    PROVE  ImportTypeOK'
<1>1. CASE ImportCrash
  <2>1. "idle" \in Step BY DEF Step
  <2> QED BY <1>1, <2>1 DEF ImportTypeOK, DbTypeOK, ImportCrash
<1>2. CASE DbCrash BY <1>2 DEF ImportTypeOK, DbTypeOK, DbCrash
<1> QED BY <1>1, <1>2 DEF Crash

-----------------------------------------------------------------------------
(* Semaphores *)

\* A step is one of the following three: it leaves the semaphores and their
\* critical sections alone, enters one, or leaves one.

LEMMA SemaphoresAlone ==
    ASSUME Exclusive, UNCHANGED <<sem, dbSem>>,
           \A h \in Handler :
              \/ pc'[h] = pc[h] /\ job'[h] = job[h]
              \/ pc[h] \notin Holding /\ pc'[h] \notin Holding
    PROVE  Exclusive'
BY DEF Exclusive, Holding, Waiting

LEMMA ImportStepExclusive ==
    ASSUME ImportTypeOK, Exclusive, ImportStep
    PROVE  Exclusive'
<1> USE DEF At, Goto, Return
<1>1. PICK h \in Handler :
        \/ \E s \in Source : Receive(h, s)
        \/ Acquire(h) \/ SendStage(h) \/ StageAnswered(h) \/ SendMerge(h)
        \/ MergeAnswered(h) \/ Release(h) \/ Complete(h) \/ Check(h) \/ Reset(h)
        \/ PublishImportFinished(h)
  BY DEF ImportStep
<1>2. pc \in [Handler -> Step] /\ job \in [Handler -> Job \cup {NoJob}]
  BY DEF ImportTypeOK
<1>3. NoHandler \notin Handler BY ImportAssumption
<1>4. ASSUME NEW s \in Source, Receive(h, s) PROVE Exclusive'
  BY <1>2, <1>4, SemaphoresAlone DEF Receive, Holding
<1>5. CASE Acquire(h)
  <2>1. job[h] \in Job /\ pc[h] = "acquire" /\ sem[job[h].src] = NoHandler
        /\ sem' = [sem EXCEPT ![job[h].src] = h] /\ UNCHANGED <<job, dbSem>>
    BY <1>5 DEF ImportTypeOK, Acquire
  <2>2. pc'[h] \in {"release", "stage"} /\ \A g \in Handler \ {h} : pc'[g] = pc[g]
    BY <1>2, <1>5 DEF Acquire
  <2>3. job[h].src \in Source BY <2>1 DEF Job
  <2> QED BY <1>3, <2>1, <2>2, <2>3 DEF Exclusive, ImportTypeOK, Holding, Waiting
<1>6. ASSUME NEW op \in {"stage", "merge"}, NEW w \in Waiting, Send(h, op, w)
      PROVE  Exclusive'
  <2>1. pc'[h] = w /\ \A g \in Handler \ {h} : pc'[g] = pc[g]
    BY <1>2, <1>6 DEF Send
  <2>2. \A g \in Handler : pc[g] \notin Waiting
    BY <1>3, <1>6 DEF Exclusive, Send
  <2>3. {op, w} \subseteq Holding BY DEF Holding, Waiting
  <2> QED BY <1>6, <2>1, <2>2, <2>3 DEF Exclusive, Send
<1>7. ASSUME NEW op \in {"stage", "merge"}, NEW w \in Waiting,
             NEW next \in {"merge", "release"}, Answered(h, op, w, next)
      PROVE  Exclusive'
  <2>1. pc'[h] = next /\ \A g \in Handler \ {h} : pc'[g] = pc[g]
    BY <1>2, <1>7 DEF Answered
  <2>2. \A g \in Handler : pc'[g] \notin Waiting
    BY <1>7, <2>1 DEF Exclusive, Answered, Waiting
  <2>3. {next, w} \subseteq Holding BY DEF Holding, Waiting
  <2> QED BY <1>3, <1>7, <2>1, <2>2, <2>3 DEF Exclusive, Answered
<1>8. CASE Release(h)
  <2>1. pc'[h] = "complete" /\ \A g \in Handler \ {h} : pc'[g] = pc[g]
    BY <1>2, <1>8 DEF Release
  <2>2. job[h].src \in Source /\ sem[job[h].src] = h
    BY <1>8 DEF Release, ImportTypeOK, Job, Exclusive, Holding
  <2> QED
    BY <1>3, <1>8, <2>1, <2>2 DEF Release, Exclusive, ImportTypeOK, Holding, Waiting
<1>9. CASE Complete(h) BY <1>2, <1>9, SemaphoresAlone DEF Complete, Holding
<1>10. CASE Check(h) BY <1>2, <1>10, SemaphoresAlone DEF Check, Holding
<1>11. CASE Reset(h) BY <1>2, <1>11, SemaphoresAlone DEF Reset, Holding
<1>12. CASE PublishImportFinished(h)
  BY <1>2, <1>12, SemaphoresAlone DEF PublishImportFinished, Holding
<1>13. CASE SendStage(h) \/ SendMerge(h)
  BY <1>6, <1>13 DEF SendStage, SendMerge, Waiting
<1>14. CASE StageAnswered(h) \/ MergeAnswered(h)
  BY <1>7, <1>14 DEF StageAnswered, MergeAnswered, Waiting
<1> QED
  BY <1>1, <1>4, <1>5, <1>8, <1>9, <1>10, <1>11, <1>12, <1>13, <1>14

LEMMA DbStepExclusive ==
    ASSUME Exclusive, DbStep
    PROVE  Exclusive'
<1>1. UNCHANGED <<pc, job, sem, dbSem>>
  BY DEF DbStep, RunStage, RunMerge, ClearAfterMerge, Reply
<1> QED BY <1>1, SemaphoresAlone

\* A crash of Import leaves no handler and no holder.
LEMMA CrashExclusive ==
    ASSUME Exclusive, Crash
    PROVE  Exclusive'
<1>1. CASE ImportCrash
  BY <1>1, ImportAssumption DEF ImportCrash, Exclusive, Holding, Waiting
<1>2. CASE DbCrash
  <2>1. UNCHANGED <<pc, job, sem, dbSem>> BY <1>2 DEF DbCrash
  <2> QED BY <2>1, SemaphoresAlone
<1> QED BY <1>1, <1>2 DEF Crash

LEMMA InitExclusive == ImportInit => Exclusive
BY ImportAssumption DEF ImportInit, Exclusive, Holding, Waiting

-----------------------------------------------------------------------------
(* Answers *)

\* The step of the program that waits for the answer to op.
WaitingFor(op) == IF op = "stage" THEN "staging" ELSE "merging"

\* Nothing is asked and nothing answered while the database semaphore is free.
LEMMA QuietWhenFree ==
    ASSUME ImportTypeOK, Exclusive, Correlated, dbSem = NoHandler
    PROVE  /\ requests = {}
           /\ \A s \in Source, op \in Call : responses[s][op] = 0
<1>1. \A g \in Handler : pc[g] \notin Waiting
  BY ImportAssumption DEF Exclusive
<1> QED BY <1>1 DEF Correlated, Asks, Waiting, ImportTypeOK

\* Steps of handlers that do not wait are no business of the queues.
LEMMA AnswersAlone ==
    ASSUME Correlated, UNCHANGED rpcVars,
           \A h \in Handler : pc[h] \in Waiting => pc'[h] = pc[h] /\ job'[h] = job[h]
    PROVE  Correlated'
BY DEF Correlated, Asks, Waiting

LEMMA SendCorrelated ==
    ASSUME ImportTypeOK, Exclusive, Correlated, NEW h \in Handler, NEW op \in Call,
           Send(h, op, WaitingFor(op))
    PROVE  /\ Correlated'
           /\ \E r \in Request : r.at = "run" /\ requests' = {r}
           /\ \A s \in Source, o \in Call : responses'[s][o] = 0
<1> USE DEF Send, At, Goto
<1> DEFINE r == [op |-> op, src |-> job[h].src, file |-> job[h].file, at |-> "run"]
<1>1. requests = {} /\ \A s \in Source, o \in Call : responses[s][o] = 0
  BY QuietWhenFree
<1>2. requests' = {r} BY <1>1
<1>3. pc' = [pc EXCEPT ![h] = WaitingFor(op)] /\ UNCHANGED <<job, responses>>
  OBVIOUS
<1>4. pc'[h] = WaitingFor(op) BY <1>3 DEF ImportTypeOK
<1>5. Asks(h, r)' BY <1>3, <1>4 DEF Asks, WaitingFor
<1>6. Correlated' BY <1>1, <1>2, <1>3, <1>5 DEF Correlated
<1>7. job[h] \in Job BY DEF ImportTypeOK, Call
<1>8. r \in Request BY <1>7 DEF Request, Job
<1> QED BY <1>1, <1>2, <1>3, <1>6, <1>8

\* The answer that is taken is the only one there is, and answers what was asked.
LEMMA AnsweredCorrelated ==
    ASSUME ImportTypeOK, Exclusive, Correlated, NEW h \in Handler, NEW op \in Call,
           NEW next, next \notin Waiting, Answered(h, op, WaitingFor(op), next)
    PROVE  /\ Correlated'
           /\ requests = {} /\ UNCHANGED requests
           /\ \A s \in Source, o \in Call : responses'[s][o] = 0
           /\ job[h].src \in Source /\ responses[job[h].src][op] > 0
<1> USE DEF Answered, At, Goto
<1> DEFINE s == job[h].src
<1>1. /\ pc[h] = WaitingFor(op) /\ pc[h] \in Waiting /\ responses[s][op] > 0
      /\ UNCHANGED <<job, requests>>
  BY DEF Waiting, WaitingFor
<1>2. s \in Source /\ dbSem = h
  <2>1. job[h] \in Job BY <1>1 DEF ImportTypeOK, Waiting
  <2> QED BY <1>1, <2>1 DEF Exclusive, Job
<1>3. requests = {} BY <1>1, <1>2 DEF Correlated
<1>4. \A t \in Source, o \in Call : responses'[t][o] = 0
  <2>1. PICK left \in 0 .. responses[s][op] - 1 :
           responses' = [responses EXCEPT ![s][op] = left]
    OBVIOUS
  <2>2. responses[s][op] = 1 BY <1>1, <1>2 DEF Correlated
  <2>3. left = 0 BY <2>1, <2>2
  <2>4. \A t \in Source, o \in Call : responses[t][o] > 0 => t = s /\ o = op
    <3>1. SUFFICES ASSUME NEW t \in Source, NEW o \in Call, responses[t][o] > 0
                   PROVE  t = s /\ o = op
      OBVIOUS
    <3>2. PICK g \in Handler : pc[g] = WaitingFor(o) /\ job[g].src = t
      BY <3>1 DEF Correlated, WaitingFor
    <3>3. g = h BY <1>2, <3>2 DEF Exclusive, Waiting, WaitingFor
    <3> QED BY <1>1, <3>2, <3>3 DEF WaitingFor, Call
  <2>5. \A t \in Source, o \in Call : responses[t][o] \in Nat BY DEF ImportTypeOK
  <2> QED BY <1>2, <2>1, <2>3, <2>4, <2>5 DEF ImportTypeOK
<1>5. Correlated' BY <1>1, <1>3, <1>4 DEF Correlated
<1> QED BY <1>1, <1>2, <1>3, <1>4, <1>5

LEMMA ImportStepCorrelated ==
    ASSUME ImportTypeOK, Exclusive, Correlated, ImportStep
    PROVE  Correlated'
<1> USE DEF At, Goto, Return
<1>1. PICK h \in Handler :
        \/ \E s \in Source : Receive(h, s)
        \/ Acquire(h) \/ SendStage(h) \/ StageAnswered(h) \/ SendMerge(h)
        \/ MergeAnswered(h) \/ Release(h) \/ Complete(h) \/ Check(h) \/ Reset(h)
        \/ PublishImportFinished(h)
  BY DEF ImportStep
<1>2. pc \in [Handler -> Step] /\ job \in [Handler -> Job \cup {NoJob}]
  BY DEF ImportTypeOK
<1>3. CASE SendStage(h) \/ SendMerge(h)
  BY <1>3, SendCorrelated DEF SendStage, SendMerge, WaitingFor, Call
<1>4. CASE StageAnswered(h) \/ MergeAnswered(h)
  BY <1>4, AnsweredCorrelated
     DEF StageAnswered, MergeAnswered, WaitingFor, Call, Waiting
<1>5. ASSUME NEW s \in Source, Receive(h, s) PROVE Correlated'
  BY <1>2, <1>5, AnswersAlone DEF Receive, Waiting
<1>6. CASE Acquire(h) BY <1>2, <1>6, AnswersAlone DEF Acquire, Waiting
<1>7. CASE Release(h) BY <1>2, <1>7, AnswersAlone DEF Release, Waiting
<1>8. CASE Complete(h) BY <1>2, <1>8, AnswersAlone DEF Complete, Waiting
<1>9. CASE Check(h) BY <1>2, <1>9, AnswersAlone DEF Check, Waiting
<1>10. CASE Reset(h) BY <1>2, <1>10, AnswersAlone DEF Reset, Waiting
<1>11. CASE PublishImportFinished(h)
  BY <1>2, <1>11, AnswersAlone DEF PublishImportFinished, Waiting
<1> QED BY <1>1, <1>3, <1>4, <1>5, <1>6, <1>7, <1>8, <1>9, <1>10, <1>11

\* The one request there is moves on, and is still what its handler asked for.
LEMMA AdvanceCorrelated ==
    ASSUME ImportTypeOK, Correlated, NEW r \in requests,
           NEW step \in {"run", "clear", "reply"}, step = "clear" => r.op = "merge",
           Advance(r, step), UNCHANGED <<pc, job, responses>>
    PROVE  /\ Correlated'
           /\ requests' = {[r EXCEPT !.at = step]}
           /\ [r EXCEPT !.at = step].src = r.src
           /\ [r EXCEPT !.at = step].op = r.op
           /\ [r EXCEPT !.at = step].at = step
<1> DEFINE q == [r EXCEPT !.at = step]
<1>1. requests = {r} BY DEF Correlated
<1>2. q.op = r.op /\ q.src = r.src /\ q.file = r.file /\ q.at = step
  BY DEF ImportTypeOK, Request
<1>3. requests' = {q} BY <1>1 DEF Advance
<1>4. PICK h \in Handler : Asks(h, r) BY DEF Correlated
<1>5. Asks(h, q)' BY <1>2, <1>4 DEF Asks
<1>6. Correlated' BY <1>1, <1>2, <1>3, <1>5 DEF Correlated
<1> QED BY <1>2, <1>3, <1>6

LEMMA ReplyCorrelated ==
    ASSUME ImportTypeOK, Correlated, NEW r \in requests, Reply(r)
    PROVE  /\ Correlated'
           /\ requests' = {} /\ r.at = "reply"
           /\ \A s \in Source, op \in Call :
                 responses'[s][op] = IF s = r.src /\ op = r.op THEN 1 ELSE 0
<1>1. requests = {r} /\ \A s \in Source, op \in Call : responses[s][op] = 0
  BY DEF Correlated
<1>2. r.src \in Source /\ r.op \in Call BY DEF ImportTypeOK, Request
<1>3. /\ r.at = "reply" /\ requests' = {} /\ UNCHANGED <<pc, job>>
      /\ responses' = [responses EXCEPT ![r.src][r.op] = @ + 1]
  BY <1>1 DEF Reply
<1>4. \A s \in Source, op \in Call :
         responses'[s][op] = IF s = r.src /\ op = r.op THEN 1 ELSE 0
  BY <1>1, <1>2, <1>3 DEF ImportTypeOK
<1>5. PICK h \in Handler : Asks(h, r) BY DEF Correlated
<1>6. Correlated' BY <1>3, <1>4, <1>5 DEF Correlated, Asks
<1> QED BY <1>3, <1>4, <1>6

LEMMA DbStepCorrelated ==
    ASSUME ImportTypeOK, Correlated, DbStep
    PROVE  Correlated'
<1>1. PICK r \in requests :
        RunStage(r) \/ RunMerge(r) \/ ClearAfterMerge(r) \/ Reply(r)
  BY DEF DbStep
<1>2. r.at = "clear" => r.op = "merge" BY DEF Correlated
<1>3. CASE RunStage(r) BY <1>3, AdvanceCorrelated DEF RunStage
<1>4. CASE RunMerge(r) BY <1>4, AdvanceCorrelated DEF RunMerge
<1>5. CASE ClearAfterMerge(r) BY <1>2, <1>5, AdvanceCorrelated DEF ClearAfterMerge
<1>6. CASE Reply(r) BY <1>6, ReplyCorrelated
<1> QED BY <1>1, <1>3, <1>4, <1>5, <1>6

LEMMA InitCorrelated == ImportInit => Correlated
BY DEF ImportInit, Correlated

-----------------------------------------------------------------------------
(* Staging *)

\* Unless the clearing of staging can fail, Clear empties it.
NoClearFault == "clear" \notin Faults

StagingInOrder == StagedByHolder /\ MergesDontMix

\* A step that leaves the holders, what they do, the messages and the pictures
\* alone, and at most empties staging.
LEMMA StagingAlone ==
    ASSUME StagingInOrder, UNCHANGED <<sem, rpcVars, picture>>,
           \A s \in Source : staging'[s] \in {staging[s], {}},
           \A s \in Source, h \in Handler : sem[s] = h =>
              job'[h] = job[h] /\ (pc'[h] = "release" => pc[h] = "release")
    PROVE  StagingInOrder'
<1>1. StagedByHolder'
  <2>1. \A s \in Source : staging[s] = {} => staging'[s] = {} OBVIOUS
  <2> QED BY <2>1 DEF StagingInOrder, StagedByHolder
<1>2. MergesDontMix' BY DEF StagingInOrder, MergesDontMix
<1> QED BY <1>1, <1>2 DEF StagingInOrder

\* Acquire finds the semaphore free, hence staging empty.
LEMMA AcquireStaging ==
    ASSUME IInv, NEW h \in Handler, Acquire(h)
    PROVE  StagingInOrder'
<1> USE DEF IInv, Acquire, At, Goto
<1>1. /\ job[h] \in Job /\ pc[h] = "acquire" /\ sem[job[h].src] = NoHandler
      /\ sem' = [sem EXCEPT ![job[h].src] = h]
      /\ UNCHANGED <<job, dbSem, rpcVars, dbVars>>
  BY DEF ImportTypeOK
<1>2. job[h].src \in Source /\ NoHandler \notin Handler
  BY <1>1, ImportAssumption DEF Job
<1>3. \A g \in Handler \ {h} : pc'[g] = pc[g] BY DEF ImportTypeOK
<1>4. StagedByHolder'
  BY <1>1, <1>2, <1>3 DEF StagedByHolder, Exclusive, ImportTypeOK, Holding
<1>5. MergesDontMix' BY <1>1 DEF MergesDontMix
<1> QED BY <1>4, <1>5 DEF StagingInOrder

\* Release leaves staging empty behind it.
LEMMA ReleaseStaging ==
    ASSUME IInv, NEW h \in Handler, Release(h)
    PROVE  StagingInOrder'
<1> USE DEF IInv, Release, At, Goto
<1>1. /\ pc[h] = "release" /\ sem' = [sem EXCEPT ![job[h].src] = NoHandler]
      /\ UNCHANGED <<job, dbSem, rpcVars, dbVars>>
  OBVIOUS
<1>2. pc'[h] = "complete" /\ \A g \in Handler \ {h} : pc'[g] = pc[g]
  BY DEF ImportTypeOK
<1>3. job[h].src \in Source /\ sem[job[h].src] = h
  BY <1>1 DEF ImportTypeOK, Job, Exclusive, Holding
<1>4. staging[job[h].src] = {} BY <1>1, <1>3 DEF StagedByHolder
<1>5. StagedByHolder'
  BY <1>1, <1>2, <1>3, <1>4, ImportAssumption DEF StagedByHolder, ImportTypeOK
<1>6. MergesDontMix' BY <1>1 DEF MergesDontMix
<1> QED BY <1>5, <1>6 DEF StagingInOrder

LEMMA SendStaging ==
    ASSUME IInv, NEW h \in Handler, NEW op \in Call, Send(h, op, WaitingFor(op))
    PROVE  StagingInOrder'
<1> USE DEF IInv, Send, At, Goto
<1>1. PICK r \in Request : r.at = "run" /\ requests' = {r}
  BY SendCorrelated
<1>2. \A s \in Source, o \in Call : responses'[s][o] = 0 BY SendCorrelated
<1>3. pc' = [pc EXCEPT ![h] = WaitingFor(op)] /\ UNCHANGED <<job, sem, dbVars>>
  OBVIOUS
<1>4. pc'[h] # "release" /\ \A g \in Handler \ {h} : pc'[g] = pc[g]
  BY <1>3 DEF ImportTypeOK, WaitingFor
<1>5. StagedByHolder' BY <1>1, <1>2, <1>3, <1>4 DEF StagedByHolder, Call
<1>6. MergesDontMix' BY <1>3 DEF MergesDontMix
<1> QED BY <1>5, <1>6 DEF StagingInOrder

\* The answer to a merge comes after staging was cleared.
LEMMA AnsweredStaging ==
    ASSUME IInv, NEW h \in Handler, NEW op \in Call,
           NEW next \in {"merge", "release"}, next = "release" <=> op = "merge",
           Answered(h, op, WaitingFor(op), next)
    PROVE  StagingInOrder'
<1> USE DEF IInv, Answered, At, Goto
<1> DEFINE s == job[h].src
<1>1. /\ requests' = {} /\ \A t \in Source, o \in Call : responses'[t][o] = 0
      /\ s \in Source /\ responses[s][op] > 0
  BY AnsweredCorrelated DEF Waiting
<1>2. pc' = [pc EXCEPT ![h] = next] /\ UNCHANGED <<job, sem, dbVars>>
  OBVIOUS
<1>3. pc'[h] = next /\ \A g \in Handler \ {h} : pc'[g] = pc[g]
  BY <1>2 DEF ImportTypeOK
<1>4. op = "merge" => staging[s] = {} BY <1>1 DEF StagedByHolder
<1>5. \A t \in Source : sem[t] = h => t = s BY DEF Exclusive
<1>6. StagedByHolder'
  BY <1>1, <1>2, <1>3, <1>4, <1>5 DEF StagedByHolder, Call
<1>7. MergesDontMix' BY <1>2 DEF MergesDontMix
<1> QED BY <1>6, <1>7 DEF StagingInOrder

LEMMA ImportStepStaging ==
    ASSUME IInv, ImportStep
    PROVE  StagingInOrder'
<1> USE DEF At, Goto, Return
<1>1. PICK h \in Handler :
        \/ \E s \in Source : Receive(h, s)
        \/ Acquire(h) \/ SendStage(h) \/ StageAnswered(h) \/ SendMerge(h)
        \/ MergeAnswered(h) \/ Release(h) \/ Complete(h) \/ Check(h) \/ Reset(h)
        \/ PublishImportFinished(h)
  BY DEF ImportStep
<1>2. /\ pc \in [Handler -> Step] /\ job \in [Handler -> Job \cup {NoJob}]
      /\ StagingInOrder
  BY DEF IInv, ImportTypeOK, StagingInOrder
<1>3. pc[h] \notin Holding => \A s \in Source : sem[s] # h BY DEF IInv, Exclusive
<1>4. CASE SendStage(h) \/ SendMerge(h)
  BY <1>4, SendStaging DEF SendStage, SendMerge, WaitingFor, Call
<1>5. CASE StageAnswered(h) \/ MergeAnswered(h)
  BY <1>5, AnsweredStaging DEF StageAnswered, MergeAnswered, WaitingFor, Call
<1>6. ASSUME NEW s \in Source, Receive(h, s) PROVE StagingInOrder'
  BY <1>2, <1>3, <1>6, StagingAlone DEF Receive, Holding
<1>7. CASE Complete(h) BY <1>2, <1>3, <1>7, StagingAlone DEF Complete, Holding
<1>8. CASE Check(h) BY <1>2, <1>3, <1>8, StagingAlone DEF Check, Holding
<1>9. CASE Reset(h) BY <1>2, <1>3, <1>9, StagingAlone DEF Reset, Holding
<1>10. CASE PublishImportFinished(h)
  BY <1>2, <1>3, <1>10, StagingAlone DEF PublishImportFinished, Holding
<1> QED
  BY <1>1, <1>4, <1>5, <1>6, <1>7, <1>8, <1>9, <1>10, AcquireStaging, ReleaseStaging

\* The handler that asked holds the semaphore of its source, and stays where it
\* is while DbInteractions works on its request.
LEMMA DbStepStaging ==
    ASSUME IInv, DbStep, NoClearFault
    PROVE  StagingInOrder'
<1> USE DEF IInv
<1>1. PICK r \in requests :
        RunStage(r) \/ RunMerge(r) \/ ClearAfterMerge(r) \/ Reply(r)
  BY DEF DbStep
<1>2. /\ \A s \in Source, op \in Call : responses[s][op] = 0
      /\ r.at = "clear" => r.op = "merge"
  BY DEF Correlated
<1>3. r \in Request /\ r.src \in Source /\ r.file \in File /\ r.op \in Call
  BY DEF ImportTypeOK, Request
<1>4. PICK h \in Handler : Asks(h, r)
  BY DEF Correlated
<1>5. sem[r.src] = h /\ job[h].file = r.file /\ pc[h] # "release"
  BY <1>3, <1>4 DEF Asks, Exclusive, Holding
<1>6. UNCHANGED <<pc, job, sem, dbSem>>
  BY <1>1 DEF RunStage, RunMerge, ClearAfterMerge, Reply
<1>7. staging \in [Source -> SUBSET File] /\ picture \in [Source -> SUBSET File]
  BY DEF ImportTypeOK, DbTypeOK
<1>8. CASE RunStage(r)
  <2>1. /\ Advance(r, "reply") /\ UNCHANGED <<responses, picture>> /\ r.op = "stage"
        /\ staging' = [staging EXCEPT ![r.src] = @ \cup {r.file}] \/ staging' = staging
    BY <1>8 DEF RunStage, Stage, Swallowed
  <2>2. \A q \in requests' : q.op = "stage" BY <1>6, <2>1, AdvanceCorrelated
  <2>3. \A s \in Source \ {r.src} : staging'[s] = staging[s]
    BY <1>7, <2>1
  <2>4. staging'[r.src] \subseteq {r.file}
    BY <1>3, <1>5, <1>7, <2>1 DEF StagedByHolder
  <2>5. \A g \in Handler : sem[r.src] = g => g = h
    BY <1>5
  <2>6. StagedByHolder'
    <3>1. sem[r.src] # NoHandler BY <1>5, ImportAssumption
    <3>2. \A s \in Source : responses'[s]["merge"] = 0 BY <1>2, <2>1 DEF Call
    <3> QED
      BY <1>5, <1>6, <2>2, <2>3, <2>4, <2>5, <3>1, <3>2 DEF StagedByHolder
  <2>7. MergesDontMix' BY <2>1 DEF MergesDontMix
  <2> QED BY <2>6, <2>7 DEF StagingInOrder
<1>9. CASE RunMerge(r)
  <2>1. /\ Advance(r, "clear") /\ UNCHANGED <<responses, staging>> /\ r.op = "merge"
        /\ picture' = [picture EXCEPT ![r.src] = staging[r.src]] \/ picture' = picture
    BY <1>9 DEF RunMerge, Merge, Swallowed
  <2>2. \A q \in requests' : q.at = "clear" BY <1>6, <2>1, AdvanceCorrelated
  <2>3. StagedByHolder'
    BY <1>2, <1>6, <2>1, <2>2 DEF StagedByHolder
  <2>4. staging[r.src] \subseteq {r.file} BY <1>3, <1>5 DEF StagedByHolder
  <2>5. MergesDontMix' BY <1>3, <1>7, <2>1, <2>4 DEF MergesDontMix
  <2> QED BY <2>3, <2>5 DEF StagingInOrder
<1>10. CASE ClearAfterMerge(r)
  <2>1. /\ Advance(r, "reply") /\ UNCHANGED <<responses, picture>> /\ r.op = "merge"
        /\ staging' = [staging EXCEPT ![r.src] = {}]
    BY <1>2, <1>10 DEF ClearAfterMerge, ClearStaging, Swallowed, NoClearFault
  <2>2. \A q \in requests' : q.src = r.src BY <1>6, <2>1, AdvanceCorrelated
  <2>3. StagedByHolder'
    BY <1>2, <1>3, <1>6, <1>7, <2>1, <2>2 DEF StagedByHolder
  <2>4. MergesDontMix' BY <2>1 DEF MergesDontMix
  <2> QED BY <2>3, <2>4 DEF StagingInOrder
<1>11. CASE Reply(r)
  <2>1. /\ r.at = "reply" /\ requests' = {} /\ UNCHANGED <<staging, picture>>
        /\ \A s \in Source, op \in Call :
              responses'[s][op] = IF s = r.src /\ op = r.op THEN 1 ELSE 0
    BY <1>11, ReplyCorrelated DEF Reply
  <2>2. responses'[r.src]["merge"] > 0 => staging[r.src] = {}
    BY <1>3, <2>1 DEF StagedByHolder, Call
  <2>3. StagedByHolder'
    BY <1>6, <2>1, <2>2 DEF StagedByHolder, Call
  <2>4. MergesDontMix' BY <2>1 DEF MergesDontMix
  <2> QED BY <2>3, <2>4 DEF StagingInOrder
<1> QED BY <1>1, <1>8, <1>9, <1>10, <1>11

LEMMA InitStaging == ImportInit => StagingInOrder
BY ImportAssumption DEF ImportInit, DbInit, StagingInOrder, StagedByHolder, MergesDontMix
=============================================================================
