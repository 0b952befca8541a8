-------------------------- MODULE ImportServiceProofs --------------------------
(***************************************************************************)
(* Theorems about ImportService, for any files, handlers, faults and       *)
(* bounds: the types, the semaphores, whose answer an answer is, what is   *)
(* staged, and that no merge mixes the data of two files.                  *)
(***************************************************************************)
EXTENDS ImportService, ImportProofs

USE DEF dbVars, importVars, rpcVars

\* What the parsers and FileSync keep well-typed.
LEMMA EnvironmentType ==
    ASSUME ImportTypeOK, Environment
    PROVE  ImportTypeOK'
<1>1. PICK s \in Source : ParserFinished(s) \/ StartFileProcessing(s) \/ PreKickoffClear(s)
  BY DEF Environment
<1>2. CASE ParserFinished(s)
  <2>1. PICK m \in Message : inbox' = [inbox EXCEPT ![s] = Append(@, m)]
    BY <1>2 DEF ParserFinished
  <2>2. Append(inbox[s], m) \in Seq(Message) BY AppendProperties DEF ImportTypeOK
  <2>3. inbox' \in [Source -> Seq(Message)] BY <2>1, <2>2 DEF ImportTypeOK
  <2> QED BY <1>2, <2>3 DEF ImportTypeOK, DbTypeOK, ParserFinished
<1>3. CASE StartFileProcessing(s)
  <2>1. DbTypeOK' BY <1>3, DbOperationsType DEF ImportTypeOK, StartFileProcessing
  <2> QED BY <1>3, <2>1 DEF ImportTypeOK, StartFileProcessing
<1>4. CASE PreKickoffClear(s)
  <2>1. DbTypeOK'
    <3>1. CASE File = {}
      BY <1>4, <3>1 DEF PreKickoffClear, ClearStaging, Swallowed, ImportTypeOK, DbTypeOK
    <3>2. CASE File # {}
      BY <1>4, <3>2, DbOperationsType DEF ImportTypeOK, PreKickoffClear
    <3> QED BY <3>1, <3>2
  <2> QED BY <1>4, <2>1 DEF ImportTypeOK, PreKickoffClear
<1> QED BY <1>1, <1>2, <1>3, <1>4

LEMMA StepType ==
    ASSUME ImportTypeOK, [Next]_vars
    PROVE  ImportTypeOK'
<1>1. CASE Environment BY <1>1, EnvironmentType
<1>2. CASE ImportStep /\ UNCHANGED crashes BY <1>2, ImportStepType
<1>3. CASE DbStep /\ UNCHANGED crashes BY <1>3, DbStepType
<1>4. CASE UNCHANGED vars BY <1>4 DEF vars, ImportTypeOK, DbTypeOK
<1> QED BY <1>1, <1>2, <1>3, <1>4 DEF Next

\* Every variable of Import and DbInteractions keeps its type, whatever the
\* parsers announce and whatever fails.
THEOREM TypeCorrect == Spec => []ImportTypeOK
<1>1. Init => ImportTypeOK BY ImportInitType DEF Init
<1>2. ImportTypeOK /\ [Next]_vars => ImportTypeOK' BY StepType
<1> QED BY <1>1, <1>2, PTL DEF Spec

-----------------------------------------------------------------------------
(* The inductive invariant *)

\* The parsers only fill queues, rows say nothing of staging, and FileSync can
\* only empty it.
LEMMA EnvironmentLeaves ==
    ASSUME ImportTypeOK, Environment \/ UNCHANGED vars
    PROVE  /\ UNCHANGED <<pc, job, sem, dbSem, rpcVars, picture>>
           /\ \A s \in Source : staging'[s] \in {staging[s], {}}
<1>1. CASE UNCHANGED vars BY <1>1 DEF vars
<1>2. CASE Environment
  <2>1. PICK s \in Source : ParserFinished(s) \/ StartFileProcessing(s) \/ PreKickoffClear(s)
    BY <1>2 DEF Environment
  <2>2. /\ UNCHANGED <<pc, job, sem, dbSem, rpcVars, picture>>
        /\ staging' = staging \/ staging' = [staging EXCEPT ![s] = {}]
    BY <2>1 DEF ParserFinished, StartFileProcessing, PreKickoffClear, ClearStaging,
                CreateProcessedFileEntry, Swallowed
  <2> QED BY <2>2 DEF ImportTypeOK, DbTypeOK
<1> QED BY <1>1, <1>2

LEMMA StepExclusive ==
    ASSUME ImportTypeOK, Exclusive, [Next]_vars
    PROVE  Exclusive'
<1>1. CASE Environment \/ UNCHANGED vars BY <1>1, EnvironmentLeaves, SemaphoresAlone
<1> QED BY <1>1, ImportStepExclusive, DbStepExclusive DEF Next

LEMMA StepCorrelated ==
    ASSUME ImportTypeOK, Exclusive, Correlated, [Next]_vars
    PROVE  Correlated'
<1>1. CASE Environment \/ UNCHANGED vars BY <1>1, EnvironmentLeaves, AnswersAlone
<1> QED BY <1>1, ImportStepCorrelated, DbStepCorrelated DEF Next

LEMMA StepStaging ==
    ASSUME IInv, [Next]_vars, NoClearFault
    PROVE  StagingInOrder'
<1>1. CASE Environment \/ UNCHANGED vars
  BY <1>1, EnvironmentLeaves, StagingAlone DEF IInv, StagingInOrder
<1> QED BY <1>1, ImportStepStaging, DbStepStaging DEF Next

\* Whatever fails, each source's semaphore is held by the one handler between
\* staging and the end of the merge, and the database semaphore by the one that
\* waits for an answer.
THEOREM SemaphoresExclude == Spec => []Exclusive
<1>1. Init => ImportTypeOK /\ Exclusive BY ImportInitType, InitExclusive DEF Init
<1>2. ImportTypeOK /\ Exclusive /\ [Next]_vars => ImportTypeOK' /\ Exclusive'
  BY StepType, StepExclusive
<1> QED BY <1>1, <1>2, PTL DEF Spec

\* Whatever fails, an answer that is taken off a response queue answers what its
\* taker asked, although messages carry no correlation id.
THEOREM AnswersCorrelate == Spec => []Correlated
<1>1. Init => ImportTypeOK /\ Exclusive /\ Correlated
  BY ImportInitType, InitExclusive, InitCorrelated DEF Init
<1>2. ImportTypeOK /\ Exclusive /\ Correlated /\ [Next]_vars
         => ImportTypeOK' /\ Exclusive' /\ Correlated'
  BY StepType, StepExclusive, StepCorrelated
<1> QED BY <1>1, <1>2, PTL DEF Spec

\* While clearing a staging database does not fail, Import and DbInteractions
\* keep the inductive invariant, whatever else fails and whoever else clears.
THEOREM Invariant == NoClearFault => (Spec => []IInv)
<1> SUFFICES ASSUME NoClearFault PROVE Spec => []IInv OBVIOUS
<1>1. Init => IInv
  BY ImportInitType, InitExclusive, InitCorrelated, InitStaging
     DEF Init, IInv, StagingInOrder
<1>2. IInv /\ [Next]_vars => IInv'
  BY StepType, StepExclusive, StepCorrelated, StepStaging DEF IInv, StagingInOrder
<1> QED BY <1>1, <1>2, PTL DEF Spec

\* Staging has the data of the file whose handler holds the semaphore, none other,
\* and none once its merge was answered.
THEOREM StagingBelongsToHolder == NoClearFault => (Spec => []StagedByHolder)
<1>1. IInv => StagedByHolder BY DEF IInv
<1> QED BY <1>1, Invariant, PTL

\* No merge reads the data of two files.
THEOREM MergesNeverMix == NoClearFault => (Spec => []MergesDontMix)
<1>1. IInv => MergesDontMix BY DEF IInv
<1> QED BY <1>1, Invariant, PTL
=============================================================================
