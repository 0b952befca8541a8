-------------------------------- MODULE Import --------------------------------
(***************************************************************************)
(* The Import service and the part of DbInteractions that serves it.       *)
(*                                                                         *)
(* A message handler is an async lambda passed as an Action, so any number *)
(* of them run at once; each runs alone from one await to the next.  A     *)
(* database request is a message: the sender holds the process-wide        *)
(* dbSemaphore, subscribes to the response queue of the response's TYPE    *)
(* (no correlation id), publishes, and takes what arrives.                 *)
(***************************************************************************)
EXTENDS RunningPicture, Sequences

CONSTANTS
    Handler,        \* bound: message handlers Import can have in flight
    Preemption,     \* whether handlers overtake each other between two awaits
    MaxCrashes      \* bound: crashes and restarts of Import and DbInteractions

NoHandler == "no handler"
ASSUME ImportAssumption ==
    NoHandler \notin Handler /\ Preemption \in BOOLEAN /\ MaxCrashes \in Nat

VARIABLES
    inbox,          \* inbox[s]: the OfflocImport / DeliusImport queue
    pc,             \* pc[h]: where handler h is
    job,            \* job[h]: the message it works on
    sem,            \* sem[s]: the holder of deliusSem / offlocSem
    dbSem,          \* the holder of RabbitService.dbSemaphore
    completed,      \* completed[s]: deliusParserCompleted / offlocParserCompleted
    fileEmpty,      \* fileEmpty[s]: deliusFileEmpty / offlocFileEmpty
    importFinished, \* ImportFinishedMessages published
    requests,       \* requests DbInteractions has not answered yet
    responses,      \* responses[s][op]: messages in that response queue
    crashes

importVars == <<inbox, pc, job, sem, dbSem, completed, fileEmpty, importFinished>>
rpcVars == <<requests, responses>>

-----------------------------------------------------------------------------
Message == [file : File, empty : BOOLEAN]
Call == {"stage", "merge"}
Step == {"idle", "acquire", "stage", "staging", "merge", "merging", "release",
         "complete", "check", "reset", "publish"}
Job == [src : Source, file : File, empty : BOOLEAN]
NoJob == [src |-> "none"]
Request == [op : Call, src : Source, file : File, at : {"run", "clear", "reply"}]

ImportTypeOK ==
    /\ DbTypeOK
    /\ inbox \in [Source -> Seq(Message)]
    /\ pc \in [Handler -> Step]
    /\ job \in [Handler -> Job \cup {NoJob}]
    /\ \A h \in Handler : pc[h] # "idle" => job[h] \in Job
    /\ sem \in [Source -> Handler \cup {NoHandler}]
    /\ dbSem \in Handler \cup {NoHandler}
    /\ completed \in [Source -> BOOLEAN]
    /\ fileEmpty \in [Source -> BOOLEAN]
    /\ importFinished \in Nat
    /\ requests \in SUBSET Request
    /\ responses \in [Source -> [Call -> Nat]]
    /\ crashes \in Nat

ImportInit ==
    /\ DbInit
    /\ pc = [h \in Handler |-> "idle"]
    /\ job = [h \in Handler |-> NoJob]
    /\ sem = [s \in Source |-> NoHandler]
    /\ dbSem = NoHandler
    /\ completed = [s \in Source |-> FALSE]
    /\ fileEmpty = [s \in Source |-> FALSE]
    /\ inbox = [s \in Source |-> <<>>]
    /\ importFinished = 0
    /\ requests = {}
    /\ responses = [s \in Source |-> [op \in Call |-> 0]]
    /\ crashes = 0

-----------------------------------------------------------------------------
(* Import's handlers *)

At(h, step) == pc[h] = step
Goto(h, step) == pc' = [pc EXCEPT ![h] = step] /\ UNCHANGED job
Return(h) == pc' = [pc EXCEPT ![h] = "idle"] /\ job' = [job EXCEPT ![h] = NoJob]

\* The consumer is called: the message is acknowledged before it is handled.
Receive(h, s) ==
    /\ At(h, "idle") /\ inbox[s] # <<>>
    /\ pc' = [pc EXCEPT ![h] = "acquire"]
    /\ job' = [job EXCEPT ![h] = [src |-> s, file |-> Head(inbox[s]).file,
                                  empty |-> Head(inbox[s]).empty]]
    /\ inbox' = [inbox EXCEPT ![s] = Tail(@)]
    /\ UNCHANGED <<sem, dbSem, completed, fileEmpty, importFinished, rpcVars, dbVars>>

\* Mutated: the semaphore is taken without waiting for it.
AcquireAnyway(h) ==
    /\ At(h, "acquire")
    /\ sem' = [sem EXCEPT ![job[h].src] = h]
    /\ Goto(h, IF job[h].empty THEN "release" ELSE "stage")
    /\ UNCHANGED <<inbox, dbSem, completed, fileEmpty, importFinished, rpcVars, dbVars>>

\* Mutated: the file is merged without being staged.
AcquireThenMerge(h) ==
    /\ At(h, "acquire") /\ sem[job[h].src] = NoHandler
    /\ sem' = [sem EXCEPT ![job[h].src] = h]
    /\ Goto(h, IF job[h].empty THEN "release" ELSE "merge")
    /\ UNCHANGED <<inbox, dbSem, completed, fileEmpty, importFinished, rpcVars, dbVars>>

\* The source's semaphore, then the branch on EmptyFile.
Acquire(h) ==
    /\ At(h, "acquire") /\ sem[job[h].src] = NoHandler
    /\ sem' = [sem EXCEPT ![job[h].src] = h]
    /\ \/ /\ job[h].empty
          /\ fileEmpty' = [fileEmpty EXCEPT ![job[h].src] = TRUE]
          /\ Goto(h, "release")
       \/ /\ ~job[h].empty
          /\ UNCHANGED fileEmpty
          /\ Goto(h, "stage")
    /\ UNCHANGED <<inbox, dbSem, completed, importFinished, rpcVars, dbVars>>

\* Mutated: dbSemaphore is not waited for.
SendUnlocked(h, op, waiting) ==
    /\ At(h, op)
    /\ dbSem' = h
    /\ requests' = requests \cup
                     {[op |-> op, src |-> job[h].src, file |-> job[h].file, at |-> "run"]}
    /\ Goto(h, waiting)
    /\ UNCHANGED <<inbox, sem, completed, fileEmpty, importFinished, responses, dbVars>>

\* SendDbRequestAndWaitForResponseAsync, up to the await of the response.
Send(h, op, waiting) ==
    /\ At(h, op) /\ dbSem = NoHandler
    /\ dbSem' = h
    /\ requests' = requests \cup
                     {[op |-> op, src |-> job[h].src, file |-> job[h].file, at |-> "run"]}
    /\ Goto(h, waiting)
    /\ UNCHANGED <<inbox, sem, completed, fileEmpty, importFinished, responses, dbVars>>

\* Mutated: an answer is taken before it is there.
AnsweredEarly(h, op, waiting, next) ==
    /\ At(h, waiting)
    /\ responses' = [responses EXCEPT ![job[h].src][op] = @ - 1]
    /\ dbSem' = NoHandler
    /\ Goto(h, next)
    /\ UNCHANGED <<inbox, sem, completed, fileEmpty, importFinished, requests, dbVars>>

\* ... and the rest of it: the first response completes the call, and any other
\* one that reaches the consumer before it is cancelled is acknowledged and lost.
Answered(h, op, waiting, next) ==
    /\ At(h, waiting) /\ responses[job[h].src][op] > 0
    /\ \E left \in 0 .. responses[job[h].src][op] - 1 :
          responses' = [responses EXCEPT ![job[h].src][op] = left]
    /\ dbSem' = NoHandler
    /\ Goto(h, next)
    /\ UNCHANGED <<inbox, sem, completed, fileEmpty, importFinished, requests, dbVars>>

SendStage(h) == Send(h, "stage", "staging")
StageAnswered(h) == Answered(h, "stage", "staging", "merge")
SendMerge(h) == Send(h, "merge", "merging")
MergeAnswered(h) == Answered(h, "merge", "merging", "release")

\* Mutated: the semaphore is not given back.
ReleaseForgotten(h) ==
    /\ At(h, "release")
    /\ Goto(h, "complete")
    /\ UNCHANGED <<inbox, sem, dbSem, completed, fileEmpty, importFinished, rpcVars, dbVars>>

Release(h) ==
    /\ At(h, "release")
    /\ sem' = [sem EXCEPT ![job[h].src] = NoHandler]
    /\ Goto(h, "complete")
    /\ UNCHANGED <<inbox, dbSem, completed, fileEmpty, importFinished, rpcVars, dbVars>>

Complete(h) ==
    /\ At(h, "complete")
    /\ completed' = [completed EXCEPT ![job[h].src] = TRUE]
    /\ Goto(h, "check")
    /\ UNCHANGED <<inbox, sem, dbSem, fileEmpty, importFinished, rpcVars, dbVars>>

\* CheckStates.  Two handlers that resumed on two threads interleave in it.
Check(h) ==
    /\ At(h, "check")
    /\ IF \A s \in Source : completed[s]
       THEN Goto(h, "reset")
       ELSE Return(h)
    /\ UNCHANGED <<inbox, sem, dbSem, completed, fileEmpty, importFinished, rpcVars, dbVars>>

\* Mutated: the flags stay set.
ResetForgotten(h) ==
    /\ At(h, "reset")
    /\ Goto(h, "publish")
    /\ UNCHANGED <<inbox, sem, dbSem, completed, fileEmpty, importFinished, rpcVars, dbVars>>

Reset(h) ==
    /\ At(h, "reset")
    /\ completed' = [s \in Source |-> FALSE]
    /\ Goto(h, "publish")
    /\ UNCHANGED <<inbox, sem, dbSem, fileEmpty, importFinished, rpcVars, dbVars>>

PublishImportFinished(h) ==
    /\ At(h, "publish")
    /\ importFinished' = IF \A s \in Source : fileEmpty[s]
                         THEN importFinished ELSE importFinished + 1
    /\ Return(h)
    /\ UNCHANGED <<inbox, sem, dbSem, completed, fileEmpty, rpcVars, dbVars>>

\* From the release of the semaphore to the end of CheckStates there is no await.
Running(h) == pc[h] \in {"release", "complete", "check", "reset", "publish"}
MayRun(h) == Preemption \/ \A g \in Handler \ {h} : ~Running(g)

ImportStep ==
    \E h \in Handler : MayRun(h) /\
        \/ \E s \in Source : Receive(h, s)
        \/ Acquire(h) \/ SendStage(h) \/ StageAnswered(h) \/ SendMerge(h)
        \/ MergeAnswered(h) \/ Release(h) \/ Complete(h) \/ Check(h) \/ Reset(h)
        \/ PublishImportFinished(h)

-----------------------------------------------------------------------------
(* DbInteractions: a handler per request, all of them concurrent *)

Advance(r, step) == requests' = (requests \ {r}) \cup {[r EXCEPT !.at = step]}

RunStage(r) ==
    /\ r.op = "stage" /\ r.at = "run"
    /\ Stage(r.src, r.file)
    /\ Advance(r, "reply")
    /\ UNCHANGED <<importVars, responses>>

RunMerge(r) ==
    /\ r.op = "merge" /\ r.at = "run"
    /\ Merge(r.src, r.file)
    /\ Advance(r, "clear")
    /\ UNCHANGED <<importVars, responses>>

\* Mutated: staging keeps what was merged.
ClearForgotten(r) ==
    /\ r.at = "clear"
    /\ Advance(r, "reply")
    /\ UNCHANGED <<importVars, responses, dbVars>>

ClearAfterMerge(r) ==
    /\ r.at = "clear"
    /\ ClearStaging(r.src)
    /\ Advance(r, "reply")
    /\ UNCHANGED <<importVars, responses>>

Reply(r) ==
    /\ r.at = "reply"
    /\ requests' = requests \ {r}
    /\ responses' = [responses EXCEPT ![r.src][r.op] = @ + 1]
    /\ UNCHANGED <<importVars, dbVars>>

DbStep == \E r \in requests : RunStage(r) \/ RunMerge(r) \/ ClearAfterMerge(r) \/ Reply(r)

-----------------------------------------------------------------------------
(* Crashes: queues and databases survive, what a handler was doing does not *)

ImportCrash ==
    /\ crashes < MaxCrashes
    /\ crashes' = crashes + 1
    /\ pc' = [h \in Handler |-> "idle"]
    /\ job' = [h \in Handler |-> NoJob]
    /\ sem' = [s \in Source |-> NoHandler]
    /\ dbSem' = NoHandler
    /\ completed' = [s \in Source |-> FALSE]
    /\ fileEmpty' = [s \in Source |-> FALSE]
    /\ UNCHANGED <<inbox, importFinished, rpcVars, dbVars>>

DbCrash ==
    /\ crashes < MaxCrashes /\ requests # {}
    /\ crashes' = crashes + 1
    /\ \E lost \in SUBSET requests : lost # {} /\ requests' = requests \ lost
    /\ UNCHANGED <<importVars, responses, dbVars>>

Crash == ImportCrash \/ DbCrash

-----------------------------------------------------------------------------
\* The steps at which a handler has its source's semaphore, and at which it has
\* the database semaphore.
Holding == {"stage", "staging", "merge", "merging", "release"}
Waiting == {"staging", "merging"}

\* A semaphore has the handlers in its critical section as its one holder: the
\* handlers of a source take turns, and so do all requests (Import 37-51, 58-72,
\* RabbitService 98, 117).
Exclusive ==
    /\ \A s \in Source, h \in Handler :
          sem[s] = h <=> pc[h] \in Holding /\ job[h].src = s
    /\ \A h \in Handler : dbSem = h <=> pc[h] \in Waiting

Asks(h, r) ==
    /\ pc[h] = IF r.op = "stage" THEN "staging" ELSE "merging"
    /\ r.src = job[h].src /\ r.file = job[h].file

\* A request, and a response, belong to the handler that waits: an answer taken
\* off a queue without a correlation id is the answer to what was asked
\* (RabbitService 95-133).
Correlated ==
    /\ \A r \in requests :
          /\ \E h \in Handler : Asks(h, r)
          /\ r.at = "clear" => r.op = "merge"
          /\ \A s \in Source, op \in Call : responses[s][op] = 0
    /\ \A q, r \in requests : q = r
    /\ \A s \in Source, op \in Call : responses[s][op] > 0 =>
          /\ responses[s][op] = 1
          /\ \E h \in Handler :
                pc[h] = (IF op = "stage" THEN "staging" ELSE "merging") /\ job[h].src = s

\* Staging has the data of the file in the critical section, none other, and none
\* once the merge is through (DbBackgroundService 39-44, 59-64).
StagedByHolder ==
    \A s \in Source :
        /\ sem[s] = NoHandler => staging[s] = {}
        /\ \A h \in Handler : sem[s] = h =>
              /\ staging[s] \subseteq {job[h].file}
              /\ pc[h] = "release" => staging[s] = {}
        /\ responses[s]["merge"] > 0 => staging[s] = {}
        /\ \A r \in requests :
              r.op = "merge" /\ r.at = "reply" /\ r.src = s => staging[s] = {}

\* No merge mixes the data of two files: offlocSem and deliusSem hold from the
\* staging of a file to the clearing after its merge (Import 37-51, 58-72).
MergesDontMix == \A s \in Source : \A f, g \in picture[s] : f = g

\* Together the parts are inductive: which handler is where says what staging
\* holds, and the one request or response in flight says which handler waits.
IInv == ImportTypeOK /\ Exclusive /\ Correlated /\ StagedByHolder /\ MergesDontMix
=============================================================================
