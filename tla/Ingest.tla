-------------------------------- MODULE Ingest --------------------------------
(***************************************************************************)
(* One ingest cycle end to end: FileSync, the parsing services, Import and *)
(* DbInteractions with their queues, and clustering as the step that       *)
(* answers an ImportFinishedMessage with a completion.                     *)
(***************************************************************************)
EXTENDS Import, FileSync

CONSTANTS
    Worker,     \* bound: files the parsing services can have in hand
    TidyLags,   \* whether Cleanup may still have to tidy up when a file is cleaned
    MaxClusterings \* bound: rounds of clustering, which rows that fail make endless

ASSUME IngestAssumption == TidyLags \in BOOLEAN /\ MaxClusterings \in Nat

VARIABLES
    work,       \* work[w]: the file worker w has in hand and where it is
    clustered   \* ImportFinishedMessages answered with a completion

parseVars == <<work, clustered>>
vars == <<dbVars, importVars, rpcVars, crashes, syncVars, parseVars>>

Unused == [at |-> "unused"]
WorkStep == {"ask", "skip", "create", "clean", "swap", "cleaned", "parse", "finish"}
Work == {Unused} \cup
        [at : WorkStep, src : Source, file : File, archive : Archive \cup {NoFile}]

TypeOK ==
    /\ ImportTypeOK /\ FileSyncTypeOK
    /\ work \in [Worker -> Work]
    /\ clustered \in 0 .. importFinished

Init ==
    /\ ImportInit /\ FileSyncInit
    /\ work = [w \in Worker |-> Unused]
    /\ clustered = 0

-----------------------------------------------------------------------------
(* Delius.Parser, Offloc.Cleaner, Offloc.Parser *)

WorkAt(w, at) == work[w].at = at
WorkGoto(w, at) == work' = [work EXCEPT ![w].at = at]
Toward(s, message) == inbox' = [inbox EXCEPT ![s] = Append(@, message)]

\* Importing is left alone by these steps, but for its queues.
importIdle == <<pc, job, sem, dbSem, completed, fileEmpty, importFinished, rpcVars, crashes>>

TakeUp(w, s) ==
    /\ WorkAt(w, "unused") /\ downloads[s] # <<>>
    /\ work' = [work EXCEPT ![w] = [at |-> "ask", src |-> s,
                                    file |-> Head(downloads[s]).file,
                                    archive |-> Head(downloads[s]).archive]]
    /\ downloads' = [downloads EXCEPT ![s] = Tail(@)]
    /\ UNCHANGED <<dbVars, inbox, importIdle, clustered,
                   elsewhere, inputVars, tidy, archiveOf, sync>>

\* HasAlreadyBeenProcessedAsync
Ask(w) ==
    /\ WorkAt(w, "ask")
    /\ WorkGoto(w, IF HasRow(work[w].src, work[w].file) THEN "skip" ELSE "create")
    /\ UNCHANGED <<dbVars, inbox, importIdle, syncVars, clustered>>

Skip(w) ==
    /\ WorkAt(w, "skip")
    /\ Toward(work[w].src, [file |-> work[w].file, empty |-> TRUE])
    /\ work' = [work EXCEPT ![w] = Unused]
    /\ UNCHANGED <<dbVars, importIdle, syncVars, clustered>>

\* StartDeliusFileProcessingRequest, StartOfflocFileProcessingRequest
Create(w) ==
    /\ WorkAt(w, "create")
    /\ CreateProcessedFileEntry(work[w].src, work[w].file)
    /\ archiveOf' = IF work[w].src = "offloc" /\ table' # table
                    THEN [archiveOf EXCEPT ![work[w].file] = work[w].archive]
                    ELSE archiveOf
    /\ WorkGoto(w, IF work[w].src = "offloc" THEN "clean" ELSE "parse")
    /\ UNCHANGED <<inbox, importIdle, clustered,
                   elsewhere, inputVars, tidy, sync, downloads>>

\* An exception in an async void handler ends its process, and with it every
\* handler the process runs.  Which of the messages to the Offloc parser that
\* wait for its semaphore are in a handler already is left open.
Service(item) ==
    IF item.src = "delius" THEN "Delius.Parser"
    ELSE IF item.at \in {"cleaned", "parse", "finish"} THEN "Offloc.Parser"
    ELSE "Offloc.Cleaner"

CrashOf(w) ==
    LET sameProcess == {v \in Worker : /\ work[v] # Unused
                                       /\ Service(work[v]) = Service(work[w])}
        queued == {v \in sameProcess : WorkAt(v, "cleaned")}
    IN  \E spared \in SUBSET queued :
            work' = [v \in Worker |->
                        IF v \in sameProcess \ spared THEN Unused ELSE work[v]]

InHand(w) == work[w].file \in input[work[w].src]
\* Another handler is writing the same "_clean" file.
Locked(w) == \E v \in Worker : WorkAt(v, "swap") /\ work[v].file = work[w].file

\* FileCleaner: write the "_clean" file from the original, ...
Clean(w) ==
    /\ WorkAt(w, "clean") /\ InHand(w) /\ ~Locked(w) /\ (TidyLags \/ ~tidy)
    /\ halfCleaned' = halfCleaned \cup {work[w].file}
    /\ WorkGoto(w, "swap")
    /\ UNCHANGED <<dbVars, inbox, importIdle, clustered,
                   elsewhere, input, tidy, archiveOf, sync, downloads>>

\* ... or leave it behind empty when FileSync deleted the original.
CleanNothing(w) ==
    /\ WorkAt(w, "clean") /\ ~(InHand(w) /\ ~Locked(w))
    /\ halfCleaned' = halfCleaned \cup {work[w].file}
    /\ CrashOf(w)
    /\ UNCHANGED <<dbVars, inbox, importIdle, clustered,
                   elsewhere, input, tidy, archiveOf, sync, downloads>>

\* ProcessFile: delete the original, move the cleaned file to its name, ...
Replace(w) ==
    /\ WorkAt(w, "swap") /\ work[w].file \in halfCleaned
    /\ halfCleaned' = halfCleaned \ {work[w].file}
    /\ input' = [input EXCEPT !["offloc"] = @ \cup {work[w].file}]
    /\ WorkGoto(w, "cleaned")
    /\ UNCHANGED <<dbVars, inbox, importIdle, clustered,
                   elsewhere, tidy, archiveOf, sync, downloads>>

\* ... unless FileSync or Cleanup deleted it.
ReplaceNothing(w) ==
    /\ WorkAt(w, "swap") /\ work[w].file \notin halfCleaned
    /\ input' = [input EXCEPT !["offloc"] = @ \ {work[w].file}]
    /\ CrashOf(w)
    /\ UNCHANGED <<dbVars, inbox, importIdle, clustered,
                   elsewhere, halfCleaned, tidy, archiveOf, sync, downloads>>

\* The Offloc parser takes one file at a time.
StartParse(w) ==
    /\ WorkAt(w, "cleaned")
    /\ \A v \in Worker : ~(work[v].at \in {"parse", "finish"} /\ work[v].src = "offloc")
    /\ WorkGoto(w, "parse")
    /\ UNCHANGED <<dbVars, inbox, importIdle, syncVars, clustered>>

Parse(w) ==
    /\ WorkAt(w, "parse") /\ InHand(w)
    /\ WorkGoto(w, "finish")
    /\ UNCHANGED <<dbVars, inbox, importIdle, syncVars, clustered>>

ParseNothing(w) ==
    /\ WorkAt(w, "parse") /\ ~InHand(w)
    /\ CrashOf(w)
    /\ UNCHANGED <<dbVars, inbox, importIdle, syncVars, clustered>>

Finish(w) ==
    /\ WorkAt(w, "finish")
    /\ Toward(work[w].src, [file |-> work[w].file, empty |-> FALSE])
    /\ work' = [work EXCEPT ![w] = Unused]
    /\ UNCHANGED <<dbVars, importIdle, syncVars, clustered>>

WorkOn(w) ==
    \/ Ask(w) \/ Skip(w) \/ Create(w) \/ Clean(w) \/ CleanNothing(w) \/ Replace(w)
    \/ ReplaceNothing(w) \/ StartParse(w) \/ Parse(w) \/ ParseNothing(w) \/ Finish(w)

ParseStep == \E w \in Worker : WorkOn(w) \/ \E s \in Source : TakeUp(w, s)

\* Mutated: one completion too many.
ClusterAgain ==
    /\ clustered <= importFinished /\ importFinished > 0
    /\ clustered' = clustered + 1
    /\ completions' = completions + 1
    /\ UNCHANGED <<dbVars, inbox, importIdle, work,
                   store, inputVars, tidy, archiveOf, sync, downloads, ticks, restarts>>

\* Blocking, Matching.Engine: the answer to an ImportFinishedMessage.
Cluster ==
    /\ clustered < importFinished /\ clustered < MaxClusterings
    /\ clustered' = clustered + 1
    /\ completions' = completions + 1
    /\ UNCHANGED <<dbVars, inbox, importIdle, work,
                   store, inputVars, tidy, archiveOf, sync, downloads, ticks, restarts>>

-----------------------------------------------------------------------------
\* Something FileSync handed over has not come to its end.
UnderWay ==
    \/ \E s \in Source : downloads[s] # <<>> \/ inbox[s] # <<>> \/ ~Ready(s)
    \/ \E w \in Worker : work[w] # Unused
    \/ \E h \in Handler : pc[h] # "idle"
    \/ requests # {} \/ clustered < importFinished \/ completions > 0

WithImport(A) == A /\ UNCHANGED <<syncVars, parseVars, crashes>>
WithSync(A) == A /\ UNCHANGED <<inbox, importIdle, parseVars>>

Next ==
    \/ WithSync(SyncNext(UnderWay))
    \/ WithSync(Tidy) \/ \E s \in Source : WithSync(Arrive(s))
    \/ ParseStep \/ Cluster
    \/ WithImport(ImportStep) \/ WithImport(DbStep)
    \/ Crash /\ UNCHANGED <<syncVars, parseVars>>

\* Every started activity is resumed, every queue is read: handlers are never
\* refused a thread, and a message stays until its consumer takes it.
Fairness ==
    /\ WF_vars(WithSync(Process)) /\ WF_vars(WithSync(Completion))
    /\ WF_vars(WithSync(Timer(UnderWay))) /\ WF_vars(WithSync(Tidy))
    /\ WF_vars(ParseStep) /\ WF_vars(Cluster)
    /\ \A h \in Handler :
          WF_vars(WithImport(\E s \in Source : Receive(h, s)))
    /\ WF_vars(WithImport(ImportStep)) /\ WF_vars(WithImport(DbStep))

Spec == Init /\ [][Next]_vars
FairSpec == Spec /\ Fairness

-----------------------------------------------------------------------------
\* The promise of BatchLifecycle, kept by the whole chain from FileSync to
\* CheckStates (ImportBackgroundService 77-89): one file of each source at a
\* time, shown unmixed, announced once and only when both are merged.
Batch == INSTANCE BatchLifecycle
            WITH status <- table, shown <- picture, announced <- importFinished
KeepsBatches == Batch!FairSpec

\* A row becomes Merged only by a merge that reads the data of its file and of
\* no other (MergeAll marks the row whatever is in staging).
MergeSeesItsFile ==
    [][\A s \in Source, f \in File :
          table[s][f] # "Merged" /\ table'[s][f] = "Merged" => staging[s] = {f}]_vars

\* Every file with a row ends as merged.
HandedOverIsMerged ==
    \A s \in Source, f \in File : HasRow(s, f) ~> table[s][f] = "Merged"

\* A handler that holds a source's semaphore, or the database semaphore, gives it
\* back (neither is released in a finally block of Import).
SemaphoresReturn ==
    /\ \A s \in Source : (sem[s] # NoHandler) ~> (sem[s] = NoHandler)
    /\ (dbSem # NoHandler) ~> (dbSem = NoHandler)

\* Merged data is announced to Blocking: a stage publishes the message that
\* triggers the next stage (.github/copilot-instructions.md 43).
MergedIsAnnounced ==
    (\A s \in Source : \E f \in File : table[s][f] = "Merged") ~> (importFinished > 0)
=============================================================================
