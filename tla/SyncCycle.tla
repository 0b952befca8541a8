------------------------------ MODULE SyncCycle -------------------------------
(***************************************************************************)
(* FileSync in front of the simplest pipeline that honours its protocol:   *)
(* a download-finished message leads to a row, the row to a merge, and the *)
(* merges of both sources to one completion message.                       *)
(***************************************************************************)
EXTENDS FileSync

VARIABLE taken      \* the sources a file was taken up of since the last completion

vars == <<dbVars, syncVars, taken>>

\* What FileSync handed over is not yet in the running picture.
Busy == \E s \in Source : downloads[s] # <<>> \/ ~Ready(s)

\* Delius.Parser, Offloc.Cleaner: a file with a row is skipped, any other gets one.
\* The cleaner leaves a half-cleaned copy until it is done, or fails.
TakeUp(s) ==
    /\ downloads[s] # <<>>
    /\ LET m == Head(downloads[s])
       IN  IF HasRow(s, m.file)
           THEN UNCHANGED <<dbVars, archiveOf>>
           ELSE /\ CreateProcessedFileEntry(s, m.file)
                /\ archiveOf' = IF s = "offloc" /\ table' # table
                                THEN [archiveOf EXCEPT ![m.file] = m.archive]
                                ELSE archiveOf
    /\ downloads' = [downloads EXCEPT ![s] = Tail(@)]
    /\ taken' = taken \cup {s}
    /\ halfCleaned' = IF s = "offloc" THEN halfCleaned \cup {Head(downloads[s]).file}
                      ELSE halfCleaned
    /\ UNCHANGED <<elsewhere, input, tidy, sync>>

\* Everything between the row and the end of the merge.
MergeFile(s) ==
    /\ \E f \in File :
          /\ table[s][f] = "Processing"
          /\ SetStatus(s, f, "Merged")
          /\ halfCleaned' = IF s = "offloc" THEN halfCleaned \ {f} ELSE halfCleaned
    /\ UNCHANGED <<elsewhere, input, tidy, archiveOf, sync, downloads,
                   staging, picture, taken>>

\* Blocking, matching and clustering.
Cluster ==
    /\ taken = Source /\ ~Busy
    /\ taken' = {}
    /\ completions' = completions + 1
    /\ UNCHANGED <<dbVars, store, inputVars, tidy, archiveOf, sync, downloads, ticks, restarts>>

Pipeline == Cluster \/ \E s \in Source : TakeUp(s) \/ MergeFile(s)

Init == DbInit /\ FileSyncInit /\ taken = {}

\* Steps of FileSync and of the store leave taken alone.
Alone(A) == A /\ UNCHANGED taken

Next == Alone(SyncNext(Busy)) \/ Alone(Tidy) \/ (\E s \in Source : Alone(Arrive(s))) \/ Pipeline

\* Every process runs on: the awaits of ProcessAsync return, the queues are
\* consumed, and the timer goes off.  Nobody is obliged to deliver a file.
Fairness ==
    /\ WF_vars(Alone(Process)) /\ WF_vars(Alone(Completion)) /\ WF_vars(Alone(Timer(Busy)))
    /\ WF_vars(Cluster)
    /\ \A s \in Source : WF_vars(TakeUp(s)) /\ WF_vars(MergeFile(s))

Spec == Init /\ [][Next]_vars
FairSpec == Spec /\ Fairness

-----------------------------------------------------------------------------
\* A cycle ends: FileSync does not hold its lock for ever (FileSync 82-156, and
\* the recursion at 239).
CycleEnds == (sync.at # "idle") ~> (sync.at = "idle")

\* What the store holds is worked off until one of the sources has nothing new.
Drains == []<>(\E s \in Source : Oldest(s) = {})
=============================================================================
