---------------------------- MODULE RunningPicture ----------------------------
(***************************************************************************)
(* The databases one import cycle works on, and the operations of          *)
(* DbInteractions on them: for each source the ProcessedFiles table of the *)
(* running picture, the staging database and the running picture itself.   *)
(*                                                                         *)
(* Data is abstracted to the name of the file it came from: staging[s] is  *)
(* the set of files whose rows are in the staging tables, picture[s] the   *)
(* set the last merge read.  Every stored procedure below runs in one      *)
(* transaction, so it is one action; each may also fail, and then          *)
(* DbInteractions swallows the exception and answers as if it had worked.  *)
(***************************************************************************)
EXTENDS Naturals, FiniteSets

CONSTANTS
    File,       \* names of the files a source delivers
    FileId,     \* FileId[f]: the primary key a row for f is stored under
    NoFile,     \* stands for NULL, an empty result
    Faults      \* the operations that may fail: a subset of Operation

Source == {"delius", "offloc"}
Operation == {"create", "stage", "merge", "clear"}
Status == {"None", "Processing", "Imported", "Merged"}

ASSUME FaultsAssumption == Faults \subseteq Operation
ASSUME NoFileAssumption == NoFile \notin File

VARIABLES
    table,      \* table[s][f]: Status of f's row in ProcessedFiles, "None": no row
    latest,     \* latest[s]: the file whose row was written last (greatest ValidFrom)
    staging,    \* staging[s]: the files whose data is in the staging database
    picture     \* picture[s]: the files whose data the last merge read

dbVars == <<table, latest, staging, picture>>

DbTypeOK ==
    /\ table \in [Source -> [File -> Status]]
    /\ latest \in [Source -> File \cup {NoFile}]
    /\ staging \in [Source -> SUBSET File]
    /\ picture \in [Source -> SUBSET File]

DbInit ==
    /\ table = [s \in Source |-> [f \in File |-> "None"]]
    /\ latest = [s \in Source |-> NoFile]
    /\ staging = [s \in Source |-> {}]
    /\ picture = [s \in Source |-> {}]

-----------------------------------------------------------------------------
HasRow(s, f) == table[s][f] # "None"

\* Mutated: some row must be merged already.
ReadyOnceMerged(s) == \E f \in File : table[s][f] = "Merged"

\* IsDeliusReadyForProcessing, IsOfflocReadyForProcessing: no row is unmerged.
Ready(s) == \A f \in File : table[s][f] \in {"None", "Merged"}

\* An UPDATE by file name: it touches nothing when there is no such row, and
\* otherwise the row's ROW START column, ValidFrom, moves to now.
SetStatus(s, f, status) ==
    IF HasRow(s, f)
    THEN /\ table' = [table EXCEPT ![s][f] = status]
         /\ latest' = [latest EXCEPT ![s] = f]
    ELSE UNCHANGED <<table, latest>>

\* The operation op fails and its exception is swallowed.
Swallowed(op) == op \in Faults /\ UNCHANGED dbVars

\* INSERT INTO ProcessedFiles.  A row with the same primary key makes the
\* INSERT fail, which the caller does not learn.
CreateProcessedFileEntry(s, f) ==
    \/ /\ \A g \in File : HasRow(s, g) => FileId[g] # FileId[f]
       /\ table' = [table EXCEPT ![s][f] = "Processing"]
       /\ latest' = [latest EXCEPT ![s] = f]
       /\ UNCHANGED <<staging, picture>>
    \/ /\ \E g \in File : HasRow(s, g) /\ FileId[g] = FileId[f]
       /\ UNCHANGED dbVars
    \/ Swallowed("create")

\* Bulk insert into staging, standardise, mark the row imported; or roll back.
Stage(s, f) ==
    \/ /\ staging' = [staging EXCEPT ![s] = @ \cup {f}]
       /\ SetStatus(s, f, "Imported")
       /\ UNCHANGED picture
    \/ Swallowed("stage")

\* Merge everything staged into the running picture and mark f's row merged;
\* or roll back.  Nothing relates the staged data to f.
Merge(s, f) ==
    \/ /\ picture' = [picture EXCEPT ![s] = staging[s]]
       /\ SetStatus(s, f, "Merged")
       /\ UNCHANGED staging
    \/ Swallowed("merge")

\* Truncate the staging tables.
ClearStaging(s) ==
    \/ /\ staging' = [staging EXCEPT ![s] = {}]
       /\ UNCHANGED <<table, latest, picture>>
    \/ Swallowed("clear")
=============================================================================
