------------------------------- MODULE FileSync -------------------------------
(***************************************************************************)
(* The FileSync service: when a cycle starts, whether it may, which file   *)
(* of each source it takes, and the two messages that hand them over.      *)
(*                                                                         *)
(* ProcessAsync is one activity under a try-lock; every await in it is a   *)
(* point where the rest of the system moves, hence an action boundary.     *)
(* The store holds Delius files, Offloc files and Offloc archives, each    *)
(* archive with one Offloc file in it.                                     *)
(***************************************************************************)
EXTENDS RunningPicture, Sequences

CONSTANTS
    Archive,            \* names of Offloc archives
    Content,            \* Content[a]: the one Offloc file archive a holds
    Date,               \* Date[i]: the datestamp in the name of file or archive i
    ProcessOnStartup,   \* the switches of SyncOptions
    ProcessOnCompletion,
    ProcessOnTimer,
    AllowProcessingOlderFiles,
    MaxTicks,           \* bound: timer ticks while a batch is under way
    MaxRestarts         \* bound: restarts of the FileSync process

ASSUME FileSyncAssumption ==
    /\ Archive \cap File = {} /\ NoFile \notin Archive
    /\ Content \in [Archive -> File]
    /\ Date \in [File \cup Archive -> Nat]
    /\ {ProcessOnStartup, ProcessOnCompletion, ProcessOnTimer,
        AllowProcessingOlderFiles} \subseteq BOOLEAN
    /\ MaxTicks \in Nat /\ MaxRestarts \in Nat

VARIABLES
    store,      \* store[s]: what the file store lists for source s
    input,      \* input[s]: the files in the source's input directory
    halfCleaned,\* the files with a "_clean" copy in the Offloc input directory
    tidy,       \* ClearHalfCleanedOfflocFiles messages wait for Cleanup
    archiveOf,  \* archiveOf[f]: column ArchiveFileName of Offloc row f
    sync,       \* ProcessAsync: where it is and what it has read
    downloads,  \* downloads[s]: the download-finished messages not yet consumed
    completions,\* ClusteringPostProcessingFinished messages not yet consumed
    ticks,
    restarts

inputVars == <<input, halfCleaned>>
\* What no step of ProcessAsync changes.
elsewhere == <<store, completions, ticks, restarts>>
syncVars == <<store, inputVars, tidy, archiveOf, sync, downloads, completions,
              ticks, restarts>>

Item(s) == File \cup (IF s = "offloc" THEN Archive ELSE {})
Download == [file : File, archive : Archive \cup {NoFile}]
SyncStep == {"idle", "readyDelius", "readyOffloc", "clearDelius", "clearOffloc",
             "clearInput", "pickDelius", "pickOffloc", "gateDelius", "gateOffloc",
             "publishDelius", "publishOffloc"}

FileSyncTypeOK ==
    /\ DbTypeOK
    /\ store \in [Source -> SUBSET (File \cup Archive)]
    /\ \A s \in Source : store[s] \subseteq Item(s)
    /\ input \in [Source -> SUBSET File]
    /\ halfCleaned \subseteq File /\ tidy \in BOOLEAN
    /\ archiveOf \in [File -> Archive \cup {NoFile}]
    /\ sync \in [at : SyncStep, ok : BOOLEAN, pick : [Source -> File \cup {NoFile}],
                 parent : Archive \cup {NoFile}]
    /\ downloads \in [Source -> Seq(Download)]
    /\ completions \in Nat
    /\ ticks \in 0 .. MaxTicks
    /\ restarts \in 0 .. MaxRestarts

Start(at) == [at |-> at, ok |-> TRUE, pick |-> [s \in Source |-> NoFile],
              parent |-> NoFile]
Done == Start("idle")
Launch == IF ProcessOnStartup THEN Start("readyDelius") ELSE Done

FileSyncInit ==
    /\ store = [s \in Source |-> {}]
    /\ input = [s \in Source |-> {}]
    /\ halfCleaned = {} /\ tidy = FALSE
    /\ archiveOf = [f \in File |-> NoFile]
    /\ sync = Launch
    /\ downloads = [s \in Source |-> <<>>]
    /\ completions = 0
    /\ ticks = 0
    /\ restarts = 0

-----------------------------------------------------------------------------
(* Triggers *)

\* A tick that finds the lock taken does nothing.  Ticks that elapse while a
\* batch is under way are counted against the bound, the others are not.
Timer(underWay) ==
    /\ ProcessOnTimer /\ sync.at = "idle"
    /\ IF underWay THEN ticks < MaxTicks /\ ticks' = ticks + 1 ELSE UNCHANGED ticks
    /\ sync' = Start("readyDelius")
    /\ UNCHANGED <<store, inputVars, tidy, archiveOf, downloads, completions, restarts, dbVars>>

\* Mutated: the message is left in the queue.
CompletionKept ==
    /\ ProcessOnCompletion /\ completions > 0
    /\ sync' = IF sync.at = "idle" THEN Start("readyDelius") ELSE sync
    /\ UNCHANGED <<store, inputVars, tidy, archiveOf, downloads, completions, ticks,
                   restarts, dbVars>>

\* A completion that finds the lock taken is consumed and starts nothing.
Completion ==
    /\ ProcessOnCompletion /\ completions > 0
    /\ completions' = completions - 1
    /\ sync' = IF sync.at = "idle" THEN Start("readyDelius") ELSE sync
    /\ UNCHANGED <<store, inputVars, tidy, archiveOf, downloads, ticks, restarts, dbVars>>

-----------------------------------------------------------------------------
(* ProcessAsync *)

SyncAt(at) == sync.at = at
SyncGoto(at) == sync' = [sync EXCEPT !.at = at]

\* Both questions are asked whatever the first answer is.
ReadyDelius ==
    /\ SyncAt("readyDelius")
    /\ sync' = [sync EXCEPT !.at = "readyOffloc", !.ok = Ready("delius")]
    /\ UNCHANGED <<elsewhere, tidy, inputVars, archiveOf, downloads, dbVars>>

ReadyOffloc ==
    /\ SyncAt("readyOffloc")
    /\ IF sync.ok /\ Ready("offloc")
       THEN sync' = Start("clearDelius") /\ tidy' = TRUE
       ELSE sync' = Done /\ UNCHANGED tidy
    /\ UNCHANGED <<elsewhere, inputVars, archiveOf, downloads, dbVars>>

\* PreKickoffTasks: Cleanup was asked to tidy up; empty both staging databases,
\* then both input directories.
ClearStep(s, at, next) ==
    /\ SyncAt(at)
    /\ ClearStaging(s)
    /\ SyncGoto(next)
    /\ UNCHANGED <<elsewhere, tidy, inputVars, archiveOf, downloads>>

ClearDelius == ClearStep("delius", "clearDelius", "clearOffloc")
ClearOffloc == ClearStep("offloc", "clearOffloc", "clearInput")

ClearInput ==
    /\ SyncAt("clearInput")
    /\ input' = [s \in Source |-> {}]
    /\ halfCleaned' = {}
    /\ SyncGoto("pickDelius")
    /\ UNCHANGED <<elsewhere, tidy, archiveOf, downloads, dbVars>>

\* GetProcessedDeliusFileNames, GetProcessedOfflocFileNames: names of files and,
\* for Offloc, the one archive name each row has room for.
Processed(s) ==
    {f \in File : HasRow(s, f)} \cup
    (IF s = "offloc" THEN {archiveOf[f] : f \in {g \in File : HasRow(s, g)}} ELSE {})

\* The oldest items in the store that are not among the processed names.
Oldest(s) ==
    LET fresh == store[s] \ Processed(s)
    IN  {i \in fresh : \A j \in fresh : Date[i] <= Date[j]}

PickDelius ==
    /\ SyncAt("pickDelius")
    /\ \/ /\ Oldest("delius") = {}
          /\ SyncGoto("pickOffloc")
          /\ UNCHANGED input
       \/ \E f \in Oldest("delius") :
          /\ input' = [input EXCEPT !["delius"] = @ \cup {f}]
          /\ sync' = [sync EXCEPT !.at = "pickOffloc", !.pick["delius"] = f]
    /\ UNCHANGED <<elsewhere, tidy, halfCleaned, archiveOf, downloads, dbVars>>

\* Where the cycle goes with the Offloc file f from archive a: nowhere if a
\* source has no file, otherwise to the date check or past it.
WithOffloc(f, a) ==
    sync' = IF f = NoFile \/ sync.pick["delius"] = NoFile THEN Done
            ELSE [sync EXCEPT !.pick["offloc"] = f, !.parent = a,
                    !.at = IF AllowProcessingOlderFiles
                           THEN "publishDelius" ELSE "gateDelius"]

PickNothing ==
    /\ SyncAt("pickOffloc") /\ Oldest("offloc") = {}
    /\ WithOffloc(NoFile, NoFile)
    /\ UNCHANGED <<elsewhere, tidy, inputVars, archiveOf, downloads, dbVars>>

\* Mutated: an archive is taken for a file.
PickFileOrArchive ==
    /\ SyncAt("pickOffloc")
    /\ \E f \in Oldest("offloc") :
          /\ input' = [input EXCEPT !["offloc"] = @ \cup {f}]
          /\ WithOffloc(f, NoFile)
    /\ UNCHANGED <<elsewhere, tidy, halfCleaned, archiveOf, downloads, dbVars>>

PickFile ==
    /\ SyncAt("pickOffloc")
    /\ \E f \in Oldest("offloc") \cap File :
          /\ input' = [input EXCEPT !["offloc"] = @ \cup {f}]
          /\ WithOffloc(f, NoFile)
    /\ UNCHANGED <<elsewhere, tidy, halfCleaned, archiveOf, downloads, dbVars>>

\* Extraction adds the content to the input directory; Single() throws when
\* another Offloc file is there, and its pattern accepts the cleaner's
\* half-cleaned files.  ExecuteAsync catches the exception; in the async void
\* timer and message callbacks it ends the process, which is started again.
OnlyFile(f) == input["offloc"] \subseteq {f} /\ halfCleaned = {}

PickAmbiguousArchive ==
    /\ SyncAt("pickOffloc")
    /\ \E a \in Oldest("offloc") \cap Archive :
          /\ ~OnlyFile(Content[a])
          /\ input' = [input EXCEPT !["offloc"] = @ \cup {Content[a]}]
    /\ sync' \in {Done, Launch}
    /\ UNCHANGED <<elsewhere, tidy, halfCleaned, archiveOf, downloads, dbVars>>

\* Mutated: the archive is not associated with its content.
PickArchiveAgain ==
    /\ SyncAt("pickOffloc")
    /\ \E a \in Oldest("offloc") \cap Archive :
          OnlyFile(Content[a]) /\ HasRow("offloc", Content[a])
    /\ input' = [input EXCEPT !["offloc"] = {}]
    /\ UNCHANGED <<elsewhere, tidy, halfCleaned, archiveOf, sync, downloads, dbVars>>

\* The content was processed before: associate it with the archive and look again.
PickProcessedArchive ==
    /\ SyncAt("pickOffloc")
    /\ \E a \in Oldest("offloc") \cap Archive :
          /\ OnlyFile(Content[a]) /\ HasRow("offloc", Content[a])
          /\ archiveOf' = [archiveOf EXCEPT ![Content[a]] = a]
          /\ latest' = [latest EXCEPT !["offloc"] = Content[a]]
    /\ input' = [input EXCEPT !["offloc"] = {}]
    /\ UNCHANGED <<elsewhere, tidy, halfCleaned, sync, downloads, table, staging, picture>>

PickArchive ==
    /\ SyncAt("pickOffloc")
    /\ \E a \in Oldest("offloc") \cap Archive :
          /\ OnlyFile(Content[a]) /\ ~HasRow("offloc", Content[a])
          /\ input' = [input EXCEPT !["offloc"] = {Content[a]}]
          /\ WithOffloc(Content[a], a)
    /\ UNCHANGED <<elsewhere, tidy, halfCleaned, archiveOf, downloads, dbVars>>

\* IsDeliusFileNewerThanLastProcessed, IsOfflocFileNewerThanLastProcessed.
NewerThanLastProcessed(s) ==
    latest[s] = NoFile \/ Date[latest[s]] < Date[sync.pick[s]]

GateDelius ==
    /\ SyncAt("gateDelius")
    /\ sync' = [sync EXCEPT !.at = "gateOffloc", !.ok = NewerThanLastProcessed("delius")]
    /\ UNCHANGED <<elsewhere, tidy, inputVars, archiveOf, downloads, dbVars>>

\* Mutated: the Delius answer is overwritten by the Offloc one.
GateOfflocOnly ==
    /\ SyncAt("gateOffloc")
    /\ IF NewerThanLastProcessed("offloc")
       THEN SyncGoto("publishDelius")
       ELSE sync' = Done
    /\ UNCHANGED <<elsewhere, tidy, inputVars, archiveOf, downloads, dbVars>>

GateOffloc ==
    /\ SyncAt("gateOffloc")
    /\ IF sync.ok /\ NewerThanLastProcessed("offloc")
       THEN SyncGoto("publishDelius")
       ELSE sync' = Done
    /\ UNCHANGED <<elsewhere, tidy, inputVars, archiveOf, downloads, dbVars>>

PublishDelius ==
    /\ SyncAt("publishDelius")
    /\ downloads' = [downloads EXCEPT !["delius"] =
                        Append(@, [file |-> sync.pick["delius"], archive |-> NoFile])]
    /\ SyncGoto("publishOffloc")
    /\ UNCHANGED <<elsewhere, tidy, inputVars, archiveOf, dbVars>>

PublishOffloc ==
    /\ SyncAt("publishOffloc")
    /\ downloads' = [downloads EXCEPT !["offloc"] =
                        Append(@, [file |-> sync.pick["offloc"], archive |-> sync.parent])]
    /\ sync' = Done
    /\ UNCHANGED <<elsewhere, tidy, inputVars, archiveOf, dbVars>>

Process ==
    \/ ReadyDelius \/ ReadyOffloc \/ ClearDelius \/ ClearOffloc \/ ClearInput
    \/ PickDelius \/ PickNothing \/ PickFile \/ PickAmbiguousArchive
    \/ PickProcessedArchive \/ PickArchive \/ GateDelius \/ GateOffloc
    \/ PublishDelius \/ PublishOffloc

\* The process stops in the middle of a cycle and is started again.
Restart ==
    /\ restarts < MaxRestarts /\ sync.at # "idle"
    /\ restarts' = restarts + 1
    /\ sync' = Launch
    /\ UNCHANGED <<store, inputVars, tidy, archiveOf, downloads, completions, ticks, dbVars>>

SyncNext(underWay) == Timer(underWay) \/ Completion \/ Process \/ Restart

\* Cleanup: OfflocCleanupService.ClearIllegalFiles.
Tidy ==
    /\ tidy
    /\ tidy' = FALSE
    /\ halfCleaned' = {}
    /\ UNCHANGED <<elsewhere, input, archiveOf, sync, downloads, dbVars>>

\* Outside the system: a file or an archive is put into the store.
Arrive(s) ==
    /\ \E i \in Item(s) \ store[s] : store' = [store EXCEPT ![s] = @ \cup {i}]
    /\ UNCHANGED <<inputVars, tidy, archiveOf, sync, downloads, completions, ticks, restarts, dbVars>>

-----------------------------------------------------------------------------
Publishes(s) == Len(downloads'[s]) > Len(downloads[s])

\* A file handed over has no row yet and is not on its way already, however the
\* triggers fall (FileSync 183-187, the lock, and the readiness check before it).
\* One whose row could not be written does come again: it has no row.
NeverHandedOverTwice ==
    [][\A s \in Source : Publishes(s) =>
          /\ ~HasRow(s, sync.pick[s])
          /\ \A n \in 1 .. Len(downloads[s]) :
                downloads[s][n].file # sync.pick[s]]_downloads

\* With AllowProcessingOlderFiles off a file handed over is dated after every
\* file of its source that has a row (FileSync 126-145).
NeverOlder ==
    [][\A s \in Source : Publishes(s) =>
          \/ AllowProcessingOlderFiles
          \/ \A g \in File : HasRow(s, g) => Date[g] < Date[sync.pick[s]]]_downloads
=============================================================================
