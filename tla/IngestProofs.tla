----------------------------- MODULE IngestProofs -----------------------------
(***************************************************************************)
(* Theorems about Ingest for any files, archives, dates, options, faults,  *)
(* crashes and bounds: the types of the whole chain, and what Import and   *)
(* DbInteractions keep up in it however batches overlap.                   *)
(***************************************************************************)
EXTENDS Ingest, ImportProofs

USE DEF dbVars, importVars, rpcVars, inputVars, elsewhere

-----------------------------------------------------------------------------
(* FileSync *)

\* Both files are known once there is something to compare or to publish.
Picked ==
    sync.at \in {"gateDelius", "gateOffloc", "publishDelius", "publishOffloc"} =>
        \A s \in Source : sync.pick[s] \in File

Sync == [at : SyncStep, ok : BOOLEAN, pick : [Source -> File \cup {NoFile}],
         parent : Archive \cup {NoFile}]

LEMMA StartIs ==
    ASSUME NEW at \in SyncStep
    PROVE  Start(at) \in Sync /\ Start(at).at = at
BY DEF Start, Sync

LEMMA LaunchIs == Launch \in Sync /\ Launch.at \in {"idle", "readyDelius"}
BY StartIs DEF Launch, Done, SyncStep

\* A step of ProcessAsync that leaves the databases, the store and the bounds
\* alone keeps the types if what it writes has them.
LEMMA SyncWrites ==
    ASSUME FileSyncTypeOK, DbTypeOK', UNCHANGED elsewhere,
           sync' \in Sync, Picked',
           input' \in [Source -> SUBSET File], halfCleaned' \subseteq File, tidy' \in BOOLEAN,
           archiveOf' \in [File -> Archive \cup {NoFile}],
           downloads' \in [Source -> Seq(Download)]
    PROVE  FileSyncTypeOK' /\ Picked'
BY DEF FileSyncTypeOK, Sync

\* What Oldest returns is in the store: Delius delivers files only.
LEMMA OldestIs ==
    ASSUME FileSyncTypeOK
    PROVE  Oldest("delius") \subseteq File /\ Oldest("offloc") \subseteq File \cup Archive
<1>1. \A s \in Source : Oldest(s) \subseteq store[s] BY DEF Oldest
<1>2. "delius" \in Source /\ "offloc" \in Source BY DEF Source
<1> QED BY <1>1, <1>2 DEF FileSyncTypeOK, Item

LEMMA WithOfflocType ==
    ASSUME FileSyncTypeOK, NEW f \in File \cup {NoFile}, NEW a \in Archive \cup {NoFile},
           WithOffloc(f, a)
    PROVE  sync' \in Sync /\ Picked'
<1>1. CASE f = NoFile \/ sync.pick["delius"] = NoFile
  <2>1. sync' = Start("idle") BY <1>1 DEF WithOffloc, Done
  <2>2. Start("idle") \in Sync /\ Start("idle").at = "idle" BY StartIs DEF SyncStep
  <2> QED BY <2>1, <2>2 DEF Picked
<1>2. CASE f # NoFile /\ sync.pick["delius"] # NoFile
  <2>1. sync \in Sync BY DEF FileSyncTypeOK, Sync
  <2>2. sync.pick["delius"] \in File /\ f \in File
    BY <1>2, <2>1 DEF Sync, Source
  <2>3. sync' = [sync EXCEPT !.pick["offloc"] = f, !.parent = a,
                   !.at = IF AllowProcessingOlderFiles
                          THEN "publishDelius" ELSE "gateDelius"]
    BY <1>2 DEF WithOffloc
  <2>4. sync' \in Sync BY <2>1, <2>3 DEF Sync, SyncStep, Source
  <2>5. \A s \in Source : sync'.pick[s] \in File
    BY <2>1, <2>2, <2>3 DEF Sync, Source
  <2> QED BY <2>4, <2>5 DEF Picked
<1> QED BY <1>1, <1>2

LEMMA ProcessType ==
    ASSUME FileSyncTypeOK, Picked, Process
    PROVE  FileSyncTypeOK' /\ Picked'
<1> USE DEF SyncAt, SyncGoto
<1>1. sync \in Sync /\ DbTypeOK BY DEF FileSyncTypeOK, Sync
<1>2. Done \in Sync /\ Done.at = "idle" BY StartIs DEF Done, SyncStep
<1>3. /\ input \in [Source -> SUBSET File] /\ halfCleaned \subseteq File /\ tidy \in BOOLEAN
      /\ archiveOf \in [File -> Archive \cup {NoFile}]
      /\ downloads \in [Source -> Seq(Download)]
  BY DEF FileSyncTypeOK
<1>4. {"delius", "offloc"} \subseteq Source BY DEF Source
<1>5. UNCHANGED dbVars => DbTypeOK' BY <1>1 DEF DbTypeOK
<1>6. CASE ReadyDelius
  <2>1. sync' \in Sync /\ Picked'
    BY <1>1, <1>6 DEF ReadyDelius, Sync, SyncStep, Picked, Ready
  <2> QED BY <1>3, <1>5, <1>6, <2>1, SyncWrites DEF ReadyDelius
<1>7. CASE ReadyOffloc
  <2>1. Start("clearDelius") \in Sync /\ Start("clearDelius").at = "clearDelius"
    BY StartIs DEF SyncStep
  <2>2. sync' \in Sync /\ Picked' /\ tidy' \in BOOLEAN
    BY <1>2, <1>3, <1>7, <2>1 DEF ReadyOffloc, Picked
  <2> QED BY <1>3, <1>5, <1>7, <2>2, SyncWrites DEF ReadyOffloc
<1>8. ASSUME NEW s \in Source, NEW at \in SyncStep, NEW next \in {"clearOffloc", "clearInput"},
             ClearStep(s, at, next)
      PROVE  FileSyncTypeOK' /\ Picked'
  <2>1. DbTypeOK' BY <1>1, <1>8 DEF ClearStep, ClearStaging, Swallowed, DbTypeOK
  <2>2. sync' \in Sync /\ Picked' BY <1>1, <1>8 DEF ClearStep, Sync, SyncStep, Picked
  <2> QED BY <1>3, <1>8, <2>1, <2>2, SyncWrites DEF ClearStep
<1>9. CASE ClearInput
  <2>1. sync' \in Sync /\ Picked' BY <1>1, <1>9 DEF ClearInput, Sync, SyncStep, Picked
  <2>2. input' \in [Source -> SUBSET File] /\ halfCleaned' \subseteq File
    BY <1>9 DEF ClearInput
  <2> QED BY <1>3, <1>5, <1>9, <2>1, <2>2, SyncWrites DEF ClearInput
<1>10. CASE PickDelius
  <2>1. CASE Oldest("delius") = {}
    <3>1. sync' = [sync EXCEPT !.at = "pickOffloc"] /\ UNCHANGED input
      BY <1>10, <2>1 DEF PickDelius
    <3>2. sync' \in Sync /\ Picked' BY <1>1, <3>1 DEF Sync, SyncStep, Picked
    <3> QED BY <1>3, <1>5, <1>10, <3>1, <3>2, SyncWrites DEF PickDelius
  <2>2. ASSUME NEW f \in Oldest("delius"),
               input' = [input EXCEPT !["delius"] = @ \cup {f}],
               sync' = [sync EXCEPT !.at = "pickOffloc", !.pick["delius"] = f]
        PROVE  FileSyncTypeOK' /\ Picked'
    <3>1. f \in File BY OldestIs
    <3>2. input' \in [Source -> SUBSET File] BY <1>3, <1>4, <2>2, <3>1
    <3>3. sync' \in Sync BY <1>1, <1>4, <2>2, <3>1 DEF Sync, SyncStep
    <3>4. Picked' BY <1>1, <2>2 DEF Sync, Picked
    <3> QED BY <1>3, <1>5, <1>10, <3>2, <3>3, <3>4, SyncWrites DEF PickDelius
  <2> QED BY <1>10, <2>1, <2>2 DEF PickDelius
<1>11. CASE PickNothing
  <2>1. sync' \in Sync /\ Picked' BY <1>11, WithOfflocType DEF PickNothing
  <2> QED BY <1>3, <1>5, <1>11, <2>1, SyncWrites DEF PickNothing
<1>12. CASE PickFile
  <2>1. PICK f \in Oldest("offloc") \cap File :
           input' = [input EXCEPT !["offloc"] = @ \cup {f}] /\ WithOffloc(f, NoFile)
    BY <1>12 DEF PickFile
  <2>2. sync' \in Sync /\ Picked' BY <2>1, WithOfflocType
  <2>3. input' \in [Source -> SUBSET File] BY <1>3, <1>4, <2>1
  <2> QED BY <1>3, <1>5, <1>12, <2>2, <2>3, SyncWrites DEF PickFile
<1>13. \A a \in Archive : Content[a] \in File BY FileSyncAssumption
<1>14. CASE PickAmbiguousArchive
  <2>1. sync' \in Sync /\ Picked'
    BY <1>2, <1>14, LaunchIs DEF PickAmbiguousArchive, Picked
  <2>2. input' \in [Source -> SUBSET File]
    BY <1>3, <1>4, <1>13, <1>14 DEF PickAmbiguousArchive
  <2> QED BY <1>3, <1>5, <1>14, <2>1, <2>2, SyncWrites DEF PickAmbiguousArchive
<1>15. CASE PickProcessedArchive
  <2>1. input' \in [Source -> SUBSET File]
    BY <1>3, <1>4, <1>15 DEF PickProcessedArchive
  <2>2. archiveOf' \in [File -> Archive \cup {NoFile}] /\ DbTypeOK'
    BY <1>1, <1>3, <1>4, <1>13, <1>15 DEF PickProcessedArchive, DbTypeOK
  <2>3. Picked' BY <1>15 DEF PickProcessedArchive, Picked
  <2> QED BY <1>1, <1>3, <1>15, <2>1, <2>2, <2>3, SyncWrites DEF PickProcessedArchive
<1>16. CASE PickArchive
  <2>1. PICK a \in Archive :
           /\ input' = [input EXCEPT !["offloc"] = {Content[a]}]
           /\ WithOffloc(Content[a], a)
    BY <1>16 DEF PickArchive
  <2>2. sync' \in Sync /\ Picked' BY <1>13, <2>1, WithOfflocType
  <2>3. input' \in [Source -> SUBSET File] BY <1>3, <1>4, <1>13, <2>1
  <2> QED BY <1>3, <1>5, <1>16, <2>2, <2>3, SyncWrites DEF PickArchive
<1>17. CASE GateDelius
  <2>1. sync' \in Sync /\ Picked'
    BY <1>1, <1>17 DEF GateDelius, Sync, SyncStep, Picked, NewerThanLastProcessed
  <2> QED BY <1>3, <1>5, <1>17, <2>1, SyncWrites DEF GateDelius
<1>18. CASE GateOffloc
  <2>1. sync' \in Sync /\ Picked'
    BY <1>1, <1>2, <1>18 DEF GateOffloc, Sync, SyncStep, Picked
  <2> QED BY <1>3, <1>5, <1>18, <2>1, SyncWrites DEF GateOffloc
<1>19. ASSUME NEW s \in Source, NEW a \in Archive \cup {NoFile},
              sync.at \in {"publishDelius", "publishOffloc"},
              downloads' = [downloads EXCEPT ![s] =
                              Append(@, [file |-> sync.pick[s], archive |-> a])]
       PROVE  downloads' \in [Source -> Seq(Download)]
  <2>1. [file |-> sync.pick[s], archive |-> a] \in Download
    BY <1>19 DEF Picked, Download
  <2>2. Append(downloads[s], [file |-> sync.pick[s], archive |-> a]) \in Seq(Download)
    BY <1>3, <2>1, AppendProperties
  <2> QED BY <1>3, <1>19, <2>2
<1>20. CASE PublishDelius
  <2>1. sync' \in Sync /\ Picked'
    BY <1>1, <1>20 DEF PublishDelius, Sync, SyncStep, Picked
  <2>2. downloads' \in [Source -> Seq(Download)]
    BY <1>4, <1>19, <1>20 DEF PublishDelius
  <2> QED BY <1>3, <1>5, <1>20, <2>1, <2>2, SyncWrites DEF PublishDelius
<1>21. CASE PublishOffloc
  <2>1. sync' \in Sync /\ Picked' BY <1>2, <1>21 DEF PublishOffloc, Picked
  <2>2. downloads' \in [Source -> Seq(Download)]
    BY <1>1, <1>4, <1>19, <1>21 DEF PublishOffloc, Sync
  <2> QED BY <1>3, <1>5, <1>21, <2>1, <2>2, SyncWrites DEF PublishOffloc
<1>22. {"clearDelius", "clearOffloc"} \subseteq SyncStep BY DEF SyncStep
<1>23. CASE ClearDelius \/ ClearOffloc
  BY <1>4, <1>8, <1>22, <1>23 DEF ClearDelius, ClearOffloc
<1> QED
  BY <1>6, <1>7, <1>9, <1>10, <1>11, <1>12, <1>14, <1>15, <1>16, <1>17, <1>18,
     <1>20, <1>21, <1>23
     DEF Process

LEMMA SyncNextType ==
    ASSUME FileSyncTypeOK, Picked, NEW underWay, SyncNext(underWay)
    PROVE  FileSyncTypeOK' /\ Picked'
<1>1. Start("readyDelius") \in Sync /\ Start("readyDelius").at = "readyDelius"
  BY StartIs DEF SyncStep
<1>2. CASE Timer(underWay)
  <2>1. ticks' \in 0 .. MaxTicks
    BY <1>2, FileSyncAssumption DEF Timer, FileSyncTypeOK
  <2> QED BY <1>1, <1>2, <2>1 DEF Timer, FileSyncTypeOK, DbTypeOK, Sync, Picked
<1>3. CASE Completion
  BY <1>1, <1>3 DEF Completion, FileSyncTypeOK, DbTypeOK, Sync, Picked
<1>4. CASE Restart
  <2>1. restarts' \in 0 .. MaxRestarts
    BY <1>4, FileSyncAssumption DEF Restart, FileSyncTypeOK
  <2> QED
    BY <1>4, <2>1, LaunchIs DEF Restart, FileSyncTypeOK, DbTypeOK, Sync, Picked
<1> QED BY <1>2, <1>3, <1>4, ProcessType DEF SyncNext

LEMMA TidyType ==
    ASSUME FileSyncTypeOK, Picked, Tidy
    PROVE  FileSyncTypeOK' /\ Picked'
BY DEF Tidy, FileSyncTypeOK, DbTypeOK, Picked

LEMMA ArriveType ==
    ASSUME FileSyncTypeOK, Picked, NEW s \in Source, Arrive(s)
    PROVE  FileSyncTypeOK' /\ Picked'
<1>1. PICK i \in Item(s) : store' = [store EXCEPT ![s] = @ \cup {i}]
  BY DEF Arrive
<1>2. store' \in [Source -> SUBSET (File \cup Archive)]
      /\ \A t \in Source : store'[t] \subseteq Item(t)
  BY <1>1 DEF FileSyncTypeOK, Item
<1> QED BY <1>2 DEF Arrive, FileSyncTypeOK, DbTypeOK, Picked

LEMMA FileSyncInitType == FileSyncInit /\ DbInit => FileSyncTypeOK /\ Picked
<1> SUFFICES ASSUME FileSyncInit, DbInit PROVE FileSyncTypeOK /\ Picked OBVIOUS
<1>1. DbTypeOK BY DEF DbInit, DbTypeOK, Status
<1>2. downloads \in [Source -> Seq(Download)]
  <2>1. <<>> \in Seq(Download) BY EmptySeq
  <2> QED BY <2>1 DEF FileSyncInit
<1>3. sync \in Sync /\ Picked BY LaunchIs DEF FileSyncInit, Picked
<1>4. ticks \in 0 .. MaxTicks /\ restarts \in 0 .. MaxRestarts /\ completions \in Nat
  BY FileSyncAssumption DEF FileSyncInit
<1> QED BY <1>1, <1>2, <1>3, <1>4 DEF FileSyncInit, FileSyncTypeOK, Sync, Item

-----------------------------------------------------------------------------
(* The parsing services *)

USE DEF importIdle, parseVars, syncVars

TypeInv == TypeOK /\ Picked

\* A worker at a step has a file in hand.
LEMMA InHandIs ==
    ASSUME TypeOK, NEW w \in Worker, NEW at \in WorkStep, WorkAt(w, at)
    PROVE  /\ work[w].src \in Source /\ work[w].file \in File
           /\ work[w].archive \in Archive \cup {NoFile}
           /\ \A to \in WorkStep : WorkGoto(w, to) => work' \in [Worker -> Work]
<1>1. work[w] \in Work /\ work[w] # Unused BY DEF TypeOK, WorkAt, WorkStep, Unused
<1>2. work[w] \in [at : WorkStep, src : Source, file : File, archive : Archive \cup {NoFile}]
  BY <1>1 DEF Work
<1>3. ASSUME NEW to \in WorkStep, WorkGoto(w, to) PROVE work' \in [Worker -> Work]
  <2>1. [work[w] EXCEPT !.at = to] \in Work BY <1>2 DEF Work
  <2>2. work' = [work EXCEPT ![w] = [work[w] EXCEPT !.at = to]]
    BY <1>3 DEF WorkGoto
  <2> QED BY <2>1, <2>2 DEF TypeOK
<1> QED BY <1>2, <1>3

\* A message put into a queue of Import keeps it one.
LEMMA TowardType ==
    ASSUME ImportTypeOK, NEW s \in Source, NEW m \in Message, Toward(s, m)
    PROVE  inbox' \in [Source -> Seq(Message)]
<1>1. Append(inbox[s], m) \in Seq(Message) BY AppendProperties DEF ImportTypeOK
<1> QED BY <1>1 DEF Toward, ImportTypeOK

\* What a step of a parsing service writes, the types need to know of no more.
LEMMA ParseWrites ==
    ASSUME TypeInv, DbTypeOK', UNCHANGED <<importIdle, elsewhere, tidy, sync, clustered>>,
           inbox' \in [Source -> Seq(Message)],
           input' \in [Source -> SUBSET File], halfCleaned' \subseteq File,
           archiveOf' \in [File -> Archive \cup {NoFile}],
           downloads' \in [Source -> Seq(Download)],
           work' \in [Worker -> Work]
    PROVE  TypeInv'
BY DEF TypeInv, TypeOK, ImportTypeOK, FileSyncTypeOK, Picked

LEMMA CrashOfType ==
    ASSUME TypeOK, NEW w \in Worker, CrashOf(w)
    PROVE  work' \in [Worker -> Work]
BY DEF TypeOK, CrashOf, Work

LEMMA TakeUpType ==
    ASSUME TypeInv, NEW w \in Worker, NEW s \in Source, TakeUp(w, s)
    PROVE  TypeInv'
<1>1. downloads \in [Source -> Seq(Download)] /\ downloads[s] # <<>>
  BY DEF TypeInv, TypeOK, FileSyncTypeOK, TakeUp
<1>2. Head(downloads[s]) \in Download /\ Tail(downloads[s]) \in Seq(Download)
  BY <1>1, HeadTailProperties
<1>3. downloads' \in [Source -> Seq(Download)]
  BY <1>1, <1>2 DEF TakeUp
<1>4. work' \in [Worker -> Work]
  BY <1>2 DEF TakeUp, TypeInv, TypeOK, Work, WorkStep, Download
<1> QED
  BY <1>3, <1>4, ParseWrites DEF TakeUp, TypeInv, TypeOK, ImportTypeOK, FileSyncTypeOK, DbTypeOK

LEMMA WorkOnType ==
    ASSUME TypeInv, NEW w \in Worker, WorkOn(w)
    PROVE  TypeInv'
<1>1. TypeOK BY DEF TypeInv
<1>2. /\ DbTypeOK /\ inbox \in [Source -> Seq(Message)]
      /\ input \in [Source -> SUBSET File] /\ halfCleaned \subseteq File
      /\ archiveOf \in [File -> Archive \cup {NoFile}]
      /\ downloads \in [Source -> Seq(Download)]
      /\ ImportTypeOK
  BY <1>1 DEF TypeOK, ImportTypeOK, FileSyncTypeOK
<1>3. UNCHANGED dbVars => DbTypeOK' BY <1>2 DEF DbTypeOK
<1>4. Unused \in Work BY DEF Work
<1>5. "offloc" \in Source BY DEF Source
<1>6. CASE Ask(w)
  <2>1. work' \in [Worker -> Work] BY <1>1, <1>6, InHandIs DEF Ask, WorkStep
  <2> QED BY <1>2, <1>3, <1>6, <2>1, ParseWrites DEF Ask
<1>7. ASSUME NEW empty \in BOOLEAN, NEW at \in WorkStep, WorkAt(w, at),
             Toward(work[w].src, [file |-> work[w].file, empty |-> empty]),
             work' = [work EXCEPT ![w] = Unused],
             UNCHANGED <<dbVars, importIdle, syncVars, clustered>>
      PROVE  TypeInv'
  <2>1. [file |-> work[w].file, empty |-> empty] \in Message
    BY <1>1, <1>7, InHandIs DEF Message
  <2>2. inbox' \in [Source -> Seq(Message)]
    BY <1>1, <1>2, <1>7, <2>1, InHandIs, TowardType
  <2>3. work' \in [Worker -> Work] BY <1>1, <1>4, <1>7 DEF TypeOK
  <2> QED BY <1>2, <1>3, <1>7, <2>2, <2>3, ParseWrites
<1>8. CASE Skip(w) BY <1>7, <1>8 DEF Skip, WorkStep
<1>9. CASE Finish(w) BY <1>7, <1>9 DEF Finish, WorkStep
<1>10. CASE Create(w)
  <2>1. /\ work[w].src \in Source /\ work[w].file \in File
        /\ work[w].archive \in Archive \cup {NoFile} /\ work' \in [Worker -> Work]
    BY <1>1, <1>10, InHandIs DEF Create, WorkStep
  <2>2. DbTypeOK' BY <1>2, <1>10, <2>1, DbOperationsType DEF Create
  <2>3. archiveOf' \in [File -> Archive \cup {NoFile}] BY <1>2, <1>10, <2>1 DEF Create
  <2> QED BY <1>2, <1>10, <2>1, <2>2, <2>3, ParseWrites DEF Create
<1>11. CASE Clean(w)
  <2>1. work[w].file \in File /\ work' \in [Worker -> Work]
    BY <1>1, <1>11, InHandIs DEF Clean, WorkStep
  <2> QED BY <1>2, <1>3, <1>11, <2>1, ParseWrites DEF Clean
<1>12. CASE CleanNothing(w)
  <2>1. work[w].file \in File /\ work' \in [Worker -> Work]
    BY <1>1, <1>12, InHandIs, CrashOfType DEF CleanNothing, WorkStep
  <2> QED BY <1>2, <1>3, <1>12, <2>1, ParseWrites DEF CleanNothing
<1>13. CASE Replace(w)
  <2>1. work[w].file \in File /\ work' \in [Worker -> Work]
    BY <1>1, <1>13, InHandIs DEF Replace, WorkStep
  <2>2. input' \in [Source -> SUBSET File] BY <1>2, <1>5, <1>13, <2>1 DEF Replace
  <2> QED BY <1>2, <1>3, <1>13, <2>1, <2>2, ParseWrites DEF Replace
<1>14. CASE ReplaceNothing(w)
  <2>1. work' \in [Worker -> Work] BY <1>1, <1>14, CrashOfType DEF ReplaceNothing
  <2>2. input' \in [Source -> SUBSET File] BY <1>2, <1>5, <1>14 DEF ReplaceNothing
  <2> QED BY <1>2, <1>3, <1>14, <2>1, <2>2, ParseWrites DEF ReplaceNothing
<1>15. CASE StartParse(w)
  <2>1. work' \in [Worker -> Work] BY <1>1, <1>15, InHandIs DEF StartParse, WorkStep
  <2> QED BY <1>2, <1>3, <1>15, <2>1, ParseWrites DEF StartParse
<1>16. CASE Parse(w)
  <2>1. work' \in [Worker -> Work] BY <1>1, <1>16, InHandIs DEF Parse, WorkStep
  <2> QED BY <1>2, <1>3, <1>16, <2>1, ParseWrites DEF Parse
<1>17. CASE ParseNothing(w)
  <2>1. work' \in [Worker -> Work] BY <1>1, <1>17, CrashOfType DEF ParseNothing
  <2> QED BY <1>2, <1>3, <1>17, <2>1, ParseWrites DEF ParseNothing
<1> QED
  BY <1>6, <1>8, <1>9, <1>10, <1>11, <1>12, <1>13, <1>14, <1>15, <1>16, <1>17
     DEF WorkOn

-----------------------------------------------------------------------------
(* The types of the chain *)

\* No handler takes an announcement back.
LEMMA AnnouncedStays ==
    ASSUME ImportTypeOK, ImportStep \/ DbStep \/ Crash
    PROVE  importFinished' \in {importFinished, importFinished + 1}
BY DEF ImportStep, DbStep, Crash, Receive, Acquire, SendStage, StageAnswered, SendMerge,
       MergeAnswered, Send, Answered, Release, Complete, Check, Reset,
       PublishImportFinished, RunStage, RunMerge, ClearAfterMerge, Reply,
       ImportCrash, DbCrash

LEMMA IngestStepType ==
    ASSUME TypeInv, [Next]_vars
    PROVE  TypeInv'
<1>1. /\ ImportTypeOK /\ FileSyncTypeOK /\ Picked /\ work \in [Worker -> Work]
      /\ clustered \in 0 .. importFinished /\ importFinished \in Nat
  BY DEF TypeInv, TypeOK, ImportTypeOK
<1>2. ASSUME FileSyncTypeOK' /\ Picked', UNCHANGED <<inbox, importIdle, parseVars>>
      PROVE  TypeInv'
  <2>1. ImportTypeOK' BY <1>1, <1>2 DEF FileSyncTypeOK, ImportTypeOK
  <2> QED BY <1>1, <1>2, <2>1 DEF TypeInv, TypeOK
<1>3. ASSUME ImportTypeOK', UNCHANGED <<syncVars, parseVars>>,
             importFinished' \in {importFinished, importFinished + 1}
      PROVE  TypeInv'
  <2>1. FileSyncTypeOK' /\ Picked' BY <1>1, <1>3 DEF ImportTypeOK, FileSyncTypeOK, Picked
  <2>2. clustered' \in 0 .. importFinished' BY <1>1, <1>3
  <2> QED BY <1>1, <1>3, <2>1, <2>2 DEF TypeInv, TypeOK
<1>4. CASE WithSync(SyncNext(UnderWay))
  <2> HIDE DEF UnderWay
  <2> QED BY <1>1, <1>2, <1>4, SyncNextType DEF WithSync
<1>5. CASE WithSync(Tidy) BY <1>1, <1>2, <1>5, TidyType DEF WithSync
<1>6. ASSUME NEW s \in Source, WithSync(Arrive(s)) PROVE TypeInv'
  BY <1>1, <1>2, <1>6, ArriveType DEF WithSync
<1>7. CASE ParseStep BY <1>7, TakeUpType, WorkOnType DEF ParseStep
<1>8. CASE Cluster
  <2>1. clustered' \in 0 .. importFinished' /\ completions' \in Nat
    BY <1>1, <1>8 DEF Cluster, FileSyncTypeOK
  <2> QED
    BY <1>1, <1>8, <2>1
       DEF Cluster, TypeInv, TypeOK, ImportTypeOK, FileSyncTypeOK, DbTypeOK, Picked
<1>9. CASE WithImport(ImportStep)
  BY <1>1, <1>3, <1>9, ImportStepType, AnnouncedStays DEF WithImport
<1>10. CASE WithImport(DbStep)
  BY <1>1, <1>3, <1>10, DbStepType, AnnouncedStays DEF WithImport
<1>11. CASE Crash /\ UNCHANGED <<syncVars, parseVars>>
  BY <1>1, <1>3, <1>11, CrashType, AnnouncedStays
<1>12. CASE UNCHANGED vars
  BY <1>12 DEF vars, TypeInv, TypeOK, ImportTypeOK, FileSyncTypeOK, DbTypeOK, Picked
<1> QED BY <1>4, <1>5, <1>6, <1>7, <1>8, <1>9, <1>10, <1>11, <1>12 DEF Next

LEMMA IngestInitType == Init => TypeInv
<1> SUFFICES ASSUME Init PROVE TypeInv OBVIOUS
<1>1. ImportTypeOK /\ FileSyncTypeOK /\ Picked
  BY ImportInitType, FileSyncInitType DEF Init, ImportInit
<1>2. work \in [Worker -> Work] BY DEF Init, Work
<1>3. clustered \in 0 .. importFinished BY DEF Init, ImportInit
<1> QED BY <1>1, <1>2, <1>3 DEF TypeInv, TypeOK

LEMMA IngestTypeInvariant == Spec => []TypeInv
<1> QED BY IngestInitType, IngestStepType, PTL DEF Spec

\* Every variable of the chain keeps its type, and no more rounds of clustering
\* are answered than announced.
THEOREM IngestTypeCorrect == Spec => []TypeOK
<1>1. TypeInv => TypeOK BY DEF TypeInv
<1> QED BY <1>1, IngestTypeInvariant, PTL

\* In every cycle FileSync compares and hands over names of files, never of
\* archives, and never nothing.
THEOREM FileSyncTypeCorrect == Spec => [](FileSyncTypeOK /\ Picked)
<1>1. TypeInv => FileSyncTypeOK /\ Picked BY DEF TypeInv, TypeOK
<1> QED BY <1>1, IngestTypeInvariant, PTL

-----------------------------------------------------------------------------
(* Import within the chain *)

\* A step of another service.
Others ==
    \/ WithSync(SyncNext(UnderWay)) \/ WithSync(Tidy)
    \/ \E s \in Source : WithSync(Arrive(s))
    \/ ParseStep \/ Cluster \/ UNCHANGED vars

LEMMA NextIs ==
    [Next]_vars <=> \/ Others \/ WithImport(ImportStep) \/ WithImport(DbStep)
                    \/ Crash /\ UNCHANGED <<syncVars, parseVars>>
BY DEF Next, Others

\* FileSync empties staging; the others put messages into Import's queues.
LEMMA OthersLeave ==
    ASSUME TypeOK, Others
    PROVE  /\ UNCHANGED <<pc, job, sem, dbSem, rpcVars, picture, crashes>>
           /\ \A s \in Source : staging'[s] \in {staging[s], {}}
<1>1. UNCHANGED <<pc, job, sem, dbSem, rpcVars, crashes>>
  <2>1. CASE ParseStep
    BY <2>1 DEF ParseStep, WorkOn, TakeUp, Ask, Skip, Create, Clean, CleanNothing,
                Replace, ReplaceNothing, StartParse, Parse, ParseNothing, Finish
  <2>2. CASE Cluster BY <2>2 DEF Cluster
  <2>3. CASE UNCHANGED vars BY <2>3 DEF vars
  <2> QED BY <2>1, <2>2, <2>3 DEF Others, WithSync
<1>2. CASE \E s \in Source : \E at, next \in SyncStep : ClearStep(s, at, next)
  <2>1. PICK s \in Source :
           \/ staging' = [staging EXCEPT ![s] = {}] /\ UNCHANGED picture
           \/ UNCHANGED dbVars
    BY <1>2 DEF ClearStep, ClearStaging, Swallowed
  <2> QED BY <1>1, <2>1 DEF TypeOK, ImportTypeOK, DbTypeOK
<1>3. ASSUME UNCHANGED <<staging, picture>> PROVE
        UNCHANGED picture /\ \A s \in Source : staging'[s] \in {staging[s], {}}
  BY <1>3
<1>4. CASE WithSync(SyncNext(UnderWay))
  <2> HIDE DEF UnderWay
  <2>1. CASE ClearDelius \/ ClearOffloc
    BY <1>1, <1>2, <2>1 DEF ClearDelius, ClearOffloc, Source, SyncStep
  <2>2. CASE Process /\ ~(ClearDelius \/ ClearOffloc)
    <3>1. UNCHANGED <<staging, picture>>
      BY <2>2 DEF Process, ReadyDelius, ReadyOffloc, ClearInput, PickDelius,
           PickNothing, PickFile, PickAmbiguousArchive, PickProcessedArchive,
           PickArchive, GateDelius, GateOffloc, PublishDelius, PublishOffloc
    <3> QED BY <1>1, <1>3, <3>1
  <2>3. CASE Timer(UnderWay) \/ Completion \/ Restart
    BY <1>1, <1>3, <2>3 DEF Timer, Completion, Restart
  <2> QED BY <1>4, <2>1, <2>2, <2>3 DEF WithSync, SyncNext
<1>5. CASE WithSync(Tidy) \/ \E s \in Source : WithSync(Arrive(s))
  BY <1>1, <1>3, <1>5 DEF WithSync, Tidy, Arrive
<1>6. CASE ParseStep
  <2>1. UNCHANGED <<staging, picture>>
    BY <1>6 DEF ParseStep, WorkOn, TakeUp, Ask, Skip, Create, Clean, CleanNothing,
                Replace, ReplaceNothing, StartParse, Parse, ParseNothing, Finish,
                CreateProcessedFileEntry, Swallowed
  <2> QED BY <1>1, <1>3, <2>1
<1>7. CASE Cluster BY <1>1, <1>3, <1>7 DEF Cluster
<1>8. CASE UNCHANGED vars BY <1>1, <1>3, <1>8 DEF vars
<1> QED BY <1>4, <1>5, <1>6, <1>7, <1>8 DEF Others

LEMMA IngestStepExclusive ==
    ASSUME TypeOK, Exclusive, [Next]_vars
    PROVE  Exclusive'
<1>1. CASE Others BY <1>1, OthersLeave, SemaphoresAlone
<1> QED
  BY <1>1, NextIs, ImportStepExclusive, DbStepExclusive, CrashExclusive
     DEF WithImport, TypeOK

\* However cycles overlap, whatever fails and whoever is restarted, the handlers
\* of a source take turns between staging and the end of the merge, and so do all
\* requests to the databases: a restart of Import forgets the semaphores together
\* with their holders.
THEOREM IngestSemaphoresExclude == Spec => []Exclusive
<1>1. Init => TypeInv /\ Exclusive BY IngestInitType, InitExclusive DEF Init
<1>2. TypeInv /\ Exclusive /\ [Next]_vars => TypeInv' /\ Exclusive'
  BY IngestStepType, IngestStepExclusive DEF TypeInv
<1> QED BY <1>1, <1>2, PTL DEF Spec

\* Until a process stops, the queues keep what Import and DbInteractions rely on.
InOrder == crashes = 0 => Correlated
StagedInOrder == crashes = 0 => Correlated /\ StagingInOrder

\* A step after which no process has stopped is not a crash.
LEMMA NoCrashYet ==
    ASSUME TypeOK, [Next]_vars, crashes' = 0
    PROVE  /\ crashes = 0
           /\ Others \/ WithImport(ImportStep) \/ WithImport(DbStep)
<1>1. ~Crash BY DEF Crash, ImportCrash, DbCrash, TypeOK, ImportTypeOK
<1>2. Others => crashes' = crashes BY OthersLeave
<1> QED BY <1>1, <1>2, NextIs DEF WithImport

LEMMA IngestStepCorrelated ==
    ASSUME TypeOK, Exclusive, InOrder, [Next]_vars
    PROVE  InOrder'
<1> SUFFICES ASSUME crashes' = 0 PROVE Correlated' BY DEF InOrder
<1>1. Correlated /\ ImportTypeOK BY NoCrashYet DEF InOrder, TypeOK
<1>2. CASE Others BY <1>1, <1>2, OthersLeave, AnswersAlone
<1> QED
  BY <1>1, <1>2, NoCrashYet, ImportStepCorrelated, DbStepCorrelated DEF WithImport

\* Until a process stops, an answer on a response queue belongs to the handler that
\* waits for it, however cycles overlap.
THEOREM IngestAnswersCorrelate == Spec => [](crashes = 0 => Correlated)
<1>1. Init => TypeInv /\ Exclusive /\ InOrder
  BY IngestInitType, InitExclusive, InitCorrelated DEF Init, InOrder
<1>2. TypeInv /\ Exclusive /\ InOrder /\ [Next]_vars => TypeInv' /\ Exclusive' /\ InOrder'
  BY IngestStepType, IngestStepExclusive, IngestStepCorrelated DEF TypeInv
<1>3. InOrder => (crashes = 0 => Correlated) BY DEF InOrder
<1> QED BY <1>1, <1>2, <1>3, PTL DEF Spec

LEMMA IngestStepStaging ==
    ASSUME NoClearFault, TypeOK, Exclusive, StagedInOrder, [Next]_vars
    PROVE  StagedInOrder'
<1> SUFFICES ASSUME crashes' = 0 PROVE Correlated' /\ StagingInOrder'
  BY DEF StagedInOrder
<1>1. Correlated /\ StagingInOrder /\ ImportTypeOK BY NoCrashYet DEF StagedInOrder, TypeOK
<1>2. IInv BY <1>1 DEF IInv, StagingInOrder
<1>3. Correlated' BY <1>1, IngestStepCorrelated DEF InOrder
<1>4. CASE Others BY <1>1, <1>3, <1>4, OthersLeave, StagingAlone
<1>5. CASE WithImport(ImportStep) \/ WithImport(DbStep)
  BY <1>2, <1>3, <1>5, ImportStepStaging, DbStepStaging DEF WithImport
<1> QED BY <1>4, <1>5, NoCrashYet

\* Until a process stops, and unless clearing fails, no merge of the chain mixes
\* the data of two files, although FileSync clears staging under Import's hands
\* when a cycle starts in the middle of a batch.
THEOREM IngestMergesNeverMix ==
    NoClearFault => (Spec => [](crashes = 0 => StagedByHolder /\ MergesDontMix))
<1> SUFFICES ASSUME NoClearFault
             PROVE  Spec => [](crashes = 0 => StagedByHolder /\ MergesDontMix)
  OBVIOUS
<1>1. Init => TypeInv /\ Exclusive /\ StagedInOrder
  BY IngestInitType, InitExclusive, InitCorrelated, InitStaging DEF Init, StagedInOrder
<1>2. TypeInv /\ Exclusive /\ StagedInOrder /\ [Next]_vars
         => TypeInv' /\ Exclusive' /\ StagedInOrder'
  BY IngestStepType, IngestStepExclusive, IngestStepStaging DEF TypeInv
<1>3. StagedInOrder => (crashes = 0 => StagedByHolder /\ MergesDontMix)
  BY DEF StagedInOrder, StagingInOrder
<1> QED BY <1>1, <1>2, <1>3, PTL DEF Spec
=============================================================================
