# Models of the data integration system

TLA+ modules that model the ingest pipeline of this repository and the page on which
its clusters are edited by hand, the TLC runs that check them on small instances, and proofs,
checked by TLAPS, of what matters most about them. Paths below are relative to `src/` of the repository unless they start
with `src/` themselves, so that `FileSync/FileSyncBackgroundService.cs` is
`src/FileSync/FileSyncBackgroundService.cs`.

`PROJECT.json` lists components, runs, hazards, findings and theorems, and maps each
definition to the lines it stands for.

To parse, check or prove:

    tlasany Import.tla
    tlc -workers 2 -config ImportShared.cfg MCImportService.tla
    tlapm ImportServiceProofs.tla

Contents: 1 the system, 2 the modules, 3 the runs, 4 fairness, 5 the proofs,
6 where the code does not do what is said of it, 7 what is only model-checked,
8 what is not modelled, 9 plan.

## 1. The system

Two source systems, Delius (probation) and Offloc (prisons, called Nomis where
records are matched), deliver a file a day each. A chain of services, connected by
RabbitMQ, brings one file of each source into a *running picture* database, finds out
which records of the two belong to one person, and keeps *clusters* of such records.

    file store -> FileSync -> Delius.Parser ------------------> Import -> Blocking
                     ^    `-> Offloc.Cleaner -> Offloc.Parser -> |  ^       |
                     |                                           v  |       v
                     |                                 DbInteractions   Matching.Engine
                     |                                                      |
                     `---------- ClusteringPostProcessingFinished ----------'

    operators' pages (Visualiser) <-> API <-> ClusterDb <- Matching.Engine, Meow

Each service is a process with handlers for a few message types. A handler is an
`async` lambda passed where an `Action` is expected, so it is `async void`: handlers
of one process interleave at every `await`, and an exception that leaves one ends the
process. Queues are consumed with `autoAck`, so a message that is delivered is gone,
whatever becomes of its handler. Database work goes through `DbInteractions` by
request and response messages; a response carries no correlation id, and one
process-wide semaphore is what keeps answers apart.

Beside the chain, operators look at clusters and correct them. The Visualiser's page holds
a graph in memory: an operator adds clusters to it, moves records from one to another,
sets hard links, draws edges, and saves all of it at once. The API reads the clustering
database when a cluster is added and overwrites the clusters on the page when they are
saved. Nothing tells a page that a round, Meow or another operator has changed them since.

| component | state it keeps | operations |
|---|---|---|
| FileSync | the try-lock, the position in `ProcessAsync`, the chosen files | triggers by timer, start-up and completion; clear, choose, check age, hand over |
| Delius.Parser, Offloc.Cleaner, Offloc.Parser | the files in hand, files on disk | skip what has a row, write the row, clean, parse, report |
| Import | two source semaphores, two completed flags, two empty flags | stage, merge, pair the sources, announce |
| DbInteractions | the seven databases (rows of ProcessedFiles, staging, running picture) | one operation per request message |
| Messaging (library) | queues, `dbSemaphore` | publish, subscribe, request and wait |
| Cleanup | none of its own: deletes files | tidy half-cleaned files, delete staged input |
| Blocking | MatchingDb `Candidates` | replace the candidates |
| Matching.Engine | `MatchingQueue.Results` in memory, `Matches`, ClusterDb | compare, score, Phase1, compare and score what is outstanding, Phase2 |
| ClusterDb | output edges, clusters, membership, primary records | Steps 1 to 7 of the two phases |
| Meow | none of its own | hard-link the primary record of a created participant |
| Visualiser | nodes and edges shown, list of changes, pending request, states of the forms | find a cluster or a new one, reassign, hard-link, add, delete and drag edges, save |
| API | none of its own: ClusterDb | details of a cluster, generate one, save a network |
| Matching.Core | none | comparators, Bayes scorer: pure |
| Logging, seeder, Aspire | – | output, test data, orchestration |

What is hard about it, and what should hold:

* **Import.** Handlers of both sources interleave; a request waits for an answer that
  nobody promised; a failed staging or clearing is swallowed and answered as done; the
  flags that pair the sources are shared. It is right if a source's semaphore really
  excludes, each answer reaches the handler that asked, no merge mixes two files,
  semaphores come back, and each batch is announced once and only when merged.
* **FileSync.** Three triggers race for a try-lock, readiness is asked long before a
  file is handed over, a restart may come between the two hand-over messages. It is
  right if no file is handed over that has a row, is waiting already or is older than allowed, each cycle ends, and
  the store is worked off.
* **The chain.** A batch is two files, and nothing but flags and row states says so. It
  is right if it looks like one batch at a time from outside.
* **Parsers and Cleanup.** Files are deleted under them by FileSync's pre-kickoff
  clearing and by the tidy-up; a crash takes every handler of the process with it.
* **Blocking and Matching.Engine.** Stages hand data over in memory and in tables
  that are written without a transaction; a cut-off leaves parts. A round is right if
  it ends in a graph that is made of this round's scores and in connected clusters.
* **ClusterDb.** Set-based SQL over labelled edges, with loops, NULLs and two ways of
  numbering new clusters. It is right if permanent ids stay with their records, hard
  links never move, strangers never share a new id, and each primary record is a
  member of its cluster.
* **Visualiser and API.** The page edits a copy, in any order of edits, with answers that
  arrive when the form that asked is closed; the API saves networks that may be old, while a
  round is between two procedures, or after the page gave up waiting. It is right if what is
  shown and listed is what will be saved, if clusters and records never get lost on the way,
  and if a save agrees with what else is kept about clusters.

The hazards behind these sentences are listed with their lines in `PROJECT.json`.

## 2. The modules

    RunningPicture -+- Import -+- ImportService --- MCImportService
                    |          |
                    |          +- Ingest ---------- MCIngest     (implements BatchLifecycle)
                    |          |
                    +- FileSync+- SyncCycle ------- MCSyncCycle

    ClusterTables -+- ClusterGraph (SubGraphSets) -+- Matching --- MCMatching
                   `- ClusterMembership -----------'

    NetworkData -+- NetworkPage --+- Visualiser --- MCVisualiser
                 `- ClusterStore -'

    ImportProofs -+- ImportServiceProofs (about ImportService)
                  `- IngestProofs --- BatchProofs (about Ingest)
    GraphProofs --- MatchingProofs --- RoundProofs (about Matching)
    VisualiserProofs (about Visualiser)

**RunningPicture**: the two ProcessedFiles tables (`table`), what staging holds
(`staging`) and what the last merge read (`picture`), and the operations of
`DbInteractionService` on them. The data of a file is the file's name, which is
enough to tell whether data is missing or mixed. `Faults` names the operations that
may fail; `Swallowed` is the `catch` that logs and returns.

**Import**: `pc[h]` is where handler `h` of `ImportBackgroundService` is. From one await
to the next is one action: `Acquire`, `SendStage`, `StageAnswered`, `SendMerge`,
`MergeAnswered`, `Release`, `Complete`, `Check`, `Reset`, `PublishImportFinished`.
`requests` and `responses` are the queues of `RabbitService.SendDbRequestAndWaitForResponse`,
`sem` and `dbSem` hold the name of the handler that took them, which is how
exclusion is stated. `RunStage`, `RunMerge`, `ClearAfterMerge` and `Reply` are the
handlers of `DbBackgroundService`. The synchronous stretch from `Release` to
`PublishImportFinished` has one step per access to a shared flag; with
`Preemption` FALSE it is not left before its end, with TRUE another handler's steps
come in between, as two thread-pool threads allow. `ImportCrash` and `DbCrash` lose
memory and keep queues and tables. `IInv` is the inductive invariant of all of it, checked
as the conjunction of five invariants by run ImportShared.

**ImportService**: Import under the most general environment: parsers announce any
file at any time, any row appears, FileSync clears staging at any time.

**FileSync**: `sync` is the activation of `ProcessAsync`: where it is, what it has read,
what it has picked. Every await is an action boundary. `Timer`, `Completion` and
`Launch` are the triggers, with the try-lock as `sync.at = "idle"`. Archives are unpacked and associated with
their file (`PickArchive`, `PickProcessedArchive`, `PickAmbiguousArchive`).

**SyncCycle**: FileSync in front of the simplest pipeline that honours its protocol.

**Ingest**: Import and FileSync together, with the parsing services between them:
`work[w]` is a file in hand and how far it is. `CrashOf` is an exception in an
`async void` handler. Blocking, matching and clustering are one step here, `Cluster`:
an announcement is answered by a completion.

**BatchLifecycle**: the abstract specification of the chain. Files go from nothing to
Processing, Imported and Merged; a merge shows the data of its own file; a batch, one
file of each source, is announced once after both merges; the next begins after that.
Ingest implements it with `status <- table, shown <- picture,
announced <- importFinished` (`KeepsBatches`), liveness included.

**ClusterTables, ClusterGraph, SubGraphSets, ClusterMembership**: the stored
procedures of ClusterDb. A table of edges is a function from edges to records with a
probability and a label, a node is a number in the order of (NodeName, NodeKey),
a probability an integer out of `Certain`. `Likelihood` is what the scorer gives, never 0 nor
`Certain`; `Probability` is what tables hold, where edges saved by operators have `Certain`. An
edge in `output` or `pass1` may run either way (`Directed`): a candidate runs from the Nomis
record to the Delius one (`Fresh`), what the rounds write runs the other way, and what operators
save as they drew it. Where a pair has two rows in `pass1` the table has the more probable
(`Likelier`), as Step2 takes their maximum. One action is one procedure
(`GetPass1Edges`, `CompleteEdges`, `GetPass2Edges`, `Resolve`, `MaintainNodes`), or, where
its statements can be told apart by a hard link or a cut-off in between, one statement:
`Seed` and `Prune` of Step2, `Link`, `Adopt`, `Found`, `Settle` and `Review` of Step6.
`Propagate` is what the loop that spreads the smallest label comes to: every edge gets
the smallest label of its component, components being told from each other by the sets of
nodes that no edge leaves (`Closed`, `Parts`, `Components`). Statements that fail and leave the rest
of the procedure to go on are in it too: the INSERT of Step2 on a pair that is there both ways
round (`Doubled`, `SeedFails`), and in `Resolve` those of Step4, on the logarithm of 0
(`NoLogarithm`) and on the NULL that is the maximum of an empty output. `SubGraphSet` is the reference
table of subgraph partitions as `PopulateReferenceTables.sql` fills it.

**Matching**: rounds from an announced import to the clusters. `at` is the stage, `data`
what the running pictures hold, `candidates`, `results`, `matches` the tables and the
in-memory queue. `CrashBetween` loses the queue, `CutOff` a message together with part
of a bulk insert. `PrimaryRecordLinked` is Meow's handler, at any moment. `SaveNetwork` is
`SaveNetworkAsync` between two rounds: rows, primary records and edges of the clusters that it
replaces, with edges of probability 1 in either direction; `Accepts` is on what conditions.

**NetworkData**: what page and API send each other. A UPCI stands for the cluster's id
too, since `reference.UPCI2` pairs them off.

**NetworkPage**: `network.js`, for each operator `o`. `nodes[o]` and `edges[o]` are the two
datasets given to vis, the edges a bag because vis gives each an id of its own. `look` is what
`saturateNode` derives from the data and stores beside it. `AddNode`, `SubmitFind`,
`DismissFind`, `ClusterFound` and `FindRefused` are the find modal, which can be dismissed
while its answer is awaited; `SubmitEdit` is the edit form with `reassignNode`
(`ReassignedNodes`, `ReassignedEdges`), `AddEdge` the edge drawn by hand; `DeleteEdge` and
`DragEdge` are what `network.js` leaves to vis; `GetNetwork` is what is sent to be saved. `loaded`
and `pruned` are history: how a record stood when it was added, whether edges were taken away.

**ClusterStore**: the tables the API reads and writes, and who else does. `Placements`,
`LinksOf`, `Generate` and `Save` are the repositories' methods; `Accepts` collects every
condition on which `SaveNetworkAsync` throws (missing and double keys of its look-ups, an
average over nothing), so a save is refused as a whole or done as a whole. `Resolve`
(Steps 1 to 4), `Adopt` (Step6) and `MaintainAttributes` (Step7) are a round with the moments in
between, `HardLink` is Meow.

**Visualiser**: pages, API and database together. A find is answered in one step; a save is
sent and done in one step, or sent, given up by the page (`SaveTimesOut`) and done at some
later time (`SaveLate`), whatever has happened to its clusters. `AnswerUnauthorized` is a
session that expired: the page is left and with it all that was edited.

Some definitions are marked "Mutated" in their comment: forms that a plausible mistake
would give another definition. No next-state relation uses them; each property is
checked to fail when such a form replaces the right one, so that a property which
nothing in the code could break does not go unnoticed.

## 3. The runs

Each passing run has a question of its own. `CHECK_DEADLOCK FALSE` stands in those of
the chain and of the rounds because the system really rests: no more files, no more
ticks, no more rounds. An operator's page never is at rest, so the Visualiser's runs check for
deadlock.

| run | what it asks |
|---|---|
| ImportShared | Do the semaphores exclude, do answers reach the right handler, does no merge mix files, when anything may be announced, recorded and cleared at any time, staging fails at will and handlers overtake each other between awaits? |
| SyncTimer | With ticks, archives, half-cleaned files, clearings that fail and a restart anywhere: does every cycle end, is the store worked off? |
| IngestBatches | Without faults, cycles at start-up and on completion: does the whole chain implement BatchLifecycle, and is every file with a row merged? |
| IngestTimer | A tick in the middle of a batch; files vanish under the parsers, processes die, handlers overtake each other in `CheckStates`: are the semaphores still given back? |
| IngestCrash | Import or DbInteractions stops at any point, merges fail, rows cannot be written, both files have one primary key, older files are refused: is a row marked as merged only by a merge that saw the data of its file, is any file handed over that has a row or is on its way, or out of order? |
| MatchingRounds | Two rounds over data that changes, graphs of up to five records, a hard link at any moment, a save by an operator between the rounds, one crash or failure anywhere: what graph, what clusters, what primary records? |
| VisualiserEdits | An operator finds, edits and saves at will while a round, Meow, expired sessions and saves that outlive their request come in between: does the page stay true to its data, and do the tables keep every record? |
| SyncOlder, IngestSilent, MatchingSubgraphs, MatchingNewIds, VisualiserRound | Violated: see section 6. |

### Properties

*Import.* `Exclusive`: a semaphore's holder is exactly the handler in the critical section.
`Correlated`: what is on a request or response queue is there for the one handler that
waits. `StagedByHolder`: staging holds nothing but the file of the handler that has the
source's semaphore, and nothing when nobody has it. `MergesDontMix`: no merge reads two files.

*FileSync.* `NeverHandedOverTwice`: a file handed over has no row and is not waiting in a
queue. `NeverOlder`: with older files refused, a file handed over is dated after every
file with a row. `CycleEnds`: the lock comes back. `Drains`: again and again one of the
sources has nothing new.

*The chain.* `KeepsBatches`: the refinement. `HandedOverIsMerged`: a row that exists becomes
Merged. `SemaphoresReturn`: a taken semaphore is given back. `MergeSeesItsFile`: a row turns Merged only while staging
holds just that file.

*Rounds.* `ClustersAreComponents`: the labels of the output are its connected components.
`RescoredEdgeWins`: this round's score replaces the one the output kept, unless operators have
saved a higher one.
`CompleteOrCut`: without failures a cluster has all its edges, as far as all its
records were among the candidates, or has been cut by set 9 of the reference table. `OldMembersAgree`: records of one temporary
cluster end in one permanent cluster. `PrimaryBelongs`: a primary record is a member of
its cluster. `HardLinksStay`: a hard-linked record never moves, but by a save.
`NewClustersAreSeparate`: two new records share a new id only if they share a
temporary cluster. `PruningEnds`: the pruning loop of Step2 ends.

*The page.* `TracksClusters`: a cluster that was added stays on the page, whatever is
reassigned, as one empty node or with its records, never as both. `LooksCurrent`: what is
seen of a node is what would be saved. `ChangesAreListed`: whatever has become of a record since
it was added is in the list that the operator confirms. `ReassignedAreLinked`: a reassigned
record has exactly one edge with everybody in its cluster, until edges are taken away by hand.

*The store.* `KeepsRecords`: however old a saved network, every record has one row and one
cluster. `SearchAgrees`: search finds every record under its cluster and no other, but between
Step6 and Step7.

### Bounds, and why they are enough

* *Files: 1, 2 or 3.* Two files of a source are what it takes to mix, overtake or
  repeat; the third of SyncOlder gives "older than the last and newer than the one before"
  its meaning. IngestTimer holds one file because its question is about the handlers of
  one batch: both sources' handlers and a second hand-over of the same file are there.
* *Handlers, workers: 2.* Two handlers of one source, or one of each, are every pairing
  that semaphores and flags distinguish; exclusion of any number is proved (section 5).
* *`MaxInbox`, `MaxRows`, `MaxAnnounced` 1, `Recorded` one source in ImportShared.* Messages
  go on coming until a batch has been announced; the bounds keep how many wait at once small, and
  how many rows come and go beside them: a row only tells a file apart that may be merged. The theorems
  have no bound: their constants are any natural numbers.
* *One tick while a batch is under way* (ticks at rest are not counted), *one restart,
  one crash*: one puts a second cycle into a first at every possible point.
* *One archive*, holding the second file: it can be ahead of or behind its content. With
  two archives of one file in the store `CycleEnds` is violated, see section 6.
* *`MaxCrashes`, `MaxFaults` 1.* A fault at any point, and everything that follows.
* *`MaxClusterings` 2 in IngestCrash*, where rows that cannot be written make batches without
  end: the second completion starts a cycle that meets what the first left. In the other
  runs it is 4, more than there are announcements.
* *`Preemption`* is TRUE in ImportShared and IngestTimer. In IngestBatches and IngestCrash it
  is FALSE, since both announce a batch twice otherwise (section 6).
* *Eight records, `MaxNodeCount` 5, `Certain` 4.* Five is the code's value. A path of six records is
  the smallest graph that has to be pruned before a reference set fits; the seventh and eighth are
  the isolated pair without which Step4 numbers no cluster at all. The probabilities
  are: no link, a link that ties, a link that wins, and what operators save.
* *Two rounds over three worlds.* The worlds are chosen, not all subsets: all of a path
  links; only a part is scored again and a record changes sides; set 9 cuts the path, and the
  pair is improbable. Any world may follow any other, so that a round meets clusters made from other data.
* *One save, one hard link by Meow.* A save comes before a round, as no round would meet another. It
  moves a record and hard-links it, has an edge of probability 1 in a graph that is resolved
  again, so that Step4 fails on its logarithm, and an edge both ways round: rescored it outbids
  the new score, or, if a failed blocking has left no candidates, makes Step2 fail.
* *VisualiserEdits: one operator, three records, two clusters, two edits, one event, one
  late save.* Three records of one cluster and an empty one are the smallest instance in
  which a record is moved to an empty cluster, a second after it (which has to be linked to
  the first), and one stays; moved back, it empties a cluster again. A late save is an old network
  that meets whatever came after, which is all that another operator's page is to the
  database, so one operator is enough; the theorems hold for any number. One event is a
  round begun or a hard link made; a round's later steps are not counted.
* *VisualiserRound: four records in two clusters*, the smallest in which clusters can be
  taken for one.
* *Symmetry* of handlers, files or workers only in runs without liveness properties; of the
  records `r2` and `r3` in VisualiserEdits, whose start and outcomes treat them alike.

## 4. Fairness

No service is obliged to anything but going on. `SyncCycle!Fairness` and
`Ingest!Fairness` say: an await of `ProcessAsync` returns, a consumer takes what is in its
queue, handlers are given threads, the timer goes off, a service answers a message it
has taken up, clustering ends. They are weak fairness of whole services, not of
each step, except that each of Import's handlers is free to take a message (a consumer
dispatches to as many handlers as there are messages). Nobody has to deliver a file,
to restart or to fail. In code: `AsyncEventingBasicConsumer` with auto-acknowledge and the
thread pool, `System.Threading.Timer`. Nothing is assumed about a request being answered: that
follows from DbInteractions going on, and the runs with crashes check no liveness.

`MatchingRounds` assumes WF of `PruneStep` only: SQL Server goes on with a procedure it runs.
The Visualiser's specification assumes none: nobody has to finish an edit, and a late save
may never be done.

## 5. The proofs

No theorem bounds files, handlers, workers, records, rounds, crashes or restarts: those
constants are any values that the ASSUMEs beside them allow, which TLC evaluates in each
run. A theorem that needs more says so in its statement, by one of the names below.

### Import

**ImportProofs** has the lemmas: what each action of `Import` keeps. **ImportServiceProofs**
proves about `ImportService`, Import under any environment:

* `TypeCorrect` (`ImportTypeOK`), `SemaphoresExclude` (`Exclusive`), `AnswersCorrelate`
  (`Correlated`): whatever fails;
* `Invariant`: `IInv` under `NoClearFault`, and from it `StagingBelongsToHolder`
  (`StagedByHolder`) and `MergesNeverMix` (`MergesDontMix`).

The argument goes up step by step. Exclusion is inductive with the types: a handler takes
a semaphore only if it is free. That an answer belongs to the one who waits needs exclusion
by `dbSemaphore`: only its holder may have a request or a response outstanding, so the one
there is must be its own. That staging holds only the holder's file needs both: exclusion
of the source's handlers, and that a handler goes on with "an" answer only when its own
request was worked off. That a merge does not mix needs in addition that staging is empty
when a semaphore is free, thus that a merge is answered after the clearing.

`NoClearFault == "clear" \notin Faults` is a real limit, not a convenience: if a clearing
fails, which DbInteractions swallows, the next file is staged on top of the last and the
theorem is false.

### The chain

**IngestProofs** proves about `Ingest`, with every switch, trigger, crash and fault:

* `IngestTypeCorrect` (`TypeOK`) and `FileSyncTypeCorrect` (`FileSyncTypeOK`). The latter is
  not inductive alone: that what is published is a file needs that FileSync only gets there
  with a file picked for each source (`Picked`);
* `IngestSemaphoresExclude` (`Exclusive`), across crashes: a restart of Import forgets the
  semaphores together with their holders;
* `IngestAnswersCorrelate` (`Correlated`) and `IngestMergesNeverMix` (`StagedByHolder`,
  `MergesDontMix`, under `NoClearFault`), until the first crash. After one they are false:
  a request outlives its handler, and its answer is there for whoever asks next. That FileSync
  clears staging at any time does no harm to them, as it only takes data away.

**BatchProofs** proves about `Ingest` what holds while cycles do not overlap,
`OneAtATime == ~ProcessOnTimer /\ MaxRestarts = 0 /\ ~Preemption`: cycles start at start-up
and on completion, FileSync is not restarted in the middle of one, and the handlers of Import
do not overtake each other in `CheckStates`. Each of the three can start a second cycle in the
middle of a batch: a tick or a restarted FileSync before the first row is written, when the check
for unmerged rows sees nothing, and two handlers that announce one batch twice (section 6).

* `BatchesTakeTurns`: `OneTurn` and `OneRunning`;
* `FilesAreHandedOverOnce` (`NeverHandedOverTwice`): whatever crashes, fails or shares a
  primary key;
* `MergesSeeTheirFile` (`MergeSeesItsFile`, `MergesDontMix`), across crashes, under
  `OnlyMergesFail`: creating rows and merging may fail, staging and clearing may not;
* `NoOlderFiles` (`NeverOlder`), across crashes and faults, without archives: with them it is
  false, as SyncOlder shows;
* `BatchesAreKept` (`Spec => Batch!Spec`, the safety part of `KeepsBatches`), across crashes of
  Import and DbInteractions, under `Faults = {}` and `KeysDiffer`: the chain implements
  BatchLifecycle. Neither hypothesis can be dropped: with any of creation, staging, merge and
  clearing in `Faults`, or a primary key that two files share, TLC finds a batch that breaks
  the promise. The run checks it without crashes, as with them nothing need come about.

These are the hypotheses of the runs that check the same properties, less their bounds.

The core is `OneTurn`. No variable of the code says that one batch is under way at a time; it
is spread over a dozen places. `Turn(s, kind, x)` lists everything that may lead to a file of
source s being handed over, or is about to bring one to its end: the activation of
`ProcessAsync`, a message in a queue, a file at a parser, a handler, a request or the answer to
it, a flag of `CheckStates`, an announcement, a completion. `OneTurn` says that of all
these there is at most one at a time. It is inductive because each step keeps the turns of
a source (`Keeps`) or ends one as it begins another (`Passes`); there is one lemma for each
group of steps. A crash only takes turns away. Where two of the list come together in one
(the handler and its request are one turn, both flags become one announcement) the invariant
needs exclusion, and that whoever resets the flags found both set (`ResetSeesBoth`).

The theorems after it say what is true during which turn: that no row is written while
FileSync looks for a file (`PicksAreNew`); which turns find staging empty, and which find
in it the one file to be merged (`OneFileStaged`, with `AnswersFit` for a response that says
nothing of its request); that the file in hand is the newest (`NewestInv`). For the
refinement two more: a file that was picked is never passed over as known or empty (`NoneSkipped`),
and what the rows of a source tell during each kind of turn (`RowsTell`). Between two batches
there are as many rows as batches were announced, and all are Merged; within one there is one
more, and it is Processing, Imported or Merged by how far the turn is. With that
each step of Ingest is one of BatchLifecycle or changes none of its variables.

### Rounds

**GraphProofs** has lemmas about `ClusterGraph`: that `Components` of a finite set of edges is
a partition of it into classes that share no node, and that `Propagate` gives each class one
label of its own (`Labelled`). The connected parts are the smallest sets of nodes that no edge
leaves, so that none of this needs induction. **MatchingProofs** proves about `Matching`, for
any finite set of records, any data, any networks that operators save, any number of rounds,
crashes, hard links and saves:

* `MatchingInvariant`: `Spec => []MInv`, and from it
* `MembershipTypeCorrect`: rows, clusters and primary records keep their types;
* `HardLinksNeverMove`: `HardLinksStay`, including rounds cut off anywhere and a hard link
  made between two statements of Step6;
* `NumberingsNeverMeet`: `NewClustersAreSeparate`;
* `PrimariesBelong`: `PrimaryBelongs`.

`MInv` is needed because none of these is inductive. That `Adopt` moves a record to a
cluster that exists needs each temporary cluster to have a link node among its own
nodes, enrolled in the membership table, and this to stand while hard links are made
(`LinksStand`). That the numbers of `Found` and `Settle` do not meet needs all ids at `Found`
to be at most the seed, and all at `Settle` to be at most the maximum it reads. That a
primary belongs needs every record to have a cluster by then (`AllSettled`). And that any
of it is about nodes at all needs the tables to be tables of edges (`EdgeTables`), which
goes through every action of `ClusterGraph`. Numbers given by rank (`ROW_NUMBER`) are
dealt with by `RankIs`, by which ranks of different members of a finite set differ, and
`LargestIs`, which rests on well-foundedness of the naturals.

**RoundProofs** proves what is in the tables besides:

* `RoundInvariant`: `Spec => []RoundInv`, and from it
* `MatchingTypeCorrect`: `TypeOK`, the tables and labels of the graph included, with probabilities
  from 1 to `Certain` and edges of either direction where operators may have left them;
* `TemporaryClustersAreComponents`: `ClustersAreComponents`. It needs that, from `Seed` to
  `Resolve`, pairs already in the output touch no edge that is still being pruned (`Apart`), and
  that the numbers of what `Resolve` adds are above all that are there;
* `RoundScoresCount`: `RescoredEdgeWins`, from what becomes of a score at each stage
  (`ScoresStand`). The exception it makes for saves is needed: what operators have saved from a
  Nomis record to a Delius one, as a reassignment may, is not recognised as rescored (section 6);
* `MembersAgree`: `OldMembersAgree` under `IdsBelowNull`, that is as long as cluster ids are below
  99999999, the number that Step6 sorts records without a cluster by. The model's ids are any
  naturals; with a larger one a new record would come before an old one and become the link
  node. It rests on link nodes being chosen by lowest id: one without a cluster stands for
  records without one only (`LinksRank`);
* `ClustersAreCompleteOrCut`: `CompleteOrCut`, for each size of graph that the code's reference
  table has, the code's own 5 among them. That clusters are complete is false there, which is the finding of
  MatchingSubgraphs; this theorem says that set 9 is all that is wrong: no other
  set, no tie, no pruning, no second score and nothing that operators save leaves an incomplete
  cluster. A cluster cut by set 9 has of five records exactly the edges that the set keeps, as far
  as its records were candidates.

The invariant behind it, `SubgraphInv`, follows the edges that a cluster misses: they
are asked for under its number by `CompleteEdges`, compared and scored if both records are
candidates, put into `assignment`, and by then clusters are disjoint (`ClustersPlaced`). A
reference set other than set 9 keeps exactly the edges between nodes of one class of a partition
(`SetIs`), and ordering by rank does not change that (`RankOrder`).

### Visualiser

**VisualiserProofs** proves about `Visualiser`, for any operators, finite set of records, UPCIs,
hash, outcomes of rounds, and any number of edits, rounds, hard links and late saves:

* `VisualiserTypeCorrect`; `AddedClustersStay` (`TracksClusters`); `NodesLookCurrent`
  (`LooksCurrent`); `SaveListsChanges` (`ChangesAreListed`); `ReassignedRecordsAreLinked`
  (`ReassignedAreLinked`); `SavesKeepRecords` (`KeepsRecords`);
  `SearchAgreesBetweenRounds` (`SearchAgrees`).

The invariant is `Pages`, `Store` and, for each late save, `Network`. A page is looked at by its
values (`Page`), so that what an edit keeps is a lemma about a graph (`EditedNodes` and those
after it), and a step of the specification only says which graph is next. `Graph` is needed because
`reassignNode` decides by the number of nodes in a group whether a cluster gets empty, which
is right only if an empty cluster is exactly one node. `Asking` is needed because an answer may
arrive after the clusters on the page have changed: that the cluster asked for is still not
shown follows from edits neither adding nor losing a cluster. That a save keeps every record,
however old, is a counting argument: `Accepts` compares the number of rows with the number
of records and looks each record up, and a finite set that contains as many as another and
lies in it is that other; hence the rows replaced are those of the same records. `SearchAgrees`
needs that argument as well, and the phase of the round.

## 6. Where the code does not do what is said of it

* **SyncOlder / `NeverOlder`.** `SyncOptions.cs:51` says that an older file is refused.
  Associating a file with its archive updates its row and with it the row's ValidFrom; the row
  changed last is what the age check takes for the last processed file. After an
  archive of an old file was met, files older than the newest pass.
* **IngestSilent / `MergedIsAnnounced`.** `deliusFileEmpty` and `offlocFileEmpty` are never
  reset. After each source has been skipped once, Import announces nothing more, though
  it goes on merging.
* **MatchingSubgraphs / `SubgraphsAreComplete`.** Step4 promises complete subgraphs. Set 9 of
  the reference table for five nodes is a path.
* **MatchingNewIds / `NewIdsAreNew`.** Step6 says that a single record gets a new cluster id.
  The greatest id is looked up in the membership table; the id of an emptied cluster
  is given out again, with the UPCI and primary record that belong to it.

* **VisualiserRound / `SavedIdsAreMeaningless`.** A save gives all its edges the temporary
  cluster id -1, `VisualisationRepository.cs:146` "Completely meaningless". Step6 of a round that is
  under way joins on that id, so that clusters saved between Step4 and Step6 are taken for
  one, and their records that are not hard-linked end in a single cluster.

Met while modelling, without a run: nothing in the repository says otherwise, or what does is
about another part.

* With `Preemption`, both handlers may pass `CheckStates` and announce one batch twice.
  Two completions then start a second cycle in the middle of a batch, and with rows that cannot
  be written a file is handed over twice. `KeepsBatches` and `NeverHandedOverTwice` are
  therefore checked with `Preemption` FALSE.
* Two archives of one Offloc file that has a row: the row has room for one archive name, so
  `FileSyncBackgroundService.cs:239` associates it with one, then finds the other new,
  associates it with that, and so on without end (`CycleEnds` fails).
* `ProcessOnCompletion` counts a batch as successful that had a swallowed failure.
* Import releases its semaphores outside any `finally`: an exception between would leave
  them taken, were it not that it ends the process.
* With `AllowProcessingOlderFiles` off the oldest unprocessed file is still picked first;
  once it is refused, newer ones behind it are never reached.
* Two files with one primary key: the row of the second is not written, unnoticed, and
  its data is merged again in each cycle.
* A tidy-up handled late deletes the copy that the cleaner is writing and the batch is
  lost; the runs set `TidyLags` to FALSE.
* `ClearDeliusStaging` leaves the Header table as it is.
* A record that loses its links keeps the permanent cluster of before, and of a cluster
  that falls apart both parts keep one id: Step6 never splits.
* A cluster with several records and no edge between them cannot be saved:
  `Cluster.cs:29` takes the average of nothing and throws. The test at
  `VisualisationRepositoryTests.cs:687` saves such a cluster and puts the exception down to
  the in-memory database (line 685: "works fine with real databases").
* Edges that are deleted or dragged are not in the list of changes, and an edge can be
  dragged to another cluster (`network.js:24`), which `addEdge` refuses at 240. The API
  saves it: there is a comment, but no code, to verify edges (`VisualisationRepository.cs:108`).
* Hard-linked records that Step6 left behind have edges across clusters; with one of the clusters
  on the page alone the save finds no mapping for them and is refused
  (`VisualisationRepository.cs:145`).
* With the find modal dismissed by its x while the answer is awaited, the added cluster does not
  enable the checkbox for reassigning (`mayReassign`), until the modal is opened and closed again.
* An edge with probability 1, which each reassignment and each edge drawn by hand has
  (`network.js:488` and 254), comes back in the next round unless its pair is scored again. If it is part of a graph of three
  to five records then, Step4 takes the logarithm of 0 for the sets that cut it
  (`Step4_ResolveGraphs.sql:39`), the INSERT fails, and no graph at all is resolved in that
  round: all records of graphs of that size lose their edges, keep their clusters, and the caller
  gets an error, so that no completion is published. Nothing says what a save is to do to a later round.
* An edge saved from a Nomis record to a Delius one is not recognised by Step1 when its pair is scored again,
  since the scored pairs are turned round for the look-up and the saved one is not
  (`Step1_GetPass1Edges.sql:48`-84). Step2 takes the higher of both probabilities, so what was
  drawn by hand outbids every later score; after Step2 has turned it round, the next round recognises it.
  If a pair was saved both ways round, which dragging an edge allows, and is not scored again, it
  comes out of Step2's GROUP BY twice and the INSERT fails on the unique index of
  `ClusterAssignment`: the output stays empty.
* Edges drawn by hand between records of one source system are dropped by the next round
  (`Step2_CompleteEdges.sql:51`).
* The audit entry of a save is written whether or not the save is rolled back, and two requests
  for a new cluster at once may pick the same id, of which one fails.

## 7. What is only model-checked

All liveness, which is out of the prover's reach: `CycleEnds`, `Drains`, `HandedOverIsMerged`,
`SemaphoresReturn`, `PruningEnds`, and that what BatchLifecycle promises comes about
(the fairness in `KeepsBatches`, whose safety part is the theorem `BatchesAreKept`). Of the safety properties that the passing runs check, every
one is stated by a theorem. Those about files in order, once, and with their own data are
theorems while cycles do not overlap, as in the runs that check them; the others need no such
hypothesis.

SyncTimer checks `FileSyncTypeOK` of `SyncCycle`, the theorem is about FileSync in `Ingest`,
where every other component writes the queues and tables that FileSync reads.

## 8. What is not modelled, and why

* Saves in the middle of a round are the subject of ClusterStore and run VisualiserRound; Matching has
  them between rounds, where what they leave in `output` meets a whole round. Until Step1 has
  read the output it makes no difference when they come. Of the conditions on which a save is
  refused Matching has those about rows and edges; that each record has search attributes is
  ClusterStore's. The primary record of a saved cluster is any of its records.
* The text of files, the parsers' records, the cleaning of lines, the tables of
  staging and running picture, the MERGE statements: data that no property here tells
  apart. A file's data is its name.
* The queries of Blocking and the comparison and scoring of a pair: a set of pairs and
  a score for each, chosen by `Data`.
* Membership probabilities of clusters other than as ties, the flags of output.Clusters,
  Step7's search attributes: derived from what is modelled. UPCIs are drawn from a table of
  some 47 million, assumed not to run out, and go with the cluster id.
* Two processes that wait for the same response type (FileSync and Offloc.Cleaner both
  ask for Offloc file names), and the moment between subscribing and attaching a
  handler: in the plan.
* Overlapping rounds of Matching.Engine: in the plan. `IngestTimer` has overlapping cycles,
  with clustering as one step.
* Cleanup of staged input, which races the next download of the same name: in the plan.
* The API's other endpoints: they read, and change nothing. `ProcessedFiles.cshtml` shows a list.
* Overlap of a save with another transaction inside the database: a save and a find are one
  step each. Under read-committed isolation a save may read rows of a cluster that another save is
  about to replace; what comes of it depends on locks that the code does not state.
* vis: external. It is modelled by what `network.js` relies on (no two nodes with an id,
  an id for each edge) and by what it does to edges on its own.
* Logging, FakeDataSeeder, Aspire, deployment: no part in an ingest, or no state of
  their own.

Simplifications inside what is modelled: FileSync's clearing of the input directories
and its query of processed names are one step each; an archive holds one Offloc file;
a file store never fails; Meow reads and saves in one step; SQL procedures are atomic but where section 2 says otherwise.

## 9. Plan

Done: RunningPicture, Import, FileSync, their composition and its refinement; the
clustering rounds; the Visualiser with the API and the tables it shares with rounds;
proofs of the semaphore protocol alone and in the chain, of the turns that batches take and
what follows from them, of the refinement, of cluster membership, of the graph of the rounds and of the Visualiser.

Left, in this order:

1. *RabbitRpc*: requests and responses across processes that share a response queue
   (FileSync and Offloc.Cleaner for Offloc names, FileSync and Delius.Parser for Delius
   names), acknowledged by the wrong one; the abstract
   specification is a table of calls, each answered at most once and to its caller.
2. *Cleanup* of staged input, racing the next cycle's download of the same name.
3. *Overlapping rounds*: two imports announced before the first round is through,
   one `MatchingQueue`, one set of tables; what of `CompleteOrCut` is left.
4. *Pure functions* against reference definitions over bounded input: the line
   cleaner, field splitting, comparators, the Bayes scorer, standardisation.
5. *Proofs*: what holds of files and batches when cycles do overlap; the modules
   above, once they are there.
