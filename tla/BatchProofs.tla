------------------------------ MODULE BatchProofs ------------------------------
(***************************************************************************)
(* Theorems about Ingest while cycles do not overlap: each source has one  *)
(* turn, which its file carries from FileSync to clustering and back.      *)
(***************************************************************************)
EXTENDS IngestProofs, FiniteSetTheorems

USE DEF dbVars, importVars, rpcVars, inputVars, elsewhere, importIdle, parseVars, syncVars

-----------------------------------------------------------------------------
(* Turns *)

\* A cycle starts while another is under way at a tick of the timer, at a restart
\* of FileSync, or after both handlers in CheckStates announced the one batch.
OneAtATime == ~ProcessOnTimer /\ MaxRestarts = 0 /\ ~Preemption

\* The steps at which a handler has a file in hand.
Importing == {"acquire", "stage", "staging", "merge", "merging", "release", "complete"}

\* DbInteractions works for source s, or has answered.
Asked(s) ==
    (\E r \in requests : r.src = s) \/ (\E op \in Call : responses[s][op] > 0)

\* The turn of source s: whatever there is, of some kind, that may lead to a file of
\* s being handed over or is about to bring one to its end.  A request, and then the
\* response to it, stands for the handler that waits for it.
Turn(s, kind, x) ==
    \/ kind = "sync" /\ x = 0 /\ sync.at # "idle" /\ ~(s = "delius" /\ sync.at = "publishOffloc")
    \/ kind = "download" /\ x \in 1 .. Len(downloads[s])
    \/ kind = "work" /\ x \in Worker /\ work[x] # Unused /\ work[x].src = s
    \/ kind = "inbox" /\ x \in 1 .. Len(inbox[s])
    \/ kind = "handler" /\ x \in Handler /\ pc[x] \in Importing /\ job[x].src = s
                        /\ ~(pc[x] \in Waiting /\ Asked(s))
    \/ kind = "request" /\ x \in requests /\ x.src = s
    \/ kind \in Call /\ x \in 1 .. responses[s][kind]
    \/ kind = "completed" /\ x = 0 /\ completed[s]
    \/ kind = "publish" /\ x \in Handler /\ pc[x] = "publish"
    \/ kind = "announced" /\ x \in clustered + 1 .. importFinished
    \/ kind = "completion" /\ x \in 1 .. completions

OneTurnOf(s) ==
    \A k1, x1, k2, x2 : Turn(s, k1, x1) /\ Turn(s, k2, x2) => k1 = k2 /\ x1 = x2

OneTurn == \A s \in Source : OneTurnOf(s)

\* Handlers do not meet between the release of a semaphore and the end of CheckStates.
OneRunning == \A g, h \in Handler : Running(g) /\ Running(h) => g = h

\* A handler that resets the flags found them set.
ResetSeesBoth == \A h \in Handler : pc[h] = "reset" => \A s \in Source : completed[s]

TurnInv == TypeInv /\ Exclusive /\ OneTurn /\ OneRunning /\ ResetSeesBoth

\* A turn is kept, or lost ...
Keeps(s) == \A k, x : Turn(s, k, x)' => Turn(s, k, x)
\* ... or passed on: one goes and another comes.
PassesOn(s, k1, x1, k2, x2) ==
    /\ Turn(s, k1, x1) /\ ~Turn(s, k1, x1)'
    /\ \A k, x : Turn(s, k, x)' => Turn(s, k, x) \/ (k = k2 /\ x = x2)
Passes(s) == \E k1, x1, k2, x2 : PassesOn(s, k1, x1, k2, x2)

LEMMA StillOneTurn ==
    ASSUME NEW s \in Source, OneTurnOf(s), Keeps(s) \/ Passes(s)
    PROVE  OneTurnOf(s)'
<1> USE DEF OneTurnOf
<1>1. CASE Keeps(s) BY <1>1 DEF Keeps
<1>2. CASE Passes(s)
  <2>1. PICK k1, x1, k2, x2 : PassesOn(s, k1, x1, k2, x2) BY <1>2 DEF Passes
  <2>2. \A k, x : Turn(s, k, x)' => k = k2 /\ x = x2 BY <2>1 DEF PassesOn
  <2> QED BY <2>2
<1> QED BY <1>1, <1>2

-----------------------------------------------------------------------------
(* FileSync and clustering *)

\* What a step may change for the turns to be as they were, but for the cycle's.
LEMMA CycleOnly ==
    ASSUME NEW s \in Source,
           UNCHANGED <<downloads, work, inbox, pc, job, requests, responses, completed,
                       clustered, importFinished, completions>>,
           Turn(s, "sync", 0)' => Turn(s, "sync", 0)
    PROVE  Keeps(s)
BY DEF Keeps, Turn, Asked

\* A cycle goes on, or ends, without handing anything over.
LEMMA ProcessTurn ==
    ASSUME TypeInv, Process, ~PublishDelius, ~PublishOffloc, NEW s \in Source
    PROVE  Turn(s, "sync", 0)' => Turn(s, "sync", 0)
<1> USE DEF SyncAt, SyncGoto, Done, Start
<1>1. sync \in Sync BY DEF TypeInv, TypeOK, FileSyncTypeOK, Sync
<1>2. sync.at # "idle" /\ sync.at \notin {"publishDelius", "publishOffloc"}
      /\ sync'.at # "publishOffloc"
  <2>1. CASE ReadyDelius BY <1>1, <2>1 DEF ReadyDelius, Sync
  <2>2. CASE ReadyOffloc BY <1>1, <2>2 DEF ReadyOffloc, Sync
  <2>3. CASE ClearDelius \/ ClearOffloc
    BY <1>1, <2>3 DEF ClearDelius, ClearOffloc, ClearStep, Sync
  <2>4. CASE ClearInput BY <1>1, <2>4 DEF ClearInput, Sync
  <2>5. CASE PickDelius BY <1>1, <2>5 DEF PickDelius, Sync
  <2>6. ASSUME NEW f, NEW a, WithOffloc(f, a) PROVE sync'.at # "publishOffloc"
    BY <1>1, <2>6 DEF WithOffloc, Sync
  <2>7. CASE PickNothing BY <2>6, <2>7 DEF PickNothing
  <2>8. CASE PickFile BY <2>6, <2>8 DEF PickFile
  <2>9. CASE PickArchive BY <2>6, <2>9 DEF PickArchive
  <2>10. CASE PickAmbiguousArchive BY <2>10, LaunchIs DEF PickAmbiguousArchive
  <2>11. CASE PickProcessedArchive BY <2>11 DEF PickProcessedArchive
  <2>12. CASE GateDelius BY <1>1, <2>12 DEF GateDelius, Sync
  <2>13. CASE GateOffloc BY <1>1, <2>13 DEF GateOffloc, Sync
  <2> QED
    BY <2>1, <2>2, <2>3, <2>4, <2>5, <2>7, <2>8, <2>9, <2>10, <2>11, <2>12, <2>13
       DEF Process
<1> QED BY <1>2 DEF Turn, Call

\* What ProcessAsync changes at all.
LEMMA ProcessLeaves ==
    ASSUME Process
    PROVE  /\ UNCHANGED <<store, completions, ticks, restarts>>
           /\ ~PublishDelius /\ ~PublishOffloc => UNCHANGED downloads
BY DEF Process, ReadyDelius, ReadyOffloc, ClearDelius, ClearOffloc, ClearStep, ClearInput,
       PickDelius, PickNothing, PickFile, PickAmbiguousArchive, PickProcessedArchive,
       PickArchive, GateDelius, GateOffloc, PublishDelius, PublishOffloc

\* A message handed over takes the turn of its source from the cycle.
LEMMA PublishTurn ==
    ASSUME TypeInv, PublishDelius \/ PublishOffloc,
           UNCHANGED <<inbox, importIdle, parseVars>>, NEW s \in Source
    PROVE  Keeps(s) \/ Passes(s)
<1> USE DEF SyncAt, SyncGoto, Done, Start
<1>1. sync \in Sync /\ downloads \in [Source -> Seq(Download)]
  BY DEF TypeInv, TypeOK, FileSyncTypeOK, Sync
<1>2. UNCHANGED <<work, inbox, pc, job, requests, responses, completed,
                  clustered, importFinished, completions>>
  BY DEF PublishDelius, PublishOffloc
<1>3. PICK t \in Source :
         /\ \E m : downloads' = [downloads EXCEPT ![t] = Append(@, m)]
         /\ IF t = "delius" THEN sync.at = "publishDelius" /\ sync'.at = "publishOffloc"
                            ELSE sync.at = "publishOffloc" /\ sync'.at = "idle"
  BY <1>1 DEF PublishDelius, PublishOffloc, Sync, Source
<1>4. CASE s = t
  <2>1. PICK n : n = Len(downloads[s]) + 1 OBVIOUS
  <2>2. PICK m : downloads' = [downloads EXCEPT ![s] = Append(@, m)] BY <1>3, <1>4
  <2>3. 1 .. Len(downloads'[s]) = 1 .. Len(downloads[s]) \cup {n}
    BY <1>1, <2>1, <2>2
  <2>4. Turn(s, "sync", 0) /\ ~Turn(s, "sync", 0)'
    BY <1>3, <1>4 DEF Turn, Call, Source
  <2>5. ASSUME NEW k, NEW x, Turn(s, k, x)' PROVE Turn(s, k, x) \/ (k = "download" /\ x = n)
    BY <1>2, <1>3, <1>4, <2>3, <2>5 DEF Turn, Asked
  <2>6. PassesOn(s, "sync", 0, "download", n) BY <2>4, <2>5 DEF PassesOn
  <2> QED BY <2>6 DEF Passes
<1>5. CASE s # t
  <2>1. downloads'[s] = downloads[s] BY <1>1, <1>3, <1>5
  <2>2. Turn(s, "sync", 0)' => Turn(s, "sync", 0) BY <1>3, <1>5 DEF Turn, Call, Source
  <2>3. ASSUME NEW k, NEW x, Turn(s, k, x)' PROVE Turn(s, k, x)
    BY <1>2, <2>1, <2>2, <2>3 DEF Turn, Asked
  <2> QED BY <2>3 DEF Keeps
<1> QED BY <1>4, <1>5

\* A completion message becomes a cycle, or nothing.
LEMMA CompletionTurn ==
    ASSUME TypeInv, Completion, UNCHANGED <<inbox, importIdle, parseVars>>, NEW s \in Source
    PROVE  Keeps(s) \/ Passes(s)
<1>1. completions \in Nat /\ completions > 0 /\ completions' = completions - 1
      /\ UNCHANGED <<downloads, work, inbox, pc, job, requests, responses, completed,
                     clustered, importFinished>>
  BY DEF TypeInv, TypeOK, FileSyncTypeOK, Completion
<1>2. PICK n : n = completions OBVIOUS
<1>3. 1 .. completions' = (1 .. completions) \ {n} /\ n \in 1 .. completions
  BY <1>1, <1>2
<1>4. Turn(s, "completion", n) /\ ~Turn(s, "completion", n)'
  BY <1>3 DEF Turn, Call
<1>5. ASSUME NEW k, NEW x, Turn(s, k, x)' PROVE Turn(s, k, x) \/ (k = "sync" /\ x = 0)
  BY <1>1, <1>3, <1>5 DEF Turn, Asked
<1>6. PassesOn(s, "completion", n, "sync", 0) BY <1>4, <1>5 DEF PassesOn
<1> QED BY <1>6 DEF Passes

\* An announcement becomes a completion message.
LEMMA ClusterTurn ==
    ASSUME TypeInv, Cluster, NEW s \in Source
    PROVE  Keeps(s) \/ Passes(s)
<1>1. /\ completions \in Nat /\ clustered \in Nat /\ importFinished \in Nat
      /\ clustered < importFinished
      /\ completions' = completions + 1 /\ clustered' = clustered + 1
      /\ UNCHANGED <<sync, downloads, work, inbox, pc, job, requests, responses, completed,
                     importFinished>>
  BY DEF TypeInv, TypeOK, ImportTypeOK, FileSyncTypeOK, Cluster
<1>2. PICK n, m : n = clustered + 1 /\ m = completions + 1 OBVIOUS
<1>3. /\ clustered' + 1 .. importFinished' = (clustered + 1 .. importFinished) \ {n}
      /\ n \in clustered + 1 .. importFinished
      /\ 1 .. completions' = 1 .. completions \cup {m}
  BY <1>1, <1>2
<1>4. Turn(s, "announced", n) /\ ~Turn(s, "announced", n)'
  BY <1>3 DEF Turn, Call
<1>5. ASSUME NEW k, NEW x, Turn(s, k, x)' PROVE Turn(s, k, x) \/ (k = "completion" /\ x = m)
  BY <1>1, <1>3, <1>5 DEF Turn, Asked
<1>6. PassesOn(s, "announced", n, "completion", m) BY <1>4, <1>5 DEF PassesOn
<1> QED BY <1>6 DEF Passes

-----------------------------------------------------------------------------
(* The parsing services *)

LEMMA TakeUpTurn ==
    ASSUME TypeInv, NEW w \in Worker, NEW t \in Source, TakeUp(w, t), NEW s \in Source
    PROVE  Keeps(s) \/ Passes(s)
<1>1. /\ downloads \in [Source -> Seq(Download)] /\ work \in [Worker -> Work]
      /\ downloads[t] # <<>> /\ work[w].at = "unused"
      /\ downloads' = [downloads EXCEPT ![t] = Tail(@)]
      /\ \E f, a : work' = [work EXCEPT ![w] = [at |-> "ask", src |-> t, file |-> f, archive |-> a]]
      /\ UNCHANGED <<sync, inbox, pc, job, requests, responses, completed,
                     clustered, importFinished, completions>>
  BY DEF TypeInv, TypeOK, FileSyncTypeOK, TakeUp, WorkAt
<1>2. work'[w].src = t /\ \A v \in Worker \ {w} : work'[v] = work[v]
  BY <1>1
<1>3. CASE s = t
  <2>1. PICK n : n = Len(downloads[s]) OBVIOUS
  <2>2. Len(Tail(downloads[s])) = Len(downloads[s]) - 1 /\ Len(downloads[s]) \in Nat \ {0}
    BY <1>1, <1>3, HeadTailProperties, EmptySeq, LenProperties
  <2>3. 1 .. Len(downloads'[s]) = (1 .. Len(downloads[s])) \ {n} /\ n \in 1 .. Len(downloads[s])
    BY <1>1, <1>3, <2>1, <2>2
  <2>4. Turn(s, "download", n) /\ ~Turn(s, "download", n)'
    BY <2>3 DEF Turn, Call
  <2>5. ASSUME NEW k, NEW x, Turn(s, k, x)' PROVE Turn(s, k, x) \/ (k = "work" /\ x = w)
    BY <1>1, <1>2, <2>3, <2>5 DEF Turn, Asked
  <2>6. PassesOn(s, "download", n, "work", w) BY <2>4, <2>5 DEF PassesOn
  <2> QED BY <2>6 DEF Passes
<1>4. CASE s # t
  <2>1. downloads'[s] = downloads[s] BY <1>1, <1>4
  <2>2. ASSUME NEW k, NEW x, Turn(s, k, x)' PROVE Turn(s, k, x)
    BY <1>1, <1>2, <1>4, <2>1, <2>2 DEF Turn, Asked
  <2> QED BY <2>2 DEF Keeps
<1> QED BY <1>3, <1>4

\* A worker that goes on, or stops, changes nothing but its own work.
LEMMA WorkKeepsTurn ==
    ASSUME NEW s \in Source,
           UNCHANGED <<sync, downloads, inbox, pc, job, requests, responses, completed,
                       clustered, importFinished, completions>>,
           \A v \in Worker : work'[v] # Unused => work[v] # Unused /\ work'[v].src = work[v].src
    PROVE  Keeps(s)
BY DEF Keeps, Turn, Asked

LEMMA WorkGoesOn ==
    ASSUME TypeInv, NEW w \in Worker, NEW at \in WorkStep, WorkAt(w, at),
           CrashOf(w) \/ \E to \in WorkStep : WorkGoto(w, to)
    PROVE  \A v \in Worker :
              work'[v] # Unused =>
                 /\ work[v] # Unused
                 /\ work'[v].src = work[v].src /\ work'[v].file = work[v].file
<1>1. work \in [Worker -> Work] BY DEF TypeInv, TypeOK
<1>2. CASE CrashOf(w) BY <1>1, <1>2 DEF CrashOf
<1>3. ASSUME NEW to \in WorkStep, WorkGoto(w, to)
      PROVE  \A v \in Worker :
                work'[v] # Unused =>
                 /\ work[v] # Unused
                 /\ work'[v].src = work[v].src /\ work'[v].file = work[v].file
  <2>1. work[w].at # "unused" BY DEF WorkAt, WorkStep
  <2>2. work' = [work EXCEPT ![w] = [work[w] EXCEPT !.at = to]] BY <1>3 DEF WorkGoto
  <2>3. work[w] \in [at : WorkStep, src : Source, file : File, archive : Archive \cup {NoFile}]
    BY <1>1, <2>1 DEF Work, Unused
  <2>4. work'[w].src = work[w].src /\ work'[w].file = work[w].file BY <1>1, <2>2, <2>3
  <2> QED BY <1>1, <2>1, <2>2, <2>4 DEF Unused
<1> QED BY <1>2, <1>3

\* A message for Import takes the turn from its worker.
LEMMA TowardTurn ==
    ASSUME TypeInv, NEW w \in Worker, NEW at \in WorkStep, WorkAt(w, at), NEW m,
           Toward(work[w].src, m), work' = [work EXCEPT ![w] = Unused],
           UNCHANGED <<importIdle, syncVars, clustered>>, NEW s \in Source
    PROVE  Keeps(s) \/ Passes(s)
<1>1. /\ inbox \in [Source -> Seq(Message)] /\ work \in [Worker -> Work]
      /\ work[w] # Unused /\ work[w].src \in Source
  BY InHandIs DEF TypeInv, TypeOK, ImportTypeOK, WorkAt, WorkStep, Unused
<1>2. work'[w] = Unused /\ \A v \in Worker \ {w} : work'[v] = work[v] BY <1>1
<1>3. UNCHANGED <<sync, downloads, pc, job, requests, responses, completed,
                  clustered, importFinished, completions>>
  OBVIOUS
<1>4. CASE s = work[w].src
  <2>1. PICK n : n = Len(inbox[s]) + 1 OBVIOUS
  <2>2. 1 .. Len(inbox'[s]) = 1 .. Len(inbox[s]) \cup {n}
    BY <1>1, <1>4, <2>1 DEF Toward
  <2>3. Turn(s, "work", w) /\ ~Turn(s, "work", w)'
    BY <1>1, <1>2, <1>4 DEF Turn, Call
  <2>4. ASSUME NEW k, NEW x, Turn(s, k, x)' PROVE Turn(s, k, x) \/ (k = "inbox" /\ x = n)
    BY <1>2, <1>3, <2>2, <2>4 DEF Turn, Asked
  <2>5. PassesOn(s, "work", w, "inbox", n) BY <2>3, <2>4 DEF PassesOn
  <2> QED BY <2>5 DEF Passes
<1>5. CASE s # work[w].src
  <2>1. inbox'[s] = inbox[s] BY <1>1, <1>5 DEF Toward
  <2>2. ASSUME NEW k, NEW x, Turn(s, k, x)' PROVE Turn(s, k, x)
    BY <1>2, <1>3, <2>1, <2>2 DEF Turn, Asked
  <2> QED BY <2>2 DEF Keeps
<1> QED BY <1>4, <1>5

LEMMA WorkOnTurn ==
    ASSUME TypeInv, NEW w \in Worker, WorkOn(w), NEW s \in Source
    PROVE  Keeps(s) \/ Passes(s)
<1>1. CASE Skip(w) BY <1>1, TowardTurn DEF Skip, WorkStep
<1>2. CASE Finish(w) BY <1>2, TowardTurn DEF Finish, WorkStep
<1>3. CASE ~Skip(w) /\ ~Finish(w)
  <2>1. UNCHANGED <<sync, downloads, inbox, pc, job, requests, responses, completed,
                    clustered, importFinished, completions>>
    BY <1>3 DEF WorkOn, Ask, Create, Clean, CleanNothing, Replace, ReplaceNothing,
                StartParse, Parse, ParseNothing
  <2>2. PICK at \in WorkStep : WorkAt(w, at) /\ (CrashOf(w) \/ \E to \in WorkStep : WorkGoto(w, to))
    <3> USE DEF WorkStep
    <3>1. CASE Ask(w) BY <3>1 DEF Ask
    <3>2. CASE Create(w) BY <3>2 DEF Create
    <3>3. CASE Clean(w) BY <3>3 DEF Clean
    <3>4. CASE CleanNothing(w) BY <3>4 DEF CleanNothing
    <3>5. CASE Replace(w) BY <3>5 DEF Replace
    <3>6. CASE ReplaceNothing(w) BY <3>6 DEF ReplaceNothing
    <3>7. CASE StartParse(w) BY <3>7 DEF StartParse
    <3>8. CASE Parse(w) BY <3>8 DEF Parse
    <3>9. CASE ParseNothing(w) BY <3>9 DEF ParseNothing
    <3> QED
      BY <1>3, <3>1, <3>2, <3>3, <3>4, <3>5, <3>6, <3>7, <3>8, <3>9 DEF WorkOn
  <2> QED BY <2>1, <2>2, WorkGoesOn, WorkKeepsTurn
<1> QED BY <1>1, <1>2, <1>3

-----------------------------------------------------------------------------
(* Import *)

\* What FileSync, the parsers and clustering have is left alone by the others.
ElsewhereAlone == UNCHANGED <<sync, downloads, work, clustered, completions>>

\* The parts of the invariant that say which handler is where.
HandlersInv == ImportTypeOK /\ Exclusive /\ OneTurn

LEMMA ReceiveTurn ==
    ASSUME HandlersInv, ElsewhereAlone, NEW h \in Handler, NEW t \in Source, Receive(h, t),
           NEW s \in Source
    PROVE  Keeps(s) \/ Passes(s)
<1> USE DEF HandlersInv, ElsewhereAlone, Receive, At
<1>1. /\ inbox \in [Source -> Seq(Message)] /\ inbox[t] # <<>> /\ pc[h] = "idle"
      /\ pc \in [Handler -> Step] /\ job \in [Handler -> Job \cup {NoJob}]
      /\ inbox' = [inbox EXCEPT ![t] = Tail(@)]
      /\ UNCHANGED <<requests, responses, completed, importFinished>>
  BY DEF ImportTypeOK
<1>2. pc'[h] = "acquire" /\ \A g \in Handler \ {h} : pc'[g] = pc[g] /\ job'[g] = job[g]
  BY <1>1
<1>3. job'[h].src = t BY <1>1
<1>4. CASE s = t
  <2>1. PICK n : n = Len(inbox[s]) OBVIOUS
  <2>2. Len(Tail(inbox[s])) = Len(inbox[s]) - 1 /\ Len(inbox[s]) \in Nat \ {0}
    BY <1>1, <1>4, HeadTailProperties, EmptySeq, LenProperties
  <2>3. 1 .. Len(inbox'[s]) = (1 .. Len(inbox[s])) \ {n} /\ n \in 1 .. Len(inbox[s])
    BY <1>1, <1>4, <2>1, <2>2
  <2>4. Turn(s, "inbox", n) /\ ~Turn(s, "inbox", n)'
    BY <2>3 DEF Turn, Call
  <2>5. ASSUME NEW k, NEW x, Turn(s, k, x)' PROVE Turn(s, k, x) \/ (k = "handler" /\ x = h)
    BY <1>1, <1>2, <2>3, <2>5 DEF Turn, Asked
  <2>6. PassesOn(s, "inbox", n, "handler", h) BY <2>4, <2>5 DEF PassesOn
  <2> QED BY <2>6 DEF Passes
<1>5. CASE s # t
  <2>1. inbox'[s] = inbox[s] BY <1>1, <1>5
  <2>2. ASSUME NEW k, NEW x, Turn(s, k, x)' PROVE Turn(s, k, x)
    BY <1>1, <1>2, <1>3, <1>5, <2>1, <2>2 DEF Turn, Asked
  <2> QED BY <2>2 DEF Keeps
<1> QED BY <1>4, <1>5

\* A handler that goes on with the file it has in hand keeps its turn.
LEMMA HandlerKeepsTurn ==
    ASSUME ElsewhereAlone, NEW h \in Handler, NEW s \in Source,
           UNCHANGED <<inbox, job, requests, responses, completed, importFinished>>,
           \A g \in Handler \ {h} : pc'[g] = pc[g],
           pc[h] \notin Waiting, pc'[h] # "publish",
           pc'[h] \in Importing => pc[h] \in Importing
    PROVE  Keeps(s)
BY DEF ElsewhereAlone, Keeps, Turn, Asked

LEMMA SendTurn ==
    ASSUME HandlersInv, ElsewhereAlone, NEW h \in Handler, NEW op \in Call,
           Send(h, op, WaitingFor(op)), NEW s \in Source
    PROVE  Keeps(s) \/ Passes(s)
<1> USE DEF HandlersInv, ElsewhereAlone, Send, At, Goto
<1> DEFINE r == [op |-> op, src |-> job[h].src, file |-> job[h].file, at |-> "run"]
<1>1. /\ pc[h] = op /\ pc \in [Handler -> Step] /\ requests' = requests \cup {r}
      /\ r.src = job[h].src
      /\ UNCHANGED <<inbox, job, responses, completed, importFinished>>
  BY DEF ImportTypeOK
<1>2. /\ pc'[h] = WaitingFor(op) /\ pc'[h] \in Waiting /\ pc'[h] # "publish"
      /\ \A g \in Handler \ {h} : pc'[g] = pc[g]
  BY <1>1 DEF WaitingFor, Waiting
<1>3. pc[h] \in Importing /\ pc[h] \notin Waiting /\ pc[h] # "publish"
  BY <1>1 DEF Call, Importing, Waiting
<1>4. PICK q : q = r OBVIOUS
<1> HIDE DEF r
<1>5. CASE s = job[h].src
  <2>1. Asked(s)' BY <1>1, <1>5 DEF Asked
  <2>2. Turn(s, "handler", h) BY <1>3, <1>5 DEF Turn
  <2>3. ~Turn(s, "handler", h)' BY <1>2, <2>1 DEF Turn, Call
  <2>4. ASSUME NEW k, NEW x, Turn(s, k, x)' PROVE Turn(s, k, x) \/ (k = "request" /\ x = q)
    <3>1. Asked(s) => Asked(s)' BY <2>1
    <3>2. CASE k = "handler" BY <1>1, <1>2, <2>2, <2>4, <3>1, <3>2 DEF Turn, Call
    <3>3. CASE k # "handler" BY <1>1, <1>2, <1>4, <2>4, <3>3 DEF Turn
    <3> QED BY <3>2, <3>3
  <2>5. PassesOn(s, "handler", h, "request", q) BY <2>2, <2>3, <2>4 DEF PassesOn
  <2> QED BY <2>5 DEF Passes
<1>6. CASE s # job[h].src
  <2>1. Asked(s)' <=> Asked(s) BY <1>1, <1>6 DEF Asked
  <2>2. ASSUME NEW k, NEW x, Turn(s, k, x)' PROVE Turn(s, k, x)
    BY <1>1, <1>2, <1>3, <1>6, <2>1, <2>2 DEF Turn
  <2> QED BY <2>2 DEF Keeps
<1> QED BY <1>5, <1>6

LEMMA AnsweredTurn ==
    ASSUME HandlersInv, ElsewhereAlone, NEW h \in Handler, NEW op \in Call,
           NEW next \in {"merge", "release"}, Answered(h, op, WaitingFor(op), next),
           NEW s \in Source
    PROVE  Keeps(s) \/ Passes(s)
<1> USE DEF HandlersInv, ElsewhereAlone, Answered, At, Goto
<1>1. /\ pc[h] = WaitingFor(op) /\ pc \in [Handler -> Step] /\ pc[h] \in Waiting
      /\ responses[job[h].src][op] > 0
      /\ responses \in [Source -> [Call -> Nat]]
      /\ UNCHANGED <<inbox, job, requests, completed, importFinished>>
  BY DEF ImportTypeOK, WaitingFor, Waiting
<1>2. /\ pc'[h] = next /\ pc'[h] \notin Waiting /\ pc'[h] # "publish"
      /\ \A g \in Handler \ {h} : pc'[g] = pc[g]
  BY <1>1 DEF Waiting
<1>3. job[h].src \in Source BY <1>1 DEF ImportTypeOK, Waiting, Job
\* Only one handler waits at a time.
<1>4. \A g \in Handler \ {h} : pc'[g] \notin Waiting BY <1>1, <1>2 DEF Exclusive
<1>5. PICK left \in 0 .. responses[job[h].src][op] - 1 :
         responses' = [responses EXCEPT ![job[h].src][op] = left]
  OBVIOUS
<1>6. CASE s = job[h].src
  <2>1. PICK n : n = responses[s][op] OBVIOUS
  <2>2. /\ responses'[s][op] = left /\ n \in Nat /\ n > 0 /\ left < n
        /\ \A o \in Call \ {op} : responses'[s][o] = responses[s][o]
    BY <1>1, <1>3, <1>5, <1>6, <2>1
  <2>3. Turn(s, op, n) BY <2>1, <2>2 DEF Turn
  <2>4. ~Turn(s, op, n)'
    <3>1. n \notin 1 .. responses'[s][op] BY <2>2
    <3> QED BY <3>1 DEF Turn, Call
  <2>5. ASSUME NEW k, NEW x, Turn(s, k, x)' PROVE Turn(s, k, x) \/ (k = "handler" /\ x = h)
    <3>1. CASE k \in Call
      <4>1. x \in 1 .. responses'[s][k] BY <2>5, <3>1 DEF Turn, Call
      <4>2. x \in 1 .. responses[s][k] BY <2>1, <2>2, <3>1, <4>1
      <4> QED BY <3>1, <4>2 DEF Turn
    <3>2. CASE k = "handler" BY <1>1, <1>2, <1>4, <2>5, <3>2 DEF Turn, Call
    <3>3. CASE k \notin Call \cup {"handler"}
      BY <1>1, <1>2, <2>5, <3>3 DEF Turn
    <3> QED BY <3>1, <3>2, <3>3
  <2>6. PassesOn(s, op, n, "handler", h) BY <2>3, <2>4, <2>5 DEF PassesOn
  <2> QED BY <2>6 DEF Passes
<1>7. CASE s # job[h].src
  <2>1. responses'[s] = responses[s] BY <1>1, <1>3, <1>5, <1>7
  <2>2. Asked(s)' <=> Asked(s) BY <1>1, <2>1 DEF Asked
  <2>3. ASSUME NEW k, NEW x, Turn(s, k, x)' PROVE Turn(s, k, x)
    BY <1>1, <1>2, <1>7, <2>1, <2>2, <2>3 DEF Turn
  <2> QED BY <2>3 DEF Keeps
<1> QED BY <1>6, <1>7

\* The flag takes the turn from the handler ...
LEMMA CompleteTurn ==
    ASSUME HandlersInv, ElsewhereAlone, NEW h \in Handler, Complete(h), NEW s \in Source
    PROVE  Keeps(s) \/ Passes(s)
<1> USE DEF HandlersInv, ElsewhereAlone, Complete, At, Goto
<1>1. /\ pc[h] = "complete" /\ pc \in [Handler -> Step] /\ completed \in [Source -> BOOLEAN]
      /\ completed' = [completed EXCEPT ![job[h].src] = TRUE]
      /\ UNCHANGED <<inbox, job, requests, responses, importFinished>>
  BY DEF ImportTypeOK
<1>2. pc'[h] = "check" /\ \A g \in Handler \ {h} : pc'[g] = pc[g] BY <1>1
<1>3. CASE s = job[h].src
  <2>1. Turn(s, "handler", h) /\ ~Turn(s, "handler", h)'
    BY <1>1, <1>2, <1>3 DEF Turn, Call, Importing, Waiting
  <2>2. ASSUME NEW k, NEW x, Turn(s, k, x)' PROVE Turn(s, k, x) \/ (k = "completed" /\ x = 0)
    BY <1>1, <1>2, <1>3, <2>2 DEF Turn, Asked, Importing
  <2>3. PassesOn(s, "handler", h, "completed", 0) BY <2>1, <2>2 DEF PassesOn
  <2> QED BY <2>3 DEF Passes
<1>4. CASE s # job[h].src
  <2>1. completed'[s] = completed[s] BY <1>1, <1>4
  <2>2. ASSUME NEW k, NEW x, Turn(s, k, x)' PROVE Turn(s, k, x)
    <3>1. CASE k = "handler" BY <1>1, <1>2, <2>2, <3>1 DEF Turn, Call, Asked, Importing
    <3>2. CASE k # "handler" BY <1>1, <1>2, <2>1, <2>2, <3>2 DEF Turn
    <3> QED BY <3>1, <3>2
  <2> QED BY <2>2 DEF Keeps
<1> QED BY <1>3, <1>4

\* ... the handler that resets the flags takes the turns of both sources ...
LEMMA ResetTurn ==
    ASSUME HandlersInv, ElsewhereAlone, ResetSeesBoth, NEW h \in Handler, Reset(h),
           NEW s \in Source
    PROVE  Keeps(s) \/ Passes(s)
<1> USE DEF HandlersInv, ElsewhereAlone, Reset, At, Goto
<1>1. /\ pc[h] = "reset" /\ pc \in [Handler -> Step] /\ completed[s] /\ ~completed'[s]
      /\ UNCHANGED <<inbox, job, requests, responses, importFinished>>
  BY DEF ImportTypeOK, ResetSeesBoth
<1>2. pc'[h] = "publish" /\ \A g \in Handler \ {h} : pc'[g] = pc[g] BY <1>1
<1>3. Turn(s, "completed", 0) /\ ~Turn(s, "completed", 0)'
  BY <1>1 DEF Turn, Call
<1>4. ASSUME NEW k, NEW x, Turn(s, k, x)' PROVE Turn(s, k, x) \/ (k = "publish" /\ x = h)
  BY <1>1, <1>2, <1>4 DEF Turn, Asked, Importing
<1>5. PassesOn(s, "completed", 0, "publish", h) BY <1>3, <1>4 DEF PassesOn
<1> QED BY <1>5 DEF Passes

\* ... and the announcement takes them from it.
LEMMA AnnouncementTurn ==
    ASSUME HandlersInv, ElsewhereAlone, NEW h \in Handler, PublishImportFinished(h),
           NEW s \in Source
    PROVE  Keeps(s) \/ Passes(s)
<1> USE DEF HandlersInv, ElsewhereAlone, PublishImportFinished, At, Return
<1>1. /\ pc[h] = "publish" /\ pc \in [Handler -> Step] /\ importFinished \in Nat
      /\ job \in [Handler -> Job \cup {NoJob}]
      /\ importFinished' \in {importFinished, importFinished + 1}
      /\ UNCHANGED <<inbox, requests, responses, completed>>
  BY DEF ImportTypeOK
<1>2. pc'[h] = "idle" /\ \A g \in Handler \ {h} : pc'[g] = pc[g] /\ job'[g] = job[g]
  BY <1>1
<1>3. PICK n : n = importFinished + 1 OBVIOUS
<1>4. clustered' + 1 .. importFinished' \subseteq clustered + 1 .. importFinished \cup {n}
  BY <1>1, <1>3
<1>5. Turn(s, "publish", h) /\ ~Turn(s, "publish", h)'
  BY <1>1, <1>2 DEF Turn, Call
<1>6. ASSUME NEW k, NEW x, Turn(s, k, x)' PROVE Turn(s, k, x) \/ (k = "announced" /\ x = n)
  BY <1>1, <1>2, <1>4, <1>6 DEF Turn, Asked, Importing
<1>7. PassesOn(s, "publish", h, "announced", n) BY <1>5, <1>6 DEF PassesOn
<1> QED BY <1>7 DEF Passes

LEMMA ImportStepTurn ==
    ASSUME HandlersInv, ElsewhereAlone, ResetSeesBoth, ImportStep, NEW s \in Source
    PROVE  Keeps(s) \/ Passes(s)
<1> USE DEF At, Goto, Return
<1>1. PICK h \in Handler :
        \/ \E t \in Source : Receive(h, t)
        \/ Acquire(h) \/ SendStage(h) \/ StageAnswered(h) \/ SendMerge(h)
        \/ MergeAnswered(h) \/ Release(h) \/ Complete(h) \/ Check(h) \/ Reset(h)
        \/ PublishImportFinished(h)
  BY DEF ImportStep
<1>2. pc \in [Handler -> Step] /\ job \in [Handler -> Job \cup {NoJob}]
  BY DEF HandlersInv, ImportTypeOK
<1>3. CASE Acquire(h)
  <2>1. pc'[h] \in {"release", "stage"} /\ pc[h] = "acquire"
        /\ \A g \in Handler \ {h} : pc'[g] = pc[g]
    BY <1>2, <1>3 DEF Acquire
  <2> QED BY <1>3, <2>1, HandlerKeepsTurn DEF Acquire, Waiting, Importing
<1>4. CASE SendStage(h) \/ SendMerge(h)
  BY <1>4, SendTurn DEF SendStage, SendMerge, WaitingFor, Call
<1>5. CASE StageAnswered(h) \/ MergeAnswered(h)
  BY <1>5, AnsweredTurn DEF StageAnswered, MergeAnswered, WaitingFor, Call
<1>6. CASE Release(h)
  <2>1. pc'[h] = "complete" /\ pc[h] = "release"
        /\ \A g \in Handler \ {h} : pc'[g] = pc[g]
    BY <1>2, <1>6 DEF Release
  <2> QED BY <1>6, <2>1, HandlerKeepsTurn DEF Release, Waiting, Importing
<1>7. CASE Check(h)
  <2>1. /\ pc[h] = "check" /\ pc'[h] \in {"reset", "idle"}
        /\ \A g \in Handler \ {h} : pc'[g] = pc[g] /\ job'[g] = job[g]
        /\ UNCHANGED <<inbox, requests, responses, completed, importFinished>>
    BY <1>2, <1>7 DEF Check
  <2>2. ASSUME NEW k, NEW x, Turn(s, k, x)' PROVE Turn(s, k, x)
    BY <2>1, <2>2 DEF Turn, Asked, Importing, ElsewhereAlone
  <2> QED BY <2>2 DEF Keeps
<1> QED
  BY <1>1, <1>3, <1>4, <1>5, <1>6, <1>7, ReceiveTurn, CompleteTurn, ResetTurn,
     AnnouncementTurn

-----------------------------------------------------------------------------
(* DbInteractions, and crashes *)

\* What Import has, but for its responses, is left alone by DbInteractions.
LEMMA AdvanceTurn ==
    ASSUME ElsewhereAlone, UNCHANGED <<importVars, responses>>, requests \subseteq Request,
           NEW r \in requests, NEW step, r.at # step, Advance(r, step), NEW s \in Source
    PROVE  Keeps(s) \/ Passes(s)
<1> USE DEF ElsewhereAlone
<1>1. PICK q : q = [r EXCEPT !.at = step] OBVIOUS
<1>2. requests' = (requests \ {r}) \cup {q} /\ q.src = r.src /\ q # r
  BY <1>1 DEF Advance, Request
<1>3. Asked(s)' <=> Asked(s) BY <1>2 DEF Asked
<1>4. CASE s = r.src
  <2>1. Turn(s, "request", r) /\ ~Turn(s, "request", r)'
    BY <1>2, <1>4 DEF Turn, Call
  <2>2. ASSUME NEW k, NEW x, Turn(s, k, x)' PROVE Turn(s, k, x) \/ (k = "request" /\ x = q)
    BY <1>2, <1>3, <2>2 DEF Turn
  <2>3. PassesOn(s, "request", r, "request", q) BY <2>1, <2>2 DEF PassesOn
  <2> QED BY <2>3 DEF Passes
<1>5. CASE s # r.src
  <2>1. ASSUME NEW k, NEW x, Turn(s, k, x)' PROVE Turn(s, k, x)
    BY <1>2, <1>3, <1>5, <2>1 DEF Turn
  <2> QED BY <2>1 DEF Keeps
<1> QED BY <1>4, <1>5

\* The response takes the turn from the request.
LEMMA ReplyTurn ==
    ASSUME HandlersInv, ElsewhereAlone, NEW r \in requests, Reply(r), NEW s \in Source
    PROVE  Keeps(s) \/ Passes(s)
<1> USE DEF HandlersInv, ElsewhereAlone
<1>1. /\ r.src \in Source /\ r.op \in Call /\ requests' = requests \ {r}
      /\ responses \in [Source -> [Call -> Nat]]
      /\ responses' = [responses EXCEPT ![r.src][r.op] = @ + 1]
      /\ UNCHANGED importVars
  BY DEF ImportTypeOK, Request, Reply
<1>2. CASE s = r.src
  <2>1. PICK n : n = responses[s][r.op] + 1 OBVIOUS
  <2>2. /\ responses'[s][r.op] = n /\ n > 0 /\ n \in Nat
        /\ 1 .. n = 1 .. responses[s][r.op] \cup {n}
        /\ \A o \in Call \ {r.op} : responses'[s][o] = responses[s][o]
    <3>1. responses[s] \in [Call -> Nat] /\ responses[s][r.op] \in Nat BY <1>1, <1>2
    <3>2. responses'[s] = [responses[s] EXCEPT ![r.op] = @ + 1] BY <1>1, <1>2
    <3>3. /\ responses'[s][r.op] = responses[s][r.op] + 1
          /\ \A o \in Call \ {r.op} : responses'[s][o] = responses[s][o]
      BY <1>1, <3>1, <3>2
    <3>4. \A i \in Nat : 1 .. i + 1 = 1 .. i \cup {i + 1} OBVIOUS
    <3> HIDE DEF HandlersInv, ElsewhereAlone
    <3> QED BY <2>1, <3>1, <3>3, <3>4
  <2>3. Asked(s)' BY <1>1, <2>2 DEF Asked
  <2>4. Turn(s, "request", r) /\ ~Turn(s, "request", r)'
    BY <1>1, <1>2 DEF Turn, Call
  <2>5. ASSUME NEW k, NEW x, Turn(s, k, x)' PROVE Turn(s, k, x) \/ (k = r.op /\ x = n)
    <3>1. CASE k \in Call
      <4>1. x \in 1 .. responses'[s][k] BY <2>5, <3>1 DEF Turn, Call
      <4>2. x \in 1 .. responses[s][k] \/ (k = r.op /\ x = n) BY <2>2, <3>1, <4>1
      <4> QED BY <3>1, <4>2 DEF Turn
    <3>2. CASE k = "handler"
      <4>1. x \in Handler /\ pc[x] \in Importing /\ job[x].src = s /\ pc[x] \notin Waiting
        BY <1>1, <2>3, <2>5, <3>2 DEF Turn, Call
      <4> QED BY <3>2, <4>1 DEF Turn
    <3>3. CASE k \notin Call \cup {"handler"} BY <1>1, <2>5, <3>3 DEF Turn
    <3> QED BY <3>1, <3>2, <3>3
  <2>6. PassesOn(s, "request", r, r.op, n) BY <2>4, <2>5 DEF PassesOn
  <2> QED BY <2>6 DEF Passes
<1>3. CASE s # r.src
  <2>1. responses'[s] = responses[s] BY <1>1, <1>3
  <2>2. Asked(s)' <=> Asked(s) BY <1>1, <1>3, <2>1 DEF Asked
  <2>3. ASSUME NEW k, NEW x, Turn(s, k, x)' PROVE Turn(s, k, x)
    BY <1>1, <1>3, <2>1, <2>2, <2>3 DEF Turn
  <2> QED BY <2>3 DEF Keeps
<1> QED BY <1>2, <1>3

LEMMA DbStepTurn ==
    ASSUME HandlersInv, ElsewhereAlone, DbStep, NEW s \in Source
    PROVE  Keeps(s) \/ Passes(s)
<1>1. requests \subseteq Request BY DEF HandlersInv, ImportTypeOK
<1>2. PICK r \in requests :
        RunStage(r) \/ RunMerge(r) \/ ClearAfterMerge(r) \/ Reply(r)
  BY DEF DbStep
<1>3. CASE RunStage(r) BY <1>1, <1>3, AdvanceTurn DEF RunStage
<1>4. CASE RunMerge(r) BY <1>1, <1>4, AdvanceTurn DEF RunMerge
<1>5. CASE ClearAfterMerge(r) BY <1>1, <1>5, AdvanceTurn DEF ClearAfterMerge
<1> QED BY <1>2, <1>3, <1>4, <1>5, ReplyTurn

\* With a handler its turn is lost, but not that of its request; the turn of a lost
\* request goes back to the handler that waits, of which there is one.
LEMMA CrashTurn ==
    ASSUME HandlersInv, ElsewhereAlone, Crash, NEW s \in Source
    PROVE  Keeps(s) \/ Passes(s)
<1> USE DEF HandlersInv, ElsewhereAlone
<1>1. CASE ImportCrash
  <2>1. ASSUME NEW k, NEW x, Turn(s, k, x)' PROVE Turn(s, k, x)
    BY <1>1, <2>1 DEF ImportCrash, Turn, Asked, Importing
  <2> QED BY <2>1 DEF Keeps
<1>2. CASE DbCrash
  <2>1. requests' \subseteq requests /\ UNCHANGED <<importVars, responses>>
    BY <1>2 DEF DbCrash
  <2>2. CASE Asked(s) => Asked(s)'
    <3>1. ASSUME NEW k, NEW x, Turn(s, k, x)' PROVE Turn(s, k, x)
      BY <2>1, <2>2, <3>1 DEF Turn
    <3> QED BY <3>1 DEF Keeps
  <2>3. CASE Asked(s) /\ ~Asked(s)'
    <3>1. PICK r \in requests : r.src = s BY <2>1, <2>3 DEF Asked
    <3>2. r \notin requests' BY <2>3, <3>1 DEF Asked
    <3>3. Turn(s, "request", r) /\ ~Turn(s, "request", r)'
      BY <3>1, <3>2 DEF Turn, Call
    <3>4. PICK g : \A h \in Handler : pc[h] \in Waiting => h = g
      BY DEF Exclusive
    <3>5. ASSUME NEW k, NEW x, Turn(s, k, x)' PROVE Turn(s, k, x) \/ (k = "handler" /\ x = g)
      BY <2>1, <3>4, <3>5 DEF Turn
    <3>6. PassesOn(s, "request", r, "handler", g) BY <3>3, <3>5 DEF PassesOn
    <3> QED BY <3>6 DEF Passes
  <2> QED BY <2>2, <2>3
<1> QED BY <1>1, <1>2 DEF Crash

-----------------------------------------------------------------------------
(* The invariant *)

LEMMA OneRunningKept ==
    ASSUME ImportTypeOK, OneRunning, ~Preemption, ImportStep
    PROVE  OneRunning'
<1>1. PICK h \in Handler :
        /\ \A g \in Handler \ {h} : ~Running(g)
        /\ \A g \in Handler \ {h} : pc'[g] = pc[g]
  <2>1. PICK h \in Handler : MayRun(h) /\
        \/ \E s \in Source : Receive(h, s)
        \/ Acquire(h) \/ SendStage(h) \/ StageAnswered(h) \/ SendMerge(h)
        \/ MergeAnswered(h) \/ Release(h) \/ Complete(h) \/ Check(h) \/ Reset(h)
        \/ PublishImportFinished(h)
    BY DEF ImportStep
  <2>2. \E to : pc' = [pc EXCEPT ![h] = to]
    BY <2>1 DEF Receive, Acquire, SendStage, StageAnswered, SendMerge, MergeAnswered, Send,
         Answered, Release, Complete, Check, Reset, PublishImportFinished, Goto, Return
  <2>3. \A g \in Handler \ {h} : pc'[g] = pc[g] BY <2>2 DEF ImportTypeOK
  <2> QED BY <2>1, <2>3 DEF MayRun
<1>2. \A g \in Handler \ {h} : ~Running(g)' BY <1>1 DEF Running
<1> QED BY <1>2 DEF OneRunning

LEMMA ResetSeesBothKept ==
    ASSUME ImportTypeOK, OneRunning, ResetSeesBoth, ImportStep
    PROVE  ResetSeesBoth'
<1> USE DEF At, Goto, Return
<1>1. pc \in [Handler -> Step] /\ completed \in [Source -> BOOLEAN] BY DEF ImportTypeOK
<1>2. PICK h \in Handler :
        \/ \E s \in Source : Receive(h, s)
        \/ Acquire(h) \/ SendStage(h) \/ StageAnswered(h) \/ SendMerge(h)
        \/ MergeAnswered(h) \/ Release(h) \/ Complete(h) \/ Check(h) \/ Reset(h)
        \/ PublishImportFinished(h)
  BY DEF ImportStep
<1>3. CASE Check(h) BY <1>1, <1>3 DEF Check, ResetSeesBoth
<1>4. CASE Reset(h)
  <2>1. \A g \in Handler : pc'[g] # "reset"
    BY <1>1, <1>4 DEF Reset, OneRunning, Running
  <2> QED BY <2>1 DEF ResetSeesBoth
<1>5. CASE Complete(h)
  <2>1. /\ \A g \in Handler : pc'[g] = "reset" => pc[g] = "reset"
        /\ \A s \in Source : completed[s] => completed'[s]
    BY <1>1, <1>5 DEF Complete
  <2> QED BY <2>1 DEF ResetSeesBoth
<1>6. CASE ~Check(h) /\ ~Reset(h) /\ ~Complete(h)
  <2>1. UNCHANGED completed /\ \E to : to # "reset" /\ pc' = [pc EXCEPT ![h] = to]
    BY <1>2, <1>6 DEF Receive, Acquire, SendStage, StageAnswered, SendMerge, MergeAnswered,
         Send, Answered, Release, PublishImportFinished
  <2> QED BY <1>1, <2>1 DEF ResetSeesBoth
<1> QED BY <1>3, <1>4, <1>5, <1>6

\* The handlers of Import between the steps of Import.
LEMMA RunningAlone ==
    ASSUME OneRunning, ResetSeesBoth, UNCHANGED <<pc, completed>>
    PROVE  OneRunning' /\ ResetSeesBoth'
BY DEF OneRunning, Running, ResetSeesBoth

LEMMA StepTurnInv ==
    ASSUME OneAtATime, TurnInv, [Next]_vars
    PROVE  TurnInv'
<1>1. TypeInv' /\ Exclusive'
  BY IngestStepType, IngestStepExclusive DEF TurnInv, TypeInv
<1>2. HandlersInv /\ TypeOK /\ TypeInv /\ OneRunning /\ ResetSeesBoth
  BY DEF TurnInv, TypeInv, TypeOK, HandlersInv
<1>3. ASSUME \A s \in Source : Keeps(s) \/ Passes(s) PROVE OneTurn'
  <2>1. \A s \in Source : OneTurnOf(s)' BY <1>3, StillOneTurn DEF TurnInv, OneTurn
  <2> QED BY <2>1 DEF OneTurn
<1>4. CASE WithSync(SyncNext(UnderWay))
  <2> HIDE DEF UnderWay
  <2>1. UNCHANGED <<inbox, importIdle, parseVars>> /\ SyncNext(UnderWay)
    BY <1>4 DEF WithSync
  <2>2. ~Timer(UnderWay) /\ ~Restart
    BY <1>2 DEF OneAtATime, Timer, Restart, TypeOK, FileSyncTypeOK
  <2>3. ASSUME Completion PROVE OneTurn'
    BY <1>2, <1>3, <2>1, <2>3, CompletionTurn
  <2>4. ASSUME PublishDelius \/ PublishOffloc PROVE OneTurn'
    BY <1>2, <1>3, <2>1, <2>4, PublishTurn
  <2>5. ASSUME Process, ~PublishDelius, ~PublishOffloc PROVE OneTurn'
    <3>1. UNCHANGED <<downloads, work, inbox, pc, job, requests, responses, completed,
                       clustered, importFinished, completions>>
      BY <2>1, <2>5, ProcessLeaves
    <3>2. \A s \in Source : Keeps(s)
      <4> TAKE s \in Source
      <4>1. Turn(s, "sync", 0)' => Turn(s, "sync", 0) BY <1>2, <2>5, ProcessTurn
      <4> QED BY <3>1, <4>1, CycleOnly
    <3> QED BY <1>3, <3>2
  <2>6. OneTurn' BY <2>1, <2>2, <2>3, <2>4, <2>5 DEF SyncNext
  <2> QED BY <1>1, <1>2, <2>1, <2>6, RunningAlone DEF TurnInv
<1>5. CASE WithSync(Tidy) \/ (\E s \in Source : WithSync(Arrive(s))) \/ UNCHANGED vars
  <2>1. UNCHANGED <<sync, downloads, work, inbox, pc, job, requests, responses, completed,
                     clustered, importFinished, completions>>
    BY <1>5 DEF WithSync, Tidy, Arrive, vars
  <2>2. \A s \in Source : Keeps(s)
    <3> TAKE s \in Source
    <3>1. Turn(s, "sync", 0)' => Turn(s, "sync", 0) BY <2>1 DEF Turn, Call
    <3> QED BY <2>1, <3>1, CycleOnly
  <2> QED BY <1>1, <1>2, <1>3, <2>1, <2>2, RunningAlone DEF TurnInv
<1>6. CASE ParseStep
  <2>1. \A s \in Source : Keeps(s) \/ Passes(s)
    BY <1>2, <1>6, TakeUpTurn, WorkOnTurn DEF ParseStep
  <2>2. UNCHANGED <<pc, completed>>
    BY <1>6 DEF ParseStep, WorkOn, TakeUp, Ask, Skip, Create, Clean, CleanNothing,
                Replace, ReplaceNothing, StartParse, Parse, ParseNothing, Finish
  <2> QED BY <1>1, <1>2, <1>3, <2>1, <2>2, RunningAlone DEF TurnInv
<1>7. CASE Cluster
  <2>1. UNCHANGED <<pc, completed>> BY <1>7 DEF Cluster
  <2> QED BY <1>1, <1>2, <1>3, <1>7, <2>1, ClusterTurn, RunningAlone DEF TurnInv
<1>8. CASE WithImport(ImportStep)
  <2>1. ImportStep /\ ElsewhereAlone BY <1>8 DEF WithImport, ElsewhereAlone
  <2>2. OneRunning' /\ ResetSeesBoth'
    BY <1>2, <2>1, OneRunningKept, ResetSeesBothKept DEF OneAtATime, TypeOK
  <2> QED BY <1>1, <1>2, <1>3, <2>1, <2>2, ImportStepTurn DEF TurnInv
<1>9. CASE WithImport(DbStep)
  <2>1. DbStep /\ ElsewhereAlone BY <1>9 DEF WithImport, ElsewhereAlone
  <2>2. UNCHANGED <<pc, completed>>
    BY <2>1 DEF DbStep, RunStage, RunMerge, ClearAfterMerge, Reply
  <2> QED BY <1>1, <1>2, <1>3, <2>1, <2>2, DbStepTurn, RunningAlone DEF TurnInv
<1>10. CASE Crash /\ UNCHANGED <<syncVars, parseVars>>
  <2>1. Crash /\ ElsewhereAlone BY <1>10 DEF ElsewhereAlone
  <2>2. OneRunning' /\ ResetSeesBoth'
    <3>1. CASE ImportCrash BY <3>1 DEF ImportCrash, OneRunning, Running, ResetSeesBoth
    <3>2. CASE DbCrash
      <4>1. UNCHANGED <<pc, completed>> BY <3>2 DEF DbCrash
      <4> QED BY <1>2, <4>1, RunningAlone
    <3> QED BY <2>1, <3>1, <3>2 DEF Crash
  <2> QED BY <1>1, <1>2, <1>3, <2>1, <2>2, CrashTurn DEF TurnInv
<1> QED BY <1>4, <1>5, <1>6, <1>7, <1>8, <1>9, <1>10 DEF Next

LEMMA InitTurnInv == Init => TurnInv
<1> SUFFICES ASSUME Init PROVE TurnInv OBVIOUS
<1>1. TypeInv /\ Exclusive BY IngestInitType, InitExclusive DEF Init
<1>2. \A s \in Source : OneTurnOf(s)
  <2> TAKE s \in Source
  <2>1. ASSUME NEW k, NEW x, Turn(s, k, x) PROVE k = "sync" /\ x = 0
    <3>1. Len(<<>>) = 0 BY EmptySeq
    <3> QED
      BY <2>1, <3>1 DEF Turn, Init, ImportInit, FileSyncInit, Importing, Call
  <2> QED BY <2>1 DEF OneTurnOf
<1>3. OneRunning /\ ResetSeesBoth
  BY DEF Init, ImportInit, OneRunning, Running, ResetSeesBoth
<1> QED BY <1>1, <1>2, <1>3 DEF TurnInv, OneTurn

-----------------------------------------------------------------------------
\* The files of a source are handed over in turns: while FileSync looks for one, none
\* is queued, with a parser, with Import or with DbInteractions, however Import and
\* DbInteractions crash in between.
THEOREM BatchesTakeTurns == OneAtATime => (Spec => [](OneTurn /\ OneRunning))
<1> SUFFICES ASSUME OneAtATime PROVE Spec => [](OneTurn /\ OneRunning) OBVIOUS
<1>1. TurnInv /\ [Next]_vars => TurnInv' BY StepTurnInv
<1>2. TurnInv => OneTurn /\ OneRunning BY DEF TurnInv
<1> QED BY InitTurnInv, <1>1, <1>2, PTL DEF Spec

-----------------------------------------------------------------------------
(* Rows *)

\* The row of f becomes the one of s written last; there is no other new row of s.
Writes(s, f) ==
    /\ latest'[s] = f /\ table'[s][f] # "None"
    /\ \A g \in File \ {f} : HasRow(s, g)' <=> HasRow(s, g)
\* The rows of s are left alone.
SameRows(s) == latest'[s] = latest[s] /\ \A g \in File : HasRow(s, g)' <=> HasRow(s, g)

LEMMA SetStatusRows ==
    ASSUME DbTypeOK, NEW t \in Source, NEW f \in File, NEW status \in Status \ {"None"},
           SetStatus(t, f, status), NEW s \in Source
    PROVE  SameRows(s) \/ (s = t /\ HasRow(s, f) /\ Writes(s, f))
<1> USE DEF DbTypeOK, HasRow
<1>1. CASE HasRow(t, f)
  <2>1. table' = [table EXCEPT ![t][f] = status] /\ latest' = [latest EXCEPT ![t] = f]
    BY <1>1 DEF SetStatus
  <2>2. s = t => Writes(s, f) BY <2>1 DEF Writes
  <2>3. s # t => SameRows(s) BY <2>1 DEF SameRows
  <2> QED BY <1>1, <2>2, <2>3
<1>2. CASE ~HasRow(t, f) BY <1>2 DEF SetStatus, SameRows
<1> QED BY <1>1, <1>2

LEMMA CreateRows ==
    ASSUME DbTypeOK, NEW t \in Source, NEW f \in File, CreateProcessedFileEntry(t, f),
           NEW s \in Source
    PROVE  SameRows(s) \/ (s = t /\ Writes(s, f))
<1> USE DEF DbTypeOK, HasRow
<1>1. CASE table' = [table EXCEPT ![t][f] = "Processing"] /\ latest' = [latest EXCEPT ![t] = f]
  <2>1. s = t => Writes(s, f) BY <1>1 DEF Writes
  <2>2. s # t => SameRows(s) BY <1>1 DEF SameRows
  <2> QED BY <2>1, <2>2
<1>2. CASE UNCHANGED dbVars BY <1>2 DEF SameRows
<1> QED BY <1>1, <1>2 DEF CreateProcessedFileEntry, Swallowed

\* Within a cycle FileSync writes no row but the one of an archive's content.
LEMMA ProcessTable ==
    ASSUME Process
    PROVE  UNCHANGED <<table, picture>> /\ (~PickProcessedArchive => UNCHANGED latest)
BY DEF Process, ReadyDelius, ReadyOffloc, ClearDelius, ClearOffloc, ClearStep, ClearStaging,
       Swallowed, ClearInput, PickDelius, PickNothing, PickFile, PickAmbiguousArchive,
       PickProcessedArchive, PickArchive, GateDelius, GateOffloc, PublishDelius,
       PublishOffloc

\* Rows are written for a file a parser has taken up, by the request for a file
\* that has a row, and by FileSync for the content of an archive.
LEMMA RowsAreWritten ==
    ASSUME TypeInv, [Next]_vars, NEW s \in Source
    PROVE  \/ SameRows(s)
           \/ \E w \in Worker : /\ work[w] # Unused /\ work[w].src = s
                                /\ Create(w) /\ Writes(s, work[w].file)
           \/ \E r \in requests : /\ r.src = s /\ (RunStage(r) \/ RunMerge(r))
                                  /\ HasRow(s, r.file) /\ Writes(s, r.file)
           \/ s = "offloc" /\ \E a \in Archive : /\ PickProcessedArchive
                                /\ HasRow(s, Content[a]) /\ Writes(s, Content[a])
<1>1. DbTypeOK BY DEF TypeInv, TypeOK, ImportTypeOK
<1>2. CASE UNCHANGED <<table, latest>> BY <1>2 DEF SameRows, HasRow
<1>3. CASE WithSync(SyncNext(UnderWay))
  <2>1. CASE PickProcessedArchive
    <3>1. PICK a \in Archive : /\ HasRow("offloc", Content[a])
                               /\ latest' = [latest EXCEPT !["offloc"] = Content[a]]
      BY <2>1 DEF PickProcessedArchive
    <3>2. table' = table BY <2>1 DEF PickProcessedArchive
    <3>3. s = "offloc" => Writes(s, Content[a])
      BY <1>1, <3>1, <3>2 DEF Writes, HasRow, DbTypeOK, Source
    <3>4. s # "offloc" => SameRows(s)
      BY <1>1, <3>1, <3>2 DEF SameRows, HasRow, DbTypeOK, Source
    <3> QED BY <2>1, <3>1, <3>3, <3>4
  <2>2. CASE ~PickProcessedArchive
    <3>1. CASE Process
      <4>1. UNCHANGED <<table, latest>> BY <2>2, <3>1, ProcessTable
      <4> QED BY <1>2, <4>1
    <3>2. CASE Timer(UnderWay) \/ Completion \/ Restart
      BY <1>2, <3>2 DEF Timer, Completion, Restart
    <3> QED BY <1>3, <3>1, <3>2 DEF WithSync, SyncNext
  <2> QED BY <2>1, <2>2
<1>4. CASE WithSync(Tidy) \/ (\E t \in Source : WithSync(Arrive(t))) \/ UNCHANGED vars
  BY <1>2, <1>4 DEF WithSync, Tidy, Arrive, vars
<1>5. CASE ParseStep
  <2>1. ASSUME NEW w \in Worker, Create(w)
        PROVE  SameRows(s) \/ (/\ work[w] # Unused /\ work[w].src = s
                               /\ Writes(s, work[w].file))
    <3>1. work[w] # Unused /\ work[w].src \in Source /\ work[w].file \in File
      BY <2>1, InHandIs DEF TypeInv, Create, WorkAt, WorkStep, Unused
    <3>2. CreateProcessedFileEntry(work[w].src, work[w].file) BY <2>1 DEF Create
    <3> QED BY <1>1, <3>1, <3>2, CreateRows
  <2>2. (\E w \in Worker : Create(w)) \/ UNCHANGED <<table, latest>>
    BY <1>5 DEF ParseStep, WorkOn, TakeUp, Ask, Skip, Clean, CleanNothing,
                Replace, ReplaceNothing, StartParse, Parse, ParseNothing, Finish
  <2> QED BY <1>2, <2>1, <2>2
<1>6. CASE Cluster BY <1>2, <1>6 DEF Cluster
<1>7. CASE WithImport(ImportStep)
  <2>1. UNCHANGED <<table, latest>>
    BY <1>7 DEF WithImport, ImportStep, Receive, Acquire, SendStage, StageAnswered, SendMerge,
         MergeAnswered, Send, Answered, Release, Complete, Check, Reset, PublishImportFinished
  <2> QED BY <1>2, <2>1
<1>8. CASE WithImport(DbStep)
  <2>1. PICK r \in requests : RunStage(r) \/ RunMerge(r) \/ ClearAfterMerge(r) \/ Reply(r)
    BY <1>8 DEF WithImport, DbStep
  <2>2. r.src \in Source /\ r.file \in File
    BY DEF TypeInv, TypeOK, ImportTypeOK, Request
  <2>3. CASE RunStage(r) \/ RunMerge(r)
    <3>1. (\E status \in Status \ {"None"} : SetStatus(r.src, r.file, status))
            \/ UNCHANGED <<table, latest>>
      BY <2>3 DEF RunStage, RunMerge, Stage, Merge, Swallowed, Status
    <3> QED BY <1>1, <1>2, <2>2, <2>3, <3>1, SetStatusRows
  <2>4. CASE ClearAfterMerge(r) \/ Reply(r)
    BY <1>2, <2>4 DEF ClearAfterMerge, ClearStaging, Swallowed, Reply
  <2> QED BY <2>1, <2>3, <2>4
<1>9. CASE Crash BY <1>2, <1>9 DEF Crash, ImportCrash, DbCrash
<1> QED BY <1>3, <1>4, <1>5, <1>6, <1>7, <1>8, <1>9 DEF Next

\* Only a source with a file at a parser gets a row it did not have.
LEMMA NewRows ==
    ASSUME TypeInv, [Next]_vars, NEW s \in Source, NEW f \in File,
           HasRow(s, f)', ~HasRow(s, f)
    PROVE  \E w \in Worker : Turn(s, "work", w)'
<1>1. ASSUME NEW g, Writes(s, g), HasRow(s, g) PROVE FALSE BY <1>1 DEF Writes
<1>2. PICK w \in Worker : work[w] # Unused /\ work[w].src = s /\ Create(w)
  BY <1>1, RowsAreWritten DEF SameRows
<1>3. work'[w].src = s /\ work'[w] # Unused
  <2>1. work \in [Worker -> Work] BY DEF TypeInv, TypeOK
  <2>2. work[w] \in [at : WorkStep, src : Source, file : File, archive : Archive \cup {NoFile}]
    BY <1>2, <2>1 DEF Work
  <2>3. PICK at \in {"clean", "parse"} : work' = [work EXCEPT ![w] = [work[w] EXCEPT !.at = at]]
    BY <1>2 DEF Create, WorkGoto
  <2> QED BY <1>2, <2>1, <2>2, <2>3 DEF Unused
<1> QED BY <1>3 DEF Turn

-----------------------------------------------------------------------------
(* No file is handed over that has a row or is waiting *)

\* While FileSync has a file it looked up no row for, none is written for it.
PicksAreNew ==
    \A s \in Source :
        Turn(s, "sync", 0) /\ sync.pick[s] \in File => ~HasRow(s, sync.pick[s])

\* Where the cycle goes with an Offloc file it does not look at Delius again.
LEMMA WithOfflocPicks ==
    ASSUME FileSyncTypeOK, NEW f \in File \cup {NoFile}, NEW a, WithOffloc(f, a)
    PROVE  /\ sync'.pick["delius"] \in {NoFile, sync.pick["delius"]}
           /\ sync'.pick["offloc"] \in {NoFile, f}
<1>1. sync \in Sync BY DEF FileSyncTypeOK, Sync
<1> QED BY <1>1 DEF WithOffloc, Done, Start, Sync, Source

\* A file FileSync takes has no row; the one it has, it keeps.
LEMMA SyncPicks ==
    ASSUME TypeInv, SyncNext(UnderWay), NEW s \in Source, sync'.pick[s] \in File
    PROVE  ~HasRow(s, sync'.pick[s]) \/ (sync.at # "idle" /\ sync'.pick[s] = sync.pick[s])
<1> USE NoFileAssumption DEF SyncAt, SyncGoto
<1>1. sync \in Sync /\ FileSyncTypeOK BY DEF TypeInv, TypeOK, FileSyncTypeOK, Sync
<1>2. \A at : Start(at).pick[s] = NoFile BY DEF Start
<1>3. \A t \in Source, f \in File : f \in Oldest(t) => ~HasRow(t, f)
  BY DEF Oldest, Processed
<1>4. CASE PickDelius
  <2>1. CASE s = "delius" BY <1>1, <1>3, <1>4, <2>1 DEF PickDelius, Sync, Source
  <2>2. CASE s = "offloc"
    <3>1. SyncGoto("pickOffloc") \/
          \E f : sync' = [sync EXCEPT !.at = "pickOffloc",
                                     !.pick = [sync.pick EXCEPT !["delius"] = f]]
      BY <1>4 DEF PickDelius
    <3>2. sync'.pick[s] = sync.pick[s] BY <1>1, <2>2, <3>1 DEF Sync, Source
    <3> QED BY <1>4, <3>2 DEF PickDelius
  <2> QED BY <2>1, <2>2 DEF Source
<1>5. ASSUME NEW f \in File \cup {NoFile}, NEW a, WithOffloc(f, a), sync.at = "pickOffloc",
             f # NoFile => ~HasRow("offloc", f)
      PROVE  ~HasRow(s, sync'.pick[s]) \/ (sync.at # "idle" /\ sync'.pick[s] = sync.pick[s])
  <2>1. CASE s = "delius" BY <1>1, <1>5, <2>1, WithOfflocPicks
  <2>2. CASE s = "offloc" BY <1>1, <1>5, <2>2, WithOfflocPicks
  <2> QED BY <2>1, <2>2 DEF Source
<1>6. CASE PickNothing BY <1>5, <1>6 DEF PickNothing
<1>7. CASE PickFile BY <1>3, <1>5, <1>7 DEF PickFile, Source
<1>8. CASE PickArchive BY <1>5, <1>8, FileSyncAssumption DEF PickArchive
<1>9. CASE Timer(UnderWay) \/ Restart \/ PickAmbiguousArchive
  BY <1>2, <1>9 DEF Timer, Restart, PickAmbiguousArchive, Launch, Done
<1>10. CASE Completion BY <1>2, <1>10 DEF Completion
<1>11. CASE ReadyDelius \/ ReadyOffloc \/ GateDelius \/ GateOffloc
  BY <1>1, <1>2, <1>11 DEF ReadyDelius, ReadyOffloc, GateDelius, GateOffloc, Done, Sync
<1>12. CASE ClearDelius \/ ClearOffloc \/ ClearInput
  BY <1>1, <1>12 DEF ClearDelius, ClearOffloc, ClearStep, ClearInput, Sync
<1>13. CASE PickProcessedArchive BY <1>13 DEF PickProcessedArchive
<1>14. CASE PublishDelius \/ PublishOffloc
  BY <1>1, <1>2, <1>14 DEF PublishDelius, PublishOffloc, Done, Sync
<1> QED
  BY <1>4, <1>6, <1>7, <1>8, <1>9, <1>10, <1>11, <1>12, <1>13, <1>14 DEF SyncNext, Process

\* FileSync is alone with its variables.
LEMMA SyncAlone ==
    ASSUME [Next]_vars
    PROVE  WithSync(SyncNext(UnderWay)) \/ UNCHANGED sync
<1>1. CASE ParseStep
  BY <1>1 DEF ParseStep, WorkOn, TakeUp, Ask, Skip, Create, Clean, CleanNothing,
              Replace, ReplaceNothing, StartParse, Parse, ParseNothing, Finish
<1>2. CASE ~ParseStep
  BY <1>2 DEF Next, WithSync, Tidy, Arrive, Cluster, WithImport, vars
<1> QED BY <1>1, <1>2

\* A message to Offloc is the last thing a cycle does.
LEMMA CycleIsOver ==
    ASSUME SyncNext(UnderWay), sync.at = "publishOffloc", NEW s \in Source
    PROVE  UNCHANGED sync \/ sync'.pick[s] = NoFile
<1>1. \A at : Start(at).pick[s] = NoFile BY DEF Start
<1> QED
  BY <1>1 DEF SyncNext, Timer, Completion, Process, ReadyDelius, ReadyOffloc, ClearDelius,
     ClearOffloc, ClearStep, ClearInput, PickDelius, PickNothing, PickFile,
     PickAmbiguousArchive, PickProcessedArchive, PickArchive, GateDelius, GateOffloc,
     PublishDelius, PublishOffloc, SyncAt, Restart, Launch, Done

LEMMA PicksStayNew ==
    ASSUME OneAtATime, TurnInv, PicksAreNew, [Next]_vars
    PROVE  PicksAreNew'
<1> SUFFICES ASSUME NEW s \in Source, Turn(s, "sync", 0)', NEW f \in File,
                    sync'.pick[s] = f, HasRow(s, f)'
             PROVE  FALSE
  BY DEF PicksAreNew, HasRow
<1>1. TypeInv /\ OneTurn' BY StepTurnInv DEF TurnInv
<1>2. HasRow(s, f)
  <2>1. \A w : ~Turn(s, "work", w)' BY <1>1 DEF OneTurn, OneTurnOf
  <2> QED BY <1>1, <2>1, NewRows
<1>3. CASE WithSync(SyncNext(UnderWay))
  <2> HIDE DEF UnderWay
  <2>1. SyncNext(UnderWay) BY <1>3 DEF WithSync
  <2>2. sync.at # "idle" /\ sync.pick[s] = f
    BY <1>1, <1>2, <2>1, SyncPicks
  <2>3. Turn(s, "sync", 0)
    <3>1. sync.at = "publishOffloc" => UNCHANGED sync
      BY <2>1, CycleIsOver, NoFileAssumption
    <3> QED BY <2>2, <3>1 DEF Turn, Call
  <2> QED BY <1>2, <2>2, <2>3 DEF PicksAreNew
<1>4. CASE UNCHANGED sync
  <2>1. Turn(s, "sync", 0) BY <1>4 DEF Turn, Call
  <2> QED BY <1>2, <1>4, <2>1 DEF PicksAreNew
<1> QED BY <1>3, <1>4, SyncAlone

\* Only the two messages at the end of a cycle hand something over.
LEMMA PublishesIs ==
    ASSUME TypeInv, [Next]_vars, NEW s \in Source, Publishes(s)
    PROVE  /\ sync.at = IF s = "delius" THEN "publishDelius" ELSE "publishOffloc"
           /\ Turn(s, "sync", 0) /\ sync.pick[s] \in File
<1>1. downloads \in [Source -> Seq(Download)] BY DEF TypeInv, TypeOK, FileSyncTypeOK
<1>2. UNCHANGED downloads => FALSE
  <2>1. Len(downloads[s]) \in Nat BY <1>1, LenProperties
  <2> QED BY <2>1 DEF Publishes
<1>3. ASSUME NEW w \in Worker, NEW t \in Source, TakeUp(w, t) PROVE FALSE
  <2>1. downloads' = [downloads EXCEPT ![t] = Tail(@)] /\ downloads[t] # <<>>
    BY <1>3 DEF TakeUp
  <2>2. Len(Tail(downloads[t])) = Len(downloads[t]) - 1 /\ Len(downloads[t]) \in Nat
    BY <1>1, <2>1, HeadTailProperties, LenProperties
  <2>3. Len(downloads[s]) \in Nat BY <1>1, LenProperties
  <2> QED BY <1>1, <2>1, <2>2, <2>3 DEF Publishes
<1>4. CASE ParseStep
  BY <1>2, <1>3, <1>4 DEF ParseStep, WorkOn, Ask, Skip, Create, Clean, CleanNothing,
       Replace, ReplaceNothing, StartParse, Parse, ParseNothing, Finish
<1>5. CASE ~ParseStep
  <2>1. WithSync(SyncNext(UnderWay))
    BY <1>2, <1>5 DEF Next, WithSync, Tidy, Arrive, Cluster, WithImport, vars
  <2>2. PublishDelius \/ PublishOffloc
    BY <1>2, <2>1, ProcessLeaves DEF WithSync, SyncNext, Timer, Completion, Restart
  <2>4. sync.at = IF s = "delius" THEN "publishDelius" ELSE "publishOffloc"
    <3>1. Len(downloads[s]) \in Nat BY <1>1, LenProperties
    <3>2. downloads'[s] # downloads[s] BY <3>1 DEF Publishes
    <3> QED BY <1>1, <2>2, <3>2 DEF PublishDelius, PublishOffloc, SyncAt, Source
  <2>5. sync.pick[s] \in File BY <2>4 DEF TypeInv, Picked
  <2> QED BY <2>4, <2>5 DEF Turn
<1> QED BY <1>4, <1>5

\* Across any crash of Import and DbInteractions and any fault, a file handed over has
\* no row yet and is not on its way: FileSync's check for unmerged rows sees only what
\* has a row, but a cycle starts when everything before it has come to an end.
THEOREM FilesAreHandedOverOnce == OneAtATime => (Spec => NeverHandedOverTwice)
<1> SUFFICES ASSUME OneAtATime PROVE Spec => NeverHandedOverTwice OBVIOUS
<1>1. Init => PicksAreNew
  <2>1. ASSUME Init, NEW s \in Source PROVE sync.pick[s] = NoFile
    BY <2>1 DEF Init, FileSyncInit, Launch, Done, Start
  <2> QED BY <2>1, NoFileAssumption DEF PicksAreNew
<1>2. TurnInv /\ PicksAreNew /\ [Next]_vars => TurnInv' /\ PicksAreNew'
  BY StepTurnInv, PicksStayNew
<1>3. TurnInv /\ PicksAreNew /\ [Next]_vars =>
        [\A s \in Source : Publishes(s) =>
            /\ ~HasRow(s, sync.pick[s])
            /\ \A n \in 1 .. Len(downloads[s]) :
                  downloads[s][n].file # sync.pick[s]]_downloads
  <2> SUFFICES ASSUME TurnInv, PicksAreNew, [Next]_vars, NEW s \in Source, Publishes(s)
               PROVE  /\ ~HasRow(s, sync.pick[s])
                      /\ \A n \in 1 .. Len(downloads[s]) :
                            downloads[s][n].file # sync.pick[s]
    OBVIOUS
  <2>1. Turn(s, "sync", 0) /\ sync.pick[s] \in File BY PublishesIs DEF TurnInv
  <2>2. \A n \in 1 .. Len(downloads[s]) : Turn(s, "download", n) BY DEF Turn
  <2>3. \A n : ~Turn(s, "download", n) BY <2>1 DEF TurnInv, OneTurn, OneTurnOf
  <2> QED BY <2>1, <2>2, <2>3 DEF PicksAreNew
<1> QED BY InitTurnInv, <1>1, <1>2, <1>3, PTL DEF Spec, NeverHandedOverTwice

-----------------------------------------------------------------------------
(* A merge sees its file *)

\* What is asked for the source of a handler that waits, or was answered, is what that
\* handler asked for, although a response says nothing of its request.
AnswersFit ==
    /\ \A r \in requests : r.at = "clear" => r.op = "merge"
    /\ \A h \in Handler : pc[h] \in Waiting =>
          /\ \A r \in requests : r.src = job[h].src => Asks(h, r)
          /\ \A op \in Call : responses[job[h].src][op] > 0 => pc[h] = WaitingFor(op)

\* A turn during which the staging database of source s is empty: before a handler
\* asks for a file to be staged ...
Unstaged(s) ==
    \/ sync.at \in {"clearInput", "pickDelius", "pickOffloc", "gateDelius", "gateOffloc",
                    "publishDelius"}
    \/ sync.at = "clearOffloc" /\ s = "delius"
    \/ sync.at = "publishOffloc" /\ s = "offloc"
    \/ downloads[s] # <<>> \/ inbox[s] # <<>>
    \/ \E w \in Worker : work[w] # Unused /\ work[w].src = s
    \/ \E h \in Handler : pc[h] \in {"acquire", "stage"} /\ job[h].src = s
\* ... and until it is.
Cleared(s) ==
    Unstaged(s) \/ \E r \in requests : r.src = s /\ r.op = "stage" /\ r.at = "run"

\* Those during which it has the one file that is to be merged: of a handler ...
Staged(s, h) ==
    /\ job[h].src = s
    /\ pc[h] = "merge" \/ (pc[h] = "staging" /\ responses[s]["stage"] > 0)
\* ... or of a request.
MergeReady(s, r) ==
    /\ r.src = s
    /\ (r.op = "stage" /\ r.at = "reply") \/ (r.op = "merge" /\ r.at = "run")

StagedOf(s) ==
    /\ Cleared(s) => staging[s] = {}
    /\ \A h \in Handler : Staged(s, h) => staging[s] = {job[h].file}
    /\ \A r \in requests : MergeReady(s, r) => staging[s] = {r.file}

OneFileStaged == \A s \in Source : StagedOf(s)

\* Staging and clearing do not fail.
OnlyMergesFail == Faults \subseteq {"create", "merge"}

LEMMA NoAnswerYet ==
    ASSUME OneTurn, NEW h \in Handler, pc[h] \in Importing \ Waiting, NEW s \in Source,
           job[h].src = s, responses \in [Source -> [Call -> Nat]]
    PROVE  /\ \A r \in requests : r.src # s
           /\ \A op \in Call : responses[s][op] = 0
<1>1. Turn(s, "handler", h) BY DEF Turn
<1>2. ASSUME NEW r \in requests, r.src = s PROVE FALSE
  <2>1. Turn(s, "request", r) BY <1>2 DEF Turn
  <2> QED BY <1>1, <2>1 DEF OneTurn, OneTurnOf
<1>3. ASSUME NEW op \in Call, responses[s][op] # 0 PROVE FALSE
  <2>1. Turn(s, op, 1) BY <1>3 DEF Turn
  <2> QED BY <1>1, <2>1 DEF OneTurn, OneTurnOf, Call
<1> QED BY <1>2, <1>3

LEMMA AnswersStillFit ==
    ASSUME TurnInv, AnswersFit, [Next]_vars
    PROVE  AnswersFit'
<1> USE DEF At, Goto, Return
<1>1. HandlersInv /\ TypeOK /\ ImportTypeOK BY DEF TurnInv, TypeInv, TypeOK, HandlersInv
<1>2. /\ pc \in [Handler -> Step] /\ responses \in [Source -> [Call -> Nat]]
      /\ requests \subseteq Request /\ job \in [Handler -> Job \cup {NoJob}]
      /\ \A h \in Handler : pc[h] \in Waiting => job[h].src \in Source
  BY <1>1 DEF ImportTypeOK, Waiting, Job
<1>3. ASSUME UNCHANGED rpcVars,
             \A h \in Handler : pc'[h] \in Waiting => pc'[h] = pc[h] /\ job'[h] = job[h]
      PROVE  AnswersFit'
  BY <1>3 DEF AnswersFit, Asks
<1>4. CASE Others BY <1>1, <1>3, <1>4, OthersLeave
<1>5. CASE WithImport(ImportStep)
  <2>1. PICK h \in Handler :
          \/ \E t \in Source : Receive(h, t)
          \/ Acquire(h) \/ SendStage(h) \/ StageAnswered(h) \/ SendMerge(h)
          \/ MergeAnswered(h) \/ Release(h) \/ Complete(h) \/ Check(h) \/ Reset(h)
          \/ PublishImportFinished(h)
    BY <1>5 DEF WithImport, ImportStep
  <2>2. ASSUME NEW op \in Call, Send(h, op, WaitingFor(op)) PROVE AnswersFit'
    <3>1. /\ pc' = [pc EXCEPT ![h] = WaitingFor(op)] /\ UNCHANGED <<job, responses>>
          /\ requests' = requests \cup
               {[op |-> op, src |-> job[h].src, file |-> job[h].file, at |-> "run"]}
          /\ pc[h] = op /\ job[h].src \in Source
      BY <1>1, <2>2 DEF Send, ImportTypeOK, Call, Job
    <3>2. \A g \in Handler \ {h} : pc'[g] \notin Waiting
      BY <1>1, <1>2, <2>2, <3>1, ImportAssumption
         DEF HandlersInv, Exclusive, Send
    <3>3. /\ \A r \in requests : r.src # job[h].src
          /\ \A o \in Call : responses[job[h].src][o] = 0
      BY <1>1, <1>2, <3>1, NoAnswerYet DEF HandlersInv, Call, Importing, Waiting
    <3> QED BY <1>2, <3>1, <3>2, <3>3 DEF AnswersFit, Asks, WaitingFor, Call
  <2>3. ASSUME NEW op \in Call, NEW next \in {"merge", "release"},
               Answered(h, op, WaitingFor(op), next)
        PROVE  AnswersFit'
    <3>1. pc[h] \in Waiting BY <2>3 DEF Answered, WaitingFor, Waiting
    <3>2. \A g \in Handler : pc'[g] \notin Waiting
      BY <1>1, <1>2, <2>3, <3>1 DEF HandlersInv, Exclusive, Answered, Waiting
    <3> QED BY <2>3, <3>2 DEF AnswersFit, Answered
  <2>4. CASE SendStage(h) \/ SendMerge(h)
    BY <2>2, <2>4 DEF SendStage, SendMerge, WaitingFor, Call
  <2>5. CASE StageAnswered(h) \/ MergeAnswered(h)
    BY <2>3, <2>5 DEF StageAnswered, MergeAnswered, WaitingFor, Call
  <2>6. CASE ~(SendStage(h) \/ SendMerge(h) \/ StageAnswered(h) \/ MergeAnswered(h))
    <3>1. /\ UNCHANGED rpcVars
          /\ \A g \in Handler : pc'[g] \in Waiting => pc'[g] = pc[g] /\ job'[g] = job[g]
      BY <1>2, <2>1, <2>6 DEF Receive, Acquire, Release, Complete, Check, Reset,
         PublishImportFinished, Waiting
    <3> QED BY <1>3, <3>1
  <2> QED BY <2>4, <2>5, <2>6
<1>6. CASE WithImport(DbStep)
  <2>1. PICK r \in requests : RunStage(r) \/ RunMerge(r) \/ ClearAfterMerge(r) \/ Reply(r)
    BY <1>6 DEF WithImport, DbStep
  <2>2. ASSUME NEW at, Advance(r, at), UNCHANGED <<importVars, responses>>,
               at = "clear" => r.op = "merge"
        PROVE  AnswersFit'
    <3>1. PICK q : q = [r EXCEPT !.at = at] OBVIOUS
    <3>2. /\ requests' = (requests \ {r}) \cup {q}
          /\ q.src = r.src /\ q.op = r.op /\ q.file = r.file /\ q.at = at
      BY <1>2, <2>2, <3>1 DEF Advance, Request
    <3> QED BY <2>2, <3>2 DEF AnswersFit, Asks
  <2>3. CASE RunStage(r) \/ RunMerge(r) \/ ClearAfterMerge(r)
    BY <2>2, <2>3 DEF RunStage, RunMerge, ClearAfterMerge
  <2>4. CASE Reply(r)
    <3>1. /\ requests' = requests \ {r} /\ UNCHANGED importVars
          /\ r.src \in Source /\ r.op \in Call
          /\ \A s \in Source, op \in Call :
                responses'[s][op] > 0 => responses[s][op] > 0 \/ (s = r.src /\ op = r.op)
      BY <1>2, <2>4 DEF Reply, Request
    <3> QED BY <1>2, <3>1 DEF AnswersFit, Asks, WaitingFor, Call
  <2> QED BY <2>1, <2>3, <2>4
<1>7. CASE Crash
  BY <1>7 DEF Crash, ImportCrash, DbCrash, AnswersFit, Asks, Waiting
<1> QED BY <1>4, <1>5, <1>6, <1>7, NextIs

\* The turns that Unstaged, Staged and MergeReady are about.
LEMMA StagedTurns ==
    ASSUME TurnInv, NEW s \in Source
    PROVE  /\ Unstaged(s) => \/ Turn(s, "sync", 0) \/ \E n : Turn(s, "download", n)
                             \/ \E n : Turn(s, "inbox", n) \/ \E w : Turn(s, "work", w)
                             \/ \E h : Turn(s, "handler", h)
           /\ \A h \in Handler : Staged(s, h) =>
                 Turn(s, "handler", h) \/ \E n : Turn(s, "stage", n)
           /\ \A r \in requests : r.src = s => Turn(s, "request", r)
<1>1. /\ downloads \in [Source -> Seq(Download)] /\ inbox \in [Source -> Seq(Message)]
      /\ responses \in [Source -> [Call -> Nat]]
  BY DEF TurnInv, TypeInv, TypeOK, FileSyncTypeOK, ImportTypeOK
<1>2. ASSUME NEW S, NEW q \in Seq(S), q # <<>> PROVE 1 \in 1 .. Len(q)
  BY <1>2, EmptySeq, LenProperties
<1>3. ASSUME Unstaged(s)
      PROVE  \/ Turn(s, "sync", 0) \/ \E n : Turn(s, "download", n)
             \/ \E n : Turn(s, "inbox", n) \/ \E w : Turn(s, "work", w)
             \/ \E h : Turn(s, "handler", h)
  <2>1. downloads[s] # <<>> => Turn(s, "download", 1) BY <1>1, <1>2 DEF Turn
  <2>2. inbox[s] # <<>> => Turn(s, "inbox", 1) BY <1>1, <1>2 DEF Turn
  <2>3. \A w \in Worker : work[w] # Unused /\ work[w].src = s => Turn(s, "work", w)
    BY DEF Turn
  <2>4. \A h \in Handler : pc[h] \in {"acquire", "stage"} /\ job[h].src = s
                              => Turn(s, "handler", h)
    BY DEF Turn, Importing, Waiting
  <2>5. /\ sync.at \in {"clearInput", "pickDelius", "pickOffloc", "gateDelius",
                        "gateOffloc", "publishDelius", "clearOffloc"} => Turn(s, "sync", 0)
        /\ sync.at = "publishOffloc" /\ s = "offloc" => Turn(s, "sync", 0)
    BY DEF Turn
  <2> QED BY <1>3, <2>1, <2>2, <2>3, <2>4, <2>5 DEF Unstaged
<1>4. ASSUME NEW h \in Handler, Staged(s, h)
      PROVE  Turn(s, "handler", h) \/ \E n : Turn(s, "stage", n)
  <2>1. CASE pc[h] = "merge" BY <1>4, <2>1 DEF Staged, Turn, Importing, Waiting
  <2>2. CASE responses[s]["stage"] > 0
    <3>1. 1 \in 1 .. responses[s]["stage"] BY <1>1, <2>2 DEF Call
    <3> QED BY <3>1 DEF Turn, Call
  <2> QED BY <1>4, <2>1, <2>2 DEF Staged
<1>5. \A r \in requests : r.src = s => Turn(s, "request", r) BY DEF Turn
<1> QED BY <1>3, <1>4, <1>5

\* While a request is worked on ...
LEMMA AskedAlone ==
    ASSUME TurnInv, NEW s \in Source, NEW r \in requests, r.src = s
    PROVE  /\ \A q \in requests : q.src = s => q = r
           /\ \A h \in Handler : ~Staged(s, h)
           /\ ~Unstaged(s)
<1>1. Turn(s, "request", r) BY DEF Turn
<1>2. \A k, x : Turn(s, k, x) => k = "request" /\ x = r
  BY <1>1 DEF TurnInv, OneTurn, OneTurnOf
<1> QED BY <1>2, StagedTurns

\* ... and while FileSync prepares a cycle, nothing is merged.
LEMMA CycleAlone ==
    ASSUME TurnInv, NEW s \in Source, Turn(s, "sync", 0)
    PROVE  /\ \A r \in requests : r.src # s
           /\ \A h \in Handler : ~Staged(s, h)
<1>1. \A k, x : Turn(s, k, x) => k = "sync" BY DEF TurnInv, OneTurn, OneTurnOf
<1> QED BY <1>1, StagedTurns

LEMMA StagedKept ==
    ASSUME NEW s \in Source, StagedOf(s), staging'[s] = staging[s],
           Cleared(s)' => Cleared(s),
           \A h \in Handler : Staged(s, h)' => Staged(s, h) /\ job'[h] = job[h],
           \A r \in requests' : MergeReady(s, r) => r \in requests
    PROVE  StagedOf(s)'
BY DEF StagedOf

LEMMA FileSyncStages ==
    ASSUME OnlyMergesFail, TurnInv, NEW s \in Source, StagedOf(s), WithSync(SyncNext(UnderWay))
    PROVE  StagedOf(s)'
<1> USE DEF SyncAt, SyncGoto
<1> HIDE DEF UnderWay
<1>1. /\ sync \in Sync /\ staging \in [Source -> SUBSET File]
      /\ downloads \in [Source -> Seq(Download)]
  BY DEF TurnInv, TypeInv, TypeOK, FileSyncTypeOK, DbTypeOK, Sync
<1>2. UNCHANGED <<inbox, pc, job, requests, responses, work>> BY DEF WithSync
<1>3. /\ \A h \in Handler : Staged(s, h)' => Staged(s, h) /\ job'[h] = job[h]
      /\ \A r \in requests' : MergeReady(s, r) => r \in requests
  BY <1>2 DEF Staged
<1>4. ASSUME NEW t \in Source, NEW at, NEW next, ClearStep(t, at, next),
             at \in {"clearDelius", "clearOffloc"}
      PROVE  /\ s = t => staging'[s] = {} /\ Turn(s, "sync", 0)
             /\ s # t => staging'[s] = staging[s]
             /\ sync.at = at /\ sync'.at = next /\ UNCHANGED downloads
  <2>1. staging' = [staging EXCEPT ![t] = {}]
    BY <1>4 DEF ClearStep, ClearStaging, Swallowed, OnlyMergesFail
  <2>2. Turn(s, "sync", 0) BY <1>4 DEF ClearStep, Turn
  <2> QED BY <1>1, <1>4, <2>1, <2>2 DEF ClearStep, Sync
<1>5. ASSUME staging'[s] = {}, Turn(s, "sync", 0) PROVE StagedOf(s)'
  BY <1>2, <1>3, <1>5, CycleAlone DEF StagedOf, MergeReady
<1>6. ASSUME staging'[s] = staging[s], Cleared(s)' => Cleared(s) PROVE StagedOf(s)'
  BY <1>3, <1>6, StagedKept
<1>7. CASE ClearDelius
  <2>1. s = "delius" => StagedOf(s)' BY <1>4, <1>5, <1>7 DEF ClearDelius, Source
  <2>2. CASE s = "offloc"
    <3>1. /\ staging'[s] = staging[s] /\ sync'.at = "clearOffloc" /\ UNCHANGED downloads
      BY <1>4, <1>7, <2>2 DEF ClearDelius, Source
    <3>2. Cleared(s)' => Cleared(s) BY <1>2, <2>2, <3>1 DEF Cleared, Unstaged
    <3> QED BY <1>6, <3>1, <3>2
  <2> QED BY <2>1, <2>2 DEF Source
<1>8. CASE ClearOffloc
  <2>1. s = "offloc" => StagedOf(s)' BY <1>4, <1>5, <1>8 DEF ClearOffloc, Source
  <2>2. CASE s = "delius"
    <3>1. staging'[s] = staging[s] /\ sync.at = "clearOffloc"
      BY <1>4, <1>8, <2>2 DEF ClearOffloc, Source
    <3>2. Cleared(s) BY <2>2, <3>1 DEF Cleared, Unstaged
    <3> QED BY <1>6, <3>1, <3>2
  <2> QED BY <2>1, <2>2 DEF Source
<1>9. CASE ~ClearDelius /\ ~ClearOffloc
  <2>1. UNCHANGED staging
    BY <1>9 DEF WithSync, SyncNext, Timer, Completion, Restart, Process, ReadyDelius,
       ReadyOffloc, ClearInput, PickDelius, PickNothing, PickFile, PickAmbiguousArchive,
       PickProcessedArchive, PickArchive, GateDelius, GateOffloc, PublishDelius, PublishOffloc
  <2> DEFINE Busy == {"clearInput", "pickDelius", "pickOffloc", "gateDelius", "gateOffloc",
                      "publishDelius"}
             Goes == sync'.at \in Busy \cup {"clearOffloc", "publishOffloc"}
                       => sync.at \in Busy \/ UNCHANGED sync
             Hands == \/ UNCHANGED downloads
                      \/ sync.at = "publishDelius"
                      \/ sync.at = "publishOffloc" /\ downloads'["delius"] = downloads["delius"]
  <2>2. Goes /\ Hands
    <3>1. \A at : Start(at).at = at BY DEF Start
    <3>2. CASE Timer(UnderWay) \/ Restart \/ PickAmbiguousArchive \/ ReadyOffloc
      BY <3>1, <3>2 DEF Timer, Restart, PickAmbiguousArchive, ReadyOffloc, Launch, Done
    <3>3. CASE Completion BY <3>1, <3>3 DEF Completion
    <3>4. CASE ReadyDelius BY <1>1, <3>4 DEF ReadyDelius, Sync
    <3>5. CASE ClearInput \/ PickDelius \/ PickNothing \/ PickFile \/ PickProcessedArchive
               \/ PickArchive \/ GateDelius \/ GateOffloc
      BY <3>5 DEF ClearInput, PickDelius, PickNothing, PickFile, PickProcessedArchive,
         PickArchive, GateDelius, GateOffloc
    <3>6. CASE PublishDelius BY <3>6 DEF PublishDelius
    <3>7. CASE PublishOffloc
      <4>1. sync'.at = "idle" BY <3>1, <3>7 DEF PublishOffloc, Done
      <4>2. downloads'["delius"] = downloads["delius"]
        BY <1>1, <3>7 DEF PublishOffloc, Source
      <4> QED BY <3>7, <4>1, <4>2 DEF PublishOffloc
    <3> QED
      BY <1>9, <3>2, <3>3, <3>4, <3>5, <3>6, <3>7 DEF WithSync, SyncNext, Process
  <2>3. Cleared(s)' => Cleared(s) BY <1>2, <2>2 DEF Cleared, Unstaged, Source
  <2> QED BY <1>6, <2>1, <2>3
<1> QED BY <1>7, <1>8, <1>9

LEMMA ParsersStage ==
    ASSUME TurnInv, NEW s \in Source, StagedOf(s), ParseStep
    PROVE  StagedOf(s)'
<1>1. /\ work \in [Worker -> Work] /\ downloads \in [Source -> Seq(Download)]
      /\ inbox \in [Source -> Seq(Message)] /\ TypeInv /\ TypeOK
  BY DEF TurnInv, TypeInv, TypeOK, FileSyncTypeOK, ImportTypeOK
<1>2. UNCHANGED <<sync, staging, pc, job, requests, responses>>
  BY DEF ParseStep, WorkOn, TakeUp, Ask, Skip, Create, Clean, CleanNothing, Replace,
     ReplaceNothing, StartParse, Parse, ParseNothing, Finish, CreateProcessedFileEntry,
     Swallowed
<1>3. /\ \A h \in Handler : Staged(s, h)' => Staged(s, h) /\ job'[h] = job[h]
      /\ \A r \in requests' : MergeReady(s, r) => r \in requests
  BY <1>2 DEF Staged
<1> DEFINE Carried == \/ downloads[s] # <<>> \/ inbox[s] # <<>>
                      \/ \E w \in Worker : work[w] # Unused /\ work[w].src = s
<1>4. Carried' => Carried
  <2>1. ASSUME NEW w \in Worker, NEW t \in Source, TakeUp(w, t) PROVE Carried' => Carried
    <3>1. /\ downloads[t] # <<>> /\ downloads' = [downloads EXCEPT ![t] = Tail(@)]
          /\ \E f, a : work' = [work EXCEPT ![w] = [at |-> "ask", src |-> t, file |-> f,
                                                    archive |-> a]]
          /\ UNCHANGED inbox
      BY <2>1 DEF TakeUp
    <3>2. work'[w].src = t /\ \A v \in Worker \ {w} : work'[v] = work[v] BY <1>1, <3>1
    <3> QED BY <1>1, <3>1, <3>2
  <2>2. ASSUME NEW w \in Worker, NEW m, NEW at \in WorkStep, WorkAt(w, at),
               Toward(work[w].src, m), work' = [work EXCEPT ![w] = Unused], UNCHANGED downloads
        PROVE  Carried' => Carried
    <3>1. work[w] # Unused /\ work[w].src \in Source
      BY <1>1, <2>2, InHandIs DEF WorkAt, WorkStep, Unused
    <3>2. work'[w] = Unused /\ \A v \in Worker \ {w} : work'[v] = work[v] BY <1>1, <2>2
    <3>3. s # work[w].src => inbox'[s] = inbox[s] BY <1>1, <2>2, <3>1 DEF Toward
    <3> QED BY <2>2, <3>1, <3>2, <3>3
  <2>3. ASSUME NEW w \in Worker, NEW at \in WorkStep, WorkAt(w, at),
               CrashOf(w) \/ (\E to \in WorkStep : WorkGoto(w, to)),
               UNCHANGED <<downloads, inbox>>
        PROVE  Carried' => Carried
    BY <1>1, <2>3, WorkGoesOn
  <2>4. ASSUME NEW w \in Worker, WorkOn(w) PROVE Carried' => Carried
    <3> HIDE DEF Carried
    <3> USE DEF WorkStep
    <3>1. CASE Ask(w) BY <2>3, <3>1 DEF Ask
    <3>2. CASE Create(w) BY <2>3, <3>2 DEF Create
    <3>3. CASE Clean(w) BY <2>3, <3>3 DEF Clean
    <3>4. CASE CleanNothing(w) BY <2>3, <3>4 DEF CleanNothing
    <3>5. CASE Replace(w) BY <2>3, <3>5 DEF Replace
    <3>6. CASE ReplaceNothing(w) BY <2>3, <3>6 DEF ReplaceNothing
    <3>7. CASE StartParse(w) BY <2>3, <3>7 DEF StartParse
    <3>8. CASE Parse(w) BY <2>3, <3>8 DEF Parse
    <3>9. CASE ParseNothing(w) BY <2>3, <3>9 DEF ParseNothing
    <3>10. CASE Skip(w) BY <2>2, <3>10 DEF Skip
    <3>11. CASE Finish(w) BY <2>2, <3>11 DEF Finish
    <3> QED
      BY <2>4, <3>1, <3>2, <3>3, <3>4, <3>5, <3>6, <3>7, <3>8, <3>9, <3>10, <3>11 DEF WorkOn
  <2> QED BY <2>1, <2>4 DEF ParseStep
<1>5. Cleared(s)' => Cleared(s) BY <1>2, <1>4 DEF Cleared, Unstaged
<1> QED BY <1>2, <1>3, <1>5, StagedKept

LEMMA ImportStages ==
    ASSUME TurnInv, AnswersFit, NEW s \in Source, StagedOf(s), WithImport(ImportStep)
    PROVE  StagedOf(s)'
<1> USE DEF At, Goto, Return
<1>1. /\ pc \in [Handler -> Step] /\ responses \in [Source -> [Call -> Nat]]
      /\ job \in [Handler -> Job \cup {NoJob}] /\ inbox \in [Source -> Seq(Message)]
      /\ \A h \in Handler : pc[h] # "idle" => job[h].src \in Source
  BY DEF TurnInv, TypeInv, TypeOK, ImportTypeOK, Job
<1>2. UNCHANGED <<sync, downloads, work>> BY DEF WithImport
<1>3. PICK h \in Handler :
        \/ \E t \in Source : Receive(h, t)
        \/ Acquire(h) \/ SendStage(h) \/ StageAnswered(h) \/ SendMerge(h)
        \/ MergeAnswered(h) \/ Release(h) \/ Complete(h) \/ Check(h) \/ Reset(h)
        \/ PublishImportFinished(h)
  BY DEF WithImport, ImportStep
<1>4. UNCHANGED staging
  BY <1>3 DEF Receive, Acquire, SendStage, StageAnswered, SendMerge, MergeAnswered, Send,
     Answered, Release, Complete, Check, Reset, PublishImportFinished
<1>5. CASE \E t \in Source : Receive(h, t)
  <2>1. PICK t \in Source : Receive(h, t) BY <1>5
  <2>2. /\ pc'[h] = "acquire" /\ job'[h].src = t /\ inbox[t] # <<>>
        /\ inbox' = [inbox EXCEPT ![t] = Tail(@)]
        /\ \A g \in Handler \ {h} : pc'[g] = pc[g] /\ job'[g] = job[g]
        /\ UNCHANGED <<requests, responses>>
    BY <1>1, <2>1 DEF Receive
  <2>3. Cleared(s)' => Cleared(s) BY <1>1, <1>2, <2>2 DEF Cleared, Unstaged
  <2>4. \A g \in Handler : Staged(s, g)' => Staged(s, g) /\ job'[g] = job[g]
    BY <2>2 DEF Staged
  <2> QED BY <1>4, <2>2, <2>3, <2>4, StagedKept
<1>6. CASE Acquire(h) \/ Release(h) \/ Complete(h) \/ Check(h) \/ Reset(h)
           \/ PublishImportFinished(h)
  <2>1. /\ pc'[h] \notin {"merge", "staging", "acquire"}
        /\ pc'[h] = "stage" => pc[h] = "acquire" /\ job'[h] = job[h]
        /\ \A g \in Handler \ {h} : pc'[g] = pc[g] /\ job'[g] = job[g]
        /\ UNCHANGED <<inbox, requests, responses>>
    BY <1>1, <1>6 DEF Acquire, Release, Complete, Check, Reset, PublishImportFinished
  <2>2. Cleared(s)' => Cleared(s) BY <1>2, <2>1 DEF Cleared, Unstaged
  <2>3. \A g \in Handler : Staged(s, g)' => Staged(s, g) /\ job'[g] = job[g]
    BY <2>1 DEF Staged
  <2> QED BY <1>4, <2>1, <2>2, <2>3, StagedKept
<1>7. ASSUME NEW op \in Call, Send(h, op, WaitingFor(op)) PROVE StagedOf(s)'
  <2>1. PICK r : r = [op |-> op, src |-> job[h].src, file |-> job[h].file, at |-> "run"]
    OBVIOUS
  <2>2. /\ pc[h] = op /\ pc'[h] = WaitingFor(op) /\ requests' = requests \cup {r}
        /\ r.op = op /\ r.src = job[h].src /\ r.file = job[h].file /\ r.at = "run"
        /\ job[h].src \in Source
        /\ \A g \in Handler \ {h} : pc'[g] = pc[g]
        /\ UNCHANGED <<inbox, job, responses>>
    BY <1>1, <1>7, <2>1 DEF Send, Call
  <2>3. \A o \in Call : responses[job[h].src][o] = 0
    BY <1>1, <2>2, NoAnswerYet DEF TurnInv, Call, Importing, Waiting
  <2>4. \A g \in Handler : Staged(s, g)' => Staged(s, g)
    BY <2>2, <2>3 DEF Staged, WaitingFor, Call
  <2>5. Cleared(s)' => Cleared(s)
    BY <1>2, <2>2 DEF Cleared, Unstaged, WaitingFor, Call
  <2>6. MergeReady(s, r) => staging[s] = {r.file}
    BY <2>2 DEF MergeReady, StagedOf, Staged
  <2> QED BY <1>4, <2>2, <2>4, <2>5, <2>6 DEF StagedOf
<1>8. ASSUME NEW op \in Call, NEW next, Answered(h, op, WaitingFor(op), next),
             next = IF op = "stage" THEN "merge" ELSE "release"
      PROVE  StagedOf(s)'
  <2>1. /\ pc[h] = WaitingFor(op) /\ pc'[h] = next /\ job[h].src \in Source
        /\ responses[job[h].src][op] > 0
        /\ \A g \in Handler \ {h} : pc'[g] = pc[g]
        /\ UNCHANGED <<inbox, job, requests>>
    BY <1>1, <1>8 DEF Answered, WaitingFor
  <2>2. \A g \in Handler \ {h} : pc'[g] \notin Waiting
    BY <1>1, <2>1 DEF TurnInv, Exclusive, WaitingFor, Waiting
  <2>3. Cleared(s)' => Cleared(s) BY <1>2, <1>8, <2>1 DEF Cleared, Unstaged
  <2>4. \A g \in Handler : Staged(s, g)' => Staged(s, g)
    BY <1>8, <2>1, <2>2 DEF Staged, WaitingFor, Waiting, Call
  <2> QED BY <1>4, <2>1, <2>3, <2>4, StagedKept
<1> QED
  BY <1>3, <1>5, <1>6, <1>7, <1>8
     DEF SendStage, SendMerge, StageAnswered, MergeAnswered, WaitingFor, Call

LEMMA DbStages ==
    ASSUME OnlyMergesFail, TurnInv, AnswersFit, NEW s \in Source, StagedOf(s),
           WithImport(DbStep)
    PROVE  StagedOf(s)'
<1>1. /\ responses \in [Source -> [Call -> Nat]] /\ requests \subseteq Request
      /\ staging \in [Source -> SUBSET File]
  BY DEF TurnInv, TypeInv, TypeOK, ImportTypeOK, DbTypeOK
<1>2. PICK r \in requests : RunStage(r) \/ RunMerge(r) \/ ClearAfterMerge(r) \/ Reply(r)
  BY DEF WithImport, DbStep
<1>3. /\ UNCHANGED <<sync, downloads, work>> /\ UNCHANGED importVars
      /\ r.src \in Source /\ r.op \in Call
  BY <1>1, <1>2 DEF WithImport, RunStage, RunMerge, ClearAfterMerge, Reply, Request
<1>4. CASE s # r.src
  <2>1. staging'[s] = staging[s]
    BY <1>1, <1>2, <1>3, <1>4 DEF RunStage, RunMerge, ClearAfterMerge, Reply, Stage, Merge,
       ClearStaging, Swallowed
  <2>2. /\ \A q \in requests' : q.src = s => q \in requests
        /\ responses'[s] = responses[s]
    BY <1>1, <1>2, <1>3, <1>4
       DEF RunStage, RunMerge, ClearAfterMerge, Reply, Advance, Request
  <2>3. Cleared(s)' => Cleared(s) BY <1>3, <2>2 DEF Cleared, Unstaged
  <2>4. \A h \in Handler : Staged(s, h)' => Staged(s, h) /\ job'[h] = job[h]
    BY <1>3, <2>2 DEF Staged
  <2> QED BY <2>1, <2>2, <2>3, <2>4, StagedKept DEF MergeReady
<1>5. ASSUME s = r.src, NEW at, Advance(r, at), at # "run", UNCHANGED responses,
             MergeReady(s, [r EXCEPT !.at = at]) => staging'[s] = {r.file}
      PROVE  StagedOf(s)'
  <2>1. PICK q : q = [r EXCEPT !.at = at] OBVIOUS
  <2>2. requests' = (requests \ {r}) \cup {q} /\ q.file = r.file /\ q.at = at
    BY <1>1, <1>5, <2>1 DEF Advance, Request
  <2>3. \A p \in requests' : p.src = s => p = q
    BY <1>3, <1>5, <2>2, AskedAlone
  <2>4. \A h \in Handler : ~Staged(s, h)'
    BY <1>3, <1>5, AskedAlone DEF Staged
  <2>5. ~Unstaged(s)' BY <1>3, <1>5, AskedAlone DEF Unstaged
  <2>6. ~Cleared(s)' BY <1>5, <2>2, <2>3, <2>5 DEF Cleared
  <2> QED BY <1>5, <2>1, <2>2, <2>3, <2>4, <2>6 DEF StagedOf, MergeReady
<1>6. CASE s = r.src /\ RunStage(r)
  <2>1. r.op = "stage" /\ r.at = "run" BY <1>6 DEF RunStage
  <2>2. Cleared(s) BY <1>6, <2>1 DEF Cleared
  <2>3. staging'[s] = {r.file}
    BY <1>1, <1>3, <1>6, <2>2 DEF RunStage, Stage, Swallowed, OnlyMergesFail, StagedOf
  <2> QED BY <1>5, <1>6, <2>3 DEF RunStage
<1>7. CASE s = r.src /\ RunMerge(r)
  <2>1. ~MergeReady(s, [r EXCEPT !.at = "clear"])
    BY <1>1 DEF MergeReady, Request
  <2> QED BY <1>5, <1>7, <2>1 DEF RunMerge
<1>8. CASE s = r.src /\ ClearAfterMerge(r)
  <2>1. r.op = "merge" BY <1>8 DEF ClearAfterMerge, AnswersFit
  <2>2. ~MergeReady(s, [r EXCEPT !.at = "reply"])
    BY <1>1, <2>1 DEF MergeReady, Request
  <2> QED BY <1>5, <1>8, <2>2 DEF ClearAfterMerge
<1>9. CASE s = r.src /\ Reply(r)
  <2>1. /\ staging'[s] = staging[s] /\ requests' = requests \ {r} /\ r.at = "reply"
        /\ responses' = [responses EXCEPT ![s][r.op] = @ + 1]
    BY <1>9 DEF Reply
  <2>2. ~Cleared(s)'
    <3>1. ~Unstaged(s)' BY <1>3, <1>9, AskedAlone DEF Unstaged
    <3>2. \A q \in requests' : q.src # s BY <1>9, <2>1, AskedAlone
    <3> QED BY <3>1, <3>2 DEF Cleared
  <2>3. ASSUME NEW h \in Handler, Staged(s, h)' PROVE staging[s] = {job[h].file}
    <3>1. pc[h] \in {"merge", "staging"} /\ job[h].src = s BY <1>3, <2>3 DEF Staged
    <3>2. pc[h] = "staging" BY <1>9, <3>1, AskedAlone DEF Staged
    <3>3. Asks(h, r) BY <1>9, <3>1, <3>2 DEF AnswersFit, Waiting
    <3>4. r.op = "stage" /\ r.file = job[h].file BY <1>3, <3>2, <3>3 DEF Asks, Call
    <3> QED BY <1>9, <2>1, <3>4 DEF StagedOf, MergeReady
  <2> QED BY <1>3, <2>1, <2>2, <2>3 DEF StagedOf
<1> QED BY <1>2, <1>4, <1>6, <1>7, <1>8, <1>9

LEMMA CrashStages ==
    ASSUME NEW s \in Source, StagedOf(s), Crash, UNCHANGED <<syncVars, parseVars>>
    PROVE  StagedOf(s)'
<1>1. CASE ImportCrash
  BY <1>1 DEF ImportCrash, StagedOf, Cleared, Unstaged, Staged
<1>2. CASE DbCrash
  BY <1>2 DEF DbCrash, StagedOf, Cleared, Unstaged, Staged
<1> QED BY <1>1, <1>2 DEF Crash

MergeInv == TurnInv /\ AnswersFit /\ OneFileStaged /\ MergesDontMix

LEMMA OneFileStays ==
    ASSUME OnlyMergesFail, OneAtATime, MergeInv, [Next]_vars
    PROVE  MergeInv'
<1> USE DEF MergeInv
<1>1. TurnInv' BY StepTurnInv
<1>2. AnswersFit' BY AnswersStillFit
<1>3. ASSUME NEW s \in Source PROVE StagedOf(s)'
  <2>1. StagedOf(s) BY DEF OneFileStaged
  <2>2. CASE WithSync(Tidy) \/ (\E t \in Source : WithSync(Arrive(t))) \/ Cluster
             \/ UNCHANGED vars
    <3>1. UNCHANGED <<sync, downloads, inbox, work, pc, job, requests, responses, staging>>
      BY <2>2 DEF WithSync, Tidy, Arrive, Cluster, vars
    <3> QED BY <2>1, <3>1 DEF StagedOf, Cleared, Unstaged, Staged
  <2> QED
    BY <2>1, <2>2, FileSyncStages, ParsersStage, ImportStages, DbStages, CrashStages DEF Next
<1>4. MergesDontMix'
  <2>1. TypeOK /\ picture \in [Source -> SUBSET File]
    BY DEF TurnInv, TypeInv, TypeOK, ImportTypeOK, DbTypeOK
  <2>2. CASE UNCHANGED picture BY <2>2 DEF MergesDontMix
  <2>3. CASE Others BY <2>1, <2>2, <2>3, OthersLeave
  <2>4. CASE Crash BY <2>2, <2>4 DEF Crash, ImportCrash, DbCrash
  <2>5. CASE WithImport(ImportStep)
    BY <2>2, <2>5 DEF WithImport, ImportStep, Receive, Acquire, SendStage, StageAnswered,
       SendMerge, MergeAnswered, Send, Answered, Release, Complete, Check, Reset,
       PublishImportFinished
  <2>6. CASE WithImport(DbStep)
    <3>1. PICK r \in requests : RunStage(r) \/ RunMerge(r) \/ ClearAfterMerge(r) \/ Reply(r)
      BY <2>6 DEF WithImport, DbStep
    <3>2. CASE RunMerge(r)
      <4>1. staging[r.src] = {r.file}
        <5>1. r.src \in Source
          BY DEF TurnInv, TypeInv, TypeOK, ImportTypeOK, Request
        <5> QED BY <3>2, <5>1 DEF RunMerge, OneFileStaged, StagedOf, MergeReady
      <4> QED BY <2>1, <2>2, <3>2, <4>1 DEF RunMerge, Merge, Swallowed, MergesDontMix
    <3>3. CASE ~RunMerge(r)
      BY <2>2, <3>1, <3>3
         DEF RunStage, Stage, ClearAfterMerge, ClearStaging, Swallowed, Reply
    <3> QED BY <3>2, <3>3
  <2> QED BY <2>3, <2>4, <2>5, <2>6, NextIs
<1> QED BY <1>1, <1>2, <1>3, <1>4 DEF OneFileStaged

LEMMA InitMerges == Init => MergeInv
<1> SUFFICES ASSUME Init PROVE MergeInv OBVIOUS
<1>1. AnswersFit BY DEF Init, ImportInit, AnswersFit, Waiting
<1>2. OneFileStaged
  BY DEF Init, ImportInit, DbInit, OneFileStaged, StagedOf, Staged, MergeReady
<1>3. MergesDontMix BY DEF Init, ImportInit, DbInit, MergesDontMix
<1> QED BY <1>1, <1>2, <1>3, InitTurnInv DEF MergeInv

\* What a row becomes Merged by.
LEMMA MergedByRequest ==
    ASSUME TypeInv, [Next]_vars, NEW s \in Source, NEW f \in File,
           table[s][f] # "Merged", table'[s][f] = "Merged"
    PROVE  \E r \in requests : r.src = s /\ r.file = f /\ RunMerge(r)
<1>1. table \in [Source -> [File -> Status]] /\ TypeOK
  BY DEF TypeInv, TypeOK, ImportTypeOK, DbTypeOK
<1>2. CASE UNCHANGED table BY <1>2
<1>3. ASSUME NEW t \in Source, NEW g \in File, CreateProcessedFileEntry(t, g) PROVE FALSE
  BY <1>1, <1>3 DEF CreateProcessedFileEntry, Swallowed
<1>4. CASE ParseStep
  <2>1. ASSUME NEW w \in Worker, Create(w) PROVE FALSE
    BY <1>1, <1>3, <2>1, InHandIs DEF Create, WorkStep
  <2> QED
    BY <1>2, <1>4, <2>1 DEF ParseStep, WorkOn, TakeUp, Ask, Skip, Clean, CleanNothing,
       Replace, ReplaceNothing, StartParse, Parse, ParseNothing, Finish
<1>5. CASE WithSync(SyncNext(UnderWay))
  BY <1>2, <1>5, ProcessTable DEF WithSync, SyncNext, Timer, Completion, Restart
<1>6. CASE WithSync(Tidy) \/ (\E t \in Source : WithSync(Arrive(t))) \/ Cluster \/ Crash
           \/ UNCHANGED vars
  BY <1>2, <1>6 DEF WithSync, Tidy, Arrive, Cluster, Crash, ImportCrash, DbCrash, vars
<1>7. CASE WithImport(ImportStep)
  BY <1>2, <1>7 DEF WithImport, ImportStep, Receive, Acquire, SendStage, StageAnswered,
     SendMerge, MergeAnswered, Send, Answered, Release, Complete, Check, Reset,
     PublishImportFinished
<1>8. CASE WithImport(DbStep)
  <2>1. PICK r \in requests : RunStage(r) \/ RunMerge(r) \/ ClearAfterMerge(r) \/ Reply(r)
    BY <1>8 DEF WithImport, DbStep
  <2>2. r.src \in Source /\ r.file \in File BY <1>1 DEF TypeOK, ImportTypeOK, Request
  <2>3. CASE RunMerge(r)
    <3>1. s = r.src /\ f = r.file
      BY <1>1, <1>2, <2>2, <2>3 DEF RunMerge, Merge, SetStatus, Swallowed
    <3> QED BY <2>3, <3>1
  <2>4. CASE RunStage(r)
    BY <1>1, <1>2, <2>2, <2>4 DEF RunStage, Stage, SetStatus, Swallowed
  <2>5. CASE ClearAfterMerge(r) \/ Reply(r)
    BY <1>2, <2>5 DEF ClearAfterMerge, ClearStaging, Swallowed, Reply
  <2> QED BY <2>1, <2>3, <2>4, <2>5
<1> QED BY <1>4, <1>5, <1>6, <1>7, <1>8 DEF Next

\* MergeAll marks the row it is told of as merged whatever it finds in staging: that it
\* finds the data of this file and no other rests on the turns, on every cycle clearing
\* both staging databases, and on staging not failing behind Import's back.  Import and
\* DbInteractions may stop anywhere; merges may fail, and rows be refused.
THEOREM MergesSeeTheirFile ==
    OneAtATime /\ OnlyMergesFail => (Spec => MergeSeesItsFile /\ []MergesDontMix)
<1> SUFFICES ASSUME OneAtATime, OnlyMergesFail
             PROVE  Spec => MergeSeesItsFile /\ []MergesDontMix
  OBVIOUS
<1>1. MergeInv /\ [Next]_vars => MergeInv' BY OneFileStays
<1>2. MergeInv => MergesDontMix BY DEF MergeInv
<1>3. MergeInv /\ [Next]_vars =>
        [\A s \in Source, f \in File :
            table[s][f] # "Merged" /\ table'[s][f] = "Merged" => staging[s] = {f}]_vars
  <2> SUFFICES ASSUME MergeInv, [Next]_vars, NEW s \in Source, NEW f \in File,
                      table[s][f] # "Merged", table'[s][f] = "Merged"
               PROVE  staging[s] = {f}
    OBVIOUS
  <2>1. PICK r \in requests : r.src = s /\ r.file = f /\ RunMerge(r)
    BY MergedByRequest DEF MergeInv, TurnInv
  <2> QED BY <2>1 DEF MergeInv, OneFileStaged, StagedOf, MergeReady, RunMerge
<1> QED BY InitMerges, <1>1, <1>2, <1>3, PTL DEF Spec, MergeSeesItsFile

-----------------------------------------------------------------------------
(* No file is older than one before it *)

\* Every row of s is dated before f.
Newer(s, f) == \A g \in File : HasRow(s, g) => Date[g] < Date[f]

\* The row written last is that of the newest file.
LatestIsNewest(s) ==
    /\ latest[s] \in File => HasRow(s, latest[s])
    /\ \A g \in File : HasRow(s, g) => latest[s] \in File /\ Date[g] <= Date[latest[s]]

\* One of the messages in queue q is about file f.
Tells(q, f) == \E n \in 1 .. Len(q) : q[n].file = f

\* File f of source s was handed over and has not come to its end.
InHandOf(s, f) ==
    \/ Tells(downloads[s], f) \/ Tells(inbox[s], f)
    \/ \E w \in Worker : work[w] # Unused /\ work[w].src = s /\ work[w].file = f
    \/ \E h \in Handler : pc[h] \in Importing /\ job[h].src = s /\ job[h].file = f
    \/ \E r \in requests : r.src = s /\ r.file = f

\* The date of the file FileSync picked for s was compared, and found newer.
Compared(s) ==
    \/ s = "delius" /\ sync.at = "gateOffloc" /\ sync.ok
    \/ s = "delius" /\ sync.at = "publishDelius"
    \/ s = "offloc" /\ sync.at \in {"publishDelius", "publishOffloc"}

NewestOf(s) ==
    /\ LatestIsNewest(s)
    /\ \A f \in File : InHandOf(s, f) => f = latest[s] \/ Newer(s, f)
    /\ Compared(s) => Newer(s, sync.pick[s])

NewestInv == TurnInv /\ \A s \in Source : NewestOf(s)

LEMMA TellsTail ==
    ASSUME NEW S, NEW q \in Seq(S), q # <<>>, NEW f
    PROVE  /\ Tells(Tail(q), f) => Tells(q, f)
           /\ Tells(q, Head(q).file)
<1>1. /\ Len(q) \in Nat /\ Len(q) > 0 /\ Len(Tail(q)) = Len(q) - 1 /\ Head(q) = q[1]
      /\ \A i \in 1 .. Len(Tail(q)) : Tail(q)[i] = q[i + 1]
  BY EmptySeq, LenProperties, HeadTailProperties
<1>2. ASSUME NEW i \in 1 .. Len(Tail(q)), Tail(q)[i].file = f PROVE Tells(q, f)
  <2>1. i + 1 \in 1 .. Len(q) /\ q[i + 1].file = f BY <1>1, <1>2
  <2> QED BY <2>1 DEF Tells
<1>3. 1 \in 1 .. Len(q) BY <1>1
<1> QED BY <1>1, <1>2, <1>3 DEF Tells

LEMMA TellsAppend ==
    ASSUME NEW S, NEW q \in Seq(S), NEW m \in S, NEW f, Tells(Append(q, m), f)
    PROVE  Tells(q, f) \/ m.file = f
<1>1. /\ Len(q) \in Nat /\ Len(Append(q, m)) = Len(q) + 1
      /\ \A i \in 1 .. Len(q) : Append(q, m)[i] = q[i]
      /\ Append(q, m)[Len(q) + 1] = m
  BY LenProperties, AppendProperties
<1>2. PICK i \in 1 .. Len(Append(q, m)) : Append(q, m)[i].file = f BY DEF Tells
<1>3. i \in 1 .. Len(q) \/ i = Len(q) + 1 BY <1>1
<1> QED BY <1>1, <1>2, <1>3 DEF Tells

\* What is in hand was in hand before, or FileSync has just handed it over.
LEMMA InHandFrom ==
    ASSUME TypeInv, [Next]_vars, NEW s \in Source, NEW f \in File, InHandOf(s, f)'
    PROVE  InHandOf(s, f) \/ (Publishes(s) /\ f = sync.pick[s])
<1> USE DEF At, Goto, Return
<1>1. /\ work \in [Worker -> Work] /\ downloads \in [Source -> Seq(Download)]
      /\ inbox \in [Source -> Seq(Message)] /\ TypeOK /\ requests \subseteq Request
      /\ pc \in [Handler -> Step] /\ job \in [Handler -> Job \cup {NoJob}]
      /\ sync \in Sync
  BY DEF TypeInv, TypeOK, FileSyncTypeOK, ImportTypeOK, Sync
<1>2. ASSUME UNCHANGED <<downloads, inbox, work, pc, job, requests>> PROVE InHandOf(s, f)
  BY <1>2 DEF InHandOf
<1>3. CASE WithSync(SyncNext(UnderWay))
  <2> HIDE DEF UnderWay
  <2>1. UNCHANGED <<inbox, work, pc, job, requests>> BY <1>3 DEF WithSync
  <2>2. ASSUME NEW t \in Source, NEW m \in Download,
               downloads' = [downloads EXCEPT ![t] = Append(@, m)], m.file = sync.pick[t]
        PROVE  InHandOf(s, f) \/ (Publishes(s) /\ f = sync.pick[s])
    <3>1. CASE s = t
      <4>1. downloads'[s] = Append(downloads[s], m) BY <1>1, <2>2, <3>1
      <4>2. Publishes(s)
        <5>1. Len(downloads'[s]) = Len(downloads[s]) + 1 /\ Len(downloads[s]) \in Nat
          BY <1>1, <4>1, AppendProperties, LenProperties
        <5> QED BY <5>1 DEF Publishes
      <4>3. Tells(downloads[s], f)' => Tells(downloads[s], f) \/ f = sync.pick[s]
        <5>1. Tells(downloads[s], f)' => Tells(Append(downloads[s], m), f) BY <4>1 DEF Tells
        <5> QED BY <1>1, <2>2, <3>1, <5>1, TellsAppend
      <4> QED BY <2>1, <4>2, <4>3 DEF InHandOf
    <3>2. CASE s # t
      <4>1. downloads'[s] = downloads[s] BY <1>1, <2>2, <3>2
      <4> QED BY <2>1, <4>1 DEF InHandOf, Tells
    <3> QED BY <3>1, <3>2
  <2>3. CASE PublishDelius
    <3>1. [file |-> sync.pick["delius"], archive |-> NoFile] \in Download
      BY <2>3 DEF PublishDelius, SyncAt, TypeInv, Picked, Download, Source
    <3> QED BY <2>2, <2>3, <3>1 DEF PublishDelius, Source
  <2>4. CASE PublishOffloc
    <3>1. [file |-> sync.pick["offloc"], archive |-> sync.parent] \in Download
      BY <1>1, <2>4 DEF PublishOffloc, SyncAt, TypeInv, Picked, Download, Source, Sync
    <3> QED BY <2>2, <2>4, <3>1 DEF PublishOffloc, Source
  <2>5. CASE ~PublishDelius /\ ~PublishOffloc
    <3>1. UNCHANGED downloads
      BY <1>3, <2>5, ProcessLeaves DEF WithSync, SyncNext, Timer, Completion, Restart
    <3> QED BY <1>2, <2>1, <3>1
  <2> QED BY <2>3, <2>4, <2>5
<1>4. CASE WithSync(Tidy) \/ (\E t \in Source : WithSync(Arrive(t))) \/ Cluster
           \/ UNCHANGED vars
  BY <1>2, <1>4 DEF WithSync, Tidy, Arrive, Cluster, vars
<1>5. CASE ParseStep
  <2>1. UNCHANGED <<pc, job, requests>>
    BY <1>5 DEF ParseStep, WorkOn, TakeUp, Ask, Skip, Create, Clean, CleanNothing, Replace,
       ReplaceNothing, StartParse, Parse, ParseNothing, Finish
  <2>2. ASSUME NEW w \in Worker, NEW t \in Source, TakeUp(w, t) PROVE InHandOf(s, f)
    <3>1. /\ downloads[t] # <<>> /\ downloads' = [downloads EXCEPT ![t] = Tail(@)]
          /\ \E a : work' = [work EXCEPT ![w] = [at |-> "ask", src |-> t,
                                file |-> Head(downloads[t]).file, archive |-> a]]
          /\ UNCHANGED inbox
      BY <2>2 DEF TakeUp
    <3>2. /\ work'[w].src = t /\ work'[w].file = Head(downloads[t]).file
          /\ \A v \in Worker \ {w} : work'[v] = work[v]
      BY <1>1, <3>1
    <3>3. /\ Tells(downloads[t], Head(downloads[t]).file)
          /\ Tells(Tail(downloads[t]), f) => Tells(downloads[t], f)
      BY <1>1, <3>1, TellsTail
    <3>4. Tells(downloads[s], f)' => Tells(downloads[s], f)
      <4>1. downloads'[s] = IF s = t THEN Tail(downloads[s]) ELSE downloads[s]
        BY <1>1, <3>1
      <4> QED BY <3>3, <4>1 DEF Tells
    <3> QED BY <2>1, <3>1, <3>2, <3>3, <3>4 DEF InHandOf, Tells
  <2>3. ASSUME NEW w \in Worker, NEW m \in Message, NEW at \in WorkStep, WorkAt(w, at),
               Toward(work[w].src, m), work' = [work EXCEPT ![w] = Unused],
               m.file = work[w].file, UNCHANGED downloads
        PROVE  InHandOf(s, f)
    <3>1. work[w] # Unused /\ work[w].src \in Source
      BY <1>1, <2>3, InHandIs DEF WorkAt, WorkStep, Unused
    <3>2. work'[w] = Unused /\ \A v \in Worker \ {w} : work'[v] = work[v] BY <1>1, <2>3
    <3>3. Tells(inbox[s], f)' =>
             Tells(inbox[s], f) \/ (s = work[w].src /\ f = work[w].file)
      <4>1. inbox'[s] = IF s = work[w].src THEN Append(inbox[s], m) ELSE inbox[s]
        BY <1>1, <2>3, <3>1 DEF Toward
      <4>2. Tells(Append(inbox[s], m), f) => Tells(inbox[s], f) \/ m.file = f
        BY <1>1, TellsAppend
      <4> QED BY <2>3, <4>1, <4>2 DEF Tells
    <3> QED BY <2>1, <2>3, <3>1, <3>2, <3>3 DEF InHandOf, Tells
  <2>4. ASSUME NEW w \in Worker, NEW at \in WorkStep, WorkAt(w, at),
               CrashOf(w) \/ (\E to \in WorkStep : WorkGoto(w, to)),
               UNCHANGED <<downloads, inbox>>
        PROVE  InHandOf(s, f)
    <3>1. \A v \in Worker : work'[v] # Unused =>
             work[v] # Unused /\ work'[v].src = work[v].src /\ work'[v].file = work[v].file
      BY <2>4, WorkGoesOn
    <3> QED BY <2>1, <2>4, <3>1 DEF InHandOf, Tells
  <2>5. ASSUME NEW w \in Worker, WorkOn(w) PROVE InHandOf(s, f)
    <3> USE DEF WorkStep
    <3>1. CASE Ask(w) BY <2>4, <3>1 DEF Ask
    <3>2. CASE Create(w) BY <2>4, <3>2 DEF Create
    <3>3. CASE Clean(w) BY <2>4, <3>3 DEF Clean
    <3>4. CASE CleanNothing(w) BY <2>4, <3>4 DEF CleanNothing
    <3>5. CASE Replace(w) BY <2>4, <3>5 DEF Replace
    <3>6. CASE ReplaceNothing(w) BY <2>4, <3>6 DEF ReplaceNothing
    <3>7. CASE StartParse(w) BY <2>4, <3>7 DEF StartParse
    <3>8. CASE Parse(w) BY <2>4, <3>8 DEF Parse
    <3>9. CASE ParseNothing(w) BY <2>4, <3>9 DEF ParseNothing
    <3>10. ASSUME NEW empty \in BOOLEAN, NEW at \in WorkStep, WorkAt(w, at)
           PROVE  [file |-> work[w].file, empty |-> empty] \in Message
      BY <1>1, <3>10, InHandIs DEF Message
    <3>11. CASE Skip(w) BY <2>3, <3>10, <3>11 DEF Skip
    <3>12. CASE Finish(w) BY <2>3, <3>10, <3>12 DEF Finish
    <3> QED
      BY <2>5, <3>1, <3>2, <3>3, <3>4, <3>5, <3>6, <3>7, <3>8, <3>9, <3>11, <3>12 DEF WorkOn
  <2> QED BY <1>5, <2>2, <2>5 DEF ParseStep
<1>6. CASE WithImport(ImportStep)
  <2>1. UNCHANGED <<downloads, work>> BY <1>6 DEF WithImport
  <2>2. PICK h \in Handler :
          \/ \E t \in Source : Receive(h, t)
          \/ Acquire(h) \/ SendStage(h) \/ StageAnswered(h) \/ SendMerge(h)
          \/ MergeAnswered(h) \/ Release(h) \/ Complete(h) \/ Check(h) \/ Reset(h)
          \/ PublishImportFinished(h)
    BY <1>6 DEF WithImport, ImportStep
  <2>3. ASSUME NEW t \in Source, Receive(h, t) PROVE InHandOf(s, f)
    <3>1. /\ pc'[h] = "acquire" /\ job'[h].src = t /\ job'[h].file = Head(inbox[t]).file
          /\ inbox[t] # <<>> /\ inbox' = [inbox EXCEPT ![t] = Tail(@)]
          /\ \A g \in Handler \ {h} : pc'[g] = pc[g] /\ job'[g] = job[g]
          /\ UNCHANGED requests
      BY <1>1, <2>3 DEF Receive
    <3>2. /\ Tells(inbox[t], Head(inbox[t]).file)
          /\ Tells(Tail(inbox[t]), f) => Tells(inbox[t], f)
      BY <1>1, <3>1, TellsTail
    <3>3. Tells(inbox[s], f)' => Tells(inbox[s], f)
      <4>1. inbox'[s] = IF s = t THEN Tail(inbox[s]) ELSE inbox[s] BY <1>1, <3>1
      <4> QED BY <3>2, <4>1 DEF Tells
    <3>4. Tells(downloads[s], f)' <=> Tells(downloads[s], f) BY <2>1 DEF Tells
    <3>5. \A g \in Handler : pc'[g] \in Importing /\ job'[g].src = s /\ job'[g].file = f =>
             \/ pc[g] \in Importing /\ job[g].src = s /\ job[g].file = f
             \/ Tells(inbox[s], f)
      BY <3>1, <3>2
    <3> QED BY <2>1, <3>1, <3>3, <3>4, <3>5 DEF InHandOf
  <2>4. ASSUME NEW op \in Call, NEW to, Send(h, op, to) PROVE InHandOf(s, f)
    <3>1. PICK r : r = [op |-> op, src |-> job[h].src, file |-> job[h].file, at |-> "run"]
      OBVIOUS
    <3>2. /\ requests' = requests \cup {r} /\ r.src = job[h].src /\ r.file = job[h].file
          /\ pc[h] \in Importing /\ pc' = [pc EXCEPT ![h] = to] /\ UNCHANGED <<job, inbox>>
      BY <2>4, <3>1 DEF Send, Call, Importing
    <3>3. \A g \in Handler : pc'[g] \in Importing => pc[g] \in Importing BY <1>1, <3>2
    <3> QED BY <2>1, <3>2, <3>3 DEF InHandOf, Tells
  <2>5. ASSUME ~\E t \in Source : Receive(h, t), ~SendStage(h), ~SendMerge(h)
        PROVE  InHandOf(s, f)
    <3>1. /\ UNCHANGED <<inbox, requests>>
          /\ \A g \in Handler : pc'[g] \in Importing => pc[g] \in Importing /\ job'[g] = job[g]
      BY <1>1, <2>2, <2>5 DEF Acquire, StageAnswered, MergeAnswered, Answered, Release,
         Complete, Check, Reset, PublishImportFinished, Importing
    <3> QED BY <2>1, <3>1 DEF InHandOf, Tells
  <2> QED BY <2>3, <2>4, <2>5 DEF SendStage, SendMerge, Call
<1>7. CASE WithImport(DbStep)
  <2>1. UNCHANGED <<downloads, work>> BY <1>7 DEF WithImport
  <2>2. PICK r \in requests : RunStage(r) \/ RunMerge(r) \/ ClearAfterMerge(r) \/ Reply(r)
    BY <1>7 DEF WithImport, DbStep
  <2>3. /\ UNCHANGED importVars
        /\ requests' = requests \ {r}
           \/ \E at : requests' = (requests \ {r}) \cup {[r EXCEPT !.at = at]}
    BY <2>2 DEF RunStage, RunMerge, ClearAfterMerge, Reply, Advance
  <2>4. \A q \in requests' : \E p \in requests : q.src = p.src /\ q.file = p.file
    BY <1>1, <2>3 DEF Request
  <2> QED BY <2>1, <2>3, <2>4 DEF InHandOf, Tells
<1>8. CASE Crash /\ UNCHANGED <<syncVars, parseVars>>
  BY <1>8 DEF Crash, ImportCrash, DbCrash, InHandOf, Tells, Importing
<1> QED BY <1>3, <1>4, <1>5, <1>6, <1>7, <1>8 DEF Next

\* FileSync compares with the row written last.
LEMMA ComparedFrom ==
    ASSUME TypeInv, ~AllowProcessingOlderFiles, SyncNext(UnderWay), NEW s \in Source,
           Compared(s)'
    PROVE  /\ sync'.pick[s] = sync.pick[s]
           /\ Compared(s) \/ (NewerThanLastProcessed(s) /\ sync.pick[s] \in File)
<1> USE DEF SyncAt, SyncGoto
<1>1. sync \in Sync BY DEF TypeInv, TypeOK, FileSyncTypeOK, Sync
<1>2. \A at : Start(at).at = at BY DEF Start
<1>3. CASE Completion \/ Timer(UnderWay) \/ Restart \/ PickAmbiguousArchive \/ ReadyOffloc
           \/ PublishOffloc
  <2>1. CASE UNCHANGED sync BY <2>1 DEF Compared
  <2>2. ASSUME NEW at \in {"idle", "readyDelius", "clearDelius"}, sync' = Start(at)
        PROVE  FALSE
    BY <1>2, <2>2 DEF Compared
  <2> QED
    BY <1>3, <2>1, <2>2 DEF Completion, Timer, Restart, PickAmbiguousArchive, Launch, Done,
       ReadyOffloc, PublishOffloc
<1>4. CASE ReadyDelius \/ ClearDelius \/ ClearOffloc \/ ClearInput \/ PickDelius
  <2>1. sync'.at \in {"readyOffloc", "clearOffloc", "clearInput", "pickDelius", "pickOffloc"}
    <3>1. CASE ReadyDelius BY <1>1, <3>1 DEF ReadyDelius, Sync
    <3>2. CASE ClearDelius \/ ClearOffloc \/ ClearInput
      BY <1>1, <3>2 DEF ClearDelius, ClearOffloc, ClearStep, ClearInput, Sync
    <3>3. CASE PickDelius BY <1>1, <3>3 DEF PickDelius, Sync
    <3> QED BY <1>4, <3>1, <3>2, <3>3
  <2> QED BY <2>1 DEF Compared
<1>5. ASSUME NEW f, NEW a, WithOffloc(f, a) PROVE ~Compared(s)'
  BY <1>1, <1>2, <1>5 DEF WithOffloc, Done, Compared, Sync
<1>6. CASE PickNothing \/ PickFile \/ PickArchive
  BY <1>5, <1>6 DEF PickNothing, PickFile, PickArchive
<1>7. CASE PickProcessedArchive BY <1>7 DEF PickProcessedArchive, Compared
<1>8. CASE GateDelius
  BY <1>1, <1>8 DEF GateDelius, Compared, Sync, TypeInv, Picked
<1>9. CASE GateOffloc
  <2>1. sync.pick[s] \in File BY <1>9 DEF GateOffloc, TypeInv, Picked
  <2>2. sync'.at = "publishDelius" /\ sync.ok /\ NewerThanLastProcessed("offloc")
        /\ sync'.pick = sync.pick
    BY <1>1, <1>2, <1>9 DEF GateOffloc, Done, Compared, Sync
  <2> QED BY <1>9, <2>1, <2>2 DEF GateOffloc, Compared, Source
<1>10. CASE PublishDelius
  BY <1>1, <1>10 DEF PublishDelius, Compared, Sync
<1> QED
  BY <1>3, <1>4, <1>6, <1>7, <1>8, <1>9, <1>10 DEF SyncNext, Process

\* Without archives a row is written last for a file that is newest, and only the step
\* that creates its row changes which one that is.
LEMMA NewestIsWritten ==
    ASSUME TypeInv, Archive = {}, NEW s \in Source, NewestOf(s), [Next]_vars
    PROVE  \/ SameRows(s)
           \/ \E w \in Worker : /\ work[w] # Unused /\ work[w].src = s /\ Create(w)
                                /\ work[w].file \in File /\ Writes(s, work[w].file)
                                /\ Newer(s, work[w].file)
<1>1. Date \in [File -> Nat] /\ \A f \in File : ~(Date[f] < Date[f])
  BY FileSyncAssumption
<1>2. ASSUME NEW f \in File, HasRow(s, f), InHandOf(s, f), Writes(s, f) PROVE SameRows(s)
  <2>1. ~Newer(s, f) BY <1>1, <1>2 DEF Newer
  <2>2. f = latest[s] BY <1>2, <2>1 DEF NewestOf
  <2> QED BY <1>2, <2>2 DEF Writes, SameRows, HasRow
<1>3. ASSUME NEW r \in requests, r.src = s, HasRow(s, r.file), Writes(s, r.file)
      PROVE  SameRows(s)
  <2>1. r.file \in File /\ InHandOf(s, r.file)
    BY <1>3 DEF TypeInv, TypeOK, ImportTypeOK, Request, InHandOf
  <2> QED BY <1>2, <1>3, <2>1
<1>4. ASSUME NEW w \in Worker, work[w] # Unused, work[w].src = s, Create(w),
             Writes(s, work[w].file)
      PROVE  SameRows(s) \/ (work[w].file \in File /\ Newer(s, work[w].file))
  <2>1. work[w].file \in File /\ InHandOf(s, work[w].file)
    BY <1>4, InHandIs DEF TypeInv, Create, WorkStep, InHandOf
  <2>2. CASE Newer(s, work[w].file) BY <2>1, <2>2
  <2>3. CASE work[w].file = latest[s]
    <3>1. HasRow(s, work[w].file) BY <2>1, <2>3 DEF NewestOf, LatestIsNewest
    <3> QED BY <1>2, <1>4, <2>1, <3>1
  <2> QED BY <2>1, <2>2, <2>3 DEF NewestOf
<1> QED BY <1>3, <1>4, RowsAreWritten

LEMMA NewestStays ==
    ASSUME OneAtATime, ~AllowProcessingOlderFiles, Archive = {}, NewestInv, [Next]_vars
    PROVE  NewestInv'
<1> USE DEF NewestInv
<1>1. TurnInv' BY StepTurnInv
<1>2. TypeInv /\ Date \in [File -> Nat] /\ latest \in [Source -> File \cup {NoFile}]
  BY FileSyncAssumption DEF TurnInv, TypeInv, TypeOK, ImportTypeOK, DbTypeOK
<1>3. ASSUME NEW s \in Source PROVE NewestOf(s)'
  <2>1. NewestOf(s) OBVIOUS
  <2>2. ASSUME NEW f \in File, Publishes(s), f = sync.pick[s] PROVE Newer(s, f)
    <3>1. Compared(s) BY <1>2, <2>2, PublishesIs DEF Compared, Source
    <3> QED BY <2>1, <2>2, <3>1 DEF NewestOf
  <2>3. ASSUME NEW f \in File, InHandOf(s, f)' PROVE f = latest[s] \/ Newer(s, f)
    BY <1>2, <2>1, <2>2, <2>3, InHandFrom DEF NewestOf
  <2>4. CASE SameRows(s)
    <3>1. LatestIsNewest(s)' BY <2>1, <2>4 DEF NewestOf, LatestIsNewest, SameRows
    <3>2. \A f : Newer(s, f) => Newer(s, f)' BY <2>4 DEF Newer, SameRows
    <3>3. latest'[s] = latest[s] BY <2>4 DEF SameRows
    <3>4. ASSUME Compared(s)' PROVE Newer(s, sync.pick[s])'
      <4>1. CASE UNCHANGED sync
        <5>1. Newer(s, sync.pick[s]) BY <2>1, <3>4, <4>1 DEF NewestOf, Compared
        <5> QED BY <3>2, <4>1, <5>1 DEF Newer
      <4>2. CASE WithSync(SyncNext(UnderWay))
        <5> HIDE DEF UnderWay
        <5>1. /\ sync'.pick[s] = sync.pick[s]
              /\ Compared(s) \/ (NewerThanLastProcessed(s) /\ sync.pick[s] \in File)
          BY <1>2, <3>4, <4>2, ComparedFrom DEF WithSync
        <5>2. NewerThanLastProcessed(s) /\ sync.pick[s] \in File => Newer(s, sync.pick[s])
          BY <1>2, <2>1, NoFileAssumption
             DEF NewestOf, LatestIsNewest, NewerThanLastProcessed, Newer
        <5>3. Newer(s, sync.pick[s]) BY <2>1, <5>1, <5>2 DEF NewestOf
        <5> QED BY <2>4, <5>1, <5>3 DEF Newer, SameRows
      <4> QED BY <4>1, <4>2, SyncAlone
    <3> QED BY <2>3, <3>1, <3>2, <3>3, <3>4 DEF NewestOf
  <2>5. ASSUME NEW w \in Worker, work[w] # Unused, work[w].src = s, Create(w),
               work[w].file \in File, Writes(s, work[w].file), Newer(s, work[w].file)
        PROVE  NewestOf(s)'
    <3>1. Turn(s, "work", w) BY <2>5 DEF Turn
    <3>2. \A k, x : Turn(s, k, x) => k = "work" /\ x = w
      BY <3>1 DEF TurnInv, OneTurn, OneTurnOf
    <3>3. ~Compared(s)'
      <4>1. ~Turn(s, "sync", 0) /\ UNCHANGED sync BY <2>5, <3>2 DEF Create
      <4> QED BY <4>1 DEF Compared, Turn, Source
    <3>4. ASSUME NEW f \in File, InHandOf(s, f) PROVE f = work[w].file
      <4>1. \A r \in requests : r.src # s
        <5>1. \A r : ~Turn(s, "request", r) BY <3>2
        <5> QED BY <5>1 DEF Turn
      <4>2. \A op \in Call : responses[s][op] = 0
        <5>1. ASSUME NEW op \in Call, responses[s][op] # 0 PROVE FALSE
          <6>1. responses[s][op] \in Nat
            BY DEF TurnInv, TypeInv, TypeOK, ImportTypeOK
          <6>2. Turn(s, op, 1) BY <5>1, <6>1 DEF Turn
          <6> QED BY <3>2, <6>2 DEF Call
        <5> QED BY <5>1
      <4>3. ~Asked(s) BY <4>1, <4>2 DEF Asked
      <4>4. ~Tells(downloads[s], f)
        <5>1. \A n \in 1 .. Len(downloads[s]) : Turn(s, "download", n) BY DEF Turn
        <5> QED BY <3>2, <5>1 DEF Tells
      <4>5. ~Tells(inbox[s], f)
        <5>1. \A n \in 1 .. Len(inbox[s]) : Turn(s, "inbox", n) BY DEF Turn
        <5> QED BY <3>2, <5>1 DEF Tells
      <4>6. \A h \in Handler : ~(pc[h] \in Importing /\ job[h].src = s)
        <5>1. \A h : ~Turn(s, "handler", h) BY <3>2
        <5> QED BY <4>3, <5>1 DEF Turn
      <4>7. \A v \in Worker : work[v] # Unused /\ work[v].src = s => v = w
        <5>1. \A v : Turn(s, "work", v) => v = w BY <3>2
        <5> QED BY <5>1 DEF Turn
      <4> QED BY <3>4, <4>1, <4>4, <4>5, <4>6, <4>7 DEF InHandOf
    <3>5. ASSUME NEW f \in File, InHandOf(s, f)' PROVE f = work[w].file
      <4>1. ~Publishes(s)
        <5>1. ~Turn(s, "sync", 0) BY <3>2
        <5> QED BY <1>2, <5>1, PublishesIs
      <4> QED BY <1>2, <3>4, <3>5, <4>1, InHandFrom
    <3>6. LatestIsNewest(s)'
      <4>1. latest'[s] = work[w].file /\ table'[s][work[w].file] # "None" BY <2>5 DEF Writes
      <4>2. ASSUME NEW g \in File, HasRow(s, g)' PROVE Date[g] <= Date[work[w].file]
        <5>1. CASE g = work[w].file BY <1>2, <5>1
        <5>2. CASE g # work[w].file
          <6>1. Date[g] < Date[work[w].file] BY <2>5, <4>2, <5>2 DEF Writes, Newer
          <6> QED BY <1>2, <2>5, <6>1
        <5> QED BY <5>1, <5>2
      <4>3. PICK f \in File : f = work[w].file BY <2>5
      <4>4. latest'[s] = f /\ HasRow(s, f)'
            /\ \A g \in File : HasRow(s, g)' => Date[g] <= Date[f]
        BY <4>1, <4>2, <4>3 DEF HasRow
      <4> QED BY <4>4 DEF LatestIsNewest, HasRow
    <3> QED BY <2>5, <3>3, <3>5, <3>6 DEF NewestOf, Writes
  <2> QED BY <1>2, <2>1, <2>4, <2>5, NewestIsWritten
<1> QED BY <1>1, <1>3

LEMMA InitNewest == Init => NewestInv
<1> SUFFICES ASSUME Init, NEW s \in Source PROVE NewestOf(s)
  BY InitTurnInv DEF NewestInv
<1>1. \A g \in File : ~HasRow(s, g) BY DEF Init, ImportInit, DbInit, HasRow
<1>2. latest[s] = NoFile BY DEF Init, ImportInit, DbInit
<1> QED BY <1>1, <1>2, NoFileAssumption DEF NewestOf, LatestIsNewest, Newer

\* FileSync compares dates with the row written last, not with the newest one.  Without
\* archives the two are the same, since rows are written in turns, and a file handed over
\* is dated after every file with a row.
THEOREM NoOlderFiles == OneAtATime /\ Archive = {} => (Spec => NeverOlder)
<1> SUFFICES ASSUME OneAtATime, Archive = {} PROVE Spec => NeverOlder OBVIOUS
<1>1. CASE AllowProcessingOlderFiles
  <2>1. [Next]_vars =>
          [\A s \in Source : Publishes(s) =>
              \/ AllowProcessingOlderFiles
              \/ \A g \in File : HasRow(s, g) => Date[g] < Date[sync.pick[s]]]_downloads
    BY <1>1
  <2> QED BY <2>1, PTL DEF Spec, NeverOlder
<1>2. CASE ~AllowProcessingOlderFiles
  <2>1. NewestInv /\ [Next]_vars => NewestInv' BY <1>2, NewestStays
  <2>2. NewestInv /\ [Next]_vars =>
          [\A s \in Source : Publishes(s) =>
              \/ AllowProcessingOlderFiles
              \/ \A g \in File : HasRow(s, g) => Date[g] < Date[sync.pick[s]]]_downloads
    <3> SUFFICES ASSUME NewestInv, [Next]_vars, NEW s \in Source, Publishes(s)
                 PROVE  \A g \in File : HasRow(s, g) => Date[g] < Date[sync.pick[s]]
      OBVIOUS
    <3>1. Compared(s) BY PublishesIs DEF NewestInv, TurnInv, Compared, Source
    <3> QED BY <3>1 DEF NewestInv, NewestOf, Newer
  <2> QED BY InitNewest, <2>1, <2>2, PTL DEF Spec, NeverOlder
<1> QED BY <1>1, <1>2

-----------------------------------------------------------------------------
(* A batch is what BatchLifecycle says *)

\* The files of s with a row are n.
Rows(s, n) ==
    LET rows == {f \in File : HasRow(s, f)}
    IN  IsFiniteSet(rows) /\ Cardinality(rows) = n

\* Between two batches all rows are merged, one for each that was announced, ...
Between(s) == Rows(s, importFinished) /\ Ready(s)
\* ... within one there is one more, of the file in hand, ...
InBatch(s, f, status) ==
    /\ Rows(s, importFinished + 1) /\ table[s][f] = status
    /\ \A g \in File \ {f} : table[s][g] \in {"None", "Merged"}
\* ... which in the end is merged too.
Ended(s) == Rows(s, importFinished + 1) /\ Ready(s)

\* A file that was handed over and has no row so far.
Coming(s, f) ==
    \/ Tells(downloads[s], f)
    \/ \E w \in Worker : /\ work[w].at \in {"ask", "create"}
                         /\ work[w].src = s /\ work[w].file = f
\* The turns between two batches.
Free(s) ==
    \/ Turn(s, "sync", 0) \/ clustered < importFinished \/ completions > 0
    \/ \E f \in File : Coming(s, f)

\* The turns of a file whose row has a certain status.
Parsed(s, f) ==
    \/ \E w \in Worker : /\ work[w].at \in {"clean", "swap", "cleaned", "parse", "finish"}
                         /\ work[w].src = s /\ work[w].file = f
    \/ Tells(inbox[s], f)
    \/ \E h \in Handler : pc[h] \in {"acquire", "stage"} /\ job[h].src = s /\ job[h].file = f
    \/ \E r \in requests : r.op = "stage" /\ r.at = "run" /\ r.src = s /\ r.file = f
Loaded(s, f) ==
    \/ \E h \in Handler : Staged(s, h) /\ job[h].file = f
    \/ \E r \in requests : MergeReady(s, r) /\ r.file = f
Shown(s, f) ==
    \/ \E h \in Handler : /\ job[h].src = s /\ job[h].file = f
                          /\ \/ pc[h] \in {"release", "complete"}
                             \/ pc[h] = "merging" /\ responses[s]["merge"] > 0
    \/ \E r \in requests : r.op = "merge" /\ r.at # "run" /\ r.src = s /\ r.file = f
\* The turns after the last step of its file.
Over(s) == completed[s] \/ \E h \in Handler : pc[h] = "publish"

RowsTell(s) ==
    /\ Free(s) => Between(s)
    /\ Over(s) => Ended(s)
    /\ \A f \in File :
          /\ Coming(s, f) => ~HasRow(s, f)
          /\ Parsed(s, f) => InBatch(s, f, "Processing")
          /\ Loaded(s, f) => InBatch(s, f, "Imported")
          /\ Shown(s, f) => InBatch(s, f, "Merged")

\* A file that is new is never skipped.
NoneSkipped ==
    /\ \A w \in Worker : work[w].at # "skip"
    /\ \A h \in Handler : pc[h] = "acquire" => ~job[h].empty
    /\ \A s \in Source :
          ~fileEmpty[s] /\ \A n \in 1 .. Len(inbox[s]) : ~inbox[s][n].empty

BatchInv ==
    MergeInv /\ PicksAreNew /\ NoneSkipped /\ \A s \in Source : RowsTell(s)

\* Files have primary keys of their own.
KeysDiffer == \A f, g \in File : FileId[f] = FileId[g] => f = g

-----------------------------------------------------------------------------
\* Rows that stay as they are tell what they told, if no turn is of another kind.
LEMMA TellStill ==
    ASSUME NEW s \in Source, table'[s] = table[s], importFinished' = importFinished,
           Free(s)' => Between(s), Over(s)' => Ended(s),
           \A f \in File : /\ Coming(s, f)' => ~HasRow(s, f)
                           /\ Parsed(s, f)' => InBatch(s, f, "Processing")
                           /\ Loaded(s, f)' => InBatch(s, f, "Imported")
                           /\ Shown(s, f)' => InBatch(s, f, "Merged")
    PROVE  RowsTell(s)'
<1>1. /\ \A f \in File : HasRow(s, f)' <=> HasRow(s, f)
      /\ \A n : Rows(s, n)' <=> Rows(s, n)
  BY DEF HasRow, Rows
<1>2. Between(s)' <=> Between(s) BY <1>1 DEF Between, Ready
<1>3. Ended(s)' <=> Ended(s) BY <1>1 DEF Ended, Ready
<1>4. \A f, status : InBatch(s, f, status)' <=> InBatch(s, f, status) BY <1>1 DEF InBatch
<1> QED BY <1>1, <1>2, <1>3, <1>4 DEF RowsTell

\* No turn of s is of a kind that it was not of before.
NoNewKind(s) ==
    /\ Free(s)' => Free(s)
    /\ Over(s)' => Over(s)
    /\ \A f \in File : /\ Coming(s, f)' => Coming(s, f)
                       /\ Parsed(s, f)' => Parsed(s, f)
                       /\ Loaded(s, f)' => Loaded(s, f)
                       /\ Shown(s, f)' => Shown(s, f)

LEMMA TellAsBefore ==
    ASSUME NEW s \in Source, RowsTell(s), NoNewKind(s), table'[s] = table[s],
           importFinished' = importFinished
    PROVE  RowsTell(s)'
BY TellStill DEF RowsTell, NoNewKind

\* One more row, or as many as before.
LEMMA RowsCount ==
    ASSUME DbTypeOK, NEW s \in Source, NEW f \in File, NEW status \in Status \ {"None"},
           table' = [table EXCEPT ![s][f] = status], NEW n \in Nat, Rows(s, n)
    PROVE  /\ HasRow(s, f) => Rows(s, n)'
           /\ ~HasRow(s, f) => Rows(s, n + 1)'
<1> DEFINE rows == {g \in File : HasRow(s, g)}
<1>1. /\ IsFiniteSet(rows) /\ Cardinality(rows) = n
      /\ \A m : Rows(s, m)' <=> IsFiniteSet(rows') /\ Cardinality(rows') = m
  BY DEF Rows
<1>2. rows' = rows \cup {f} BY DEF DbTypeOK, HasRow
<1>3. HasRow(s, f) => rows' = rows BY <1>2
<1>4. ~HasRow(s, f) => f \notin rows OBVIOUS
<1> HIDE DEF rows
<1>5. f \notin rows => IsFiniteSet(rows') /\ Cardinality(rows') = n + 1
  BY <1>1, <1>2, FS_AddElement
<1> QED BY <1>1, <1>3, <1>4, <1>5

\* Where the one turn of s is, nothing else is.
LEMMA TurnAlone ==
    ASSUME TypeInv, NEW s \in Source, NEW kind, NEW y,
           \A k, x : Turn(s, k, x) => k = kind /\ x = y
    PROVE  /\ kind # "sync" => ~Turn(s, "sync", 0)
           /\ kind # "announced" => ~(clustered < importFinished)
           /\ kind # "completion" => completions = 0
           /\ kind # "completed" => ~completed[s]
           /\ kind # "download" => \A f : ~Tells(downloads[s], f)
           /\ kind # "inbox" => \A f : ~Tells(inbox[s], f)
           /\ \A op \in Call : responses[s][op] > 0 => kind = op
           /\ \A w \in Worker : work[w] # Unused /\ work[w].src = s => kind = "work" /\ w = y
           /\ \A r \in requests : r.src = s => kind = "request" /\ r = y
           /\ \A h \in Handler :
                 /\ pc[h] \in Importing \ Waiting /\ job[h].src = s => kind = "handler" /\ h = y
                 /\ pc[h] = "publish" => kind = "publish"
<1>1. /\ responses \in [Source -> [Call -> Nat]]
      /\ clustered \in Nat /\ importFinished \in Nat /\ completions \in Nat
  BY DEF TypeInv, TypeOK, ImportTypeOK, FileSyncTypeOK
<1>2. clustered < importFinished => kind = "announced"
  <2>1. clustered < importFinished => Turn(s, "announced", importFinished)
    BY <1>1 DEF Turn
  <2> QED BY <2>1
<1>3. completions # 0 => kind = "completion"
  <2>1. completions # 0 => Turn(s, "completion", completions) BY <1>1 DEF Turn
  <2> QED BY <2>1
<1>4. completed[s] => kind = "completed"
  <2>1. completed[s] => Turn(s, "completed", 0) BY DEF Turn
  <2> QED BY <2>1
<1>5. \A f : Tells(downloads[s], f) => kind = "download"
  <2>1. \A n \in 1 .. Len(downloads[s]) : Turn(s, "download", n) BY DEF Turn
  <2> QED BY <2>1 DEF Tells
<1>6. \A f : Tells(inbox[s], f) => kind = "inbox"
  <2>1. \A n \in 1 .. Len(inbox[s]) : Turn(s, "inbox", n) BY DEF Turn
  <2> QED BY <2>1 DEF Tells
<1>7. ASSUME NEW op \in Call, responses[s][op] > 0 PROVE kind = op
  <2>1. 1 \in 1 .. responses[s][op] BY <1>1, <1>7
  <2>2. Turn(s, op, 1) BY <2>1 DEF Turn
  <2> QED BY <2>2
<1>8. ASSUME NEW w \in Worker, work[w] # Unused, work[w].src = s PROVE kind = "work" /\ w = y
  <2>1. Turn(s, "work", w) BY <1>8 DEF Turn
  <2> QED BY <2>1
<1>9. ASSUME NEW r \in requests, r.src = s PROVE kind = "request" /\ r = y
  <2>1. Turn(s, "request", r) BY <1>9 DEF Turn
  <2> QED BY <2>1
<1>10. ASSUME NEW h \in Handler, pc[h] \in Importing \ Waiting, job[h].src = s
       PROVE  kind = "handler" /\ h = y
  <2>1. Turn(s, "handler", h) BY <1>10 DEF Turn
  <2> QED BY <2>1
<1>11. ASSUME NEW h \in Handler, pc[h] = "publish" PROVE kind = "publish"
  <2>1. Turn(s, "publish", h) BY <1>11 DEF Turn
  <2> QED BY <2>1
<1>12. Turn(s, "sync", 0) => kind = "sync" OBVIOUS
<1> QED BY <1>2, <1>3, <1>4, <1>5, <1>6, <1>7, <1>8, <1>9, <1>10, <1>11, <1>12

-----------------------------------------------------------------------------
(* What rows tell, kept by FileSync, clustering and the parsers *)

LEMMA FileSyncTells ==
    ASSUME OneAtATime, BatchInv, WithSync(SyncNext(UnderWay)), NEW s \in Source
    PROVE  RowsTell(s)'
<1> HIDE DEF UnderWay
<1> USE DEF SyncAt, SyncGoto
<1>1. /\ TypeInv /\ RowsTell(s) /\ sync \in Sync /\ downloads \in [Source -> Seq(Download)]
      /\ completions \in Nat
  BY DEF BatchInv, MergeInv, TurnInv, TypeInv, TypeOK, FileSyncTypeOK, Sync
<1>2. UNCHANGED <<inbox, work, pc, job, requests, responses, completed, clustered,
                  importFinished>>
  BY DEF WithSync
<1>3. Completion \/ Process
  BY <1>1 DEF WithSync, SyncNext, OneAtATime, Timer, Restart, TypeInv, TypeOK, FileSyncTypeOK
<1>4. UNCHANGED table BY <1>3, ProcessTable DEF Completion
<1>5. /\ Over(s)' <=> Over(s)
      /\ \A f \in File : /\ Parsed(s, f)' <=> Parsed(s, f)
                         /\ Loaded(s, f)' <=> Loaded(s, f)
                         /\ Shown(s, f)' <=> Shown(s, f)
  BY <1>2 DEF Over, Parsed, Loaded, Shown, Staged, Tells
<1>6. ASSUME Free(s)' => Free(s), \A f \in File : Coming(s, f)' => Coming(s, f)
      PROVE  RowsTell(s)'
  <2>1. NoNewKind(s) BY <1>5, <1>6 DEF NoNewKind
  <2> QED BY <1>1, <1>2, <1>4, <2>1, TellAsBefore
<1>7. ASSUME UNCHANGED downloads, NEW f \in File PROVE Coming(s, f)' <=> Coming(s, f)
  BY <1>2, <1>7 DEF Coming, Tells
<1>8. CASE Completion
  <2>1. Free(s) /\ UNCHANGED downloads BY <1>8 DEF Completion, Free
  <2> QED BY <1>6, <1>7, <2>1
<1>9. CASE Process /\ ~PublishDelius /\ ~PublishOffloc
  <2>1. UNCHANGED <<downloads, completions>> BY <1>9, ProcessLeaves
  <2>2. Turn(s, "sync", 0)' => Turn(s, "sync", 0) BY <1>1, <1>9, ProcessTurn
  <2>3. Free(s)' => Free(s) BY <1>2, <1>7, <2>1, <2>2 DEF Free
  <2> QED BY <1>6, <1>7, <2>1, <2>3
<1>10. CASE PublishDelius \/ PublishOffloc
  <2>1. PICK t \in Source, m \in Download :
          /\ downloads' = [downloads EXCEPT ![t] = Append(@, m)]
          /\ m.file = sync.pick[t] /\ sync.pick[t] \in File /\ Turn(t, "sync", 0)
          /\ t # s => (Turn(s, "sync", 0)' => Turn(s, "sync", 0))
    <3>1. CASE PublishDelius
      <4>1. [file |-> sync.pick["delius"], archive |-> NoFile] \in Download
            /\ sync.pick["delius"] \in File
        BY <1>1, <3>1 DEF PublishDelius, TypeInv, Picked, Download, Source
      <4>2. Turn("delius", "sync", 0) /\ (Turn("offloc", "sync", 0)' => Turn("offloc", "sync", 0))
        BY <3>1 DEF PublishDelius, Turn, Call
      <4> QED BY <3>1, <4>1, <4>2 DEF PublishDelius, Source
    <3>2. CASE PublishOffloc
      <4>1. [file |-> sync.pick["offloc"], archive |-> sync.parent] \in Download
            /\ sync.pick["offloc"] \in File
        BY <1>1, <3>2 DEF PublishOffloc, TypeInv, Picked, Download, Source, Sync
      <4>2. Turn("offloc", "sync", 0) /\ ~Turn("delius", "sync", 0)'
        BY <3>2 DEF PublishOffloc, Turn, Call, Done, Start
      <4> QED BY <3>2, <4>1, <4>2 DEF PublishOffloc, Source
    <3> QED BY <1>10, <3>1, <3>2
  <2>2. CASE s = t
    <3>1. Free(s) /\ ~HasRow(s, sync.pick[s])
      BY <2>1, <2>2 DEF Free, BatchInv, PicksAreNew
    <3>2. ASSUME NEW f \in File, Coming(s, f)' PROVE ~HasRow(s, f)
      <4>1. Tells(downloads[s], f)' => Tells(downloads[s], f) \/ f = sync.pick[s]
        <5>1. Tells(downloads[s], f)' => Tells(Append(downloads[s], m), f)
          BY <1>1, <2>1, <2>2 DEF Tells
        <5> QED BY <1>1, <2>1, <2>2, <5>1, TellsAppend
      <4>2. Coming(s, f) \/ f = sync.pick[s] BY <1>2, <3>2, <4>1 DEF Coming
      <4> QED BY <1>1, <3>1, <4>2 DEF RowsTell
    <3> QED BY <1>1, <1>2, <1>4, <1>5, <3>1, <3>2, TellStill DEF RowsTell
  <2>3. CASE s # t
    <3>1. downloads'[s] = downloads[s] BY <1>1, <2>1, <2>3
    <3>2. \A f \in File : Coming(s, f)' <=> Coming(s, f) BY <1>2, <3>1 DEF Coming, Tells
    <3>3. UNCHANGED completions BY <1>10 DEF PublishDelius, PublishOffloc
    <3>4. Free(s)' => Free(s) BY <1>2, <2>1, <2>3, <3>2, <3>3 DEF Free
    <3> QED BY <1>6, <3>2, <3>4
  <2> QED BY <2>2, <2>3
<1> QED BY <1>3, <1>8, <1>9, <1>10

\* Steps that only concern the store, the input directories and clustering.
LEMMA OutsideTells ==
    ASSUME NEW s \in Source, RowsTell(s), completions \in Nat,
           WithSync(Tidy) \/ (\E t \in Source : WithSync(Arrive(t))) \/ Cluster \/ UNCHANGED vars
    PROVE  RowsTell(s)'
<1>1. UNCHANGED <<sync, downloads, inbox, work, pc, job, requests, responses, completed,
                  importFinished, table>>
  BY DEF WithSync, Tidy, Arrive, Cluster, vars
<1>2. /\ Over(s)' <=> Over(s)
      /\ \A f \in File : /\ Coming(s, f)' <=> Coming(s, f)
                         /\ Parsed(s, f)' <=> Parsed(s, f)
                         /\ Loaded(s, f)' <=> Loaded(s, f)
                         /\ Shown(s, f)' <=> Shown(s, f)
  BY <1>1 DEF Over, Coming, Parsed, Loaded, Shown, Staged, Tells
<1>3. Turn(s, "sync", 0)' <=> Turn(s, "sync", 0) BY <1>1 DEF Turn, Call
<1>4. Cluster \/ UNCHANGED <<clustered, completions>>
  BY DEF WithSync, Tidy, Arrive, vars
<1>5. Free(s)' => Free(s) BY <1>1, <1>2, <1>3, <1>4 DEF Free, Cluster
<1> QED BY <1>1, <1>2, <1>5, TellAsBefore DEF NoNewKind

\* A worker that stops, or goes on with a file whose row it has created.
LEMMA WorkTells ==
    ASSUME TypeInv, NEW s \in Source, RowsTell(s), NEW w \in Worker,
           NEW at \in WorkStep \ {"ask", "skip", "create"}, WorkAt(w, at),
           \/ CrashOf(w)
           \/ \E to \in {"swap", "cleaned", "parse", "finish"} : WorkGoto(w, to),
           UNCHANGED <<sync, downloads, inbox, pc, job, requests, responses, completed,
                       clustered, importFinished, completions, table>>
    PROVE  RowsTell(s)'
<1> USE DEF WorkStep
<1> DEFINE Early == {"ask", "create"}
           Late == {"clean", "swap", "cleaned", "parse", "finish"}
<1>1. \A v \in Worker : work'[v] # Unused =>
         /\ work[v] # Unused /\ work'[v].src = work[v].src /\ work'[v].file = work[v].file
         /\ work'[v].at \in Early => work[v].at \in Early
         /\ work'[v].at \in Late => work[v].at \in Late
  <2>1. work \in [Worker -> Work] BY DEF TypeInv, TypeOK
  <2>2. \A v \in Worker : work'[v] # Unused =>
         work[v] # Unused /\ work'[v].src = work[v].src /\ work'[v].file = work[v].file
    BY WorkGoesOn
  <2>3. CASE CrashOf(w) BY <2>1, <2>2, <2>3 DEF CrashOf
  <2>4. ASSUME NEW to \in {"swap", "cleaned", "parse", "finish"}, WorkGoto(w, to)
        PROVE  \A v \in Worker : work'[v] # Unused =>
                  /\ work'[v].at \in Early => work[v].at \in Early
                  /\ work'[v].at \in Late => work[v].at \in Late
    <3>1. work' = [work EXCEPT ![w] = [work[w] EXCEPT !.at = to]] BY <2>4 DEF WorkGoto
    <3>2. work[w] \in [at : WorkStep, src : Source, file : File, archive : Archive \cup {NoFile}]
      BY <2>1 DEF Work, WorkAt, Unused
    <3>3. work'[w].at = to /\ work[w].at \in Late BY <2>1, <3>1, <3>2 DEF WorkAt
    <3>4. \A v \in Worker \ {w} : work'[v] = work[v] BY <2>1, <3>1
    <3> QED BY <3>3, <3>4
  <2> QED BY <2>2, <2>3, <2>4
<1>2. \A v \in Worker : work'[v].at \in Early \cup Late => work'[v] # Unused BY DEF Unused
<1>3. /\ Over(s)' <=> Over(s)
      /\ \A f \in File : /\ Coming(s, f)' => Coming(s, f)
                         /\ Parsed(s, f)' => Parsed(s, f)
                         /\ Loaded(s, f)' <=> Loaded(s, f)
                         /\ Shown(s, f)' <=> Shown(s, f)
  BY <1>1, <1>2 DEF Over, Coming, Parsed, Loaded, Shown, Staged, Tells
<1>4. Turn(s, "sync", 0)' <=> Turn(s, "sync", 0) BY DEF Turn, Call
<1>5. Free(s)' => Free(s) BY <1>3, <1>4 DEF Free
<1> QED BY <1>3, <1>5, TellAsBefore DEF NoNewKind

LEMMA TakeUpTells ==
    ASSUME TypeInv, NEW s \in Source, RowsTell(s), NEW w \in Worker, NEW t \in Source, TakeUp(w, t)
    PROVE  RowsTell(s)'
<1>1. /\ work \in [Worker -> Work] /\ downloads \in [Source -> Seq(Download)]
      /\ downloads[t] # <<>> /\ downloads' = [downloads EXCEPT ![t] = Tail(@)]
      /\ \E a : work' = [work EXCEPT ![w] = [at |-> "ask", src |-> t,
                            file |-> Head(downloads[t]).file, archive |-> a]]
      /\ UNCHANGED <<sync, inbox, pc, job, requests, responses, completed, clustered,
                     importFinished, completions, table>>
  BY DEF TypeInv, TypeOK, FileSyncTypeOK, TakeUp
<1>2. /\ work'[w].src = t /\ work'[w].file = Head(downloads[t]).file /\ work'[w].at = "ask"
      /\ \A v \in Worker \ {w} : work'[v] = work[v]
  BY <1>1
<1>3. ASSUME NEW f \in File, Coming(s, f)' PROVE Coming(s, f)
  <2>1. /\ Tells(downloads[t], Head(downloads[t]).file)
        /\ Tells(Tail(downloads[t]), f) => Tells(downloads[t], f)
    BY <1>1, TellsTail
  <2>2. Tells(downloads[s], f)' => Tells(downloads[s], f)
    <3>1. downloads'[s] = IF s = t THEN Tail(downloads[s]) ELSE downloads[s] BY <1>1
    <3> QED BY <2>1, <3>1 DEF Tells
  <2> QED BY <1>2, <1>3, <2>1, <2>2 DEF Coming, Tells
<1>4. /\ Over(s)' <=> Over(s)
      /\ \A f \in File : /\ Parsed(s, f)' => Parsed(s, f)
                         /\ Loaded(s, f)' <=> Loaded(s, f)
                         /\ Shown(s, f)' <=> Shown(s, f)
  BY <1>1, <1>2 DEF Over, Parsed, Loaded, Shown, Staged, Tells
<1>5. Turn(s, "sync", 0)' <=> Turn(s, "sync", 0) BY <1>1 DEF Turn, Call
<1>6. Free(s)' => Free(s) BY <1>1, <1>3, <1>5 DEF Free
<1> QED BY <1>1, <1>3, <1>4, <1>6, TellAsBefore DEF NoNewKind

\* A file that comes has no row, so its parser creates one.
LEMMA AskTells ==
    ASSUME TypeInv, NEW s \in Source, \A t \in Source : RowsTell(t), NEW w \in Worker, Ask(w)
    PROVE  RowsTell(s)' /\ WorkGoto(w, "create")
<1>1. work \in [Worker -> Work] /\ work[w].src \in Source /\ work[w].file \in File
      /\ work[w].at = "ask"
  BY InHandIs DEF TypeInv, TypeOK, Ask, WorkAt, WorkStep
<1>2. Coming(work[w].src, work[w].file) BY <1>1 DEF Coming
<1>3. WorkGoto(w, "create") BY <1>1, <1>2 DEF Ask, RowsTell
<1>4. /\ work'[w].src = work[w].src /\ work'[w].file = work[w].file
      /\ work'[w].at = "create" /\ \A v \in Worker \ {w} : work'[v] = work[v]
  <2>1. work' = [work EXCEPT ![w] = [work[w] EXCEPT !.at = "create"]] BY <1>3 DEF WorkGoto
  <2>2. work[w] \in [at : WorkStep, src : Source, file : File, archive : Archive \cup {NoFile}]
    BY <1>1 DEF Work, Unused
  <2> QED BY <1>1, <2>1, <2>2
<1>5. UNCHANGED <<sync, downloads, inbox, pc, job, requests, responses, completed,
                  clustered, importFinished, completions, table>>
  BY DEF Ask
<1>6. /\ Over(s)' <=> Over(s)
      /\ \A f \in File : /\ Coming(s, f)' => Coming(s, f)
                         /\ Parsed(s, f)' => Parsed(s, f)
                         /\ Loaded(s, f)' <=> Loaded(s, f)
                         /\ Shown(s, f)' <=> Shown(s, f)
  BY <1>1, <1>4, <1>5 DEF Over, Coming, Parsed, Loaded, Shown, Staged, Tells
<1>7. Turn(s, "sync", 0)' <=> Turn(s, "sync", 0) BY <1>5 DEF Turn, Call
<1>8. Free(s)' => Free(s) BY <1>5, <1>6, <1>7 DEF Free
<1> QED BY <1>3, <1>5, <1>6, <1>8, TellAsBefore DEF NoNewKind

LEMMA FinishTells ==
    ASSUME TypeInv, NEW s \in Source, RowsTell(s), NEW w \in Worker, Finish(w)
    PROVE  RowsTell(s)'
<1>1. /\ work \in [Worker -> Work] /\ inbox \in [Source -> Seq(Message)]
      /\ work[w].src \in Source /\ work[w].file \in File /\ work[w].at = "finish"
  BY InHandIs DEF TypeInv, TypeOK, ImportTypeOK, Finish, WorkAt, WorkStep
<1>2. UNCHANGED <<sync, downloads, pc, job, requests, responses, completed,
                  clustered, importFinished, completions, table>>
  BY DEF Finish
<1>3. work'[w] = Unused /\ \A v \in Worker \ {w} : work'[v] = work[v] BY <1>1 DEF Finish
<1>4. ASSUME NEW f \in File, Tells(inbox[s], f)'
      PROVE  Tells(inbox[s], f) \/ (s = work[w].src /\ f = work[w].file)
  <2>1. PICK m \in Message : m.file = work[w].file /\ Toward(work[w].src, m)
    <3>1. [file |-> work[w].file, empty |-> FALSE] \in Message BY <1>1 DEF Message
    <3> QED BY <3>1 DEF Finish
  <2>2. inbox'[s] = IF s = work[w].src THEN Append(inbox[s], m) ELSE inbox[s]
    BY <1>1, <2>1 DEF Toward
  <2>3. Tells(Append(inbox[s], m), f) => Tells(inbox[s], f) \/ m.file = f
    BY <1>1, TellsAppend
  <2> QED BY <1>4, <2>1, <2>2, <2>3 DEF Tells
<1>5. /\ Over(s)' <=> Over(s)
      /\ \A f \in File : /\ Coming(s, f)' => Coming(s, f)
                         /\ Parsed(s, f)' => Parsed(s, f)
                         /\ Loaded(s, f)' <=> Loaded(s, f)
                         /\ Shown(s, f)' <=> Shown(s, f)
  <2>1. /\ Over(s)' <=> Over(s)
        /\ \A f \in File : Loaded(s, f)' <=> Loaded(s, f)
        /\ \A f \in File : Shown(s, f)' <=> Shown(s, f)
    BY <1>2 DEF Over, Loaded, Shown, Staged
  <2>2. work'[w].at \notin {"ask", "create", "clean", "swap", "cleaned", "parse", "finish"}
    BY <1>3 DEF Unused
  <2>3. \A f \in File : Coming(s, f)' => Coming(s, f)
    BY <1>2, <1>3, <2>2 DEF Coming, Tells
  <2>4. \A f \in File : Parsed(s, f)' => Parsed(s, f)
    BY <1>1, <1>2, <1>3, <1>4, <2>2 DEF Parsed
  <2> QED BY <2>1, <2>3, <2>4
<1>6. Turn(s, "sync", 0)' <=> Turn(s, "sync", 0) BY <1>2 DEF Turn, Call
<1>7. Free(s)' => Free(s) BY <1>2, <1>5, <1>6 DEF Free
<1> QED BY <1>2, <1>5, <1>7, TellAsBefore DEF NoNewKind

\* The one turn of s is known: every other way to have a row in hand is excluded.
LEMMA NothingElse ==
    ASSUME TurnInv, NEW s \in Source, NEW kind, NEW y, Turn(s, kind, y)
    PROVE  \A k, x : Turn(s, k, x) => k = kind /\ x = y
BY DEF TurnInv, OneTurn, OneTurnOf

LEMMA CreateBegins ==
    ASSUME BatchInv, Faults = {}, KeysDiffer, NEW w \in Worker, Create(w)
    PROVE  /\ work[w].src \in Source /\ work[w].file \in File
           /\ Between(work[w].src) /\ table[work[w].src][work[w].file] = "None"
           /\ table' = [table EXCEPT ![work[w].src][work[w].file] = "Processing"]
           /\ UNCHANGED <<picture, importFinished>>
<1>1. /\ work[w].src \in Source /\ work[w].file \in File /\ work[w].at = "create"
  BY InHandIs DEF BatchInv, MergeInv, TurnInv, TypeInv, Create, WorkAt, WorkStep
<1>2. Coming(work[w].src, work[w].file) BY <1>1 DEF Coming
<1>3. Between(work[w].src) /\ ~HasRow(work[w].src, work[w].file)
  BY <1>1, <1>2 DEF BatchInv, RowsTell, Free
<1>4. \A g \in File : HasRow(work[w].src, g) => FileId[g] # FileId[work[w].file]
  BY <1>1, <1>3 DEF KeysDiffer
<1> QED BY <1>1, <1>3, <1>4 DEF Create, CreateProcessedFileEntry, Swallowed, HasRow

LEMMA CreateTells ==
    ASSUME BatchInv, Faults = {}, KeysDiffer, NEW w \in Worker, Create(w), NEW s \in Source
    PROVE  RowsTell(s)'
<1>1. TypeInv /\ TurnInv /\ RowsTell(s) /\ DbTypeOK /\ work \in [Worker -> Work]
      /\ importFinished \in Nat
  BY DEF BatchInv, MergeInv, TurnInv, TypeInv, TypeOK, ImportTypeOK
<1>2. PICK t \in Source, f \in File : t = work[w].src /\ f = work[w].file
  BY CreateBegins
<1>3. /\ Between(t) /\ table[t][f] = "None"
      /\ table' = [table EXCEPT ![t][f] = "Processing"]
  BY <1>2, CreateBegins
<1>4. UNCHANGED <<sync, downloads, inbox, pc, job, requests, responses, completed,
                  clustered, importFinished, completions>>
  BY DEF Create
<1>5. /\ work[w] # Unused
      /\ work'[w].src = t /\ work'[w].file = f /\ work'[w].at \in {"clean", "parse"}
      /\ \A v \in Worker \ {w} : work'[v] = work[v]
  <2>1. PICK to \in {"clean", "parse"} : work' = [work EXCEPT ![w] = [work[w] EXCEPT !.at = to]]
    BY DEF Create, WorkGoto
  <2>2. work[w] # Unused BY DEF Create, WorkAt, Unused
  <2>3. work[w] \in [at : WorkStep, src : Source, file : File, archive : Archive \cup {NoFile}]
    BY <1>1, <2>2 DEF Work
  <2> QED BY <1>1, <1>2, <2>1, <2>2, <2>3
<1>6. CASE s = t
  <2>1. Turn(s, "work", w) BY <1>2, <1>5, <1>6 DEF Turn
  <2>2. /\ ~Turn(s, "sync", 0) /\ ~(clustered < importFinished) /\ completions = 0
        /\ ~completed[s]
        /\ \A g : ~Tells(downloads[s], g) /\ ~Tells(inbox[s], g)
        /\ \A op \in Call : ~(responses[s][op] > 0)
        /\ \A v \in Worker : work[v] # Unused /\ work[v].src = s => v = w
        /\ \A r \in requests : r.src # s
        /\ \A h \in Handler : /\ ~(pc[h] \in Importing \ Waiting /\ job[h].src = s)
                              /\ pc[h] # "publish"
    <3>1. \A k, x : Turn(s, k, x) => k = "work" /\ x = w BY <1>1, <2>1, NothingElse
    <3> QED BY <1>1, <3>1, TurnAlone DEF Call
  <2>3. \A v \in Worker : work'[v].at # "unused" /\ work'[v].src = s => v = w
    BY <1>5, <2>2 DEF Unused
  <2>4. \A g : ~Coming(s, g)'
    BY <1>4, <1>5, <2>2, <2>3 DEF Coming, Tells
  <2>5. ~Free(s)'
    <3>1. ~Turn(s, "sync", 0)' BY <1>4, <2>2 DEF Turn, Call
    <3> QED BY <1>4, <2>2, <2>4, <3>1 DEF Free
  <2>6. ~Over(s)' BY <1>4, <2>2 DEF Over
  <2>7. \A g : ~Loaded(s, g)' /\ ~Shown(s, g)'
    BY <1>4, <2>2 DEF Loaded, Shown, Staged, MergeReady, Call, Importing, Waiting
  <2>8. ASSUME NEW g \in File, Parsed(s, g)' PROVE g = f
    <3>1. ~Tells(inbox[s], g)' BY <1>4, <2>2 DEF Tells
    <3> QED BY <1>4, <1>5, <2>2, <2>3, <2>8, <3>1 DEF Parsed, Importing, Waiting
  <2>9. InBatch(s, f, "Processing")'
    <3>1. Rows(s, importFinished + 1)'
      <4>1. Rows(s, importFinished) /\ ~HasRow(s, f) BY <1>3, <1>6 DEF Between, HasRow
      <4>2. PICK n \in Nat : n = importFinished BY <1>1
      <4>3. Rows(s, n + 1)' BY <1>1, <1>3, <1>6, <4>1, <4>2, RowsCount DEF Status
      <4> QED BY <1>4, <4>2, <4>3 DEF Rows
    <3>2. table'[s][f] = "Processing" /\ \A g \in File \ {f} : table'[s][g] = table[s][g]
      BY <1>1, <1>3, <1>6 DEF DbTypeOK
    <3>3. \A g \in File \ {f} : table'[s][g] \in {"None", "Merged"}
      BY <1>3, <1>6, <3>2 DEF Between, Ready
    <3> QED BY <3>1, <3>2, <3>3 DEF InBatch
  <2> QED BY <2>4, <2>5, <2>6, <2>7, <2>8, <2>9 DEF RowsTell
<1>7. CASE s # t
  <2>1. table'[s] = table[s] BY <1>1, <1>3, <1>7 DEF DbTypeOK
  <2>2. /\ Over(s)' <=> Over(s)
        /\ \A g \in File : /\ Coming(s, g)' => Coming(s, g)
                           /\ Parsed(s, g)' => Parsed(s, g)
                           /\ Loaded(s, g)' <=> Loaded(s, g)
                           /\ Shown(s, g)' <=> Shown(s, g)
    BY <1>4, <1>5, <1>7 DEF Over, Coming, Parsed, Loaded, Shown, Staged, Tells
  <2>3. Turn(s, "sync", 0)' <=> Turn(s, "sync", 0) BY <1>4 DEF Turn, Call
  <2>4. Free(s)' => Free(s) BY <1>4, <2>2, <2>3 DEF Free
  <2> QED BY <1>1, <1>4, <2>1, <2>2, <2>4, TellAsBefore DEF NoNewKind
<1> QED BY <1>6, <1>7

LEMMA ParsersTell ==
    ASSUME BatchInv, Faults = {}, KeysDiffer, ParseStep, NEW s \in Source
    PROVE  RowsTell(s)'
<1> USE DEF WorkStep
<1>1. TypeInv /\ RowsTell(s) /\ \A t \in Source : RowsTell(t)
  BY DEF BatchInv, MergeInv, TurnInv
<1>2. ASSUME NEW w \in Worker, NEW t \in Source, TakeUp(w, t) PROVE RowsTell(s)'
  BY <1>1, <1>2, TakeUpTells
<1>3. ASSUME NEW w \in Worker, WorkOn(w) PROVE RowsTell(s)'
  <2>1. CASE Ask(w) BY <1>1, <2>1, AskTells
  <2>2. CASE Create(w) BY <2>2, CreateTells
  <2>3. CASE Skip(w) BY <2>3 DEF Skip, WorkAt, BatchInv, NoneSkipped
  <2>4. CASE Finish(w) BY <1>1, <2>4, FinishTells
  <2>5. CASE Clean(w) BY <1>1, <2>5, WorkTells DEF Clean
  <2>6. CASE CleanNothing(w) BY <1>1, <2>6, WorkTells DEF CleanNothing
  <2>7. CASE Replace(w) BY <1>1, <2>7, WorkTells DEF Replace
  <2>8. CASE ReplaceNothing(w) BY <1>1, <2>8, WorkTells DEF ReplaceNothing
  <2>9. CASE StartParse(w) BY <1>1, <2>9, WorkTells DEF StartParse
  <2>10. CASE Parse(w) BY <1>1, <2>10, WorkTells DEF Parse
  <2>11. CASE ParseNothing(w) BY <1>1, <2>11, WorkTells DEF ParseNothing
  <2> QED
    BY <1>3, <2>1, <2>2, <2>3, <2>4, <2>5, <2>6, <2>7, <2>8, <2>9, <2>10, <2>11 DEF WorkOn
<1> QED BY <1>2, <1>3 DEF ParseStep

-----------------------------------------------------------------------------
(* ... by Import ... *)

\* What the rows of s tell is kept if the turns that Import has a part in are.
LEMMA ImportTellsAsBefore ==
    ASSUME NEW s \in Source, RowsTell(s), ElsewhereAlone, table' = table,
           importFinished' = importFinished, Over(s)' => Ended(s),
           \A f \in File : /\ Parsed(s, f)' => Parsed(s, f)
                           /\ Loaded(s, f)' => Loaded(s, f)
                           /\ Shown(s, f)' => Shown(s, f)
    PROVE  RowsTell(s)'
<1> USE DEF ElsewhereAlone
<1>1. \A f \in File : Coming(s, f)' <=> Coming(s, f) BY DEF Coming, Tells
<1>2. Turn(s, "sync", 0)' <=> Turn(s, "sync", 0) BY DEF Turn, Call
<1>3. Free(s)' => Free(s) BY <1>1, <1>2 DEF Free
<1> QED BY <1>1, <1>3, TellStill DEF RowsTell

LEMMA ReceiveTells ==
    ASSUME HandlersInv, NEW s \in Source, RowsTell(s), ElsewhereAlone,
           NEW h \in Handler, NEW t \in Source, Receive(h, t)
    PROVE  RowsTell(s)'
<1>1. /\ pc'[h] = "acquire" /\ job'[h].src = t /\ job'[h].file = Head(inbox[t]).file
      /\ inbox[t] # <<>> /\ inbox' = [inbox EXCEPT ![t] = Tail(@)]
      /\ \A g \in Handler \ {h} : pc'[g] = pc[g] /\ job'[g] = job[g]
      /\ UNCHANGED <<requests, responses, completed, importFinished, table>>
      /\ inbox \in [Source -> Seq(Message)]
  BY DEF HandlersInv, ImportTypeOK, Receive
<1>2. \A f : /\ Tells(inbox[t], Head(inbox[t]).file)
             /\ Tells(Tail(inbox[t]), f) => Tells(inbox[t], f)
  BY <1>1, TellsTail
<1>3. \A f : Tells(inbox[s], f)' => Tells(inbox[s], f)
  <2>1. inbox'[s] = IF s = t THEN Tail(inbox[s]) ELSE inbox[s] BY <1>1
  <2> QED BY <1>2, <2>1 DEF Tells
<1>4. Over(s)' => Over(s) BY <1>1 DEF Over
<1>5. UNCHANGED work BY DEF ElsewhereAlone
<1>6. \A f \in File : Parsed(s, f)' => Parsed(s, f) BY <1>1, <1>2, <1>3, <1>5 DEF Parsed
<1>7. \A f \in File : Loaded(s, f)' => Loaded(s, f) BY <1>1 DEF Loaded, Staged
<1>8. \A f \in File : Shown(s, f)' => Shown(s, f) BY <1>1 DEF Shown
<1> QED BY <1>1, <1>4, <1>6, <1>7, <1>8, ImportTellsAsBefore DEF RowsTell

LEMMA SendTells ==
    ASSUME HandlersInv, NEW s \in Source, RowsTell(s), ElsewhereAlone,
           NEW h \in Handler, NEW op \in Call, Send(h, op, WaitingFor(op))
    PROVE  RowsTell(s)'
<1> USE DEF At, Goto
<1>1. PICK r : r = [op |-> op, src |-> job[h].src, file |-> job[h].file, at |-> "run"]
  OBVIOUS
<1>2. /\ requests' = requests \cup {r} /\ pc[h] = op /\ pc'[h] = WaitingFor(op)
      /\ r.op = op /\ r.src = job[h].src /\ r.file = job[h].file /\ r.at = "run"
      /\ \A g \in Handler \ {h} : pc'[g] = pc[g]
      /\ UNCHANGED <<inbox, job, responses, completed, importFinished, table>>
      /\ responses \in [Source -> [Call -> Nat]]
  BY <1>1 DEF HandlersInv, ImportTypeOK, Send
<1>3. job[h].src = s => \A o \in Call : responses[s][o] = 0
  BY <1>2, NoAnswerYet DEF HandlersInv, Importing, Waiting, Call
<1>4. UNCHANGED work BY DEF ElsewhereAlone
<1>5. Over(s)' => Over(s) BY <1>2 DEF Over, WaitingFor
<1>6. \A f \in File : Parsed(s, f)' => Parsed(s, f)
  BY <1>2, <1>4 DEF Parsed, Tells, WaitingFor, Call
<1>7. \A f \in File : Loaded(s, f)' => Loaded(s, f)
  BY <1>2, <1>3 DEF Loaded, Staged, MergeReady, WaitingFor, Call
<1>8. \A f \in File : Shown(s, f)' => Shown(s, f)
  BY <1>2, <1>3 DEF Shown, WaitingFor, Call
<1> QED BY <1>2, <1>5, <1>6, <1>7, <1>8, ImportTellsAsBefore DEF RowsTell

LEMMA AnsweredTells ==
    ASSUME HandlersInv, NEW s \in Source, RowsTell(s), ElsewhereAlone,
           NEW h \in Handler, StageAnswered(h) \/ MergeAnswered(h)
    PROVE  RowsTell(s)'
<1> USE DEF At, Goto
<1>1. PICK op \in Call :
        /\ responses[job[h].src][op] > 0 /\ job[h].src \in Source
        /\ \E left \in 0 .. responses[job[h].src][op] - 1 :
              responses' = [responses EXCEPT ![job[h].src][op] = left]
        /\ IF op = "stage" THEN pc[h] = "staging" /\ pc'[h] = "merge"
                           ELSE pc[h] = "merging" /\ pc'[h] = "release"
        /\ \A g \in Handler \ {h} : pc'[g] = pc[g]
        /\ UNCHANGED <<inbox, job, requests, completed, importFinished, table>>
        /\ responses \in [Source -> [Call -> Nat]]
  <2>1. CASE StageAnswered(h)
    BY <2>1 DEF HandlersInv, ImportTypeOK, StageAnswered, Answered, Call, Job
  <2>2. CASE MergeAnswered(h)
    BY <2>2 DEF HandlersInv, ImportTypeOK, MergeAnswered, Answered, Call, Job
  <2> QED BY <2>1, <2>2
<1>2. \A o \in Call : responses'[s][o] > 0 => responses[s][o] > 0
  <2>1. PICK left \in 0 .. responses[job[h].src][op] - 1 :
          responses' = [responses EXCEPT ![job[h].src][op] = left]
    BY <1>1
  <2> QED BY <1>1, <2>1
<1>3. UNCHANGED work BY DEF ElsewhereAlone
<1>4. Over(s)' => Over(s) BY <1>1 DEF Over
<1>5. \A f \in File : Parsed(s, f)' => Parsed(s, f)
  BY <1>1, <1>3 DEF Parsed, Tells
<1>6. \A f \in File : Loaded(s, f)' => Loaded(s, f)
  BY <1>1, <1>2 DEF Loaded, Staged, Call
<1>7. \A f \in File : Shown(s, f)' => Shown(s, f)
  BY <1>1, <1>2 DEF Shown, Call
<1> QED BY <1>1, <1>4, <1>5, <1>6, <1>7, ImportTellsAsBefore DEF RowsTell

\* The last handler of a batch announces it, for both sources.
LEMMA PublishAnnounces ==
    ASSUME BatchInv, NEW h \in Handler, PublishImportFinished(h)
    PROVE  importFinished' = importFinished + 1 /\ \A s \in Source : Ended(s)
<1>1. \A s \in Source : ~fileEmpty[s] BY DEF BatchInv, NoneSkipped
<1>2. importFinished' = importFinished + 1 BY <1>1 DEF PublishImportFinished, Source
<1>3. \A s \in Source : Over(s) BY DEF PublishImportFinished, At, Over
<1> QED BY <1>2, <1>3 DEF BatchInv, RowsTell

LEMMA PublishTells ==
    ASSUME BatchInv, ElsewhereAlone, NEW h \in Handler, PublishImportFinished(h),
           NEW s \in Source
    PROVE  RowsTell(s)'
<1> USE DEF At, Return
<1>1. TypeInv /\ TurnInv /\ ImportTypeOK
  BY DEF BatchInv, MergeInv, TurnInv, TypeInv, TypeOK
<1>2. /\ pc[h] = "publish" /\ pc'[h] = "idle"
      /\ \A g \in Handler \ {h} : pc'[g] = pc[g] /\ job'[g] = job[g]
      /\ UNCHANGED <<inbox, requests, responses, completed, table>>
  BY <1>1 DEF ImportTypeOK, PublishImportFinished
<1>3. /\ ~Turn(s, "sync", 0) /\ completions = 0 /\ ~completed[s]
      /\ \A g : ~Tells(downloads[s], g) /\ ~Tells(inbox[s], g)
      /\ \A op \in Call : ~(responses[s][op] > 0)
      /\ \A v \in Worker : ~(work[v] # Unused /\ work[v].src = s)
      /\ \A r \in requests : r.src # s
      /\ \A g \in Handler : /\ ~(pc[g] \in Importing \ Waiting /\ job[g].src = s)
                            /\ pc[g] = "publish" => g = h
  <2>1. \A g \in Handler : pc[g] = "publish" => Turn(s, "publish", g) BY DEF Turn
  <2>2. \A k, x : Turn(s, k, x) => k = "publish" /\ x = h
    BY <1>1, <1>2, <2>1, NothingElse
  <2>3. \A g \in Handler : pc[g] = "publish" => g = h BY <2>1, <2>2
  <2> HIDE DEF Return, At
  <2> QED BY <1>1, <2>2, <2>3, TurnAlone DEF Call
<1>4. \A g : ~Coming(s, g)'
  BY <1>3 DEF ElsewhereAlone, Coming, Tells, Unused
<1>5. ~Over(s)' BY <1>2, <1>3 DEF Over
<1>6. ASSUME NEW g, Parsed(s, g)' PROVE FALSE
  <2>1. ~Tells(inbox[s], g)' BY <1>2, <1>3 DEF Tells
  <2>2. UNCHANGED work /\ \A v \in Worker : work[v].at # "unused" => work[v] # Unused
    BY DEF ElsewhereAlone, Unused
  <2>3. \A k \in Handler : ~(pc'[k] \in {"acquire", "stage"} /\ job'[k].src = s)
    BY <1>2, <1>3 DEF Importing, Waiting
  <2> QED BY <1>2, <1>3, <1>6, <2>1, <2>2, <2>3 DEF Parsed
<1>7. \A g : ~Loaded(s, g)' /\ ~Shown(s, g)'
  BY <1>2, <1>3 DEF Loaded, Shown, Staged, MergeReady, Call, Importing, Waiting
<1>8. Between(s)'
  <2>1. importFinished' = importFinished + 1 /\ Ended(s) BY PublishAnnounces
  <2> QED BY <1>2, <2>1 DEF Between, Ended, Rows, Ready, HasRow
<1> QED BY <1>4, <1>5, <1>6, <1>7, <1>8 DEF RowsTell

LEMMA ImportTells ==
    ASSUME BatchInv, WithImport(ImportStep), NEW s \in Source
    PROVE  RowsTell(s)'
<1> USE DEF At, Goto, Return
<1>1. /\ HandlersInv /\ RowsTell(s) /\ ElsewhereAlone /\ ResetSeesBoth
      /\ pc \in [Handler -> Step] /\ job \in [Handler -> Job \cup {NoJob}]
      /\ completed \in [Source -> BOOLEAN]
  BY DEF BatchInv, MergeInv, TurnInv, TypeInv, TypeOK, HandlersInv, ImportTypeOK, WithImport,
         ElsewhereAlone
<1>2. PICK h \in Handler :
        \/ \E t \in Source : Receive(h, t)
        \/ Acquire(h) \/ SendStage(h) \/ StageAnswered(h) \/ SendMerge(h)
        \/ MergeAnswered(h) \/ Release(h) \/ Complete(h) \/ Check(h) \/ Reset(h)
        \/ PublishImportFinished(h)
  BY DEF WithImport, ImportStep
<1>3. CASE \E t \in Source : Receive(h, t) BY <1>1, <1>3, ReceiveTells
<1>4. CASE SendStage(h) \/ SendMerge(h)
  BY <1>1, <1>4, SendTells DEF SendStage, SendMerge, WaitingFor, Call
<1>5. CASE StageAnswered(h) \/ MergeAnswered(h) BY <1>1, <1>5, AnsweredTells
<1>6. CASE PublishImportFinished(h) BY <1>1, <1>6, PublishTells
<1>7. CASE Complete(h)
  <2>1. /\ pc[h] = "complete" /\ pc'[h] = "check"
        /\ \A g \in Handler \ {h} : pc'[g] = pc[g]
        /\ completed' = [completed EXCEPT ![job[h].src] = TRUE]
        /\ UNCHANGED <<inbox, job, requests, responses, importFinished, table>>
        /\ job[h].file \in File
    BY <1>1, <1>7 DEF Complete, HandlersInv, ImportTypeOK, Job
  <2>2. Over(s)' => Ended(s)
    <3>1. CASE job[h].src = s
      <4>1. Shown(s, job[h].file) BY <2>1, <3>1 DEF Shown
      <4> QED BY <1>1, <2>1, <4>1 DEF RowsTell, InBatch, Ended, Ready
    <3>2. CASE job[h].src # s
      <4>1. Over(s)' => Over(s) BY <1>1, <2>1, <3>2 DEF Over
      <4> QED BY <1>1, <4>1 DEF RowsTell
    <3> QED BY <3>1, <3>2
  <2>3. UNCHANGED work BY <1>1 DEF ElsewhereAlone
  <2>4. \A f \in File : Parsed(s, f)' => Parsed(s, f) BY <2>1, <2>3 DEF Parsed, Tells
  <2>5. \A f \in File : Loaded(s, f)' => Loaded(s, f) BY <2>1 DEF Loaded, Staged
  <2>6. \A f \in File : Shown(s, f)' => Shown(s, f) BY <2>1 DEF Shown
  <2> QED BY <1>1, <2>1, <2>2, <2>4, <2>5, <2>6, ImportTellsAsBefore
<1>8. CASE Acquire(h) \/ Release(h) \/ Check(h) \/ Reset(h)
  <2>1. /\ \A g \in Handler \ {h} : pc'[g] = pc[g] /\ job'[g] = job[g]
        /\ UNCHANGED <<inbox, requests, responses, importFinished, table>>
        /\ Over(s)' => Over(s)
        /\ \/ pc[h] = "acquire" /\ pc'[h] = "stage" /\ job'[h] = job[h]
           \/ pc[h] = "release" /\ pc'[h] = "complete" /\ job'[h] = job[h]
           \/ pc'[h] \in {"idle", "reset", "publish"}
    <3>1. CASE Acquire(h)
      <4>1. ~job[h].empty BY <3>1 DEF Acquire, BatchInv, NoneSkipped
      <4> QED BY <1>1, <3>1, <4>1 DEF Acquire, Over
    <3>2. CASE Release(h) BY <1>1, <3>2 DEF Release, Over
    <3>3. CASE Check(h) BY <1>1, <3>3 DEF Check, Over
    <3>4. CASE Reset(h) BY <1>1, <3>4 DEF Reset, Over, ResetSeesBoth
    <3> QED BY <1>8, <3>1, <3>2, <3>3, <3>4
  <2>2. UNCHANGED work BY <1>1 DEF ElsewhereAlone
  <2>3. \A f \in File : Parsed(s, f)' => Parsed(s, f) BY <2>1, <2>2 DEF Parsed, Tells
  <2>4. \A f \in File : Loaded(s, f)' => Loaded(s, f) BY <2>1 DEF Loaded, Staged
  <2>5. \A f \in File : Shown(s, f)' => Shown(s, f) BY <2>1 DEF Shown
  <2> QED BY <1>1, <2>1, <2>3, <2>4, <2>5, ImportTellsAsBefore DEF RowsTell
<1> QED BY <1>2, <1>3, <1>4, <1>5, <1>6, <1>7, <1>8

-----------------------------------------------------------------------------
(* ... by DbInteractions, and across crashes *)

\* Without faults a request does what it says, for a row that is there.
LEMMA RequestWrites ==
    ASSUME BatchInv, Faults = {}, NEW r \in requests
    PROVE  /\ r.src \in Source /\ r.file \in File
           /\ RunStage(r) =>
                 /\ InBatch(r.src, r.file, "Processing")
                 /\ table' = [table EXCEPT ![r.src][r.file] = "Imported"]
                 /\ UNCHANGED <<picture, importFinished>>
           /\ RunMerge(r) =>
                 /\ InBatch(r.src, r.file, "Imported") /\ staging[r.src] = {r.file}
                 /\ table' = [table EXCEPT ![r.src][r.file] = "Merged"]
                 /\ picture' = [picture EXCEPT ![r.src] = {r.file}]
                 /\ UNCHANGED importFinished
<1>1. r.src \in Source /\ r.file \in File
  BY DEF BatchInv, MergeInv, TurnInv, TypeInv, TypeOK, ImportTypeOK, Request
<1>2. CASE RunStage(r)
  <2>1. Parsed(r.src, r.file) BY <1>2 DEF RunStage, Parsed
  <2>2. InBatch(r.src, r.file, "Processing") BY <1>1, <2>1 DEF BatchInv, RowsTell
  <2>3. HasRow(r.src, r.file) BY <2>2 DEF InBatch, HasRow
  <2> QED BY <1>1, <1>2, <2>2, <2>3 DEF RunStage, RunMerge, Stage, SetStatus, Swallowed
<1>3. CASE RunMerge(r)
  <2>1. MergeReady(r.src, r) BY <1>3 DEF RunMerge, MergeReady
  <2>2. Loaded(r.src, r.file) BY <2>1 DEF Loaded
  <2>3. InBatch(r.src, r.file, "Imported") BY <1>1, <2>2 DEF BatchInv, RowsTell
  <2>4. HasRow(r.src, r.file) BY <2>3 DEF InBatch, HasRow
  <2>5. staging[r.src] = {r.file}
    BY <1>1, <2>1 DEF BatchInv, MergeInv, OneFileStaged, StagedOf
  <2> QED BY <1>1, <1>3, <2>3, <2>4, <2>5 DEF RunMerge, RunStage, Merge, SetStatus, Swallowed
<1> QED BY <1>1, <1>2, <1>3

\* A row of the batch takes its next status.
LEMMA InBatchGoesOn ==
    ASSUME DbTypeOK, NEW s \in Source, NEW f \in File, NEW status, NEW next \in Status \ {"None"},
           InBatch(s, f, status), status # "None", importFinished \in Nat,
           table' = [table EXCEPT ![s][f] = next], importFinished' = importFinished
    PROVE  InBatch(s, f, next)'
<1>1. table'[s][f] = next /\ \A g \in File \ {f} : table'[s][g] = table[s][g]
  BY DEF DbTypeOK
<1>2. PICK n \in Nat : n = importFinished + 1 OBVIOUS
<1>3. Rows(s, n)' BY <1>2, RowsCount DEF InBatch, HasRow
<1> QED BY <1>1, <1>2, <1>3 DEF InBatch, Rows

LEMMA RunTells ==
    ASSUME BatchInv, ElsewhereAlone, Faults = {}, NEW r \in requests, RunStage(r) \/ RunMerge(r),
           NEW s \in Source
    PROVE  RowsTell(s)'
<1>1. /\ TypeInv /\ TurnInv /\ RowsTell(s) /\ DbTypeOK /\ importFinished \in Nat
      /\ requests \subseteq Request
  BY DEF BatchInv, MergeInv, TurnInv, TypeInv, TypeOK, ImportTypeOK
<1>2. PICK t \in Source, f \in File : t = r.src /\ f = r.file BY RequestWrites
<1>3. PICK status \in {"Imported", "Merged"}, before \in {"Processing", "Imported"} :
        /\ status = IF r.op = "stage" THEN "Imported" ELSE "Merged"
        /\ InBatch(t, f, before)
        /\ table' = [table EXCEPT ![t][f] = status]
  <2>1. CASE RunStage(r) BY <1>2, <2>1, RequestWrites DEF RunStage
  <2>2. CASE RunMerge(r) BY <1>2, <2>2, RequestWrites DEF RunMerge
  <2> QED BY <2>1, <2>2
<1>4. PICK q : /\ q.src = t /\ q.file = f /\ q.op = r.op
               /\ q.at = IF r.op = "stage" THEN "reply" ELSE "clear"
               /\ requests' = (requests \ {r}) \cup {q}
  <2>1. ASSUME NEW at, Advance(r, at)
        PROVE  \E p : /\ p.src = t /\ p.file = f /\ p.op = r.op /\ p.at = at
                      /\ requests' = (requests \ {r}) \cup {p}
    <3>1. PICK p : p = [r EXCEPT !.at = at] OBVIOUS
    <3>2. p.src = t /\ p.file = f /\ p.op = r.op /\ p.at = at
      BY <1>1, <1>2, <3>1 DEF Request
    <3> QED BY <2>1, <3>1, <3>2 DEF Advance
  <2> QED BY <2>1 DEF RunStage, RunMerge
<1>5. UNCHANGED <<sync, downloads, work, clustered, completions, inbox, pc, job, completed,
                  importFinished, responses>>
  BY DEF ElsewhereAlone, RunStage, RunMerge
<1>6. r.op \in Call BY <1>1 DEF Request
<1>7. CASE s = t
  <2>1. Turn(s, "request", r) BY <1>2, <1>7 DEF Turn
  <2>2. /\ ~Turn(s, "sync", 0) /\ ~(clustered < importFinished) /\ completions = 0
        /\ ~completed[s]
        /\ \A g : ~Tells(downloads[s], g) /\ ~Tells(inbox[s], g)
        /\ \A op \in Call : ~(responses[s][op] > 0)
        /\ \A v \in Worker : ~(work[v] # Unused /\ work[v].src = s)
        /\ \A p \in requests : p.src = s => p = r
        /\ \A h \in Handler : /\ ~(pc[h] \in Importing \ Waiting /\ job[h].src = s)
                              /\ pc[h] # "publish"
    <3>1. \A k, x : Turn(s, k, x) => k = "request" /\ x = r BY <1>1, <2>1, NothingElse
    <3> QED BY <1>1, <3>1, TurnAlone DEF Call
  <2>3. \A p \in requests' : p.src = s => p = q BY <1>4, <2>2
  <2>4. \A v \in Worker : work[v].at # "unused" => ~(work[v].src = s) BY <2>2 DEF Unused
  <2>5. \A g : ~Coming(s, g)' BY <1>5, <2>2, <2>4 DEF Coming, Tells
  <2>6. ~Free(s)'
    <3>1. ~Turn(s, "sync", 0)' BY <1>5, <2>2 DEF Turn, Call
    <3> QED BY <1>5, <2>2, <2>5, <3>1 DEF Free
  <2>7. ~Over(s)' BY <1>5, <2>2 DEF Over
  <2>8. \A h \in Handler : ~Staged(s, h)' BY <1>5, <2>2 DEF Staged, Call, Importing, Waiting
  <2>9. ASSUME NEW g, Parsed(s, g)' PROVE FALSE
    <3>1. ~Tells(inbox[s], g)' BY <1>5, <2>2 DEF Tells
    <3>2. \A h \in Handler : ~(pc'[h] \in {"acquire", "stage"} /\ job'[h].src = s)
      BY <1>5, <2>2 DEF Importing, Waiting
    <3>3. \A p \in requests' : ~(p.op = "stage" /\ p.at = "run" /\ p.src = s)
      BY <1>4, <2>3
    <3> QED BY <1>5, <2>4, <2>9, <3>1, <3>2, <3>3 DEF Parsed
  <2>10. ASSUME NEW g, Loaded(s, g)' PROVE g = f /\ status = "Imported"
    BY <1>3, <1>4, <2>3, <2>8, <2>10 DEF Loaded, MergeReady
  <2>11. ASSUME NEW g, Shown(s, g)' PROVE g = f /\ status = "Merged"
    <3>1. \A h \in Handler : /\ ~(pc'[h] \in {"release", "complete"} /\ job'[h].src = s)
                             /\ ~(responses'[s]["merge"] > 0)
      BY <1>5, <2>2 DEF Importing, Waiting, Call
    <3>2. PICK p \in requests' : p.op = "merge" /\ p.src = s /\ p.file = g
      BY <2>11, <3>1 DEF Shown
    <3> QED BY <1>3, <1>4, <2>3, <3>2
  <2>12. InBatch(s, f, status)'
    BY <1>1, <1>3, <1>5, <1>7, InBatchGoesOn DEF Status
  <2> QED BY <2>5, <2>6, <2>7, <2>9, <2>10, <2>11, <2>12 DEF RowsTell
<1>8. CASE s # t
  <2>1. table'[s] = table[s] BY <1>1, <1>3, <1>8 DEF DbTypeOK
  <2>2. \A p \in requests' : p.src = s => p \in requests BY <1>4, <1>8
  <2>3. /\ Over(s)' <=> Over(s)
        /\ \A g \in File : /\ Coming(s, g)' => Coming(s, g)
                           /\ Parsed(s, g)' => Parsed(s, g)
                           /\ Loaded(s, g)' => Loaded(s, g)
                           /\ Shown(s, g)' => Shown(s, g)
    BY <1>5, <2>2 DEF Over, Coming, Parsed, Loaded, Shown, Staged, MergeReady, Tells
  <2>4. Turn(s, "sync", 0)' <=> Turn(s, "sync", 0) BY <1>5 DEF Turn, Call
  <2>5. Free(s)' => Free(s) BY <1>5, <2>3, <2>4 DEF Free
  <2> QED BY <1>1, <1>5, <2>1, <2>3, <2>5, TellAsBefore DEF NoNewKind
<1> QED BY <1>7, <1>8

LEMMA DbTells ==
    ASSUME BatchInv, Faults = {}, WithImport(DbStep), NEW s \in Source
    PROVE  RowsTell(s)'
<1>1. /\ RowsTell(s) /\ AnswersFit /\ ElsewhereAlone /\ requests \subseteq Request
      /\ responses \in [Source -> [Call -> Nat]]
  BY DEF BatchInv, MergeInv, TurnInv, TypeInv, TypeOK, ImportTypeOK, WithImport,
         ElsewhereAlone
<1>2. PICK r \in requests : RunStage(r) \/ RunMerge(r) \/ ClearAfterMerge(r) \/ Reply(r)
  BY DEF WithImport, DbStep
<1>3. CASE RunStage(r) \/ RunMerge(r) BY <1>1, <1>3, RunTells
<1>4. CASE ClearAfterMerge(r)
  <2>1. PICK q : q = [r EXCEPT !.at = "reply"] OBVIOUS
  <2>2. /\ requests' = (requests \ {r}) \cup {q} /\ UNCHANGED <<importVars, responses, table>>
        /\ q.src = r.src /\ q.file = r.file /\ q.op = "merge" /\ q.at = "reply"
        /\ r.op = "merge" /\ r.at = "clear"
    BY <1>1, <1>4, <2>1
       DEF ClearAfterMerge, ClearStaging, Swallowed, Advance, AnswersFit, Request
  <2>3. UNCHANGED work BY <1>1 DEF ElsewhereAlone
  <2>4. Over(s)' => Over(s) BY <2>2 DEF Over
  <2>5. \A f \in File : Parsed(s, f)' => Parsed(s, f) BY <2>2, <2>3 DEF Parsed, Tells
  <2>6. \A f \in File : Loaded(s, f)' => Loaded(s, f) BY <2>2 DEF Loaded, Staged, MergeReady
  <2>7. \A f \in File : Shown(s, f)' => Shown(s, f) BY <2>2 DEF Shown
  <2> QED BY <1>1, <2>2, <2>4, <2>5, <2>6, <2>7, ImportTellsAsBefore DEF RowsTell
<1>5. CASE Reply(r)
  <2>1. /\ requests' = requests \ {r} /\ UNCHANGED importVars /\ UNCHANGED table
        /\ r.at = "reply" /\ r.src \in Source /\ r.op \in Call
        /\ \A op \in Call : responses'[s][op] > 0 =>
              responses[s][op] > 0 \/ (s = r.src /\ op = r.op)
    BY <1>1, <1>5 DEF Reply, Request
  <2>2. UNCHANGED work BY <1>1 DEF ElsewhereAlone
  <2>3. Over(s)' => Over(s) BY <2>1 DEF Over
  <2>4. \A f \in File : Parsed(s, f)' => Parsed(s, f) BY <2>1, <2>2 DEF Parsed, Tells
  <2>5. ASSUME NEW f \in File, Loaded(s, f)' PROVE Loaded(s, f)
    <3>1. ASSUME NEW h \in Handler, Staged(s, h)', job'[h].file = f, ~Staged(s, h)
          PROVE  MergeReady(s, r) /\ r.file = f
      <4>1. pc[h] = "staging" /\ job[h].src = s /\ s = r.src /\ r.op = "stage"
        BY <2>1, <3>1 DEF Staged, Call
      <4>2. Asks(h, r) BY <1>1, <4>1 DEF AnswersFit, Waiting
      <4> QED BY <2>1, <3>1, <4>1, <4>2 DEF MergeReady, Asks
    <3> QED BY <2>1, <2>5, <3>1 DEF Loaded, MergeReady
  <2>6. ASSUME NEW f \in File, Shown(s, f)' PROVE Shown(s, f)
    <3>1. ASSUME NEW h \in Handler, job[h].src = s, job[h].file = f, pc[h] = "merging",
                 responses'[s]["merge"] > 0, ~(responses[s]["merge"] > 0)
          PROVE  r.op = "merge" /\ r.at # "run" /\ r.src = s /\ r.file = f
      <4>1. s = r.src /\ r.op = "merge" BY <2>1, <3>1 DEF Call
      <4>2. Asks(h, r) BY <1>1, <3>1, <4>1 DEF AnswersFit, Waiting
      <4> QED BY <2>1, <3>1, <4>1, <4>2 DEF Asks
    <3> QED BY <2>1, <2>6, <3>1 DEF Shown
  <2> QED BY <1>1, <2>1, <2>3, <2>4, <2>5, <2>6, ImportTellsAsBefore DEF RowsTell
<1> QED BY <1>2, <1>3, <1>4, <1>5

\* What is lost in a crash is forgotten; rows stay.
LEMMA CrashTells ==
    ASSUME NEW s \in Source, RowsTell(s), Crash, UNCHANGED <<syncVars, parseVars>>
    PROVE  RowsTell(s)'
<1>1. ElsewhereAlone /\ UNCHANGED <<table, importFinished, inbox, responses>>
  BY DEF ElsewhereAlone, Crash, ImportCrash, DbCrash
<1>2. /\ requests' \subseteq requests
      /\ \A h \in Handler : pc'[h] # "idle" => pc'[h] = pc[h] /\ job'[h] = job[h]
      /\ completed'[s] => completed[s]
  BY DEF Crash, ImportCrash, DbCrash
<1>3. UNCHANGED work BY <1>1 DEF ElsewhereAlone
<1>4. Over(s)' => Over(s) BY <1>2 DEF Over
<1>5. \A f \in File : Parsed(s, f)' => Parsed(s, f) BY <1>1, <1>2, <1>3 DEF Parsed, Tells
<1>6. \A f \in File : Loaded(s, f)' => Loaded(s, f)
  BY <1>1, <1>2 DEF Loaded, Staged, MergeReady
<1>7. \A f \in File : Shown(s, f)' => Shown(s, f) BY <1>1, <1>2 DEF Shown
<1> QED BY <1>1, <1>4, <1>5, <1>6, <1>7, ImportTellsAsBefore DEF RowsTell

-----------------------------------------------------------------------------
(* A batch is one of BatchLifecycle *)

LEMMA NoneIsSkipped ==
    ASSUME BatchInv, [Next]_vars
    PROVE  NoneSkipped'
<1> USE DEF At, Goto, Return, WorkStep
<1>1. /\ work \in [Worker -> Work] /\ inbox \in [Source -> Seq(Message)]
      /\ pc \in [Handler -> Step] /\ job \in [Handler -> Job \cup {NoJob}]
      /\ TypeInv /\ NoneSkipped /\ TypeOK /\ \A s \in Source : RowsTell(s)
  BY DEF BatchInv, MergeInv, TurnInv, TypeInv, TypeOK, ImportTypeOK
<1>2. ASSUME UNCHANGED <<work, inbox, pc, job, fileEmpty>> PROVE NoneSkipped'
  BY <1>1, <1>2 DEF NoneSkipped
<1>3. CASE ParseStep
  <2>1. UNCHANGED <<pc, job, fileEmpty>>
    BY <1>3 DEF ParseStep, WorkOn, TakeUp, Ask, Skip, Create, Clean, CleanNothing, Replace,
       ReplaceNothing, StartParse, Parse, ParseNothing, Finish
  <2>2. ASSUME \A w \in Worker : work'[w].at # "skip", UNCHANGED inbox PROVE NoneSkipped'
    BY <1>1, <2>1, <2>2 DEF NoneSkipped
  <2>3. ASSUME NEW w \in Worker, NEW t \in Source, TakeUp(w, t) PROVE NoneSkipped'
    <3>1. /\ \E f, a : work' = [work EXCEPT ![w] = [at |-> "ask", src |-> t, file |-> f,
                                                    archive |-> a]]
          /\ UNCHANGED inbox
      BY <2>3 DEF TakeUp
    <3>2. work'[w].at = "ask" /\ \A v \in Worker \ {w} : work'[v] = work[v] BY <1>1, <3>1
    <3> QED BY <1>1, <2>2, <3>1, <3>2 DEF NoneSkipped
  <2>4. ASSUME NEW w \in Worker, UNCHANGED inbox,
               CrashOf(w) \/ \E to \in WorkStep \ {"skip"} : WorkGoto(w, to)
        PROVE  NoneSkipped'
    <3>1. CASE CrashOf(w)
      <4>1. \A v \in Worker : work'[v] \in {Unused, work[v]} BY <1>1, <3>1 DEF CrashOf
      <4> QED BY <1>1, <2>2, <2>4, <4>1 DEF NoneSkipped, Unused
    <3>2. ASSUME NEW to \in WorkStep \ {"skip"}, WorkGoto(w, to) PROVE NoneSkipped'
      <4>1. work' = [work EXCEPT ![w] = [work[w] EXCEPT !.at = to]] BY <3>2 DEF WorkGoto
      <4>2. work'[w].at = to BY <1>1, <4>1 DEF Work, Unused
      <4>3. \A v \in Worker \ {w} : work'[v] = work[v] BY <1>1, <4>1
      <4> QED BY <1>1, <2>2, <2>4, <4>2, <4>3 DEF NoneSkipped
    <3> QED BY <2>4, <3>1, <3>2
  <2>5. ASSUME NEW w \in Worker, WorkOn(w) PROVE NoneSkipped'
    <3>1. CASE Ask(w) BY <1>1, <2>4, <3>1, AskTells DEF Ask, Source
    <3>2. CASE Skip(w) BY <1>1, <3>2 DEF Skip, WorkAt, NoneSkipped
    <3>3. CASE Create(w) BY <2>4, <3>3 DEF Create
    <3>4. CASE Clean(w) BY <2>4, <3>4 DEF Clean
    <3>5. CASE CleanNothing(w) BY <2>4, <3>5 DEF CleanNothing
    <3>6. CASE Replace(w) BY <2>4, <3>6 DEF Replace
    <3>7. CASE ReplaceNothing(w) BY <2>4, <3>7 DEF ReplaceNothing
    <3>8. CASE StartParse(w) BY <2>4, <3>8 DEF StartParse
    <3>9. CASE Parse(w) BY <2>4, <3>9 DEF Parse
    <3>10. CASE ParseNothing(w) BY <2>4, <3>10 DEF ParseNothing
    <3>11. CASE Finish(w)
      <4>1. work[w].src \in Source BY <1>1, <3>11, InHandIs DEF Finish
      <4>2. \A v \in Worker : work'[v].at # "skip"
        BY <1>1, <3>11 DEF Finish, NoneSkipped, Unused
      <4>3. ASSUME NEW s \in Source, NEW n \in 1 .. Len(inbox'[s]), inbox'[s][n].empty
            PROVE  FALSE
        <5>1. CASE s = work[w].src
          <6>1. PICK m : m = [file |-> work[w].file, empty |-> FALSE] OBVIOUS
          <6>2. inbox'[s] = Append(inbox[s], m) BY <1>1, <3>11, <4>1, <5>1, <6>1 DEF Finish, Toward
          <6>3. inbox[s] \in Seq(Message) BY <1>1
          <6>4. (n \in 1 .. Len(inbox[s]) /\ inbox'[s][n] = inbox[s][n]) \/ inbox'[s][n] = m
            BY <6>2, <6>3
          <6> QED BY <1>1, <4>3, <6>1, <6>4 DEF NoneSkipped
        <5>2. CASE s # work[w].src
          <6>1. inbox'[s] = inbox[s] BY <1>1, <3>11, <4>1, <5>2 DEF Finish, Toward
          <6> QED BY <1>1, <4>3, <6>1 DEF NoneSkipped
        <5> QED BY <5>1, <5>2
      <4> QED BY <1>1, <2>1, <4>2, <4>3 DEF NoneSkipped
    <3> QED
      BY <2>5, <3>1, <3>2, <3>3, <3>4, <3>5, <3>6, <3>7, <3>8, <3>9, <3>10, <3>11 DEF WorkOn
  <2> QED BY <1>3, <2>3, <2>5 DEF ParseStep
<1>4. CASE WithImport(ImportStep)
  <2>1. PICK h \in Handler :
          \/ \E t \in Source : Receive(h, t)
          \/ Acquire(h) \/ SendStage(h) \/ StageAnswered(h) \/ SendMerge(h)
          \/ MergeAnswered(h) \/ Release(h) \/ Complete(h) \/ Check(h) \/ Reset(h)
          \/ PublishImportFinished(h)
    BY <1>4 DEF WithImport, ImportStep
  <2>2. UNCHANGED work BY <1>4 DEF WithImport
  <2>3. ASSUME NEW t \in Source, Receive(h, t) PROVE NoneSkipped'
    <3>1. /\ inbox[t] # <<>> /\ inbox' = [inbox EXCEPT ![t] = Tail(@)]
          /\ job'[h].empty = Head(inbox[t]).empty
          /\ \A g \in Handler \ {h} : pc'[g] = pc[g] /\ job'[g] = job[g]
          /\ UNCHANGED fileEmpty
      BY <1>1, <2>3 DEF Receive
    <3>2. /\ Len(inbox[t]) \in Nat \ {0} /\ Head(inbox[t]) = inbox[t][1]
          /\ Len(Tail(inbox[t])) = Len(inbox[t]) - 1
          /\ \A i \in 1 .. Len(Tail(inbox[t])) : Tail(inbox[t])[i] = inbox[t][i + 1]
      BY <1>1, <3>1, EmptySeq, LenProperties, HeadTailProperties
    <3>3. \A n \in 1 .. Len(inbox[t]) : ~inbox[t][n].empty BY <1>1 DEF NoneSkipped
    <3>4. ~job'[h].empty
      <4>1. 1 \in 1 .. Len(inbox[t]) BY <3>2
      <4> QED BY <3>1, <3>2, <3>3, <4>1
    <3>5. \A n \in 1 .. Len(Tail(inbox[t])) : ~Tail(inbox[t])[n].empty
      <4>1. \A n \in 1 .. Len(Tail(inbox[t])) : n + 1 \in 1 .. Len(inbox[t]) BY <3>2
      <4> QED BY <3>2, <3>3, <4>1
    <3>6. ASSUME NEW s \in Source PROVE \A n \in 1 .. Len(inbox'[s]) : ~inbox'[s][n].empty
      <4>1. inbox'[s] = IF s = t THEN Tail(inbox[s]) ELSE inbox[s] BY <1>1, <3>1
      <4> QED BY <1>1, <3>5, <4>1 DEF NoneSkipped
    <3> QED BY <1>1, <2>2, <3>1, <3>4, <3>6 DEF NoneSkipped
  <2>4. CASE Acquire(h)
    <3>1. ~job[h].empty BY <1>1, <2>4 DEF Acquire, NoneSkipped
    <3>2. /\ UNCHANGED <<fileEmpty, inbox, job>>
          /\ \A g \in Handler : pc'[g] = "acquire" => pc[g] = "acquire"
      BY <1>1, <2>4, <3>1 DEF Acquire
    <3> QED BY <1>1, <2>2, <3>2 DEF NoneSkipped
  <2>5. CASE ~Acquire(h) /\ ~(\E t \in Source : Receive(h, t))
    <3>1. /\ UNCHANGED <<fileEmpty, inbox>>
          /\ \A g \in Handler : pc'[g] = "acquire" => pc[g] = "acquire" /\ job'[g] = job[g]
      BY <1>1, <2>1, <2>5 DEF SendStage, StageAnswered, SendMerge, MergeAnswered, Send, Answered,
         Release, Complete, Check, Reset, PublishImportFinished
    <3> QED BY <1>1, <2>2, <3>1 DEF NoneSkipped
  <2> QED BY <2>3, <2>4, <2>5
<1>5. CASE WithImport(DbStep)
  BY <1>2, <1>5 DEF WithImport, DbStep, RunStage, RunMerge, ClearAfterMerge, Reply
<1>6. CASE Crash /\ UNCHANGED <<syncVars, parseVars>>
  BY <1>1, <1>6 DEF Crash, ImportCrash, DbCrash, NoneSkipped
<1>7. CASE \/ WithSync(SyncNext(UnderWay)) \/ WithSync(Tidy)
           \/ (\E s \in Source : WithSync(Arrive(s))) \/ Cluster \/ UNCHANGED vars
  BY <1>2, <1>7 DEF WithSync, Cluster, vars
<1> QED BY <1>3, <1>4, <1>5, <1>6, <1>7 DEF Next

LEMMA BatchStays ==
    ASSUME OneAtATime, Faults = {}, KeysDiffer, BatchInv, [Next]_vars
    PROVE  BatchInv'
<1>1. MergeInv' BY OneFileStays DEF BatchInv, OnlyMergesFail
<1>2. PicksAreNew' BY PicksStayNew DEF BatchInv, MergeInv
<1>3. NoneSkipped' BY NoneIsSkipped
<1>4. ASSUME NEW s \in Source PROVE RowsTell(s)'
  <2>1. RowsTell(s) /\ completions \in Nat
    BY DEF BatchInv, MergeInv, TurnInv, TypeInv, TypeOK, FileSyncTypeOK
  <2>2. CASE WithSync(Tidy) \/ (\E t \in Source : WithSync(Arrive(t))) \/ Cluster
             \/ UNCHANGED vars
    BY <2>1, <2>2, OutsideTells
  <2>3. CASE WithSync(SyncNext(UnderWay)) BY <2>3, FileSyncTells
  <2>4. CASE ParseStep BY <2>4, ParsersTell
  <2>5. CASE WithImport(ImportStep) BY <2>5, ImportTells
  <2>6. CASE WithImport(DbStep) BY <2>6, DbTells
  <2>7. CASE Crash /\ UNCHANGED <<syncVars, parseVars>> BY <2>1, <2>7, CrashTells
  <2> QED BY <2>2, <2>3, <2>4, <2>5, <2>6, <2>7 DEF Next
<1> QED BY <1>1, <1>2, <1>3, <1>4 DEF BatchInv

LEMMA InitBatch == Init => BatchInv /\ Batch!Init
<1> SUFFICES ASSUME Init PROVE BatchInv /\ Batch!Init OBVIOUS
<1> USE DEF Init, ImportInit, DbInit, FileSyncInit
<1>1. MergeInv BY InitMerges
<1>2. PicksAreNew
  <2>1. \A s \in Source : sync.pick[s] = NoFile BY DEF Launch, Done, Start
  <2> QED BY <2>1, NoFileAssumption DEF PicksAreNew
<1>3. NoneSkipped
  <2>1. Len(<<>>) = 0 BY EmptySeq
  <2> QED BY <2>1 DEF NoneSkipped, Unused
<1>4. ASSUME NEW s \in Source PROVE RowsTell(s)
  <2>1. Between(s)
    <3>1. \A f \in File : table[s][f] = "None" OBVIOUS
    <3>2. {f \in File : HasRow(s, f)} = {} BY <3>1 DEF HasRow
    <3> QED BY <3>1, <3>2, FS_EmptySet DEF Between, Rows, Ready
  <2>2. Len(<<>>) = 0 BY EmptySeq
  <2>3. ~Over(s) BY DEF Over
  <2>4. \A f \in File : ~Coming(s, f) /\ ~Parsed(s, f) /\ ~Loaded(s, f) /\ ~Shown(s, f)
    BY <2>2 DEF Coming, Parsed, Loaded, Shown, Staged, MergeReady, Tells, Unused
  <2> QED BY <2>1, <2>3, <2>4 DEF RowsTell
<1>5. Batch!Init BY DEF Batch!Init
<1> QED BY <1>1, <1>2, <1>3, <1>4, <1>5 DEF BatchInv

\* BatchLifecycle counts as Ingest does.
LEMMA SameCardinality == \A S : Batch!Cardinality(S) = Cardinality(S)
BY DEF Cardinality, Batch!Cardinality

\* The rows of s are the files BatchLifecycle says have begun.
LEMMA BegunIsRows ==
    ASSUME NEW s \in Source, NEW n, Rows(s, n)
    PROVE  Batch!Cardinality(Batch!Begun(s)) = n
<1>1. Batch!Begun(s) = {f \in File : HasRow(s, f)}
  BY DEF Batch!Begun, Batch!InStatus, HasRow
<1> QED BY <1>1, SameCardinality DEF Rows

LEMMA BatchStep ==
    ASSUME BatchInv, Faults = {}, KeysDiffer, [Next]_vars
    PROVE  [Batch!Next]_(Batch!vars)
<1> USE DEF Batch!vars
<1>1. CASE UNCHANGED <<table, picture, importFinished>> BY <1>1
<1>2. CASE WithSync(SyncNext(UnderWay))
  <2> HIDE DEF UnderWay
  <2>1. CASE Process
    <3>1. UNCHANGED <<table, picture>> BY <2>1, ProcessTable
    <3> QED BY <1>1, <1>2, <3>1 DEF WithSync
  <2>2. CASE Timer(UnderWay) \/ Completion \/ Restart
    BY <1>1, <1>2, <2>2 DEF WithSync, Timer, Completion, Restart
  <2> QED BY <1>2, <2>1, <2>2 DEF WithSync, SyncNext
<1>3. CASE \/ WithSync(Tidy) \/ (\E s \in Source : WithSync(Arrive(s))) \/ Cluster
           \/ UNCHANGED vars \/ Crash
  BY <1>1, <1>3 DEF WithSync, Tidy, Arrive, Cluster, vars, Crash, ImportCrash, DbCrash
<1>4. CASE ParseStep
  <2>1. ASSUME NEW w \in Worker, Create(w) PROVE Batch!Next
    <3>1. PICK s \in Source, f \in File : s = work[w].src /\ f = work[w].file
      BY <2>1, CreateBegins
    <3>2. /\ Between(s) /\ table[s][f] = "None"
          /\ table' = [table EXCEPT ![s][f] = "Processing"]
          /\ UNCHANGED <<picture, importFinished>>
      BY <2>1, <3>1, CreateBegins
    <3>3. Batch!Cardinality(Batch!Begun(s)) = importFinished BY <3>2, BegunIsRows DEF Between
    <3>4. Batch!Begin(s, f) BY <3>2, <3>3 DEF Batch!Begin
    <3> QED BY <3>4 DEF Batch!Next
  <2> QED
    BY <1>1, <1>4, <2>1 DEF ParseStep, WorkOn, TakeUp, Ask, Skip, Clean, CleanNothing,
       Replace, ReplaceNothing, StartParse, Parse, ParseNothing, Finish
<1>5. CASE WithImport(ImportStep)
  <2>1. PICK h \in Handler :
          \/ \E t \in Source : Receive(h, t)
          \/ Acquire(h) \/ SendStage(h) \/ StageAnswered(h) \/ SendMerge(h)
          \/ MergeAnswered(h) \/ Release(h) \/ Complete(h) \/ Check(h) \/ Reset(h)
          \/ PublishImportFinished(h)
    BY <1>5 DEF WithImport, ImportStep
  <2>2. UNCHANGED <<table, picture>>
    BY <2>1 DEF Receive, Acquire, SendStage, StageAnswered, SendMerge, MergeAnswered, Send,
       Answered, Release, Complete, Check, Reset, PublishImportFinished
  <2>3. CASE PublishImportFinished(h)
    <3>1. importFinished' = importFinished + 1 /\ \A s \in Source : Ended(s)
      BY <2>3, PublishAnnounces
    <3>2. ASSUME NEW s \in Source
          PROVE  /\ Batch!Cardinality(Batch!Begun(s)) = importFinished + 1
                 /\ Batch!Begun(s) = Batch!InStatus(s, {"Merged"})
      <4>1. Ended(s) BY <3>1
      <4>2. Batch!Cardinality(Batch!Begun(s)) = importFinished + 1
        BY <4>1, BegunIsRows DEF Ended
      <4>3. Batch!Begun(s) = Batch!InStatus(s, {"Merged"})
        BY <4>1 DEF Ended, Ready, Batch!Begun, Batch!InStatus
      <4> QED BY <4>2, <4>3
    <3>3. Batch!Announce BY <2>2, <3>1, <3>2 DEF Batch!Announce
    <3> QED BY <3>3 DEF Batch!Next
  <2>4. CASE ~PublishImportFinished(h)
    <3>1. UNCHANGED importFinished
      BY <2>1, <2>4 DEF Receive, Acquire, SendStage, StageAnswered, SendMerge, MergeAnswered,
         Send, Answered, Release, Complete, Check, Reset
    <3> QED BY <1>1, <2>2, <3>1
  <2> QED BY <2>3, <2>4
<1>6. CASE WithImport(DbStep)
  <2>1. PICK r \in requests : RunStage(r) \/ RunMerge(r) \/ ClearAfterMerge(r) \/ Reply(r)
    BY <1>6 DEF WithImport, DbStep
  <2>2. PICK s \in Source, f \in File : s = r.src /\ f = r.file BY RequestWrites
  <2>3. CASE RunStage(r)
    <3>1. Batch!Load(s, f)
      BY <2>2, <2>3, RequestWrites DEF InBatch, Batch!Load
    <3> QED BY <3>1 DEF Batch!Next
  <2>4. CASE RunMerge(r)
    <3>1. Batch!Show(s, f)
      BY <2>2, <2>4, RequestWrites DEF InBatch, Batch!Show
    <3> QED BY <3>1 DEF Batch!Next
  <2>5. CASE ClearAfterMerge(r) \/ Reply(r)
    BY <1>1, <2>5 DEF ClearAfterMerge, ClearStaging, Swallowed, Reply
  <2> QED BY <2>1, <2>3, <2>4, <2>5
<1> QED BY <1>2, <1>3, <1>4, <1>5, <1>6 DEF Next

\* The chain from FileSync to CheckStates keeps the promise of BatchLifecycle, but for
\* what must eventually happen: one file of each source at a time, each shown by a merge
\* of its data alone, the batch announced once and after both merges, the next not begun
\* before.  Import and DbInteractions may stop anywhere, and a parser on a file that is
\* gone; what then stays unmerged holds up every later cycle, and nothing is announced
\* that is not there.
THEOREM BatchesAreKept == OneAtATime /\ Faults = {} /\ KeysDiffer => (Spec => Batch!Spec)
<1> SUFFICES ASSUME OneAtATime, Faults = {}, KeysDiffer PROVE Spec => Batch!Spec OBVIOUS
<1>1. BatchInv /\ [Next]_vars => BatchInv' BY BatchStays
<1>2. BatchInv /\ [Next]_vars => [Batch!Next]_(Batch!vars) BY BatchStep
<1> QED BY InitBatch, <1>1, <1>2, PTL DEF Spec, Batch!Spec
=============================================================================
