----------------------------- MODULE ImportService -----------------------------
(***************************************************************************)
(* Import and DbInteractions under the most general use: the parsers       *)
(* announce any files in any order, any file is given a row, and FileSync  *)
(* clears a staging database, whenever they like.  What holds here holds   *)
(* in Ingest however its batches overlap.                                  *)
(***************************************************************************)
EXTENDS Import

CONSTANTS
    MaxInbox,       \* bound: messages waiting in Import's two queues together
    MaxAnnounced,   \* bound: announcements after which no more files come
    MaxRows,        \* bound: rows in the two ProcessedFiles tables together
    Recorded        \* bound: the sources whose files are given rows

ASSUME ImportServiceAssumption ==
    /\ MaxInbox \in Nat /\ MaxAnnounced \in Nat /\ MaxRows \in Nat
    /\ Recorded \subseteq Source

vars == <<dbVars, importVars, rpcVars, crashes>>

\* DeliusParserFinishedMessage, OfflocParserFinishedMessage.
ParserFinished(s) ==
    /\ Len(inbox["delius"]) + Len(inbox["offloc"]) < MaxInbox
    /\ importFinished < MaxAnnounced
    /\ \E m \in Message : inbox' = [inbox EXCEPT ![s] = Append(@, m)]
    /\ UNCHANGED <<dbVars, pc, job, sem, dbSem, completed, fileEmpty, importFinished,
                   rpcVars, crashes>>

StartFileProcessing(s) ==
    /\ s \in Recorded
    /\ Cardinality({r \in Source \X File : HasRow(r[1], r[2])}) < MaxRows
    /\ \E f \in File : ~HasRow(s, f) /\ CreateProcessedFileEntry(s, f)
    /\ UNCHANGED <<importVars, rpcVars, crashes>>

PreKickoffClear(s) ==
    /\ ClearStaging(s)
    /\ UNCHANGED <<importVars, rpcVars, crashes>>

Environment ==
    \E s \in Source : ParserFinished(s) \/ StartFileProcessing(s) \/ PreKickoffClear(s)

Init == ImportInit

Next == Environment \/ ((ImportStep \/ DbStep) /\ UNCHANGED crashes)

Spec == Init /\ [][Next]_vars
=============================================================================
