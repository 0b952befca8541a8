---------------------------- MODULE BatchLifecycle ----------------------------
(***************************************************************************)
(* What an ingest cycle promises.  Files come in batches, one file of each *)
(* source.  Each file goes from nothing to Processing, Imported and        *)
(* Merged; a merge shows exactly the data of its file; a batch is          *)
(* announced once, after both its merges; and the next begins after that.  *)
(***************************************************************************)
EXTENDS Naturals, FiniteSets

CONSTANTS Source, File

VARIABLES
    status,     \* status[s][f]: how far the file is
    shown,      \* shown[s]: the files whose data the last merge of s showed
    announced   \* batches announced

vars == <<status, shown, announced>>

InStatus(s, statuses) == {f \in File : status[s][f] \in statuses}
Begun(s) == File \ InStatus(s, {"None"})

Init ==
    /\ status = [s \in Source |-> [f \in File |-> "None"]]
    /\ shown = [s \in Source |-> {}]
    /\ announced = 0

Begin(s, f) ==
    /\ Cardinality(Begun(s)) = announced
    /\ status[s][f] = "None"
    /\ status' = [status EXCEPT ![s][f] = "Processing"]
    /\ UNCHANGED <<shown, announced>>

Load(s, f) ==
    /\ status[s][f] = "Processing"
    /\ status' = [status EXCEPT ![s][f] = "Imported"]
    /\ UNCHANGED <<shown, announced>>

Show(s, f) ==
    /\ status[s][f] = "Imported"
    /\ status' = [status EXCEPT ![s][f] = "Merged"]
    /\ shown' = [shown EXCEPT ![s] = {f}]
    /\ UNCHANGED announced

Announce ==
    /\ \A s \in Source :
          /\ Cardinality(Begun(s)) = announced + 1
          /\ Begun(s) = InStatus(s, {"Merged"})
    /\ announced' = announced + 1
    /\ UNCHANGED <<status, shown>>

Next ==
    \/ \E s \in Source, f \in File : Begin(s, f) \/ Load(s, f) \/ Show(s, f)
    \/ Announce

Spec == Init /\ [][Next]_vars

\* Nothing obliges a source to deliver, but what is begun is shown, and a batch
\* that is all shown is announced.
Fairness ==
    /\ \A s \in Source, f \in File : WF_vars(Load(s, f)) /\ WF_vars(Show(s, f))
    /\ WF_vars(Announce)

FairSpec == Spec /\ Fairness
=============================================================================
