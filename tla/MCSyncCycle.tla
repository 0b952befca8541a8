----------------------------- MODULE MCSyncCycle ------------------------------
(* Instances of SyncCycle for TLC: files are numbers and numbers are dates. *)
EXTENDS SyncCycle, Integers

MCFileId == [f \in File |-> f]

\* Archive 10*k holds file k and is dated with it.
OwnContent == [a \in Archive |-> a \div 10]

MCDate == [i \in File \cup Archive |-> IF i \in File THEN i ELSE i \div 10]
=============================================================================
