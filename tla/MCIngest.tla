------------------------------- MODULE MCIngest -------------------------------
(* Instances of Ingest for TLC: files are numbers and numbers are dates. *)
EXTENDS Ingest, Integers, TLC

MCFileId == [f \in File |-> f]
\* Two Offloc files of one day, two Delius files with one run number.
SharedId == [f \in File |-> 1]

\* Archive 10*k holds file k and is dated with it.
OwnContent == [a \in Archive |-> a \div 10]

MCDate == [i \in File \cup Archive |-> IF i \in File THEN i ELSE i \div 10]

\* Handlers and workers are interchangeable; used where only safety is checked.
Interchangeable == Permutations(Handler) \cup Permutations(Worker)
=============================================================================
