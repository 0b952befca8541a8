---------------------------- MODULE MCImportService ----------------------------
(* Instances of ImportService for TLC. *)
EXTENDS ImportService, TLC

MCFileId == [f \in File |-> f]

Interchangeable == Permutations(Handler) \cup Permutations(File)
=============================================================================
