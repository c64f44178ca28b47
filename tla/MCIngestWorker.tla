--------------------------- MODULE MCIngestWorker ---------------------------
(* IngestWorker for TLC's safety runs: matches are interchangeable, and so  *)
(* are the inserters.                                                       *)
EXTENDS IngestWorker, TLC

Symmetry == Permutations(Matches) \cup Permutations(Inserters)
=============================================================================
