-------------------------- MODULE MCTransferQueue --------------------------
(***************************************************************************)
(* TransferQueue for two entries, a directory and a file, and four row ids *)
(* (rows stay in the table until clearDone, so an entry meets its own old  *)
(* rows).                                                                  *)
(***************************************************************************)
EXTENDS TransferQueue, TLC

CONSTANTS d, f, j1, j2, j3, j4

MCEntries == {d, f}

MCDirs == {d}

MCJobs == {j1, j2, j3, j4}

MCSymmetry == Permutations(MCJobs)
=============================================================================
