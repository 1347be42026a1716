-------------------------- MODULE MCUploadPipeline --------------------------
(***************************************************************************)
(* UploadPipeline for a directory d, a file n in it and a file r directly  *)
(* in the root, listed in the order of their paths.  The directory iterator*)
(* yields them in that order too.                                          *)
(***************************************************************************)
EXTENDS UploadPipeline

CONSTANTS d, n, r, JobCount

MCEntries == {d, n, r}

MCDirs == {d}

MCPathOrder == <<d, n, r>>

MCScanOrder == <<d, n, r>>

MCParent == [e \in MCEntries |-> IF e = n THEN d ELSE Root]

MCJobs == 1..JobCount
=============================================================================
