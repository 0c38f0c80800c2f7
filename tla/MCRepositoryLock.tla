--------------------------- MODULE MCRepositoryLock ---------------------------
(***************************************************************************)
(* Instances of RepositoryLock for TLC.                                    *)
(***************************************************************************)
EXTENDS RepositoryLock, TLC

Interchangeable == Permutations(Attempts)
=============================================================================
