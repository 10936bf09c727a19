---------------------------- MODULE MCJobManager ----------------------------
(***************************************************************************)
(* JobManager for TLC.                                                     *)
(***************************************************************************)
EXTENDS JobManager, TLC

(* Callers and handles are interchangeable: no definition names one.       *)
Symmetry == Permutations(Threads) \union Permutations(Handles)

FewNewStates == {"Starting", "Failed"}

Forward == {1}

=============================================================================
