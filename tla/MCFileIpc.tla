----------------------------- MODULE MCFileIpc ------------------------------
(***************************************************************************)
(* FileIpc for TLC.  Of the ids that the clients choose, one request's is  *)
(* its own stem and the others' are any: theirs are their own too, or name *)
(* the same response.                                                      *)
(***************************************************************************)
EXTENDS FileIpc

MCInit == Init /\ LET own == CHOOSE r \in Requests : TRUE IN id[own] = own

MCSpec == MCInit /\ [][Next]_vars /\ Fairness

=============================================================================
