---------------------------- MODULE JobRegistry -----------------------------
(***************************************************************************)
(* What the job manager promises of every job, without ids, locks, clocks  *)
(* or threads: a job is admitted to the registry once, once retired it is  *)
(* never listed again, and from its admission on it is given at most one   *)
(* verdict.  (A verdict may still arrive after the job has been retired:   *)
(* whoever looked the job up first keeps a reference to it.)               *)
(***************************************************************************)

CONSTANTS
  Handles,   \* the job handles that may ever be allocated
  Verdicts,  \* the ways a job can end
  None       \* no verdict yet

VARIABLES
  listed,    \* the jobs in the registry
  retired,   \* the jobs that have left the registry
  verdict    \* how each job ended, or None

vars == <<listed, retired, verdict>>

Init ==
  /\ listed = {}
  /\ retired = {}
  /\ verdict = [h \in Handles |-> None]

Admit(h) ==
  /\ h \notin listed \union retired
  /\ listed' = listed \union {h}
  /\ UNCHANGED <<retired, verdict>>

Settle(h, v) ==
  /\ h \in listed \union retired
  /\ verdict[h] = None
  /\ verdict' = [verdict EXCEPT ![h] = v]
  /\ UNCHANGED <<listed, retired>>

Retire(h) ==
  /\ h \in listed
  /\ listed' = listed \ {h}
  /\ retired' = retired \union {h}
  /\ UNCHANGED verdict

Next ==
  \E h \in Handles :
    \/ Admit(h)
    \/ \E v \in Verdicts : Settle(h, v)
    \/ Retire(h)

Spec == Init /\ [][Next]_vars

=============================================================================
