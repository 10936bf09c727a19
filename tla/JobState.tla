------------------------------ MODULE JobState ------------------------------
(***************************************************************************)
(* The states of one job and the transitions between them: the enum        *)
(* JobState of src/job_manager.rs with can_transition_to and is_terminal.  *)
(***************************************************************************)

Terminal == {"Completed", "Failed", "Canceled", "TimedOut"}

JobStates == {"Created", "Starting", "Running", "Exiting"} \union Terminal

IsTerminal(s) == s \in Terminal

(***************************************************************************)
(* The states `old` may move to.  Every state that is not terminal can be  *)
(* canceled; only a running job can time out.                              *)
(***************************************************************************)
Successors(old) ==
  CASE old = "Created"  -> {"Starting", "Canceled"}
    [] old = "Starting" -> {"Running", "Failed", "Canceled"}
    [] old = "Running"  -> {"Exiting", "Canceled", "TimedOut", "Failed"}
    [] old = "Exiting"  -> {"Completed", "Failed", "Canceled"}
    [] OTHER            -> {}

(* Two bugs: a job that is starting cannot be canceled; no check at all.   *)
CanTransitionToNoEarlyCancel(old, new) ==
  new \in Successors(old) /\ ~(old = "Starting" /\ new = "Canceled")
CanTransitionToAny(old, new) == TRUE

CanTransitionTo(old, new) == new \in Successors(old)

=============================================================================
