-------------------------- MODULE ProcessLauncher ---------------------------
(***************************************************************************)
(* src/process_launcher.rs: the launches of several jobs at a time, the    *)
(* handles each of them opens, closes and hands over, each system call     *)
(* failing or not, and what becomes of the handles after `launch`: the     *)
(* LaunchedProcess is dropped at the end of handle_run, and the JobHandle  *)
(* closes the process and the job object when it is dropped.               *)
(*                                                                         *)
(* Windows is external.  All pipe handles are inheritable, and a new       *)
(* process inherits every inheritable handle the service has open at that  *)
(* moment, those of other launches included.  A process and its            *)
(* descendants share what it inherited.                                    *)
(***************************************************************************)
EXTENDS Naturals, FiniteSets

CONSTANT Launches   \* the launches, each of them one call of `launch`

ASSUME LaunchesAssumption == IsFiniteSet(Launches)

Ends == {"stdin_read", "stdin_write", "stdout_read", "stdout_write",
         "stderr_read", "stderr_write"}
Handles == Ends \union {"job", "process", "thread"}

VARIABLES
  at,          \* where each launch is
  open,        \* its handles that are open in the service
  pipes,       \* the fields of its ChildPipeHandles that Drop would close
  handed,      \* the pipe fields of the LaunchedProcess it returns
  proc,        \* its process: "none", "running" or "exited"
  child,       \* a descendant: "none", "in_job" or "free"
  in_job,      \* whether the process is in its job object
  inherited    \* what process and descendant hold open: launch and end

handleVars == <<open, pipes, handed>>
procVars == <<proc, child, in_job, inherited>>
vars == <<at, handleVars, procVars>>

Init ==
  /\ at = [l \in Launches |-> "stdin"]
  /\ open = [l \in Launches |-> {}]
  /\ pipes = [l \in Launches |-> {}]
  /\ handed = [l \in Launches |-> {}]
  /\ proc = [l \in Launches |-> "none"]
  /\ child = [l \in Launches |-> "none"]
  /\ in_job = [l \in Launches |-> FALSE]
  /\ inherited = [l \in Launches |-> {}]

Goto(l, from, to) == at[l] = from /\ at' = [at EXCEPT ![l] = to]
Open(l, hs) == open' = [open EXCEPT ![l] = @ \union hs]
Close(l, hs) == open' = [open EXCEPT ![l] = @ \ hs]

(* `?`, once create_pipes has returned: the ChildPipeHandles are dropped,  *)
(* and with them what is left in it; `others` are closed as well.          *)
Fail(l, from, to, others) ==
  /\ Goto(l, from, to)
  /\ Close(l, pipes[l] \union others)
  /\ pipes' = [pipes EXCEPT ![l] = {}]
  /\ UNCHANGED <<handed, procVars>>

-----------------------------------------------------------------------------
(* create_pipes: the handles are plain values until all three are there,   *)
(* so that an error leaves the earlier ones open.                          *)

CreatePipe(l, from, ends, to) ==
  /\ Goto(l, from, to)
  /\ Open(l, ends)
  /\ pipes' = [pipes EXCEPT ![l] = IF to = "job" THEN Ends ELSE @]
  /\ UNCHANGED <<handed, procVars>>

CreatePipes(l) ==
  \/ CreatePipe(l, "stdin", {"stdin_read", "stdin_write"}, "stdout")
  \/ CreatePipe(l, "stdout", {"stdout_read", "stdout_write"}, "stderr")
  \/ CreatePipe(l, "stderr", {"stderr_read", "stderr_write"}, "job")

CreatePipeFails(l) ==
  /\ \E from \in {"stdin", "stdout", "stderr"} : Goto(l, from, "no_pipes")
  /\ UNCHANGED <<handleVars, procVars>>

(* create_job_object: the object, then its limits; an error of the second  *)
(* leaves the object open.                                                 *)
CreateJobObject(l) ==
  /\ Goto(l, "job", "limits")
  /\ Open(l, {"job"})
  /\ UNCHANGED <<pipes, handed, procVars>>

CreateJobObjectFails(l) == Fail(l, "job", "no_job", {})

SetInformation(l) == Goto(l, "limits", "create") /\ UNCHANGED <<handleVars, procVars>>

SetInformationFails(l) == Fail(l, "limits", "no_limits", {})

-----------------------------------------------------------------------------
(* do_launch: CreateProcessW                                               *)

Inheritable == {x \in Launches \X Ends : x[2] \in open[x[1]]}

DoLaunch(l) ==
  /\ Goto(l, "create", "assign")
  /\ Open(l, {"process", "thread"})
  /\ proc' = [proc EXCEPT ![l] = "running"]
  /\ inherited' = [inherited EXCEPT ![l] = Inheritable]
  /\ UNCHANGED <<pipes, handed, child, in_job>>

(* A bug: the job object is not closed.                                    *)
ClosedWithoutProcessNothing == {}

ClosedWithoutProcess == {"job"}

DoLaunchFails(l) == Fail(l, "create", "no_process", ClosedWithoutProcess)

(* The process runs since CreateProcessW, outside the job object until     *)
(* here.                                                                   *)
Assign(l) ==
  /\ Goto(l, "assign", "close_stdout")
  /\ in_job' = [in_job EXCEPT ![l] = TRUE]
  /\ UNCHANGED <<handleVars, proc, child, inherited>>

(* A bug: LaunchedProcess has no Drop.                                     *)
ClosedByDropNothing == {}

(* Drop for LaunchedProcess: only the thread handle.                       *)
ClosedByDrop == {"thread"}

(* The `?` drops the LaunchedProcess; process handle and job object stay   *)
(* open, and the process runs.                                             *)
AssignFails(l) == Fail(l, "assign", "no_assign", ClosedByDrop)

-----------------------------------------------------------------------------
(* Back in launch: the child's ends are closed, the others handed over.    *)

ChildEnd(from) ==
  CASE from = "close_stdout" -> "stdout_write"
    [] from = "close_stderr" -> "stderr_write"
    [] from = "close_stdin"  -> "stdin_read"

(* A bug: the field of stdout is cleared, but its handle not closed.       *)
ClosedEndForgotten(from) == {ChildEnd(from)} \ {"stdout_write"}

ClosedEnd(from) == {ChildEnd(from)}

CloseChildEnd(l, from, to) ==
  /\ Goto(l, from, to)
  /\ Close(l, ClosedEnd(from))
  /\ pipes' = [pipes EXCEPT ![l] = @ \ {ChildEnd(from)}]
  /\ UNCHANGED <<handed, procVars>>

CloseChildEnds(l) ==
  \/ CloseChildEnd(l, "close_stdout", "close_stderr")
  \/ CloseChildEnd(l, "close_stderr", "close_stdin")
  \/ CloseChildEnd(l, "close_stdin", "hand_over")

ParentEnds == {"stdout_read", "stderr_read", "stdin_write"}

(* A bug: the fields are not cleared.                                      *)
ClearedNone == {}

Cleared == ParentEnds

(* launch returns: what its ChildPipeHandles still has is closed by Drop.  *)
HandOver(l) ==
  /\ Goto(l, "hand_over", "ok")
  /\ handed' = [handed EXCEPT ![l] = ParentEnds]
  /\ Close(l, pipes[l] \ Cleared)
  /\ pipes' = [pipes EXCEPT ![l] = {}]
  /\ UNCHANGED procVars

Launch(l) ==
  \/ CreatePipes(l) \/ CreatePipeFails(l)
  \/ CreateJobObject(l) \/ CreateJobObjectFails(l)
  \/ SetInformation(l) \/ SetInformationFails(l)
  \/ DoLaunch(l) \/ DoLaunchFails(l) \/ Assign(l) \/ AssignFails(l)
  \/ CloseChildEnds(l) \/ HandOver(l)

-----------------------------------------------------------------------------
(* After the launch                                                        *)

(* handle_run is done with the LaunchedProcess.                            *)
DropLaunched(l) ==
  /\ Goto(l, "ok", "launched")
  /\ Close(l, ClosedByDrop)
  /\ UNCHANGED <<pipes, handed, procVars>>

(* What is in the job object dies; a free descendant keeps the handles.    *)
KillJob(l) ==
  /\ proc' = [proc EXCEPT ![l] = IF in_job[l] THEN "exited" ELSE @]
  /\ child' = [child EXCEPT ![l] = IF @ = "in_job" THEN "none" ELSE @]
  /\ inherited' = [inherited EXCEPT ![l] = IF child[l] = "free" THEN @ ELSE {}]
  /\ UNCHANGED in_job

TerminateJobObject(l) ==
  /\ at[l] = "launched"
  /\ KillJob(l)
  /\ UNCHANGED <<at, handleVars>>

(* A bug: no limit flag is set.                                            *)
KillOnJobCloseUnset == FALSE

(* JOB_OBJECT_LIMIT_KILL_ON_JOB_CLOSE                                      *)
KillOnJobClose == TRUE

(* Drop for JobHandle closes the process and the job object.               *)
DropJobHandle(l) ==
  /\ Goto(l, "launched", "dropped")
  /\ Close(l, {"process", "job"})
  /\ IF KillOnJobClose THEN KillJob(l) ELSE UNCHANGED procVars
  /\ UNCHANGED <<pipes, handed>>

(* External: a process ends, starts a descendant, or a descendant ends.    *)
ProcExit(l) ==
  /\ proc[l] = "running"
  /\ proc' = [proc EXCEPT ![l] = "exited"]
  /\ inherited' = [inherited EXCEPT ![l] = IF child[l] = "none" THEN {} ELSE @]
  /\ UNCHANGED <<at, handleVars, child, in_job>>

ChildStarts(l) ==
  /\ proc[l] = "running" /\ child[l] = "none"
  /\ child' = [child EXCEPT ![l] = IF in_job[l] THEN "in_job" ELSE "free"]
  /\ UNCHANGED <<at, handleVars, proc, in_job, inherited>>

ChildExits(l) ==
  /\ child[l] # "none"
  /\ child' = [child EXCEPT ![l] = "none"]
  /\ inherited' = [inherited EXCEPT ![l] = IF proc[l] = "running" THEN @ ELSE {}]
  /\ UNCHANGED <<at, handleVars, proc, in_job>>

Next ==
  \E l \in Launches :
    \/ Launch(l)
    \/ DropLaunched(l) \/ TerminateJobObject(l) \/ DropJobHandle(l)
    \/ ProcExit(l) \/ ChildStarts(l) \/ ChildExits(l)

Spec == Init /\ [][Next]_vars

-----------------------------------------------------------------------------
(* Properties                                                              *)

Failed == {"no_pipes", "no_job", "no_limits", "no_process", "no_assign"}
Returned == {"ok", "launched", "dropped"}

WithThread ==
  {"assign", "close_stdout", "close_stderr", "close_stdin", "hand_over", "ok"}

(* Every variable has its type, and the thread handle is open exactly as   *)
(* long as there is a LaunchedProcess.                                     *)
TypeOK ==
  /\ at \in [Launches -> {"stdin", "stdout", "stderr", "job", "limits", "create"}
                            \union WithThread \union Failed \union Returned]
  /\ \A l \in Launches : ("thread" \in open[l]) = (at[l] \in WithThread)
  /\ open \in [Launches -> SUBSET Handles]
  /\ pipes \in [Launches -> SUBSET Ends]
  /\ handed \in [Launches -> SUBSET Ends]
  /\ proc \in [Launches -> {"none", "running", "exited"}]
  /\ child \in [Launches -> {"none", "in_job", "free"}]
  /\ in_job \in [Launches -> BOOLEAN]
  /\ inherited \in [Launches -> SUBSET (Launches \X Ends)]

(* On every path a pipe handle has one owner: what Drop would close is     *)
(* open (a handle closed twice may be another's by then), and what has     *)
(* been handed to the pumps is open and not Drop's any more.               *)
OwnedOnce ==
  \A l \in Launches :
    /\ pipes[l] \union handed[l] \subseteq open[l]
    /\ pipes[l] \intersect handed[l] = {}

(* The streams of a job can end: once it is launched, only processes hold  *)
(* the write ends of its output, so when they are all gone the pumps read  *)
(* the end of both streams, whatever other launches were doing meanwhile.  *)
Living == {l \in Launches : proc[l] = "running" \/ child[l] # "none"}
Writers(l) == {m \in Launches : {<<l, "stdout_write">>, <<l, "stderr_write">>}
                                  \intersect inherited[m] # {}}
StreamsEnd ==
  \A l \in Launches :
    at[l] \in Returned =>
      /\ {"stdout_write", "stderr_write"} \intersect open[l] = {}
      /\ Writers(l) \subseteq Living

(* A launch that fails because of its command, or for want of a job        *)
(* object, leaves no handle and no process behind.                         *)
FailureIsClean ==
  \A l \in Launches :
    at[l] \in {"no_job", "no_process"} => open[l] = {} /\ proc[l] = "none"

(* A process that was launched is in its job object, and when the job's    *)
(* handle is dropped nothing in the job object runs on; only what escaped  *)
(* before the process was assigned to it does.                             *)
DiesWithJob ==
  \A l \in Launches :
    /\ at[l] \in Returned => in_job[l]
    /\ at[l] = "dropped" => proc[l] # "running" /\ child[l] # "in_job"

=============================================================================
