----------------------- MODULE ProcessLauncherProofs ------------------------
(***************************************************************************)
(* Theorems about ProcessLauncher, for any number of launches at a time.   *)
(***************************************************************************)
EXTENDS ProcessLauncher, TLAPS

USE DEF handleVars, procVars

(* What a launch has open, and what its ChildPipeHandles would close, at   *)
(* each point of its way.                                                  *)
Stdin == {"stdin_read", "stdin_write"}
Stdout == {"stdout_read", "stdout_write"}

HeldAt(l, a, opened, owned) == at[l] = a => open[l] = opened /\ pipes[l] = owned

OnTheWay(l) ==
  /\ HeldAt(l, "stdin", {}, {})
  /\ HeldAt(l, "stdout", Stdin, {})
  /\ HeldAt(l, "stderr", Stdin \union Stdout, {})
  /\ HeldAt(l, "job", Ends, Ends)
  /\ HeldAt(l, "limits", Ends \union {"job"}, Ends)
  /\ HeldAt(l, "create", Ends \union {"job"}, Ends)
  /\ HeldAt(l, "assign", Handles, Ends)
  /\ HeldAt(l, "close_stdout", Handles, Ends)
  /\ HeldAt(l, "close_stderr", Handles \ {"stdout_write"}, Ends \ {"stdout_write"})
  /\ HeldAt(l, "close_stdin", Handles \ {"stdout_write", "stderr_write"},
            Ends \ {"stdout_write", "stderr_write"})
  /\ HeldAt(l, "hand_over", ParentEnds \union {"job", "process", "thread"}, ParentEnds)

AtTheEnd(l) ==
  /\ HeldAt(l, "no_job", {}, {})
  /\ HeldAt(l, "no_limits", {"job"}, {})
  /\ HeldAt(l, "no_process", {}, {})
  /\ HeldAt(l, "no_assign", {"job", "process"}, {})
  /\ HeldAt(l, "ok", ParentEnds \union {"job", "process", "thread"}, {})
  /\ HeldAt(l, "launched", ParentEnds \union {"job", "process"}, {})
  /\ HeldAt(l, "dropped", ParentEnds, {})
  /\ at[l] = "no_pipes" => open[l] \subseteq Ends /\ pipes[l] = {}
  /\ handed[l] = IF at[l] \in Returned THEN ParentEnds ELSE {}

Labels == {"stdin", "stdout", "stderr", "job", "limits", "create"}
            \union WithThread \union Failed \union Returned

Types ==
  /\ at \in [Launches -> Labels]
  /\ open \in [Launches -> SUBSET Handles]
  /\ pipes \in [Launches -> SUBSET Ends]
  /\ handed \in [Launches -> SUBSET Ends]

HandleInv == Types /\ \A l \in Launches : OnTheWay(l) /\ AtTheEnd(l)

USE DEF HeldAt, Stdin, Stdout

(* A step of one launch touches no handle of another.                      *)
Alone(l) ==
  \A m \in Launches \ {l} :
    at'[m] = at[m] /\ open'[m] = open[m] /\ pipes'[m] = pipes[m] /\ handed'[m] = handed[m]

(* Every step leaves each launch with the handles of its next line.        *)
LEMMA NextHandleInv == HandleInv /\ [Next]_vars => HandleInv'
  <1> SUFFICES ASSUME HandleInv, [Next]_vars PROVE HandleInv'
    OBVIOUS
  <1>1. ASSUME NEW l \in Launches, Launch(l) \/ DropLaunched(l) \/ DropJobHandle(l)
        PROVE  HandleInv'
    <2>1. Types /\ OnTheWay(l) /\ AtTheEnd(l)
      BY DEF HandleInv
    <2>2. Types' /\ Alone(l)
      <3> USE <2>1 DEF Types, Alone, Goto, Labels, WithThread, Failed, Returned
      <3>1. CASE CreatePipes(l)
        BY <3>1 DEF CreatePipes, CreatePipe, Open, Handles, Ends
      <3>2. CASE CreatePipeFails(l) \/ SetInformation(l) \/ Assign(l)
        BY <3>2 DEF CreatePipeFails, SetInformation, Assign
      <3>3. CASE CreateJobObject(l) \/ DoLaunch(l)
        BY <3>3 DEF CreateJobObject, DoLaunch, Open, Handles
      <3>4. CASE CreateJobObjectFails(l) \/ SetInformationFails(l) \/ DoLaunchFails(l)
                   \/ AssignFails(l)
        BY <3>4 DEF CreateJobObjectFails, SetInformationFails, DoLaunchFails, AssignFails, Fail, Close
      <3>5. CASE CloseChildEnds(l)
        BY <3>5 DEF CloseChildEnds, CloseChildEnd, Close
      <3>6. CASE HandOver(l)
        BY <3>6 DEF HandOver, Close, ParentEnds, Ends
      <3>7. CASE DropLaunched(l) \/ DropJobHandle(l)
        BY <3>7 DEF DropLaunched, DropJobHandle, Close
      <3> QED BY <1>1, <3>1, <3>2, <3>3, <3>4, <3>5, <3>6, <3>7 DEF Launch
    <2>3. OnTheWay(l)' /\ AtTheEnd(l)'
      <3> USE <2>1 DEF Types, Goto, OnTheWay, AtTheEnd, Returned
      <3>1. CASE CreatePipes(l)
        BY <3>1 DEF CreatePipes, CreatePipe, Open, Ends
      <3>2. CASE CreatePipeFails(l)
        BY <3>2 DEF CreatePipeFails, Ends
      <3>3. CASE SetInformation(l) \/ Assign(l)
        BY <3>3 DEF SetInformation, Assign
      <3>4. CASE CreateJobObject(l) \/ DoLaunch(l)
        BY <3>4 DEF CreateJobObject, DoLaunch, Open, Handles
      <3>5. CASE CreateJobObjectFails(l) \/ SetInformationFails(l)
        BY <3>5 DEF CreateJobObjectFails, SetInformationFails, Fail, Close, Ends
      <3>6. CASE DoLaunchFails(l) \/ AssignFails(l)
        BY <3>6 DEF DoLaunchFails, AssignFails, ClosedWithoutProcess, ClosedByDrop, Fail, Close,
           Ends, Handles
      <3>7. CASE CloseChildEnds(l)
        BY <3>7 DEF CloseChildEnds, CloseChildEnd, ClosedEnd, ChildEnd, Close, Ends, Handles, ParentEnds
      <3>8. CASE HandOver(l)
        BY <3>8 DEF HandOver, Cleared, Close, ParentEnds
      <3>9. CASE DropLaunched(l)
        BY <3>9 DEF DropLaunched, ClosedByDrop, Close, ParentEnds
      <3>10. CASE DropJobHandle(l)
        <4>1. /\ at[l] = "launched" /\ at'[l] = "dropped"
              /\ open'[l] = open[l] \ {"process", "job"} /\ UNCHANGED <<pipes, handed>>
          BY <3>10 DEF DropJobHandle, Close
        <4> QED BY <4>1 DEF ParentEnds
      <3> QED BY <1>1, <3>1, <3>2, <3>3, <3>4, <3>5, <3>6, <3>7, <3>8, <3>9, <3>10 DEF Launch
    <2>4. ASSUME NEW m \in Launches \ {l} PROVE OnTheWay(m)' /\ AtTheEnd(m)'
      <3>1. OnTheWay(m) /\ AtTheEnd(m)
        BY DEF HandleInv
      <3>2. at'[m] = at[m] /\ open'[m] = open[m] /\ pipes'[m] = pipes[m] /\ handed'[m] = handed[m]
        BY <2>2 DEF Alone
      <3> QED BY <3>1, <3>2 DEF OnTheWay, AtTheEnd
    <2> QED BY <2>2, <2>3, <2>4 DEF HandleInv
  <1>2. ASSUME UNCHANGED <<at, open, pipes, handed>> PROVE HandleInv'
    BY <1>2 DEF HandleInv, Types, OnTheWay, AtTheEnd
  <1>3. ASSUME NEW l \in Launches,
               TerminateJobObject(l) \/ ProcExit(l) \/ ChildStarts(l) \/ ChildExits(l)
        PROVE  HandleInv'
    BY <1>2, <1>3 DEF TerminateJobObject, ProcExit, ChildStarts, ChildExits
  <1> QED BY <1>1, <1>2, <1>3 DEF Next, vars

(* The exact handles of every launch, on every path.                       *)
LEMMA HandlesKept == Spec => []HandleInv
  <1>1. Init => HandleInv
    BY DEF Init, HandleInv, Types, Labels, OnTheWay, AtTheEnd, Returned
  <1> QED BY <1>1, NextHandleInv, PTL DEF Spec

(* Whichever call fails, no pipe handle is closed twice, and what the      *)
(* pumps were given is open and theirs alone.                              *)
THEOREM OneOwner == Spec => []OwnedOnce
  <1>1. HandleInv => OwnedOnce
    <2> SUFFICES ASSUME HandleInv, NEW l \in Launches
                 PROVE  /\ pipes[l] \union handed[l] \subseteq open[l]
                        /\ pipes[l] \intersect handed[l] = {}
      BY DEF OwnedOnce
    <2>1. Types /\ OnTheWay(l) /\ AtTheEnd(l)
      BY DEF HandleInv
    <2>2. CASE at[l] \in Returned
      BY <2>1, <2>2 DEF AtTheEnd, Returned
    <2>3. CASE at[l] \in Failed
      BY <2>1, <2>3 DEF AtTheEnd, Failed, Returned
    <2>4. CASE at[l] \notin Failed \union Returned
      BY <2>1, <2>4 DEF Types, OnTheWay, AtTheEnd, Labels, WithThread, Failed, Returned, Handles,
         Ends, ParentEnds
    <2> QED BY <2>2, <2>3, <2>4
  <1> QED BY <1>1, HandlesKept, PTL

-----------------------------------------------------------------------------
(* Processes.  A launch has no process before CreateProcessW; from         *)
(* AssignProcessToJobObject on it is in the job object, where its later    *)
(* descendants are as well; and what is inherited is held by somebody who  *)
(* lives.                                                                  *)
NoProcess == {"stdin", "stdout", "stderr", "job", "limits", "create",
              "no_pipes", "no_job", "no_limits", "no_process"}
Assigned == {"close_stdout", "close_stderr", "close_stdin", "hand_over"} \union Returned

ProcTypes ==
  /\ proc \in [Launches -> {"none", "running", "exited"}]
  /\ child \in [Launches -> {"none", "in_job", "free"}]
  /\ in_job \in [Launches -> BOOLEAN]
  /\ inherited \in [Launches -> SUBSET (Launches \X Ends)]

ProcOK(l) ==
  /\ at[l] \in NoProcess => proc[l] = "none"
  /\ at[l] \in Assigned => in_job[l]
  /\ at[l] = "dropped" => proc[l] # "running" /\ child[l] # "in_job"
  /\ inherited[l] # {} => proc[l] = "running" \/ child[l] # "none"

ProcInv == ProcTypes /\ \A l \in Launches : ProcOK(l)

AloneProc(l) ==
  \A m \in Launches \ {l} :
    /\ at'[m] = at[m] /\ proc'[m] = proc[m] /\ child'[m] = child[m]
    /\ in_job'[m] = in_job[m] /\ inherited'[m] = inherited[m]

(* Every step keeps processes and job objects as ProcInv has them.         *)
LEMMA NextProcInv == HandleInv /\ ProcInv /\ [Next]_vars => ProcInv'
  <1> SUFFICES ASSUME HandleInv, ProcInv, [Next]_vars PROVE ProcInv'
    OBVIOUS
  <1>0. Types /\ ProcTypes /\ \A l \in Launches : ProcOK(l)
    BY DEF HandleInv, ProcInv
  <1>1. ASSUME NEW l \in Launches, ProcTypes', AloneProc(l), ProcOK(l)' PROVE ProcInv'
    <2>1. ASSUME NEW m \in Launches \ {l} PROVE ProcOK(m)'
      BY <1>0, <1>1 DEF AloneProc, ProcOK
    <2> QED BY <1>1, <2>1 DEF ProcInv
  <1>2. ASSUME NEW l \in Launches, NEW from, NEW to, Goto(l, from, to), UNCHANGED procVars,
               to \in NoProcess => from \in NoProcess, to \in Assigned => from \in Assigned,
               to # "dropped"
        PROVE  ProcInv'
    <2>1. ProcTypes' /\ AloneProc(l)
      BY <1>0, <1>2 DEF Types, ProcTypes, AloneProc, Goto
    <2>2. ProcOK(l)'
      BY <1>0, <1>2 DEF Types, ProcOK, Goto
    <2> QED BY <1>1, <2>1, <2>2
  <1>3. ASSUME NEW l \in Launches, Launch(l), ~DoLaunch(l), ~Assign(l) PROVE ProcInv'
    <2> USE DEF NoProcess, Assigned, Returned
    <2>1. CASE CreatePipes(l)
      BY <1>2, <2>1 DEF CreatePipes, CreatePipe
    <2>2. CASE CreatePipeFails(l)
      BY <1>2, <2>2 DEF CreatePipeFails
    <2>3. CASE CreateJobObject(l) \/ SetInformation(l)
      BY <1>2, <2>3 DEF CreateJobObject, SetInformation
    <2>4. CASE CreateJobObjectFails(l) \/ SetInformationFails(l) \/ DoLaunchFails(l) \/ AssignFails(l)
      BY <1>2, <2>4 DEF CreateJobObjectFails, SetInformationFails, DoLaunchFails, AssignFails, Fail
    <2>5. CASE CloseChildEnds(l)
      BY <1>2, <2>5 DEF CloseChildEnds, CloseChildEnd
    <2>6. CASE HandOver(l)
      BY <1>2, <2>6 DEF HandOver
    <2> QED BY <1>3, <2>1, <2>2, <2>3, <2>4, <2>5, <2>6 DEF Launch
  <1>4. ASSUME NEW l \in Launches, DoLaunch(l) PROVE ProcInv'
    <2>1. Inheritable \subseteq Launches \X Ends
      BY DEF Inheritable
    <2>2. ProcTypes' /\ AloneProc(l)
      BY <1>0, <1>4, <2>1 DEF Types, ProcTypes, AloneProc, DoLaunch, Goto
    <2>3. ProcOK(l)'
      BY <1>0, <1>4 DEF Types, ProcTypes, ProcOK, DoLaunch, Goto, NoProcess, Assigned, Returned
    <2> QED BY <1>1, <2>2, <2>3
  <1>5. ASSUME NEW l \in Launches, Assign(l) PROVE ProcInv'
    <2>1. ProcTypes' /\ AloneProc(l)
      BY <1>0, <1>5 DEF Types, ProcTypes, AloneProc, Assign, Goto
    <2>2. ProcOK(l)'
      BY <1>0, <1>5 DEF Types, ProcTypes, ProcOK, Assign, Goto, NoProcess
    <2> QED BY <1>1, <2>1, <2>2
  <1>6. ASSUME NEW l \in Launches, DropLaunched(l) PROVE ProcInv'
    BY <1>2, <1>6 DEF DropLaunched, NoProcess, Assigned, Returned
  <1>7. ASSUME NEW l \in Launches, KillJob(l), at[l] = "launched",
               at' = [at EXCEPT ![l] = "dropped"] \/ UNCHANGED at
        PROVE  ProcInv'
    <2>1. in_job[l]
      BY <1>0, <1>7 DEF ProcOK, Assigned, Returned
    <2>2. ProcTypes' /\ AloneProc(l)
      BY <1>0, <1>7 DEF Types, ProcTypes, AloneProc, KillJob
    <2>3. /\ proc'[l] = "exited" /\ child'[l] # "in_job" /\ in_job'[l] = in_job[l]
          /\ inherited'[l] # {} => child'[l] = "free"
          /\ at'[l] \in {"launched", "dropped"}
      BY <1>0, <1>7, <2>1 DEF Types, ProcTypes, KillJob
    <2>4. ProcOK(l)'
      BY <2>1, <2>3 DEF ProcOK, NoProcess
    <2> QED BY <1>1, <2>2, <2>4
  <1>8. ASSUME NEW l \in Launches, TerminateJobObject(l) \/ DropJobHandle(l) PROVE ProcInv'
    BY <1>7, <1>8 DEF TerminateJobObject, DropJobHandle, KillOnJobClose, Goto
  <1>9. ASSUME NEW l \in Launches, ProcExit(l) PROVE ProcInv'
    <2>1. ProcTypes' /\ AloneProc(l)
      BY <1>0, <1>9 DEF Types, ProcTypes, AloneProc, ProcExit
    <2>2. ProcOK(l)'
      BY <1>0, <1>9 DEF Types, ProcTypes, ProcOK, ProcExit
    <2> QED BY <1>1, <2>1, <2>2
  <1>10. ASSUME NEW l \in Launches, ChildStarts(l) PROVE ProcInv'
    <2>1. ProcTypes' /\ AloneProc(l)
      BY <1>0, <1>10 DEF Types, ProcTypes, AloneProc, ChildStarts
    <2>2. ProcOK(l)'
      BY <1>0, <1>10 DEF Types, ProcTypes, ProcOK, ChildStarts
    <2> QED BY <1>1, <2>1, <2>2
  <1>11. ASSUME NEW l \in Launches, ChildExits(l) PROVE ProcInv'
    <2>1. ProcTypes' /\ AloneProc(l)
      BY <1>0, <1>11 DEF Types, ProcTypes, AloneProc, ChildExits
    <2>2. ProcOK(l)'
      BY <1>0, <1>11 DEF Types, ProcTypes, ProcOK, ChildExits
    <2> QED BY <1>1, <2>1, <2>2
  <1>12. CASE UNCHANGED vars
    BY <1>12 DEF vars, ProcInv, ProcTypes, ProcOK
  <1> QED BY <1>3, <1>4, <1>5, <1>6, <1>8, <1>9, <1>10, <1>11, <1>12 DEF Next

(* Both invariants hold in every state.                                    *)
LEMMA ProcsKept == Spec => [](HandleInv /\ ProcInv)
  <1>1. Init => ProcInv
    <2> SUFFICES ASSUME Init PROVE ProcInv
      OBVIOUS
    <2>1. in_job \in [Launches -> BOOLEAN]
      BY Zenon DEF Init
    <2> QED BY <2>1 DEF Init, ProcInv, ProcTypes, ProcOK, Assigned, Returned
  <1> QED BY <1>1, HandlesKept, NextProcInv, PTL DEF Spec

(* Every variable keeps its type, and the thread handle is open exactly as *)
(* long as there is a LaunchedProcess to close it.                         *)
THEOREM TypeCorrect == Spec => []TypeOK
  <1>1. HandleInv /\ ProcInv => TypeOK
    <2> SUFFICES ASSUME HandleInv, ProcInv PROVE TypeOK
      OBVIOUS
    <2>1. ASSUME NEW l \in Launches PROVE ("thread" \in open[l]) = (at[l] \in WithThread)
      <3>1. Types /\ OnTheWay(l) /\ AtTheEnd(l)
        BY DEF HandleInv
      <3>2. CASE at[l] \in WithThread
        BY <3>1, <3>2 DEF OnTheWay, AtTheEnd, WithThread, Handles, Ends, ParentEnds
      <3>3. CASE at[l] \notin WithThread
        BY <3>1, <3>3 DEF Types, OnTheWay, AtTheEnd, Labels, WithThread, Failed, Returned, Ends,
           ParentEnds
      <3> QED BY <3>2, <3>3
    <2> QED BY <2>1 DEF HandleInv, Types, Labels, ProcInv, ProcTypes, TypeOK
  <1> QED BY <1>1, ProcsKept, PTL

(* A launch that fails for want of a job object, or because its command    *)
(* cannot be started, leaves no handle and no process behind.              *)
THEOREM FailuresAreClean == Spec => []FailureIsClean
  <1>1. HandleInv /\ ProcInv => FailureIsClean
    BY DEF HandleInv, AtTheEnd, ProcInv, ProcOK, NoProcess, FailureIsClean
  <1> QED BY <1>1, ProcsKept, PTL

(* A launched process is in its job object, and when the job's handle is   *)
(* dropped nothing in the job object runs on.                              *)
THEOREM JobsDieTogether == Spec => []DiesWithJob
  <1>1. ProcInv => DiesWithJob
    BY DEF ProcInv, ProcOK, Assigned, DiesWithJob
  <1> QED BY <1>1, ProcsKept, PTL

(* Once a job is launched, only processes that live hold the write ends of *)
(* its output, so that its streams end when they do, whatever handles the  *)
(* launches that overlapped have inherited from one another.               *)
THEOREM StreamsCanEnd == Spec => []StreamsEnd
  <1>1. HandleInv /\ ProcInv => StreamsEnd
    <2> SUFFICES ASSUME HandleInv, ProcInv, NEW l \in Launches, at[l] \in Returned
                 PROVE  /\ {"stdout_write", "stderr_write"} \intersect open[l] = {}
                        /\ Writers(l) \subseteq Living
      BY DEF StreamsEnd
    <2>1. {"stdout_write", "stderr_write"} \intersect open[l] = {}
      BY DEF HandleInv, AtTheEnd, Returned, ParentEnds
    <2>2. Writers(l) \subseteq Living
      BY DEF Writers, Living, ProcInv, ProcOK
    <2> QED BY <2>1, <2>2
  <1> QED BY <1>1, ProcsKept, PTL

=============================================================================
