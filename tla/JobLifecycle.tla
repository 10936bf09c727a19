---------------------------- MODULE JobLifecycle ----------------------------
(***************************************************************************)
(* One job from its RUN frame to the end of its process: handle_run of     *)
(* src/pipe_server.rs, the task it spawns to wait for the process, the     *)
(* timeout monitor and terminate_job of src/cancellation.rs, a client that *)
(* sends CANCEL, the cleanup of the job manager, and the reference counts  *)
(* that decide when the JobHandle is dropped, its handles are closed and   *)
(* the job object takes the process with it.                               *)
(*                                                                         *)
(* The registry itself is JobManager's subject: here it is `listed`, and   *)
(* a transition by id reaches the job as long as it is listed.  Of the     *)
(* output pumps, and of the other jobs of the session, this module knows   *)
(* that they fill the frame channel (ChannelFills).                        *)
(***************************************************************************)
EXTENDS JobState

CONSTANT None

Codes == {"own",      \* the process's own exit code
          "1",        \* the code terminate_job passes
          "closed",   \* the code of a process that died with its job object
          "-1"}       \* a process's own code -1, or nobody knows the code

ASSUME NoneAssumption == None \notin Codes

VARIABLES
  state, token,       \* JobHandle.state, JobHandle.cancellation_token
  listed,             \* the job is in JobManager.jobs
  refs,               \* who holds an Arc<JobHandle>
  handles,            \* process_handle and job_object: "unset", "open", "closed"
  proc, code,         \* the process (external) and its exit code; "stray": it
                      \* runs outside the job object and nobody knows it
  at,                 \* where each task is
  exit_code, result,  \* what the exit waiter, and its blocking thread, learnt
  session, frames     \* the frame channel: "up", "full", or "gone" with its
                      \* receiver; the control frames of this job put into it

regVars == <<state, token, listed>>
procVars == <<refs, handles, proc, code>>
codeVars == <<exit_code, result>>
linkVars == <<session, frames>>
vars == <<regVars, procVars, at, codeVars, linkVars>>

Alive == proc \in {"running", "terminating"}

-----------------------------------------------------------------------------
(* handle_run has called create_job and holds its result.                  *)
Init ==
  /\ state = "Created" /\ token = FALSE /\ listed = TRUE
  /\ refs = {"map", "run"}
  /\ handles = "unset" /\ proc = "none" /\ code = None
  /\ at = [run |-> "ack",            \* handle_run
           waiter |-> "off",         \* the task that waits for the exit
           thread |-> "off",         \* the thread of wait_for_process_exit
           monitor |-> "off",        \* monitor_timeout
           canceller |-> "off",      \* a cancel_job
           reaper |-> "off"]         \* a cleanup_job of the cleanup or stop path
  /\ exit_code = None /\ result = None
  /\ session = "up" /\ frames = {}

Goto(task, label) == at' = [at EXCEPT ![task] = label]
Step(task, from, to) == at[task] = from /\ Goto(task, to)

(* transition_state by id: refused, and nothing changes, when the job is   *)
(* not listed or the transition is not allowed.                            *)
Allowed(new) == listed /\ CanTransitionTo(state, new)
TryTransition(new) ==
  /\ state' = IF Allowed(new) THEN new ELSE state
  /\ UNCHANGED <<token, listed>>

(* A bug: Drop closes the process handle only.                             *)
LastDroppedNoKill == handles' = "closed" /\ UNCHANGED <<proc, code>>

(* Drop for JobHandle closes the process handle, then the job object, the  *)
(* last handle to it: KILL_ON_JOB_CLOSE (external) takes the process.      *)
LastDropped ==
  /\ handles' = "closed"
  /\ IF proc = "running"
       THEN proc' = "terminating" /\ code' = "closed"
       ELSE UNCHANGED <<proc, code>>

(* The Arcs held become `held`; without the last one the handle is dropped.*)
Hold(held) ==
  /\ refs' = held
  /\ IF held = {} /\ handles = "open"
       THEN LastDropped
       ELSE UNCHANGED <<handles, proc, code>>

(* frame_tx.send(frame).await: waits while the channel is full, and fails  *)
(* when the writer task, and with it the receiver, is gone.                *)
Send(frame) ==
  /\ session # "full"
  /\ frames' = IF session = "up" THEN frames \union {frame} ELSE frames
  /\ UNCHANGED session

-----------------------------------------------------------------------------
(* handle_run                                                              *)

(* The `?` after an error returns from handle_run and ends the session.    *)
RunFails ==
  /\ Goto("run", "done")
  /\ session' = "gone"
  /\ Hold(refs \ {"run"})
  /\ UNCHANGED frames

RunAck ==
  /\ at.run = "ack"
  /\ \/ session = "up" /\ Send("RUN_ACK") /\ Goto("run", "starting") /\ UNCHANGED procVars
     \/ session = "gone" /\ RunFails
  /\ UNCHANGED <<regVars, codeVars>>

RunTransition(from, new, to) ==
  /\ at.run = from
  /\ TryTransition(new)
  /\ IF Allowed(new)
       THEN Goto("run", to) /\ UNCHANGED <<procVars, linkVars>>
       ELSE RunFails
  /\ UNCHANGED codeVars

RunStarting == RunTransition("starting", "Starting", "launch")

(* ProcessLauncher::launch, and the two SafeHandles set.  It fails without *)
(* a process or, when AssignProcessToJobObject fails, with one that runs   *)
(* and whose handles nobody keeps.                                         *)
RunLaunch ==
  /\ \/ Step("run", "launch", "running") /\ proc' = "running" /\ handles' = "open"
     \/ Step("run", "launch", "failed") /\ proc' \in {"none", "stray"} /\ UNCHANGED handles
  /\ UNCHANGED <<regVars, refs, code, codeVars, linkVars>>

RunRunning == RunTransition("running", "Running", "spawn")

(* Two bugs: the monitor is given the raw handles, not an Arc; nobody      *)
(* waits for the process of a client that has gone.                        *)
SpawnHoldersNoMonitor(timeout) == {"waiter"}
WaiterSpawnedIfConnected == IF session = "gone" THEN "off" ELSE "start"

SpawnHolders(timeout) == IF timeout THEN {"waiter", "monitor"} ELSE {"waiter"}
WaiterSpawned == "start"

(* The monitor and the waiter are spawned, each with an Arc of its own; a  *)
(* job without a timeout has a monitor that returns at once.               *)
RunSpawn ==
  /\ at.run = "spawn"
  /\ \E timeout \in BOOLEAN :
       /\ at' = [at EXCEPT !.run = "done", !.waiter = WaiterSpawned,
                           !.monitor = IF timeout THEN "check" ELSE "done"]
       /\ Hold((refs \ {"run"}) \union SpawnHolders(timeout))
  /\ UNCHANGED <<regVars, codeVars, linkVars>>

(* The launch failed: Failed, an ERROR frame, and cleanup_job.             *)
RunFailed ==
  /\ Step("run", "failed", "error")
  /\ TryTransition("Failed")
  /\ UNCHANGED <<procVars, codeVars, linkVars>>

RunError ==
  /\ Step("run", "error", "cleanup")
  /\ Send("ERROR")
  /\ UNCHANGED <<regVars, procVars, codeVars>>

RunCleanup ==
  /\ Step("run", "cleanup", "remove")
  /\ token' = (token \/ listed)
  /\ UNCHANGED <<state, listed, procVars, codeVars, linkVars>>

RunRemove ==
  /\ Step("run", "remove", "done")
  /\ listed' = FALSE
  /\ Hold(refs \ {"run", "map"})
  /\ UNCHANGED <<state, token, codeVars, linkVars>>

Run ==
  \/ RunAck \/ RunStarting \/ RunLaunch \/ RunRunning \/ RunSpawn
  \/ RunFailed \/ RunError \/ RunCleanup \/ RunRemove

-----------------------------------------------------------------------------
(* The exit waiter and wait_for_process_exit                               *)

WaiterStart ==
  /\ at.waiter = "start"
  /\ at' = [at EXCEPT !.waiter = "wait", !.thread = "loop"]
  /\ UNCHANGED <<regVars, procVars, codeVars, linkVars>>

(* select!: the thread's result or the token, whichever is there; nothing  *)
(* stops the thread when the token wins.  A JoinError would give -1 too:   *)
(* the closure does not panic, and only the end of the runtime, which ends *)
(* the waiter with it, can keep it from running.                           *)
WaiterExit ==
  /\ Step("waiter", "wait", "exiting")
  /\ \/ at.thread = "ended" /\ exit_code' = result
     \/ token /\ exit_code' = "-1"
  /\ UNCHANGED <<regVars, procVars, result, linkVars>>

WaiterExiting ==
  /\ Step("waiter", "exiting", "send")
  /\ TryTransition("Exiting")
  /\ UNCHANGED <<procVars, codeVars, linkVars>>

(* A bug: no EXIT frame without an exit code.                              *)
SendExitIfKnown == IF exit_code = "-1" THEN UNCHANGED linkVars ELSE Send("EXIT")

SendExit == Send("EXIT")

WaiterSend ==
  /\ Step("waiter", "send", "completing")
  /\ SendExit
  /\ UNCHANGED <<regVars, procVars, codeVars>>

WaiterComplete ==
  /\ Step("waiter", "completing", "done")
  /\ TryTransition("Completed")
  /\ Hold(refs \ {"waiter"})
  /\ UNCHANGED <<codeVars, linkVars>>

Waiter == WaiterStart \/ WaiterExit \/ WaiterExiting \/ WaiterSend \/ WaiterComplete

(* The blocking thread waits a second at a time.  A wait that has begun    *)
(* sees the process exit even if the handle is closed meanwhile; on a      *)
(* closed handle no new wait begins, and the loop goes round at once.      *)
ThreadWait ==
  /\ Step("thread", "loop", "waiting")
  /\ handles = "open"
  /\ UNCHANGED <<regVars, procVars, codeVars, linkVars>>

ThreadWaitTimeout ==
  /\ Step("thread", "waiting", "loop")
  /\ Alive
  /\ UNCHANGED <<regVars, procVars, codeVars, linkVars>>

(* A bug: every return of WaitForSingleObject is taken for an exit.        *)
SignaledOrTimeout == proc # "none"
(* A bug: an exit code that looks like STILL_ACTIVE keeps the loop going.  *)
SignaledUnlessStillActive == proc = "exited" /\ code # "own"

Signaled == proc = "exited"

(* GetExitCodeProcess may fail, and fails on a closed handle.              *)
ThreadSignaled ==
  /\ Step("thread", "waiting", "ended")
  /\ Signaled
  /\ result' \in IF handles = "open" THEN {code, "-1"} ELSE {"-1"}
  /\ UNCHANGED <<regVars, procVars, exit_code, linkVars>>

(* Once closed, the handle's value may be given to another object: a wait  *)
(* on that one ends the loop with whatever it finds.                       *)
ThreadMisled ==
  /\ Step("thread", "loop", "ended")
  /\ handles = "closed"
  /\ result' \in Codes
  /\ UNCHANGED <<regVars, procVars, exit_code, linkVars>>

Thread == ThreadWait \/ ThreadSignaled

-----------------------------------------------------------------------------
(* monitor_timeout and terminate_job                                       *)

(* A bug: the Arc is not released.                                         *)
MonitorReturnLeak(from) == Step("monitor", from, "done") /\ UNCHANGED procVars

MonitorReturn(from) == Step("monitor", from, "done") /\ Hold(refs \ {"monitor"})

MonitorCheck ==
  /\ \/ (IsTerminal(state) \/ token) /\ MonitorReturn("check")
     \/ /\ ~IsTerminal(state) /\ ~token
        /\ Step("monitor", "check", "timed_out")   \* start.elapsed() >= timeout
        /\ UNCHANGED procVars
  /\ UNCHANGED <<regVars, codeVars, linkVars>>

MonitorTimedOut ==
  /\ Step("monitor", "timed_out", "cancel")
  /\ TryTransition("TimedOut")
  /\ UNCHANGED <<procVars, codeVars, linkVars>>

MonitorCancel ==
  /\ Step("monitor", "cancel", "kill")
  /\ token' = TRUE
  /\ UNCHANGED <<state, listed, procVars, codeVars, linkVars>>

(* A kill (external): the process is on its way out, if it still runs.     *)
Kill ==
  IF proc = "running"
    THEN proc' = "terminating" /\ code' = "1"
    ELSE UNCHANGED <<proc, code>>

(* TerminateJobObject works, or fails and the fallback is next.            *)
MonitorKill ==
  /\ \/ Step("monitor", "kill", "await") /\ Kill
     \/ Step("monitor", "kill", "fallback") /\ UNCHANGED <<proc, code>>
  /\ UNCHANGED <<regVars, refs, handles, codeVars, linkVars>>

(* wait_for_exit_timeout: the process has exited, or 5 seconds are over.   *)
MonitorAwait ==
  /\ \/ proc = "exited" /\ MonitorReturn("await")
     \/ Alive /\ Step("monitor", "await", "fallback") /\ UNCHANGED procVars
  /\ UNCHANGED <<regVars, codeVars, linkVars>>

(* TerminateProcess, which may fail too; an error is only logged.          *)
MonitorFallback ==
  /\ Step("monitor", "fallback", "return")
  /\ \/ Kill
     \/ UNCHANGED <<proc, code>>
  /\ UNCHANGED <<regVars, refs, handles, codeVars, linkVars>>

MonitorEnd ==
  /\ MonitorReturn("return")
  /\ UNCHANGED <<regVars, codeVars, linkVars>>

Monitor ==
  \/ MonitorCheck \/ MonitorTimedOut \/ MonitorCancel \/ MonitorKill
  \/ MonitorAwait \/ MonitorFallback \/ MonitorEnd

-----------------------------------------------------------------------------
(* cancel_job, for the CANCEL frame of any client                          *)

CancelLookup ==
  /\ Step("canceller", "off", "token")
  /\ listed /\ ~IsTerminal(state)
  /\ Hold(refs \union {"canceller"})
  /\ UNCHANGED <<regVars, codeVars, linkVars>>

CancelToken ==
  /\ Step("canceller", "token", "transition")
  /\ token' = TRUE
  /\ UNCHANGED <<state, listed, procVars, codeVars, linkVars>>

CancelTransition ==
  /\ Step("canceller", "transition", "off")
  /\ TryTransition("Canceled")
  /\ Hold(refs \ {"canceller"})
  /\ UNCHANGED <<codeVars, linkVars>>

Cancel == CancelToken \/ CancelTransition

-----------------------------------------------------------------------------
(* cleanup_job, from cleanup_idle_jobs or force_cleanup_all                *)

ReapCancel ==
  /\ Step("reaper", "off", "remove")
  /\ listed
  /\ token' = TRUE
  /\ Hold(refs \union {"reaper"})
  /\ UNCHANGED <<state, listed, codeVars, linkVars>>

ReapRemove ==
  /\ Step("reaper", "remove", "off")
  /\ listed' = FALSE
  /\ Hold(refs \ {"reaper", "map"})
  /\ UNCHANGED <<state, token, codeVars, linkVars>>

-----------------------------------------------------------------------------
(* External: the process ends by itself or dies of a kill; other senders   *)
(* fill the channel and the writer task takes frames out of it; the client *)
(* goes away, after which the writer task is gone and sends fail.          *)

ProcExit ==
  /\ proc = "running"
  /\ proc' = "exited" /\ code' \in {"own", "-1"}
  /\ UNCHANGED <<regVars, refs, handles, at, codeVars, linkVars>>

(* Nobody sees a stray process end.                                        *)
StrayExit ==
  /\ proc = "stray"
  /\ proc' = "none"
  /\ UNCHANGED <<regVars, refs, handles, code, at, codeVars, linkVars>>

ProcDies ==
  /\ proc = "terminating"
  /\ proc' = "exited"
  /\ UNCHANGED <<regVars, refs, handles, code, at, codeVars, linkVars>>

Channel(from, to) ==
  /\ session \in from /\ session' = to
  /\ UNCHANGED <<regVars, procVars, at, codeVars, frames>>

ChannelFills == Channel({"up"}, "full")
WriterTakes == Channel({"full"}, "up")
ClientGone == Channel({"up", "full"}, "gone")

Next ==
  \/ Run \/ Waiter \/ Thread \/ ThreadWaitTimeout \/ ThreadMisled \/ Monitor
  \/ CancelLookup \/ Cancel \/ ReapCancel \/ ReapRemove
  \/ ProcExit \/ ProcDies \/ StrayExit \/ ChannelFills \/ WriterTakes \/ ClientGone

Spec == Init /\ [][Next]_vars

(* The runtime polls every task that can go on, a channel that empties     *)
(* again and again lets every sender in (its waiters are served in order), *)
(* the kernel lets a killed process die, and the job manager's cleanup     *)
(* takes every job that has ended (JobManager's EndedIsReaped).            *)
FairSpec ==
  /\ Spec
  /\ WF_vars(Run) /\ WF_vars(Waiter) /\ WF_vars(Thread) /\ WF_vars(Monitor)
  /\ SF_vars(RunAck) /\ SF_vars(RunError) /\ SF_vars(WaiterSend)
  /\ WF_vars(Cancel) /\ WF_vars(ReapRemove)
  /\ WF_vars(IsTerminal(state) /\ ReapCancel)
  /\ WF_vars(ProcDies)

-----------------------------------------------------------------------------
(* Properties                                                              *)

Holders == {"map", "run", "waiter", "monitor", "canceller", "reaper"}

(* Every variable has its type, and an Arc is held by exactly those that   *)
(* are in the middle of using the job.                                     *)
TypeOK ==
  /\ state \in JobStates /\ token \in BOOLEAN /\ listed \in BOOLEAN
  /\ handles \in {"unset", "open", "closed"}
  /\ proc \in {"none", "running", "terminating", "exited", "stray"}
  /\ code \in Codes \union {None}
  /\ at \in [run: {"ack", "starting", "launch", "running", "spawn", "failed", "error",
                   "cleanup", "remove", "done"},
             waiter: {"off", "start", "wait", "exiting", "send", "completing", "done"},
             thread: {"off", "loop", "waiting", "ended"},
             monitor: {"off", "check", "timed_out", "cancel", "kill", "await",
                       "fallback", "return", "done"},
             canceller: {"off", "token", "transition"},
             reaper: {"off", "remove"}]
  /\ exit_code \in Codes \union {None} /\ result \in Codes \union {None}
  /\ session \in {"up", "full", "gone"}
  /\ frames \subseteq {"RUN_ACK", "ERROR", "EXIT"}
  /\ refs \subseteq Holders
  /\ "map" \in refs <=> listed
  /\ "run" \in refs <=> (at.run # "done")
  /\ "waiter" \in refs <=> (at.waiter \notin {"off", "done"})
  /\ "monitor" \in refs <=> (at.monitor \notin {"off", "done"})
  /\ "canceller" \in refs <=> (at.canceller # "off")
  /\ "reaper" \in refs <=> (at.reaper # "off")

(* Whoever passes the raw handles to the system (the waiter when it starts *)
(* its thread, terminate_job) does so while they are open, in whatever     *)
(* order the tasks end and the job is cleaned up.                          *)
HandlesOpenInUse ==
  at.waiter \in {"start", "wait"} \/ at.monitor \in {"kill", "await", "fallback"}
    => handles = "open"

(* A process in its job object has an owner that will end it: its handles  *)
(* are open and somebody holds the job.  handle_run, wherever its `?`      *)
(* makes it return, never leaves a job that counts as running without the  *)
(* task that will report its end.  The one process without an owner is     *)
(* that of a launch that fails when it assigns the job object; its job     *)
(* never counts as running, completed or timed out.                        *)
NoOrphan ==
  /\ proc = "running" => handles = "open" /\ refs # {}
  /\ state \in {"Running", "Exiting"} /\ at.run = "done" => at.waiter # "off"
  /\ proc = "stray" => state \notin {"Running", "Exiting", "Completed", "TimedOut"}

(* An exit code other than -1 is reported only of a process that has       *)
(* exited, and is the code it exited with.  -1 is reported of a process    *)
(* that has exited (with that code, or one that could not be read) or of a *)
(* job that was cancelled: never of one left to run.  A timeout cancels    *)
(* the token before it kills with code 1, so that a job that has timed out *)
(* may be reported with -1 (ARCHITECTURE.md:333 says 1).                   *)
ExitCodeHonest ==
  exit_code # None =>
    IF exit_code = "-1" THEN token \/ proc = "exited"
                        ELSE proc = "exited" /\ exit_code = code

(* The premise of what follows, and not the code's to guarantee: a full    *)
(* channel is emptied.  The writer shares its synchronous handle with the  *)
(* request loop's ReadFile, so this takes a client that reads, and keeps   *)
(* sending frames (OutputPump's BusyClient), or one that goes away.  While *)
(* a client only waits, handle_run and the exit waiter stay in send() and  *)
(* keep their Arcs.                                                        *)
FramesGoOut == WF_vars(WriterTakes)

(* After a cancellation every task lets go of the job.                     *)
CancelReleases == FramesGoOut => (token ~> (refs \subseteq {"map"}))

(* When a job has ended while its process still runs (it was cancelled,    *)
(* say), the process is gone eventually: the last Arc is dropped.          *)
EndedStops ==
  FramesGoOut => ((IsTerminal(state) /\ proc = "running") ~> proc = "exited")

(* Every RUN that was acknowledged and whose job has ended is answered, by *)
(* EXIT or ERROR or by the end of the session.                             *)
Answered ==
  FramesGoOut =>
    (("RUN_ACK" \in frames /\ (IsTerminal(state) \/ token))
       ~> ({"EXIT", "ERROR"} \intersect frames # {} \/ session = "gone"))

(* The blocking thread of wait_for_process_exit sees the process exit,     *)
(* however the tasks interleave, unless the job was cancelled: only then   *)
(* can the handle be closed under it, and the loop goes round for ever.    *)
WaitEnds ==
  (at.thread \in {"loop", "waiting"} /\ proc = "exited")
    ~> (at.thread = "ended" \/ (token /\ handles = "closed"))

=============================================================================
