---------------------------- MODULE ServiceHost -----------------------------
(***************************************************************************)
(* src/service_host.rs and src/main.rs around the pipe server: the start   *)
(* and the end of the process, as a Windows service and on a console.      *)
(*                                                                         *)
(* The tasks of cleanup_idle_jobs and of FileIpcServer::run are here only  *)
(* as long as they live; JobManager and FileIpc are about what they do.    *)
(* The service control manager, the console and tokio are external: a      *)
(* receiver of the watch channel sees a change as long as the version it   *)
(* has seen is not the channel's, a clone has seen what its original has,  *)
(* timers go off when a worker thread is free, and a runtime that is       *)
(* dropped drops its tasks and waits for its threads.                      *)
(***************************************************************************)
EXTENDS PipeServer

VARIABLES
  mode,            \* "service" (--service) or "console"
  host,            \* where run_service and ServiceHost::run are
  status,          \* reported to the service control manager
  version, seen,   \* of the shutdown channel; per receiver, the version seen
  cleaner, ipc,    \* the two other tasks: "none", "up" or "ended"
  todo,            \* the keys force_cleanup_all collected that are to come
  main             \* the process: "up" or "exited"

taskVars == <<cleaner, ipc>>
signalVars == <<version, seen>>
hostVars == <<mode, host, status, signalVars, taskVars, todo, main>>
vars == <<pipeVars, hostVars>>

Receivers == {"ipc", "cleaner", "host"}

Init ==
  /\ PipeInit
  /\ \/ mode = "service" /\ host = "register"
     \/ mode = "console" /\ host = "pipe"
  /\ status = "start" /\ version = 0 /\ seen = [r \in Receivers |-> None]
  /\ cleaner = "none" /\ ipc = "none"
  /\ todo = {} /\ main = "up"

Step(from, to) == host = from /\ host' = to

-----------------------------------------------------------------------------
(* run_service, before `run`                                               *)

Register ==
  /\ Step("register", "report")
  /\ UNCHANGED <<pipeVars, status, signalVars, taskVars, todo, main, mode>>

ReportRunning ==
  /\ Step("report", "runtime")
  /\ status' = "running"
  /\ UNCHANGED <<pipeVars, signalVars, taskVars, todo, main, mode>>

NewRuntime ==
  /\ Step("runtime", "pipe")
  /\ UNCHANGED <<pipeVars, status, signalVars, taskVars, todo, main, mode>>

(* Each of the three can fail.  my_service_main logs the error and         *)
(* returns: what has been reported stays.                                  *)
StartFails ==
  /\ host \in {"register", "report", "runtime"}
  /\ host' = "failed"
  /\ UNCHANGED <<pipeVars, status, signalVars, taskVars, todo, main, mode>>

-----------------------------------------------------------------------------
(* ServiceHost::run                                                        *)

(* A bug: the receiver is subscribed to the sender, instead of cloned.     *)
CloneSubscribed(r) == [seen EXCEPT ![r] = version]

(* self.shutdown_rx is never waited on: it has seen version 0.             *)
Clone(r) == [seen EXCEPT ![r] = 0]

SpawnPipeServer ==
  /\ Step("pipe", "ipc")
  /\ listener' = "create"
  /\ UNCHANGED <<aborted, permits, sessionVars, jobVars,
                 status, signalVars, taskVars, todo, main, mode>>

SpawnFileIpc ==
  /\ Step("ipc", "cleaner")
  /\ seen' = Clone("ipc")
  /\ ipc' = "up"
  /\ UNCHANGED <<pipeVars, status, version, cleaner, todo, main, mode>>

SpawnCleaner ==
  /\ Step("cleaner", "select")
  /\ seen' = Clone("cleaner")
  /\ cleaner' = "up"
  /\ UNCHANGED <<pipeVars, status, version, ipc, todo, main, mode>>

Select ==
  /\ Step("select", "wait")
  /\ seen' = Clone("host")
  /\ UNCHANGED <<pipeVars, status, version, taskVars, todo, main, mode>>

Changed(r) == seen[r] # version

SignalReceived ==
  /\ Step("wait", "collect")
  /\ Changed("host")
  /\ seen' = [seen EXCEPT !["host"] = version]
  /\ UNCHANGED <<pipeVars, status, version, taskVars, todo, main, mode>>

(* tokio::signal::ctrl_c() takes Ctrl+C over for good, but not before the  *)
(* select: until then it ends the process.  It is not sent on to the       *)
(* other tasks.                                                            *)
CtrlC ==
  /\ mode = "console"
  /\ \/ Step("wait", "collect") /\ UNCHANGED main
     \/ /\ host \in {"pipe", "ipc", "cleaner", "select"}
        /\ main' = "exited" /\ UNCHANGED host
  /\ UNCHANGED <<pipeVars, status, signalVars, taskVars, todo, mode>>

(* force_cleanup_all: the keys, then cleanup_job one by one, an error      *)
(* ignored, while sessions start jobs and the cleanup task takes them.     *)
Collect ==
  /\ Step("collect", "cleanup")
  /\ todo' = jobs
  /\ UNCHANGED <<pipeVars, status, signalVars, taskVars, main, mode>>

CleanupJob(j) ==
  /\ host = "cleanup" /\ j \in todo
  /\ todo' = todo \ {j}
  /\ jobs' = jobs \ {j}
  /\ UNCHANGED <<listenVars, sessionVars, sender, taskEndVars,
                 host, status, signalVars, taskVars, main, mode>>

CleanupDone ==
  /\ todo = {}
  /\ Step("cleanup", "sleep")
  /\ UNCHANGED <<pipeVars, status, signalVars, taskVars, todo, main, mode>>

(* After the two seconds the three tasks are aborted: not the blocking     *)
(* tasks of the instances, nor what they have spawned.  The timer takes a  *)
(* worker thread.                                                          *)
Abort ==
  /\ FreeWorker
  /\ Step("sleep", "returned")
  /\ aborted' = TRUE
  /\ cleaner' = "ended" /\ ipc' = "ended"
  /\ UNCHANGED <<listener, permits, sessionVars, jobVars,
                 status, signalVars, todo, main, mode>>

-----------------------------------------------------------------------------
(* After `run`                                                             *)

(* The error of set_service_status is ignored.                             *)
ReportStopped ==
  /\ mode = "service"
  /\ \/ Step("returned", "stopped") /\ status' = "stopped"
     \/ Step("returned", "unreported") /\ UNCHANGED status
  /\ UNCHANGED <<pipeVars, signalVars, taskVars, todo, main, mode>>

(* The end of `main` drops the runtime of #[tokio::main], and with it      *)
(* every task but the blocking ones and those inside WriteFile.            *)
(* (run_service drops its own once it has reported, when the process is    *)
(* about to end anyway.)                                                   *)
DropRuntime ==
  /\ mode = "console" /\ Step("returned", "dropped")
  /\ listener' = "ended"
  /\ sender' = [j \in Jobs |-> None] /\ stuck' = {}
  /\ UNCHANGED <<aborted, permits, sessionVars, jobs, threads,
                 status, signalVars, taskVars, todo, main, mode>>

(* Those of the instances (their workers inside WriteFile among them), of  *)
(* wait_for_process_exit and of the pumps' reads.                          *)
BlockingThreads == Served \union threads

(* A service ends when it is reported as stopped: the dispatcher returns   *)
(* to main, whatever run_service still does.  On a console main drops the  *)
(* runtime first.                                                          *)
Exit ==
  /\ \/ mode = "service" /\ status = "stopped"
     \/ host = "dropped" /\ BlockingThreads = {}
  /\ main' = "exited"
  /\ UNCHANGED <<pipeVars, host, status, signalVars, taskVars, todo, mode>>

-----------------------------------------------------------------------------
(* The tasks                                                               *)

(* cleanup_idle_jobs takes a job that is due.                              *)
CleanerSweeps(j) ==
  /\ FreeWorker /\ cleaner = "up"
  /\ j \in jobs
  /\ jobs' = jobs \ {j}
  /\ UNCHANGED <<listenVars, sessionVars, sender, taskEndVars, hostVars>>

CleanerEnds ==
  /\ FreeWorker /\ cleaner = "up" /\ Changed("cleaner")
  /\ cleaner' = "ended"
  /\ UNCHANGED <<pipeVars, host, status, signalVars, ipc, todo, main, mode>>

FileIpcEnds ==
  /\ FreeWorker /\ ipc = "up" /\ Changed("ipc")
  /\ ipc' = "ended"
  /\ UNCHANGED <<pipeVars, host, status, signalVars, cleaner, todo, main, mode>>

(* ensure_directories fails; nobody starts the task again.                 *)
FileIpcFails ==
  /\ FreeWorker /\ ipc = "up"
  /\ ipc' = "ended"
  /\ UNCHANGED <<pipeVars, host, status, signalVars, cleaner, todo, main, mode>>

(* The control handler: Stop and Shutdown, accepted while the service is   *)
(* reported as running.  A second one changes nothing more.                *)
Stop ==
  /\ status = "running" /\ version = 0
  /\ version' = 1
  /\ UNCHANGED <<pipeVars, host, status, seen, taskVars, todo, main, mode>>

Host ==
  \/ SpawnPipeServer \/ SpawnFileIpc \/ SpawnCleaner \/ Select
  \/ SignalReceived \/ Collect \/ CleanupDone \/ Abort
  \/ (\E j \in Jobs : CleanupJob(j))
  \/ Register \/ ReportRunning \/ NewRuntime \/ ReportStopped \/ DropRuntime

(* A RUN after the runtime is gone finds no channel and ends its session.  *)
(* A new job is none of those collected: its id is another.                *)
PipeStep ==
  /\ \/ PipeNext
     \/ /\ host # "dropped"
        /\ \E s \in Instances, j \in Jobs \ todo : Run(s, j) \/ RunMuted(s, j)
  /\ UNCHANGED hostVars

Next ==
  /\ main = "up"
  /\ \/ Host \/ StartFails \/ CtrlC \/ Stop \/ Exit
     \/ CleanerEnds \/ FileIpcEnds \/ FileIpcFails
     \/ (\E j \in Jobs : CleanerSweeps(j))
     \/ PipeStep

Spec == Init /\ [][Next]_vars

Live(A) == main = "up" /\ A
LivePipe(A) == main = "up" /\ A /\ UNCHANGED hostVars

(* The threads of the host and of the instances run.  The runtime polls    *)
(* its tasks and looks at its timers, if not before every write then again *)
(* and again, as long as a worker is free again and again: hence SF.  A    *)
(* write to a client that has gone fails.                                  *)
FairSpec ==
  /\ Spec
  /\ WF_vars(Live(Host)) /\ SF_vars(Live(Abort)) /\ WF_vars(Live(Exit))
  /\ SF_vars(LivePipe(Listen))
  /\ \A s \in Instances :
       /\ WF_vars(LivePipe(Serve(s))) /\ SF_vars(LivePipe(DrainDone(s)))
       /\ WF_vars(LivePipe(s \in writing /\ far[s] = "gone" /\ WriterBreaks(s)))

(* The premises of the liveness properties: none of them is the code's to  *)
(* guarantee.                                                              *)

(* A client that a write waits for reads, and sends a frame.               *)
ClientsTake == \A s \in Instances : WF_vars(LivePipe(ClientTakes(s)))

(* Clients come to every instance, and go once they are served.            *)
ClientsComeAndGo ==
  \A s \in Instances :
    /\ WF_vars(LivePipe(ClientConnect(s)))
    /\ WF_vars(LivePipe(s \in Served /\ ClientLeave(s)))

(* The commands end, after finitely many frames.                           *)
CommandsEnd == \A j \in Jobs : SF_vars(LivePipe(JobTasksEnd(j)))

(* The blocking threads of the jobs return.                                *)
ThreadsReturn == \A j \in Jobs : WF_vars(LivePipe(ThreadsEnd(j)))

-----------------------------------------------------------------------------
(* Properties                                                              *)

TypeOK ==
  /\ PipeTypeOK /\ mode \in {"service", "console"}
  /\ host \in {"register", "report", "runtime", "failed", "pipe", "ipc", "cleaner",
               "select", "wait", "collect", "cleanup", "sleep", "returned",
               "stopped", "unreported", "dropped"}
  /\ status \in {"start", "running", "stopped"}
  /\ version \in {0, 1} /\ seen \in [Receivers -> {0, 1, None}]
  /\ cleaner \in {"none", "up", "ended"} /\ ipc \in {"none", "up", "ended"}
  /\ todo \subseteq Jobs
  /\ main \in {"up", "exited"}

(* A Stop that comes any time after the service is reported as running,    *)
(* before `run` has made its receivers as well, ends the process, unless   *)
(* the start failed or the end cannot be reported.  It takes clients that  *)
(* the writers do not wait for: as many waiting clients as worker threads  *)
(* stop the timer of the two seconds.                                      *)
StopEnds ==
  ClientsTake => ((version = 1) ~> (main = "exited" \/ host \in {"failed", "unreported"}))

(* On a console, Ctrl+C ends the process if clients come to the instances  *)
(* that wait for one, and go, and the blocking threads of the jobs return: *)
(* nothing else ends the threads that #[tokio::main] waits for.            *)
CtrlCEnds ==
  ClientsComeAndGo /\ ThreadsReturn =>
    ((mode = "console" /\ host = "collect") ~> main = "exited")

(* A client beyond the limit is not rejected (as ARCHITECTURE.md:112       *)
(* says): it connects to the instance that has no permit.  It is served    *)
(* as soon as another session ends, if clients come to the other instances *)
(* as well and their commands end, until the shutdown ends the listener;   *)
(* unless a pump that is stuck on the window keeps a session, and with it  *)
(* the permit, for ever.                                                   *)
ConnectedIsServed ==
  ClientsComeAndGo /\ CommandsEnd =>
    \A s \in Instances :
      (at[s] = "created" /\ far[s] = "up")
        ~> (\/ at[s] # "created" \/ far[s] # "up" \/ aborted \/ main = "exited"
            \/ \E j \in stuck : sender[j] # None)

=============================================================================
