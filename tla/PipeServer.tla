----------------------------- MODULE PipeServer -----------------------------
(***************************************************************************)
(* src/pipe_server.rs: the listener, the connection permits, the pipe      *)
(* instances and the sessions of their clients.  ServiceHost runs it.      *)
(*                                                                         *)
(* A pipe instance is a value of Instances, which can be used again after  *)
(* CloseHandle.  What a RUN does to its job is the subject of JobLifecycle *)
(* and OutputPump; here a job is in the registry (`jobs`), its tasks hold  *)
(* senders of its session's frame channel (`sender`), and it has threads   *)
(* of the blocking pool (`threads`).  CANCEL, WINDOW_UPDATE and frames     *)
(* nobody expects touch the job alone, as does a RUN whose launch fails.   *)
(* Clients and named pipes are external.                                   *)
(*                                                                         *)
(* The task of an instance has a thread of its own; the listener, the      *)
(* writer tasks and the tasks of the jobs share the Workers threads of the *)
(* runtime, and a writer that is inside WriteFile keeps one of them.       *)
(***************************************************************************)
EXTENDS Integers, FiniteSets

CONSTANTS
  Instances,       \* pipe instances
  Jobs,            \* jobs; one that is over may stand for a later one
  None,            \* no session
  MaxConnections,  \* MAX_CONNECTIONS, the permits of connection_semaphore
  Workers          \* the worker threads of the tokio runtime

ASSUME PipeAssumption ==
  /\ IsFiniteSet(Instances) /\ IsFiniteSet(Jobs) /\ None \notin Instances
  /\ MaxConnections \in Nat \ {0} /\ Cardinality(Instances) > MaxConnections
  /\ Workers \in Nat \ {0}

VARIABLES
  listener,    \* start_listening: "off", "create", "acquire" or "ended"
  aborted,     \* its task has been aborted
  permits,     \* the free permits
  at,          \* where the instance, or the task that serves it, is
  far,         \* its far end: "no" client yet, a client that is "up" or "gone"
  writing,     \* the instances with a WriteFile of the writer task under way
  jobs,        \* the jobs listed
  sender,      \* per job: the session whose channel its tasks can send to, or
               \* holds frames of the job
  stuck,       \* the jobs with a pump that waits for the window
  threads      \* the jobs with blocking threads: the exit wait, a pump's read

listenVars == <<listener, aborted, permits>>
linkVars == <<far, writing>>
sessionVars == <<at, linkVars>>
taskEndVars == <<stuck, threads>>
jobVars == <<jobs, sender, taskEndVars>>
pipeVars == <<listenVars, sessionVars, jobVars>>

PipeInit ==
  /\ listener = "off" /\ aborted = FALSE /\ permits = MaxConnections
  /\ at = [s \in Instances |-> "none"] /\ far = [s \in Instances |-> "no"]
  /\ writing = {}
  /\ jobs = {} /\ sender = [j \in Jobs |-> None]
  /\ stuck = {} /\ threads = {}

(* Some worker thread is not inside WriteFile: tasks are polled and timers *)
(* go off.                                                                 *)
FreeWorker == Cardinality(writing) < Workers

Goto(s, from, to) == at[s] = from /\ at' = [at EXCEPT ![s] = to]

-----------------------------------------------------------------------------
(* start_listening                                                         *)

Unused == {s \in Instances : at[s] = "none"}

(* A client can connect from here on.                                      *)
CreatePipeInstance ==
  /\ listener = "create"
  /\ Unused # {}
  /\ at' = [at EXCEPT ![CHOOSE s \in Unused : TRUE] = "created"]
  /\ listener' = "acquire"
  /\ UNCHANGED <<aborted, permits, linkVars, jobVars>>

(* The `?` ends the listener, and nobody starts it again.                  *)
CreatePipeInstanceFails ==
  /\ listener = "create"
  /\ listener' = "ended"
  /\ UNCHANGED <<aborted, permits, sessionVars, jobVars>>

(* A bug: the permit is not waited for.                                    *)
PermitFreeAlways == TRUE
(* A bug: one permit is never given out.                                   *)
PermitFreeButOne == permits > 1

PermitFree == permits > 0

(* acquire_owned, and the blocking task that serves the instance.          *)
Acquire ==
  /\ listener = "acquire"
  /\ PermitFree
  /\ permits' = permits - 1
  /\ \E s \in Instances : Goto(s, "created", "connect")
  /\ listener' = "create"
  /\ UNCHANGED <<aborted, linkVars, jobVars>>

(* An abort takes effect where the task awaits; the instance stays.        *)
ListenerAborted ==
  /\ aborted /\ listener = "acquire"
  /\ listener' = "ended"
  /\ UNCHANGED <<aborted, permits, sessionVars, jobVars>>

-----------------------------------------------------------------------------
(* The task of an instance                                                 *)

(* ConnectNamedPipe, which waits for a client or fails.  handle_client     *)
(* follows either way.                                                     *)
Connect(s) ==
  /\ far[s] # "no"
  /\ Goto(s, "connect", "hello")
  /\ UNCHANGED <<listenVars, linkVars, jobVars>>

ConnectFails(s) ==
  /\ far[s] = "no"
  /\ Goto(s, "connect", "hello")
  /\ UNCHANGED <<listenVars, linkVars, jobVars>>

(* A HELLO of the right version, answered with HELLO_ACK.                  *)
Hello(s) ==
  /\ far[s] = "up"
  /\ Goto(s, "hello", "serving")
  /\ UNCHANGED <<listenVars, linkVars, jobVars>>

(* Anything else is an error: bytes that are no frame, another frame, a    *)
(* payload that is no JSON, another version (which ERROR is sent for).     *)
HelloRefused(s) ==
  /\ far[s] = "up"
  /\ Goto(s, "hello", "cleanup")
  /\ UNCHANGED <<listenVars, linkVars, jobVars>>

(* A bug: the error of a read is taken for "no frame yet".                 *)
ReadErrorNever(s) == FALSE

ReadError(s) == far[s] # "up"

HelloLost(s) ==
  /\ ReadError(s)
  /\ Goto(s, "hello", "cleanup")
  /\ UNCHANGED <<listenVars, linkVars, jobVars>>

(* Nothing is left of the job before.                                      *)
Fresh(j) == j \notin jobs \union stuck \union threads /\ sender[j] = None

(* process_requests.  RUN, which may also be read after its client has     *)
(* gone: create_job, and the tasks and threads of the job.                 *)
Run(s, j) ==
  /\ at[s] = "serving"
  /\ Fresh(j)
  /\ jobs' = jobs \union {j}
  /\ sender' = [sender EXCEPT ![j] = s]
  /\ threads' = threads \union {j}
  /\ UNCHANGED <<listenVars, sessionVars, stuck>>

(* Without the writer task the RUN_ACK fails: the `?` ends the session and *)
(* leaves the job to the cleanup.                                          *)
RunMuted(s, j) ==
  /\ Goto(s, "muted", "cleanup")
  /\ Fresh(j)
  /\ jobs' = jobs \union {j}
  /\ UNCHANGED <<listenVars, linkVars, sender, taskEndVars>>

(* The request loop is over: drop(frame_tx), and the writer is waited for. *)
LoopEnds(s) ==
  /\ Goto(s, "serving", "draining") \/ Goto(s, "muted", "cleanup")
  /\ UNCHANGED <<listenVars, linkVars, jobVars>>

(* GOODBYE, the `?` of handle_run (a payload that is no JSON, too many     *)
(* jobs), bytes that are no frame.                                         *)
RequestsEnd(s) == far[s] = "up" /\ LoopEnds(s)

(* The read fails.  (The arm for ERROR_BROKEN_PIPE compares an HRESULT     *)
(* with a Win32 code and never matches: the loop ends with an error.)      *)
RequestsLost(s) == ReadError(s) /\ LoopEnds(s)

-----------------------------------------------------------------------------
(* The writer task                                                         *)

(* WriteFile waits: for the ReadFile of the request loop, which has the    *)
(* same synchronous handle, or for a client that does not read.            *)
WriteWaits(s) ==
  /\ FreeWorker
  /\ s \notin writing /\ far[s] = "up" /\ \E j \in Jobs : sender[j] = s
  /\ writing' = writing \union {s}
  /\ UNCHANGED <<listenVars, at, far, jobVars>>

(* External: the client reads, and sends the frame ReadFile waits for.     *)
ClientTakes(s) ==
  /\ s \in writing /\ far[s] = "up"
  /\ writing' = writing \ {s}
  /\ UNCHANGED <<listenVars, at, far, jobVars>>

(* A frame cannot be encoded or written: the writer ends, and the channel  *)
(* is gone for the senders.  The session reads on, or ends.                *)
WriterBreaks(s) ==
  /\ s \in writing \/ \E j \in Jobs : sender[j] = s
  /\ Goto(s, "serving", "muted") \/ Goto(s, "draining", "cleanup")
  /\ writing' = writing \ {s}
  /\ sender' = [j \in Jobs |-> IF sender[j] = s THEN None ELSE sender[j]]
  /\ UNCHANGED <<listenVars, far, jobs, taskEndVars>>

(* A bug: the writer task is not waited for.                               *)
WriterDoneAtOnce(s) == TRUE

(* The writer task ends when the last sender, and the last frame, is gone. *)
WriterDone(s) == FreeWorker /\ s \notin writing /\ \A j \in Jobs : sender[j] # s

DrainDone(s) ==
  /\ WriterDone(s)
  /\ Goto(s, "draining", "cleanup")
  /\ UNCHANGED <<listenVars, linkVars, jobVars>>

(* A bug: the permit of a client that has left is kept.                    *)
PermitsAfterForgotten(s) == IF far[s] = "gone" THEN permits ELSE permits + 1

PermitsAfter(s) == permits + 1

(* DisconnectNamedPipe, CloseHandle, drop(permit).                         *)
Cleanup(s) ==
  /\ Goto(s, "cleanup", "none")
  /\ far' = [far EXCEPT ![s] = "no"]
  /\ permits' = PermitsAfter(s)
  /\ UNCHANGED <<listener, aborted, writing, jobVars>>

-----------------------------------------------------------------------------
(* The tasks of a job                                                      *)

(* They drop their senders and their frames are out: the process has       *)
(* exited, or the job was cancelled, which cleanup_job does as well.       *)
JobTasksEnd(j) ==
  /\ FreeWorker
  /\ sender[j] # None /\ sender[j] \notin writing /\ j \notin stuck
  /\ sender' = [sender EXCEPT ![j] = None]
  /\ UNCHANGED <<listenVars, sessionVars, jobs, taskEndVars>>

(* The output exceeds the window: a pump waits for a notification that     *)
(* nobody sends, exit and cancellation or not, and keeps its sender.       *)
PumpStuck(j) ==
  /\ FreeWorker
  /\ sender[j] # None /\ j \notin stuck
  /\ stuck' = stuck \union {j}
  /\ UNCHANGED <<listenVars, sessionVars, jobs, sender, threads>>

(* The blocking threads return: the process has exited, and so has every   *)
(* process that can write to its output; and the exit wait did not lose    *)
(* its handle (JobLifecycle's WaitEnds).                                   *)
ThreadsEnd(j) ==
  /\ j \in threads
  /\ threads' = threads \ {j}
  /\ UNCHANGED <<listenVars, sessionVars, jobs, sender, stuck>>

(* External: the client, which can connect to every instance that has none.*)
ClientConnect(s) ==
  /\ at[s] \in {"created", "connect", "hello"} /\ far[s] = "no"
  /\ far' = [far EXCEPT ![s] = "up"]
  /\ UNCHANGED <<listenVars, at, writing, jobVars>>

ClientLeave(s) ==
  /\ far[s] = "up"
  /\ far' = [far EXCEPT ![s] = "gone"]
  /\ UNCHANGED <<listenVars, at, writing, jobVars>>

Listen == FreeWorker /\ (CreatePipeInstance \/ Acquire \/ ListenerAborted)

(* What the task of an instance does without its client.                   *)
Serve(s) ==
  \/ Connect(s) \/ HelloLost(s) \/ RequestsLost(s) \/ DrainDone(s) \/ Cleanup(s)

Request(s) == Hello(s) \/ HelloRefused(s) \/ RequestsEnd(s)

Write(s) == WriteWaits(s) \/ ClientTakes(s) \/ WriterBreaks(s)

PipeNext ==
  \/ Listen \/ (FreeWorker /\ CreatePipeInstanceFails)
  \/ \E s \in Instances :
       \/ Serve(s) \/ Request(s) \/ Write(s) \/ ConnectFails(s)
       \/ ClientConnect(s) \/ ClientLeave(s)
  \/ \E j \in Jobs : JobTasksEnd(j) \/ PumpStuck(j) \/ ThreadsEnd(j)

-----------------------------------------------------------------------------
(* Properties                                                              *)

PipeTypeOK ==
  /\ listener \in {"off", "create", "acquire", "ended"} /\ aborted \in BOOLEAN
  /\ permits \in 0 .. MaxConnections
  /\ at \in [Instances -> {"none", "created", "connect", "hello", "serving",
                           "muted", "draining", "cleanup"}]
  /\ far \in [Instances -> {"no", "up", "gone"}]
  /\ writing \subseteq Instances
  /\ jobs \subseteq Jobs /\ stuck \subseteq Jobs /\ threads \subseteq Jobs
  /\ sender \in [Jobs -> Instances \union {None}]

Served == {s \in Instances : at[s] \notin {"none", "created"}}

(* On every path a session can take, each permit is either free or held by *)
(* the task of one instance, and at most one instance is without one: no   *)
(* error leaks a permit, and the service has at most MaxConnections + 1    *)
(* instances.                                                              *)
PermitsKept ==
  /\ permits + Cardinality(Served) = MaxConnections
  /\ \A s, t \in Instances : at[s] = "created" /\ at[t] = "created" => s = t

(* An instance is disconnected and closed only after its writer task has   *)
(* ended: as long as a write is under way, or a task can send to the       *)
(* channel of a session, the handle that the frames go to is that          *)
(* session's, and not that of a client who came later and got the same     *)
(* handle value.                                                           *)
SendersServed ==
  /\ \A j \in Jobs : sender[j] # None => at[sender[j]] \in {"serving", "draining"}
  /\ \A s \in writing : at[s] \in {"serving", "draining"}

=============================================================================
