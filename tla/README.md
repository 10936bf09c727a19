# A verification project for the remote agent service

The agent is a Windows service that runs commands for its clients: a client connects to a named pipe, sends a
RUN frame, and receives the output of the process and its exit. This directory holds TLA+ models of its parts,
the configurations with which TLC checks them on small instances, and proofs checked by TLAPS. Source files are
named as in the repository (`src/job_manager.rs`). `PROJECT.json` maps every definition to the lines it models.

## 1. Inventory

| Component | State | Operations | Talks to |
|---|---|---|---|
| Job states (`job_manager.rs`) | the state of one job | `can_transition_to`, `is_terminal` | - |
| Job manager (`job_manager.rs`) | `jobs` (a DashMap from id to `Arc<JobHandle>`), `next_job_id`, `last_job_created`; per job a state, timestamps, handles, a cancellation token | `create_job`, `transition_state`, `cancel_job`, `cleanup_job`, `cleanup_idle_jobs`, `force_cleanup_all`, `update_activity` | called by every other task, concurrently |
| Pipe server (`pipe_server.rs`) | connection permits; per session a frame channel (256) and a writer task | `start_listening`, `handle_client`, `process_requests`, `handle_run` | job manager, launcher, spawns the tasks of a job |
| Cancellation (`cancellation.rs`) | none of its own: a job's token, state and raw handles | `monitor_timeout`, `terminate_job`, `wait_for_process_exit` | job manager, the operating system |
| Output pumps (`io_pump.rs`) | a `StreamPump` shared by two pumps (`send_window`, `bytes_in_flight`), a sequence counter each | `start_output_pump`, `try_send_frame`, `update_window` | the session's frame channel, the process's pipes |
| Process launcher (`process_launcher.rs`) | pipe, process, thread and job object handles during a launch | `launch`, `do_launch`, `create_pipes`, `create_job_object` | the operating system |
| Protocol (`protocol.rs`) | none | `encode`, `decode` | pipe server |
| File IPC (`file_ipc.rs`) | request and response files, a semaphore (10) | `process_requests`, `process_single_request`, `execute_command`, `write_response` | the file system, `cmd.exe` |
| Service host (`service_host.rs`, `main.rs`) | the shutdown signal and its receivers, the status reported | `run`, `stop`, `run_service`, `run_console` | starts and stops all of the above |
| Logger, errors, `lib` | none that matters here | - | - |

What is hard in this system:

- **Concurrency.** A job is touched by `handle_run`, its exit waiter and that one's blocking thread, its timeout
  monitor, two pumps, any session that sends CANCEL, the cleanup task and the shutdown path. They share the
  registry, the job's locks and token, and raw Windows handles whose lifetime is a reference count.
- **Checks and uses that are apart.** The limit of jobs, the id, the quiet time, the window and the second lookup of
  a cancelled id are all read in one step and acted upon in a later one.
- **Failure.** A client leaves, a launch fails at any of its system calls, a `?` returns from the middle of `handle_run`,
  a connection breaks within a frame, a request file is half written, the service ends between two steps of a request.
- **Waiting.** Pumps wait for window, senders for room, the writer for senders, the session for the writer, the
  cleanup for time to pass, the blocking threads of the pipe instances for a client to come and to go.

The properties that make each part correct:

- *Job manager*: ids and handles are unique; the limit is exceeded by a bounded number of jobs only; a job gets one
  final state and keeps it; what has ended is taken out of the registry; a cancelled job does not stay active.
- *Job lifecycle*: handles are open when they are used; every running process has an owner; the exit code reported
  is the process's own; every RUN is answered; after a cancellation everybody lets go and the process stops.
- *Output*: each stream arrives complete, in order and without a gap; the window bounds what is in flight; pumps and
  sessions end.
- *File IPC*: no request is lost between its file, its task and its answer; a complete one is answered; an answer stays;
  a request is processed once (which the code does not keep).
- *Process launcher*: on every path each pipe handle has one owner; the streams of a job can end; a failed launch leaves
  nothing behind (with exceptions); what is in a job object dies with it.
- *Protocol*: the frames read are the frames written, however the bytes are cut up; what `decode` makes of each number.
- *Pipe server and service host*: a permit comes back on every path; a frame goes to its own client; a stop is never
  missed; what it takes for a client to be served and for the process to end.

`PROJECT.json` lists the hazards behind these properties, each at its line.

## 2. Modules

| Module | Models |
|---|---|
| `JobState` | the job states and the transitions between them |
| `JobManager` | `JobManager` and its callers, the cleanup task, the shutdown path |
| `JobRegistry` | the abstract specification of the job manager |
| `MCJobManager` | the constants of `JobManager` that a configuration cannot write |
| `JobManagerProofs` | theorems about `JobManager`: types, limit, ids, completion times |
| `JobRegistryProofs` | theorems about `JobManager`: cancellation, shutdown, cleanup by id, the refinement of `JobRegistry` |
| `JobLifecycleProofs`, `OutputPumpProofs`, `ProcessLauncherProofs`, `ServiceHostProofs`, `FileIpcProofs`, `FrameLinkProofs` | the theorems about the modules they are named after |
| `JobLifecycle` | one job, from its RUN frame to the end of its process |
| `OutputPump` | the output of one job, from the process's pipes to the client |
| `ProcessLauncher` | several launches at a time: handles, job objects, processes and what they inherit |
| `Protocol` | `Frame::encode` and `Frame::decode`, byte by byte |
| `FrameLink` | `write_frame_static` and `read_frame_static` over a pipe; extends `Protocol` |
| `MCFrameLink` | the frames and the faulty bytes for `FrameLink` |
| `PipeServer` | the listener, the permits, the pipe instances and their sessions |
| `ServiceHost` | the process from start to end, as a service and on a console; extends `PipeServer` |
| `FileIpc` | the request and response files, the poll and its tasks |
| `MCFileIpc` | the ids that the run of `FileIpc` starts with |

`JobLifecycle` takes `create_job` and `transition_state` as single steps, whose parts `JobManager` has, and `launch`
as one whose parts `ProcessLauncher` has (by argument, not by a checked refinement); `OutputPump` takes frames as
records that `FrameLink` carries; `ServiceHost` runs `PipeServer` and takes of a job only that it is listed, that its
tasks hold senders (until they end, unless a pump is stuck on the window, as in `OutputPump`) and that it has blocking
threads (which may not return, as in `JobLifecycle`'s `WaitEnds`).

### JobManager

A step is the stretch of code between two accesses to shared state, so that `create_job` is a length check, a
`fetch_add` (two when the id is 0), a `contains_key`, the construction of the handle, an insert and the update of
`last_job_created`; other threads act in between. `pc`, `id`, `obj`, `target` and `stamp` are the locals of each
thread's call. `cleanup_idle_jobs` reads the clock once, then passes the keys one by one, twice if need be, collects,
and calls `cleanup_job` for each id, each of these in steps of its own.

- A handle (`JobHandle`) is a value of `Handles`, allocated once. `jobs[i]` is the handle listed under `i`, or `None`.
- `state`, `completed_at` and `last_activity` change together in `transition_state`, which holds the state lock
  throughout; the only readers of two of them (`cleanup_idle_jobs`) take that lock as well.
- Ids wrap at `IdSpace`, which stands for 2^32. `Init` starts the counter at 1 or at the last id, so that runs reach
  the wrap. `FetchAdd` leaves out one thing: that the counter goes all the way round between a call's
  `fetch_add` and its insert.
- `len()`, and the collection of all keys, are single steps. DashMap locks shard by shard, so both may in fact mix
  shards read at different times.
- Error returns change nothing; where they come before the first access that matters they are the absence of a step.
- `Threads` call everything in any order with any listed id. `NewStates` are the states callers pass to
  `transition_state`.

`JobRegistry` says what this amounts to: jobs are admitted once, retired once, never listed again, and get at most one
verdict (their terminal state). The mapping takes the listed handles, those allocated and no longer listed or about to
be, and the terminal state of each.

### JobLifecycle

The tasks that share one job: `run` (`handle_run`, after `create_job`), `waiter` (the task that waits for the exit),
`thread` (the blocking loop of `wait_for_process_exit`), `monitor` (`monitor_timeout` and `terminate_job`),
`canceller` (`cancel_job` for a CANCEL frame), `reaper` (`cleanup_job` from the cleanup task or the shutdown).
`refs` is who holds an `Arc<JobHandle>`; when the last one goes, `Drop` closes both handles, and the job object, created
with KILL_ON_JOB_CLOSE, takes the process along. `transition_state` by id is one step here: its own interleavings are
`JobManager`'s subject. The launch is one step: it succeeds, fails, or fails and leaves a process behind that is in no job
object and that nobody knows (`"stray"`: `AssignProcessToJobObject` failed). Pumps hold no `Arc<JobHandle>`, only the
token. The frame channel can fill up (`ChannelFills`, the pumps), and then `Send` waits until the writer takes a frame
(`WriterTakes`) or is gone. -1 is the code of a process that exits with it, of one whose code cannot be read, and of
"nobody knows", all three.

A closed handle's value can be given out again by the system. `ThreadMisled` lets the blocking thread end with any
result in that case; nothing makes it do so.

### OutputPump

The two pumps, `try_send_frame` with its check and its `fetch_add` as two steps, the frame channel, the writer task,
the request loop as far as it reads from the pipe, and the exit waiter as the third sender. Frames carry their stream,
sequence number, and the position and number of the bytes they hold. Lengths are counted in units: `MaxPayload` stands
for 32 KiB, `Window` for 64 KiB, `SequenceSpace` for 2^32.

- The drop policy is off (`StreamPump::new(65536, false)`) and nothing calls `update_window`; so the window is constant.
- The named pipe is created without FILE_FLAG_OVERLAPPED, and reader and writer use the same handle. Windows carries
  out the operations on such a handle one at a time: `WriterWrite` needs `PipeFree`.
- The write ends are closed when the process has exited (no descendant has inherited them).

### ProcessLauncher

Each `Launches` is one call of `launch`, then what becomes of its handles. `open` is what the service holds open, `pipes`
the fields that `Drop for ChildPipeHandles` would close, `handed` the pipe fields of the `LaunchedProcess`. Every system
call succeeds or fails, and a `?` drops what is in scope at that line. A process inherits all inheritable handles open in
the service at that moment, of all launches (`Inheritable`). A process that starts a descendant before
`AssignProcessToJobObject` has one outside the job object (`"free"`).

### Protocol and FrameLink

`Encode` and `Decode` are the byte sequences of the code. `encode` applies `to_be` and then `put_u16` or `put_u32`, which
write the most significant byte first, so that on Windows the numbers go out least significant byte first; `decode`
reads them most significant byte first. Numbers have the fixed widths of the code (`U16`, `U32`, two and four bytes).
`FrameLink` sends frames through a pipe that takes and gives any number of
bytes, breaks at any moment, with or without what is in it, and carries once something that is no frame: a length over
the limit, or as many bytes as the length says, which `decode` refuses (`NoFrame`). Bytes that end before their own length
says, or that `decode` accepts, are not among them: no reader could tell these from a frame. The reader's two calls of
`read_exact` keep their buffer and offset. `busy` is a `ReadFile` of the other direction on the writer's handle, during
which nothing is written.

### PipeServer and ServiceHost

The listener creates an instance, waits for a permit, and spawns the blocking task that serves it; `at` is where that
task is, `far` what its client does. A client can connect to an instance from its creation on. A session ends through a
GOODBYE, an error in a request, bytes that are no frame, or a broken pipe, and then waits for its writer task
(`WriterDone`), that is, for every sender of its channel. `sender[j]` is the session whose channel the tasks of job `j`
can send to. Instances are used again after `CloseHandle`, and a job once nothing is left of it (`Fresh`). The writer task
runs on one of the `Workers` of the runtime,
and its `WriteFile` waits there (`writing`) for the `ReadFile` on the same synchronous handle or for a client that does not
read; without a `FreeWorker` no task is polled and no timer goes off. A pump may get stuck on the window (`stuck`) and then
keeps its sender. `threads` are the jobs with blocking threads, of the exit wait and of the pumps' reads. When the writer
fails, a session that still reads goes on without it (`"muted"`).

`ServiceHost` adds `run_service` and `run_console`. `seen` is the version of the shutdown channel each receiver has
seen; a clone of `shutdown_rx` has seen version 0. `mode` decides how the process ends: the service control
dispatcher returns once the status is "stopped", whereas on a console the drop of the runtime waits for the blocking
threads of the instances and of the jobs (`BlockingThreads`). `todo` are the keys `force_cleanup_all` has still to clean up.

### FileIpc

A poll lists the directory and takes a permit and spawns a task for each file, or passes it over when no permit is
left. A task reads, deletes, parses, runs, creates the response file, and writes it, each a step. A client creates its
file and fills it later, with a request, with text that is none, or with bytes that are not UTF-8, which
`read_to_string` refuses at every poll. A request is known by its file's stem; its `id` is the client's choice among
`Names`, and the response is named after the `id`, or after the stem when the request is invalid. `claims` counts the reads
that are to be answered under a name, `answered` are the requests whose response has been written. An I/O error or the
end of the service is a fault, of which `MaxFaults` happen; the service starts again with the files that are left.

## 3. Runs

| Run | Shows |
|---|---|
| `callers` | two callers and `force_cleanup_all`, four ids, four jobs, limit 1: `CapBound`, `UniqueIds`, `CancelledHasEnded`, `ShutdownMissesNone` |
| `sweeps` | a caller and the cleanup task: `TypeOK`, `TerminalIffStamped`, `ImplementsRegistry`, and `EndedIsReaped` under fairness |
| `lifecycle` | a job's tasks in all interleavings: `HandlesOpenInUse`, `NoOrphan`, `ExitCodeHonest`; `CancelReleases`, `EndedStops`, `Answered` (if frames go out), `WaitEnds` |
| `pump` | `WindowBound`, `StreamIntact`, with read errors, empty writes, cancellation and a client that leaves |
| `pump_live` | for output that fits the window: `OutputArrives` (a client that keeps sending frames), `SessionEnds` (any client) |
| `launcher` | two launches at a time: `OwnedOnce`, `StreamsEnd`, `FailureIsClean`, `DiesWithJob` |
| `frames` | `FramesIntact`, `FramesArrive` (at a far end that reads and keeps sending), with frames cut up anywhere, breaks and faulty bytes |
| `service` | `PermitsKept`, `SendersServed`; `StopEnds` (if clients let writes go on), `CtrlCEnds` and `ConnectedIsServed` (if clients come and go, and threads or commands end) |
| `file_ipc` | `RequestKept`, `AnswerFinal`, `RequestAnswered`, with a fault anywhere |

Where the code and what is written about it part, a run states the written claim and TLC shows how it fails:

| Run | Claim | What happens |
|---|---|---|
| `quiet` | `cleanup_idle_jobs`: "cleans up all completed jobs if all jobs are terminal" | a job created after the scan is cleaned up with them |
| `update` | OUTPUT_STREAMING: WINDOW_UPDATE "increases the send window" | it does not; output stops after one window |
| `twice` | `process_single_request`: "Delete request file immediately to prevent re-processing" | two polls spawn two tasks for one file, and both read it |

### Consequences without a run of their own

What the models show beside the properties. Several are written otherwise in the repository's documents.

- *Jobs.* The limit of jobs can be exceeded, by as much as `CapBound` says. A job that is cancelled, times out, or is
  caught running by a cleanup, gets its EXIT frame, with code -1, while the process may still run (ARCHITECTURE.md:53:
  "Process exited", and of a timeout, :333: "EXIT frame sent with exit_code=1"). After a cancellation the blocking loop
  of `wait_for_process_exit` may spin on a handle that is closed. While the channel is full and its client only waits,
  `handle_run` or the exit waiter stays in `send` with its Arc, so that a cancelled process is not killed:
  `CancelReleases`, `EndedStops` and `Answered` need `FramesGoOut`.
- *Output.* The two streams share one window, so one can stop the other, and a pump stopped by the window is not woken
  by a cancellation or a disconnect either. A client that only waits receives nothing while the request loop is in
  `ReadFile`, which is why `OutputArrives` needs `BusyClient`. A read of zero bytes, which an empty write makes, ends a
  stream for good. The exit waiter does not wait for the pumps, so output may follow EXIT (ARCHITECTURE.md:477: "sent
  after drain").
- *Launch.* An error of `SetInformationJobObject` leaves the job object open, one of the second or third `CreatePipe`
  the pipes before it, one of `AssignProcessToJobObject` process handle, job object and a process that nobody ends
  (README.md:15: "no zombie processes"; `NoOrphan` names it as its exception). A process inherits both ends of its own
  pipes and of other launches under way (ARCHITECTURE.md:371: "non-inheritable"). A descendant started before the
  assignment outlives the job (ARCHITECTURE.md:244: "kill entire tree"). The three pipe ends given to `handle_run` are
  never closed, three handles for each job.
- *Frames.* The length goes out big-endian (ARCHITECTURE.md:37 says little-endian, OUTPUT_STREAMING.md:110 reads it
  big-endian), flags, job id and sequence number little-endian. Client and server that both use this code see each
  other's numbers with their bytes reversed; a number that is sent back comes home unchanged. A client that reads the
  flags most significant byte first does not see FLAG_EOS (OUTPUT_STREAMING.md:131: `frame.hasFlag(FLAG_EOS)`): 0x0001
  arrives as 0x0100.
- *Connections.* The client beyond the limit is not rejected (ARCHITECTURE.md:112: "Rejects new connections when limit
  reached"): it is connected, and served only when a client has come to, and left, an instance with a permit:
  `ConnectedIsServed` needs `ClientsComeAndGo`. A session with a pump stuck on the window keeps its permit for good. One
  error of `CreateNamedPipeW` ends the listener for good. `DisconnectNamedPipe` discards what the client has not read,
  the ERROR frame for a wrong version included.
- *End of the process.* On a console, Ctrl+C (README.md:117: "Press `Ctrl+C` to stop") ends the process only after
  clients have come to the instances that wait for one and have gone, and the blocking threads of the jobs have
  returned: `CtrlCEnds` needs `ClientsComeAndGo` and `ThreadsReturn`. As many clients that only wait as there are worker
  threads stop every task and timer, and a stop with them: `StopEnds` needs `ClientsTake`. A job started after
  `force_cleanup_all` has collected its keys stays until the process ends. A start that fails after "running" has been
  reported is not reported.
- *File IPC.* A request file that is read half written is deleted and answered as invalid. A command that times out runs
  on. A file that its client keeps locked, or that is not UTF-8, occupies a permit at every poll and is never answered;
  as many of these as permits keep the others out. Requests with one `id` overwrite each other's response. A response
  file can be read while it is empty. An end of the service after the deletion loses the request.

**Bounds.** Two callers make every race of two calls; a third adds no new pair, and `CapBounded` is proved for any
number. Three or four ids with a counter that starts at the end are enough to wrap, to skip 0 and to meet a listed id
again; `Handles` bounds the jobs created, with one or two more than the limit lets exist at once. The callers of
`sweeps` pass `Starting` and `Failed`, a legal step and a terminal one, to `transition_state`, those of `callers` only
`Starting`, which keeps four jobs within reach; the other states differ only in `CanTransitionTo`, which
`JobLifecycle` exercises whole. `MaxTime` is 1: with durations of 1 something is due or not due. `JobLifecycle` has no
bound: one job, its state is finite, and cancellers and reapers come again and again. In `OutputPump` each stream
writes up to two units into a window of one or two with a channel of one, so that reads, window and channel all fill
up; in the `pump` run two sequence numbers make the counter wrap. Two launches are enough for one to inherit from the
other in both directions. In `service` the state space under fairness allows one permit, two instances (all that are
in use at a time, by `PermitsKept`, which fails when both are without a permit) and one job at a time, which stands
for a later one once nothing is left of it. One worker is enough for a single waiting client to stop the runtime, and
two would let another client go on beside it. In `frames` two frames of 12 or 13 bytes go through a pipe of 6, so that
every frame is cut; a third one is over the limit. In `file_ipc` two requests compete for two permits, and one fault
happens anywhere. One has its stem as `id`, the other its own or the same (`MCInit`). One request may be unreadable
without taking all permits.

**Deadlock** is not checked: a system without clients and jobs may stop, and so does one that has used up its bounds.

**Fairness.** The cleanup task ticks every interval and each of its sweeps goes on (`CleanupIdleJobs`, `Sweep`), and
the clock moves. Tokio polls every task that is ready (`Run`, `Waiter`, `Thread`, `Monitor`, `Cancel`, `Pump`,
`WaiterSend`, `RequestsRead`). The kernel ends a killed process (`ProcDies`), and a client that is connected reads
(`WriterWrite`); a pipe that becomes free again and again is not taken by a read every time, hence strong fairness
there and for `FrameLink`'s `Write`. In `JobLifecycle` the cleanup of an ended job is fair because `EndedIsReaped`
says so, and a send gets strong fairness: tokio lets the waiters of a bounded channel in one after the other, so that
one that empties again and again lets each in. In `ServiceHost` the host's own thread and the threads of the instances
run on. What takes a worker thread (the listener, the timer of the shutdown, the end of a writer) has strong fairness:
it happens if a worker is free again and again, and not if all of them stay in `WriteFile`. A write to a client that
has gone fails. In `FileIpc` the poll and every task go on (a command ends, or its timeout does).

What is not the code's to guarantee is a premise of the property that needs it, never part of the specification: a client
reads and keeps sending frames (`BusyClient`, `FarEndReads`, `FarEndSends`, `ClientsTake`), a full channel is emptied
(`FramesGoOut`), clients come and go (`ClientsComeAndGo`), commands end after finitely many frames (`CommandsEnd`), blocking
threads return (`ThreadsReturn`), a read error comes before the next poll, 100 ms later, again and again (`ReadsInTime`).
Without any of these premises TLC finds its property violated. Nothing is assumed of processes ending by themselves, nor of
timeouts.

**Mutants.** Each property of a passing run has a mutated definition beside the original, marked as a bug, under which
TLC finds the property violated.

## 4. Proofs

`JobManagerProofs` proves for every set of callers, every id space of at least two, every limit and every clock:

- `TypeCorrect`: `Spec => []TypeOK`. `TypeOK` is inductive as it stands: besides types it says that whoever goes on to
  use a handle holds one that has been allocated.
- `CapBounded`: `Spec => []CapBound`. `CapBound` is not inductive: it says nothing of the callers that have passed the
  check and not yet inserted. `CapInv` counts them (`Pending`): the jobs listed and the pending callers together are at
  most the limit plus the number of callers, less one. A caller becomes pending only while the registry is below the
  limit, and then at most all callers are pending; an insert turns a pending caller into a job; `StepKinds` shows that
  no other step adds to either set.
- `IdsUnique`: `Spec => []UniqueIds`. The strengthening `IdInv` says what a caller knows of its id since `fetch_add`: it
  is 0 exactly when it has to fetch again, and no two callers between `fetch_add` and insert have the same one. The
  handle is new because it was not allocated. `IdStepKinds` reduces all other steps to what they have in common: they
  list nothing, and put no caller into these stages. The proof uses the guard of `FetchAdd` (the counter does not go
  round between a `fetch_add` and the insert), and it is the only place that needs it.
- `EndedIsStamped`: `Spec => []TerminalIffStamped`. Inductive with `TypeOK`: only `transition_state` touches a job's state
  or completion time (`JobSteps`), and a terminal state has no successor (`TerminalIsFinal`), so a completion time is
  never followed by another state.

`JobRegistryProofs` goes on from there, with `IdInv` and a further invariant, `HandleInv`: a job that some call has looked
up is not one that `create_job` has still to insert, and as long as it is listed it is listed under the id the call
uses; nobody has cancelled what is not inserted yet. (`IdInv` makes ids unique, so that a removed id can only come back
with a new handle.)

- `CancelledJobsEnd`: `Spec => []CancelledHasEnded`. A token is set by a call that then ends the job or removes it
  (`Ends`). When that call's transition is refused the job has already ended, because every state that is not terminal
  can be cancelled (`CanCancel`); when its second lookup finds nothing, or another job, the job is not listed any more.
- `ShutdownComplete`: `Spec => ShutdownMissesNone`, an action property: a job leaves the list of `force_cleanup_all` only
  by leaving the registry (`StepMissesNone`).
- `CleanupRemovesItsJob`: `Spec => CleanedIsGone`, an action property stated in `JobRegistryProofs`: when `cleanup_job`
  removes its id, the job it looked up is out of the registry, by `HandleInv` and the uniqueness of ids. Nothing more
  can be said of removing by id: after the counter has gone round, a creator that was issued the id of a job still
  listed may insert under it once that job is gone, and a call that looked the old job up then removes the new one.
- `RefinesRegistry`: `Spec => ImplementsRegistry`. `RegistrySteps` finds the four steps the registry can see; each is
  shown to be an abstract step (`StepImplements`), all others are stutters.

`JobLifecycleProofs`, for one job and any number of cancellers and reapers one after the other. The invariant
`LifeInv` has five parts: `DataOK` (types), `Placed` (an Arc for every task that uses the job, and none of the spawned
tasks before `handle_run` is over), `Owned` (handles are open exactly from the launch until nobody holds the job; a
process that ends has a code), `Control` (where `handle_run` is tells whether the handles are set; a running job has
its waiter or is about to get it; the job of a stray process has not got that far), `Learnt` (what the blocking thread
reports to a waiter that still waits is the process's exit code, or -1 when the process has exited). `ProcSteps`
reduces every action to what it does to Arcs, handles and process; the key is that an Arc is only cloned from one that
exists, so that closed handles stay closed. `HandlesOutliveUse`, `NothingOrphaned` and `ExitCodesAreHonest` follow
from `LifeInv`; none of the three properties is inductive alone.

`OutputPumpProofs`, for any finite set of streams and all sizes.

- `WindowIsBounded`: `Spec => []WindowBound`. `WindowInv` adds to the bytes in flight what the pumps that have passed
  the check (`Reserving`) will add. Counting a full frame for each of them is too much by one frame's slack; counting
  the exact lengths would take a sum over a set. It is enough that one of them, the last to check, counts with its own
  length: it has compared that one with the window, and at most all other pumps are reserving beside it.
- `StreamsStayIntact`: `Spec => []StreamIntact`. The property says of each frame how it carries on from the one before
  it of the same stream, which is first-order, rather than by the sum of all earlier lengths; the two are the same by
  induction. `FlowInv` adds that the frame a pump holds, or the next one it will make, is the one its stream expects
  after all that is in the channel, as long as there is a writer. When the writer fails, what remains is a prefix
  (`ContinuousPrefix`) and nothing is added any more.

`ProcessLauncherProofs`, for any number of overlapping launches. `HandleInv` says for each line of a launch exactly
which handles are open, which of them `ChildPipeHandles` owns and which are handed over; `ProcInv` adds when the
process is in its job object and who holds inherited handles. `OneOwner`, `FailuresAreClean`, `JobsDieTogether` and
`StreamsCanEnd` follow.

`ServiceHostProofs`, for any numbers of instances, permits and jobs. `PermitsNeverLeak` rests on `ListenInv`: free
permits and served instances add up to the limit, and an instance is created and not served only while the listener
waits for a permit. `SendersServed`, with the writes under way, is inductive with the types.

`FileIpcProofs`, for any number of requests, permits and faults. `RequestsAreKept`: `RequestKept` is inductive with
the types and what each task holds (`TaskTypes`). `AnswersAreFinal`, an action property, needs `AnswerInv`: every task
past its read has claimed the name it will answer under, two of them twice, and so has an answer together with a task;
so a task that comes to write over a complete answer has a name that was claimed twice. It is proved for every choice
of ids.

`FrameLinkProofs`, for any set of frames, any bytes that are no frame, and all sizes.

- `DecodeEncode`, for every frame: `decode` accepts what `encode` gives, and returns the frame with its three numbers in the
  opposite byte order. It rests on lemmas about the conversions (`Bytes32`, `Number32`, `ToBeTwice`), on where the
  parts of a header lie (`Layout`), and on the discriminants being different (`Discriminants`).
- `FramesStayIntact`: `Spec => []FramesIntact`. Neither this nor `TypeOK`, which bounds the frames received by those sent, is
  inductive: nothing in the state says where in the bytes the reader is. `LinkInv` says that there is a flow, all the
  bytes the writer was ever given, in which the frames lie end to end at offsets `off` up to the first bytes that are no
  frame (`Flow`); that buffer, pipe and unwritten bytes are found in it from the reader's position on, with no gap while
  the connection is open (`InTransit`); and that the reader expects the size of the next frame, or of bytes that `decode`
  will refuse (`Expects`). Writing makes the flow longer and everything in it stays where it is (`OccursGrows`); moving bytes
  takes a part from one side of a boundary to the other (`OccursParts`); what was read at a frame's offset with the frame's
  length is the frame (`OccursSame`, in `LengthRead` and `DataRead`). Flow and offsets are quantified, not variables: the
  model keeps no history. They give positions rather than a concatenation of all frames, which would take recursion.

Each module also proves its `TypeOK`. The proofs rest on the named assumptions of the modules (sets are finite, sizes are
natural numbers, `None` and the labels are none of the values they are compared with, the largest frame holds a header and
its size fits the length prefix), which TLC evaluates in the runs. In all, every safety invariant and action property of
the passing runs is proved.

Only model-checked:

- Everything under fairness: `EndedIsReaped`, `CancelReleases`, `EndedStops`, `Answered`, `WaitEnds`, `OutputArrives`,
  `SessionEnds`, `RequestAnswered`, `StopEnds`, `CtrlCEnds`, `ConnectedIsServed`, `FramesArrive`. Liveness and ENABLED
  are out of the prover's reach.
- That `JobLifecycle`'s single steps stand for the steps of `JobManager` and `ProcessLauncher`: an argument, not a proof.

## 5. Plan

The components that keep state are modelled and their safety properties proved. What would come next:

1. The job manager's steps by id, seen from one job, as an implementation of what `JobLifecycle` takes as one step, and
   `ProcessLauncher`'s steps as an implementation of its launch. Today both are arguments.
2. The liveness properties for every value of the constants, if a prover for them becomes available.

## 6. Not modelled

The logger, the error type and the crate root keep no state the system depends on; nothing uses the logger.
`update_window` has no caller and the drop policy is never on: a model of either would be of a program that does not
exist. What processes do with their input, environment blocks, command lines, security descriptors, the JSON of the
payloads and the text of messages do not bear on the properties. The Windows API, tokio, DashMap and the file system
are external: modelled by what the code relies on, as noted above.
