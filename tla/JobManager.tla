----------------------------- MODULE JobManager -----------------------------
(***************************************************************************)
(* The registry of jobs: struct JobManager of src/job_manager.rs, called   *)
(* by any number of threads, with the idle cleanup task of the service     *)
(* host (Cleaner) and its shutdown path (Closer).                          *)
(*                                                                         *)
(* A step is the stretch of code between two accesses to state that other  *)
(* threads write: the DashMap `jobs`, the atomic `next_job_id`, the mutex  *)
(* around a job's state and its cancellation token.  What a thread has     *)
(* read and goes on to use (an id, an Arc<JobHandle>, a timestamp) is kept *)
(* in its own variables in between, so that it may be stale when used.     *)
(*                                                                         *)
(* One call on the DashMap is one step, except the iterations whose body   *)
(* looks at each job: they pass the keys one by one, in any order, each    *)
(* listed or not at the time it is passed.  Collecting the keys, and       *)
(* len(), are one step each.                                               *)
(***************************************************************************)
EXTENDS Integers, FiniteSets, JobState

CONSTANTS
  Threads,              \* the tasks that call the job manager
  Cleaner,              \* the task that calls cleanup_idle_jobs
  Closer,               \* the task that calls force_cleanup_all
  Sweepers,             \* which of these two run
  NewStates,            \* the states that transition_state's callers pass
  Handles,              \* the job handles that may be allocated (the bound on
                        \* the number of jobs created)
  None,                 \* no handle, no time
  IdSpace,              \* the number of values of the u32 job id
  MaxConcurrentJobs,    \* max_concurrent_jobs
  IdleDuration,         \* idle_duration of cleanup_idle_jobs
  QuietDuration,        \* quiet_duration of cleanup_idle_jobs
  MaxTime,              \* the bound on the clock
  ClockMoves            \* how the wall clock SystemTime may move: 1, or -1 too

Procs == Threads \union Sweepers
Ids == 0 .. IdSpace - 1
Times == 0 .. MaxTime

ASSUME ProcsAssumption ==
  /\ IsFiniteSet(Threads) /\ Threads # {}
  /\ Cleaner \notin Threads /\ Closer \notin Threads /\ Cleaner # Closer
  /\ Sweepers \subseteq {Cleaner, Closer}
ASSUME NewStatesAssumption == NewStates \subseteq JobStates \ {"Created", "Canceled"}
ASSUME HandlesAssumption == None \notin Handles /\ None \notin Int
ASSUME BoundsAssumption ==
  /\ IdSpace \in Nat /\ IdSpace > 1
  /\ MaxConcurrentJobs \in Nat \ {0}
  /\ IdleDuration \in Nat /\ QuietDuration \in Nat
  /\ MaxTime \in Nat /\ ClockMoves \subseteq {-1, 1}

VARIABLES
  jobs,              \* the DashMap: the handle listed under each id, or None
  next_job_id,
  last_job_created,
  state, completed_at, last_activity, token,   \* of each handle
  allocated,         \* the handles created so far
  now,               \* SystemTime::now()
  pc,                \* where each process is in the call it is making
  id,                \* its job_id
  obj,               \* the Arc<JobHandle> it holds
  target,            \* its new_state
  stamp,             \* its `now`
  todo,              \* the ids a sweeper still has to clean up
  scan,              \* the keys the cleaner's iteration has yet to pass
  has_jobs, last_job_time   \* the locals of cleanup_idle_jobs

mgrVars == <<jobs, next_job_id, last_job_created>>
jobVars == <<state, completed_at, last_activity, token, allocated>>
localVars == <<pc, id, obj, target, stamp>>
sweepVars == <<todo, scan, has_jobs, last_job_time>>
vars == <<mgrVars, jobVars, now, localVars, sweepVars>>

Listed == {i \in Ids : jobs[i] # None}
ListedHandles == {jobs[i] : i \in Listed}

-----------------------------------------------------------------------------
Init ==
  /\ jobs = [i \in Ids |-> None]
  /\ next_job_id \in {1, IdSpace - 1}   \* a new manager, or one long in service
  /\ last_job_created = 0
  /\ state = [h \in Handles |-> "Created"]
  /\ completed_at = [h \in Handles |-> None]
  /\ last_activity = [h \in Handles |-> 0]
  /\ token = [h \in Handles |-> FALSE]
  /\ allocated = {}
  /\ now = 0
  /\ pc = [p \in Procs |-> "idle"]
  /\ id = [p \in Procs |-> 0]
  /\ obj = [p \in Procs |-> None]
  /\ target = [p \in Procs |-> "Created"]
  /\ stamp = [p \in Procs |-> 0]
  /\ todo = [p \in Sweepers |-> {}]
  /\ scan = {}
  /\ has_jobs = FALSE
  /\ last_job_time = 0

(* The call of p returns: what its local variables held is gone.           *)
Return(p) ==
  /\ pc' = [pc EXCEPT ![p] = IF p \in Sweepers THEN "reap" ELSE "idle"]
  /\ id' = [id EXCEPT ![p] = 0]
  /\ obj' = [obj EXCEPT ![p] = None]
  /\ target' = [target EXCEPT ![p] = "Created"]
  /\ stamp' = [stamp EXCEPT ![p] = 0]

At(p, label) == p \in Sweepers /\ pc[p] = label

Goto(p, label) == pc' = [pc EXCEPT ![p] = label]

-----------------------------------------------------------------------------
(* create_job                                                              *)

(* Where a call has an id; and the ids of the create_job calls that are    *)
(* between their fetch_add and their insert.                               *)
HoldsId == {"refetch", "contains", "insert", "stamp", "transition",
            "cancel_token", "cancel_transition", "remove"}
Held == {id[t] : t \in {u \in Threads : pc[u] \in {"refetch", "contains", "insert"}}}

(* A bug: one job more than the limit.                                     *)
BelowLimitOffByOne == Cardinality(Listed) <= MaxConcurrentJobs

BelowLimit == Cardinality(Listed) < MaxConcurrentJobs

CreateCheck(t) ==
  /\ pc[t] = "idle"
  /\ BelowLimit
  /\ Goto(t, "fetch")
  /\ UNCHANGED <<mgrVars, jobVars, now, id, obj, target, stamp, sweepVars>>

(* A bug: an add that does not wrap.                                       *)
NextIdUnbounded(i) == i + 1

NextId(i) == (i + 1) % IdSpace

(* fetch_add(1) on an AtomicU32: it returns the old value and wraps.  The  *)
(* one thing not considered is that 2^32 ids are issued between a call's   *)
(* fetch_add and its insert, a few instructions later.                     *)
FetchAdd(t) ==
  /\ next_job_id \notin Held
  /\ id' = [id EXCEPT ![t] = next_job_id]
  /\ next_job_id' = NextId(next_job_id)
  /\ Goto(t, IF next_job_id = 0 /\ pc[t] = "fetch" THEN "refetch" ELSE "contains")
  /\ UNCHANGED <<jobs, last_job_created, jobVars, now, obj, target, stamp, sweepVars>>

CreateFetch(t) == pc[t] = "fetch" /\ FetchAdd(t)

CreateRefetch(t) == pc[t] = "refetch" /\ FetchAdd(t)

(* A bug: contains_key is not checked.                                     *)
IdTakenUnchecked(t) == FALSE

IdTaken(t) == id[t] \in Listed

CreateExists(t) ==
  /\ pc[t] = "contains"
  /\ IdTaken(t)
  /\ Return(t)
  /\ UNCHANGED <<mgrVars, jobVars, now, sweepVars>>

CreateHandle(t, h) ==
  /\ pc[t] = "contains"
  /\ ~IdTaken(t)
  /\ h \notin allocated
  /\ allocated' = allocated \union {h}
  /\ last_activity' = [last_activity EXCEPT ![h] = now]
  /\ obj' = [obj EXCEPT ![t] = h]
  /\ stamp' = [stamp EXCEPT ![t] = now]
  /\ Goto(t, "insert")
  /\ UNCHANGED <<mgrVars, state, completed_at, token, now, id, target, sweepVars>>

CreateInsert(t) ==
  /\ pc[t] = "insert"
  /\ jobs' = [jobs EXCEPT ![id[t]] = obj[t]]
  /\ Goto(t, "stamp")
  /\ UNCHANGED <<next_job_id, last_job_created, jobVars, now,
                 id, obj, target, stamp, sweepVars>>

CreateStamp(t) ==
  /\ pc[t] = "stamp"
  /\ last_job_created' = stamp[t]
  /\ Return(t)
  /\ UNCHANGED <<jobs, next_job_id, jobVars, now, sweepVars>>

-----------------------------------------------------------------------------
(* transition_state: get_job, then the change under the job's state lock.  *)
(* Any caller, any listed job, any state a caller passes (nobody passes    *)
(* Created, and only cancel_job passes Canceled).                          *)

TransitionLookup(t, i, s) ==
  /\ pc[t] = "idle"
  /\ i \in Listed
  /\ id' = [id EXCEPT ![t] = i]
  /\ obj' = [obj EXCEPT ![t] = jobs[i]]
  /\ target' = [target EXCEPT ![t] = s]
  /\ Goto(t, "transition")
  /\ UNCHANGED <<mgrVars, jobVars, now, stamp, sweepVars>>

TransitionRefused(t) ==
  /\ pc[t] = "transition"
  /\ ~CanTransitionTo(state[obj[t]], target[t])
  /\ Return(t)
  /\ UNCHANGED <<mgrVars, jobVars, now, sweepVars>>

(* A bug: only Completed is stamped.                                       *)
CompletionTimeHalf(h, new) == IF new = "Completed" THEN now ELSE completed_at[h]

CompletionTime(h, new) == IF IsTerminal(new) THEN now ELSE completed_at[h]

TransitionState(t) ==
  LET h == obj[t] IN
  /\ pc[t] = "transition"
  /\ CanTransitionTo(state[h], target[t])
  /\ last_activity' = [last_activity EXCEPT ![h] = now]
  /\ completed_at' = [completed_at EXCEPT ![h] = CompletionTime(h, target[t])]
  /\ state' = [state EXCEPT ![h] = target[t]]
  /\ Return(t)
  /\ UNCHANGED <<mgrVars, token, allocated, now, sweepVars>>

-----------------------------------------------------------------------------
(* cancel_job                                                              *)

CancelLookup(t, i) ==
  /\ pc[t] = "idle"
  /\ i \in Listed
  /\ ~IsTerminal(state[jobs[i]])
  /\ id' = [id EXCEPT ![t] = i]
  /\ obj' = [obj EXCEPT ![t] = jobs[i]]
  /\ Goto(t, "cancel_token")
  /\ UNCHANGED <<mgrVars, jobVars, now, target, stamp, sweepVars>>

CancelToken(t) ==
  /\ pc[t] = "cancel_token"
  /\ token' = [token EXCEPT ![obj[t]] = TRUE]
  /\ Goto(t, "cancel_transition")
  /\ UNCHANGED <<mgrVars, state, completed_at,
                 last_activity, allocated, now, id, obj, target, stamp, sweepVars>>

(* transition_state(job_id, Canceled) looks the id up again: whatever it   *)
(* finds, or nothing, in which case the error is ignored.                  *)
CancelTransition(t) ==
  /\ pc[t] = "cancel_transition"
  /\ \/ /\ id[t] \in Listed
        /\ obj' = [obj EXCEPT ![t] = jobs[id[t]]]
        /\ target' = [target EXCEPT ![t] = "Canceled"]
        /\ Goto(t, "transition")
        /\ UNCHANGED <<id, stamp>>
     \/ id[t] \notin Listed /\ Return(t)
  /\ UNCHANGED <<mgrVars, jobVars, now, sweepVars>>

-----------------------------------------------------------------------------
(* update_activity                                                         *)
UpdateActivity(i) ==
  /\ i \in Listed
  /\ last_activity' = [last_activity EXCEPT ![jobs[i]] = now]
  /\ UNCHANGED <<mgrVars, state, completed_at, token,
                 allocated, now, localVars, sweepVars>>

(* cleanup_job: cancel the token of the job found, then remove the id.     *)
CleanupLookup(p, i) ==
  /\ i \in Listed
  /\ token' = [token EXCEPT ![jobs[i]] = TRUE]
  /\ id' = [id EXCEPT ![p] = i]
  /\ obj' = [obj EXCEPT ![p] = jobs[i]]
  /\ Goto(p, "remove")
  /\ UNCHANGED <<mgrVars, state, completed_at,
                 last_activity, allocated, now, target, stamp>>

CleanupJob(t, i) ==
  /\ pc[t] = "idle"
  /\ CleanupLookup(t, i)
  /\ UNCHANGED sweepVars

CleanupRemove(p) ==
  /\ pc[p] = "remove"
  /\ jobs' = [jobs EXCEPT ![id[p]] = None]
  /\ Return(p)
  /\ UNCHANGED <<next_job_id, last_job_created, jobVars, now, sweepVars>>

-----------------------------------------------------------------------------
(* The loop both sweeps end with: cleanup_job for each id collected; an id *)
(* that is no longer listed is an ignored JobNotFound.                     *)
(* A bug: the error of one cleanup_job ends the loop.                      *)
LeftToReapOrStop(p, i) == IF i \in Listed THEN todo[p] \ {i} ELSE {}

LeftToReap(p, i) == todo[p] \ {i}

Reap(p, i) ==
  /\ At(p, "reap")
  /\ i \in todo[p]
  /\ todo' = [todo EXCEPT ![p] = LeftToReap(p, i)]
  /\ \/ CleanupLookup(p, i)
     \/ /\ i \notin Listed
        /\ UNCHANGED <<mgrVars, jobVars, now, localVars>>
  /\ UNCHANGED <<scan, has_jobs, last_job_time>>

SweepDone(p) ==
  /\ At(p, "reap")
  /\ todo[p] = {}
  /\ Goto(p, IF p = Cleaner THEN "idle" ELSE "closed")
  /\ UNCHANGED <<mgrVars, jobVars, now, id, obj, target, stamp, sweepVars>>

(* force_cleanup_all, called once, when the service stops.                 *)
ForceCleanupAll ==
  /\ At(Closer, "idle")
  /\ todo' = [todo EXCEPT ![Closer] = Listed]
  /\ Goto(Closer, "reap")
  /\ UNCHANGED <<mgrVars, jobVars, now,
                 id, obj, target, stamp, scan, has_jobs, last_job_time>>

-----------------------------------------------------------------------------
(* cleanup_idle_jobs                                                       *)

SweepStart ==
  /\ At(Cleaner, "idle")
  /\ stamp' = [stamp EXCEPT ![Cleaner] = now]
  /\ last_job_time' = last_job_created
  /\ scan' = Ids
  /\ has_jobs' = FALSE
  /\ Goto(Cleaner, "scan_terminal")
  /\ UNCHANGED <<mgrVars, jobVars, now, id, obj, target, todo>>

(* now.duration_since(t) is an error, and not due, when t is after now.    *)
Elapsed(t, duration) == stamp[Cleaner] - t >= duration

(* The first loop has ended: its block's locals are gone.                  *)
ScanIdleStart ==
  /\ scan' = Ids
  /\ has_jobs' = FALSE
  /\ last_job_time' = 0
  /\ Goto(Cleaner, "scan_idle")
  /\ UNCHANGED <<mgrVars, jobVars, now, id, obj, target, stamp, todo>>

(* The first loop: is every job terminal?  One that is not ends it.        *)
ScanTerminal(i) ==
  /\ At(Cleaner, "scan_terminal")
  /\ i \in scan
  /\ i \in Listed => IsTerminal(state[jobs[i]])
  /\ has_jobs' = (has_jobs \/ i \in Listed)
  /\ scan' = scan \ {i}
  /\ UNCHANGED <<mgrVars, jobVars, now, localVars, todo, last_job_time>>

ScanTerminalBreak(i) ==
  /\ At(Cleaner, "scan_terminal")
  /\ i \in scan \intersect Listed
  /\ ~IsTerminal(state[jobs[i]])
  /\ ScanIdleStart

(* All were terminal: after a quiet time everything listed goes.           *)
QuietEnough == has_jobs /\ Elapsed(last_job_time, QuietDuration)

QuietCleanup ==
  /\ At(Cleaner, "scan_terminal")
  /\ scan = {}
  /\ QuietEnough
  /\ todo' = [todo EXCEPT ![Cleaner] = Listed]
  /\ has_jobs' = FALSE
  /\ last_job_time' = 0
  /\ stamp' = [stamp EXCEPT ![Cleaner] = 0]
  /\ Goto(Cleaner, "reap")
  /\ UNCHANGED <<mgrVars, jobVars, now, id, obj, target, scan>>

NotQuiet ==
  /\ At(Cleaner, "scan_terminal")
  /\ scan = {}
  /\ ~QuietEnough
  /\ ScanIdleStart

(* A bug: an ended job is judged by its last activity too.                 *)
ShouldCleanupByActivity(h) == Elapsed(last_activity[h], IdleDuration)

ShouldCleanup(h) ==
  IF IsTerminal(state[h])
    THEN completed_at[h] # None /\ Elapsed(completed_at[h], IdleDuration)
    ELSE Elapsed(last_activity[h], IdleDuration)

ScanIdle(i) ==
  /\ At(Cleaner, "scan_idle")
  /\ i \in scan
  /\ scan' = scan \ {i}
  /\ todo' = [todo EXCEPT ![Cleaner] =
                IF i \in Listed /\ ShouldCleanup(jobs[i]) THEN @ \union {i} ELSE @]
  /\ UNCHANGED <<mgrVars, jobVars, now, localVars, has_jobs, last_job_time>>

ScanIdleDone ==
  /\ At(Cleaner, "scan_idle")
  /\ scan = {}
  /\ stamp' = [stamp EXCEPT ![Cleaner] = 0]
  /\ Goto(Cleaner, "reap")
  /\ UNCHANGED <<mgrVars, jobVars, now, id, obj, target, sweepVars>>

-----------------------------------------------------------------------------
(* The wall clock (external).                                              *)
Tick(d) ==
  /\ now + d \in Times
  /\ now' = now + d
  /\ UNCHANGED <<mgrVars, jobVars, localVars, sweepVars>>

Create(t) ==
  \/ CreateCheck(t) \/ CreateFetch(t) \/ CreateRefetch(t) \/ CreateExists(t)
  \/ \E h \in Handles : CreateHandle(t, h)
  \/ CreateInsert(t) \/ CreateStamp(t)

Transition(t) ==
  \/ \E i \in Ids, s \in NewStates : TransitionLookup(t, i, s)
  \/ TransitionRefused(t) \/ TransitionState(t)

Cancel(t) ==
  \/ \E i \in Ids : CancelLookup(t, i)
  \/ CancelToken(t) \/ CancelTransition(t)

Cleanup(t) ==
  \/ \E i \in Ids : CleanupJob(t, i)
  \/ CleanupRemove(t)

Sweep(p) ==
  \/ \E i \in Ids : Reap(p, i)
  \/ CleanupRemove(p)
  \/ SweepDone(p)

CleanupIdleJobs ==
  \/ SweepStart
  \/ \E i \in Ids : ScanTerminal(i) \/ ScanTerminalBreak(i) \/ ScanIdle(i)
  \/ QuietCleanup \/ NotQuiet \/ ScanIdleDone

Next ==
  \/ \E t \in Threads : Create(t) \/ Transition(t) \/ Cancel(t) \/ Cleanup(t)
  \/ \E i \in Ids : UpdateActivity(i)
  \/ ForceCleanupAll
  \/ CleanupIdleJobs
  \/ \E p \in Sweepers : Sweep(p)
  \/ \E d \in ClockMoves : Tick(d)

Spec == Init /\ [][Next]_vars

-----------------------------------------------------------------------------
(* Properties                                                              *)

Labels == {"idle", "fetch", "reap", "scan_terminal", "scan_idle", "closed"}
            \union HoldsId

(* Every variable has its type; a process that goes on to use a handle     *)
(* holds one, and it has been allocated.                                   *)
TypeOK ==
  /\ jobs \in [Ids -> allocated \union {None}]
  /\ next_job_id \in Ids
  /\ last_job_created \in Times
  /\ state \in [Handles -> JobStates]
  /\ completed_at \in [Handles -> Times \union {None}]
  /\ last_activity \in [Handles -> Times]
  /\ token \in [Handles -> BOOLEAN]
  /\ allocated \subseteq Handles
  /\ now \in Times
  /\ pc \in [Procs -> Labels]
  /\ id \in [Procs -> Ids]
  /\ obj \in [Procs -> allocated \union {None}]
  /\ target \in [Procs -> JobStates]
  /\ stamp \in [Procs -> Times]
  /\ todo \in [Sweepers -> SUBSET Ids]
  /\ scan \subseteq Ids
  /\ has_jobs \in BOOLEAN
  /\ last_job_time \in Times
  /\ \A p \in Procs :
       pc[p] \in {"insert", "transition", "cancel_token", "cancel_transition", "remove"}
         => obj[p] # None

(* create_job compares len() with the limit and inserts some steps later,  *)
(* so callers racing each other can pass the limit; but never by more than *)
(* one job for each caller beyond the first.  (README.md has a limit,      *)
(* "Max concurrent jobs: 50", that two racing callers can exceed.)         *)
CapBound == Cardinality(Listed) <= MaxConcurrentJobs + Cardinality(Threads) - 1

(* No job has the id 0, and no two jobs in the registry, or about to be    *)
(* inserted, share a handle or an id: create_job skips 0 when next_job_id  *)
(* wraps, and checks contains_key some steps before it inserts.            *)
Inserting == {t \in Threads : pc[t] = "insert"}
UniqueIds ==
  /\ 0 \notin Listed
  /\ \A i, j \in Listed : jobs[i] = jobs[j] => i = j
  /\ \A t \in Inserting : id[t] \notin Listed \union {0} /\ obj[t] \notin ListedHandles
  /\ \A t, u \in Inserting : t # u => id[t] # id[u] /\ obj[t] # obj[u]

(* A job has a completion time exactly when its state is terminal: without *)
(* one, cleanup_idle_jobs would never collect it.                          *)
TerminalIffStamped ==
  \A h \in Handles : IsTerminal(state[h]) <=> completed_at[h] # None

(* A job in the registry whose token has been cancelled, and which no call *)
(* is in the middle of cancelling or removing, has ended: cancel_job does  *)
(* not leave a cancelled job behind that still counts as active.           *)
Ending(h) ==
  \E p \in Procs :
    /\ obj[p] = h
    /\ \/ pc[p] \in {"cancel_transition", "remove"}
       \/ pc[p] = "transition" /\ target[p] = "Canceled"
CancelledHasEnded ==
  \A h \in ListedHandles : token[h] /\ ~Ending(h) => IsTerminal(state[h])

(* A job that force_cleanup_all has collected stays its business until the *)
(* job is out of the registry, even while other callers cancel, clean up   *)
(* and create jobs: none is left behind when the service stops.            *)
ForClosing(h) ==
  /\ Closer \in Sweepers
  /\ \E i \in Listed :
       /\ jobs[i] = h
       /\ i \in todo[Closer] \/ (pc[Closer] = "remove" /\ id[Closer] = i)
ShutdownMissesNone ==
  [][\A h \in Handles : ForClosing(h) => ForClosing(h)' \/ h \notin ListedHandles']_vars

(* The registry implements its abstract specification.                     *)
Retired == allocated \ (ListedHandles \union {obj[t] : t \in Inserting})
Verdict == [h \in Handles |-> IF IsTerminal(state[h]) THEN state[h] ELSE None]
Registry == INSTANCE JobRegistry WITH
              Verdicts <- Terminal,
              listed <- ListedHandles, retired <- Retired, verdict <- Verdict
ImplementsRegistry == Registry!Spec

-----------------------------------------------------------------------------
(* The cleanup task keeps running and the clock keeps moving forward.      *)
FairSpec ==
  /\ Spec
  /\ WF_vars(CleanupIdleJobs \/ Sweep(Cleaner))
  /\ WF_vars(Tick(1))

(* A job that has ended is eventually taken out of the registry, whatever  *)
(* the other callers do in the meantime (as far as the clock's bound lets  *)
(* IdleDuration pass).                                                     *)
EndedIsReaped ==
  \A h \in Handles :
    (/\ h \in ListedHandles
     /\ completed_at[h] # None /\ completed_at[h] + IdleDuration <= MaxTime)
      ~> h \notin ListedHandles

-----------------------------------------------------------------------------
(* What the documentation says, and the code does not keep.                *)

(* cleanup_idle_jobs' own comment: it cleans up jobs that have been idle   *)
(* for longer than idle_duration, and "all completed jobs" when all are    *)
(* terminal and quiet.                                                     *)
CleansUpOnlyIdleOrCompleted ==
  [][\A i \in Ids :
       Reap(Cleaner, i) /\ i \in Listed =>
         \/ IsTerminal(state[jobs[i]])
         \/ now - last_activity[jobs[i]] >= IdleDuration]_vars

=============================================================================
