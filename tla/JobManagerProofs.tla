-------------------------- MODULE JobManagerProofs --------------------------
(***************************************************************************)
(* Theorems about JobManager, for any number of callers and jobs, any id   *)
(* space, limit and durations.                                             *)
(***************************************************************************)
EXTENDS JobManager, FiniteSetTheorems, TLAPS

USE DEF mgrVars, jobVars, localVars, sweepVars

(* The id after the last one is 0: fetch_add never leaves the u32's range. *)
LEMMA NextIdInRange == \A i \in Ids : NextId(i) \in Ids
  BY BoundsAssumption DEF NextId, Ids

(* The callers and the two tasks are finitely many.                        *)
LEMMA ProcsFacts ==
  /\ Threads \subseteq Procs
  /\ Sweepers \subseteq Procs
  /\ Cleaner \in Sweepers => Cleaner \in Procs
  /\ \A t \in Threads : t \notin Sweepers
  BY ProcsAssumption DEF Procs

(* The types hold at the start.                                            *)
LEMMA InitTypeOK == Init => TypeOK
  <1> SUFFICES ASSUME Init PROVE TypeOK
    OBVIOUS
  <1>1. 0 \in Ids /\ 0 \in Times /\ next_job_id \in Ids
    BY BoundsAssumption DEF Init, Ids, Times
  <1>2. "Created" \in JobStates /\ "idle" \in Labels
    BY DEF JobStates, Labels
  <1> QED BY <1>1, <1>2 DEF Init, TypeOK

(* Type correctness is preserved by every step.                            *)
LEMMA NextTypeOK == TypeOK /\ [Next]_vars => TypeOK'
  <1> SUFFICES ASSUME TypeOK, [Next]_vars PROVE TypeOK'
    OBVIOUS
  <1> USE ProcsFacts, HandlesAssumption
  <1>1. ASSUME NEW t \in Threads, Create(t) PROVE TypeOK'
    <2>1. CASE CreateCheck(t)
      BY <2>1 DEF CreateCheck, Goto, TypeOK, Labels, HoldsId
    <2>2. CASE CreateFetch(t) \/ CreateRefetch(t)
      BY <2>2, NextIdInRange DEF CreateFetch, CreateRefetch, FetchAdd, Goto, TypeOK,
         Labels, HoldsId
    <2>3. CASE CreateExists(t)
      BY <2>3, BoundsAssumption DEF CreateExists, Return, TypeOK, Labels,
         HoldsId, Ids, Times, JobStates
    <2>4. ASSUME NEW h \in Handles, CreateHandle(t, h) PROVE TypeOK'
      BY <2>4 DEF CreateHandle, Goto, TypeOK, Labels, HoldsId
    <2>5. CASE CreateInsert(t)
      BY <2>5 DEF CreateInsert, Goto, TypeOK, Labels, HoldsId
    <2>6. CASE CreateStamp(t)
      BY <2>6, BoundsAssumption DEF CreateStamp, Return, TypeOK, Labels,
         HoldsId, Ids, Times, JobStates
    <2> QED BY <1>1, <2>1, <2>2, <2>3, <2>4, <2>5, <2>6 DEF Create
  <1>2. ASSUME NEW t \in Threads, Transition(t) PROVE TypeOK'
    <2>1. ASSUME NEW i \in Ids, NEW s \in NewStates, TransitionLookup(t, i, s)
          PROVE TypeOK'
      BY <2>1, NewStatesAssumption DEF TransitionLookup, Goto, Listed, TypeOK, Labels,
         HoldsId
    <2>2. CASE TransitionRefused(t)
      BY <2>2, BoundsAssumption DEF TransitionRefused, Return, TypeOK, Labels,
         HoldsId, Ids, Times, JobStates
    <2>3. CASE TransitionState(t)
      BY <2>3, BoundsAssumption DEF TransitionState, CompletionTime, Return, TypeOK,
         Labels, HoldsId, Ids, Times, JobStates
    <2> QED BY <1>2, <2>1, <2>2, <2>3 DEF Transition
  <1>3. ASSUME NEW t \in Threads, Cancel(t) PROVE TypeOK'
    <2>1. ASSUME NEW i \in Ids, CancelLookup(t, i) PROVE TypeOK'
      BY <2>1 DEF CancelLookup, Goto, Listed, TypeOK, Labels, HoldsId
    <2>2. CASE CancelToken(t)
      BY <2>2 DEF CancelToken, Goto, TypeOK, Labels, HoldsId
    <2>3. CASE CancelTransition(t)
      <3>1. CASE id[t] \in Listed
        <4>1. "Canceled" \in JobStates /\ "transition" \in Labels
          BY DEF JobStates, Terminal, Labels, HoldsId
        <4>2. jobs[id[t]] \in allocated
          BY <3>1 DEF Listed, TypeOK
        <4>3. obj' = [obj EXCEPT ![t] = jobs[id[t]]] /\ target' = [target EXCEPT ![t] = "Canceled"]
              /\ pc' = [pc EXCEPT ![t] = "transition"]
              /\ UNCHANGED <<jobs, next_job_id, last_job_created, state, completed_at,
                   last_activity, token, allocated, now, id, stamp, todo, scan, has_jobs,
                   last_job_time>>
          BY <2>3, <3>1 DEF CancelTransition, Goto
        <4> QED BY <4>1, <4>2, <4>3 DEF TypeOK
      <3>2. CASE id[t] \notin Listed
        <4>1. Return(t) /\ UNCHANGED <<mgrVars, jobVars, now, sweepVars>>
          BY <2>3, <3>2 DEF CancelTransition
        <4> QED BY <4>1, BoundsAssumption DEF Return, TypeOK, Labels, HoldsId, Ids,
                Times, JobStates
      <3> QED BY <3>1, <3>2
    <2> QED BY <1>3, <2>1, <2>2, <2>3 DEF Cancel
  <1>4. ASSUME NEW p \in Procs, CleanupRemove(p) PROVE TypeOK'
    BY <1>4, BoundsAssumption DEF CleanupRemove, Return, TypeOK, Labels,
       HoldsId, Ids, Times, JobStates
  <1>5. ASSUME NEW t \in Threads, NEW i \in Ids, CleanupJob(t, i) PROVE TypeOK'
    BY <1>5 DEF CleanupJob, CleanupLookup, Goto, Listed, TypeOK, Labels, HoldsId
  <1>6. ASSUME NEW i \in Ids, UpdateActivity(i) PROVE TypeOK'
    BY <1>6 DEF UpdateActivity, Listed, TypeOK
  <1>7. CASE ForceCleanupAll
    BY <1>7 DEF ForceCleanupAll, At, Goto, Listed, TypeOK, Labels
  <1>8. CASE CleanupIdleJobs
    <2>1. CASE SweepStart
      BY <2>1 DEF SweepStart, At, Goto, TypeOK, Labels
    <2>2. ASSUME NEW i \in Ids, ScanTerminal(i) PROVE TypeOK'
      BY <2>2 DEF ScanTerminal, At, TypeOK
    <2>3. CASE ScanIdleStart /\ Cleaner \in Sweepers
      <3>1. has_jobs' \in BOOLEAN
        BY <2>3, Zenon DEF ScanIdleStart
      <3>2. last_job_time' \in Times
        BY <2>3, BoundsAssumption DEF ScanIdleStart, Times
      <3> QED BY <2>3, <3>1, <3>2 DEF ScanIdleStart, Goto, TypeOK, Labels
    <2>4. ASSUME NEW i \in Ids, ScanIdle(i) PROVE TypeOK'
      BY <2>4 DEF ScanIdle, At, TypeOK
    <2>5. CASE QuietCleanup
      <3>1. has_jobs' \in BOOLEAN
        BY <2>5, Zenon DEF QuietCleanup
      <3>2. last_job_time' \in Times
        BY <2>5, BoundsAssumption DEF QuietCleanup, Times
      <3> QED BY <2>5, <3>1, <3>2, BoundsAssumption DEF QuietCleanup, At, Goto, Listed, TypeOK,
              Labels, Times
    <2>6. CASE ScanIdleDone
      BY <2>6, BoundsAssumption DEF ScanIdleDone, At, Goto, TypeOK, Labels, Times
    <2> QED BY <1>8, <2>1, <2>2, <2>3, <2>4, <2>5, <2>6
            DEF CleanupIdleJobs, ScanTerminalBreak, NotQuiet, At
  <1>9. ASSUME NEW p \in Sweepers, NEW i \in Ids, Reap(p, i) PROVE TypeOK'
    <2>1. CASE CleanupLookup(p, i)
      BY <1>9, <2>1 DEF Reap, LeftToReap, CleanupLookup, Goto, Listed, TypeOK, Labels,
         HoldsId
    <2>2. CASE i \notin Listed
      BY <1>9, <2>2 DEF Reap, LeftToReap, CleanupLookup, TypeOK
    <2> QED BY <1>9, <2>1, <2>2 DEF Reap
  <1>10. ASSUME NEW p \in Sweepers, SweepDone(p) PROVE TypeOK'
    BY <1>10 DEF SweepDone, Goto, TypeOK, Labels
  <1>11. ASSUME NEW d \in ClockMoves, Tick(d) PROVE TypeOK'
    BY <1>11 DEF Tick, TypeOK
  <1>12. CASE UNCHANGED vars
    BY <1>12 DEF vars, TypeOK
  <1> QED
    BY <1>1, <1>2, <1>3, <1>4, <1>5, <1>6, <1>7, <1>8, <1>9, <1>10, <1>11, <1>12
    DEF Next, Cleanup, Sweep

(* Every variable keeps its type, and no call goes on with a handle it     *)
(* does not have.                                                          *)
THEOREM TypeCorrect == Spec => []TypeOK
  BY InitTypeOK, NextTypeOK, PTL DEF Spec

-----------------------------------------------------------------------------
(* The limit.  What stays bounded is not the registry alone but the jobs   *)
(* in it together with the calls that have passed the check and have not   *)
(* inserted yet.                                                           *)

Pending == {t \in Threads : pc[t] \in {"fetch", "refetch", "contains", "insert"}}

CapInv == Cardinality(Listed) + Cardinality(Pending)
            <= MaxConcurrentJobs - 1 + Cardinality(Threads)

(* The sets that are counted are finite.                                   *)
LEMMA FiniteParts ==
  /\ IsFiniteSet(Threads) /\ Cardinality(Threads) \in Nat
  /\ IsFiniteSet(Listed) /\ Cardinality(Listed) \in Nat
  /\ IsFiniteSet(Pending) /\ Cardinality(Pending) \in Nat
  /\ Cardinality(Pending) <= Cardinality(Threads)
  <1>1. IsFiniteSet(Ids)
    BY BoundsAssumption, FS_Interval DEF Ids
  <1>2. Listed \subseteq Ids /\ Pending \subseteq Threads
    BY DEF Listed, Pending
  <1> QED BY <1>1, <1>2, ProcsAssumption, FS_Subset, FS_CardinalityType

(* Only passing the check adds a pending call, only an insertion a job.    *)
LEMMA StepKinds ==
  ASSUME TypeOK, [Next]_vars
  PROVE  \/ Listed' \subseteq Listed /\ Pending' \subseteq Pending
         \/ \E t \in Threads : CreateCheck(t) \/ CreateInsert(t)
  <1> DEFINE Quiet == Listed' \subseteq Listed /\ Pending' \subseteq Pending
  <1> USE ProcsFacts
  <1>1. ASSUME NEW t \in Threads, Create(t), ~CreateCheck(t), ~CreateInsert(t) PROVE Quiet
    <2>1. CASE CreateFetch(t) \/ CreateRefetch(t)
      BY <2>1 DEF CreateFetch, CreateRefetch, FetchAdd, Goto, TypeOK, Listed, Pending
    <2>2. CASE CreateExists(t)
      BY <2>2 DEF CreateExists, Return, TypeOK, Listed, Pending
    <2>3. ASSUME NEW h \in Handles, CreateHandle(t, h) PROVE Quiet
      BY <2>3 DEF CreateHandle, Goto, TypeOK, Listed, Pending
    <2>4. CASE CreateStamp(t)
      BY <2>4 DEF CreateStamp, Return, TypeOK, Listed, Pending
    <2> QED BY <1>1, <2>1, <2>2, <2>3, <2>4 DEF Create
  <1>2. ASSUME NEW t \in Threads, Transition(t) PROVE Quiet
    BY <1>2 DEF Transition, TransitionLookup, TransitionRefused, TransitionState, Goto,
       Return, TypeOK, Listed, Pending
  <1>3. ASSUME NEW t \in Threads, Cancel(t) PROVE Quiet
    BY <1>3 DEF Cancel, CancelLookup, CancelToken, CancelTransition, Goto, Return,
       TypeOK, Listed, Pending
  <1>4. ASSUME NEW p \in Procs, CleanupRemove(p) PROVE Quiet
    BY <1>4 DEF CleanupRemove, Return, TypeOK, Listed, Pending
  <1>5. ASSUME NEW p \in Procs, NEW i \in Ids, CleanupLookup(p, i) PROVE Quiet
    BY <1>5 DEF CleanupLookup, Goto, TypeOK, Listed, Pending
  <1>6. ASSUME UNCHANGED <<jobs, pc>> PROVE Quiet
    BY <1>6 DEF Listed, Pending
  <1>7. ASSUME NEW p \in Sweepers, NEW label, Goto(p, label), UNCHANGED jobs PROVE Quiet
    BY <1>7 DEF Goto, TypeOK, Listed, Pending
  <1>8. CASE CleanupIdleJobs \/ ForceCleanupAll
    BY <1>6, <1>7, <1>8 DEF CleanupIdleJobs, SweepStart, ScanTerminal, ScanTerminalBreak,
       ScanIdle, ScanIdleStart, QuietCleanup, NotQuiet, ScanIdleDone, ForceCleanupAll,
       At
  <1>9. ASSUME NEW p \in Sweepers, Sweep(p) PROVE Quiet
    BY <1>4, <1>5, <1>6, <1>7, <1>9 DEF Sweep, Reap, SweepDone
  <1>10. ASSUME NEW i \in Ids, UpdateActivity(i) PROVE Quiet
    BY <1>6, <1>10 DEF UpdateActivity
  <1>11. ASSUME NEW d \in ClockMoves, Tick(d) PROVE Quiet
    BY <1>6, <1>11 DEF Tick
  <1>12. CASE UNCHANGED vars
    BY <1>6, <1>12 DEF vars
  <1> QED
    BY <1>1, <1>2, <1>3, <1>4, <1>5, <1>8, <1>9, <1>10, <1>11, <1>12
    DEF Next, Cleanup, CleanupJob

(* Every step keeps the count of listed and pending jobs bounded.          *)
LEMMA NextCapInv ==
  ASSUME TypeOK, CapInv, [Next]_vars
  PROVE  CapInv'
  <1> USE FiniteParts, BoundsAssumption, ProcsFacts
  <1>0. /\ IsFiniteSet(Listed') /\ Cardinality(Listed') \in Nat
        /\ IsFiniteSet(Pending') /\ Cardinality(Pending') \in Nat
        /\ Cardinality(Pending') <= Cardinality(Threads)
    <2>1. IsFiniteSet(Ids)
      BY FS_Interval DEF Ids
    <2>2. Listed' \subseteq Ids /\ Pending' \subseteq Threads
      BY DEF Listed, Pending
    <2> QED BY <2>1, <2>2, FS_Subset, FS_CardinalityType
  <1>1. CASE Listed' \subseteq Listed /\ Pending' \subseteq Pending
    <2>1. Cardinality(Listed') <= Cardinality(Listed)
      BY <1>1, FS_Subset
    <2>2. Cardinality(Pending') <= Cardinality(Pending)
      BY <1>1, FS_Subset
    <2> QED BY <1>0, <2>1, <2>2 DEF CapInv
  <1>2. ASSUME NEW t \in Threads, CreateCheck(t) PROVE CapInv'
    <2>1. Listed' = Listed /\ Cardinality(Listed) < MaxConcurrentJobs
      BY <1>2 DEF CreateCheck, BelowLimit, Listed
    <2> QED BY <1>0, <2>1 DEF CapInv
  <1>3. ASSUME NEW t \in Threads, CreateInsert(t) PROVE CapInv'
    <2>1. t \in Pending /\ Pending' = Pending \ {t}
      BY <1>3 DEF CreateInsert, Goto, TypeOK, Pending
    <2>2. Listed' \subseteq Listed \union {id[t]}
      BY <1>3 DEF CreateInsert, TypeOK, Listed
    <2>3. Cardinality(Pending') = Cardinality(Pending) - 1
      BY <2>1, FS_RemoveElement
    <2>4. Cardinality(Listed') <= Cardinality(Listed) + 1
      <3>1. /\ IsFiniteSet(Listed \union {id[t]})
            /\ Cardinality(Listed \union {id[t]}) <= Cardinality(Listed) + 1
        <4>1. /\ IsFiniteSet(Listed \union {id[t]})
              /\ Cardinality(Listed \union {id[t]}) =
                   IF id[t] \in Listed THEN Cardinality(Listed) ELSE Cardinality(Listed) + 1
          BY FS_AddElement
        <4> QED BY <4>1
      <3>2. Cardinality(Listed') <= Cardinality(Listed \union {id[t]})
        BY <2>2, <3>1, FS_Subset
      <3>3. Cardinality(Listed \union {id[t]}) \in Nat
        BY <3>1, FS_CardinalityType
      <3> QED BY <1>0, <3>1, <3>2, <3>3
    <2> QED BY <1>0, <2>3, <2>4 DEF CapInv
  <1> QED BY <1>1, <1>2, <1>3, StepKinds

(* However many callers race past the check of create_job, the registry    *)
(* never exceeds the limit by more than one job for each caller beyond the *)
(* first.                                                                  *)
THEOREM CapBounded == Spec => []CapBound
  <1>1. Init => CapInv
    <2> SUFFICES ASSUME Init PROVE CapInv
      OBVIOUS
    <2>1. Listed = {} /\ Pending = {}
      BY ProcsFacts DEF Init, Listed, Pending
    <2> QED BY <2>1, FiniteParts, FS_EmptySet, BoundsAssumption DEF CapInv
  <1>2. TypeOK /\ CapInv /\ [Next]_vars => CapInv'
    BY NextCapInv
  <1>3. CapInv => CapBound
    BY FiniteParts, BoundsAssumption DEF CapInv, CapBound
  <1> QED BY <1>1, <1>2, <1>3, TypeCorrect, PTL DEF Spec

-----------------------------------------------------------------------------
(* Completion times                                                        *)

(* A terminal state has no successor: can_transition_to lets no job change *)
(* the way it ended.                                                       *)
LEMMA TerminalIsFinal ==
  ASSUME NEW old, NEW new, CanTransitionTo(old, new)
  PROVE  ~IsTerminal(old)
  BY DEF CanTransitionTo, Successors, IsTerminal, Terminal

(* Only transition_state touches a job's state or its completion time.     *)
LEMMA JobSteps ==
  ASSUME [Next]_vars
  PROVE  \/ \E t \in Threads : TransitionState(t)
         \/ UNCHANGED <<state, completed_at>>
  <1>1. ASSUME NEW t \in Threads, Create(t) PROVE UNCHANGED <<state, completed_at>>
    BY <1>1 DEF Create, CreateCheck, CreateFetch, CreateRefetch, FetchAdd, CreateExists,
       CreateHandle, CreateInsert, CreateStamp
  <1>2. ASSUME NEW t \in Threads, Transition(t), ~TransitionState(t)
        PROVE  UNCHANGED <<state, completed_at>>
    BY <1>2 DEF Transition, TransitionLookup, TransitionRefused
  <1>3. ASSUME NEW t \in Threads, Cancel(t) \/ Cleanup(t)
        PROVE  UNCHANGED <<state, completed_at>>
    BY <1>3 DEF Cancel, CancelLookup, CancelToken, CancelTransition, Cleanup, CleanupJob,
       CleanupLookup, CleanupRemove
  <1>4. ASSUME NEW i \in Ids, UpdateActivity(i) PROVE UNCHANGED <<state, completed_at>>
    BY <1>4 DEF UpdateActivity
  <1>5. CASE ForceCleanupAll
    BY <1>5 DEF ForceCleanupAll
  <1>6. CASE CleanupIdleJobs
    BY <1>6 DEF CleanupIdleJobs, SweepStart, ScanIdleStart, ScanTerminal,
       ScanTerminalBreak, QuietCleanup, NotQuiet, ScanIdle, ScanIdleDone
  <1>7. ASSUME NEW p \in Sweepers, Sweep(p) PROVE UNCHANGED <<state, completed_at>>
    BY <1>7 DEF Sweep, Reap, CleanupLookup, CleanupRemove, SweepDone
  <1>8. ASSUME NEW d \in ClockMoves, Tick(d) PROVE UNCHANGED <<state, completed_at>>
    BY <1>8 DEF Tick
  <1>9. CASE UNCHANGED vars
    BY <1>9 DEF vars
  <1> QED BY <1>1, <1>2, <1>3, <1>4, <1>5, <1>6, <1>7, <1>8, <1>9 DEF Next

(* Every step keeps state and completion time together.                    *)
LEMMA NextTerminalIffStamped ==
  TypeOK /\ TerminalIffStamped /\ [Next]_vars => TerminalIffStamped'
  <1> SUFFICES ASSUME TypeOK, TerminalIffStamped, [Next]_vars
               PROVE  TerminalIffStamped'
    OBVIOUS
  <1>1. CASE UNCHANGED <<state, completed_at>>
    BY <1>1 DEF TerminalIffStamped
  <1>2. ASSUME NEW t \in Threads, TransitionState(t) PROVE TerminalIffStamped'
    <2> DEFINE h == obj[t]
    <2>1. h \in Handles
      BY <1>2, ProcsFacts DEF TransitionState, TypeOK
    <2>2. now # None
      BY HandlesAssumption DEF TypeOK, Times
    <2>3. ~IsTerminal(state[h]) /\ completed_at[h] = None
      BY <1>2, <2>1, TerminalIsFinal DEF TransitionState, TerminalIffStamped
    <2>4. state'[h] = target[t] /\ completed_at'[h] = CompletionTime(h, target[t])
      BY <1>2, <2>1 DEF TransitionState, TypeOK
    <2>5. IsTerminal(state'[h]) <=> completed_at'[h] # None
      BY <2>2, <2>3, <2>4 DEF CompletionTime
    <2>6. \A k \in Handles \ {h} :
            state'[k] = state[k] /\ completed_at'[k] = completed_at[k]
      BY <1>2 DEF TransitionState, TypeOK
    <2> QED BY <2>5, <2>6 DEF TerminalIffStamped
  <1> QED BY <1>1, <1>2, JobSteps

(* A job has a completion time exactly when it has ended, whichever of its *)
(* tasks end it: cleanup_idle_jobs never meets an ended job that it cannot *)
(* date, and would therefore keep for ever.                                *)
THEOREM EndedIsStamped == Spec => []TerminalIffStamped
  <1>1. Init => TerminalIffStamped
    BY DEF Init, TerminalIffStamped, IsTerminal, Terminal
  <1> QED BY <1>1, TypeCorrect, NextTerminalIffStamped, PTL DEF Spec

-----------------------------------------------------------------------------
(* Ids                                                                     *)

(* UniqueIds is not inductive: why an id is free when a caller comes to    *)
(* insert under it depends on what the caller knows of it since fetch_add. *)
(* A caller that fetches again has the id 0, one that goes on has another; *)
(* and two callers between fetch_add and insert have different ids.        *)
Stages == {"refetch", "contains", "insert"}
Creating(t) == pc[t] \in {"contains", "insert"}
IdInv ==
  /\ UniqueIds
  /\ \A t \in Threads : pc[t] = "refetch" => id[t] = 0
  /\ \A t \in Threads : Creating(t) => id[t] # 0
  /\ \A t, u \in Threads : Creating(t) /\ Creating(u) /\ t # u => id[t] # id[u]

(* What all other steps have in common: they list nothing new, and leave a *)
(* caller where it is or outside these stages.                             *)
Harmless ==
  /\ \A i \in Ids : jobs'[i] = jobs[i] \/ jobs'[i] = None
  /\ \A t \in Threads :
       \/ pc'[t] = pc[t] /\ id'[t] = id[t] /\ obj'[t] = obj[t]
       \/ pc'[t] \notin Stages

(* Every other step of the job manager is of this kind.                    *)
LEMMA IdStepKinds ==
  ASSUME TypeOK, [Next]_vars
  PROVE  \/ \E t \in Threads : FetchAdd(t) /\ pc[t] \in {"fetch", "refetch"}
         \/ \E t \in Threads, h \in Handles : CreateHandle(t, h)
         \/ \E t \in Threads : CreateInsert(t)
         \/ Harmless
  <1> USE ProcsFacts
  <1>1. ASSUME NEW t \in Threads,
               CreateCheck(t) \/ CreateExists(t) \/ CreateStamp(t)
        PROVE  Harmless
    BY <1>1 DEF CreateCheck, CreateExists, CreateStamp, Goto, Return, Harmless, Stages,
       TypeOK
  <1>2. ASSUME NEW t \in Threads, Transition(t) PROVE Harmless
    BY <1>2 DEF Transition, TransitionLookup, TransitionRefused, TransitionState, Goto,
       Return, Harmless, Stages, TypeOK
  <1>3. ASSUME NEW t \in Threads, Cancel(t) PROVE Harmless
    BY <1>3 DEF Cancel, CancelLookup, CancelToken, CancelTransition, Goto, Return,
       Harmless, Stages, TypeOK
  <1>4. ASSUME NEW p \in Procs, CleanupRemove(p) PROVE Harmless
    BY <1>4 DEF CleanupRemove, Return, Harmless, Stages, TypeOK
  <1>5. ASSUME NEW p \in Procs, NEW i \in Ids, CleanupLookup(p, i) PROVE Harmless
    BY <1>5 DEF CleanupLookup, Goto, Harmless, Stages, TypeOK
  <1>6. ASSUME NEW i \in Ids, UpdateActivity(i) PROVE Harmless
    BY <1>6 DEF UpdateActivity, Harmless
  <1>7. CASE ForceCleanupAll
    BY <1>7 DEF ForceCleanupAll, At, Goto, Harmless, Stages, TypeOK
  <1>8. CASE CleanupIdleJobs
    BY <1>8 DEF CleanupIdleJobs, SweepStart, ScanIdleStart, ScanTerminal,
       ScanTerminalBreak, QuietCleanup, NotQuiet, ScanIdle, ScanIdleDone, At, Goto,
       Harmless, Stages, TypeOK
  <1>9. ASSUME NEW p \in Sweepers, Sweep(p) PROVE Harmless
    BY <1>4, <1>5, <1>9 DEF Sweep, Reap, SweepDone, Goto, Harmless, Stages, TypeOK
  <1>10. ASSUME NEW d \in ClockMoves, Tick(d) PROVE Harmless
    BY <1>10 DEF Tick, Harmless
  <1>11. CASE UNCHANGED vars
    BY <1>11 DEF vars, Harmless
  <1> QED BY <1>1, <1>2, <1>3, <1>4, <1>5, <1>6, <1>7, <1>8, <1>9, <1>10, <1>11
          DEF Next, Create, CreateFetch, CreateRefetch, Cleanup, CleanupJob

(* An id that fetch_add returns is in use by no other caller.              *)
LEMMA FetchKeepsIdInv ==
  ASSUME TypeOK, IdInv, NEW t \in Threads, FetchAdd(t), pc[t] \in {"fetch", "refetch"}
  PROVE  IdInv'
  <1> USE ProcsFacts
  <1>1. /\ UNCHANGED <<jobs, obj>>
        /\ id' = [id EXCEPT ![t] = next_job_id]
        /\ pc' = [pc EXCEPT ![t] = IF next_job_id = 0 /\ pc[t] = "fetch"
                                    THEN "refetch" ELSE "contains"]
    BY DEF FetchAdd, Goto
  <1>2. \A u \in Threads : pc[u] \in Stages => id[u] # next_job_id
    BY DEF FetchAdd, Held, HoldsId, Stages
  <1>3. pc'[t] = "contains" => next_job_id # 0
    BY <1>1, <1>2 DEF IdInv, Stages, TypeOK
  <1>4. \A u \in Threads : pc'[u] = "insert" => pc[u] = "insert" /\ u # t
    BY <1>1 DEF TypeOK
  <1>5. \A u \in Threads \ {t} : pc'[u] = pc[u] /\ id'[u] = id[u]
    BY <1>1 DEF TypeOK
  <1>6. id'[t] = next_job_id /\ pc'[t] \in {"refetch", "contains"}
    BY <1>1 DEF TypeOK
  <1>7. UniqueIds'
    BY <1>1, <1>4, <1>5 DEF IdInv, UniqueIds, Inserting, Listed, ListedHandles
  <1>8. \A u \in Threads : pc'[u] = "refetch" => id'[u] = 0
    BY <1>1, <1>5, <1>6 DEF IdInv, TypeOK
  <1>9. \A u \in Threads : Creating(u)' => id'[u] # 0
    BY <1>3, <1>5, <1>6 DEF IdInv, Creating
  <1>10. \A u, v \in Threads : Creating(u)' /\ Creating(v)' /\ u # v => id'[u] # id'[v]
    BY <1>2, <1>5, <1>6 DEF IdInv, Creating, Stages
  <1> QED BY <1>7, <1>8, <1>9, <1>10 DEF IdInv

(* Every step keeps what the callers know of their ids.                    *)
LEMMA NextIdInv == TypeOK /\ IdInv /\ [Next]_vars => IdInv'
  <1> SUFFICES ASSUME TypeOK, IdInv, [Next]_vars PROVE IdInv'
    OBVIOUS
  <1> USE ProcsFacts
  <1>1. ASSUME NEW t \in Threads, NEW h \in Handles, CreateHandle(t, h) PROVE IdInv'
    <2>1. /\ UNCHANGED <<jobs, id>>
          /\ obj'[t] = h /\ pc'[t] = "insert" /\ pc[t] = "contains"
          /\ id[t] \notin Listed
          /\ \A u \in Threads \ {t} : pc'[u] = pc[u] /\ obj'[u] = obj[u]
      BY <1>1 DEF CreateHandle, IdTaken, Goto, TypeOK
    <2>2. h \notin ListedHandles /\ \A u \in Inserting : obj[u] # h
      BY <1>1 DEF CreateHandle, ListedHandles, Listed, Inserting, TypeOK
    <2>3. Inserting' = Inserting \union {t}
      BY <2>1 DEF Inserting
    <2>4. UniqueIds'
      BY <2>1, <2>2, <2>3 DEF IdInv, UniqueIds, Creating, Inserting, Listed, ListedHandles
    <2> QED BY <2>1, <2>4 DEF IdInv, Creating
  <1>2. ASSUME NEW t \in Threads, CreateInsert(t) PROVE IdInv'
    <2>1. /\ UNCHANGED <<id, obj>>
          /\ pc[t] = "insert" /\ pc'[t] = "stamp"
          /\ \A u \in Threads \ {t} : pc'[u] = pc[u]
          /\ jobs' = [jobs EXCEPT ![id[t]] = obj[t]]
      BY <1>2 DEF CreateInsert, Goto, TypeOK
    <2>2. obj[t] # None /\ id[t] \in Ids
      BY <2>1 DEF TypeOK
    <2>3. t \in Inserting /\ Inserting' = Inserting \ {t}
      BY <2>1 DEF Inserting
    <2>4. Listed' = Listed \union {id[t]}
      BY <2>1, <2>2 DEF Listed, TypeOK
    <2>5. id[t] \notin Listed /\ id[t] # 0 /\ obj[t] \notin ListedHandles
      BY <2>3 DEF IdInv, UniqueIds
    <2>6. jobs'[id[t]] = obj[t] /\ \A i \in Listed : jobs'[i] = jobs[i]
      BY <2>1, <2>2, <2>5 DEF Listed, TypeOK
    <2>7. ListedHandles' = ListedHandles \union {obj[t]}
      BY <2>4, <2>6 DEF ListedHandles
    <2>8. \A i, j \in Listed' : jobs'[i] = jobs'[j] => i = j
      BY <2>4, <2>5, <2>6 DEF IdInv, UniqueIds, ListedHandles
    <2>9. UniqueIds'
      BY <2>1, <2>3, <2>4, <2>5, <2>7, <2>8 DEF IdInv, UniqueIds
    <2> QED BY <2>1, <2>9 DEF IdInv, Creating
  <1>3. CASE Harmless
    <2>1. Listed' \subseteq Listed /\ \A i \in Listed' : jobs'[i] = jobs[i]
      BY <1>3 DEF Harmless, Listed
    <2>2. ListedHandles' \subseteq ListedHandles
      BY <2>1 DEF ListedHandles
    <2>3. \A u \in Threads :
            pc'[u] \in Stages => pc'[u] = pc[u] /\ id'[u] = id[u] /\ obj'[u] = obj[u]
      BY <1>3 DEF Harmless
    <2>4. \A u \in Inserting' : u \in Inserting /\ id'[u] = id[u] /\ obj'[u] = obj[u]
      BY <2>3 DEF Inserting, Stages
    <2>5. UniqueIds'
      BY <2>1, <2>2, <2>4 DEF IdInv, UniqueIds
    <2> QED BY <2>3, <2>5 DEF IdInv, Creating, Stages
  <1> QED BY <1>1, <1>2, <1>3, IdStepKinds, FetchKeepsIdInv

(* No job has the id 0, and no two jobs, listed or about to be, share an   *)
(* id or a handle, however many callers are inside create_job and wherever *)
(* next_job_id wraps.                                                      *)
THEOREM IdsUnique == Spec => []UniqueIds
  <1>1. Init => IdInv
    BY ProcsFacts DEF Init, IdInv, UniqueIds, Creating, Inserting, Listed, ListedHandles
  <1>2. Spec => []IdInv
    BY <1>1, TypeCorrect, NextIdInv, PTL DEF Spec
  <1>3. IdInv => UniqueIds
    BY DEF IdInv
  <1> QED BY <1>2, <1>3, PTL

=============================================================================
