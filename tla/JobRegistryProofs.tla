-------------------------- MODULE JobRegistryProofs -------------------------
(***************************************************************************)
(* More theorems about JobManager, again for every value of its constants: *)
(* it implements the abstract JobRegistry, a cancelled job has ended, the  *)
(* shutdown misses no job it has collected, and cleanup_job leaves its job *)
(* out of the registry.                                                    *)
(***************************************************************************)
EXTENDS JobManagerProofs

USE DEF mgrVars, jobVars, localVars, sweepVars

(* What they rest on.  A call that has looked a job up goes on with a      *)
(* handle and an id.  The handle is not one that create_job is about to    *)
(* insert, so a job that has left the registry does not come back; and the *)
(* job, as long as it is listed, is listed under that id.  What create_job *)
(* has not inserted yet, nobody has cancelled.                             *)
Named == {"transition", "cancel_token", "cancel_transition", "remove"}
InsertedHandles == {obj[t] : t \in Inserting}

HandleInv ==
  /\ \A p \in Procs :
       pc[p] \in Named =>
         /\ obj[p] \notin InsertedHandles
         /\ obj[p] \in ListedHandles => jobs[id[p]] = obj[p]
  /\ \A h \in Handles : token[h] => h \in allocated \ InsertedHandles

(* What all steps but two of create_job have in common: nothing is listed, *)
(* what a call goes on with is what it had or what it has just looked up,  *)
(* and only a job that was looked up is cancelled.                         *)
MayUse(p) ==
  \/ pc'[p] = pc[p] /\ id'[p] = id[p] /\ obj'[p] = obj[p]
  \/ pc[p] # "insert" /\ pc'[p] \notin Named \union {"insert"}
  \/ pc[p] \in Named /\ pc'[p] \in Named /\ id'[p] = id[p] /\ obj'[p] = obj[p]
  \/ /\ pc[p] # "insert" /\ pc'[p] \in Named
     /\ jobs' = jobs /\ id'[p] \in Listed /\ obj'[p] = jobs[id'[p]]

Gentle ==
  /\ UNCHANGED allocated
  /\ \A i \in Ids : jobs'[i] = jobs[i] \/ jobs'[i] = None
  /\ \A p \in Procs : MayUse(p)
  /\ \A h \in Handles :
       token'[h] => \/ token[h] \/ h \in ListedHandles
                    \/ \E p \in Procs : pc[p] \in Named /\ obj[p] = h

(* All steps but these of create_job are of this kind.                     *)
LEMMA HandleSteps ==
  ASSUME TypeOK, [Next]_vars
  PROVE  \/ \E t \in Threads, h \in Handles : CreateHandle(t, h)
         \/ \E t \in Threads : CreateInsert(t)
         \/ Gentle
  <1> USE ProcsFacts DEF Gentle, MayUse, Named
  <1>1. ASSUME NEW t \in Threads,
               CreateCheck(t) \/ CreateExists(t) \/ CreateStamp(t)
        PROVE  Gentle
    BY <1>1 DEF CreateCheck, CreateExists, CreateStamp, Goto, Return, TypeOK
  <1>2. ASSUME NEW t \in Threads, CreateFetch(t) \/ CreateRefetch(t) PROVE Gentle
    BY <1>2 DEF CreateFetch, CreateRefetch, FetchAdd, Goto, TypeOK
  <1>3. ASSUME NEW t \in Threads, Transition(t) PROVE Gentle
    <2>1. ASSUME NEW i \in Ids, NEW s \in NewStates, TransitionLookup(t, i, s) PROVE Gentle
      BY <2>1 DEF TransitionLookup, Goto, TypeOK
    <2>2. CASE TransitionRefused(t) \/ TransitionState(t)
      BY <2>2 DEF TransitionRefused, TransitionState, Return, TypeOK
    <2> QED BY <1>3, <2>1, <2>2 DEF Transition
  <1>4. ASSUME NEW t \in Threads, Cancel(t) PROVE Gentle
    <2>1. ASSUME NEW i \in Ids, CancelLookup(t, i) PROVE Gentle
      BY <2>1 DEF CancelLookup, Goto, TypeOK
    <2>2. CASE CancelToken(t)
      BY <2>2 DEF CancelToken, Goto, TypeOK
    <2>3. CASE CancelTransition(t)
      BY <2>3 DEF CancelTransition, Goto, Return, TypeOK
    <2> QED BY <1>4, <2>1, <2>2, <2>3 DEF Cancel
  <1>5. ASSUME NEW p \in Procs, CleanupRemove(p) PROVE Gentle
    BY <1>5 DEF CleanupRemove, Return, TypeOK
  <1>6. ASSUME NEW p \in Procs, NEW i \in Ids, CleanupLookup(p, i), pc[p] # "insert"
        PROVE  Gentle
    BY <1>6 DEF CleanupLookup, Goto, ListedHandles, TypeOK
  <1>7. ASSUME UNCHANGED <<jobs, allocated, token, pc, id, obj>> PROVE Gentle
    BY <1>7
  <1>8. ASSUME NEW p \in Sweepers, NEW label, Goto(p, label), pc[p] # "insert",
               label \notin Named \union {"insert"},
               UNCHANGED <<jobs, allocated, token, id, obj>>
        PROVE  Gentle
    BY <1>8 DEF Goto, TypeOK
  <1>9. CASE CleanupIdleJobs \/ ForceCleanupAll
    BY <1>7, <1>8, <1>9 DEF CleanupIdleJobs, SweepStart, ScanTerminal, ScanTerminalBreak,
       ScanIdle, ScanIdleStart, QuietCleanup, NotQuiet, ScanIdleDone, ForceCleanupAll, At
  <1>10. ASSUME NEW p \in Sweepers, Sweep(p) PROVE Gentle
    <2>1. ASSUME NEW i \in Ids, Reap(p, i) PROVE Gentle
      BY <1>6, <1>7, <2>1 DEF Reap, At
    <2>2. CASE SweepDone(p)
      BY <1>8, <2>2 DEF SweepDone, At
    <2> QED BY <1>5, <1>10, <2>1, <2>2 DEF Sweep
  <1>11. ASSUME NEW i \in Ids, UpdateActivity(i) PROVE Gentle
    BY <1>7, <1>11 DEF UpdateActivity
  <1>12. ASSUME NEW d \in ClockMoves, Tick(d) PROVE Gentle
    BY <1>7, <1>12 DEF Tick
  <1>13. CASE UNCHANGED vars
    BY <1>7, <1>13 DEF vars
  <1> QED
    <2> HIDE DEF Gentle
    <2> QED BY <1>1, <1>2, <1>3, <1>4, <1>5, <1>6, <1>9, <1>10, <1>11, <1>12, <1>13
            DEF Next, Create, Cleanup, CleanupJob

(* HandleInv is preserved, with the uniqueness of ids and handles.         *)
LEMMA NextHandleInv == TypeOK /\ IdInv /\ HandleInv /\ [Next]_vars => HandleInv'
  <1> SUFFICES ASSUME TypeOK, IdInv, HandleInv, [Next]_vars PROVE HandleInv'
    OBVIOUS
  <1> USE ProcsFacts
  <1>1. ASSUME NEW t \in Threads, NEW h \in Handles, CreateHandle(t, h) PROVE HandleInv'
    <2>1. /\ UNCHANGED <<jobs, id, token>>
          /\ obj' = [obj EXCEPT ![t] = h] /\ pc' = [pc EXCEPT ![t] = "insert"]
          /\ h \notin allocated /\ allocated' = allocated \union {h} /\ pc[t] = "contains"
      BY <1>1 DEF CreateHandle, Goto
    <2>2. InsertedHandles' = InsertedHandles \union {h}
      BY <2>1 DEF InsertedHandles, Inserting, TypeOK
    <2>3. ListedHandles' = ListedHandles
      BY <2>1 DEF ListedHandles, Listed
    <2>4. \A p \in Procs : pc'[p] \in Named =>
            pc[p] = pc'[p] /\ obj'[p] = obj[p] /\ obj[p] \in allocated
      BY <2>1, HandlesAssumption DEF Named, TypeOK
    <2> QED BY <2>1, <2>2, <2>3, <2>4 DEF HandleInv
  <1>2. ASSUME NEW t \in Threads, CreateInsert(t) PROVE HandleInv'
    <2>1. /\ UNCHANGED <<id, obj, token, allocated>>
          /\ pc[t] = "insert" /\ pc' = [pc EXCEPT ![t] = "stamp"]
          /\ jobs' = [jobs EXCEPT ![id[t]] = obj[t]]
      BY <1>2 DEF CreateInsert, Goto
    <2>2. t \in Inserting /\ Inserting' \subseteq Inserting
      BY <2>1 DEF Inserting, TypeOK
    <2>3. InsertedHandles' \subseteq InsertedHandles /\ obj[t] \in InsertedHandles
      BY <2>1, <2>2 DEF InsertedHandles
    <2>4. \A p \in Procs : pc'[p] \in Named => pc[p] = pc'[p]
      BY <2>1 DEF Named, TypeOK
    <2>5. ListedHandles' \subseteq ListedHandles \union {obj[t]}
      BY <2>1 DEF ListedHandles, Listed, TypeOK
    <2>6. id[t] \notin Listed /\ id[t] \in Ids
      BY <2>2 DEF IdInv, UniqueIds, TypeOK
    <2>7. \A i \in Listed : jobs'[i] = jobs[i]
      BY <2>1, <2>6 DEF Listed, TypeOK
    <2>8. ASSUME NEW p \in Procs, pc[p] \in Named, obj[p] \in ListedHandles'
          PROVE  jobs'[id[p]] = obj[p]
      <3>1. obj[p] \in ListedHandles /\ jobs[id[p]] = obj[p]
        BY <2>3, <2>5, <2>8 DEF HandleInv
      <3>2. id[p] \in Listed
        BY <2>8, <3>1 DEF Named, Listed, TypeOK
      <3> QED BY <2>7, <3>1, <3>2
    <2> QED BY <2>1, <2>3, <2>4, <2>8 DEF HandleInv
  <1>3. CASE Gentle
    <2>1. Listed' \subseteq Listed /\ \A i \in Listed' : jobs'[i] = jobs[i]
      BY <1>3 DEF Gentle, Listed
    <2>2. ListedHandles' \subseteq ListedHandles
      BY <2>1 DEF ListedHandles
    <2>3. \A u \in Threads : pc'[u] = "insert" => pc[u] = "insert" /\ obj'[u] = obj[u]
      BY <1>3 DEF Gentle, MayUse, Named
    <2>4. InsertedHandles' \subseteq InsertedHandles
      BY <2>3 DEF InsertedHandles, Inserting
    <2>5. ListedHandles \intersect InsertedHandles = {}
      BY DEF IdInv, UniqueIds, InsertedHandles
    <2>6. ListedHandles \subseteq allocated
      BY DEF ListedHandles, Listed, TypeOK
    <2>7. ASSUME NEW p \in Procs, pc'[p] \in Named
          PROVE  obj'[p] \notin InsertedHandles
                 /\ (obj'[p] \in ListedHandles' => jobs'[id'[p]] = obj'[p])
      <3>1. CASE pc[p] \in Named /\ id'[p] = id[p] /\ obj'[p] = obj[p]
        <4>1. obj[p] \notin InsertedHandles
              /\ (obj[p] \in ListedHandles => jobs[id[p]] = obj[p])
          BY <3>1 DEF HandleInv
        <4>2. ASSUME obj[p] \in ListedHandles' PROVE id[p] \in Listed'
          <5>1. PICK i \in Listed' : jobs'[i] = obj[p]
            BY <4>2 DEF ListedHandles
          <5>2. i \in Listed /\ jobs[i] = obj[p] /\ jobs[id[p]] = obj[p]
            BY <2>1, <2>2, <4>1, <4>2, <5>1
          <5>3. id[p] \in Listed
            BY <5>2 DEF Listed, TypeOK
          <5> QED BY <5>1, <5>2, <5>3 DEF IdInv, UniqueIds
        <4> QED BY <2>1, <2>2, <3>1, <4>1, <4>2
      <3>2. CASE jobs' = jobs /\ id'[p] \in Listed /\ obj'[p] = jobs[id'[p]]
        BY <2>5, <3>2 DEF ListedHandles
      <3> QED BY <1>3, <2>7, <3>1, <3>2 DEF Gentle, MayUse, Named
    <2>8. ASSUME NEW h \in Handles, token'[h] PROVE h \in allocated \ InsertedHandles
      <3>1. CASE \E p \in Procs : pc[p] \in Named /\ obj[p] = h
        BY <3>1, HandlesAssumption DEF HandleInv, TypeOK
      <3> QED BY <1>3, <2>5, <2>6, <2>8, <3>1 DEF Gentle, HandleInv
    <2> QED BY <1>3, <2>4, <2>7, <2>8 DEF HandleInv, Gentle
  <1> QED BY <1>1, <1>2, <1>3, HandleSteps

(* Every reachable state satisfies the invariants together.                *)
LEMMA HandlesKept == Spec => [](TypeOK /\ IdInv /\ HandleInv)
  <1>1. Init => IdInv
    BY ProcsFacts DEF Init, IdInv, UniqueIds, Creating, Inserting, Listed, ListedHandles
  <1>2. Init => HandleInv
    BY DEF Init, HandleInv, Named
  <1> QED BY <1>1, <1>2, TypeCorrect, NextIdInv, NextHandleInv, PTL DEF Spec

-----------------------------------------------------------------------------
(* Cancelled jobs                                                          *)

(* Whatever state a job is in, cancel_job can still end it.                *)
LEMMA CanCancel ==
  \A s \in JobStates : ~IsTerminal(s) => CanTransitionTo(s, "Canceled")
  BY DEF JobStates, IsTerminal, Terminal, CanTransitionTo, Successors

(* The calls that are in the middle of ending a job, and the steps that    *)
(* have nothing to do with it.                                             *)
Ends(p) ==
  \/ pc[p] \in {"cancel_transition", "remove"}
  \/ pc[p] = "transition" /\ target[p] = "Canceled"

Unrelated ==
  /\ UNCHANGED <<jobs, state, token>>
  /\ \A p \in Procs : Ends(p) => Ends(p)' /\ obj'[p] = obj[p]

(* All steps but these are unrelated.                                      *)
LEMMA CancelSteps ==
  ASSUME TypeOK, [Next]_vars
  PROVE  \/ \E t \in Threads : \/ CreateInsert(t) \/ TransitionRefused(t)
                               \/ TransitionState(t) \/ CancelToken(t) \/ CancelTransition(t)
         \/ \E p \in Procs : CleanupRemove(p)
         \/ \E p \in Procs, i \in Ids : CleanupLookup(p, i) /\ pc[p] \in {"idle", "reap"}
         \/ Unrelated
  <1> USE ProcsFacts DEF Unrelated, Ends
  <1>1. ASSUME NEW t \in Threads, Create(t), ~CreateInsert(t) PROVE Unrelated
    <2>1. CASE CreateCheck(t) \/ CreateFetch(t) \/ CreateRefetch(t)
      BY <2>1 DEF CreateCheck, CreateFetch, CreateRefetch, FetchAdd, Goto, TypeOK
    <2>2. CASE CreateExists(t) \/ CreateStamp(t)
      BY <2>2 DEF CreateExists, CreateStamp, Return, TypeOK
    <2>3. ASSUME NEW h \in Handles, CreateHandle(t, h) PROVE Unrelated
      BY <2>3 DEF CreateHandle, Goto, TypeOK
    <2> QED BY <1>1, <2>1, <2>2, <2>3 DEF Create
  <1>2. ASSUME NEW t \in Threads, NEW i \in Ids, NEW s \in NewStates, TransitionLookup(t, i, s)
        PROVE  Unrelated
    BY <1>2 DEF TransitionLookup, Goto, TypeOK
  <1>3. ASSUME NEW t \in Threads, NEW i \in Ids, CancelLookup(t, i) PROVE Unrelated
    BY <1>3 DEF CancelLookup, Goto, TypeOK
  <1>4. ASSUME UNCHANGED <<jobs, state, token, pc, obj, target>> PROVE Unrelated
    BY <1>4
  <1>5. ASSUME NEW p \in Sweepers, NEW label, Goto(p, label), ~Ends(p),
               UNCHANGED <<jobs, state, token, obj, target>>
        PROVE  Unrelated
    BY <1>5 DEF Goto, TypeOK
  <1>6. CASE CleanupIdleJobs \/ ForceCleanupAll
    BY <1>4, <1>5, <1>6 DEF CleanupIdleJobs, SweepStart, ScanTerminal, ScanTerminalBreak,
       ScanIdle, ScanIdleStart, QuietCleanup, NotQuiet, ScanIdleDone, ForceCleanupAll, At
  <1>7. ASSUME NEW p \in Sweepers, SweepDone(p) PROVE Unrelated
    BY <1>5, <1>7 DEF SweepDone, At
  <1>8. ASSUME NEW p \in Sweepers, NEW i \in Ids, Reap(p, i), ~CleanupLookup(p, i)
        PROVE  Unrelated
    BY <1>4, <1>8 DEF Reap
  <1>9. ASSUME NEW i \in Ids, UpdateActivity(i) PROVE Unrelated
    BY <1>4, <1>9 DEF UpdateActivity
  <1>10. ASSUME NEW d \in ClockMoves, Tick(d) PROVE Unrelated
    BY <1>4, <1>10 DEF Tick
  <1>11. CASE UNCHANGED vars
    BY <1>4, <1>11 DEF vars
  <1> HIDE DEF Unrelated
  <1> QED
    BY <1>1, <1>2, <1>3, <1>6, <1>7, <1>8, <1>9, <1>10, <1>11
    DEF Next, Create, Transition, Cancel, Cleanup, CleanupJob, Sweep, Reap, At

(* Every step keeps the cancelled jobs on their way to an end.             *)
LEMMA NextCancelledHasEnded ==
  TypeOK /\ IdInv /\ HandleInv /\ CancelledHasEnded /\ [Next]_vars => CancelledHasEnded'
  <1> SUFFICES ASSUME TypeOK, IdInv, HandleInv, CancelledHasEnded, [Next]_vars,
                      NEW h \in ListedHandles', token'[h], ~Ending(h)'
               PROVE  IsTerminal(state'[h])
    BY DEF CancelledHasEnded
  <1> USE ProcsFacts
  <1>0. h \in Handles
    <2>1. TypeOK'
      BY NextTypeOK
    <2> QED BY <2>1 DEF TypeOK, ListedHandles, Listed
  <1>1. \A p \in Procs : obj'[p] = h => ~Ends(p)'
    BY DEF Ending, Ends
  <1>2. h \in ListedHandles /\ token[h] /\ ~Ending(h) => IsTerminal(state[h])
    BY DEF CancelledHasEnded
  <1>3. ASSUME NEW t \in Threads, CreateInsert(t) PROVE IsTerminal(state'[h])
    <2>1. /\ UNCHANGED <<obj, state, token, target>>
          /\ pc[t] = "insert" /\ pc' = [pc EXCEPT ![t] = "stamp"]
          /\ jobs' = [jobs EXCEPT ![id[t]] = obj[t]]
      BY <1>3 DEF CreateInsert, Goto
    <2>2. h \in ListedHandles \union {obj[t]}
      BY <2>1 DEF ListedHandles, Listed, TypeOK
    <2>3. ~token[obj[t]]
      BY <1>0, <2>1 DEF HandleInv, InsertedHandles, Inserting, TypeOK
    <2>4. ~Ending(h)
      BY <1>1, <2>1 DEF Ending, Ends, TypeOK
    <2> QED BY <1>2, <2>1, <2>2, <2>3, <2>4
  <1>4. ASSUME NEW t \in Threads, TransitionRefused(t) PROVE IsTerminal(state'[h])
    <2>1. /\ UNCHANGED <<jobs, state, token>>
          /\ \A p \in Procs \ {t} : obj'[p] = obj[p] /\ pc'[p] = pc[p] /\ target'[p] = target[p]
          /\ pc[t] = "transition" /\ ~CanTransitionTo(state[obj[t]], target[t])
      BY <1>4 DEF TransitionRefused, Return, TypeOK
    <2>2. CASE obj[t] = h /\ target[t] = "Canceled"
      BY <1>0, <2>1, <2>2, CanCancel DEF TypeOK
    <2>3. CASE ~(obj[t] = h /\ target[t] = "Canceled")
      <3>1. ~Ending(h)
        BY <1>1, <2>1, <2>3 DEF Ending, Ends
      <3> QED BY <1>2, <2>1, <3>1 DEF ListedHandles, Listed
    <2> QED BY <2>2, <2>3
  <1>5. ASSUME NEW t \in Threads, TransitionState(t) PROVE IsTerminal(state'[h])
    <2>1. /\ UNCHANGED <<jobs, token>>
          /\ \A p \in Procs \ {t} : obj'[p] = obj[p] /\ pc'[p] = pc[p] /\ target'[p] = target[p]
          /\ pc[t] = "transition" /\ CanTransitionTo(state[obj[t]], target[t])
          /\ state' = [state EXCEPT ![obj[t]] = target[t]]
      BY <1>5 DEF TransitionState, Return, TypeOK
    <2>2. CASE obj[t] = h /\ target[t] = "Canceled"
      BY <1>0, <2>1, <2>2 DEF TypeOK, IsTerminal, Terminal
    <2>3. CASE ~(obj[t] = h /\ target[t] = "Canceled")
      <3>1. ~Ending(h)
        BY <1>1, <2>1, <2>3 DEF Ending, Ends
      <3>2. IsTerminal(state[h])
        BY <1>2, <2>1, <3>1 DEF ListedHandles, Listed
      <3>3. obj[t] # h
        BY <2>1, <3>2, TerminalIsFinal
      <3> QED BY <1>0, <2>1, <3>2, <3>3 DEF TypeOK
    <2> QED BY <2>2, <2>3
  <1>6. ASSUME NEW t \in Threads, CancelToken(t) PROVE IsTerminal(state'[h])
    <2>1. /\ UNCHANGED <<jobs, state, obj, target>>
          /\ token' = [token EXCEPT ![obj[t]] = TRUE]
          /\ pc[t] = "cancel_token" /\ pc' = [pc EXCEPT ![t] = "cancel_transition"]
      BY <1>6 DEF CancelToken, Goto
    <2>2. obj[t] # h
      BY <1>1, <2>1 DEF Ends, TypeOK
    <2>3. token[h] /\ ~Ending(h)
      BY <1>0, <1>1, <2>1, <2>2 DEF Ending, Ends, TypeOK
    <2> QED BY <1>2, <2>1, <2>3 DEF ListedHandles, Listed
  <1>7. ASSUME NEW t \in Threads, CancelTransition(t) PROVE IsTerminal(state'[h])
    <2>1. /\ UNCHANGED <<jobs, state, token>>
          /\ \A p \in Procs \ {t} : obj'[p] = obj[p] /\ pc'[p] = pc[p] /\ target'[p] = target[p]
          /\ pc[t] = "cancel_transition"
      BY <1>7 DEF CancelTransition, Goto, Return, TypeOK
    <2>2. ASSUME id[t] \in Listed
          PROVE  obj'[t] = jobs[id[t]] /\ pc'[t] = "transition" /\ target'[t] = "Canceled"
      BY <1>7, <2>2 DEF CancelTransition, Goto, TypeOK
    <2>3. h \in ListedHandles
      BY <2>1 DEF ListedHandles, Listed
    <2>4. ASSUME obj[t] = h PROVE FALSE
      <3>1. jobs[id[t]] = h
        BY <2>1, <2>3, <2>4 DEF HandleInv, Named
      <3>2. id[t] \in Listed
        BY <1>0, <3>1, HandlesAssumption DEF Listed, TypeOK
      <3> QED BY <1>1, <2>2, <3>1, <3>2 DEF Ends
    <2>5. ~Ending(h)
      BY <1>1, <2>1, <2>4 DEF Ending, Ends
    <2> QED BY <1>2, <2>1, <2>3, <2>5
  <1>8. ASSUME NEW p \in Procs, CleanupRemove(p) PROVE IsTerminal(state'[h])
    <2>1. /\ UNCHANGED <<state, token>>
          /\ \A q \in Procs \ {p} : obj'[q] = obj[q] /\ pc'[q] = pc[q] /\ target'[q] = target[q]
          /\ pc[p] = "remove"
          /\ jobs' = [jobs EXCEPT ![id[p]] = None]
      BY <1>8 DEF CleanupRemove, Return, TypeOK
    <2>2. PICK i \in Ids : i # id[p] /\ jobs[i] = h /\ i \in Listed
      BY <2>1 DEF ListedHandles, Listed, TypeOK
    <2>3. obj[p] # h
      <3>1. ASSUME obj[p] = h PROVE FALSE
        <4>1. jobs[id[p]] = h
          BY <2>1, <2>2, <3>1 DEF HandleInv, Named, ListedHandles
        <4>2. id[p] \in Listed
          BY <1>0, <4>1, HandlesAssumption DEF Listed, TypeOK
        <4> QED BY <2>2, <4>1, <4>2 DEF IdInv, UniqueIds
      <3> QED BY <3>1
    <2>4. ~Ending(h)
      BY <1>1, <2>1, <2>3 DEF Ending, Ends
    <2> QED BY <1>2, <2>1, <2>2, <2>4 DEF ListedHandles
  <1>9. ASSUME NEW p \in Procs, NEW i \in Ids, CleanupLookup(p, i), pc[p] \in {"idle", "reap"}
        PROVE  IsTerminal(state'[h])
    <2>1. /\ UNCHANGED <<jobs, state, target>>
          /\ token' = [token EXCEPT ![jobs[i]] = TRUE]
          /\ obj' = [obj EXCEPT ![p] = jobs[i]]
          /\ pc' = [pc EXCEPT ![p] = "remove"]
      BY <1>9 DEF CleanupLookup, Goto
    <2>2. jobs[i] # h
      BY <1>1, <2>1 DEF Ends, TypeOK
    <2>3. token[h] /\ ~Ending(h)
      BY <1>0, <1>1, <1>9, <2>1, <2>2 DEF Ending, Ends, TypeOK
    <2> QED BY <1>2, <2>1, <2>3 DEF ListedHandles, Listed
  <1>10. CASE Unrelated
    <2>1. ~Ending(h)
      BY <1>1, <1>10 DEF Unrelated, Ending, Ends
    <2> QED BY <1>2, <1>10, <2>1 DEF Unrelated, ListedHandles, Listed
  <1> QED BY <1>3, <1>4, <1>5, <1>6, <1>7, <1>8, <1>9, <1>10, CancelSteps

(* No call of cancel_job or cleanup_job, however it is interleaved with    *)
(* others on the same job, leaves a job in the registry that has been      *)
(* cancelled and still counts as active.                                   *)
THEOREM CancelledJobsEnd == Spec => []CancelledHasEnded
  <1>1. Init => CancelledHasEnded
    BY DEF Init, CancelledHasEnded, ListedHandles, Listed
  <1> QED BY <1>1, HandlesKept, NextCancelledHasEnded, PTL DEF Spec

-----------------------------------------------------------------------------
(* The shutdown                                                            *)

(* The steps that leave the registry and the shutdown's list alone.        *)
Aside ==
  /\ UNCHANGED jobs
  /\ Closer \in Sweepers =>
       /\ todo'[Closer] = todo[Closer]
       /\ pc[Closer] = "remove" => pc'[Closer] = "remove" /\ id'[Closer] = id[Closer]

(* All steps but these leave both alone.                                   *)
LEMMA ShutdownSteps ==
  ASSUME TypeOK, [Next]_vars
  PROVE  \/ \E t \in Threads : CreateInsert(t)
         \/ \E p \in Procs : CleanupRemove(p)
         \/ \E i \in Ids : Reap(Closer, i)
         \/ ForceCleanupAll
         \/ Aside
  <1> USE ProcsFacts, ProcsAssumption DEF Aside
  <1>1. ASSUME NEW t \in Threads, Create(t), ~CreateInsert(t) PROVE Aside
    BY <1>1 DEF Create, CreateCheck, CreateFetch, CreateRefetch, FetchAdd, CreateExists,
       CreateHandle, CreateStamp, Goto, Return, TypeOK
  <1>2. ASSUME NEW t \in Threads, Transition(t) PROVE Aside
    BY <1>2 DEF Transition, TransitionLookup, TransitionRefused, TransitionState, Goto,
       Return, TypeOK
  <1>3. ASSUME NEW t \in Threads, Cancel(t) PROVE Aside
    BY <1>3 DEF Cancel, CancelLookup, CancelToken, CancelTransition, Goto, Return, TypeOK
  <1>4. ASSUME NEW t \in Threads, NEW i \in Ids, CleanupJob(t, i) PROVE Aside
    BY <1>4 DEF CleanupJob, CleanupLookup, Goto, TypeOK
  <1>5. ASSUME NEW i \in Ids, UpdateActivity(i) PROVE Aside
    BY <1>5 DEF UpdateActivity
  <1>6. CASE CleanupIdleJobs
    BY <1>6 DEF CleanupIdleJobs, SweepStart, ScanIdleStart, ScanTerminal,
       ScanTerminalBreak, QuietCleanup, NotQuiet, ScanIdle, ScanIdleDone, At, Goto, TypeOK
  <1>7. ASSUME NEW p \in Sweepers, SweepDone(p) PROVE Aside
    BY <1>7 DEF SweepDone, At, Goto, TypeOK
  <1>8. ASSUME NEW p \in Sweepers, p # Closer, NEW i \in Ids, Reap(p, i) PROVE Aside
    BY <1>8 DEF Reap, CleanupLookup, Goto, TypeOK
  <1>9. ASSUME NEW d \in ClockMoves, Tick(d) PROVE Aside
    BY <1>9 DEF Tick
  <1>10. CASE UNCHANGED vars
    BY <1>10 DEF vars
  <1> HIDE DEF Aside
  <1> QED BY <1>1, <1>2, <1>3, <1>4, <1>5, <1>6, <1>7, <1>8, <1>9, <1>10
          DEF Next, Cleanup, Sweep

(* A job leaves the shutdown's list only by leaving the registry.          *)
LEMMA StepMissesNone ==
  ASSUME TypeOK, IdInv, [Next]_vars, NEW h \in Handles, ForClosing(h)
  PROVE  ForClosing(h)' \/ h \notin ListedHandles'
  <1> USE ProcsFacts, ProcsAssumption
  <1>0. PICK i \in Listed :
          jobs[i] = h /\ (i \in todo[Closer] \/ (pc[Closer] = "remove" /\ id[Closer] = i))
    BY DEF ForClosing
  <1>1. Closer \in Sweepers /\ i \in Ids
    BY DEF ForClosing, Listed
  <1>2. ASSUME NEW t \in Threads, CreateInsert(t) PROVE ForClosing(h)'
    <2>1. /\ UNCHANGED <<todo, id>> /\ pc'[Closer] = pc[Closer]
          /\ jobs' = [jobs EXCEPT ![id[t]] = obj[t]]
          /\ t \in Inserting
      BY <1>1, <1>2 DEF CreateInsert, Goto, Inserting, TypeOK
    <2>2. id[t] # i
      BY <2>1 DEF IdInv, UniqueIds
    <2>3. jobs'[i] = h /\ i \in Listed'
      BY <1>0, <1>1, <2>1, <2>2 DEF Listed, TypeOK
    <2> QED BY <1>0, <1>1, <2>1, <2>3 DEF ForClosing
  <1>3. ASSUME NEW p \in Procs, CleanupRemove(p)
        PROVE  ForClosing(h)' \/ h \notin ListedHandles'
    <2>1. /\ UNCHANGED todo
          /\ jobs' = [jobs EXCEPT ![id[p]] = None]
          /\ p # Closer => pc'[Closer] = pc[Closer] /\ id'[Closer] = id[Closer]
          /\ pc[p] = "remove"
      BY <1>1, <1>3 DEF CleanupRemove, Return, TypeOK
    <2>2. CASE id[p] = i
      <3>1. ASSUME NEW k \in Listed', jobs'[k] = h PROVE FALSE
        <4>1. k \in Listed /\ jobs[k] = h /\ k # i
          BY <1>1, <2>1, <2>2, <3>1 DEF Listed, TypeOK
        <4> QED BY <1>0, <4>1 DEF IdInv, UniqueIds
      <3> QED BY <3>1 DEF ListedHandles
    <2>3. CASE id[p] # i
      <3>1. jobs'[i] = h /\ i \in Listed'
        BY <1>0, <1>1, <2>1, <2>3 DEF Listed, TypeOK
      <3>2. p = Closer => i \in todo[Closer]
        BY <1>0, <2>1, <2>3
      <3> QED BY <1>0, <1>1, <2>1, <3>1, <3>2 DEF ForClosing
    <2> QED BY <2>2, <2>3
  <1>4. ASSUME NEW k \in Ids, Reap(Closer, k) PROVE ForClosing(h)'
    <2>1. /\ UNCHANGED jobs /\ todo'[Closer] = todo[Closer] \ {k}
          /\ pc[Closer] = "reap"
          /\ k \in Listed => pc'[Closer] = "remove" /\ id'[Closer] = k
      BY <1>1, <1>4 DEF Reap, LeftToReap, CleanupLookup, At, Goto, TypeOK
    <2>2. i \in todo[Closer]
      BY <1>0, <2>1
    <2> QED BY <1>0, <1>1, <2>1, <2>2 DEF ForClosing, Listed
  <1>5. ASSUME ForceCleanupAll PROVE ForClosing(h)'
    <2>1. UNCHANGED jobs /\ todo'[Closer] = Listed
      BY <1>1, <1>5 DEF ForceCleanupAll, TypeOK
    <2> QED BY <1>0, <1>1, <2>1 DEF ForClosing, Listed
  <1>6. ASSUME Aside PROVE ForClosing(h)'
    BY <1>0, <1>1, <1>6 DEF Aside, ForClosing, Listed
  <1> QED BY <1>2, <1>3, <1>4, <1>5, <1>6, ShutdownSteps

(* A job that force_cleanup_all has collected stays on its list until the  *)
(* job is out of the registry, whatever the other callers do: its loop     *)
(* ends only when every one of them is gone.                               *)
THEOREM ShutdownComplete == Spec => ShutdownMissesNone
  <1>1. TypeOK /\ IdInv /\ [Next]_vars
          => [\A h \in Handles : ForClosing(h) => ForClosing(h)' \/ h \notin ListedHandles']_vars
    BY StepMissesNone
  <1> QED BY <1>1, HandlesKept, PTL DEF Spec, ShutdownMissesNone

-----------------------------------------------------------------------------
(* Cleaning up by id                                                       *)

(* cleanup_job looks a job up and, some steps later, removes whatever is   *)
(* listed under its id: when it returns, the job it looked up is not in    *)
(* the registry, whoever removed that job or took the id over meanwhile.   *)
CleanedIsGone ==
  [][\A p \in Procs : pc[p] = "remove" /\ pc'[p] # "remove" => obj[p] \notin ListedHandles']_vars

(* A call leaves this point by removing the id.                            *)
LEMMA RemoveSteps ==
  ASSUME TypeOK, [Next]_vars, NEW p \in Procs, pc[p] = "remove", pc'[p] # "remove"
  PROVE  CleanupRemove(p)
  <1> USE ProcsFacts
  <1>1. ASSUME NEW t \in Threads, Create(t) PROVE FALSE
    BY <1>1 DEF Create, CreateCheck, CreateFetch, CreateRefetch, FetchAdd, CreateExists,
       CreateHandle, CreateInsert, CreateStamp, Goto, Return, TypeOK
  <1>2. ASSUME NEW t \in Threads, Transition(t) PROVE FALSE
    BY <1>2 DEF Transition, TransitionLookup, TransitionState, TransitionRefused, Goto, Return, TypeOK
  <1>3. ASSUME NEW t \in Threads, Cancel(t) PROVE FALSE
    BY <1>3 DEF Cancel, CancelLookup, CancelToken, CancelTransition, Goto, Return, TypeOK
  <1>4. ASSUME NEW t \in Threads, Cleanup(t) PROVE CleanupRemove(p)
    BY <1>4 DEF Cleanup, CleanupJob, CleanupLookup, CleanupRemove, Goto, Return, TypeOK
  <1>5. ASSUME NEW i \in Ids, UpdateActivity(i) PROVE FALSE
    BY <1>5 DEF UpdateActivity
  <1>6. CASE CleanupIdleJobs \/ ForceCleanupAll
    BY <1>6 DEF CleanupIdleJobs, SweepStart, ScanIdleStart, ScanTerminal, ForceCleanupAll,
       ScanTerminalBreak, QuietCleanup, NotQuiet, ScanIdle, ScanIdleDone, At, Goto, TypeOK
  <1>7. ASSUME NEW q \in Sweepers, Sweep(q) PROVE CleanupRemove(p)
    <2>1. ASSUME NEW i \in Ids, Reap(q, i) PROVE FALSE
      BY <2>1 DEF Reap, CleanupLookup, At, Goto, TypeOK
    <2>2. CASE SweepDone(q)
      BY <2>2 DEF SweepDone, At, Goto, TypeOK
    <2>3. CASE CleanupRemove(q)
      <3>1. p = q
        BY <2>3 DEF CleanupRemove, Return, TypeOK
      <3> QED BY <2>3, <3>1
    <2> QED BY <1>7, <2>1, <2>2, <2>3 DEF Sweep
  <1>8. ASSUME NEW d \in ClockMoves, Tick(d) PROVE FALSE
    BY <1>8 DEF Tick
  <1>9. CASE UNCHANGED vars
    BY <1>9 DEF vars
  <1> QED BY <1>1, <1>2, <1>3, <1>4, <1>5, <1>6, <1>7, <1>8, <1>9 DEF Next

(* Theorem: once cleanup_job has removed the id, the job it looked up is   *)
(* gone, for every number of callers and both sweeps.                      *)
THEOREM CleanupRemovesItsJob == Spec => CleanedIsGone
  <1>1. ASSUME TypeOK, IdInv, HandleInv, [Next]_vars,
               NEW p \in Procs, pc[p] = "remove", pc'[p] # "remove"
        PROVE  obj[p] \notin ListedHandles'
    <2>1. /\ jobs' = [jobs EXCEPT ![id[p]] = None]
          /\ id[p] \in Ids
      BY <1>1, RemoveSteps DEF CleanupRemove, TypeOK
    <2>2. SUFFICES ASSUME NEW i \in Ids, jobs'[i] # None, jobs'[i] = obj[p] PROVE FALSE
      BY DEF ListedHandles, Listed
    <2>3. i # id[p] /\ jobs[i] = obj[p]
      BY <1>1, <2>1, <2>2 DEF TypeOK
    <2>4. jobs[id[p]] = obj[p] /\ obj[p] # None
      BY <1>1, <2>2, <2>3 DEF HandleInv, Named, ListedHandles, Listed
    <2> QED BY <1>1, <2>3, <2>4, <2>1, <2>2 DEF IdInv, UniqueIds, Listed
  <1>2. TypeOK /\ IdInv /\ HandleInv /\ [Next]_vars
          => [\A p \in Procs : pc[p] = "remove" /\ pc'[p] # "remove"
                                 => obj[p] \notin ListedHandles']_vars
    BY <1>1
  <1> QED BY <1>2, HandlesKept, PTL DEF Spec, CleanedIsGone

-----------------------------------------------------------------------------
(* The refinement                                                          *)

(* The steps that neither list, remove nor end a job.                      *)
Invisible ==
  /\ UNCHANGED <<jobs, allocated, state>>
  /\ \A t \in Threads : pc'[t] = "insert" <=> pc[t] = "insert"
  /\ \A t \in Inserting : obj'[t] = obj[t]

(* Every step is one of these or invisible to the registry.                *)
LEMMA RegistrySteps ==
  ASSUME TypeOK, [Next]_vars
  PROVE  \/ \E t \in Threads, h \in Handles : CreateHandle(t, h)
         \/ \E t \in Threads : CreateInsert(t) \/ TransitionState(t)
         \/ \E p \in Procs : CleanupRemove(p)
         \/ Invisible
  <1> USE ProcsFacts DEF Invisible, Inserting
  <1>1. ASSUME NEW t \in Threads, Create(t), ~CreateInsert(t),
               \A h \in Handles : ~CreateHandle(t, h)
        PROVE  Invisible
    BY <1>1 DEF Create, CreateCheck, CreateFetch, CreateRefetch, FetchAdd, CreateExists,
       CreateStamp, Goto, Return, TypeOK
  <1>2. ASSUME NEW t \in Threads, Transition(t), ~TransitionState(t) PROVE Invisible
    BY <1>2 DEF Transition, TransitionLookup, TransitionRefused, Goto, Return, TypeOK
  <1>3. ASSUME NEW t \in Threads, Cancel(t) PROVE Invisible
    BY <1>3 DEF Cancel, CancelLookup, CancelToken, CancelTransition, Goto, Return, TypeOK
  <1>4. ASSUME NEW t \in Threads, NEW i \in Ids, CleanupJob(t, i) PROVE Invisible
    BY <1>4 DEF CleanupJob, CleanupLookup, Goto, TypeOK
  <1>5. ASSUME NEW i \in Ids, UpdateActivity(i) PROVE Invisible
    BY <1>5 DEF UpdateActivity
  <1>6. CASE CleanupIdleJobs \/ ForceCleanupAll
    BY <1>6 DEF CleanupIdleJobs, SweepStart, ScanIdleStart, ScanTerminal, ForceCleanupAll,
       ScanTerminalBreak, QuietCleanup, NotQuiet, ScanIdle, ScanIdleDone, At, Goto, TypeOK
  <1>7. ASSUME NEW p \in Sweepers, Sweep(p), ~CleanupRemove(p) PROVE Invisible
    BY <1>7 DEF Sweep, Reap, SweepDone, CleanupLookup, Goto, TypeOK
  <1>8. ASSUME NEW d \in ClockMoves, Tick(d) PROVE Invisible
    BY <1>8 DEF Tick
  <1>9. CASE UNCHANGED vars
    BY <1>9 DEF vars
  <1> HIDE DEF Invisible
  <1> QED BY <1>1, <1>2, <1>3, <1>4, <1>5, <1>6, <1>7, <1>8, <1>9 DEF Next, Cleanup

(* Every step of the job manager is a step of the registry, or none.       *)
LEMMA StepImplements ==
  ASSUME TypeOK, IdInv, HandleInv, [Next]_vars
  PROVE  [Registry!Next]_(Registry!vars)
  <1> USE ProcsFacts DEF Registry!vars
  <1>0. Retired = allocated \ (ListedHandles \union InsertedHandles)
        /\ Retired' = allocated' \ (ListedHandles' \union InsertedHandles')
    BY DEF Retired, InsertedHandles
  <1>1. ListedHandles \subseteq allocated
        /\ ListedHandles \intersect InsertedHandles = {}
    BY DEF IdInv, UniqueIds, InsertedHandles, ListedHandles, Listed, TypeOK
  <1>2. ASSUME NEW t \in Threads, NEW h \in Handles, CreateHandle(t, h)
        PROVE  UNCHANGED <<ListedHandles, Retired, Verdict>>
    <2>1. /\ UNCHANGED <<jobs, state>> /\ pc[t] = "contains"
          /\ obj' = [obj EXCEPT ![t] = h] /\ pc' = [pc EXCEPT ![t] = "insert"]
          /\ h \notin allocated /\ allocated' = allocated \union {h}
      BY <1>2 DEF CreateHandle, Goto
    <2>2. InsertedHandles' = InsertedHandles \union {h}
      BY <2>1 DEF InsertedHandles, Inserting, TypeOK
    <2>3. UNCHANGED ListedHandles
      BY <2>1 DEF ListedHandles, Listed
    <2>4. UNCHANGED Verdict
      BY <2>1 DEF Verdict
    <2> QED BY <1>0, <2>1, <2>2, <2>3, <2>4
  <1>3. ASSUME NEW t \in Threads, CreateInsert(t) PROVE Registry!Admit(obj[t])
    <2>1. /\ UNCHANGED <<id, obj, allocated, state>>
          /\ pc[t] = "insert" /\ pc' = [pc EXCEPT ![t] = "stamp"]
          /\ jobs' = [jobs EXCEPT ![id[t]] = obj[t]]
      BY <1>3 DEF CreateInsert, Goto
    <2>2. t \in Inserting /\ Inserting' = Inserting \ {t}
      BY <2>1 DEF Inserting, TypeOK
    <2>3. InsertedHandles' = InsertedHandles \ {obj[t]} /\ obj[t] \in InsertedHandles
      BY <2>1, <2>2 DEF InsertedHandles, IdInv, UniqueIds
    <2>4. id[t] \notin Listed /\ id[t] \in Ids /\ obj[t] # None
      BY <2>1, <2>2 DEF IdInv, UniqueIds, TypeOK
    <2>5. Listed' = Listed \union {id[t]}
          /\ jobs'[id[t]] = obj[t] /\ \A i \in Listed : jobs'[i] = jobs[i]
      BY <2>1, <2>4 DEF Listed, TypeOK
    <2>6. ListedHandles' = ListedHandles \union {obj[t]}
      BY <2>5 DEF ListedHandles
    <2>7. Retired' = Retired
      BY <1>0, <2>1, <2>3, <2>6
    <2>8. UNCHANGED Verdict
      BY <2>1 DEF Verdict
    <2>9. obj[t] \notin ListedHandles \union Retired
      BY <1>0, <1>1, <2>3
    <2> QED BY <2>6, <2>7, <2>8, <2>9 DEF Registry!Admit
  <1>4. ASSUME NEW t \in Threads, TransitionState(t)
        PROVE  \/ Registry!Settle(obj[t], target[t]) /\ target[t] \in Terminal
               \/ UNCHANGED <<ListedHandles, Retired, Verdict>>
    <2>1. /\ UNCHANGED <<jobs, allocated>>
          /\ pc[t] = "transition" /\ CanTransitionTo(state[obj[t]], target[t])
          /\ state' = [state EXCEPT ![obj[t]] = target[t]]
      BY <1>4 DEF TransitionState
    <2>2. obj[t] \in allocated /\ obj[t] \in Handles /\ obj[t] \notin InsertedHandles
      BY <2>1 DEF HandleInv, Named, TypeOK
    <2>3. UNCHANGED ListedHandles
      BY <2>1 DEF ListedHandles, Listed
    <2>4. InsertedHandles' = InsertedHandles
      <3>1. \A u \in Threads :
              /\ pc'[u] = "insert" <=> pc[u] = "insert"
              /\ u \in Inserting => obj'[u] = obj[u]
        BY <1>4, <2>1 DEF TransitionState, Return, Inserting, TypeOK
      <3> QED BY <3>1 DEF InsertedHandles, Inserting
    <2>5. UNCHANGED Retired
      BY <1>0, <2>1, <2>3, <2>4
    <2>6. obj[t] \in ListedHandles \union Retired
      BY <1>0, <2>2
    <2>7. ~IsTerminal(state[obj[t]])
      BY <2>1, TerminalIsFinal
    <2>8. Verdict[obj[t]] = None
      BY <2>2, <2>7 DEF Verdict
    <2>9. CASE IsTerminal(target[t])
      <3>1. Verdict' = [Verdict EXCEPT ![obj[t]] = target[t]]
        BY <2>1, <2>2, <2>9 DEF Verdict, TypeOK
      <3> QED BY <2>3, <2>5, <2>6, <2>8, <2>9, <3>1 DEF Registry!Settle, IsTerminal
    <2>10. CASE ~IsTerminal(target[t])
      <3>1. \A k \in Handles : Verdict'[k] = Verdict[k]
        BY <2>1, <2>2, <2>7, <2>10 DEF Verdict, TypeOK
      <3>2. UNCHANGED Verdict
        BY <3>1 DEF Verdict
      <3> QED BY <2>3, <2>5, <3>2
    <2> QED BY <2>9, <2>10
  <1>5. ASSUME NEW p \in Procs, CleanupRemove(p)
        PROVE  \/ id[p] \in Listed /\ Registry!Retire(jobs[id[p]])
               \/ UNCHANGED <<ListedHandles, Retired, Verdict>>
    <2>1. /\ UNCHANGED <<allocated, state>>
          /\ pc[p] = "remove"
          /\ jobs' = [jobs EXCEPT ![id[p]] = None]
      BY <1>5 DEF CleanupRemove
    <2>2. InsertedHandles' = InsertedHandles
      <3>1. \A u \in Threads :
              /\ pc'[u] = "insert" <=> pc[u] = "insert"
              /\ u \in Inserting => obj'[u] = obj[u]
        BY <1>5, <2>1 DEF CleanupRemove, Return, Inserting, TypeOK
      <3> QED BY <3>1 DEF InsertedHandles, Inserting
    <2>3. UNCHANGED Verdict
      BY <2>1 DEF Verdict
    <2>4. Listed' = Listed \ {id[p]} /\ \A i \in Listed' : jobs'[i] = jobs[i]
      BY <2>1 DEF Listed, TypeOK
    <2>5. CASE id[p] \in Listed
      <3>1. ListedHandles' = ListedHandles \ {jobs[id[p]]}
        BY <2>4, <2>5 DEF ListedHandles, IdInv, UniqueIds
      <3>2. jobs[id[p]] \in ListedHandles
        BY <2>5 DEF ListedHandles
      <3>3. Retired' = Retired \union {jobs[id[p]]}
        BY <1>0, <1>1, <2>1, <2>2, <3>1, <3>2
      <3> QED BY <2>3, <2>5, <3>1, <3>2, <3>3 DEF Registry!Retire
    <2>6. CASE id[p] \notin Listed
      <3>1. ListedHandles' = ListedHandles
        BY <2>4, <2>6 DEF ListedHandles
      <3> QED BY <1>0, <2>1, <2>2, <2>3, <3>1
    <2> QED BY <2>5, <2>6
  <1>6. ASSUME Invisible PROVE UNCHANGED <<ListedHandles, Retired, Verdict>>
    <2>1. InsertedHandles' = InsertedHandles
      BY <1>6 DEF Invisible, InsertedHandles, Inserting
    <2>2. UNCHANGED <<ListedHandles, Verdict>>
      BY <1>6 DEF Invisible, ListedHandles, Listed, Verdict
    <2> QED BY <1>0, <1>6, <2>1, <2>2 DEF Invisible
  <1>7. \A t \in Threads : pc[t] \in {"insert", "transition"} => obj[t] \in Handles
    BY DEF TypeOK
  <1>8. \A i \in Listed : jobs[i] \in Handles
    BY DEF Listed, TypeOK
  <1> QED BY <1>2, <1>3, <1>4, <1>5, <1>6, <1>7, <1>8, RegistrySteps
          DEF Registry!Next, CreateInsert, TransitionState

(* The job manager implements the abstract registry: no handle is listed   *)
(* twice, no job that has left the registry comes back, and none is given  *)
(* a second verdict, in any interleaving of create_job, transition_state,  *)
(* cancel_job, cleanup_job and the two sweeps.                             *)
THEOREM RefinesRegistry == Spec => ImplementsRegistry
  <1>1. Init => Registry!Init
    BY ProcsFacts DEF Init, Registry!Init, ListedHandles, Listed, Retired, Verdict, Inserting,
       IsTerminal, Terminal
  <1>2. TypeOK /\ IdInv /\ HandleInv /\ [Next]_vars => [Registry!Next]_(Registry!vars)
    BY StepImplements
  <1> QED BY <1>1, <1>2, HandlesKept, PTL DEF Spec, ImplementsRegistry, Registry!Spec

=============================================================================
