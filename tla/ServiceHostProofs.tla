------------------------- MODULE ServiceHostProofs --------------------------
(***************************************************************************)
(* Theorems about ServiceHost and the PipeServer it runs, for any number   *)
(* of pipe instances, jobs and permits.                                    *)
(***************************************************************************)
EXTENDS ServiceHost, FiniteSetTheorems, TLAPS

USE DEF listenVars, linkVars, sessionVars, taskEndVars, jobVars, pipeVars,
        taskVars, signalVars, hostVars

(* A permit is free, or the task of one instance holds it.  At most one    *)
(* instance is created and not served: only while the listener waits for a *)
(* permit, or has ended waiting; and it is spawned once.                   *)
BeforeListener == {"register", "report", "runtime", "pipe"}

ListenInv ==
  /\ permits + Cardinality(Served) = MaxConnections
  /\ \A s, t \in Instances : at[s] = "created" /\ at[t] = "created" => s = t
  /\ listener \in {"off", "create"} => \A s \in Instances : at[s] # "created"
  /\ host \in BeforeListener => listener = "off"

(* The served instances are finitely many.                                 *)
LEMMA ServedFinite == IsFiniteSet(Served) /\ Cardinality(Served) \in Nat
  <1>1. Served \subseteq Instances
    BY DEF Served
  <1> QED BY <1>1, PipeAssumption, FS_Subset, FS_CardinalityType

(* What every step but three does to the listener and its instances.       *)
Still ==
  /\ permits' = permits /\ Served' = Served
  /\ \A s \in Instances : at'[s] = "created" <=> at[s] = "created"
  /\ \/ listener' = listener \/ listener' = "ended"
     \/ host = "pipe" /\ listener' = "create"
  /\ host' \in BeforeListener => host \in BeforeListener /\ listener' = listener

(* Every step of the service is one of these three or Still.               *)
LEMMA ListenSteps ==
  ASSUME TypeOK, ListenInv, [Next]_vars
  PROVE  \/ (CreatePipeInstance \/ Acquire \/ \E s \in Instances : Cleanup(s)) /\ UNCHANGED hostVars
         \/ Still
  <1> USE DEF Still, Served, BeforeListener
  <1>1. ASSUME NEW s \in Instances, NEW from, NEW to, Goto(s, from, to),
               from \notin {"none", "created"}, to \notin {"none", "created"},
               UNCHANGED <<permits, listener, host>>
        PROVE  Still
    BY <1>1 DEF Goto, TypeOK, PipeTypeOK, ListenInv
  <1>2. ASSUME UNCHANGED <<permits, at, listener>>,
               host' \in BeforeListener => host \in BeforeListener
        PROVE  Still
    BY <1>2
  <1>3. CASE PipeStep
    <2>1. ASSUME NEW s \in Instances, Serve(s), ~Cleanup(s), UNCHANGED hostVars PROVE Still
      BY <1>1, <2>1 DEF Serve, Connect, HelloLost, RequestsLost, LoopEnds, DrainDone
    <2>2. ASSUME NEW s \in Instances, Request(s) \/ ConnectFails(s), UNCHANGED hostVars
          PROVE  Still
      BY <1>1, <2>2 DEF Request, Hello, HelloRefused, RequestsEnd, LoopEnds, ConnectFails
    <2>3. ASSUME NEW s \in Instances, Write(s), UNCHANGED hostVars PROVE Still
      BY <1>1, <1>2, <2>3 DEF Write, WriteWaits, ClientTakes, WriterBreaks
    <2>4. ASSUME NEW s \in Instances, ClientConnect(s) \/ ClientLeave(s), UNCHANGED hostVars
          PROVE  Still
      BY <1>2, <2>4 DEF ClientConnect, ClientLeave
    <2>5. ASSUME NEW j \in Jobs, JobTasksEnd(j) \/ PumpStuck(j) \/ ThreadsEnd(j),
                 UNCHANGED hostVars
          PROVE  Still
      BY <1>2, <2>5 DEF JobTasksEnd, PumpStuck, ThreadsEnd
    <2>6. ASSUME NEW s \in Instances, NEW j \in Jobs, Run(s, j) \/ RunMuted(s, j),
                 UNCHANGED hostVars
          PROVE  Still
      BY <1>1, <1>2, <2>6 DEF Run, RunMuted
    <2>7. CASE (CreatePipeInstanceFails \/ ListenerAborted) /\ UNCHANGED hostVars
      BY <2>7 DEF CreatePipeInstanceFails, ListenerAborted, ListenInv
    <2> HIDE DEF Still
    <2> QED BY <1>3, <2>1, <2>2, <2>3, <2>4, <2>5, <2>6, <2>7 DEF PipeStep, PipeNext, Listen, Serve
  <1>4. CASE Host
    <2>1. CASE SpawnPipeServer \/ Abort \/ DropRuntime
      BY <2>1 DEF SpawnPipeServer, Abort, DropRuntime, Step
    <2>2. CASE Register \/ ReportRunning \/ NewRuntime \/ ReportStopped
      BY <1>2, <2>2 DEF Register, ReportRunning, NewRuntime, ReportStopped, Step
    <2>3. CASE SpawnFileIpc \/ SpawnCleaner \/ Select \/ SignalReceived \/ Collect \/ CleanupDone
      BY <1>2, <2>3 DEF SpawnFileIpc, SpawnCleaner, Select, SignalReceived, Collect,
         CleanupDone, Step
    <2>4. ASSUME NEW j \in Jobs, CleanupJob(j) PROVE Still
      BY <1>2, <2>4 DEF CleanupJob
    <2> HIDE DEF Still
    <2> QED BY <1>4, <2>1, <2>2, <2>3, <2>4 DEF Host
  <1>5. CASE StartFails \/ CtrlC \/ Stop \/ Exit \/ CleanerEnds \/ FileIpcEnds \/ FileIpcFails
    BY <1>2, <1>5 DEF StartFails, CtrlC, Stop, Exit, CleanerEnds, FileIpcEnds, FileIpcFails, Step
  <1>6. ASSUME NEW j \in Jobs, CleanerSweeps(j) PROVE Still
    BY <1>2, <1>6 DEF CleanerSweeps
  <1>7. CASE UNCHANGED vars
    BY <1>2, <1>7 DEF vars
  <1> HIDE DEF Still
  <1> QED BY <1>3, <1>4, <1>5, <1>6, <1>7 DEF Next

(* Every step keeps the permits and the served instances in balance.       *)
LEMMA NextListenInv == TypeOK /\ ListenInv /\ [Next]_vars => ListenInv'
  <1> SUFFICES ASSUME TypeOK, ListenInv, [Next]_vars PROVE ListenInv'
    OBVIOUS
  <1> USE PipeAssumption, ServedFinite
  <1>0. IsFiniteSet(Served') /\ Cardinality(Served') \in Nat
    <2>1. Served' \subseteq Instances
      BY DEF Served
    <2> QED BY <2>1, FS_Subset, FS_CardinalityType
  <1>1. CASE CreatePipeInstance /\ UNCHANGED hostVars
    <2> DEFINE s == CHOOSE x \in Unused : TRUE
    <2>1. /\ s \in Unused /\ listener = "create" /\ listener' = "acquire"
          /\ at' = [at EXCEPT ![s] = "created"] /\ UNCHANGED <<permits, host>>
      BY <1>1 DEF CreatePipeInstance
    <2> HIDE DEF s
    <2>2. s \in Instances /\ at[s] = "none"
      BY <2>1 DEF Unused
    <2>3. Served' = Served
      BY <2>1, <2>2 DEF Served, TypeOK, PipeTypeOK
    <2>4. \A t \in Instances : at'[t] = "created" => t = s
      BY <2>1, <2>2 DEF ListenInv, TypeOK, PipeTypeOK
    <2> QED BY <2>1, <2>3, <2>4 DEF ListenInv
  <1>2. CASE Acquire /\ UNCHANGED hostVars
    <2>1. PICK s \in Instances : Goto(s, "created", "connect")
      BY <1>2 DEF Acquire
    <2>2. /\ listener = "acquire" /\ listener' = "create"
          /\ permits' = permits - 1 /\ UNCHANGED host
      BY <1>2 DEF Acquire
    <2>3. Served' = Served \union {s} /\ s \notin Served
      BY <2>1 DEF Goto, Served, TypeOK, PipeTypeOK
    <2>4. Cardinality(Served') = Cardinality(Served) + 1
      BY <2>3, FS_AddElement
    <2>5. permits' + Cardinality(Served') = MaxConnections
      BY <2>2, <2>4 DEF ListenInv, TypeOK, PipeTypeOK
    <2>6. \A t \in Instances : at'[t] # "created"
      BY <2>1 DEF Goto, ListenInv, TypeOK, PipeTypeOK
    <2> QED BY <2>2, <2>5, <2>6 DEF ListenInv
  <1>3. ASSUME NEW s \in Instances, Cleanup(s), UNCHANGED hostVars PROVE ListenInv'
    <2>1. /\ at[s] = "cleanup" /\ at' = [at EXCEPT ![s] = "none"]
          /\ permits' = permits + 1 /\ UNCHANGED <<listener, host>>
      BY <1>3 DEF Cleanup, PermitsAfter, Goto
    <2>2. Served' = Served \ {s} /\ s \in Served
      BY <2>1 DEF Served, TypeOK, PipeTypeOK
    <2>3. Cardinality(Served') = Cardinality(Served) - 1
      BY <2>2, FS_RemoveElement
    <2>4. permits' + Cardinality(Served') = MaxConnections
      BY <2>1, <2>3 DEF ListenInv, TypeOK, PipeTypeOK
    <2>5. \A t \in Instances : at'[t] = "created" => at[t] = "created"
      BY <2>1 DEF TypeOK, PipeTypeOK
    <2> QED BY <2>1, <2>4, <2>5 DEF ListenInv
  <1>4. CASE Still
    BY <1>4 DEF Still, ListenInv, BeforeListener
  <1> QED BY <1>1, <1>2, <1>3, <1>4, ListenSteps

(* Types and permits are right at the start.                               *)
LEMMA InitOK == Init => TypeOK /\ ListenInv
  <1> SUFFICES ASSUME Init PROVE TypeOK /\ ListenInv
    OBVIOUS
  <1>1. Served = {}
    BY DEF Init, PipeInit, Served
  <1>2. Cardinality(Served) = 0
    BY <1>1, FS_EmptySet
  <1>3. aborted \in BOOLEAN
    BY Zenon DEF Init, PipeInit
  <1>4. TypeOK
    BY <1>3, PipeAssumption DEF Init, PipeInit, TypeOK, PipeTypeOK, Receivers
  <1> QED BY <1>2, <1>4, PipeAssumption DEF Init, PipeInit, ListenInv

(* With the count of the permits, every step preserves the types.          *)
LEMMA NextTypeOK == TypeOK /\ ListenInv /\ [Next]_vars => TypeOK'
  <1> SUFFICES ASSUME TypeOK, ListenInv, [Next]_vars PROVE TypeOK'
    OBVIOUS
  <1>1. permits' \in 0 .. MaxConnections
    <2>1. Served' \subseteq Instances
      BY DEF Served
    <2>2. Cardinality(Served') \in Nat
      BY <2>1, PipeAssumption, FS_Subset, FS_CardinalityType
    <2>3. permits' + Cardinality(Served') = MaxConnections
      BY NextListenInv DEF ListenInv
    <2>4. permits' \in Nat
      BY PipeAssumption, ListenSteps DEF Still, CreatePipeInstance, Acquire, PermitFree, Cleanup,
         PermitsAfter, TypeOK, PipeTypeOK
    <2> QED BY <2>2, <2>3, <2>4, PipeAssumption
  <1> USE <1>1 DEF TypeOK, PipeTypeOK
  <1>2. CASE PipeStep
    <2>1. CASE CreatePipeInstance /\ UNCHANGED hostVars
      BY <2>1 DEF CreatePipeInstance, Unused
    <2>2. CASE (Acquire \/ CreatePipeInstanceFails \/ ListenerAborted) /\ UNCHANGED hostVars
      BY <2>2 DEF Acquire, CreatePipeInstanceFails, ListenerAborted, Goto
    <2>3. ASSUME NEW s \in Instances, Serve(s), UNCHANGED hostVars PROVE TypeOK'
      BY <2>3 DEF Serve, Connect, HelloLost, RequestsLost, LoopEnds, DrainDone, Cleanup, Goto
    <2>4. ASSUME NEW s \in Instances, Request(s) \/ ConnectFails(s), UNCHANGED hostVars
          PROVE  TypeOK'
      BY <2>4 DEF Request, Hello, HelloRefused, RequestsEnd, LoopEnds, ConnectFails, Goto
    <2>5. ASSUME NEW s \in Instances, Write(s), UNCHANGED hostVars PROVE TypeOK'
      BY <2>5 DEF Write, WriteWaits, ClientTakes, WriterBreaks, Goto
    <2>6. ASSUME NEW s \in Instances, ClientConnect(s) \/ ClientLeave(s), UNCHANGED hostVars
          PROVE  TypeOK'
      BY <2>6 DEF ClientConnect, ClientLeave
    <2>7. ASSUME NEW j \in Jobs, JobTasksEnd(j) \/ PumpStuck(j) \/ ThreadsEnd(j),
                 UNCHANGED hostVars
          PROVE  TypeOK'
      BY <2>7 DEF JobTasksEnd, PumpStuck, ThreadsEnd
    <2>8. ASSUME NEW s \in Instances, NEW j \in Jobs, Run(s, j) \/ RunMuted(s, j),
                 UNCHANGED hostVars
          PROVE  TypeOK'
      BY <2>8 DEF Run, RunMuted, Goto
    <2> HIDE DEF TypeOK
    <2> QED BY <1>2, <2>1, <2>2, <2>3, <2>4, <2>5, <2>6, <2>7, <2>8
            DEF PipeStep, PipeNext, Listen
  <1>3. CASE Host
    <2>1. CASE SpawnPipeServer \/ Abort \/ DropRuntime
      BY <2>1 DEF SpawnPipeServer, Abort, DropRuntime, Step
    <2>2. CASE Register \/ ReportRunning \/ NewRuntime \/ ReportStopped
      BY <2>2 DEF Register, ReportRunning, NewRuntime, ReportStopped, Step
    <2>3. CASE SpawnFileIpc \/ SpawnCleaner \/ Select \/ SignalReceived
      BY <2>3 DEF SpawnFileIpc, SpawnCleaner, Select, SignalReceived, Step, Clone, Receivers
    <2>4. CASE Collect \/ CleanupDone
      BY <2>4 DEF Collect, CleanupDone, Step
    <2>5. ASSUME NEW j \in Jobs, CleanupJob(j) PROVE TypeOK'
      BY <2>5 DEF CleanupJob
    <2> HIDE DEF TypeOK
    <2> QED BY <1>3, <2>1, <2>2, <2>3, <2>4, <2>5 DEF Host
  <1>4. CASE StartFails \/ CtrlC \/ Stop \/ Exit \/ CleanerEnds \/ FileIpcEnds \/ FileIpcFails
    BY <1>4 DEF StartFails, CtrlC, Stop, Exit, CleanerEnds, FileIpcEnds, FileIpcFails, Step
  <1>5. ASSUME NEW j \in Jobs, CleanerSweeps(j) PROVE TypeOK'
    BY <1>5 DEF CleanerSweeps
  <1>6. CASE UNCHANGED vars
    BY <1>6 DEF vars
  <1> HIDE DEF TypeOK
  <1> QED BY <1>2, <1>3, <1>4, <1>5, <1>6 DEF Next

(* And in every state.                                                     *)
LEMMA ListenKept == Spec => [](TypeOK /\ ListenInv)
  BY InitOK, NextTypeOK, NextListenInv, PTL DEF Spec

(* Every variable of the service keeps its type; the free permits never    *)
(* exceed MaxConnections and are never taken below zero.                   *)
THEOREM TypeCorrect == Spec => []TypeOK
  BY ListenKept, PTL

(* On every path through a session, a permit is free or held by one served *)
(* instance, and at most one instance is without: no connection leaks one. *)
THEOREM PermitsNeverLeak == Spec => []PermitsKept
  <1>1. ListenInv => PermitsKept
    BY DEF ListenInv, PermitsKept
  <1> QED BY <1>1, ListenKept, PTL

-----------------------------------------------------------------------------
(* Frame channels                                                          *)

Attended == {"serving", "draining"}

(* Every step keeps the senders with the sessions that are attended.       *)
LEMMA NextSendersServed == TypeOK /\ SendersServed /\ [Next]_vars => SendersServed'
  <1> SUFFICES ASSUME TypeOK, SendersServed, [Next]_vars PROVE SendersServed'
    OBVIOUS
  <1> USE DEF TypeOK, PipeTypeOK, SendersServed
  <1>1. ASSUME NEW s \in Instances, NEW from, NEW to, Goto(s, from, to),
               from \in Attended => to \in Attended, UNCHANGED <<sender, writing>>
        PROVE  SendersServed'
    BY <1>1 DEF Goto, Attended
  <1>2. ASSUME UNCHANGED <<at, sender>>, writing' \subseteq writing PROVE SendersServed'
    BY <1>2
  <1>3. CASE PipeStep
    <2>1. CASE CreatePipeInstance
      BY <2>1 DEF CreatePipeInstance, Unused
    <2>2. CASE Acquire
      BY <1>1, <2>2 DEF Acquire, Attended
    <2>3. CASE CreatePipeInstanceFails \/ ListenerAborted
      BY <1>2, <2>3 DEF CreatePipeInstanceFails, ListenerAborted
    <2>4. ASSUME NEW s \in Instances, Serve(s) PROVE SendersServed'
      <3>1. CASE Connect(s) \/ HelloLost(s) \/ RequestsLost(s) \/ Cleanup(s)
        BY <1>1, <3>1 DEF Connect, HelloLost, RequestsLost, LoopEnds, Cleanup, Attended
      <3>2. CASE DrainDone(s)
        BY <3>2 DEF DrainDone, WriterDone, Goto
      <3> QED BY <2>4, <3>1, <3>2 DEF Serve
    <2>5. ASSUME NEW s \in Instances, Request(s) \/ ConnectFails(s) PROVE SendersServed'
      BY <1>1, <2>5 DEF Request, Hello, HelloRefused, RequestsEnd, LoopEnds, ConnectFails, Attended
    <2>6. ASSUME NEW s \in Instances, Write(s) PROVE SendersServed'
      <3>1. CASE WriteWaits(s)
        BY <3>1, PipeAssumption DEF WriteWaits
      <3>2. CASE ClientTakes(s)
        BY <1>2, <3>2 DEF ClientTakes
      <3>3. CASE WriterBreaks(s)
        BY <3>3, PipeAssumption DEF WriterBreaks, Goto
      <3> QED BY <2>6, <3>1, <3>2, <3>3 DEF Write
    <2>7. ASSUME NEW s \in Instances, ClientConnect(s) \/ ClientLeave(s) PROVE SendersServed'
      BY <1>2, <2>7 DEF ClientConnect, ClientLeave
    <2>8. ASSUME NEW j \in Jobs, JobTasksEnd(j) \/ PumpStuck(j) \/ ThreadsEnd(j)
          PROVE  SendersServed'
      BY <2>8 DEF JobTasksEnd, PumpStuck, ThreadsEnd
    <2>9. ASSUME NEW s \in Instances, NEW j \in Jobs, Run(s, j) PROVE SendersServed'
      BY <2>9 DEF Run
    <2>10. ASSUME NEW s \in Instances, NEW j \in Jobs, RunMuted(s, j) PROVE SendersServed'
      BY <1>1, <2>10 DEF RunMuted, Attended
    <2> HIDE DEF SendersServed
    <2> QED BY <1>3, <2>1, <2>2, <2>3, <2>4, <2>5, <2>6, <2>7, <2>8, <2>9, <2>10
            DEF PipeStep, PipeNext, Listen
  <1>4. CASE Host
    <2>1. CASE DropRuntime
      BY <2>1 DEF DropRuntime
    <2>2. CASE Host /\ ~DropRuntime
      BY <1>2, <2>2 DEF Host, SpawnPipeServer, Abort, Register, ReportRunning, NewRuntime,
         ReportStopped, SpawnFileIpc, SpawnCleaner, Select, SignalReceived, Collect, CleanupDone,
         CleanupJob
    <2> QED BY <1>4, <2>1, <2>2
  <1>5. CASE StartFails \/ CtrlC \/ Stop \/ Exit \/ CleanerEnds \/ FileIpcEnds \/ FileIpcFails
    BY <1>2, <1>5 DEF StartFails, CtrlC, Stop, Exit, CleanerEnds, FileIpcEnds, FileIpcFails
  <1>6. ASSUME NEW j \in Jobs, CleanerSweeps(j) PROVE SendersServed'
    BY <1>2, <1>6 DEF CleanerSweeps
  <1>7. CASE UNCHANGED vars
    BY <1>2, <1>7 DEF vars
  <1> HIDE DEF SendersServed
  <1> QED BY <1>3, <1>4, <1>5, <1>6, <1>7 DEF Next

(* An instance is disconnected and closed only when no write to it is      *)
(* under way and no task of a job can send to its session any more: no     *)
(* frame of one client's job can reach the client who gets the same handle *)
(* value later.                                                            *)
THEOREM FramesStayInSession == Spec => []SendersServed
  <1>1. Init => SendersServed
    BY DEF Init, PipeInit, SendersServed
  <1> QED BY <1>1, TypeCorrect, NextSendersServed, PTL DEF Spec

=============================================================================
