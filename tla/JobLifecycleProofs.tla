------------------------- MODULE JobLifecycleProofs -------------------------
(***************************************************************************)
(* Theorems about JobLifecycle: what holds of one job in every order in    *)
(* which the tasks that share it can run, fail and let go of it.           *)
(***************************************************************************)
EXTENDS JobLifecycle, TLAPS

USE DEF regVars, procVars, codeVars, linkVars

(* A change of who holds the job, and what the last one to let go does.    *)
LEMMA HoldFacts ==
  ASSUME NEW held, Hold(held)
  PROVE  /\ refs' = held
         /\ \/ /\ held # {} \/ handles # "open"
               /\ handles' = handles /\ proc' = proc /\ code' = code
            \/ /\ held = {} /\ handles = "open" /\ handles' = "closed"
               /\ \/ proc = "running" /\ proc' = "terminating" /\ code' = "closed"
                  \/ proc # "running" /\ proc' = proc /\ code' = code
  BY DEF Hold, LastDropped

(* transition_state by id: an allowed transition of a listed job, or none. *)
LEMMA TryTransitionFacts ==
  ASSUME NEW new, TryTransition(new)
  PROVE  /\ token' = token /\ listed' = listed
         /\ \/ state' = new /\ CanTransitionTo(state, new) /\ listed
            \/ state' = state
  BY DEF TryTransition, Allowed

(* The steps of the process, and of the channel and its other end.         *)
ChannelMoves == ChannelFills \/ WriterTakes \/ ClientGone
External == ProcExit \/ ProcDies \/ StrayExit \/ ChannelMoves

(* The conjuncts of TypeOK about the tasks: their labels, and the Arcs.    *)
AtTypes == [run: {"ack", "starting", "launch", "running", "spawn", "failed", "error",
                  "cleanup", "remove", "done"},
            waiter: {"off", "start", "wait", "exiting", "send", "completing", "done"},
            thread: {"off", "loop", "waiting", "ended"},
            monitor: {"off", "check", "timed_out", "cancel", "kill", "await",
                      "fallback", "return", "done"},
            canceller: {"off", "token", "transition"},
            reaper: {"off", "remove"}]

RefsOK ==
  /\ "map" \in refs <=> listed
  /\ "run" \in refs <=> (at.run # "done")
  /\ "waiter" \in refs <=> (at.waiter \notin {"off", "done"})
  /\ "monitor" \in refs <=> (at.monitor \notin {"off", "done"})
  /\ "canceller" \in refs <=> (at.canceller # "off")
  /\ "reaper" \in refs <=> (at.reaper # "off")

(* The tasks that handle_run spawns are not there before it has returned.  *)
Spawned == at.waiter # "off" \/ at.monitor # "off" => at.run = "done"

Placed == at \in AtTypes /\ RefsOK /\ Spawned

(* Every action keeps the Arcs with the tasks that use the job.            *)
LEMMA NextPlaced ==
  ASSUME Placed, [Next]_vars
  PROVE  Placed'
  <1> USE DEF Placed, AtTypes, RefsOK, Spawned, Goto, Step
  <1>1. CASE RunAck
    <2>1. CASE Goto("run", "starting") /\ UNCHANGED procVars
      BY <1>1, <2>1 DEF RunAck
    <2>2. CASE RunFails
      BY <1>1, <2>2, HoldFacts DEF RunAck, RunFails
    <2> QED BY <1>1, <2>1, <2>2 DEF RunAck
  <1>2. ASSUME NEW from, NEW new, NEW to \in {"launch", "spawn"}, RunTransition(from, new, to),
               from # "done"
        PROVE  Placed'
    <2>0. at.run = from /\ listed' = listed
      BY <1>2 DEF RunTransition, TryTransition
    <2>1. CASE Goto("run", to) /\ UNCHANGED <<procVars, linkVars>>
      BY <1>2, <2>0, <2>1
    <2>2. CASE RunFails
      BY <2>0, <2>2, HoldFacts DEF RunFails
    <2> QED BY <1>2, <2>1, <2>2 DEF RunTransition
  <1>3. CASE RunLaunch \/ RunFailed \/ RunError \/ RunCleanup
    BY <1>3 DEF RunLaunch, RunFailed, RunError, RunCleanup, TryTransition
  <1>4. CASE RunSpawn
    <2>1. PICK timeout \in BOOLEAN :
            /\ at' = [at EXCEPT !.run = "done", !.waiter = WaiterSpawned,
                                !.monitor = IF timeout THEN "check" ELSE "done"]
            /\ Hold((refs \ {"run"}) \union SpawnHolders(timeout))
      BY <1>4 DEF RunSpawn
    <2>2. listed' = listed
      BY <1>4 DEF RunSpawn
    <2>0. "monitor" \notin refs
      BY <1>4 DEF RunSpawn
    <2>3. refs' = (refs \ {"run"}) \union SpawnHolders(timeout)
      BY <2>1, HoldFacts
    <2>4. ASSUME NEW m \in {"check", "done"}, refs' = (refs \ {"run"}) \union
                   (IF m = "check" THEN {"waiter", "monitor"} ELSE {"waiter"}),
                 at' = [at EXCEPT !.run = "done", !.waiter = "start", !.monitor = m]
          PROVE  Placed'
      <3>1. at' = [run |-> "done", waiter |-> "start", thread |-> at.thread, monitor |-> m,
                   canceller |-> at.canceller, reaper |-> at.reaper]
        BY <2>4
      <3>2. at' \in AtTypes
        BY <3>1
      <3>3. /\ "map" \in refs' <=> "map" \in refs
            /\ "run" \notin refs' /\ "waiter" \in refs'
            /\ "canceller" \in refs' <=> "canceller" \in refs
            /\ "reaper" \in refs' <=> "reaper" \in refs
        BY <2>4
      <3>4. CASE m = "check"
        BY <2>2, <2>4, <3>1, <3>2, <3>3, <3>4
      <3>5. CASE m = "done"
        <4>1. "monitor" \notin refs'
          BY <2>0, <2>4, <3>5
        <4> QED BY <2>2, <3>1, <3>2, <3>3, <3>5, <4>1
      <3> QED BY <3>4, <3>5
    <2> QED BY <2>1, <2>3, <2>4 DEF WaiterSpawned, SpawnHolders
  <1>5. CASE RunRemove
    <2>1. refs' = refs \ {"run", "map"} /\ listed' = FALSE /\ at' = [at EXCEPT !.run = "done"]
      BY <1>5, HoldFacts DEF RunRemove
    <2> QED BY <2>1
  <1>6. CASE WaiterStart \/ WaiterExit \/ WaiterExiting \/ WaiterSend
    <2>1. CASE WaiterStart
      <3>1. at' = [run |-> at.run, waiter |-> "wait", thread |-> "loop", monitor |-> at.monitor,
                   canceller |-> at.canceller, reaper |-> at.reaper]
        BY <2>1 DEF WaiterStart
      <3> QED BY <2>1, <3>1 DEF WaiterStart
    <2>2. CASE WaiterExit \/ WaiterExiting \/ WaiterSend
      BY <2>2 DEF WaiterExit, WaiterExiting, WaiterSend, TryTransition
    <2> QED BY <1>6, <2>1, <2>2
  <1>7. CASE WaiterComplete
    <2>1. /\ at.waiter = "completing" /\ refs' = refs \ {"waiter"} /\ listed' = listed
          /\ at' = [at EXCEPT !.waiter = "done"]
      BY <1>7, HoldFacts DEF WaiterComplete, TryTransition
    <2> QED BY <2>1
  <1>8. CASE ThreadWait \/ ThreadWaitTimeout \/ ThreadSignaled \/ ThreadMisled
    BY <1>8 DEF ThreadWait, ThreadWaitTimeout, ThreadSignaled, ThreadMisled
  <1>9. ASSUME NEW from, from # "off", MonitorReturn(from), UNCHANGED regVars PROVE Placed'
    <2>1. /\ at.monitor # "off" /\ refs' = refs \ {"monitor"} /\ listed' = listed
          /\ at' = [at EXCEPT !.monitor = "done"]
      BY <1>9, HoldFacts DEF MonitorReturn
    <2> QED BY <2>1
  <1>10. ASSUME NEW from, NEW to, Step("monitor", from, to), UNCHANGED <<refs, listed>>,
                from \in {"check", "timed_out", "cancel", "kill", "await", "fallback"},
                to \in {"timed_out", "cancel", "kill", "await", "fallback", "return"}
         PROVE  Placed'
    BY <1>10
  <1>11. CASE Monitor
    BY <1>9, <1>10, <1>11 DEF Monitor, MonitorCheck, MonitorTimedOut, MonitorCancel, MonitorKill,
       MonitorAwait, MonitorFallback, MonitorEnd, TryTransition
  <1>12. CASE CancelLookup
    <2>1. refs' = refs \union {"canceller"} /\ listed' = listed
          /\ at' = [at EXCEPT !.canceller = "token"]
      BY <1>12, HoldFacts DEF CancelLookup
    <2> QED BY <2>1
  <1>13. CASE CancelToken
    BY <1>13 DEF CancelToken
  <1>14. CASE CancelTransition
    <2>1. refs' = refs \ {"canceller"} /\ listed' = listed
          /\ at' = [at EXCEPT !.canceller = "off"]
      BY <1>14, HoldFacts DEF CancelTransition, TryTransition
    <2> QED BY <2>1
  <1>15. CASE ReapCancel
    <2>1. refs' = refs \union {"reaper"} /\ listed' = listed
          /\ at' = [at EXCEPT !.reaper = "remove"]
      BY <1>15, HoldFacts DEF ReapCancel
    <2> QED BY <2>1
  <1>16. CASE ReapRemove
    <2>1. refs' = refs \ {"reaper", "map"} /\ listed' = FALSE
          /\ at' = [at EXCEPT !.reaper = "off"]
      BY <1>16, HoldFacts DEF ReapRemove
    <2> QED BY <2>1
  <1>17. CASE External
    BY <1>17 DEF External, ProcExit, ProcDies, StrayExit, ChannelMoves, ChannelFills, WriterTakes,
       ClientGone, Channel
  <1>18. CASE UNCHANGED vars
    BY <1>18 DEF vars
  <1> HIDE DEF Placed
  <1> QED BY <1>1, <1>2, <1>3, <1>4, <1>5, <1>6, <1>7, <1>8, <1>11, <1>12, <1>13, <1>14, <1>15,
             <1>16, <1>17, <1>18
          DEF Next, Run, RunStarting, RunRunning, Waiter, Thread, Cancel, External, ChannelMoves

-----------------------------------------------------------------------------
(* The handles are open from the launch until nobody holds the job, and a  *)
(* process in the job object does not run without them.                    *)
Owned ==
  /\ handles \in {"unset", "open", "closed"}
  /\ proc \in {"none", "running", "terminating", "exited", "stray"}
  /\ code \in Codes \union {None}
  /\ handles = "unset" <=> proc \in {"none", "stray"}
  /\ handles = "open" => refs # {}
  /\ handles = "closed" => refs = {} /\ proc # "running"

(* The states of a job whose process was launched.                         *)
Launched == {"Running", "Exiting", "Completed", "TimedOut"}

(* Where handle_run is tells whether the handles are set; the tasks it     *)
(* spawns are there only once they are; and a job counts as running, or    *)
(* has completed or timed out, only when the exit waiter is there or is    *)
(* about to be spawned.                                                    *)
Control ==
  /\ at.run \in {"ack", "starting", "launch", "failed", "error", "cleanup", "remove"}
       => handles = "unset"
  /\ at.run \in {"running", "spawn"} => handles # "unset"
  /\ at.waiter # "off" \/ at.monitor # "off" => handles # "unset"
  /\ state \in Launched => at.run = "spawn" \/ at.waiter # "off"

(* What a step does to the Arcs, the handles and the process: it launches  *)
(* the process, changes who holds the job (nobody takes an Arc from        *)
(* nowhere: somebody already held it), or lets the process go on its way.  *)
ProcMoves ==
  \/ proc = "running" /\ proc' = "terminating" /\ code' = "1"
  \/ proc = "running" /\ proc' = "exited" /\ code' \in {"own", "-1"}
  \/ proc = "terminating" /\ proc' = "exited" /\ code' = code
  \/ proc \in {"none", "stray"} /\ proc' \in {"none", "stray"} /\ code' = code
  \/ proc' = proc /\ code' = code

ProcStep ==
  \/ /\ at.run = "launch" /\ at'.run = "running" /\ refs' = refs
     /\ proc' = "running" /\ handles' = "open" /\ code' = code
  \/ \E held : Hold(held) /\ (held = {} \/ refs # {})
  \/ refs' = refs /\ handles' = handles /\ ProcMoves

(* Every action is such a step.                                            *)
LEMMA ProcSteps ==
  ASSUME Placed, Owned, Control, [Next]_vars
  PROVE  ProcStep
  <1> USE DEF ProcStep, Placed, AtTypes, RefsOK, Spawned, Goto, Step
  <1>0. ASSUME UNCHANGED procVars PROVE ProcStep
    BY <1>0 DEF ProcMoves
  <1>1. ASSUME NEW held, Hold(held), held = {} \/ refs # {} PROVE ProcStep
    BY <1>1
  <1>2. ASSUME NEW gone, Hold(refs \ gone) PROVE ProcStep
    BY <1>2, <1>1
  <1>3. ASSUME NEW new, listed, Hold(refs \union new) PROVE ProcStep
    BY <1>3, <1>1
  <1>4. CASE RunLaunch
    <2>1. CASE Step("run", "launch", "running") /\ proc' = "running" /\ handles' = "open"
      <3>1. at'.run = "running"
        BY <2>1
      <3> QED BY <1>4, <2>1, <3>1 DEF RunLaunch
    <2>2. CASE at.run = "launch" /\ proc' \in {"none", "stray"} /\ UNCHANGED handles
      BY <1>4, <2>2 DEF RunLaunch, ProcMoves, Control, Owned
    <2> QED BY <1>4, <2>1, <2>2 DEF RunLaunch
  <1>5. CASE RunSpawn
    <2>1. PICK timeout \in BOOLEAN : Hold((refs \ {"run"}) \union SpawnHolders(timeout))
      BY <1>5 DEF RunSpawn
    <2>2. refs # {}
      BY <1>5 DEF RunSpawn
    <2> HIDE DEF ProcStep
    <2> QED BY <1>1, <2>1, <2>2
  <1>6. ASSUME Kill \/ UNCHANGED <<proc, code>>, UNCHANGED <<refs, handles>> PROVE ProcStep
    BY <1>6 DEF Kill, ProcMoves
  <1>7. CASE ProcExit \/ ProcDies \/ StrayExit
    BY <1>7 DEF ProcExit, ProcDies, StrayExit, ProcMoves
  <1> HIDE DEF ProcStep
  <1>8. CASE RunAck \/ RunStarting \/ RunRunning \/ RunFailed \/ RunError \/ RunCleanup
             \/ RunRemove
    BY <1>8, <1>0, <1>2 DEF RunAck, RunFails, RunTransition, RunStarting, RunRunning,
       RunFailed, RunError, RunCleanup, RunRemove
  <1>9. CASE Waiter \/ Thread \/ ThreadWaitTimeout \/ ThreadMisled
    BY <1>9, <1>0, <1>2 DEF Waiter, WaiterStart, WaiterExit, WaiterExiting, WaiterSend,
       WaiterComplete, Thread, ThreadWait, ThreadSignaled, ThreadWaitTimeout, ThreadMisled
  <1>10. CASE Monitor
    BY <1>10, <1>0, <1>2, <1>6 DEF Monitor, MonitorCheck, MonitorTimedOut, MonitorCancel,
       MonitorKill, MonitorAwait, MonitorFallback, MonitorEnd, MonitorReturn
  <1>11. CASE CancelLookup \/ Cancel \/ ReapCancel \/ ReapRemove
    BY <1>11, <1>0, <1>2, <1>3 DEF CancelLookup, Cancel, CancelToken, CancelTransition,
       ReapCancel, ReapRemove
  <1>12. CASE ChannelMoves \/ UNCHANGED vars
    BY <1>12, <1>0 DEF ChannelMoves, ChannelFills, WriterTakes, ClientGone, Channel, vars
  <1> QED BY <1>4, <1>5, <1>7, <1>8, <1>9, <1>10, <1>11, <1>12
          DEF Next, Run, ChannelMoves

(* Owned is preserved: it depends on no more of a step than ProcStep says. *)
LEMMA NextOwned ==
  ASSUME Placed, Owned, Control, [Next]_vars
  PROVE  Owned'
  <1>1. CASE \E held : Hold(held) /\ (held = {} \/ refs # {})
    <2>1. PICK held : Hold(held) /\ (held = {} \/ refs # {})
      BY <1>1
    <2> QED BY <2>1, HoldFacts DEF Owned, Codes
  <1>2. CASE refs' = refs /\ handles' = handles /\ ProcMoves
    BY <1>2 DEF Owned, ProcMoves, Codes
  <1>3. CASE at.run = "launch" /\ refs' = refs /\ proc' = "running" /\ handles' = "open"
             /\ code' = code
    BY <1>3 DEF Owned, Placed, AtTypes, RefsOK
  <1> QED BY ProcSteps, <1>1, <1>2, <1>3 DEF ProcStep

(* An exit code is final, and only a launch sets the handles.              *)
LEMMA ProcStepFacts ==
  ASSUME Placed, Owned, Control, [Next]_vars
  PROVE  /\ proc = "exited" => proc' = "exited" /\ code' = code
         /\ handles # "unset" => handles' # "unset"
         /\ at'.run = "running" \/ (handles = "unset" => handles' = "unset")
  <1>1. CASE \E held : Hold(held) /\ (held = {} \/ refs # {})
    <2>1. PICK held : Hold(held) /\ (held = {} \/ refs # {})
      BY <1>1
    <2> QED BY <2>1, HoldFacts
  <1>2. CASE refs' = refs /\ handles' = handles /\ ProcMoves
    BY <1>2 DEF ProcMoves
  <1>3. CASE at.run = "launch" /\ at'.run = "running" /\ handles' = "open"
    BY <1>3 DEF Control, Owned
  <1> QED BY ProcSteps, <1>1, <1>2, <1>3 DEF ProcStep

(* Control is preserved, one step for each way handle_run can go on.       *)
LEMMA NextControl ==
  ASSUME Placed, Owned, Control, [Next]_vars
  PROVE  Control'
  <1> USE DEF Placed, AtTypes, Spawned, Control, Goto, Step
  <1>0. /\ handles # "unset" => handles' # "unset"
        /\ at'.run = "running" \/ (handles = "unset" => handles' = "unset")
    BY ProcStepFacts
  <1>2. ASSUME NEW new, TryTransition(new), new # "Running"
        PROVE  state' \in Launched => state \in Launched
    BY <1>2, TryTransitionFacts DEF Launched, CanTransitionTo, Successors
  (* An action that moves one task, spawns nothing and does not make the   *)
  (* job running.                                                          *)
  <1>3. ASSUME at'.waiter = "off" <=> at.waiter = "off",
               at'.monitor = "off" <=> at.monitor = "off",
               at'.run = at.run,
               state' \in Launched => state \in Launched
        PROVE  Control'
    BY <1>0, <1>3
  <1>4. ASSUME at'.waiter = at.waiter, at'.monitor = at.monitor,
               at'.run \in {"starting", "launch", "failed", "error", "cleanup", "remove", "done"},
               at.run \notin {"running", "spawn", "done"} \/ at'.run = "done",
               at.run # "spawn",
               state' \in Launched => state \in Launched
        PROVE  Control'
    BY <1>0, <1>4
  <1>5. CASE RunAck
    <2>1. /\ at.run = "ack" /\ at'.run \in {"starting", "done"} /\ state' = state
          /\ at'.waiter = at.waiter /\ at'.monitor = at.monitor
      BY <1>5 DEF RunAck, RunFails
    <2> QED BY <1>4, <2>1
  <1>6. CASE RunStarting
    <2>1. /\ at.run = "starting" /\ at'.run \in {"launch", "done"}
          /\ at'.waiter = at.waiter /\ at'.monitor = at.monitor /\ TryTransition("Starting")
      BY <1>6 DEF RunStarting, RunTransition, RunFails
    <2> QED BY <1>2, <1>4, <2>1
  <1>7. CASE RunLaunch
    <2>1. /\ at.run = "launch" /\ state' = state
          /\ \/ at'.run = "running" /\ handles' = "open"
             \/ at'.run = "failed" /\ handles' = handles
          /\ at'.waiter = at.waiter /\ at'.monitor = at.monitor
      BY <1>7 DEF RunLaunch
    <2> QED BY <2>1
  <1>8. CASE RunRunning
    <2>1. /\ at.run = "running" /\ at'.waiter = at.waiter /\ at'.monitor = at.monitor
          /\ TryTransition("Running")
          /\ \/ Allowed("Running") /\ at'.run = "spawn"
             \/ ~Allowed("Running") /\ at'.run = "done"
      BY <1>8 DEF RunRunning, RunTransition, RunFails
    <2>2. ~Allowed("Running") => state' = state
      BY <2>1 DEF TryTransition
    <2> QED BY <1>0, <2>1, <2>2
  <1>9. CASE RunSpawn
    <2>1. PICK timeout \in BOOLEAN :
            at' = [at EXCEPT !.run = "done", !.waiter = WaiterSpawned,
                             !.monitor = IF timeout THEN "check" ELSE "done"]
      BY <1>9 DEF RunSpawn
    <2>2. at'.run = "done" /\ at'.waiter # "off" /\ at.run = "spawn" /\ state' = state
      BY <1>9, <2>1 DEF RunSpawn, WaiterSpawned
    <2> QED BY <1>0, <2>2
  <1>10. CASE RunFailed \/ RunError \/ RunCleanup \/ RunRemove
    <2>1. /\ at'.waiter = at.waiter /\ at'.monitor = at.monitor
          /\ at.run \in {"failed", "error", "cleanup", "remove"}
          /\ at'.run \in {"error", "cleanup", "remove", "done"}
          /\ TryTransition("Failed") \/ state' = state
      BY <1>10 DEF RunFailed, RunError, RunCleanup, RunRemove
    <2> QED BY <1>2, <1>4, <2>1
  <1>11. CASE Waiter
    <2>1. /\ at'.run = at.run /\ at'.monitor = at.monitor
          /\ at.waiter # "off" /\ at'.waiter # "off"
          /\ TryTransition("Exiting") \/ TryTransition("Completed") \/ state' = state
      BY <1>11 DEF Waiter, WaiterStart, WaiterExit, WaiterExiting, WaiterSend, WaiterComplete
    <2> QED BY <1>2, <1>3, <2>1
  <1>13. CASE Thread \/ ThreadWaitTimeout \/ ThreadMisled
    <2>1. /\ at'.run = at.run /\ at'.monitor = at.monitor /\ at'.waiter = at.waiter
          /\ state' = state
      BY <1>13 DEF Thread, ThreadWait, ThreadSignaled, ThreadWaitTimeout, ThreadMisled
    <2> QED BY <1>3, <2>1
  <1>14. CASE Monitor
    <2>1. /\ at'.run = at.run /\ at'.waiter = at.waiter
          /\ at.monitor # "off" /\ at'.monitor # "off"
          /\ TryTransition("TimedOut") \/ state' = state
      BY <1>14 DEF Monitor, MonitorCheck, MonitorTimedOut, MonitorCancel, MonitorKill,
         MonitorAwait, MonitorFallback, MonitorEnd, MonitorReturn
    <2> QED BY <1>2, <1>3, <2>1
  <1>15. CASE CancelLookup \/ Cancel \/ ReapCancel \/ ReapRemove
    <2>1. /\ at'.run = at.run /\ at'.waiter = at.waiter /\ at'.monitor = at.monitor
          /\ TryTransition("Canceled") \/ state' = state
      BY <1>15 DEF CancelLookup, Cancel, CancelToken, CancelTransition, ReapCancel, ReapRemove
    <2> QED BY <1>2, <1>3, <2>1
  <1>16. CASE External \/ UNCHANGED vars
    <2>1. at' = at /\ state' = state
      BY <1>16 DEF External, ProcExit, ProcDies, StrayExit, ChannelMoves, ChannelFills,
         WriterTakes, ClientGone, Channel, vars
    <2> QED BY <1>3, <2>1
  <1> HIDE DEF Control
  <1> QED BY <1>5, <1>6, <1>7, <1>8, <1>9, <1>10, <1>11, <1>13, <1>14, <1>15, <1>16
          DEF Next, Run, External, ChannelMoves

(* What the blocking thread and the exit waiter have learnt.               *)
Learnt ==
  /\ at.waiter = "wait" /\ at.thread = "ended" => proc = "exited" /\ result \in {code, "-1"}
  /\ ExitCodeHonest

(* No step makes what was learnt untrue, or learns something else.         *)
LEMMA NextLearnt ==
  ASSUME Placed, Owned, Control, Learnt, [Next]_vars
  PROVE  Learnt'
  <1> USE DEF Placed, AtTypes, Learnt, ExitCodeHonest, Goto, Step
  <1>1. proc = "exited" => proc' = "exited" /\ code' = code
    BY ProcStepFacts
  <1>2. ASSUME at'.waiter = "wait" /\ at'.thread = "ended"
                 => at.waiter = "wait" /\ at.thread = "ended",
               result' = result, exit_code' = exit_code, token => token'
        PROVE  Learnt'
    BY <1>1, <1>2
  <1>3. ASSUME NEW new, TryTransition(new) PROVE token' = token
    BY <1>3, TryTransitionFacts
  <1>4. CASE RunAck \/ RunStarting \/ RunLaunch \/ RunRunning \/ RunFailed \/ RunError
             \/ RunCleanup \/ RunRemove
    <2>1. at'.waiter = at.waiter /\ at'.thread = at.thread /\ UNCHANGED codeVars
      BY <1>4 DEF RunAck, RunFails, RunStarting, RunRunning, RunTransition, RunLaunch,
         RunFailed, RunError, RunCleanup, RunRemove
    <2>2. token => token'
      BY <1>3, <1>4 DEF RunAck, RunStarting, RunRunning, RunTransition, RunLaunch,
         RunFailed, RunError, RunCleanup, RunRemove
    <2> QED BY <1>2, <2>1, <2>2
  <1>5. CASE RunSpawn
    <2>1. PICK timeout \in BOOLEAN :
            at' = [at EXCEPT !.run = "done", !.waiter = WaiterSpawned,
                             !.monitor = IF timeout THEN "check" ELSE "done"]
      BY <1>5 DEF RunSpawn
    <2>2. at'.waiter # "wait" /\ UNCHANGED codeVars /\ token' = token
      BY <1>5, <2>1 DEF RunSpawn, WaiterSpawned
    <2> QED BY <1>2, <2>2
  <1>6. CASE WaiterStart
    <2>1. at'.thread # "ended" /\ UNCHANGED codeVars /\ token' = token
      BY <1>6 DEF WaiterStart
    <2> QED BY <1>2, <2>1
  <1>7. CASE WaiterExit
    <2>1. /\ at.waiter = "wait" /\ at'.waiter = "exiting" /\ token' = token
          /\ UNCHANGED <<proc, code, result>>
          /\ \/ at.thread = "ended" /\ exit_code' = result
             \/ token /\ exit_code' = "-1"
      BY <1>7 DEF WaiterExit
    <2> QED BY <2>1 DEF Owned
  <1>8. CASE WaiterExiting \/ WaiterSend \/ WaiterComplete
    <2>1. at'.waiter # "wait" /\ UNCHANGED codeVars
      BY <1>8 DEF WaiterExiting, WaiterSend, WaiterComplete
    <2>2. token' = token
      BY <1>3, <1>8 DEF WaiterExiting, WaiterSend, WaiterComplete
    <2> QED BY <1>2, <2>1, <2>2
  <1>9. CASE ThreadWait \/ ThreadWaitTimeout
    <2>1. at'.thread # "ended" /\ UNCHANGED codeVars /\ token' = token
      BY <1>9 DEF ThreadWait, ThreadWaitTimeout
    <2> QED BY <1>2, <2>1
  (* While the waiter waits it holds the job, so the handle is open and    *)
  (* the thread reads the process's exit code, if it can be read.          *)
  <1>10. CASE ThreadSignaled
    <2>1. /\ proc = "exited" /\ result' \in IF handles = "open" THEN {code, "-1"} ELSE {"-1"}
          /\ UNCHANGED <<token, proc, code, handles, refs, exit_code>> /\ at'.waiter = at.waiter
      BY <1>10 DEF ThreadSignaled, Signaled
    <2>2. at.waiter = "wait" => handles = "open"
      BY DEF Control, Owned, RefsOK
    <2> QED BY <2>1, <2>2
  <1>11. CASE ThreadMisled
    <2>1. /\ handles = "closed" /\ at'.waiter = at.waiter
          /\ UNCHANGED <<token, proc, code, exit_code>>
      BY <1>11 DEF ThreadMisled
    <2>2. at.waiter # "wait"
      BY <2>1 DEF Owned, RefsOK
    <2> QED BY <2>1, <2>2
  <1>12. CASE Monitor
    <2>1. at'.waiter = at.waiter /\ at'.thread = at.thread /\ UNCHANGED codeVars
      BY <1>12 DEF Monitor, MonitorCheck, MonitorTimedOut, MonitorCancel, MonitorKill,
         MonitorAwait, MonitorFallback, MonitorEnd, MonitorReturn
    <2>2. token => token'
      BY <1>3, <1>12 DEF Monitor, MonitorCheck, MonitorTimedOut, MonitorCancel, MonitorKill,
         MonitorAwait, MonitorFallback, MonitorEnd
    <2> QED BY <1>2, <2>1, <2>2
  <1>13. CASE CancelLookup \/ Cancel \/ ReapCancel \/ ReapRemove
    <2>1. at'.waiter = at.waiter /\ at'.thread = at.thread /\ UNCHANGED codeVars
      BY <1>13 DEF CancelLookup, Cancel, CancelToken, CancelTransition, ReapCancel, ReapRemove
    <2>2. token => token'
      BY <1>3, <1>13 DEF CancelLookup, Cancel, CancelToken, CancelTransition, ReapCancel,
         ReapRemove
    <2> QED BY <1>2, <2>1, <2>2
  <1>14. CASE External \/ UNCHANGED vars
    <2>1. at' = at /\ UNCHANGED codeVars /\ token' = token
      BY <1>14 DEF External, ProcExit, ProcDies, StrayExit, ChannelMoves, ChannelFills,
         WriterTakes, ClientGone, Channel, vars
    <2> QED BY <1>2, <2>1
  <1> HIDE DEF Learnt
  <1> QED BY <1>4, <1>5, <1>6, <1>7, <1>8, <1>9, <1>10, <1>11, <1>12, <1>13, <1>14
          DEF Next, Run, Waiter, Thread, External, ChannelMoves

(* The variables that neither Placed nor Owned gives a type.               *)
DataOK ==
  /\ state \in JobStates /\ token \in BOOLEAN /\ listed \in BOOLEAN
  /\ exit_code \in Codes \union {None} /\ result \in Codes \union {None}
  /\ session \in {"up", "full", "gone"}
  /\ frames \subseteq {"RUN_ACK", "ERROR", "EXIT"}
  /\ refs \subseteq Holders

(* The registry's entry of the job, whoever moves it.                      *)
LEMMA NextEntry ==
  ASSUME state \in JobStates, token \in BOOLEAN, listed \in BOOLEAN, [Next]_vars
  PROVE  state' \in JobStates /\ token' \in BOOLEAN /\ listed' \in BOOLEAN
  <1>1. ASSUME NEW new \in JobStates, TryTransition(new)
        PROVE  state' \in JobStates /\ token' \in BOOLEAN /\ listed' \in BOOLEAN
    BY <1>1, TryTransitionFacts
  <1>2. {"Starting", "Running", "Exiting", "Failed", "Completed", "Canceled", "TimedOut"}
          \subseteq JobStates
    BY DEF JobStates, Terminal
  <1>3. ASSUME state' = state, token' = token \/ token' = TRUE \/ token' = (token \/ listed),
               listed' = listed \/ listed' = FALSE
        PROVE  state' \in JobStates /\ token' \in BOOLEAN /\ listed' \in BOOLEAN
    BY <1>3, Zenon
  <1>4. CASE Run
    BY <1>1, <1>2, <1>3, <1>4 DEF Run, RunAck, RunStarting, RunRunning, RunTransition,
       RunLaunch, RunSpawn, RunFailed, RunError, RunCleanup, RunRemove
  <1>5. CASE Waiter \/ Thread \/ ThreadWaitTimeout \/ ThreadMisled
    BY <1>1, <1>2, <1>3, <1>5 DEF Waiter, WaiterStart, WaiterExit, WaiterExiting, WaiterSend,
       WaiterComplete, Thread, ThreadWait, ThreadSignaled, ThreadWaitTimeout, ThreadMisled
  <1>6. CASE Monitor
    BY <1>1, <1>2, <1>3, <1>6 DEF Monitor, MonitorCheck, MonitorTimedOut, MonitorCancel,
       MonitorKill, MonitorAwait, MonitorFallback, MonitorEnd
  <1>7. CASE CancelLookup \/ Cancel \/ ReapCancel \/ ReapRemove
    BY <1>1, <1>2, <1>3, <1>7 DEF CancelLookup, Cancel, CancelToken, CancelTransition,
       ReapCancel, ReapRemove
  <1>8. CASE External \/ UNCHANGED vars
    BY <1>3, <1>8 DEF External, ProcExit, ProcDies, StrayExit, ChannelMoves, ChannelFills,
       WriterTakes, ClientGone, Channel, vars
  <1> QED BY <1>4, <1>5, <1>6, <1>7, <1>8 DEF Next, External, ChannelMoves

(* The types of the rest are preserved.                                    *)
LEMMA NextDataOK ==
  ASSUME DataOK, code \in Codes \union {None}, [Next]_vars
  PROVE  DataOK'
  <1> USE DEF DataOK
  <1>1. state' \in JobStates /\ token' \in BOOLEAN /\ listed' \in BOOLEAN
    BY NextEntry
  <1>2. /\ exit_code' \in Codes \union {None} /\ result' \in Codes \union {None}
        /\ session' \in {"up", "full", "gone"} /\ frames' \subseteq {"RUN_ACK", "ERROR", "EXIT"}
        /\ refs' \subseteq Holders
    <2>1. ASSUME NEW gone, Hold(refs \ gone) PROVE refs' \subseteq Holders
      BY <2>1, HoldFacts
    <2>2. ASSUME NEW new \in SUBSET Holders, Hold(refs \union new) PROVE refs' \subseteq Holders
      BY <2>2, HoldFacts
    <2>3. CASE RunAck \/ RunStarting \/ RunRunning \/ RunLaunch
      BY <2>1, <2>3 DEF RunAck, RunFails, RunStarting, RunRunning, RunTransition, RunLaunch, Send
    <2>4. CASE RunSpawn
      <3>1. PICK timeout \in BOOLEAN : Hold((refs \ {"run"}) \union SpawnHolders(timeout))
        BY <2>4 DEF RunSpawn
      <3>2. SpawnHolders(timeout) \subseteq Holders
        BY Zenon DEF SpawnHolders, Holders
      <3>3. refs' = (refs \ {"run"}) \union SpawnHolders(timeout)
        BY <3>1, HoldFacts
      <3>4. refs' \subseteq Holders
        BY <3>2, <3>3
      <3> QED BY <2>4, <3>4 DEF RunSpawn
    <2>5. CASE RunFailed \/ RunError \/ RunCleanup \/ RunRemove
      BY <2>1, <2>5 DEF RunFailed, RunError, RunCleanup, RunRemove, Send
    <2>6. CASE Waiter
      BY <2>1, <2>6 DEF Waiter, WaiterStart, WaiterExit, WaiterExiting, WaiterSend,
         WaiterComplete, SendExit, Send, Codes
    <2>7. CASE Thread \/ ThreadWaitTimeout \/ ThreadMisled
      <3>1. /\ UNCHANGED <<exit_code, linkVars, refs>> /\ code' = code
            /\ result' \in {result, code, "-1"} \union Codes
        BY <2>7 DEF Thread, ThreadWait, ThreadSignaled, ThreadWaitTimeout, ThreadMisled
      <3> QED BY <3>1 DEF Codes
    <2>8. CASE Monitor
      BY <2>1, <2>8 DEF Monitor, MonitorCheck, MonitorTimedOut, MonitorCancel, MonitorKill,
         MonitorAwait, MonitorFallback, MonitorEnd, MonitorReturn
    <2>9. CASE CancelLookup \/ Cancel \/ ReapCancel \/ ReapRemove
      BY <2>1, <2>2, <2>9 DEF CancelLookup, Cancel, CancelToken, CancelTransition,
         ReapCancel, ReapRemove, Holders
    <2>10. CASE External \/ UNCHANGED vars
      BY <2>10 DEF External, ProcExit, ProcDies, StrayExit, ChannelMoves, ChannelFills,
         WriterTakes, ClientGone, Channel, vars
    <2> QED BY <2>3, <2>4, <2>5, <2>6, <2>7, <2>8, <2>9, <2>10
            DEF Next, Run, External, ChannelMoves
  <1> QED BY <1>1, <1>2

-----------------------------------------------------------------------------
(* The inductive invariant.                                                *)
LifeInv == DataOK /\ Placed /\ Owned /\ Control /\ Learnt

(* LifeInv holds at the start and every step keeps it.                     *)
LEMMA LifeInvariant == Spec => []LifeInv
  <1>1. Init => LifeInv
    <2> SUFFICES ASSUME Init PROVE LifeInv
      OBVIOUS
    <2>1. token \in BOOLEAN /\ listed \in BOOLEAN
      BY Zenon DEF Init
    <2>2. DataOK
      BY <2>1 DEF Init, DataOK, JobStates, Holders
    <2>3. Placed
      BY DEF Init, Placed, AtTypes, RefsOK, Spawned
    <2>4. Owned /\ Control /\ Learnt
      BY DEF Init, Owned, Control, Launched, Learnt, ExitCodeHonest
    <2> QED BY <2>2, <2>3, <2>4 DEF LifeInv
  <1>2. LifeInv /\ [Next]_vars => LifeInv'
    BY NextDataOK, NextPlaced, NextOwned, NextControl, NextLearnt DEF LifeInv, Owned
  <1> QED BY <1>1, <1>2, PTL DEF Spec

(* Every variable has its type, and an Arc<JobHandle> is held by exactly   *)
(* the tasks that are in the middle of using the job, however handle_run   *)
(* returns and whoever removes the job from the registry.                  *)
THEOREM TypeCorrect == Spec => []TypeOK
  <1>1. LifeInv => TypeOK
    BY DEF LifeInv, DataOK, Placed, AtTypes, RefsOK, Owned, TypeOK
  <1> QED BY <1>1, LifeInvariant, PTL

(* The exit waiter and terminate_job pass the raw handles to the system    *)
(* only while they are open: each holds an Arc, and Drop closes the        *)
(* handles only after the last of them is gone.                            *)
THEOREM HandlesOutliveUse == Spec => []HandlesOpenInUse
  <1>1. LifeInv => HandlesOpenInUse
    BY DEF LifeInv, Placed, RefsOK, Owned, Control, HandlesOpenInUse
  <1> QED BY <1>1, LifeInvariant, PTL

(* No process is left running in its job object without a JobHandle that   *)
(* will end it, and no job counts as running after handle_run has returned *)
(* unless the task that reports its end was spawned.  The process that a   *)
(* launch leaves behind when AssignProcessToJobObject fails is outside     *)
(* this: its job never counts as running, completed or timed out.          *)
THEOREM NothingOrphaned == Spec => []NoOrphan
  <1>1. LifeInv => NoOrphan
    BY DEF LifeInv, Placed, Spawned, Owned, Control, Launched, NoOrphan
  <1> QED BY <1>1, LifeInvariant, PTL

(* An exit code other than -1 in the EXIT frame is the one the process     *)
(* exited with; -1 is sent for a process that has exited or for a job that *)
(* was cancelled, never for one that was left to run.                      *)
THEOREM ExitCodesAreHonest == Spec => []ExitCodeHonest
  <1>1. LifeInv => ExitCodeHonest
    BY DEF LifeInv, Learnt
  <1> QED BY <1>1, LifeInvariant, PTL
=============================================================================
