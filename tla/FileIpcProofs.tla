---------------------------- MODULE FileIpcProofs ---------------------------
(***************************************************************************)
(* Theorems about FileIpc, for any number of requests, permits and faults, *)
(* the end of the service at any moment included.                          *)
(***************************************************************************)
EXTENDS FileIpc, TLAPS

USE DEF clientVars, fileVars, pollVars, taskVars, countVars

(* TypeOK says what a task has at each point of its way; these are the     *)
(* variables it says it of.                                                *)
TaskTypes ==
  /\ path \in [Permits -> Requests \union {None}]
  /\ content \in [Permits -> Texts \union {None}]
  /\ answer \in [Permits -> Answers \union {None}]

TypeInv == TypeOK /\ TaskTypes

(* One step of a task, of whatever kind, keeps the types.                  *)
LEMMA TaskTypeInv ==
  ASSUME TypeInv, NEW t \in Permits, Task(t)
  PROVE  TypeInv'
  <1> USE SetsAssumption, BoundAssumption
      DEF TypeInv, TypeOK, TaskTypes, Goto, Answers, Texts, Contents
  <1>1. CASE TaskRead(t)
    BY <1>1 DEF TaskRead, NameOf
  <1>2. CASE TaskReadFails(t)
    BY <1>2 DEF TaskReadFails, End, PermitAfterError, Fault
  <1>3. CASE TaskDelete(t)
    BY <1>3 DEF TaskDelete, Fault
  <1>4. ASSUME NEW from \in {"parse", "wait"}, NEW a \in Answers, Respond(t, from, a)
        PROVE  TypeInv'
    BY <1>4 DEF Respond
  <1>5. CASE TaskSpawn(t)
    BY <1>5 DEF TaskSpawn
  <1>6. CASE TaskCreate(t)
    BY <1>6 DEF TaskCreate, ResponsePath
  <1>7. CASE TaskWrite(t)
    BY <1>7 DEF TaskWrite, End, ResponsePath
  <1>8. ASSUME NEW from \in {"create", "write"}, TaskWriteFails(t, from) PROVE TypeInv'
    BY <1>8 DEF TaskWriteFails, End, PermitAfterError, Fault
  <1> HIDE DEF TypeInv
  <1> QED BY <1>1, <1>2, <1>3, <1>4, <1>5, <1>6, <1>7, <1>8
          DEF Task, TaskInvalid, TaskSpawnFails, TaskOutput, TaskProcessError, TaskTimeout

(* Every step keeps the types.                                             *)
LEMMA NextTypeInv == TypeInv /\ [Next]_vars => TypeInv'
  <1> SUFFICES ASSUME TypeInv, [Next]_vars PROVE TypeInv'
    OBVIOUS
  <1> USE SetsAssumption, BoundAssumption DEF TypeInv, TypeOK, TaskTypes
  <1>1. CASE PollStart \/ PollDone \/ PollShutdown \/ ServiceStarts
    BY <1>1 DEF PollStart, PollDone, PollShutdown, ServiceStarts
  <1>2. ASSUME NEW r \in Requests, PollSkip(r) PROVE TypeInv'
    BY <1>2 DEF PollSkip
  <1>3. ASSUME NEW r \in Requests, NEW t \in Permits, PollSpawn(r, t) PROVE TypeInv'
    BY <1>3 DEF PollSpawn, Idle
  <1>4. ASSUME NEW r \in Requests, ClientCreate(r) \/ ClientFill(r) PROVE TypeInv'
    BY <1>4 DEF ClientCreate, ClientFill
  <1>5. CASE ServiceEnds
    <2>1. Taken \subseteq Requests
      BY DEF Taken
    <2> QED BY <1>5, <2>1 DEF ServiceEnds, Fault
  <1>6. CASE UNCHANGED vars
    BY <1>6 DEF vars
  <1> HIDE DEF TypeInv
  <1> QED BY <1>1, <1>2, <1>3, <1>4, <1>5, <1>6, TaskTypeInv DEF Next, Poll

(* So they hold in every state.                                            *)
LEMMA TypesKept == Spec => []TypeInv
  <1>1. Init => TypeInv
    BY SetsAssumption, BoundAssumption DEF Init, TypeInv, TypeOK, TaskTypes, Answers, Texts
  <1> QED BY <1>1, NextTypeInv, PTL DEF Spec

(* Every variable keeps its type: a task that is not idle has a request,   *)
(* one that has read it has its text, and one that writes has an answer.   *)
THEOREM TypeCorrect == Spec => []TypeOK
  BY TypesKept, PTL DEF TypeInv

-----------------------------------------------------------------------------
(* Requests                                                                *)

InHand == {"parse", "wait", "create", "write"}

(* RequestKept is inductive, given the types.                              *)
LEMMA NextRequestKept == TypeInv /\ RequestKept /\ [Next]_vars => RequestKept'
  <1> SUFFICES ASSUME TypeInv, RequestKept, [Next]_vars, NEW r \in Requests, client'[r] # "no"
               PROVE  requests'[r] # "none" \/ r \in Taken' \/ r \in answered' \/ r \in lost'
    BY DEF RequestKept
  <1> DEFINE Kept == requests'[r] # "none" \/ r \in Taken' \/ r \in answered' \/ r \in lost'
  <1>0. client[r] # "no" => requests[r] # "none" \/ r \in Taken \/ r \in answered \/ r \in lost
    BY DEF RequestKept
  <1> USE SetsAssumption DEF TypeInv, TypeOK, TaskTypes
  <1>1. ASSUME UNCHANGED <<client, answered, lost>>, requests'[r] = requests[r],
               \A t \in Permits :
                 at[t] \in InHand => at'[t] \in InHand /\ path'[t] = path[t]
        PROVE  Kept
    BY <1>0, <1>1 DEF Taken, InHand
  <1>2. ASSUME NEW t \in Permits, Task(t) PROVE Kept
    <2> USE DEF Goto, InHand
    <2>1. CASE TaskRead(t) \/ TaskReadFails(t)
      BY <1>1, <2>1 DEF TaskRead, TaskReadFails, End
    <2>2. CASE TaskDelete(t)
      <3>1. CASE path[t] = r
        <4>1. at'[t] = "parse" /\ path'[t] = r
          BY <2>2, <3>1 DEF TaskDelete
        <4> QED BY <4>1 DEF Taken
      <3>2. CASE path[t] # r
        BY <1>1, <2>2, <3>2 DEF TaskDelete
      <3> QED BY <3>1, <3>2
    <2>3. ASSUME NEW from \in {"parse", "wait"}, NEW a \in Answers, Respond(t, from, a) PROVE Kept
      BY <1>1, <2>3 DEF Respond
    <2>4. CASE TaskSpawn(t)
      BY <1>1, <2>4 DEF TaskSpawn
    <2>5. CASE TaskCreate(t)
      BY <1>1, <2>5 DEF TaskCreate
    <2>6. CASE TaskWrite(t)
      <3>1. CASE path[t] = r
        BY <2>6, <3>1 DEF TaskWrite
      <3>2. CASE path[t] # r
        <4>1. r \in Taken => r \in Taken'
          BY <2>6, <3>2 DEF TaskWrite, End, Taken
        <4> QED BY <1>0, <2>6, <4>1 DEF TaskWrite
      <3> QED BY <3>1, <3>2
    <2>7. ASSUME NEW from \in {"create", "write"}, TaskWriteFails(t, from) PROVE Kept
      <3>1. CASE path[t] = r
        BY <2>7, <3>1 DEF TaskWriteFails
      <3>2. CASE path[t] # r
        <4>1. r \in Taken => r \in Taken'
          BY <2>7, <3>2 DEF TaskWriteFails, End, Taken
        <4> QED BY <1>0, <2>7, <4>1 DEF TaskWriteFails
      <3> QED BY <3>1, <3>2
    <2> QED BY <1>2, <2>1, <2>2, <2>3, <2>4, <2>5, <2>6, <2>7
            DEF Task, TaskInvalid, TaskSpawnFails, TaskOutput, TaskProcessError, TaskTimeout, Answers
  <1>3. CASE PollStart \/ PollDone \/ PollShutdown \/ ServiceStarts
    BY <1>1, <1>3 DEF PollStart, PollDone, PollShutdown, ServiceStarts
  <1>4. ASSUME NEW q \in Requests, PollSkip(q) PROVE Kept
    BY <1>1, <1>4 DEF PollSkip
  <1>5. ASSUME NEW q \in Requests, NEW t \in Permits, PollSpawn(q, t) PROVE Kept
    BY <1>1, <1>5 DEF PollSpawn, Idle, InHand
  <1>6. ASSUME NEW q \in Requests, ClientCreate(q) \/ ClientFill(q) PROVE Kept
    <2>1. /\ UNCHANGED <<answered, at, path, lost>>
          /\ requests[r] # "none" => requests'[r] # "none"
          /\ client[r] = "no" => requests'[r] # "none"
      BY <1>6 DEF ClientCreate, ClientFill, Contents
    <2> QED BY <1>0, <2>1 DEF Taken
  <1>7. CASE ServiceEnds
    BY <1>0, <1>7 DEF ServiceEnds
  <1>8. CASE UNCHANGED vars
    BY <1>1, <1>8 DEF vars
  <1> QED BY <1>2, <1>3, <1>4, <1>5, <1>6, <1>7, <1>8 DEF Next, Poll

(* No request is lost between its file, the task that took it and the      *)
(* response file, however polls, tasks, failed deletions and restarts of   *)
(* the service overlap; only a response that cannot be written, or the end *)
(* of the service, loses one that was taken.                               *)
THEOREM RequestsAreKept == Spec => []RequestKept
  <1>1. Init => RequestKept
    BY DEF Init, RequestKept
  <1> QED BY <1>1, TypesKept, NextRequestKept, PTL DEF Spec

-----------------------------------------------------------------------------
(* Answers.  Why a task that comes to write finds no earlier answer under  *)
(* its name, or the name was claimed twice: every task past its read has   *)
(* claimed its name, two of them twice, and so has an answer together with *)
(* a task.                                                                 *)
Past(t, n) == at[t] \in {"delete"} \union InHand /\ NameOf(path[t], content[t]) = n

AnswerInv ==
  \A n \in Names :
    /\ \A t \in Permits : Past(t, n) => claims[n] >= 1
    /\ \A t, u \in Permits : Past(t, n) /\ Past(u, n) /\ t # u => claims[n] = 2
    /\ Complete(n) => claims[n] >= 1
    /\ \A t \in Permits : Complete(n) /\ Past(t, n) => claims[n] = 2

(* The steps by which no task comes past its read, and no answer appears.  *)
Uncounted ==
  /\ UNCHANGED claims
  /\ \A t \in Permits, n \in Names : Past(t, n)' => Past(t, n)
  /\ \A n \in Names : Complete(n)' => Complete(n)

(* All steps but the read and the write of a task are such steps.          *)
LEMMA AnswerSteps ==
  ASSUME TypeInv, [Next]_vars
  PROVE  \/ \E t \in Permits : TaskRead(t) \/ TaskWrite(t)
         \/ Uncounted
  <1> USE SetsAssumption DEF Uncounted, TypeInv, TypeOK, TaskTypes, Past, InHand, Complete, Goto, NameOf
  <1>1. ASSUME NEW t \in Permits, Task(t), ~TaskRead(t), ~TaskWrite(t) PROVE Uncounted
    <2>1. CASE TaskReadFails(t)
      BY <2>1 DEF TaskReadFails, End, PermitAfterError
    <2>2. CASE TaskDelete(t) \/ TaskSpawn(t)
      BY <2>2 DEF TaskDelete, TaskSpawn
    <2>3. ASSUME NEW from \in {"parse", "wait"}, NEW a \in Answers, Respond(t, from, a)
          PROVE  Uncounted
      BY <2>3 DEF Respond
    <2>4. CASE TaskCreate(t)
      BY <2>4 DEF TaskCreate, ResponsePath, Answers
    <2>5. ASSUME NEW from \in {"create", "write"}, TaskWriteFails(t, from) PROVE Uncounted
      BY <2>5 DEF TaskWriteFails, End, PermitAfterError
    <2> HIDE DEF Uncounted
    <2> QED BY <1>1, <2>1, <2>2, <2>3, <2>4, <2>5
            DEF Task, TaskInvalid, TaskSpawnFails, TaskOutput, TaskProcessError, TaskTimeout, Answers
  <1>2. CASE PollStart \/ PollDone \/ PollShutdown \/ ServiceStarts
    BY <1>2 DEF PollStart, PollDone, PollShutdown, ServiceStarts
  <1>3. ASSUME NEW r \in Requests, PollSkip(r) \/ ClientCreate(r) \/ ClientFill(r) PROVE Uncounted
    BY <1>3 DEF PollSkip, ClientCreate, ClientFill
  <1>4. ASSUME NEW r \in Requests, NEW t \in Permits, PollSpawn(r, t) PROVE Uncounted
    BY <1>4 DEF PollSpawn, Idle
  <1>5. CASE ServiceEnds
    BY <1>5 DEF ServiceEnds
  <1>6. CASE UNCHANGED vars
    BY <1>6 DEF vars
  <1> HIDE DEF Uncounted
  <1> QED BY <1>1, <1>2, <1>3, <1>4, <1>5, <1>6 DEF Next, Poll

(* A read claims its name, and so AnswerInv is kept.                       *)
LEMMA NextAnswerInv == TypeInv /\ AnswerInv /\ [Next]_vars => AnswerInv'
  <1> SUFFICES ASSUME TypeInv, AnswerInv, [Next]_vars PROVE AnswerInv'
    OBVIOUS
  <1> USE DEF TypeInv, TypeOK, TaskTypes
  <1>1. ASSUME NEW t \in Permits, TaskRead(t) PROVE AnswerInv'
    <2> DEFINE q == NameOf(path[t], requests[path[t]])
    <2>1. /\ q \in Names /\ UNCHANGED <<id, responses, path>>
          /\ at[t] = "read" /\ at' = [at EXCEPT ![t] = "delete"]
          /\ content' = [content EXCEPT ![t] = requests[path[t]]]
          /\ claims' = [claims EXCEPT ![q] = IF claims[q] < 2 THEN claims[q] + 1 ELSE claims[q]]
      BY <1>1, SetsAssumption DEF TaskRead, Goto, NameOf
    <2>2. \A u \in Permits \ {t}, n \in Names : Past(u, n)' => Past(u, n)
      BY <2>1 DEF Past, NameOf
    <2>3. \A n \in Names : Past(t, n)' => n = q
      BY <2>1 DEF Past, NameOf
    <2> HIDE DEF q
    <2>4. \A n \in Names : Complete(n)' <=> Complete(n)
      BY <2>1 DEF Complete
    <2>5. claims'[q] >= 1 /\ (claims[q] >= 1 => claims'[q] = 2)
      BY <2>1
    <2>6. \A n \in Names \ {q} : claims'[n] = claims[n]
      BY <2>1
    <2> QED BY <2>1, <2>2, <2>3, <2>4, <2>5, <2>6 DEF AnswerInv
  <1>2. ASSUME NEW t \in Permits, TaskWrite(t) PROVE AnswerInv'
    <2> DEFINE q == ResponsePath(t)
    <2>1. UNCHANGED claims /\ Past(t, q) /\ q \in Names
      BY <1>2, SetsAssumption DEF TaskWrite, End, Goto, Past, InHand, ResponsePath, NameOf
    <2>2. \A u \in Permits, n \in Names : Past(u, n)' => u # t /\ Past(u, n)
      BY <1>2 DEF TaskWrite, End, Goto, Past, InHand, NameOf
    <2>3. \A n \in Names : Complete(n)' => n = q \/ Complete(n)
      BY <1>2 DEF TaskWrite, Complete
    <2> HIDE DEF q
    <2> QED BY <2>1, <2>2, <2>3 DEF AnswerInv
  <1>3. CASE Uncounted
    BY <1>3 DEF Uncounted, AnswerInv
  <1> QED BY <1>1, <1>2, <1>3, AnswerSteps

(* Only the two steps of write_response change a response file.            *)
LEMMA ResponseSteps ==
  ASSUME [Next]_vars
  PROVE  UNCHANGED responses \/ \E t \in Permits : TaskCreate(t) \/ TaskWrite(t)
  <1>1. ASSUME NEW t \in Permits, Task(t), ~TaskCreate(t), ~TaskWrite(t) PROVE UNCHANGED responses
    BY <1>1 DEF Task, TaskRead, TaskReadFails, TaskDelete, TaskInvalid, TaskSpawn, TaskSpawnFails,
       TaskOutput, TaskProcessError, TaskTimeout, TaskWriteFails, Respond
  <1>2. CASE Poll \/ PollShutdown \/ ServiceStarts \/ ServiceEnds
    BY <1>2 DEF Poll, PollStart, PollDone, PollSkip, PollSpawn, PollShutdown, ServiceStarts,
       ServiceEnds
  <1>3. ASSUME NEW r \in Requests, ClientCreate(r) \/ ClientFill(r) PROVE UNCHANGED responses
    BY <1>3 DEF ClientCreate, ClientFill
  <1> QED BY <1>1, <1>2, <1>3 DEF Next, vars

(* A complete answer that a client may have read is never emptied or       *)
(* replaced, unless two reads are to be answered under its name: a file    *)
(* read by two tasks, or two requests whose ids, or id and stem, agree.    *)
THEOREM AnswersAreFinal == Spec => AnswerFinal
  <1>1. TypeInv /\ AnswerInv /\ [Next]_vars
          => [\A n \in Names :
                Complete(n) => responses'[n] = responses[n] \/ claims[n] > 1]_vars
    <2> SUFFICES ASSUME TypeInv, AnswerInv, [Next]_vars, NEW n \in Names, Complete(n)
                 PROVE  responses'[n] = responses[n] \/ claims[n] > 1
      OBVIOUS
    <2>1. ASSUME NEW t \in Permits, TaskCreate(t) \/ TaskWrite(t)
          PROVE  responses'[n] = responses[n] \/ claims[n] > 1
      <3>1. ResponsePath(t) \in Names /\ Past(t, ResponsePath(t))
        BY <2>1, SetsAssumption DEF TaskCreate, TaskWrite, End, Goto, Past, InHand, ResponsePath,
           NameOf, TypeInv, TypeOK, TaskTypes
      <3>2. CASE ResponsePath(t) = n
        BY <3>1, <3>2 DEF AnswerInv
      <3>3. CASE ResponsePath(t) # n
        BY <2>1, <3>3 DEF TaskCreate, TaskWrite, TypeInv, TypeOK
      <3> QED BY <3>2, <3>3
    <2> QED BY <2>1, ResponseSteps
  <1>2. Init => AnswerInv
    BY DEF Init, AnswerInv, Past, InHand, Complete, Answers
  <1> QED BY <1>1, <1>2, TypesKept, NextAnswerInv, PTL DEF Spec, AnswerFinal

=============================================================================
