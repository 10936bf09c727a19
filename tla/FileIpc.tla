------------------------------ MODULE FileIpc -------------------------------
(***************************************************************************)
(* src/file_ipc.rs: a poll lists the request directory, a task for each    *)
(* request file reads it, deletes it, runs the command and writes the      *)
(* response file.  The clients and the two directories are external, and   *)
(* so is the end of the service at any moment, and its next start.         *)
(*                                                                         *)
(* A request is known by the stem of its file.  The response is named by   *)
(* the `id` in the JSON, which the client chooses: it may be the stem, or  *)
(* another request's stem or id.  A client creates the file and then fills *)
(* it.  Every task holds one of the semaphore's permits from its spawn to  *)
(* its end, so the tasks are known by their permits.                       *)
(***************************************************************************)
EXTENDS Naturals, FiniteSets

CONSTANTS
  Requests,      \* the requests that clients make, each one once
  Names,         \* the names of response files: stems and ids
  Permits,       \* the permits of the semaphore (MAX_CONCURRENT_JOBS = 10)
  None,          \* no request, no text, no answer
  MaxFaults      \* the bound on I/O errors and ends of the service

ASSUME SetsAssumption ==
  /\ IsFiniteSet(Requests) /\ IsFiniteSet(Permits) /\ Permits # {}
  /\ Requests \subseteq Names /\ None \notin Requests
ASSUME BoundAssumption == MaxFaults \in Nat

VARIABLES
  client, id,         \* per request: "no", "writing" or "done"; the id in it
  requests,           \* the request file: "none", or what is in it
  responses,          \* per name, the file: "none", "empty" or an answer
  poller, listing,    \* FileIpcServer::run; the directory entries to come
  at, path, content,  \* per task: where it is, its request_path, what it read
  answer,             \* the response it will write
  claims,             \* how many reads are to be answered under a name, up to 2
  answered,           \* the requests whose response has been written
  lost,               \* the requests whose answer was lost to an I/O error or
                      \* to the end of the service
  faults              \* how many of these there have been

clientVars == <<client, id>>
fileVars == <<requests, responses>>
pollVars == <<poller, listing>>
taskVars == <<at, path, content, answer>>
countVars == <<claims, answered, lost, faults>>
vars == <<clientVars, fileVars, pollVars, taskVars, countVars>>

(* With the exit code and the output, or with -1 and an error.             *)
Answers == {"output", "error"}
Complete(n) == responses[n] \in Answers

(* A finished request: UTF-8 and a Request, UTF-8 and none, or not UTF-8,  *)
(* which read_to_string refuses.                                           *)
Contents == {"whole", "invalid", "garbled"}
Texts == {"partial", "whole", "invalid"}

Init ==
  /\ client = [r \in Requests |-> "no"]
  /\ id \in [Requests -> Names]
  /\ requests = [r \in Requests |-> "none"]
  /\ responses = [n \in Names |-> "none"]
  /\ poller = "sleep" /\ listing = {}
  /\ at = [t \in Permits |-> "idle"] /\ path = [t \in Permits |-> None]
  /\ content = [t \in Permits |-> None] /\ answer = [t \in Permits |-> None]
  /\ claims = [n \in Names |-> 0]
  /\ answered = {} /\ lost = {}
  /\ faults = 0

-----------------------------------------------------------------------------
(* process_requests, one poll of the request directory                     *)

Idle == {t \in Permits : at[t] = "idle"}

PollStart ==
  /\ poller = "sleep"
  /\ poller' = "list"
  /\ listing' = {r \in Requests : requests[r] # "none"}
  /\ UNCHANGED <<clientVars, fileVars, taskVars, countVars>>

(* A permit, and a task that has it.                                       *)
PollSpawn(r, t) ==
  /\ poller = "list" /\ r \in listing
  /\ t \in Idle
  /\ at' = [at EXCEPT ![t] = "read"]
  /\ path' = [path EXCEPT ![t] = r]
  /\ listing' = listing \ {r}
  /\ UNCHANGED <<clientVars, fileVars, poller, content, answer, countVars>>

(* try_acquire_owned fails: the file waits for a later poll.               *)
PollSkip(r) ==
  /\ poller = "list" /\ r \in listing
  /\ Idle = {}
  /\ listing' = listing \ {r}
  /\ UNCHANGED <<clientVars, fileVars, poller, taskVars, countVars>>

PollDone ==
  /\ poller = "list" /\ listing = {}
  /\ poller' = "sleep"
  /\ UNCHANGED <<clientVars, fileVars, listing, taskVars, countVars>>

(* shutdown_rx.changed(): no more polls; the tasks go on.                  *)
PollShutdown ==
  /\ poller = "sleep"
  /\ poller' = "stopped"
  /\ UNCHANGED <<clientVars, fileVars, listing, taskVars, countVars>>

Poll ==
  \/ PollStart \/ PollDone
  \/ \E r \in Requests : PollSkip(r) \/ \E t \in Permits : PollSpawn(r, t)

-----------------------------------------------------------------------------
(* process_single_request                                                  *)

Goto(t, from, to) == at[t] = from /\ at' = [at EXCEPT ![t] = to]

(* A bug: an error leaves without the permit.                              *)
PermitAfterErrorKept == "gone"

PermitAfterError == "idle"

(* The task ends, with or without an error, and drops its permit.          *)
End(t, from, to) ==
  /\ Goto(t, from, to)
  /\ path' = [path EXCEPT ![t] = None]
  /\ content' = [content EXCEPT ![t] = None]
  /\ answer' = [answer EXCEPT ![t] = None]

Fault == faults < MaxFaults /\ faults' = faults + 1

(* The name a request with this text is to be answered under.              *)
NameOf(r, text) == IF text = "whole" THEN id[r] ELSE r

TaskRead(t) ==
  /\ Goto(t, "read", "delete")
  /\ requests[path[t]] \in Texts
  /\ content' = [content EXCEPT ![t] = requests[path[t]]]
  /\ claims' = [claims EXCEPT ![NameOf(path[t], requests[path[t]])] = IF @ < 2 THEN @ + 1 ELSE @]
  /\ UNCHANGED <<clientVars, fileVars, pollVars, path, answer, answered, lost, faults>>

(* The file is gone, its client has it open for itself, it is not UTF-8,   *)
(* or another error: what is in the directory stays for a later poll.      *)
TaskReadFails(t) ==
  /\ End(t, "read", PermitAfterError)
  /\ \/ requests[path[t]] \in {"none", "partial", "garbled"} /\ UNCHANGED faults
     \/ requests[path[t]] \in {"whole", "invalid"} /\ Fault
  /\ UNCHANGED <<clientVars, fileVars, pollVars, claims, answered, lost>>

(* remove_file: an error, as when the file is gone, is only logged.        *)
TaskDelete(t) ==
  /\ Goto(t, "delete", "parse")
  /\ \/ requests' = [requests EXCEPT ![path[t]] = "none"] /\ UNCHANGED faults
     \/ UNCHANGED requests /\ Fault
  /\ UNCHANGED <<clientVars, responses, pollVars, path, content, answer,
                 claims, answered, lost>>

Respond(t, from, a) ==
  /\ Goto(t, from, "create")
  /\ answer' = [answer EXCEPT ![t] = a]
  /\ UNCHANGED <<clientVars, fileVars, pollVars, path, content, countVars>>

(* A bug: an invalid request is logged and not answered.                   *)
TaskInvalidSilent(t) ==
  /\ content[t] # "whole"
  /\ End(t, "parse", "idle")
  /\ UNCHANGED <<clientVars, fileVars, pollVars, countVars>>

(* What is not whole is not a Request: write_error_response.               *)
TaskInvalid(t) == content[t] # "whole" /\ Respond(t, "parse", "error")

(* execute_command                                                         *)
TaskSpawn(t) ==
  /\ content[t] = "whole"
  /\ Goto(t, "parse", "wait")
  /\ UNCHANGED <<clientVars, fileVars, pollVars, path, content, answer, countVars>>

TaskSpawnFails(t) == content[t] = "whole" /\ Respond(t, "parse", "error")

TaskOutput(t) == Respond(t, "wait", "output")
TaskProcessError(t) == Respond(t, "wait", "error")

(* The future of wait_with_output is dropped; its process runs on.         *)
TaskTimeout(t) == Respond(t, "wait", "error")

(* write_response: File::create makes or empties the file, and the text    *)
(* comes later; an error loses the answer.                                 *)

(* A bug: every response has the name for a file without a stem.           *)
ResponsePathUnknown(t) == CHOOSE r \in Requests : TRUE

(* response.id: the request's own, or the stem when there is none.         *)
ResponsePath(t) == IF content[t] = "whole" THEN id[path[t]] ELSE path[t]

TaskCreate(t) ==
  /\ Goto(t, "create", "write")
  /\ responses' = [responses EXCEPT ![ResponsePath(t)] = "empty"]
  /\ UNCHANGED <<clientVars, requests, pollVars, path, content, answer, countVars>>

TaskWrite(t) ==
  /\ End(t, "write", "idle")
  /\ responses' = [responses EXCEPT ![ResponsePath(t)] = answer[t]]
  /\ answered' = answered \union {path[t]}
  /\ UNCHANGED <<clientVars, requests, pollVars, claims, lost, faults>>

TaskWriteFails(t, from) ==
  /\ End(t, from, PermitAfterError)
  /\ Fault
  /\ lost' = lost \union {path[t]}
  /\ UNCHANGED <<clientVars, fileVars, pollVars, claims, answered>>

Task(t) ==
  \/ TaskRead(t) \/ TaskReadFails(t) \/ TaskDelete(t)
  \/ TaskInvalid(t) \/ TaskSpawn(t) \/ TaskSpawnFails(t)
  \/ TaskOutput(t) \/ TaskProcessError(t) \/ TaskTimeout(t)
  \/ TaskCreate(t) \/ TaskWrite(t)
  \/ TaskWriteFails(t, "create") \/ TaskWriteFails(t, "write")

-----------------------------------------------------------------------------
(* External: the clients, and the end and the next start of the service    *)

ClientCreate(r) ==
  /\ client[r] = "no"
  /\ client' = [client EXCEPT ![r] = "writing"]
  /\ requests' = [requests EXCEPT ![r] = "partial"]
  /\ UNCHANGED <<id, responses, pollVars, taskVars, countVars>>

(* What the client writes to a file that has been deleted is gone.         *)
ClientFill(r) ==
  /\ client[r] = "writing"
  /\ client' = [client EXCEPT ![r] = "done"]
  /\ \E c \in Contents :
       requests' = [requests EXCEPT ![r] = IF @ = "partial" THEN c ELSE @]
  /\ UNCHANGED <<id, responses, pollVars, taskVars, countVars>>

(* The requests that a task has taken out of the directory, or might have. *)
Taken == {path[t] : t \in {u \in Permits : at[u] \in {"parse", "wait", "create", "write"}}}

(* The service stops, or crashes: its tasks are gone, the files stay.      *)
ServiceEnds ==
  /\ poller # "down" /\ Fault
  /\ poller' = "down" /\ listing' = {}
  /\ at' = [t \in Permits |-> "idle"] /\ path' = [t \in Permits |-> None]
  /\ content' = [t \in Permits |-> None] /\ answer' = [t \in Permits |-> None]
  /\ lost' = lost \union Taken
  /\ UNCHANGED <<clientVars, fileVars, claims, answered>>

ServiceStarts ==
  /\ poller = "down"
  /\ poller' = "sleep"
  /\ UNCHANGED <<clientVars, fileVars, listing, taskVars, countVars>>

Next ==
  \/ Poll \/ PollShutdown
  \/ \E t \in Permits : Task(t)
  \/ \E r \in Requests : ClientCreate(r) \/ ClientFill(r)
  \/ ServiceEnds \/ ServiceStarts

Spec == Init /\ [][Next]_vars

(* The loop polls and the runtime polls every task; a command ends, or its *)
(* timeout does.                                                           *)
Fairness == WF_vars(Poll) /\ \A t \in Permits : WF_vars(Task(t))

(* A task ends with a read error long before the 100 ms to the next poll   *)
(* are over: again and again, a poll starts with no request being read.    *)
ReadsInTime == []<><<PollStart /\ \A t \in Permits : at[t] # "read">>_vars

-----------------------------------------------------------------------------
(* Properties                                                              *)

(* Every variable has its type; a task that is not idle has a request, and *)
(* one that writes has an answer.                                          *)
TypeOK ==
  /\ client \in [Requests -> {"no", "writing", "done"}]
  /\ id \in [Requests -> Names]
  /\ requests \in [Requests -> {"none", "partial"} \union Contents]
  /\ responses \in [Names -> {"none", "empty"} \union Answers]
  /\ poller \in {"sleep", "list", "stopped", "down"} /\ listing \subseteq Requests
  /\ at \in [Permits -> {"idle", "read", "delete", "parse", "wait", "create", "write"}]
  /\ \A t \in Permits :
       /\ path[t] \in IF at[t] = "idle" THEN {None} ELSE Requests
       /\ content[t] \in IF at[t] \in {"idle", "read"} THEN {None} ELSE Texts
       /\ answer[t] \in IF at[t] \in {"create", "write"} THEN Answers ELSE {None}
  /\ claims \in [Names -> 0 .. 2]
  /\ answered \subseteq Requests /\ lost \subseteq Requests /\ faults \in 0 .. MaxFaults

(* No request gets lost between its file, the task and the response,       *)
(* however polls and tasks overlap: it is in the directory, or in the      *)
(* hands of a task, or its response has been written.  Only an error while *)
(* the response is written, or the end of the service after the file has   *)
(* been deleted, can lose it.                                              *)
RequestKept ==
  \A r \in Requests :
    client[r] # "no" =>
      requests[r] # "none" \/ r \in Taken \/ r \in answered \/ r \in lost

(* An answer that a client may have read is not taken back or changed,     *)
(* unless two reads are to be answered under its name: one file read       *)
(* twice, two requests with one id, or an id that is the stem of a request *)
(* which is not valid.                                                     *)
AnswerFinal ==
  [][\A n \in Names :
       Complete(n) => responses'[n] = responses[n] \/ claims[n] > 1]_vars

(* Each of these gets a permit at every poll, and an error.                *)
Unreadable == {r \in Requests : requests[r] \in {"partial", "garbled"}}

(* A request whose file is complete and UTF-8 is answered while the        *)
(* service runs: permits come back on every path, and a poll that finds    *)
(* none left passes the file over without forgetting it.  A file that is   *)
(* not UTF-8, or stays open in its client, is never answered and never     *)
(* deleted; as many of these as there are permits can keep all others out. *)
RequestAnswered ==
  ReadsInTime =>
    \A r \in Requests :
      (requests[r] \in {"whole", "invalid"}) ~>
        \/ r \in answered \/ r \in lost
        \/ poller \in {"stopped", "down"}
        \/ Cardinality(Unreadable) >= Cardinality(Permits)

-----------------------------------------------------------------------------
(* What a comment says, and the code does not keep.                        *)

HasRead(t) == at[t] \in {"delete", "parse", "wait", "create", "write"}

(* process_single_request: "Delete request file immediately to prevent     *)
(* re-processing".  So no two tasks have the same request.                 *)
ProcessedOnce ==
  \A t, u \in Permits : HasRead(t) /\ HasRead(u) /\ path[t] = path[u] => t = u

=============================================================================
