----------------------------- MODULE OutputPump -----------------------------
(***************************************************************************)
(* The output of one job on its way to the client: the two pumps of        *)
(* src/io_pump.rs, the StreamPump they share, the session's frame channel  *)
(* and writer task, and the exit waiter of src/pipe_server.rs, as far as   *)
(* it puts the EXIT frame in the same channel.                             *)
(*                                                                         *)
(* The anonymous pipes, the process and the client are external.  Lengths  *)
(* are counted in units: MaxPayload stands for MAX_PAYLOAD_SIZE (32 KiB),  *)
(* Window for the initial window (64 KiB).  The drop policy is never       *)
(* switched on (StreamPump::new(65536, false)), and nothing in src/ calls  *)
(* update_window, so send_window is a constant.                            *)
(***************************************************************************)
EXTENDS Integers, Sequences, SequencesExt, FiniteSets

CONSTANTS
  Streams,       \* stdout and stderr
  None,          \* no frame
  Window,        \* send_window
  MaxPayload,    \* the most one ReadFile returns
  ChannelSize,   \* the capacity of the frame channel
  SequenceSpace, \* 2^32, the number of sequence numbers
  MaxWritten,    \* the bound on what the process writes to each stream
  ReadErrors,    \* whether ReadFile may fail other than by a broken pipe
  EmptyWrites    \* whether the process may write zero bytes

ASSUME StreamsAssumption ==
  IsFiniteSet(Streams) /\ Streams # {} /\ "control" \notin Streams
ASSUME SizesAssumption ==
  /\ Window \in Nat /\ MaxPayload \in Nat \ {0} /\ ChannelSize \in Nat \ {0}
  /\ SequenceSpace \in Nat \ {0}
  /\ MaxWritten \in Nat /\ ReadErrors \in BOOLEAN /\ EmptyWrites \in BOOLEAN

VARIABLES
  written, pipe,    \* what the process has written, what is still in the pipe
  proc, token,      \* "running" or "exited"; the job's cancellation token
  at, sequence,     \* where each pump is, its sequence counter
  frame,            \* the frame each pump is sending
  bytes_in_flight,  \* of the shared StreamPump
  waiter,           \* "wait" or "done"
  channel,          \* the frame channel
  writer,           \* the writer task: "up" or "done"
  requests,         \* the request loop: "up", "reading" (in ReadFile) or "done"
  client,           \* "up" or "gone"
  received          \* what the client has received

procVars == <<written, pipe, proc, token>>
pumpVars == <<at, sequence, frame, bytes_in_flight>>
sessionVars == <<waiter, channel, writer, requests>>
clientVars == <<client, received>>
vars == <<procVars, pumpVars, sessionVars, clientVars>>

Output(s, seq, from, len) ==
  [stream |-> s, seq |-> seq, from |-> from, len |-> len, eos |-> FALSE]
EndOfStream(s, seq, from) ==
  [stream |-> s, seq |-> seq, from |-> from, len |-> 0, eos |-> TRUE]
Exit == [stream |-> "control", seq |-> 0, from |-> 0, len |-> 0, eos |-> FALSE]

Init ==
  /\ written = [s \in Streams |-> 0] /\ pipe = [s \in Streams |-> 0]
  /\ proc = "running" /\ token = FALSE
  /\ at = [s \in Streams |-> "top"]
  /\ sequence = [s \in Streams |-> 0]
  /\ frame = [s \in Streams |-> None]
  /\ bytes_in_flight = 0
  /\ waiter = "wait" /\ channel = << >> /\ writer = "up" /\ requests = "up"
  /\ client = "up" /\ received = << >>

Goto(s, label) == at' = [at EXCEPT ![s] = label]

-----------------------------------------------------------------------------
(* start_output_pump                                                       *)

(* What the pump has taken out of the pipe: the position of its next read. *)
Position(s) == written[s] - pipe[s]

(* Out of the loop: the EOS frame goes the way of the others.              *)
LeaveLoop(s) ==
  /\ frame' = [frame EXCEPT ![s] = EndOfStream(s, sequence[s], Position(s))]
  /\ Goto(s, "check")

PumpTop(s) ==
  /\ at[s] = "top"
  /\ IF token THEN LeaveLoop(s) ELSE Goto(s, "read") /\ UNCHANGED frame
  /\ UNCHANGED <<procVars, sequence, bytes_in_flight, sessionVars, clientVars>>

(* A bug: every frame of the stream has the same sequence number.          *)
NextSequenceStuck(n) == n
(* A bug: the counter leaves its 32 bits.                                  *)
NextSequenceWide(n) == n + 1

NextSequence(n) == (n + 1) % SequenceSpace

(* ReadFile blocks until there is data, and returns what there is, up to   *)
(* the size of the buffer.                                                 *)
PumpRead(s) ==
  LET len == IF pipe[s] < MaxPayload THEN pipe[s] ELSE MaxPayload IN
  /\ at[s] = "read"
  /\ pipe[s] > 0
  /\ pipe' = [pipe EXCEPT ![s] = @ - len]
  /\ frame' = [frame EXCEPT ![s] = Output(s, sequence[s], Position(s), len)]
  /\ sequence' = [sequence EXCEPT ![s] = NextSequence(@)]
  /\ Goto(s, "check")
  /\ UNCHANGED <<written, proc, token, bytes_in_flight, sessionVars, clientVars>>

(* ERROR_BROKEN_PIPE: the write end is closed and everything has been      *)
(* read.  A read of no bytes, which a write of none causes, is taken for   *)
(* the end as well.                                                        *)
PumpEof(s) ==
  /\ at[s] = "read"
  /\ pipe[s] = 0
  /\ proc = "exited" \/ EmptyWrites
  /\ LeaveLoop(s)
  /\ UNCHANGED <<procVars, sequence, bytes_in_flight, sessionVars, clientVars>>

(* Any other error ends the pump, without an EOS frame.                    *)
PumpReadError(s) ==
  /\ ReadErrors
  /\ at[s] = "read"
  /\ Goto(s, "done")
  /\ UNCHANGED <<procVars, sequence, frame, bytes_in_flight, sessionVars, clientVars>>

-----------------------------------------------------------------------------
(* try_send_frame: the check and the fetch_add are two steps.              *)

(* A bug: only the bytes already in flight count.                          *)
FitsBlind(s) == bytes_in_flight <= Window

Fits(s) == bytes_in_flight + frame[s].len <= Window

PumpCheck(s) ==
  /\ at[s] = "check"
  /\ Goto(s, IF Fits(s) THEN "reserve" ELSE "blocked")
  /\ UNCHANGED <<procVars, sequence, frame, bytes_in_flight, sessionVars, clientVars>>

PumpReserve(s) ==
  /\ at[s] = "reserve"
  /\ bytes_in_flight' = bytes_in_flight + frame[s].len
  /\ Goto(s, "send")
  /\ UNCHANGED <<procVars, sequence, frame, sessionVars, clientVars>>

(* sender.send: waits for room in the channel, fails without a receiver    *)
(* (the pump's `?` ends it).                                               *)
PumpSend(s) ==
  /\ at[s] = "send"
  /\ \/ /\ writer = "up"
        /\ Len(channel) < ChannelSize
        /\ channel' = Append(channel, frame[s])
        /\ Goto(s, IF frame[s].eos THEN "done" ELSE "top")
     \/ /\ writer = "done"
        /\ Goto(s, "done")
        /\ UNCHANGED channel
  /\ frame' = [frame EXCEPT ![s] = None]
  /\ UNCHANGED <<procVars, sequence, bytes_in_flight, waiter, writer, requests, clientVars>>

(* A pump that is "blocked" awaits notified(), which only update_window    *)
(* would end.                                                              *)

Pump(s) ==
  \/ PumpTop(s) \/ PumpRead(s) \/ PumpEof(s)
  \/ PumpCheck(s) \/ PumpReserve(s) \/ PumpSend(s)

-----------------------------------------------------------------------------
(* The session                                                             *)

(* The waiter learns of the exit, or of the cancellation, and sends EXIT.  *)
WaiterSend ==
  /\ waiter = "wait"
  /\ proc = "exited" \/ token
  /\ \/ writer = "up" /\ Len(channel) < ChannelSize /\ channel' = Append(channel, Exit)
     \/ writer = "done" /\ UNCHANGED channel
  /\ waiter' = "done"
  /\ UNCHANGED <<procVars, pumpVars, writer, requests, clientVars>>

(* The request loop and the writer task share one pipe handle, opened      *)
(* without FILE_FLAG_OVERLAPPED: the system takes its operations one at a  *)
(* time, and a WriteFile waits for the ReadFile under way (external).      *)
PipeFree == requests # "reading"

(* The writer task writes the next frame; a write that fails ends it, and  *)
(* the receiver is dropped with what the channel holds.                    *)
WriterWrite ==
  /\ writer = "up" /\ channel # << >>
  /\ PipeFree
  /\ IF client = "up"
       THEN /\ received' = Append(received, Head(channel))
            /\ channel' = Tail(channel)
            /\ UNCHANGED writer
       ELSE /\ writer' = "done"
            /\ channel' = << >>
            /\ UNCHANGED received
  /\ UNCHANGED <<procVars, pumpVars, waiter, requests, client>>

(* handle_client is past its writer_handle.await.                          *)
SessionOver == requests = "done" /\ writer = "done"

(* A bug: handle_client keeps its own sender until it returns.             *)
AllSendersGoneKeptOne == SessionOver
(* A bug: the pumps' senders are not counted.                              *)
AllSendersGoneButPumps == requests = "done" /\ waiter = "done"

AllSendersGone ==
  /\ requests = "done" /\ waiter = "done"
  /\ \A s \in Streams : at[s] = "done"

(* recv() returns None: handle_client returns, and the permit with it.     *)
WriterEnd ==
  /\ writer = "up" /\ channel = << >>
  /\ AllSendersGone
  /\ writer' = "done"
  /\ UNCHANGED <<procVars, pumpVars, waiter, channel, requests, clientVars>>

(* read_frame: ReadFile waits for the client to send a frame.              *)
RequestsRead ==
  /\ requests = "up"
  /\ requests' = "reading"
  /\ UNCHANGED <<procVars, pumpVars, waiter, channel, writer, clientVars>>

(* GOODBYE, or the read fails: process_requests returns.                   *)
RequestsEnd ==
  /\ requests = "reading"
  /\ requests' = "done"
  /\ UNCHANGED <<procVars, pumpVars, waiter, channel, writer, clientVars>>

-----------------------------------------------------------------------------
(* External: the process, the token's owner, the client                    *)

ProcWrite(s) ==
  /\ proc = "running"
  /\ written[s] < MaxWritten
  /\ written' = [written EXCEPT ![s] = @ + 1]
  /\ pipe' = [pipe EXCEPT ![s] = @ + 1]
  /\ UNCHANGED <<proc, token, pumpVars, sessionVars, clientVars>>

ProcExit ==
  /\ proc = "running"
  /\ proc' = "exited"
  /\ UNCHANGED <<written, pipe, token, pumpVars, sessionVars, clientVars>>

CancelJob ==
  /\ ~token
  /\ token' = TRUE
  /\ UNCHANGED <<written, pipe, proc, pumpVars, sessionVars, clientVars>>

Bytes(frames) == FoldLeft(LAMBDA n, f : n + f.len, 0, frames)

(* The client acknowledges what it has received.  The handler of           *)
(* WINDOW_UPDATE touches the job's last_activity and nothing of this; the  *)
(* same goes for every other frame but CANCEL and GOODBYE.                 *)
WindowUpdate ==
  /\ client = "up" /\ requests = "reading"
  /\ requests' = "up"
  /\ UNCHANGED <<procVars, pumpVars, waiter, channel, writer, clientVars>>

ClientGone ==
  /\ client = "up"
  /\ client' = "gone"
  /\ UNCHANGED <<procVars, pumpVars, sessionVars, received>>

Next ==
  \/ \E s \in Streams : Pump(s) \/ PumpReadError(s) \/ ProcWrite(s)
  \/ WaiterSend \/ WriterWrite \/ WriterEnd \/ RequestsRead \/ RequestsEnd
  \/ ProcExit \/ CancelJob \/ WindowUpdate \/ ClientGone

Spec == Init /\ [][Next]_vars

(* The runtime polls every task that can go on, the client reads, a pipe   *)
(* that comes free again and again is not taken by a read every time, and  *)
(* a request loop whose client has gone sees its read fail.                *)
FairSpec ==
  /\ Spec
  /\ \A s \in Streams : WF_vars(Pump(s))
  /\ WF_vars(WaiterSend) /\ SF_vars(WriterWrite) /\ WF_vars(WriterEnd)
  /\ WF_vars(RequestsRead) /\ WF_vars(client = "gone" /\ RequestsEnd)

(* The client keeps sending frames: nothing but a frame ends a read, and   *)
(* so lets the writer at the pipe, while the client is there.              *)
BusyClient == WF_vars(WindowUpdate)

-----------------------------------------------------------------------------
(* Properties                                                              *)

Frames(s) ==
  [stream : {s}, seq : 0 .. SequenceSpace - 1, from : 0 .. MaxWritten,
   len : 0 .. MaxPayload, eos : BOOLEAN]

(* Every variable has its type; a pump holds a frame of its own stream     *)
(* exactly while it is sending it.                                         *)
TypeOK ==
  /\ written \in [Streams -> 0 .. MaxWritten]
  /\ pipe \in [Streams -> 0 .. MaxWritten]
  /\ \A s \in Streams : pipe[s] <= written[s]
  /\ proc \in {"running", "exited"} /\ token \in BOOLEAN
  /\ at \in [Streams -> {"top", "read", "check", "reserve", "send", "blocked", "done"}]
  /\ sequence \in [Streams -> 0 .. SequenceSpace - 1]
  /\ bytes_in_flight \in Nat
  /\ waiter \in {"wait", "done"} /\ writer \in {"up", "done"}
  /\ requests \in {"up", "reading", "done"} /\ client \in {"up", "gone"}
  /\ DOMAIN frame = Streams
  /\ \A s \in Streams :
       IF at[s] \in {"check", "reserve", "send", "blocked"}
         THEN frame[s] \in Frames(s)
         ELSE frame[s] = None

(* The two pumps share one window and check it before they reserve, so     *)
(* together they may exceed it; by at most a frame for each pump beyond    *)
(* the first.                                                              *)
WindowBound == bytes_in_flight <= Window + (Cardinality(Streams) - 1) * MaxPayload

(* Where in a sequence of frames those of stream s are.                    *)
Places(frames, s) == {i \in DOMAIN frames : frames[i].stream = s}

(* After the first n frames, the next one of stream s is to have the       *)
(* number q and to begin at byte p: 0 and 0 if it is the first, else where *)
(* the last one of s left off, and that one must not have ended the stream.*)
Expects(frames, s, n, q, p) ==
  LET before == {i \in Places(frames, s) : i <= n} IN
  /\ before = {} => q = 0 /\ p = 0
  /\ \A i \in before : (\A j \in before : j <= i) =>
       /\ ~frames[i].eos
       /\ q = (frames[i].seq + 1) % SequenceSpace
       /\ p = frames[i].from + frames[i].len

(* The frames of stream s carry on from one another, within its length.    *)
Continuous(frames, s, length) ==
  \A i \in Places(frames, s) :
    /\ Expects(frames, s, i - 1, frames[i].seq, frames[i].from)
    /\ frames[i].from + frames[i].len <= length

(* What is on the way to the client, or has reached it.                    *)
Flow == received \o channel

(* What is on the way to the client, or has reached it, is for each stream *)
(* a beginning of what the process wrote: numbered without a gap, no byte  *)
(* lost, repeated or out of order, and nothing after the end of stream.    *)
StreamIntact == \A s \in Streams : Continuous(Flow, s, written[s])

OfStream(frames, s) == SelectSeq(frames, LAMBDA f : f.stream = s)

EosReceived(s) == \E i \in DOMAIN received : received[i].stream = s /\ received[i].eos
ExitReceived == \E i \in DOMAIN received : received[i] = Exit

(* When the output fits the window, a client that stays, and keeps sending *)
(* frames, gets the end of each stream and the EXIT frame, and, unless the *)
(* job is cancelled, every byte the process wrote.                         *)
OutputArrives ==
  BusyClient =>
    ((proc = "exited") ~>
       (\/ client = "gone"
        \/ /\ ExitReceived
           /\ \A s \in Streams :
                /\ EosReceived(s)
                /\ token \/ Bytes(OfStream(received, s)) = written[s]))

(* When the output fits the window, the session of a client that has left  *)
(* ends once the process has exited: handle_client returns and gives its   *)
(* connection permit back.                                                 *)
SessionEnds == (client = "gone" /\ proc = "exited") ~> SessionOver

-----------------------------------------------------------------------------
(* What the documentation says, and the code does not keep.                *)

(* OUTPUT_STREAMING.md on WINDOW_UPDATE: "This increases the send window,  *)
(* allowing more data to be sent."                                         *)
WindowUpdateResumes ==
  BusyClient =>
    \A s \in Streams :
      (at[s] = "blocked") ~> (at[s] # "blocked" \/ requests = "done" \/ client = "gone")

=============================================================================
