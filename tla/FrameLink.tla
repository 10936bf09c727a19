----------------------------- MODULE FrameLink ------------------------------
(***************************************************************************)
(* One direction of a connection: write_frame_static at one end of the     *)
(* named pipe, read_frame_static at the other (src/pipe_server.rs), with   *)
(* the frames of src/protocol.rs.  The server is the writer of one         *)
(* direction and the reader of the other; the far end is taken to use the  *)
(* same code, except that it may send bytes that are no frame.             *)
(*                                                                         *)
(* One task at a time writes: handle_client itself until it has sent       *)
(* HELLO_ACK, the writer task from then on.  The pipe is external: it      *)
(* takes and gives any number of the bytes it is offered or asked for, and *)
(* on the server's handle, which is not overlapped, it does so one call at *)
(* a time: a WriteFile waits for the ReadFile of the other direction.      *)
(***************************************************************************)
EXTENDS Protocol, SequencesExt

CONSTANTS
  Samples,      \* the frames to send
  NoFrames,     \* byte sequences that a faulty client sends instead of a frame
  MaxSent,      \* the bound on the frames sent
  PipeSize      \* the bytes the pipe can hold

LengthOf(bytes) == FromBeBytes32(bytes[1], bytes[2], bytes[3], bytes[4])

(* A length that is too large, or the one of bytes that `decode` refuses.  *)
NoFrame(bytes) ==
  /\ Len(bytes) >= 4
  /\ \/ LengthOf(bytes) > MaxFrameSize
     \/ /\ Len(bytes) >= 4 + LengthOf(bytes)
        /\ ~CanDecode(SubSeq(bytes, 5, 4 + LengthOf(bytes)))

ASSUME LinkAssumption ==
  /\ MaxSent \in Nat /\ PipeSize \in Nat \ {0}
  /\ Samples \subseteq Frame
  /\ \A bytes \in NoFrames : bytes \in Seq(Bytes) /\ NoFrame(bytes)

VARIABLES
  sent, faulty,     \* the frames sent; whether anything else was
  writer, unwritten,\* "up" or "failed"; what write_all has still to write
  pipe, open,       \* the bytes in the pipe; whether both ends are connected
  busy,             \* a ReadFile is under way on the handle of the writer
  reader, step,     \* "up", "refused" or "broken"; reading "length" or "data"
  size, buffer,     \* of read_exact; the buffer up to `offset`
  received          \* the frames read_frame_static has returned

writerVars == <<sent, faulty, writer, unwritten>>
readerVars == <<reader, step, size, buffer, received>>
vars == <<writerVars, pipe, open, busy, readerVars>>

Init ==
  /\ sent = << >> /\ faulty = FALSE /\ writer = "up" /\ unwritten = << >>
  /\ pipe = << >> /\ open = TRUE /\ busy = FALSE
  /\ reader = "up" /\ step = "length" /\ size = 4 /\ buffer = << >>
  /\ received = << >>

-----------------------------------------------------------------------------
(* write_frame_static and write_all                                        *)

(* What is written of a frame: the length prefix and the frame.            *)
Wire(f) == ToBeBytes32(Len(Encode(f))) \o Encode(f)

WriteFrame(f) ==
  /\ writer = "up" /\ unwritten = << >>
  /\ Len(sent) < MaxSent
  /\ CanEncode(f)
  /\ unwritten' = Wire(f)
  /\ sent' = Append(sent, f)
  /\ UNCHANGED <<faulty, writer, pipe, open, busy, readerVars>>

(* The error of `encode` ends the writer, before anything is written.      *)
EncodeFails(f) ==
  /\ writer = "up" /\ unwritten = << >>
  /\ ~CanEncode(f)
  /\ writer' = "failed"
  /\ UNCHANGED <<sent, faulty, unwritten, pipe, open, busy, readerVars>>

WriteNoFrame(bytes) ==
  /\ writer = "up" /\ unwritten = << >>
  /\ ~faulty
  /\ unwritten' = bytes
  /\ faulty' = TRUE
  /\ UNCHANGED <<sent, writer, pipe, open, busy, readerVars>>

(* WriteFile, for a part of what is left.                                  *)
WriteAll(n) ==
  /\ open /\ writer = "up" /\ ~busy
  /\ n <= Len(unwritten) /\ Len(pipe) + n <= PipeSize
  /\ pipe' = pipe \o SubSeq(unwritten, 1, n)
  /\ unwritten' = SubSeq(unwritten, n + 1, Len(unwritten))
  /\ UNCHANGED <<sent, faulty, writer, open, busy, readerVars>>

WriteFails ==
  /\ ~open /\ writer = "up" /\ unwritten # << >>
  /\ writer' = "failed"
  /\ UNCHANGED <<sent, faulty, unwritten, pipe, open, busy, readerVars>>

-----------------------------------------------------------------------------
(* read_exact and read_frame_static                                        *)

(* A bug: the loop goes on while offset <= size.                           *)
AllReadLate == Len(buffer) > size
(* A bug: ReadFile is given the length of the first buffer every time.     *)
RoomWhole == size

AllRead == Len(buffer) >= size

Room == size - Len(buffer)

(* ReadFile, for a part of what is asked for.                              *)
ReadExact(n) ==
  /\ reader = "up" /\ ~AllRead
  /\ n <= Room /\ n <= Len(pipe)
  /\ buffer' = buffer \o SubSeq(pipe, 1, n)
  /\ pipe' = SubSeq(pipe, n + 1, Len(pipe))
  /\ UNCHANGED <<writerVars, open, busy, reader, step, size, received>>

ReadFails ==
  /\ reader = "up" /\ ~AllRead
  /\ pipe = << >> /\ ~open
  /\ reader' = "broken"
  /\ UNCHANGED <<writerVars, pipe, open, busy, step, size, buffer, received>>

(* ReadFile returns zero bytes, for an empty write: UnexpectedEof.         *)
ReadNothing ==
  /\ reader = "up" /\ ~AllRead
  /\ reader' = "broken"
  /\ UNCHANGED <<writerVars, pipe, open, busy, step, size, buffer, received>>

Refuse == reader' = "refused" /\ UNCHANGED <<step, size, buffer, received>>

ReadLength ==
  /\ reader = "up" /\ step = "length" /\ AllRead
  /\ IF LengthOf(buffer) > MaxFrameSize
       THEN Refuse
       ELSE /\ step' = "data" /\ size' = LengthOf(buffer) /\ buffer' = << >>
            /\ UNCHANGED <<reader, received>>
  /\ UNCHANGED <<writerVars, pipe, open, busy>>

ReadData ==
  /\ reader = "up" /\ step = "data" /\ AllRead
  /\ IF CanDecode(buffer)
       THEN /\ received' = Append(received, Decode(buffer))
            /\ step' = "length" /\ size' = 4 /\ buffer' = << >>
            /\ UNCHANGED reader
       ELSE Refuse
  /\ UNCHANGED <<writerVars, pipe, open, busy>>

-----------------------------------------------------------------------------
(* The other direction: the reader at the writer's end waits for a frame,  *)
(* and gets one or fails.                                                  *)
ReadBegins ==
  /\ ~busy
  /\ busy' = TRUE
  /\ UNCHANGED <<writerVars, pipe, open, readerVars>>

ReadEnds ==
  /\ busy
  /\ busy' = FALSE
  /\ UNCHANGED <<writerVars, pipe, open, readerVars>>

(* Either end goes.  CloseHandle of the client leaves the server what is   *)
(* in the pipe, DisconnectNamedPipe of the server takes it from the client.*)
Disconnect ==
  /\ open
  /\ open' = FALSE
  /\ pipe' \in {pipe, << >>}
  /\ UNCHANGED <<writerVars, busy, readerVars>>

Write == \E n \in 1 .. PipeSize : WriteAll(n)
Read == (\E n \in 1 .. PipeSize : ReadExact(n)) \/ ReadLength \/ ReadData

Next ==
  \/ \E f \in Samples : WriteFrame(f) \/ EncodeFails(f)
  \/ \E bytes \in NoFrames : WriteNoFrame(bytes)
  \/ Write \/ WriteFails
  \/ Read \/ ReadFails \/ ReadNothing
  \/ ReadBegins \/ ReadEnds
  \/ Disconnect

Spec == Init /\ [][Next]_vars

(* The writer gets its turn if its handle is free again and again.         *)
FairSpec == Spec /\ SF_vars(Write)

(* What only the far end can see to: that it reads, and that it sends the  *)
(* frames which end the reads on the writer's handle.  While a client only *)
(* waits, the frame it waits for stays in WriteFile.                       *)
FarEndReads == WF_vars(Read)
FarEndSends == WF_vars(ReadEnds)

-----------------------------------------------------------------------------
(* Properties                                                              *)

(* Every variable has its type, and read_exact never reads more than it    *)
(* was asked for.                                                          *)
TypeOK ==
  /\ sent \in Seq(Samples) /\ Len(sent) <= MaxSent /\ faulty \in BOOLEAN
  /\ writer \in {"up", "failed"} /\ unwritten \in Seq(Bytes)
  /\ pipe \in Seq(Bytes) /\ Len(pipe) <= PipeSize /\ open \in BOOLEAN
  /\ busy \in BOOLEAN
  /\ reader \in {"up", "refused", "broken"} /\ step \in {"length", "data"}
  /\ size \in 0 .. MaxFrameSize
  /\ buffer \in Seq(Bytes) /\ Len(buffer) <= size
  /\ Len(received) <= Len(sent)

(* What the reader makes of a frame: the bytes of the three numbers are in *)
(* the opposite order.                                                     *)
Seen(f) ==
  [f EXCEPT !.flags = ToBe16(@), !.job_id = ToBe32(@), !.sequence_number = ToBe32(@)]

(* However the bytes are cut up, wherever the connection breaks and even   *)
(* if bytes that are no frame are sent, the frames received are the first  *)
(* of those sent, each with its three numbers in the opposite byte order:  *)
(* reader and writer agree on where a frame begins, and a frame that is    *)
(* refused by `encode`, or not sent to its end, leaves no trace.  A number *)
(* that comes back in another frame has its first value again.  The limits *)
(* of both ends agree too: the reader refuses nothing that `encode`        *)
(* accepts.                                                                *)
FramesIntact ==
  /\ IsPrefix(received, [i \in DOMAIN sent |-> Seen(sent[i])])
  /\ \A i \in DOMAIN received : Seen(received[i]) = sent[i]
  /\ reader = "refused" => faulty

(* A frame that was given to write_frame_static arrives at a far end that  *)
(* reads and keeps sending, unless the connection ends, an empty write     *)
(* breaks the reader, or something that is no frame came before it.        *)
FramesArrive ==
  FarEndReads /\ FarEndSends =>
    \A k \in 1 .. MaxSent :
      (Len(sent) >= k) ~> (Len(received) >= k \/ ~open \/ reader = "broken" \/ faulty)

=============================================================================
