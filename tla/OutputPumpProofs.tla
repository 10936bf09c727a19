-------------------------- MODULE OutputPumpProofs --------------------------
(***************************************************************************)
(* Theorems about OutputPump, for any number of streams and every size of  *)
(* the window, the frames and the channel: the bound on what is in flight  *)
(* and the integrity of what the client is sent.                           *)
(***************************************************************************)
EXTENDS OutputPump, FiniteSetTheorems, TLAPS

USE DEF procVars, pumpVars, sessionVars, clientVars

(* A sequence number stays in its 32 bits.                                 *)
LEMMA SequenceInRange ==
  ASSUME NEW n \in Nat
  PROVE  NextSequence(n) \in 0 .. SequenceSpace - 1
  BY SizesAssumption DEF NextSequence

(* A pump that has taken a frame holds it until it has sent it.            *)
Sending(s) == at[s] \in {"check", "reserve", "send", "blocked"}

Labels == {"top", "read", "check", "reserve", "send", "blocked", "done"}

(* Every action of the pump of stream s keeps the types.                   *)
LEMMA PumpTypes ==
  ASSUME TypeOK, NEW s \in Streams, Pump(s) \/ PumpReadError(s)
  PROVE  TypeOK'
  <1> USE SizesAssumption DEF TypeOK, Goto
  (* The types follow from where pump s is next and what it holds.         *)
  <1>1. ASSUME NEW to \in Labels, at' = [at EXCEPT ![s] = to],
               DOMAIN frame' = Streams, \A t \in Streams \ {s} : frame'[t] = frame[t],
               IF to \in {"check", "reserve", "send", "blocked"}
                 THEN frame'[s] \in Frames(s) ELSE frame'[s] = None,
               pipe' \in [Streams -> 0 .. MaxWritten],
               \A t \in Streams : pipe'[t] <= written[t],
               sequence' \in [Streams -> 0 .. SequenceSpace - 1], bytes_in_flight' \in Nat,
               UNCHANGED <<written, proc, token, waiter, writer, requests, client>>
        PROVE  TypeOK'
    <2>1. at' \in [Streams -> Labels]
      BY <1>1 DEF Labels
    <2>2. \A t \in Streams : IF at'[t] \in {"check", "reserve", "send", "blocked"}
                               THEN frame'[t] \in Frames(t) ELSE frame'[t] = None
      BY <1>1 DEF Labels
    <2> QED BY <1>1, <2>1, <2>2 DEF Labels
  <1>2. Position(s) \in 0 .. MaxWritten
    BY DEF Position
  <1>3. EndOfStream(s, sequence[s], Position(s)) \in Frames(s)
    BY <1>2 DEF EndOfStream, Frames
  <1>4. CASE PumpTop(s)
    <2>1. CASE token
      BY <1>1, <1>3, <1>4, <2>1 DEF PumpTop, LeaveLoop, Labels
    <2>2. CASE ~token
      BY <1>1, <1>4, <2>2 DEF PumpTop, Labels
    <2> QED BY <2>1, <2>2
  <1>5. CASE PumpRead(s)
    <2> DEFINE len == IF pipe[s] < MaxPayload THEN pipe[s] ELSE MaxPayload
    <2>1. len \in 0 .. MaxPayload /\ len <= pipe[s]
      OBVIOUS
    <2>2. /\ pipe' = [pipe EXCEPT ![s] = @ - len]
          /\ frame' = [frame EXCEPT ![s] = Output(s, sequence[s], Position(s), len)]
          /\ sequence' = [sequence EXCEPT ![s] = NextSequence(@)]
          /\ at' = [at EXCEPT ![s] = "check"]
          /\ UNCHANGED <<written, proc, token, bytes_in_flight, sessionVars, clientVars>>
      BY <1>5 DEF PumpRead
    <2> HIDE DEF len
    <2>3. Output(s, sequence[s], Position(s), len) \in Frames(s)
      BY <1>2, <2>1 DEF Output, Frames
    <2>4. pipe' \in [Streams -> 0 .. MaxWritten] /\ \A t \in Streams : pipe'[t] <= written[t]
      BY <2>1, <2>2
    <2>5. sequence' \in [Streams -> 0 .. SequenceSpace - 1]
      BY <2>2, SequenceInRange
    <2>6. frame'[s] \in Frames(s) /\ DOMAIN frame' = Streams
          /\ \A t \in Streams \ {s} : frame'[t] = frame[t]
      BY <2>2, <2>3
    <2> HIDE DEF TypeOK
    <2> QED BY <1>1, <2>2, <2>4, <2>5, <2>6 DEF TypeOK, Labels
  <1>6. CASE PumpEof(s)
    BY <1>1, <1>3, <1>6 DEF PumpEof, LeaveLoop, Labels
  <1>7. CASE PumpReadError(s)
    BY <1>1, <1>7 DEF PumpReadError, Labels
  <1>8. CASE PumpCheck(s)
    BY <1>1, <1>8 DEF PumpCheck, Labels
  <1>9. CASE PumpReserve(s)
    <2>1. bytes_in_flight' \in Nat
      BY <1>9 DEF PumpReserve, Frames
    <2> QED BY <1>1, <1>9, <2>1 DEF PumpReserve, Labels
  <1>10. CASE PumpSend(s)
    BY <1>1, <1>10 DEF PumpSend, Labels
  <1> QED BY <1>4, <1>5, <1>6, <1>7, <1>8, <1>9, <1>10 DEF Pump

(* The types hold at the start and every step keeps them.                  *)
LEMMA InitTypeOK == Init => TypeOK
  <1>1. Init => token \in BOOLEAN
    BY Zenon DEF Init
  <1> QED BY <1>1, SizesAssumption DEF Init, TypeOK

(* Every step keeps the types.                                             *)
LEMMA NextTypeOK ==
  ASSUME TypeOK, [Next]_vars
  PROVE  TypeOK'
  <1>1. ASSUME NEW s \in Streams, ProcWrite(s) PROVE TypeOK'
    BY <1>1, SizesAssumption DEF TypeOK, ProcWrite
  <1>2. CASE WaiterSend \/ WriterWrite \/ WriterEnd \/ RequestsRead \/ RequestsEnd \/ ProcExit
             \/ CancelJob \/ WindowUpdate \/ ClientGone \/ UNCHANGED vars
    BY <1>2 DEF TypeOK, WaiterSend, WriterWrite, WriterEnd, RequestsRead, RequestsEnd, ProcExit,
       CancelJob, WindowUpdate, ClientGone, vars
  <1> QED BY <1>1, <1>2, PumpTypes DEF Next

(* Every variable has its type in every state: sequence numbers stay in    *)
(* their 32 bits, no pump reads more than was written, and each holds a    *)
(* frame of its own stream exactly while it is sending it.                 *)
THEOREM TypeCorrect == Spec => []TypeOK
  BY InitTypeOK, NextTypeOK, PTL DEF Spec

-----------------------------------------------------------------------------
(* The pumps that have checked the window and not yet taken their share.   *)
Reserving == {s \in Streams : at[s] = "reserve"}

(* What the invariant says of b bytes in flight: the most they can become  *)
(* when every pump that is reserving adds a frame is within the bound.     *)
(* The last pump to check counts with its own frame, which is what it      *)
(* checked; the others with the largest there is.                          *)
Limit == Window + (Cardinality(Streams) - 1) * MaxPayload

WindowInv ==
  \/ bytes_in_flight + Cardinality(Reserving) * MaxPayload <= Limit
  \/ \E s \in Reserving :
       bytes_in_flight + frame[s].len + (Cardinality(Reserving) - 1) * MaxPayload <= Limit

(* Multiples of MaxPayload.                                                *)
LEMMA Payloads ==
  ASSUME NEW k \in Nat
  PROVE  /\ k * MaxPayload \in Nat
         /\ (k + 1) * MaxPayload = k * MaxPayload + MaxPayload
         /\ \A n \in Nat : k <= n => k * MaxPayload <= n * MaxPayload
  <1> MaxPayload \in Nat
    BY SizesAssumption
  <1>1. k * MaxPayload \in Nat /\ (k + 1) * MaxPayload = k * MaxPayload + MaxPayload
    OBVIOUS
  <1>2. ASSUME NEW n \in Nat, k <= n PROVE k * MaxPayload <= n * MaxPayload
    <2>1. PICK d \in Nat : n = k + d
      <3>1. n - k \in Nat /\ n = k + (n - k)
        BY <1>2
      <3> QED BY <3>1
    <2>2. n * MaxPayload = k * MaxPayload + d * MaxPayload /\ d * MaxPayload \in Nat
      BY <2>1
    <2> QED BY <1>1, <2>2
  <1> QED BY <1>1, <1>2

(* How many pumps can be reserving.                                        *)
LEMMA ReservingFacts ==
  /\ IsFiniteSet(Reserving) /\ Cardinality(Reserving) \in Nat
  /\ Cardinality(Streams) \in Nat \ {0}
  /\ Cardinality(Reserving) <= Cardinality(Streams)
  /\ Reserving # {} => Cardinality(Reserving) >= 1
  <1>1. IsFiniteSet(Streams) /\ Reserving \subseteq Streams
    BY StreamsAssumption DEF Reserving
  <1>2. IsFiniteSet(Reserving) /\ Cardinality(Reserving) <= Cardinality(Streams)
    BY <1>1, FS_Subset
  <1>3. Cardinality(Reserving) \in Nat /\ Cardinality(Streams) \in Nat
    BY <1>1, <1>2, FS_CardinalityType
  <1>4. Cardinality(Streams) # 0 /\ (Reserving # {} => Cardinality(Reserving) # 0)
    BY <1>1, <1>2, FS_EmptySet, StreamsAssumption
  <1> QED BY <1>2, <1>3, <1>4

(* The invariant implies the bound, and every step keeps it.               *)
LEMMA WindowInvBound ==
  ASSUME TypeOK, WindowInv
  PROVE  WindowBound
  <1> DEFINE r == Cardinality(Reserving)
  <1>1. r \in Nat /\ (Reserving # {} => r >= 1) /\ Cardinality(Streams) \in Nat \ {0}
    BY ReservingFacts
  <1>2. r * MaxPayload \in Nat
    BY <1>1, Payloads
  <1>3. Limit \in Nat
    <2>1. Cardinality(Streams) - 1 \in Nat
      BY <1>1
    <2>2. (Cardinality(Streams) - 1) * MaxPayload \in Nat
      BY <2>1, Payloads
    <2> QED BY <2>2, SizesAssumption DEF Limit
  <1>4. CASE bytes_in_flight + r * MaxPayload <= Limit
    BY <1>2, <1>3, <1>4 DEF TypeOK, WindowBound, Limit
  <1>5. ASSUME NEW s \in Reserving,
               bytes_in_flight + frame[s].len + (r - 1) * MaxPayload <= Limit
        PROVE  WindowBound
    <2>1. r - 1 \in Nat
      BY <1>1
    <2>2. (r - 1) * MaxPayload \in Nat
      BY <2>1, Payloads
    <2>3. frame[s].len \in Nat /\ bytes_in_flight \in Nat
      BY SizesAssumption DEF TypeOK, Reserving, Frames
    <2>4. bytes_in_flight <= Limit
      BY <1>3, <1>5, <2>2, <2>3
    <2> QED BY <2>4 DEF WindowBound, Limit
  <1> QED BY <1>4, <1>5 DEF WindowInv

(* A check adds a pump to Reserving, a reservation takes it out.           *)
LEMMA NextWindowInv ==
  ASSUME TypeOK, WindowInv, [Next]_vars
  PROVE  WindowInv'
  <1> DEFINE r == Cardinality(Reserving)
             n == Cardinality(Streams)
  <1>0. /\ r \in Nat /\ n \in Nat \ {0} /\ r <= n /\ (Reserving # {} => r >= 1)
        /\ IsFiniteSet(Reserving) /\ bytes_in_flight \in Nat /\ Limit \in Int
        /\ MaxPayload \in Nat /\ Window \in Nat /\ n - 1 \in Nat
    <2>1. n \in Nat \ {0} /\ n - 1 \in Nat
      BY ReservingFacts
    <2>2. (n - 1) * MaxPayload \in Nat
      BY <2>1, Payloads
    <2>3. Limit \in Int
      BY <2>2, SizesAssumption DEF Limit
    <2> QED BY <2>1, <2>3, ReservingFacts, SizesAssumption DEF TypeOK
  (* A step that reserves nothing and checks nothing.                      *)
  <1>1. ASSUME Reserving' = Reserving, bytes_in_flight' = bytes_in_flight,
               \A s \in Reserving : frame'[s] = frame[s]
        PROVE  WindowInv'
    BY <1>1 DEF WindowInv, Limit
  <1>2. ASSUME NEW s \in Streams, PumpCheck(s), Fits(s) PROVE WindowInv'
    <2>1. Reserving' = Reserving \union {s} /\ s \notin Reserving
      BY <1>2 DEF PumpCheck, Goto, Reserving, TypeOK
    <2>2. Cardinality(Reserving') = r + 1
      BY <1>0, <2>1, FS_AddElement
    <2>3. r + 1 <= n
      <3>1. Cardinality(Reserving') <= n
        <4>1. Reserving' \subseteq Streams
          BY <2>1 DEF Reserving
        <4> QED BY <4>1, FS_Subset, StreamsAssumption
      <3> QED BY <2>2, <3>1
    <2>4. r * MaxPayload \in Nat /\ r * MaxPayload <= (n - 1) * MaxPayload
          /\ (n - 1) * MaxPayload \in Nat
      <3>1. r <= n - 1
        BY <1>0, <2>3
      <3> QED BY <1>0, <3>1, Payloads
    <2>5. /\ bytes_in_flight + frame[s].len <= Window /\ frame[s].len \in Nat
          /\ bytes_in_flight' = bytes_in_flight /\ frame' = frame
      BY <1>0, <1>2 DEF PumpCheck, Fits, TypeOK, Frames
    <2>6. bytes_in_flight + frame[s].len + r * MaxPayload <= Limit
      BY <1>0, <2>4, <2>5 DEF Limit
    <2>7. (r + 1) - 1 = r
      BY <1>0
    <2>8. bytes_in_flight' + frame'[s].len + (Cardinality(Reserving') - 1) * MaxPayload <= Limit
      BY <2>2, <2>5, <2>6, <2>7
    <2> QED BY <2>1, <2>8 DEF WindowInv, Limit
  <1>3. ASSUME NEW s \in Streams, PumpReserve(s) PROVE WindowInv'
    <2>1. Reserving' = Reserving \ {s} /\ s \in Reserving
      BY <1>3 DEF PumpReserve, Goto, Reserving, TypeOK
    <2>2. Cardinality(Reserving') = r - 1 /\ r - 1 \in Nat
      BY <1>0, <2>1, FS_RemoveElement
    <2>3. /\ bytes_in_flight' = bytes_in_flight + frame[s].len /\ frame' = frame
          /\ frame[s].len \in Nat /\ frame[s].len <= MaxPayload
      BY <1>0, <1>3 DEF PumpReserve, TypeOK, Frames
    <2>4. r * MaxPayload = (r - 1) * MaxPayload + MaxPayload /\ (r - 1) * MaxPayload \in Nat
      <3>1. (r - 1) + 1 = r
        BY <1>0
      <3> QED BY <2>2, <3>1, Payloads
    <2>5. CASE bytes_in_flight + r * MaxPayload <= Limit
      <3>1. bytes_in_flight' + (r - 1) * MaxPayload <= Limit
        BY <1>0, <2>3, <2>4, <2>5
      <3> QED BY <2>2, <3>1 DEF WindowInv, Limit
    <2>6. ASSUME NEW t \in Reserving,
                 bytes_in_flight + frame[t].len + (r - 1) * MaxPayload <= Limit
          PROVE  WindowInv'
      <3>1. CASE t = s
        <4>1. bytes_in_flight' + (r - 1) * MaxPayload <= Limit
          BY <2>3, <2>6, <3>1
        <4> QED BY <2>2, <4>1 DEF WindowInv, Limit
      <3>2. CASE t # s
        <4>1. t \in Reserving'
          BY <2>1, <3>2
        <4>2. r - 2 \in Nat /\ (r - 2) + 1 = r - 1
          <5>1. Cardinality(Reserving') >= 1
            <6>1. Reserving' # {}
              BY <4>1
            <6>2. IsFiniteSet(Reserving')
              BY <1>0, <2>1, FS_RemoveElement
            <6>3. Cardinality(Reserving') # 0
              BY <6>1, <6>2, FS_EmptySet
            <6>4. Cardinality(Reserving') \in Nat
              BY <6>2, FS_CardinalityType
            <6> QED BY <6>3, <6>4
          <5> QED BY <1>0, <2>2, <5>1
        <4>3. (r - 1) * MaxPayload = (r - 2) * MaxPayload + MaxPayload
              /\ (r - 2) * MaxPayload \in Nat
          BY <4>2, Payloads
        <4>4. frame[t].len \in Nat
          BY <1>0 DEF TypeOK, Reserving, Frames
        <4>5. bytes_in_flight' + frame[t].len + (r - 2) * MaxPayload <= Limit
          BY <1>0, <2>3, <2>6, <4>3, <4>4
        <4>6. Cardinality(Reserving') - 1 = r - 2
          BY <1>0, <2>2
        <4> QED BY <2>3, <4>1, <4>5, <4>6 DEF WindowInv, Limit
      <3> QED BY <3>1, <3>2
    <2> QED BY <2>5, <2>6 DEF WindowInv
  <1>4. ASSUME NEW s \in Streams,
               PumpTop(s) \/ PumpRead(s) \/ PumpEof(s) \/ PumpSend(s) \/ PumpReadError(s)
               \/ (PumpCheck(s) /\ ~Fits(s))
        PROVE  WindowInv'
    <2>1. /\ at[s] # "reserve" /\ bytes_in_flight' = bytes_in_flight
          /\ \E to \in Labels \ {"reserve"} : at' = [at EXCEPT ![s] = to]
          /\ \A t \in Streams \ {s} : frame'[t] = frame[t]
      BY <1>4 DEF PumpTop, PumpRead, PumpEof, PumpSend, PumpReadError, PumpCheck, LeaveLoop,
         Goto, TypeOK, Labels
    <2>2. Reserving' = Reserving
      BY <2>1 DEF Reserving, TypeOK
    <2>3. \A t \in Reserving : frame'[t] = frame[t]
      BY <2>1 DEF Reserving
    <2> QED BY <1>1, <2>1, <2>2, <2>3
  <1>5. CASE UNCHANGED pumpVars
    BY <1>1, <1>5 DEF Reserving
  <1>6. ASSUME NEW s \in Streams, ProcWrite(s) PROVE WindowInv'
    BY <1>5, <1>6 DEF ProcWrite
  <1>7. CASE WaiterSend \/ WriterWrite \/ WriterEnd \/ RequestsRead \/ RequestsEnd \/ ProcExit
             \/ CancelJob \/ WindowUpdate \/ ClientGone \/ UNCHANGED vars
    BY <1>5, <1>7 DEF WaiterSend, WriterWrite, WriterEnd, RequestsRead, RequestsEnd, ProcExit,
       CancelJob, WindowUpdate, ClientGone, vars
  <1> QED BY <1>2, <1>3, <1>4, <1>6, <1>7 DEF Next, Pump

(* The check of the shared window and the reservation are two steps, and   *)
(* whatever the interleaving of the pumps the bytes in flight exceed the   *)
(* window by at most one frame for each pump beyond the first.             *)
THEOREM WindowIsBounded == Spec => []WindowBound
  <1>1. Init => WindowInv
    <2> SUFFICES ASSUME Init PROVE WindowInv
      OBVIOUS
    <2>1. Reserving = {} /\ bytes_in_flight = 0
      BY DEF Init, Reserving
    <2>2. Cardinality(Reserving) = 0 /\ 0 * MaxPayload = 0
      BY <2>1, FS_EmptySet, SizesAssumption
    <2>3. Cardinality(Streams) - 1 \in Nat
      BY ReservingFacts
    <2>4. (Cardinality(Streams) - 1) * MaxPayload \in Nat
      BY <2>3, Payloads
    <2> QED BY <2>1, <2>2, <2>4, SizesAssumption DEF WindowInv, Limit
  <1>2. TypeOK /\ WindowInv /\ [Next]_vars => WindowInv'
    BY NextWindowInv
  <1> QED BY <1>1, <1>2, WindowInvBound, TypeCorrect, PTL DEF Spec

-----------------------------------------------------------------------------
(* Frames of any stream, and the EXIT frame.                               *)
AnyFrame ==
  [stream : Streams \union {"control"}, seq : Nat, from : Nat, len : Nat, eos : BOOLEAN]

FlowTypes == received \in Seq(AnyFrame) /\ channel \in Seq(AnyFrame)

(* The frames in the channel and at the client are well formed.            *)
LEMMA NextFlowTypes ==
  ASSUME TypeOK, FlowTypes, [Next]_vars
  PROVE  FlowTypes'
  <1> USE DEF FlowTypes
  <1>1. ASSUME NEW s \in Streams, PumpSend(s) PROVE FlowTypes'
    <2>1. frame[s] \in AnyFrame
      BY <1>1, SizesAssumption DEF PumpSend, TypeOK, Frames, AnyFrame
    <2> QED BY <1>1, <2>1 DEF PumpSend
  <1>2. CASE WaiterSend
    <2>1. Exit \in AnyFrame
      BY DEF Exit, AnyFrame
    <2> QED BY <1>2, <2>1 DEF WaiterSend
  <1>3. CASE WriterWrite
    <2> HIDE DEF AnyFrame
    <2>1. channel # << >> => Head(channel) \in AnyFrame /\ Tail(channel) \in Seq(AnyFrame)
      OBVIOUS
    <2>2. \/ received' = Append(received, Head(channel)) /\ channel' = Tail(channel)
          \/ received' = received /\ channel' = << >>
      BY <1>3 DEF WriterWrite
    <2>3. channel # << >>
      BY <1>3 DEF WriterWrite
    <2>4. CASE received' = Append(received, Head(channel)) /\ channel' = Tail(channel)
      BY <2>1, <2>3, <2>4
    <2>5. CASE received' = received /\ channel' = << >>
      BY <2>5
    <2> QED BY <2>2, <2>4, <2>5
  <1>4. CASE UNCHANGED <<channel, received>>
    BY <1>4
  <1>5. ASSUME NEW s \in Streams, PumpTop(s) \/ PumpRead(s) \/ PumpEof(s) \/ PumpCheck(s)
               \/ PumpReserve(s) \/ PumpReadError(s) \/ ProcWrite(s)
        PROVE  FlowTypes'
    BY <1>4, <1>5 DEF PumpTop, PumpRead, PumpEof, PumpCheck, PumpReserve, PumpReadError, ProcWrite
  <1>6. CASE WriterEnd \/ RequestsRead \/ RequestsEnd \/ ProcExit \/ CancelJob \/ WindowUpdate
             \/ ClientGone \/ UNCHANGED vars
    BY <1>4, <1>6 DEF WriterEnd, RequestsRead, RequestsEnd, ProcExit, CancelJob, WindowUpdate,
       ClientGone, vars
  <1> HIDE DEF FlowTypes
  <1> QED BY <1>1, <1>2, <1>3, <1>5, <1>6 DEF Next, Pump

(* Facts about sequences of frames.  What the next frame of a stream is to *)
(* be depends on the frames before it only.                                *)
LEMMA ExpectsStable ==
  ASSUME NEW fl \in Seq(AnyFrame), NEW g \in Seq(AnyFrame), NEW n \in Nat,
         n <= Len(fl), n <= Len(g), \A i \in 1 .. n : g[i] = fl[i],
         NEW s, NEW q, NEW p
  PROVE  Expects(fl, s, n, q, p) <=> Expects(g, s, n, q, p)
  <1>1. \A i \in Nat : i \in DOMAIN fl /\ i <= n <=> i \in 1 .. n
    OBVIOUS
  <1>2. \A i \in Nat : i \in DOMAIN g /\ i <= n <=> i \in 1 .. n
    OBVIOUS
  <1>3. {i \in Places(fl, s) : i <= n} = {i \in Places(g, s) : i <= n}
    BY <1>1, <1>2 DEF Places
  <1>4. \A i \in {j \in Places(fl, s) : j <= n} : fl[i] = g[i]
    BY <1>1 DEF Places
  <1> HIDE DEF AnyFrame
  <1> QED BY <1>3, <1>4 DEF Expects

(* A frame that is the expected one keeps its stream continuous.           *)
LEMMA ContinuousAppend ==
  ASSUME NEW fl \in Seq(AnyFrame), NEW f \in AnyFrame, NEW s, NEW length,
         Continuous(fl, s, length),
         f.stream = s => Expects(fl, s, Len(fl), f.seq, f.from) /\ f.from + f.len <= length
  PROVE  Continuous(Append(fl, f), s, length)
  <1> DEFINE g == Append(fl, f)
  <1>1. /\ g \in Seq(AnyFrame) /\ Len(g) = Len(fl) + 1 /\ g[Len(fl) + 1] = f
        /\ DOMAIN g = 1 .. Len(fl) + 1 /\ DOMAIN fl = 1 .. Len(fl) /\ Len(fl) \in Nat
        /\ \A i \in 1 .. Len(fl) : g[i] = fl[i]
    BY DEF AnyFrame
  <1> HIDE DEF g
  <1>2. ASSUME NEW i \in Places(g, s)
        PROVE  Expects(g, s, i - 1, g[i].seq, g[i].from) /\ g[i].from + g[i].len <= length
    <2>1. i \in 1 .. Len(fl) + 1 /\ g[i].stream = s /\ i - 1 \in Nat /\ i - 1 <= Len(fl)
          /\ i - 1 <= Len(g)
      BY <1>1 DEF Places
    <2>2. Expects(fl, s, i - 1, g[i].seq, g[i].from) <=> Expects(g, s, i - 1, g[i].seq, g[i].from)
      BY <1>1, <2>1, ExpectsStable
    <2>3. CASE i = Len(fl) + 1
      <3>1. g[i] = f /\ i - 1 = Len(fl) /\ f.stream = s
        BY <1>1, <2>1, <2>3
      <3> QED BY <2>2, <3>1
    <2>4. CASE i \in 1 .. Len(fl)
      <3>1. g[i] = fl[i] /\ i \in Places(fl, s)
        BY <1>1, <2>1, <2>4 DEF Places
      <3> QED BY <2>2, <3>1 DEF Continuous
    <2> QED BY <1>1, <2>1, <2>3, <2>4
  <1> QED BY <1>2 DEF Continuous, g

(* What is lost from the end leaves the rest continuous.                   *)
LEMMA ContinuousPrefix ==
  ASSUME NEW fl \in Seq(AnyFrame), NEW g \in Seq(AnyFrame), Len(g) <= Len(fl),
         \A i \in 1 .. Len(g) : g[i] = fl[i], NEW s, NEW length, Continuous(fl, s, length)
  PROVE  Continuous(g, s, length)
  <1>1. ASSUME NEW i \in Places(g, s)
        PROVE  Expects(g, s, i - 1, g[i].seq, g[i].from) /\ g[i].from + g[i].len <= length
    <2>1. i \in 1 .. Len(g) /\ g[i].stream = s /\ i - 1 \in Nat /\ i - 1 <= Len(fl)
          /\ i - 1 <= Len(g)
      BY DEF Places
    <2>2. g[i] = fl[i] /\ i \in Places(fl, s)
      BY <2>1 DEF Places
    <2>3. Expects(fl, s, i - 1, g[i].seq, g[i].from) <=> Expects(g, s, i - 1, g[i].seq, g[i].from)
      BY <2>1, ExpectsStable
    <2> QED BY <2>2, <2>3 DEF Continuous
  <1> QED BY <1>1 DEF Continuous

(* More written leaves it within the length.                               *)
LEMMA ContinuousLonger ==
  ASSUME NEW fl \in Seq(AnyFrame), NEW s, NEW length \in Nat, NEW longer \in Nat,
         length <= longer, Continuous(fl, s, length)
  PROVE  Continuous(fl, s, longer)
  <1>1. ASSUME NEW i \in Places(fl, s) PROVE fl[i].from + fl[i].len <= longer
    <2>1. fl[i] \in AnyFrame
      BY DEF Places
    <2>2. fl[i].from \in Nat /\ fl[i].len \in Nat
      BY <2>1 DEF AnyFrame
    <2> QED BY <2>2 DEF Continuous
  <1> QED BY <1>1 DEF Continuous

(* What a stream expects after a frame of another stream, and after one of *)
(* its own.                                                                *)
LEMMA ExpectsAfterOther ==
  ASSUME NEW fl \in Seq(AnyFrame), NEW f \in AnyFrame, NEW s, f.stream # s, NEW q, NEW p,
         Expects(fl, s, Len(fl), q, p)
  PROVE  Expects(Append(fl, f), s, Len(Append(fl, f)), q, p)
  <1> DEFINE g == Append(fl, f)
  <1>1. /\ Len(g) = Len(fl) + 1 /\ g[Len(fl) + 1] = f
        /\ DOMAIN g = 1 .. Len(fl) + 1 /\ DOMAIN fl = 1 .. Len(fl) /\ Len(fl) \in Nat
        /\ \A i \in 1 .. Len(fl) : g[i] = fl[i]
    BY DEF AnyFrame
  <1> HIDE DEF g
  <1>2. {i \in Places(g, s) : i <= Len(g)} = {i \in Places(fl, s) : i <= Len(fl)}
    BY <1>1 DEF Places
  <1>3. \A i \in {j \in Places(fl, s) : j <= Len(fl)} : fl[i] = g[i]
    BY <1>1 DEF Places
  <1>4. Expects(g, s, Len(g), q, p)
    BY <1>2, <1>3 DEF Expects
  <1> QED BY <1>4 DEF g

(* After a frame of its own it expects the one that carries on from it.    *)
LEMMA ExpectsAfterOwn ==
  ASSUME NEW fl \in Seq(AnyFrame), NEW f \in AnyFrame, ~f.eos
  PROVE  Expects(Append(fl, f), f.stream, Len(Append(fl, f)),
                 (f.seq + 1) % SequenceSpace, f.from + f.len)
  <1> DEFINE g == Append(fl, f)
             before == {i \in Places(g, f.stream) : i <= Len(g)}
  <1>1. /\ Len(g) = Len(fl) + 1 /\ g[Len(g)] = f
        /\ DOMAIN g = 1 .. Len(g) /\ Len(g) \in Nat
    BY DEF AnyFrame
  <1> HIDE DEF g
  <1>2. Len(g) \in before
    BY <1>1 DEF Places
  <1>3. ASSUME NEW i \in before, \A j \in before : j <= i PROVE g[i] = f
    <2>1. i \in 1 .. Len(g) /\ Len(g) <= i
      BY <1>1, <1>2, <1>3 DEF Places
    <2> QED BY <1>1, <2>1
  <1> HIDE DEF before
  <1>4. Expects(g, f.stream, Len(g), (f.seq + 1) % SequenceSpace, f.from + f.len)
    BY <1>2, <1>3 DEF Expects, before
  <1> QED BY <1>4 DEF g

(* What a step does to the flow of frames: one more at its end, or, when   *)
(* the writer writes one, nothing.                                         *)
LEMMA FlowAppend ==
  ASSUME FlowTypes, NEW f \in AnyFrame, channel' = Append(channel, f), received' = received
  PROVE  Flow' = Append(Flow, f)
  <1> HIDE DEF AnyFrame
  <1> QED BY DEF Flow, FlowTypes

(* A frame that is written only moves from the channel to the client.      *)
LEMMA FlowWrite ==
  ASSUME FlowTypes, channel # << >>, received' = Append(received, Head(channel)),
         channel' = Tail(channel)
  PROVE  Flow' = Flow
  <1> HIDE DEF AnyFrame
  <1> QED BY DEF Flow, FlowTypes

(* The next frame of each stream is the expected one as long as there is a *)
(* writer to send it: the one the pump holds, or the one it will make.     *)
Carries(s) ==
  /\ at[s] \in {"top", "read"} => Expects(Flow, s, Len(Flow), sequence[s], Position(s))
  /\ Sending(s) =>
       /\ Expects(Flow, s, Len(Flow), frame[s].seq, frame[s].from)
       /\ frame[s].eos \/ sequence[s] = (frame[s].seq + 1) % SequenceSpace

(* The frame a pump holds ends where the next read begins.                 *)
HoldsRead(s) == Sending(s) => frame[s].from + frame[s].len = Position(s)

FlowInv ==
  /\ StreamIntact
  /\ \A s \in Streams : HoldsRead(s)
  /\ writer = "up" => \A s \in Streams : Carries(s)

(* The pump's own steps, other than the send.                              *)
LEMMA PumpFlow ==
  ASSUME TypeOK, FlowTypes, FlowInv, NEW s \in Streams,
         \/ PumpTop(s) \/ PumpRead(s) \/ PumpEof(s) \/ PumpCheck(s) \/ PumpReserve(s)
         \/ PumpReadError(s)
  PROVE  FlowInv'
  <1>1. /\ Flow' = Flow /\ written' = written /\ writer' = writer
        /\ \A t \in Streams \ {s} : /\ at'[t] = at[t] /\ frame'[t] = frame[t]
                                    /\ sequence'[t] = sequence[t] /\ pipe'[t] = pipe[t]
    BY DEF PumpTop, PumpRead, PumpEof, PumpCheck, PumpReserve, PumpReadError, LeaveLoop, Goto,
       TypeOK, Flow
  <1>2. StreamIntact'
    BY <1>1 DEF FlowInv, StreamIntact
  <1>3. ASSUME NEW t \in Streams \ {s}
        PROVE  HoldsRead(t)' /\ (writer = "up" => Carries(t)')
    BY <1>1, <1>3 DEF FlowInv, HoldsRead, Carries, Sending, Position
  <1>4. HoldsRead(s)' /\ (writer = "up" => Carries(s)')
    <2> USE DEF HoldsRead, Carries, Sending, Position
    <2>0. HoldsRead(s) /\ (writer = "up" => Carries(s))
      BY DEF FlowInv
    <2>1. CASE PumpTop(s) \/ PumpEof(s)
      <3>1. CASE LeaveLoop(s) /\ UNCHANGED <<written, pipe, sequence>> /\ at[s] \in {"top", "read"}
        <4>1. at'[s] = "check" /\ frame'[s] = EndOfStream(s, sequence[s], Position(s))
          BY <3>1 DEF LeaveLoop, Goto, TypeOK
        <4>2. frame'[s].eos /\ frame'[s].seq = sequence[s] /\ frame'[s].from = Position(s)
              /\ frame'[s].len = 0
          BY <4>1 DEF EndOfStream
        <4>3. written[s] \in Nat /\ pipe[s] \in Nat
          BY SizesAssumption DEF TypeOK
        <4> QED BY <1>1, <2>0, <3>1, <4>1, <4>2, <4>3
      <3>2. CASE at[s] = "top" /\ at'[s] = "read" /\ UNCHANGED <<written, pipe, sequence>>
        BY <1>1, <2>0, <3>2
      <3> QED BY <2>1, <3>1, <3>2 DEF PumpTop, PumpEof, Goto, TypeOK
    <2>2. CASE PumpRead(s)
      <3> DEFINE len == IF pipe[s] < MaxPayload THEN pipe[s] ELSE MaxPayload
      <3>1. /\ at[s] = "read" /\ at'[s] = "check"
            /\ frame'[s] = Output(s, sequence[s], Position(s), len)
            /\ sequence'[s] = NextSequence(sequence[s]) /\ pipe'[s] = pipe[s] - len
        BY <2>2 DEF PumpRead, Goto, TypeOK
      <3>2. written[s] \in Nat /\ pipe[s] \in Nat /\ len \in Nat
        BY SizesAssumption DEF TypeOK
      <3> HIDE DEF len
      <3>3. frame'[s].seq = sequence[s] /\ frame'[s].from = Position(s) /\ frame'[s].len = len
        BY <3>1 DEF Output
      <3>4. frame'[s].from + frame'[s].len = written'[s] - pipe'[s]
        BY <1>1, <3>1, <3>2, <3>3
      <3>5. sequence'[s] = (frame'[s].seq + 1) % SequenceSpace
        BY <3>1, <3>3 DEF NextSequence
      <3>6. writer = "up" => Expects(Flow, s, Len(Flow), frame'[s].seq, frame'[s].from)
        BY <2>0, <3>1, <3>3
      <3> QED BY <1>1, <3>1, <3>4, <3>5, <3>6
    <2>3. CASE PumpCheck(s) \/ PumpReserve(s)
      <3>1. /\ Sending(s) /\ at'[s] \in {"reserve", "blocked", "send"}
            /\ UNCHANGED <<frame, sequence, written, pipe>>
        BY <2>3 DEF PumpCheck, PumpReserve, Goto, TypeOK
      <3> QED BY <1>1, <2>0, <3>1
    <2>4. CASE PumpReadError(s)
      <3>1. at'[s] = "done"
        BY <2>4 DEF PumpReadError, Goto, TypeOK
      <3> QED BY <3>1
    <2> QED BY <2>1, <2>2, <2>3, <2>4
  <1> QED BY <1>1, <1>2, <1>3, <1>4 DEF FlowInv

(* The send: the expected frame goes to the end of the flow, and the pump  *)
(* goes on where it ends.  Without a writer the frame is lost, and nothing *)
(* follows it.                                                             *)
LEMMA SendFlow ==
  ASSUME TypeOK, FlowTypes, FlowInv, NEW s \in Streams, PumpSend(s)
  PROVE  FlowInv'
  <1> DEFINE f == frame[s]
  <1>1. /\ at[s] = "send" /\ UNCHANGED <<written, pipe, sequence, writer, received>>
        /\ frame' = [frame EXCEPT ![s] = None]
    BY DEF PumpSend
  <1>2. /\ f \in Frames(s) /\ f \in AnyFrame /\ f.stream = s /\ f.eos \in BOOLEAN
        /\ f.from \in Nat /\ f.len \in Nat
    BY <1>1, SizesAssumption DEF TypeOK, Frames, AnyFrame
  <1>3. /\ \A t \in Streams \ {s} : at'[t] = at[t] /\ frame'[t] = frame[t]
        /\ at'[s] \in {"top", "done"} /\ (writer = "up" /\ f.eos => at'[s] = "done")
    BY DEF PumpSend, Goto, TypeOK
  <1> HIDE DEF f
  <1>4. \A t \in Streams : HoldsRead(t)'
    BY <1>1, <1>3 DEF FlowInv, HoldsRead, Sending, Position
  <1>5. CASE writer = "up"
    <2>1. channel' = Append(channel, f)
      BY <1>5 DEF PumpSend, f
    <2>2. Flow' = Append(Flow, f) /\ Flow \in Seq(AnyFrame)
      <3>1. Flow \in Seq(AnyFrame)
        <4> HIDE DEF AnyFrame
        <4> QED BY DEF Flow, FlowTypes
      <3> QED BY <1>1, <1>2, <2>1, <3>1, FlowAppend
    <2>3. /\ Expects(Flow, s, Len(Flow), f.seq, f.from) /\ f.from + f.len = Position(s)
          /\ f.eos \/ sequence[s] = (f.seq + 1) % SequenceSpace
      BY <1>1, <1>5 DEF FlowInv, Carries, HoldsRead, Sending, f
    <2>4. f.from + f.len <= written[s]
      BY <2>3, SizesAssumption DEF Position, TypeOK
    <2>5. StreamIntact'
      <3>1. ASSUME NEW t \in Streams PROVE Continuous(Append(Flow, f), t, written[t])
        <4>1. Continuous(Flow, t, written[t])
          BY DEF FlowInv, StreamIntact
        <4>2. f.stream = t =>
                Expects(Flow, t, Len(Flow), f.seq, f.from) /\ f.from + f.len <= written[t]
          BY <1>2, <2>3, <2>4
        <4> QED BY <1>2, <2>2, <4>1, <4>2, ContinuousAppend
      <3> QED BY <1>1, <2>2, <3>1 DEF StreamIntact
    <2>6. ASSUME NEW t \in Streams \ {s} PROVE Carries(t)'
      <3>1. f.stream # t
        BY <1>2
      <3>2. ASSUME NEW q, NEW p, Expects(Flow, t, Len(Flow), q, p)
            PROVE  Expects(Flow', t, Len(Flow'), q, p)
        BY <1>2, <2>2, <3>1, <3>2, ExpectsAfterOther
      <3>3. Carries(t)
        BY <1>5 DEF FlowInv
      <3>4. /\ at'[t] = at[t] /\ frame'[t] = frame[t] /\ sequence'[t] = sequence[t]
            /\ Position(t)' = Position(t)
        BY <1>1, <1>3 DEF Position
      <3> QED BY <3>2, <3>3, <3>4 DEF Carries, Sending
    <2>7. Carries(s)'
      <3>1. CASE f.eos
        BY <1>3, <1>5, <3>1 DEF Carries, Sending
      <3>2. CASE ~f.eos
        <4>1. Expects(Flow', s, Len(Flow'), (f.seq + 1) % SequenceSpace, f.from + f.len)
          BY <1>2, <2>2, <3>2, ExpectsAfterOwn
        <4>2. sequence'[s] = (f.seq + 1) % SequenceSpace /\ Position(s)' = f.from + f.len
          BY <1>1, <2>3, <3>2 DEF Position
        <4> QED BY <1>3, <4>1, <4>2 DEF Carries, Sending
      <3> QED BY <3>1, <3>2
    <2> QED BY <1>4, <2>5, <2>6, <2>7 DEF FlowInv
  <1>6. CASE writer # "up"
    <2>1. channel' = channel
      BY <1>6 DEF PumpSend
    <2>2. Flow' = Flow
      BY <1>1, <2>1 DEF Flow
    <2>3. StreamIntact'
      BY <1>1, <2>2 DEF FlowInv, StreamIntact
    <2> QED BY <1>1, <1>4, <1>6, <2>3 DEF FlowInv
  <1> QED BY <1>5, <1>6

(* The steps of the session and of the process.                            *)
LEMMA SessionFlow ==
  ASSUME TypeOK, FlowTypes, FlowInv, UNCHANGED <<at, sequence, frame>>,
         \/ UNCHANGED <<written, pipe>> /\ (WaiterSend \/ WriterWrite)
         \/ UNCHANGED <<received, channel, writer>>
            /\ (UNCHANGED <<written, pipe>> \/ \E s \in Streams : ProcWrite(s))
         \/ UNCHANGED <<written, pipe, received, channel>> /\ WriterEnd
  PROVE  FlowInv'
  <1>1. Flow \in Seq(AnyFrame)
    <2> HIDE DEF AnyFrame
    <2> QED BY DEF Flow, FlowTypes
  <1>2. CASE UNCHANGED <<written, pipe>>
    <2>1. \A t \in Streams : HoldsRead(t)'
      BY <1>2 DEF FlowInv, HoldsRead, Sending, Position
    <2>2. ASSUME Flow' = Flow, writer' = "up" => writer = "up" PROVE FlowInv'
      <3>1. StreamIntact'
        BY <1>2, <2>2 DEF FlowInv, StreamIntact
      <3>2. ASSUME NEW t \in Streams, Carries(t) PROVE Carries(t)'
        BY <1>2, <2>2, <3>2 DEF Carries, Sending, Position
      <3> QED BY <2>1, <2>2, <3>1, <3>2 DEF FlowInv
    <2>3. CASE WaiterSend
      <3>1. CASE channel' = Append(channel, Exit) /\ writer = "up"
        <4>1. Exit \in AnyFrame /\ Exit.stream \notin Streams
          BY StreamsAssumption DEF Exit, AnyFrame
        <4>2. Flow' = Append(Flow, Exit) /\ writer' = writer
          <5>1. received' = received /\ writer' = writer
            BY <2>3 DEF WaiterSend
          <5> QED BY <3>1, <4>1, <5>1, FlowAppend
        <4>3. StreamIntact'
          <5>1. ASSUME NEW t \in Streams PROVE Continuous(Append(Flow, Exit), t, written[t])
            <6>1. Continuous(Flow, t, written[t]) /\ Exit.stream # t
              BY <4>1 DEF FlowInv, StreamIntact
            <6> QED BY <1>1, <4>1, <6>1, ContinuousAppend
          <5> QED BY <1>2, <4>2, <5>1 DEF StreamIntact
        <4>4. ASSUME NEW t \in Streams PROVE Carries(t)'
          <5>1. ASSUME NEW q, NEW p, Expects(Flow, t, Len(Flow), q, p)
                PROVE  Expects(Flow', t, Len(Flow'), q, p)
            <6>1. Exit.stream # t
              BY <4>1
            <6> QED BY <1>1, <4>1, <4>2, <5>1, <6>1, ExpectsAfterOther
          <5>2. Carries(t) /\ Position(t)' = Position(t)
            BY <1>2, <3>1 DEF FlowInv, Position
          <5> QED BY <5>1, <5>2 DEF Carries, Sending
        <4> QED BY <2>1, <4>3, <4>4 DEF FlowInv
      <3>2. CASE channel' = channel
        <4>1. Flow' = Flow /\ writer' = writer
          BY <2>3, <3>2 DEF WaiterSend, Flow
        <4> QED BY <2>2, <4>1
      <3> QED BY <2>3, <3>1, <3>2 DEF WaiterSend
    <2>4. CASE WriterWrite
      <3>1. CASE client = "up"
        <4>1. Flow' = Flow /\ writer' = writer
          BY <2>4, <3>1, FlowWrite DEF WriterWrite
        <4> QED BY <2>2, <4>1
      <3>2. CASE client # "up"
        <4>1. writer' = "done" /\ channel' = << >> /\ received' = received
          BY <2>4, <3>2 DEF WriterWrite
        <4>2. /\ Flow' = received /\ received \in Seq(AnyFrame) /\ Len(received) <= Len(Flow)
              /\ \A i \in 1 .. Len(received) : received[i] = Flow[i]
          <5> HIDE DEF AnyFrame
          <5> QED BY <4>1 DEF Flow, FlowTypes
        <4>3. StreamIntact'
          <5>1. ASSUME NEW t \in Streams PROVE Continuous(received, t, written[t])
            <6>1. Continuous(Flow, t, written[t])
              BY DEF FlowInv, StreamIntact
            <6> QED BY <1>1, <4>2, <6>1, ContinuousPrefix
          <5> QED BY <1>2, <4>2, <5>1 DEF StreamIntact
        <4> QED BY <2>1, <4>1, <4>3 DEF FlowInv
      <3> QED BY <3>1, <3>2
    <2>5. CASE UNCHANGED <<received, channel>> /\ (WriterEnd \/ UNCHANGED writer)
      <3>1. Flow' = Flow /\ (writer' = "up" => writer = "up")
        BY <2>5 DEF Flow, WriterEnd
      <3> QED BY <2>2, <3>1
    <2> QED BY <2>3, <2>4, <2>5 DEF ProcWrite
  <1>3. ASSUME NEW s \in Streams, ProcWrite(s), UNCHANGED <<received, channel, writer>>
        PROVE  FlowInv'
    <2>1. Flow' = Flow
      BY <1>3 DEF Flow
    <2>2. \A t \in Streams : written[t] \in Nat /\ written'[t] \in Nat /\ written[t] <= written'[t]
                             /\ Position(t)' = Position(t)
      BY <1>3, SizesAssumption DEF ProcWrite, TypeOK, Position
    <2>3. StreamIntact'
      <3>1. ASSUME NEW t \in Streams PROVE Continuous(Flow, t, written'[t])
        <4>1. Continuous(Flow, t, written[t])
          BY DEF FlowInv, StreamIntact
        <4> QED BY <1>1, <2>2, <4>1, ContinuousLonger
      <3> QED BY <2>1, <3>1 DEF StreamIntact
    <2>4. ASSUME NEW t \in Streams
          PROVE  HoldsRead(t)' /\ (Carries(t) => Carries(t)')
      BY <2>1, <2>2 DEF FlowInv, HoldsRead, Carries, Sending
    <2> QED BY <1>3, <2>3, <2>4 DEF FlowInv
  <1> QED BY <1>2, <1>3

(* Every step keeps the invariant.                                         *)
LEMMA NextFlowInv ==
  ASSUME TypeOK, FlowTypes, FlowInv, [Next]_vars
  PROVE  FlowInv'
  <1>1. ASSUME NEW s \in Streams, Pump(s) \/ PumpReadError(s) PROVE FlowInv'
    BY <1>1, PumpFlow, SendFlow DEF Pump
  <1>2. ASSUME NEW s \in Streams, ProcWrite(s) PROVE FlowInv'
    BY <1>2, SessionFlow DEF ProcWrite
  <1>3. CASE WaiterSend \/ WriterWrite \/ WriterEnd
    BY <1>3, SessionFlow DEF WaiterSend, WriterWrite, WriterEnd
  <1>4. CASE RequestsRead \/ RequestsEnd \/ ProcExit \/ CancelJob \/ WindowUpdate \/ ClientGone
             \/ UNCHANGED vars
    BY <1>4, SessionFlow DEF RequestsRead, RequestsEnd, ProcExit, CancelJob, WindowUpdate,
       ClientGone, vars
  <1> QED BY <1>1, <1>2, <1>3, <1>4 DEF Next

(* Whatever the pumps, the exit waiter, the writer and the client do, what *)
(* is in the channel or has reached the client is for each stream a        *)
(* beginning of what the process wrote: numbered without a gap, no byte    *)
(* lost, repeated or out of order, and nothing after the end of stream.    *)
THEOREM StreamsStayIntact == Spec => []StreamIntact
  <1>1. Init => FlowTypes /\ FlowInv
    <2> SUFFICES ASSUME Init PROVE FlowTypes /\ FlowInv
      OBVIOUS
    <2>1. Flow = << >> /\ FlowTypes
      BY DEF Init, Flow, FlowTypes
    <2>2. \A s \in Streams : Places(<< >>, s) = {}
      BY DEF Places
    <2>3. StreamIntact
      BY <2>1, <2>2 DEF StreamIntact, Continuous
    <2>4. \A s \in Streams : HoldsRead(s) /\ Carries(s)
      BY <2>1, <2>2 DEF Init, HoldsRead, Carries, Sending, Expects, Position
    <2> QED BY <2>1, <2>3, <2>4 DEF FlowInv
  <1>2. TypeOK /\ FlowTypes /\ FlowInv /\ [Next]_vars => FlowTypes' /\ FlowInv'
    BY NextFlowTypes, NextFlowInv
  <1>3. FlowInv => StreamIntact
    BY DEF FlowInv
  <1> QED BY <1>1, <1>2, <1>3, TypeCorrect, PTL DEF Spec

=============================================================================
