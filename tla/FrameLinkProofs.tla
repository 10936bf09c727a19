--------------------------- MODULE FrameLinkProofs --------------------------
(***************************************************************************)
(* Theorems about Protocol and FrameLink, for any frames, any faulty bytes *)
(* that are no frame, any sizes and any way of cutting the bytes up.       *)
(***************************************************************************)
EXTENDS FrameLink, SequenceTheorems, TLAPS

-----------------------------------------------------------------------------
(* Integers of several bytes                                               *)

(* A number is made of its lowest byte and the bytes above it.             *)
LEMMA HighLow ==
  ASSUME NEW v \in Nat
  PROVE  High(v) \in Nat /\ Low(v) \in Bytes /\ v = 256 * High(v) + Low(v)
  BY DEF High, Low, Bytes

(* A byte put below a number is the lowest byte of the result.             *)
LEMMA PutBelow ==
  ASSUME NEW u \in Nat, NEW a \in Bytes
  PROVE  256 * u + a \in Nat /\ High(256 * u + a) = u /\ Low(256 * u + a) = a
  BY DEF High, Low, Bytes

(* to_be_bytes gives bytes, and from_be_bytes undoes it: u16.              *)
LEMMA Bytes16 ==
  ASSUME NEW v \in U16
  PROVE  High(v) \in Bytes /\ Low(v) \in Bytes /\ FromBeBytes16(High(v), Low(v)) = v
  <1>1. v \in Nat /\ High(v) < 256
    BY DEF U16
  <1>2. High(v) \in Nat /\ Low(v) \in Bytes /\ v = 256 * High(v) + Low(v)
    BY <1>1, HighLow
  <1> QED BY <1>1, <1>2 DEF Bytes, FromBeBytes16

(* The same for u32, which is the length prefix too.                       *)
LEMMA Bytes32 ==
  ASSUME NEW v \in U32
  PROVE  /\ High(High(High(v))) \in Bytes /\ Low(High(High(v))) \in Bytes
         /\ Low(High(v)) \in Bytes /\ Low(v) \in Bytes
         /\ FromBeBytes32(High(High(High(v))), Low(High(High(v))), Low(High(v)), Low(v)) = v
  <1>1. v \in Nat /\ High(v) \in Nat /\ High(High(v)) \in Nat /\ High(High(High(v))) \in Nat
    BY HighLow DEF U32
  <1>2. /\ v = 256 * High(v) + Low(v) /\ High(v) = 256 * High(High(v)) + Low(High(v))
        /\ High(High(v)) = 256 * High(High(High(v))) + Low(High(High(v)))
    BY <1>1, HighLow
  <1>3. Low(High(High(v))) \in Bytes /\ Low(High(v)) \in Bytes /\ Low(v) \in Bytes
    BY <1>1, HighLow
  <1> QED BY <1>1, <1>2, <1>3 DEF U32, Bytes, FromBeBytes32

(* from_be_bytes of any bytes is a number with those bytes: u16.           *)
LEMMA Number16 ==
  ASSUME NEW a \in Bytes, NEW b \in Bytes
  PROVE  LET v == FromBeBytes16(a, b)
         IN  v \in U16 /\ High(v) = a /\ Low(v) = b
  <1>1. a \in Nat /\ a < 256
    BY DEF Bytes
  <1>2. /\ 256 * a + b \in Nat /\ High(256 * a + b) = a /\ Low(256 * a + b) = b
    BY <1>1, PutBelow
  <1> QED BY <1>1, <1>2 DEF U16, FromBeBytes16

(* The same for u32.                                                       *)
LEMMA Number32 ==
  ASSUME NEW a \in Bytes, NEW b \in Bytes, NEW c \in Bytes, NEW d \in Bytes
  PROVE  LET v == FromBeBytes32(a, b, c, d)
         IN  /\ v \in U32 /\ High(High(High(v))) = a /\ Low(High(High(v))) = b
             /\ Low(High(v)) = c /\ Low(v) = d
  <1> DEFINE ab == 256 * a + b
             abc == 256 * ab + c
             v == 256 * abc + d
  <1>1. a \in Nat /\ a < 256
    BY DEF Bytes
  <1>2. ab \in Nat /\ High(ab) = a /\ Low(ab) = b
    BY <1>1, PutBelow
  <1> HIDE DEF ab
  <1>3. abc \in Nat /\ High(abc) = ab /\ Low(abc) = c
    BY <1>2, PutBelow
  <1> HIDE DEF abc
  <1>4. v \in Nat /\ High(v) = abc /\ Low(v) = d
    BY <1>3, PutBelow
  <1>5. FromBeBytes32(a, b, c, d) = v
    BY DEF FromBeBytes32, ab, abc
  <1> HIDE DEF v
  <1> QED BY <1>1, <1>2, <1>3, <1>4, <1>5 DEF U32

(* to_be is its own inverse.                                               *)
LEMMA ToBeTwice ==
  /\ \A v \in U16 : ToBe16(v) \in U16 /\ ToBe16(ToBe16(v)) = v
  /\ \A v \in U32 : ToBe32(v) \in U32 /\ ToBe32(ToBe32(v)) = v
  <1>1. ASSUME NEW v \in U16 PROVE ToBe16(v) \in U16 /\ ToBe16(ToBe16(v)) = v
    BY Bytes16, Number16 DEF ToBe16
  <1>2. ASSUME NEW v \in U32 PROVE ToBe32(v) \in U32 /\ ToBe32(ToBe32(v)) = v
    BY Bytes32, Number32 DEF ToBe32
  <1> QED BY <1>1, <1>2

-----------------------------------------------------------------------------
(* Frame::encode and Frame::decode                                         *)

(* What put_u16 and put_u32 write, from_be_bytes reads back.               *)
LEMMA WrittenBytes ==
  /\ \A v \in U16 : LET b == ToBeBytes16(v)
                    IN  b \in Seq(Bytes) /\ Len(b) = 2 /\ FromBeBytes16(b[1], b[2]) = v
  /\ \A v \in U32 : LET b == ToBeBytes32(v)
                    IN  /\ b \in Seq(Bytes) /\ Len(b) = 4
                        /\ FromBeBytes32(b[1], b[2], b[3], b[4]) = v
  <1>1. ASSUME NEW v \in U16
        PROVE  LET b == ToBeBytes16(v)
               IN  b \in Seq(Bytes) /\ Len(b) = 2 /\ FromBeBytes16(b[1], b[2]) = v
    BY Bytes16 DEF ToBeBytes16
  <1>2. ASSUME NEW v \in U32
        PROVE  LET b == ToBeBytes32(v)
               IN  /\ b \in Seq(Bytes) /\ Len(b) = 4
                   /\ FromBeBytes32(b[1], b[2], b[3], b[4]) = v
    BY Bytes32 DEF ToBeBytes32
  <1> QED BY <1>1, <1>2

(* What is written after some bytes leaves them and follows them.          *)
LEMMA Put ==
  ASSUME NEW s \in Seq(Bytes), NEW t \in Seq(Bytes)
  PROVE  /\ s \o t \in Seq(Bytes) /\ Len(s \o t) = Len(s) + Len(t)
         /\ \A i \in 1 .. Len(s) : (s \o t)[i] = s[i]
         /\ \A i \in 1 .. Len(t) : (s \o t)[Len(s) + i] = t[i]
  BY ConcatProperties

(* s has groups of 2, 2, 4 and 4 bytes, then a payload.                    *)
LaidOut(s, enums, flags, job, seq, payload) ==
  /\ s \in Seq(Bytes) /\ Len(s) = 12 + Len(payload)
  /\ s[1] = enums[1] /\ s[2] = enums[2] /\ s[3] = flags[1] /\ s[4] = flags[2]
  /\ s[5] = job[1] /\ s[6] = job[2] /\ s[7] = job[3] /\ s[8] = job[4]
  /\ s[9] = seq[1] /\ s[10] = seq[2] /\ s[11] = seq[3] /\ s[12] = seq[4]
  /\ SubSeq(s, 13, Len(s)) = payload

(* Groups put one after the other are where decode looks for them.         *)
LEMMA Layout ==
  ASSUME NEW enums \in Seq(Bytes), Len(enums) = 2, NEW flags \in Seq(Bytes), Len(flags) = 2,
         NEW job \in Seq(Bytes), Len(job) = 4, NEW seq \in Seq(Bytes), Len(seq) = 4,
         NEW payload \in Seq(Bytes)
  PROVE  LaidOut(enums \o flags \o job \o seq \o payload, enums, flags, job, seq, payload)
  <1> DEFINE h4 == enums \o flags
             h8 == h4 \o job
             h12 == h8 \o seq
             s == h12 \o payload
  <1>1. /\ h4 \in Seq(Bytes) /\ Len(h4) = Len(enums) + Len(flags)
        /\ \A i \in 1 .. Len(enums) : h4[i] = enums[i]
        /\ \A i \in 1 .. Len(flags) : h4[Len(enums) + i] = flags[i]
    BY Put
  <1> HIDE DEF h4
  <1>2. /\ h8 \in Seq(Bytes) /\ Len(h8) = Len(h4) + Len(job)
        /\ \A i \in 1 .. Len(h4) : h8[i] = h4[i]
        /\ \A i \in 1 .. Len(job) : h8[Len(h4) + i] = job[i]
    BY <1>1, Put
  <1> HIDE DEF h8
  <1>3. /\ h12 \in Seq(Bytes) /\ Len(h12) = Len(h8) + Len(seq)
        /\ \A i \in 1 .. Len(h8) : h12[i] = h8[i]
        /\ \A i \in 1 .. Len(seq) : h12[Len(h8) + i] = seq[i]
    BY <1>2, Put
  <1> HIDE DEF h12
  <1>4. /\ s \in Seq(Bytes) /\ Len(s) = Len(h12) + Len(payload)
        /\ \A i \in 1 .. Len(h12) : s[i] = h12[i]
        /\ \A i \in 1 .. Len(payload) : s[Len(h12) + i] = payload[i]
    BY <1>3, Put
  <1> HIDE DEF s
  <1>5. Len(h4) = 4 /\ Len(h8) = 8 /\ Len(h12) = 12
    BY <1>1, <1>2, <1>3
  <1>6. SubSeq(s, 13, Len(s)) = payload
    BY <1>4, <1>5, SeqEqual, SubSeqProperties
  <1>7. s[1] = enums[1] /\ s[2] = enums[2] /\ s[3] = flags[1] /\ s[4] = flags[2]
    BY <1>1, <1>2, <1>3, <1>4, <1>5
  <1>8. /\ s[5] = job[1] /\ s[6] = job[2] /\ s[7] = job[3] /\ s[8] = job[4]
        /\ s[9] = seq[1] /\ s[10] = seq[2] /\ s[11] = seq[3] /\ s[12] = seq[4]
    BY <1>2, <1>3, <1>4, <1>5
  <1>9. s = enums \o flags \o job \o seq \o payload
    BY DEF s, h12, h8, h4
  <1> QED BY <1>4, <1>5, <1>6, <1>7, <1>8, <1>9 DEF LaidOut

(* Discriminants are bytes, and no two names share one: TryFrom finds the  *)
(* name again.                                                             *)
LEMMA Discriminants ==
  /\ \A name \in DOMAIN FrameType :
       /\ FrameType[name] \in Bytes /\ Known(FrameType, FrameType[name])
       /\ TryFrom(FrameType, FrameType[name]) = name
  /\ \A name \in DOMAIN StreamId :
       /\ StreamId[name] \in Bytes /\ Known(StreamId, StreamId[name])
       /\ TryFrom(StreamId, StreamId[name]) = name
  <1>1. \A name \in DOMAIN FrameType : FrameType[name] \in Bytes
    BY DEF FrameType, Bytes
  <1>2. \A n1, n2 \in DOMAIN FrameType : FrameType[n1] = FrameType[n2] => n1 = n2
    BY DEF FrameType
  <1>3. \A name \in DOMAIN StreamId : StreamId[name] \in Bytes
    BY DEF StreamId, Bytes
  <1>4. \A n1, n2 \in DOMAIN StreamId : StreamId[n1] = StreamId[n2] => n1 = n2
    BY DEF StreamId
  <1>5. ASSUME NEW name \in DOMAIN FrameType
        PROVE  TryFrom(FrameType, FrameType[name]) = name
    BY <1>2 DEF TryFrom
  <1>6. ASSUME NEW name \in DOMAIN StreamId
        PROVE  TryFrom(StreamId, StreamId[name]) = name
    BY <1>4 DEF TryFrom
  <1> QED BY <1>1, <1>3, <1>5, <1>6 DEF Known

(* What the reader makes of a frame, field by field.                       *)
LEMMA SeenFields ==
  ASSUME NEW f \in Frame
  PROVE  Seen(f) = [frame_type |-> f.frame_type, stream_id |-> f.stream_id,
                    flags |-> ToBe16(f.flags), job_id |-> ToBe32(f.job_id),
                    sequence_number |-> ToBe32(f.sequence_number),
                    payload |-> f.payload]
  <1>1. Seen(f) = [x \in DOMAIN f |->
          IF x = "sequence_number" THEN ToBe32(f.sequence_number)
          ELSE IF x = "job_id" THEN ToBe32(f.job_id)
          ELSE IF x = "flags" THEN ToBe16(f.flags) ELSE f[x]]
    BY DEF Seen, Frame
  <1> QED BY <1>1 DEF Frame

(* What the reader makes of what the reader made of a frame is the frame.  *)
LEMMA SeenTwice ==
  ASSUME NEW f \in Frame
  PROVE  Seen(f) \in Frame /\ Seen(Seen(f)) = f
  <1>1. /\ f.frame_type \in DOMAIN FrameType /\ f.stream_id \in DOMAIN StreamId
        /\ f.flags \in U16 /\ f.job_id \in U32 /\ f.sequence_number \in U32
        /\ f.payload \in Seq(Bytes)
    BY DEF Frame
  <1>2. /\ ToBe16(f.flags) \in U16 /\ ToBe16(ToBe16(f.flags)) = f.flags
        /\ ToBe32(f.job_id) \in U32 /\ ToBe32(ToBe32(f.job_id)) = f.job_id
        /\ ToBe32(f.sequence_number) \in U32
        /\ ToBe32(ToBe32(f.sequence_number)) = f.sequence_number
    BY <1>1, ToBeTwice
  <1>3. Seen(f) \in Frame
    BY <1>1, <1>2, SeenFields DEF Frame
  <1>4. Seen(Seen(f)) = [frame_type |-> f.frame_type, stream_id |-> f.stream_id,
                         flags |-> f.flags, job_id |-> f.job_id,
                         sequence_number |-> f.sequence_number, payload |-> f.payload]
    <2>1. /\ Seen(f).frame_type = f.frame_type /\ Seen(f).stream_id = f.stream_id
          /\ Seen(f).flags = ToBe16(f.flags) /\ Seen(f).job_id = ToBe32(f.job_id)
          /\ Seen(f).sequence_number = ToBe32(f.sequence_number)
          /\ Seen(f).payload = f.payload
      BY SeenFields
    <2>2. Seen(Seen(f)) =
            [frame_type |-> Seen(f).frame_type, stream_id |-> Seen(f).stream_id,
             flags |-> ToBe16(Seen(f).flags), job_id |-> ToBe32(Seen(f).job_id),
             sequence_number |-> ToBe32(Seen(f).sequence_number),
             payload |-> Seen(f).payload]
      BY <1>3, SeenFields
    <2> QED BY <1>2, <2>1, <2>2
  <1>5. f = [frame_type |-> f.frame_type, stream_id |-> f.stream_id,
             flags |-> f.flags, job_id |-> f.job_id,
             sequence_number |-> f.sequence_number, payload |-> f.payload]
    BY DEF Frame
  <1> QED BY <1>3, <1>4, <1>5

(* Frame::encode of any frame gives a header and the payload, which        *)
(* Frame::decode accepts; what it returns is the frame with each of its    *)
(* three numbers in the opposite byte order, and nothing else changed.     *)
THEOREM DecodeEncode ==
  ASSUME NEW f \in Frame
  PROVE  /\ Encode(f) \in Seq(Bytes)
         /\ Len(Encode(f)) = HeaderSize + Len(f.payload)
         /\ CanDecode(Encode(f))
         /\ Decode(Encode(f)) = Seen(f)
         /\ Seen(Seen(f)) = f
  <1> DEFINE type == FrameType[f.frame_type]
             stream == StreamId[f.stream_id]
             flags == ToBe16(f.flags)
             job == ToBe32(f.job_id)
             seq == ToBe32(f.sequence_number)
             e == Encode(f)
  <1>1. /\ f.frame_type \in DOMAIN FrameType /\ f.stream_id \in DOMAIN StreamId
        /\ f.payload \in Seq(Bytes) /\ flags \in U16 /\ job \in U32 /\ seq \in U32
    BY ToBeTwice DEF Frame
  <1>2. /\ type \in Bytes /\ Known(FrameType, type) /\ TryFrom(FrameType, type) = f.frame_type
        /\ stream \in Bytes /\ Known(StreamId, stream)
        /\ TryFrom(StreamId, stream) = f.stream_id
    BY <1>1, Discriminants
  <1>3. e = <<type, stream>> \o ToBeBytes16(flags) \o ToBeBytes32(job) \o ToBeBytes32(seq)
              \o f.payload
    BY DEF Encode
  <1> HIDE DEF type, stream, flags, job, seq, e
  <1>4. LET b == ToBeBytes16(flags)
        IN  b \in Seq(Bytes) /\ Len(b) = 2 /\ FromBeBytes16(b[1], b[2]) = flags
    BY <1>1, WrittenBytes
  <1>5. LET b == ToBeBytes32(job)
        IN  b \in Seq(Bytes) /\ Len(b) = 4 /\ FromBeBytes32(b[1], b[2], b[3], b[4]) = job
    BY <1>1, WrittenBytes
  <1>6. LET b == ToBeBytes32(seq)
        IN  b \in Seq(Bytes) /\ Len(b) = 4 /\ FromBeBytes32(b[1], b[2], b[3], b[4]) = seq
    BY <1>1, WrittenBytes
  <1>7. LET b == <<type, stream>>
        IN  b \in Seq(Bytes) /\ Len(b) = 2 /\ b[1] = type /\ b[2] = stream
    BY <1>2
  <1>8. /\ e \in Seq(Bytes) /\ Len(e) = 12 + Len(f.payload)
        /\ e[1] = type /\ e[2] = stream
        /\ FromBeBytes16(e[3], e[4]) = flags
        /\ FromBeBytes32(e[5], e[6], e[7], e[8]) = job
        /\ FromBeBytes32(e[9], e[10], e[11], e[12]) = seq
        /\ SubSeq(e, 13, Len(e)) = f.payload
    <2> DEFINE b1 == <<type, stream>>
               b2 == ToBeBytes16(flags)
               b3 == ToBeBytes32(job)
               b4 == ToBeBytes32(seq)
    <2> HIDE DEF b1, b2, b3, b4
    <2>1. /\ b1 \in Seq(Bytes) /\ Len(b1) = 2 /\ b1[1] = type /\ b1[2] = stream
          /\ b2 \in Seq(Bytes) /\ Len(b2) = 2 /\ FromBeBytes16(b2[1], b2[2]) = flags
          /\ b3 \in Seq(Bytes) /\ Len(b3) = 4
          /\ FromBeBytes32(b3[1], b3[2], b3[3], b3[4]) = job
          /\ b4 \in Seq(Bytes) /\ Len(b4) = 4
          /\ FromBeBytes32(b4[1], b4[2], b4[3], b4[4]) = seq
      BY <1>4, <1>5, <1>6, <1>7 DEF b1, b2, b3, b4
    <2>2. e = b1 \o b2 \o b3 \o b4 \o f.payload
      BY <1>3 DEF b1, b2, b3, b4
    <2> DEFINE p == f.payload
    <2> HIDE DEF p
    <2>3. p \in Seq(Bytes)
      BY <1>1 DEF p
    <2>4. LaidOut(b1 \o b2 \o b3 \o b4 \o p, b1, b2, b3, b4, p)
      BY <2>1, <2>3, Layout
    <2> QED BY <2>1, <2>2, <2>4 DEF LaidOut, p
  <1>9. CanDecode(e)
    BY <1>1, <1>2, <1>8 DEF CanDecode, HeaderSize
  <1>10. Decode(e) = Seen(f)
    <2>1. Seen(f) = [frame_type |-> f.frame_type, stream_id |-> f.stream_id,
                     flags |-> flags, job_id |-> job, sequence_number |-> seq,
                     payload |-> f.payload]
      BY SeenFields DEF flags, job, seq
    <2>2. HeaderSize + 1 = 13
      BY DEF HeaderSize
    <2> QED BY <1>2, <1>8, <2>1, <2>2 DEF Decode
  <1> QED BY <1>8, <1>9, <1>10, SeenTwice DEF e, HeaderSize

-----------------------------------------------------------------------------
(* Where bytes are in a flow of bytes                                      *)

(* The bytes s are in the flow, after its first p bytes.                   *)
Occurs(s, flow, p) ==
  /\ p \in Nat /\ p + Len(s) <= Len(flow)
  /\ \A j \in 1 .. Len(s) : flow[p + j] = s[j]

(* What occurs in a flow at one place is determined by its length.         *)
LEMMA OccursSame ==
  ASSUME NEW flow, NEW p, NEW s \in Seq(Bytes), NEW t \in Seq(Bytes), Len(s) = Len(t),
         Occurs(s, flow, p), Occurs(t, flow, p)
  PROVE  s = t
  <1>1. \A j \in 1 .. Len(s) : s[j] = t[j]
    BY DEF Occurs
  <1> QED BY <1>1, SeqEqual

(* A flow that grows keeps what occurs in it, and has at its end what was  *)
(* added.                                                                  *)
LEMMA OccursGrows ==
  ASSUME NEW flow \in Seq(Bytes), NEW more \in Seq(Bytes)
  PROVE  /\ flow \o more \in Seq(Bytes) /\ Len(flow \o more) = Len(flow) + Len(more)
         /\ \A p : \A s \in Seq(Bytes) : Occurs(s, flow, p) => Occurs(s, flow \o more, p)
         /\ Occurs(more, flow \o more, Len(flow))
  <1> DEFINE all == flow \o more
  <1>1. /\ all \in Seq(Bytes) /\ Len(all) = Len(flow) + Len(more)
        /\ \A i \in 1 .. Len(flow) : all[i] = flow[i]
        /\ \A i \in 1 .. Len(more) : all[Len(flow) + i] = more[i]
    BY Put
  <1>2. Len(flow) \in Nat /\ Len(more) \in Nat
    BY LenProperties
  <1> HIDE DEF all
  <1>3. ASSUME NEW p, NEW s \in Seq(Bytes), Occurs(s, flow, p) PROVE Occurs(s, all, p)
    <2>1. Len(s) \in Nat
      BY LenProperties
    <2>2. /\ p \in Nat /\ p + Len(s) <= Len(flow)
          /\ \A j \in 1 .. Len(s) : flow[p + j] = s[j]
      BY <1>3 DEF Occurs
    <2>3. ASSUME NEW j \in 1 .. Len(s) PROVE all[p + j] = s[j]
      <3>1. p + j \in 1 .. Len(flow)
        BY <1>2, <2>1, <2>2
      <3> QED BY <1>1, <2>2, <3>1
    <2> QED BY <1>1, <1>2, <2>1, <2>2, <2>3 DEF Occurs
  <1>4. Occurs(more, all, Len(flow))
    BY <1>1, <1>2 DEF Occurs
  <1> QED BY <1>1, <1>3, <1>4 DEF all

(* What occurs in a flow occurs there in two parts.                        *)
LEMMA OccursParts ==
  ASSUME NEW flow \in Seq(Bytes), NEW p, NEW s \in Seq(Bytes), NEW t \in Seq(Bytes)
  PROVE  Occurs(s \o t, flow, p) <=> Occurs(s, flow, p) /\ Occurs(t, flow, p + Len(s))
  <1> DEFINE u == s \o t
  <1>1. /\ u \in Seq(Bytes) /\ Len(u) = Len(s) + Len(t)
        /\ \A i \in 1 .. Len(s) : u[i] = s[i]
        /\ \A i \in 1 .. Len(t) : u[Len(s) + i] = t[i]
    BY Put
  <1>2. Len(s) \in Nat /\ Len(t) \in Nat /\ Len(flow) \in Nat
    BY LenProperties
  <1> HIDE DEF u
  <1>3. ASSUME Occurs(u, flow, p) PROVE Occurs(s, flow, p) /\ Occurs(t, flow, p + Len(s))
    <2>1. /\ p \in Nat /\ p + Len(s) + Len(t) <= Len(flow)
          /\ \A j \in 1 .. Len(s) + Len(t) : flow[p + j] = u[j]
      BY <1>1, <1>2, <1>3 DEF Occurs
    <2>2. \A j \in 1 .. Len(t) : flow[(p + Len(s)) + j] = t[j]
      <3> SUFFICES ASSUME NEW j \in 1 .. Len(t) PROVE flow[(p + Len(s)) + j] = t[j]
        OBVIOUS
      <3>1. Len(s) + j \in 1 .. Len(s) + Len(t) /\ p + (Len(s) + j) = (p + Len(s)) + j
        BY <1>2, <2>1
      <3> QED BY <1>1, <2>1, <3>1
    <2> QED BY <1>1, <1>2, <2>1, <2>2 DEF Occurs
  <1>4. ASSUME Occurs(s, flow, p), Occurs(t, flow, p + Len(s)) PROVE Occurs(u, flow, p)
    <2>1. /\ p \in Nat /\ p + Len(s) + Len(t) <= Len(flow)
          /\ \A j \in 1 .. Len(s) : flow[p + j] = s[j]
          /\ \A j \in 1 .. Len(t) : flow[(p + Len(s)) + j] = t[j]
      BY <1>2, <1>4 DEF Occurs
    <2>2. ASSUME NEW j \in 1 .. Len(s) + Len(t) PROVE flow[p + j] = u[j]
      <3>1. CASE j \in 1 .. Len(s)
        BY <1>1, <2>1, <3>1
      <3>2. CASE j \notin 1 .. Len(s)
        <4>1. PICK i \in 1 .. Len(t) : j = Len(s) + i
          <5>1. j - Len(s) \in 1 .. Len(t) /\ j = Len(s) + (j - Len(s))
            BY <1>2, <3>2
          <5> QED BY <5>1
        <4>2. p + j = (p + Len(s)) + i
          BY <1>2, <2>1, <4>1
        <4> QED BY <1>1, <2>1, <4>1, <4>2
      <3> QED BY <3>1, <3>2
    <2> QED BY <1>1, <1>2, <2>1, <2>2 DEF Occurs
  <1> QED BY <1>3, <1>4 DEF u

(* The first n bytes and the others.                                       *)
LEMMA Cut ==
  ASSUME NEW s \in Seq(Bytes), NEW n \in Nat, n <= Len(s)
  PROVE  /\ SubSeq(s, 1, n) \in Seq(Bytes) /\ Len(SubSeq(s, 1, n)) = n
         /\ SubSeq(s, n + 1, Len(s)) \in Seq(Bytes)
         /\ Len(SubSeq(s, n + 1, Len(s))) = Len(s) - n
         /\ SubSeq(s, 1, n) \o SubSeq(s, n + 1, Len(s)) = s
  <1>1. /\ SubSeq(s, 1, n) \in Seq(Bytes) /\ Len(SubSeq(s, 1, n)) = n
        /\ SubSeq(s, n + 1, Len(s)) \in Seq(Bytes)
        /\ Len(SubSeq(s, n + 1, Len(s))) = Len(s) - n
    OBVIOUS
  <1>2. SubSeq(s, 1, n) \o SubSeq(s, n + 1, Len(s)) = SubSeq(s, 1, Len(s))
    <2>1. 1 \in 1 .. Len(s) + 1 /\ n \in 1 - 1 .. Len(s) /\ Len(s) \in n .. Len(s)
      OBVIOUS
    <2> QED BY <2>1, ConcatAdjacentSubSeq
  <1> QED BY <1>1, <1>2, SubSeqFull

(* A slice of what occurs in a flow.                                       *)
LEMMA OccursSlice ==
  ASSUME NEW flow \in Seq(Bytes), NEW p, NEW s \in Seq(Bytes), Occurs(s, flow, p),
         NEW i \in Nat, NEW n \in Nat, i + n <= Len(s)
  PROVE  /\ SubSeq(s, i + 1, i + n) \in Seq(Bytes) /\ Len(SubSeq(s, i + 1, i + n)) = n
         /\ Occurs(SubSeq(s, i + 1, i + n), flow, p + i)
  <1> DEFINE t == SubSeq(s, i + 1, i + n)
  <1>1. t \in Seq(Bytes) /\ Len(t) = n /\ \A j \in 1 .. n : t[j] = s[i + j]
    OBVIOUS
  <1> HIDE DEF t
  <1>2. /\ p \in Nat /\ p + Len(s) <= Len(flow) /\ Len(flow) \in Nat /\ Len(s) \in Nat
        /\ \A j \in 1 .. Len(s) : flow[p + j] = s[j]
    BY LenProperties DEF Occurs
  <1>3. ASSUME NEW j \in 1 .. n PROVE flow[(p + i) + j] = t[j]
    <2>1. i + j \in 1 .. Len(s) /\ p + (i + j) = (p + i) + j
      BY <1>2
    <2> QED BY <1>1, <1>2, <2>1
  <1> QED BY <1>1, <1>2, <1>3 DEF Occurs, t

(* A frame that `encode` accepts: its length fits the limit of the reader  *)
(* and the prefix, from which it is read back.                             *)
LEMMA WireFacts ==
  ASSUME NEW f \in Samples, CanEncode(f)
  PROVE  /\ f \in Frame /\ Encode(f) \in Seq(Bytes) /\ Len(Encode(f)) \in 0 .. MaxFrameSize
         /\ ToBeBytes32(Len(Encode(f))) \in Seq(Bytes)
         /\ Len(ToBeBytes32(Len(Encode(f)))) = 4
         /\ LengthOf(ToBeBytes32(Len(Encode(f)))) = Len(Encode(f))
         /\ Wire(f) \in Seq(Bytes) /\ Len(Wire(f)) = 4 + Len(Encode(f))
  <1>1. f \in Frame
    BY LinkAssumption
  <1>2. f.payload \in Seq(Bytes)
    BY <1>1 DEF Frame
  <1>3. Encode(f) \in Seq(Bytes) /\ Len(Encode(f)) = HeaderSize + Len(f.payload)
    BY <1>1, DecodeEncode
  <1>4. MaxFrameSize \in Nat /\ High(High(High(MaxFrameSize))) < 256
    BY SizesAssumption DEF U32
  <1>5. Len(Encode(f)) \in Nat /\ Len(Encode(f)) <= MaxFrameSize
    BY <1>2, <1>3, <1>4, LenProperties DEF CanEncode, HeaderSize
  <1>6. Len(Encode(f)) \in U32
    BY <1>4, <1>5 DEF U32, High
  <1>7. LET b == ToBeBytes32(Len(Encode(f)))
        IN  b \in Seq(Bytes) /\ Len(b) = 4 /\ LengthOf(b) = Len(Encode(f))
    BY <1>6, WrittenBytes DEF LengthOf
  <1>8. Wire(f) \in Seq(Bytes) /\ Len(Wire(f)) = 4 + Len(Encode(f))
    <2>1. /\ Wire(f) \in Seq(Bytes)
          /\ Len(Wire(f)) = Len(ToBeBytes32(Len(Encode(f)))) + Len(Encode(f))
      BY <1>3, <1>7, Put DEF Wire
    <2> QED BY <1>7, <2>1
  <1> QED BY <1>1, <1>3, <1>4, <1>5, <1>7, <1>8

-----------------------------------------------------------------------------
(* The inductive invariant.  It speaks of all the bytes that the writer    *)
(* was ever given, in which the frames sent lie end to end: frame i of the *)
(* first m after the first off[i - 1] bytes.  The m frames are those that  *)
(* come before the bytes `bad`, which are no frame, or all of them.        *)

Flow(all, off, m, bad) ==
  /\ all \in Seq(Bytes) /\ m \in 0 .. Len(sent) /\ off \in [0 .. m -> Nat] /\ off[0] = 0
  /\ \A i \in 1 .. m : /\ off[i] = off[i - 1] + 4 + Len(Encode(sent[i]))
                      /\ Occurs(Wire(sent[i]), all, off[i - 1])
  /\ faulty => bad \in NoFrames /\ Occurs(bad, all, off[m])
  /\ ~faulty => m = Len(sent) /\ Len(all) = off[m]

(* The position of the first byte of the reader's buffer.                  *)
Start(off) == off[Len(received)] + (IF step = "data" THEN 4 ELSE 0)

(* Buffer, pipe and unwritten bytes are parts of the flow; as long as the  *)
(* connection is open, nothing is missing between them.                    *)
InTransit(all, off) ==
  /\ Occurs(buffer, all, Start(off))
  /\ Occurs(pipe, all, Start(off) + Len(buffer))
  /\ Occurs(unwritten, all, Len(all) - Len(unwritten))
  /\ open => Start(off) + Len(buffer) + Len(pipe) + Len(unwritten) = Len(all)

(* The reader knows the length of what comes next.                         *)
Expects(m, bad) ==
  /\ Len(received) <= m
  /\ step = "length" => size = 4
  /\ step = "data" /\ Len(received) < m => size = Len(Encode(sent[Len(received) + 1]))
  /\ step = "data" /\ Len(received) = m =>
       faulty /\ 4 + size <= Len(bad) /\ ~CanDecode(SubSeq(bad, 5, 4 + size))

Linked(all, off, m, bad) ==
  Flow(all, off, m, bad) /\ InTransit(all, off) /\ Expects(m, bad)

(* What has been sent and received is as FramesIntact says.                *)
Carried ==
  /\ \A i \in 1 .. Len(sent) : CanEncode(sent[i])
  /\ \A i \in 1 .. Len(received) : received[i] = Seen(sent[i])
  /\ reader = "refused" => faulty

(* The conjuncts of TypeOK but that of `busy`, which no other depends on.  *)
Typed ==
  /\ sent \in Seq(Samples) /\ Len(sent) <= MaxSent /\ faulty \in BOOLEAN
  /\ writer \in {"up", "failed"} /\ unwritten \in Seq(Bytes)
  /\ pipe \in Seq(Bytes) /\ Len(pipe) <= PipeSize /\ open \in BOOLEAN
  /\ reader \in {"up", "refused", "broken"} /\ step \in {"length", "data"}
  /\ size \in 0 .. MaxFrameSize
  /\ buffer \in Seq(Bytes) /\ Len(buffer) <= size
  /\ Len(received) <= Len(sent)

LinkInv ==
  /\ Typed /\ Carried /\ received \in Seq(Frame)
  /\ \E all, off, m, bad : Linked(all, off, m, bad)

(* The bounds are numbers, and the largest frame holds a header.           *)
LEMMA Bounds ==
  MaxFrameSize \in Nat /\ MaxFrameSize >= 12 /\ MaxSent \in Nat /\ PipeSize \in Nat
  <1>1. MaxFrameSize \in Nat /\ MaxFrameSize >= 12
    BY SizesAssumption DEF U32, HeaderSize
  <1>2. MaxSent \in Nat /\ PipeSize \in Nat
    BY LinkAssumption
  <1> QED BY <1>1, <1>2

(* Nothing has been sent yet.                                              *)
LEMMA LinkInit == Init => LinkInv
  <1> SUFFICES ASSUME Init PROVE LinkInv
    OBVIOUS
  <1> USE DEF Init
  <1>1. Typed
    <2>1. faulty \in BOOLEAN /\ open \in BOOLEAN
      OBVIOUS
    <2> QED BY <2>1, Bounds DEF Typed
  <1>2. Carried
    BY DEF Carried
  <1>3. Linked(<< >>, [i \in 0 .. 0 |-> 0], 0, << >>)
    BY DEF Linked, Flow, InTransit, Expects, Start, Occurs
  <1>4. received \in Seq(Frame)
    OBVIOUS
  <1> QED BY <1>1, <1>2, <1>3, <1>4 DEF LinkInv

(* What every step starts from: the flow, and how it has been read.        *)
LEMMA LinkFacts ==
  ASSUME LinkInv
  PROVE  /\ Len(sent) \in Nat /\ Len(received) \in Nat /\ Len(buffer) \in Nat
         /\ Len(pipe) \in Nat /\ Len(unwritten) \in Nat
         /\ \A i \in 1 .. Len(sent) : sent[i] \in Samples /\ CanEncode(sent[i])
  <1>1. /\ sent \in Seq(Samples) /\ received \in Seq(Frame) /\ buffer \in Seq(Bytes)
        /\ pipe \in Seq(Bytes) /\ unwritten \in Seq(Bytes)
        /\ \A i \in 1 .. Len(sent) : CanEncode(sent[i])
    BY DEF LinkInv, Typed, Carried
  <1> QED BY <1>1, LenProperties, ElementOfSeq

(* Only the state of the writer or of the reader changes, or nothing.      *)
LEMMA StateStep ==
  ASSUME LinkInv, UNCHANGED <<sent, faulty, unwritten, pipe, open, step, size, buffer, received>>,
         writer' \in {"up", "failed"}, reader' \in {"up", "refused", "broken"},
         reader' = "refused" => faulty
  PROVE  LinkInv'
  <1>1. PICK all, off, m, bad : Linked(all, off, m, bad)
    BY DEF LinkInv
  <1>2. Linked(all, off, m, bad)'
    BY <1>1 DEF Linked, Flow, InTransit, Expects, Start
  <1>3. Typed'
    <2>1. faulty' \in BOOLEAN /\ open' \in BOOLEAN
      BY DEF LinkInv, Typed
    <2> QED BY <2>1 DEF LinkInv, Typed
  <1>4. Carried' /\ received' \in Seq(Frame)
    BY DEF LinkInv, Carried
  <1> QED BY <1>2, <1>3, <1>4 DEF LinkInv

(* write_all moves bytes from the end of the flow to the end of the pipe.  *)
LEMMA WriteAllStep ==
  ASSUME LinkInv, NEW n \in 1 .. PipeSize, WriteAll(n)
  PROVE  LinkInv'
  <1>1. PICK all, off, m, bad : Linked(all, off, m, bad)
    BY DEF LinkInv
  <1> DEFINE first == SubSeq(unwritten, 1, n)
             rest == SubSeq(unwritten, n + 1, Len(unwritten))
             start == Start(off)
             end == Len(all)
  <1>2. /\ all \in Seq(Bytes) /\ pipe \in Seq(Bytes) /\ unwritten \in Seq(Bytes)
        /\ n \in Nat /\ n <= Len(unwritten) /\ Len(pipe) + n <= PipeSize
        /\ open /\ end \in Nat
    BY <1>1, Bounds, LenProperties DEF Linked, Flow, LinkInv, Typed, WriteAll
  <1>3. /\ first \in Seq(Bytes) /\ Len(first) = n /\ rest \in Seq(Bytes)
        /\ Len(rest) = Len(unwritten) - n /\ first \o rest = unwritten
    BY <1>2, Cut
  <1>4. /\ pipe' = pipe \o first /\ unwritten' = rest
        /\ UNCHANGED <<sent, faulty, writer, open, readerVars>>
    BY DEF WriteAll
  <1> HIDE DEF first, rest
  <1>5. /\ pipe' \in Seq(Bytes) /\ Len(pipe') = Len(pipe) + n
    <2>1. pipe \o first \in Seq(Bytes) /\ Len(pipe \o first) = Len(pipe) + Len(first)
      BY <1>2, <1>3, Put
    <2> QED BY <1>3, <1>4, <2>1
  <1>6. /\ Occurs(pipe, all, start + Len(buffer)) /\ Occurs(unwritten, all, end - Len(unwritten))
        /\ start + Len(buffer) + Len(pipe) + Len(unwritten) = end
        /\ start \in Nat
    BY <1>1, <1>2 DEF Linked, InTransit, Occurs
  <1>7. Start(off)' = start
    BY <1>4 DEF Start, readerVars
  <1> HIDE DEF start, end
  <1>8. Occurs(first, all, end - Len(unwritten)) /\ Occurs(rest, all, end - Len(unwritten) + n)
    BY <1>2, <1>3, <1>6, OccursParts
  <1>9. /\ (start + Len(buffer)) + Len(pipe) = end - Len(unwritten)
        /\ end - Len(rest) = end - Len(unwritten) + n
        /\ start + Len(buffer) + (Len(pipe) + n) + Len(rest) = end
    <2>1. Len(buffer) \in Nat /\ Len(pipe) \in Nat /\ Len(unwritten) \in Nat
      BY LinkFacts
    <2>2. /\ n \in Nat /\ end \in Nat /\ start \in Nat /\ Len(rest) = Len(unwritten) - n
          /\ start + Len(buffer) + Len(pipe) + Len(unwritten) = end
      BY <1>2, <1>3, <1>6
    <2> QED BY <2>1, <2>2
  <1>10. Occurs(pipe \o first, all, start + Len(buffer))
    BY <1>2, <1>3, <1>6, <1>8, <1>9, OccursParts
  <1>11. InTransit(all, off)'
    BY <1>1, <1>4, <1>5, <1>7, <1>8, <1>9, <1>10
       DEF Linked, InTransit, readerVars, start, end
  <1>12. Flow(all, off, m, bad)' /\ Expects(m, bad)'
    BY <1>1, <1>4 DEF Linked, Flow, Expects, readerVars
  <1>13. Typed'
    <2>1. faulty' \in BOOLEAN /\ open' \in BOOLEAN
      BY <1>4 DEF LinkInv, Typed
    <2>2. Len(pipe') <= PipeSize /\ unwritten' \in Seq(Bytes)
      BY <1>2, <1>3, <1>4, <1>5
    <2> QED BY <1>4, <1>5, <2>1, <2>2 DEF LinkInv, Typed, readerVars
  <1>14. Carried' /\ received' \in Seq(Frame)
    BY <1>4 DEF LinkInv, Carried, readerVars
  <1> QED BY <1>11, <1>12, <1>13, <1>14 DEF LinkInv, Linked

(* read_exact moves bytes from the beginning of the pipe to its buffer.    *)
LEMMA ReadExactStep ==
  ASSUME LinkInv, NEW n \in 1 .. PipeSize, ReadExact(n)
  PROVE  LinkInv'
  <1>1. PICK all, off, m, bad : Linked(all, off, m, bad)
    BY DEF LinkInv
  <1> DEFINE first == SubSeq(pipe, 1, n)
             rest == SubSeq(pipe, n + 1, Len(pipe))
             start == Start(off)
  <1>2. /\ all \in Seq(Bytes) /\ pipe \in Seq(Bytes) /\ buffer \in Seq(Bytes)
        /\ n \in Nat /\ n <= Len(pipe) /\ n <= size - Len(buffer)
        /\ size \in Nat /\ Len(pipe) <= PipeSize
    BY <1>1, Bounds, LenProperties DEF Linked, Flow, LinkInv, Typed, ReadExact, Room
  <1>3. /\ first \in Seq(Bytes) /\ Len(first) = n /\ rest \in Seq(Bytes)
        /\ Len(rest) = Len(pipe) - n /\ first \o rest = pipe
    BY <1>2, Cut
  <1>4. /\ buffer' = buffer \o first /\ pipe' = rest
        /\ UNCHANGED <<writerVars, open, reader, step, size, received>>
    BY DEF ReadExact
  <1> HIDE DEF first, rest
  <1>5. buffer' \in Seq(Bytes) /\ Len(buffer') = Len(buffer) + n
    <2>1. buffer \o first \in Seq(Bytes) /\ Len(buffer \o first) = Len(buffer) + Len(first)
      BY <1>2, <1>3, Put
    <2> QED BY <1>3, <1>4, <2>1
  <1>6. /\ Occurs(buffer, all, start) /\ Occurs(pipe, all, start + Len(buffer)) /\ start \in Nat
    BY <1>1, <1>2 DEF Linked, InTransit, Occurs
  <1>7. Start(off)' = start
    BY <1>4 DEF Start
  <1> HIDE DEF start
  <1>8. Occurs(first, all, start + Len(buffer)) /\ Occurs(rest, all, start + Len(buffer) + n)
    BY <1>2, <1>3, <1>6, OccursParts
  <1>9. Occurs(buffer \o first, all, start)
    BY <1>2, <1>3, <1>6, <1>8, OccursParts
  <1>10. Len(buffer) \in Nat /\ Len(pipe) \in Nat /\ Len(unwritten) \in Nat
    BY LinkFacts
  <1>11. /\ start + Len(buffer) + n = start + (Len(buffer) + n)
         /\ start + (Len(buffer) + n) + Len(rest) + Len(unwritten)
              = start + Len(buffer) + Len(pipe) + Len(unwritten)
    BY <1>2, <1>3, <1>6, <1>10
  <1>12. InTransit(all, off)'
    BY <1>1, <1>4, <1>5, <1>7, <1>8, <1>9, <1>11 DEF Linked, InTransit, writerVars, start
  <1>13. Flow(all, off, m, bad)' /\ Expects(m, bad)'
    BY <1>1, <1>4 DEF Linked, Flow, Expects, writerVars
  <1>14. Typed'
    <2>1. faulty' \in BOOLEAN /\ open' \in BOOLEAN
      BY <1>4 DEF LinkInv, Typed, writerVars
    <2>2. Len(pipe') <= PipeSize /\ pipe' \in Seq(Bytes) /\ Len(buffer') <= size'
      BY <1>2, <1>3, <1>4, <1>5, <1>10, Bounds
    <2> QED BY <1>4, <1>5, <2>1, <2>2 DEF LinkInv, Typed, writerVars
  <1>15. Carried' /\ received' \in Seq(Frame)
    BY <1>4 DEF LinkInv, Carried, writerVars
  <1> QED BY <1>12, <1>13, <1>14, <1>15 DEF LinkInv, Linked

(* The connection goes, and what is in the pipe may go with it.            *)
LEMMA DisconnectStep ==
  ASSUME LinkInv, Disconnect
  PROVE  LinkInv'
  <1>1. PICK all, off, m, bad : Linked(all, off, m, bad)
    BY DEF LinkInv
  <1>2. /\ pipe' \in {pipe, << >>} /\ open' = FALSE /\ UNCHANGED <<writerVars, readerVars>>
    BY DEF Disconnect
  <1>3. Occurs(<< >>, all, Start(off) + Len(buffer))
    <2>1. Occurs(pipe, all, Start(off) + Len(buffer)) /\ all \in Seq(Bytes)
      BY <1>1 DEF Linked, InTransit, Flow
    <2>2. Len(pipe) \in Nat /\ Len(all) \in Nat
      BY <2>1, LinkFacts, LenProperties
    <2> QED BY <2>1, <2>2 DEF Occurs
  <1>4. InTransit(all, off)'
    <2>1. Occurs(pipe, all, Start(off) + Len(buffer))'
      <3>1. Start(off)' = Start(off)
        BY <1>2 DEF Start, readerVars
      <3>2. Occurs(pipe', all, Start(off) + Len(buffer))
        BY <1>1, <1>2, <1>3 DEF Linked, InTransit
      <3> QED BY <1>2, <3>1, <3>2 DEF readerVars
    <2> QED BY <1>1, <1>2, <2>1 DEF Linked, InTransit, Start, writerVars, readerVars
  <1>5. Flow(all, off, m, bad)' /\ Expects(m, bad)'
    BY <1>1, <1>2 DEF Linked, Flow, Expects, writerVars, readerVars
  <1>6. Typed'
    <2>1. faulty' \in BOOLEAN /\ open' \in BOOLEAN
      BY <1>2 DEF LinkInv, Typed, writerVars
    <2>2. Len(pipe') <= PipeSize /\ pipe' \in Seq(Bytes)
      <3>1. Len(pipe) <= PipeSize /\ pipe \in Seq(Bytes) /\ 0 <= PipeSize
        BY Bounds DEF LinkInv, Typed
      <3>2. CASE pipe' = << >>
        BY <3>1, <3>2
      <3> QED BY <1>2, <3>1, <3>2
    <2> QED BY <1>2, <2>1, <2>2 DEF LinkInv, Typed, writerVars, readerVars
  <1>7. Carried' /\ received' \in Seq(Frame)
    BY <1>2 DEF LinkInv, Carried, writerVars, readerVars
  <1> QED BY <1>4, <1>5, <1>6, <1>7 DEF LinkInv, Linked

(* A flow that grows keeps what is in transit; what is added to it is      *)
(* still to be written.                                                    *)
LEMMA TransitGrows ==
  ASSUME LinkInv, NEW all, NEW off, NEW m, NEW bad, Linked(all, off, m, bad),
         NEW more \in Seq(Bytes), unwritten = << >>, unwritten' = more,
         UNCHANGED <<pipe, open, readerVars>>,
         NEW next, next[Len(received)] = off[Len(received)]
  PROVE  InTransit(all \o more, next)'
  <1>1. /\ all \in Seq(Bytes) /\ buffer \in Seq(Bytes) /\ pipe \in Seq(Bytes)
        /\ Occurs(buffer, all, Start(off)) /\ Occurs(pipe, all, Start(off) + Len(buffer))
        /\ open => Start(off) + Len(buffer) + Len(pipe) + Len(unwritten) = Len(all)
    BY DEF Linked, Flow, InTransit, LinkInv, Typed
  <1> DEFINE grown == all \o more
  <1>2. /\ grown \in Seq(Bytes) /\ Len(grown) = Len(all) + Len(more)
        /\ Occurs(buffer, grown, Start(off)) /\ Occurs(pipe, grown, Start(off) + Len(buffer))
        /\ Occurs(more, grown, Len(all))
    BY <1>1, OccursGrows
  <1> HIDE DEF grown
  <1>3. Start(next)' = Start(off)
    BY DEF Start, readerVars
  <1>4. /\ Len(all) \in Nat /\ Len(more) \in Nat /\ Len(buffer) \in Nat /\ Len(pipe) \in Nat
        /\ Len(unwritten) = 0 /\ Start(off) \in Nat
    BY <1>1, LenProperties DEF Occurs
  <1>5. /\ Len(grown) - Len(more) = Len(all)
        /\ open => Start(off) + Len(buffer) + Len(pipe) + Len(more) = Len(grown)
    BY <1>1, <1>2, <1>4
  <1>6. InTransit(grown, next)'
    BY <1>2, <1>3, <1>5 DEF InTransit, readerVars
  <1> QED BY <1>6 DEF grown

(* write_frame_static: the frame is the next of the flow.                  *)
LEMMA WriteFrameStep ==
  ASSUME LinkInv, NEW f \in Samples, WriteFrame(f)
  PROVE  LinkInv'
  <1>1. PICK all, off, m, bad : Linked(all, off, m, bad)
    BY DEF LinkInv
  <1> DEFINE grown == all \o Wire(f)
             size1 == Len(Encode(f))
             next == [i \in 0 .. m + 1 |-> IF i = m + 1 THEN off[m] + 4 + size1 ELSE off[i]]
  <1>2. /\ unwritten = << >> /\ unwritten' = Wire(f) /\ CanEncode(f) /\ Len(sent) < MaxSent
        /\ sent' = Append(sent, f)
        /\ UNCHANGED <<faulty, writer, pipe, open, readerVars>>
    BY DEF WriteFrame
  <1>3. /\ Wire(f) \in Seq(Bytes) /\ size1 \in Nat /\ Len(Wire(f)) = 4 + size1
    BY <1>2, WireFacts
  <1>4. /\ all \in Seq(Bytes) /\ m \in 0 .. Len(sent) /\ m \in Nat /\ off \in [0 .. m -> Nat]
        /\ off[0] = 0 /\ Len(received) <= m /\ Len(received) \in Nat /\ Len(sent) \in Nat
        /\ ~faulty => m = Len(sent) /\ Len(all) = off[m]
        /\ faulty => bad \in NoFrames /\ Occurs(bad, all, off[m])
    BY <1>1, LinkFacts DEF Linked, Flow, Expects
  <1>5. /\ sent' \in Seq(Samples) /\ Len(sent') = Len(sent) + 1 /\ sent'[Len(sent) + 1] = f
        /\ \A i \in 1 .. Len(sent) : sent'[i] = sent[i]
    BY <1>2 DEF LinkInv, Typed
  <1>6. /\ grown \in Seq(Bytes) /\ Len(grown) = Len(all) + Len(Wire(f))
        /\ \A p : \A s \in Seq(Bytes) : Occurs(s, all, p) => Occurs(s, grown, p)
        /\ Occurs(Wire(f), grown, Len(all))
    BY <1>3, <1>4, OccursGrows
  <1> HIDE DEF grown, size1
  <1>7. InTransit(grown, off)' /\ InTransit(grown, next)'
    <2>1. next[Len(received)] = off[Len(received)]
      BY <1>4
    <2> HIDE DEF next
    <2>2. InTransit(grown, off)'
      BY <1>1, <1>2, <1>3, TransitGrows DEF grown
    <2>3. InTransit(grown, next)'
      BY <1>1, <1>2, <1>3, <2>1, TransitGrows DEF grown
    <2> QED BY <2>2, <2>3
  <1>8. \A i \in 1 .. m : /\ sent'[i] = sent[i] /\ off[i] = off[i - 1] + 4 + Len(Encode(sent[i]))
                         /\ Occurs(Wire(sent[i]), grown, off[i - 1])
    <2>1. \A i \in 1 .. m : sent[i] \in Samples /\ CanEncode(sent[i])
      BY <1>4, LinkFacts
    <2>2. \A i \in 1 .. m : Wire(sent[i]) \in Seq(Bytes)
      BY <2>1, WireFacts
    <2>3. \A i \in 1 .. m : /\ off[i] = off[i - 1] + 4 + Len(Encode(sent[i]))
                           /\ Occurs(Wire(sent[i]), all, off[i - 1])
      BY <1>1 DEF Linked, Flow
    <2>4. \A i \in 1 .. m : sent'[i] = sent[i]
      BY <1>4, <1>5
    <2> QED BY <1>6, <2>2, <2>3, <2>4
  <1>9. /\ step = "length" => size = 4
        /\ step = "data" /\ Len(received) < m => size = Len(Encode(sent'[Len(received) + 1]))
        /\ step = "data" /\ Len(received) = m =>
             faulty /\ 4 + size <= Len(bad) /\ ~CanDecode(SubSeq(bad, 5, 4 + size))
    <2>1. Len(received) < m => sent'[Len(received) + 1] = sent[Len(received) + 1]
      BY <1>4, <1>5
    <2> QED BY <1>1, <2>1 DEF Linked, Expects
  <1>10. \E o, k, b : InTransit(grown, o)' /\ Flow(grown, o, k, b)' /\ Expects(k, b)'
    <2>1. CASE faulty
      <3>1. bad \in Seq(Bytes)
        BY <1>4, <2>1, LinkAssumption
      <3>2. bad \in NoFrames /\ Occurs(bad, grown, off[m])
        BY <1>4, <1>6, <2>1, <3>1
      <3>3. m \in 0 .. Len(sent')
        BY <1>4, <1>5
      <3>4. Flow(grown, off, m, bad)'
        BY <1>2, <1>4, <1>6, <1>8, <2>1, <3>2, <3>3 DEF Flow
      <3>5. Expects(m, bad)'
        BY <1>2, <1>4, <1>9, <2>1 DEF Expects, readerVars
      <3> QED BY <1>7, <3>4, <3>5
    <2>2. CASE ~faulty
      <3>1. /\ next \in [0 .. m + 1 -> Nat] /\ next[0] = 0
            /\ next[m + 1] = off[m] + 4 + size1 /\ \A i \in 0 .. m : next[i] = off[i]
        BY <1>3, <1>4
      <3> HIDE DEF next
      <3>2. \A i \in 1 .. m : next[i] = off[i] /\ next[i - 1] = off[i - 1]
        BY <1>4, <3>1
      <3>3. ASSUME NEW i \in 1 .. m + 1
            PROVE  /\ next[i] = next[i - 1] + 4 + Len(Encode(sent'[i]))
                   /\ Occurs(Wire(sent'[i]), grown, next[i - 1])
        <4>1. CASE i \in 1 .. m
          BY <1>8, <3>2, <4>1
        <4>2. CASE i = m + 1
          <5>1. sent'[i] = f /\ next[i - 1] = off[m] /\ off[m] = Len(all)
            BY <1>4, <1>5, <2>2, <3>1, <4>2
          <5> QED BY <1>6, <3>1, <4>2, <5>1 DEF size1
        <4> QED BY <1>4, <4>1, <4>2
      <3>4. m + 1 \in 0 .. Len(sent') /\ m + 1 = Len(sent')
        BY <1>4, <1>5, <2>2
      <3>5. Len(grown) = next[m + 1]
        <4>1. off[m] \in Nat /\ off[m] = Len(all)
          BY <1>4, <2>2
        <4> QED BY <1>3, <1>6, <3>1, <4>1
      <3>6. Flow(grown, next, m + 1, bad)'
        BY <1>2, <1>6, <2>2, <3>1, <3>3, <3>4, <3>5 DEF Flow
      <3>7. Expects(m + 1, bad)'
        <4>1. step = "data" => Len(received) < m /\ Len(received) # m + 1
          BY <1>4, <1>9, <2>2
        <4>2. Len(received) <= m + 1
          BY <1>4
        <4> QED BY <1>2, <1>9, <4>1, <4>2 DEF Expects, readerVars
      <3> QED BY <1>7, <3>6, <3>7
    <2> QED BY <2>1, <2>2
  <1>11. Typed'
    <2>1. faulty' \in BOOLEAN /\ open' \in BOOLEAN
      BY <1>2 DEF LinkInv, Typed
    <2>2. Len(sent') <= MaxSent /\ Len(received) <= Len(sent')
      BY <1>2, <1>4, <1>5, Bounds
    <2> QED BY <1>2, <1>3, <1>5, <2>1, <2>2 DEF LinkInv, Typed, readerVars
  <1>12. Carried' /\ received' \in Seq(Frame)
    <2>1. \A i \in 1 .. Len(sent') : CanEncode(sent'[i])
      BY <1>2, <1>4, <1>5 DEF LinkInv, Carried
    <2>2. \A i \in 1 .. Len(received) : received[i] = Seen(sent'[i])
      <3>1. \A i \in 1 .. Len(received) : sent'[i] = sent[i]
        BY <1>4, <1>5
      <3> QED BY <3>1 DEF LinkInv, Carried
    <2> QED BY <1>2, <2>1, <2>2 DEF LinkInv, Carried, readerVars
  <1> QED BY <1>10, <1>11, <1>12 DEF LinkInv, Linked

(* Bytes that are no frame are the next of the flow.                       *)
LEMMA WriteNoFrameStep ==
  ASSUME LinkInv, NEW bytes \in NoFrames, WriteNoFrame(bytes)
  PROVE  LinkInv'
  <1>1. PICK all, off, m, bad : Linked(all, off, m, bad)
    BY DEF LinkInv
  <1> DEFINE grown == all \o bytes
  <1>2. /\ unwritten = << >> /\ unwritten' = bytes /\ ~faulty /\ faulty' = TRUE
        /\ UNCHANGED <<sent, writer, pipe, open, readerVars>>
    BY DEF WriteNoFrame
  <1>3. bytes \in Seq(Bytes)
    BY LinkAssumption
  <1>4. /\ all \in Seq(Bytes) /\ m \in 0 .. Len(sent) /\ off \in [0 .. m -> Nat]
        /\ off[0] = 0 /\ Len(all) = off[m]
        /\ \A i \in 1 .. m : /\ off[i] = off[i - 1] + 4 + Len(Encode(sent[i]))
                            /\ Occurs(Wire(sent[i]), all, off[i - 1])
    BY <1>1, <1>2 DEF Linked, Flow
  <1>5. /\ grown \in Seq(Bytes)
        /\ \A p : \A s \in Seq(Bytes) : Occurs(s, all, p) => Occurs(s, grown, p)
        /\ Occurs(bytes, grown, Len(all))
    BY <1>3, <1>4, OccursGrows
  <1>6. InTransit(grown, off)'
    BY <1>1, <1>2, <1>3, TransitGrows
  <1> HIDE DEF grown
  <1>7. Flow(grown, off, m, bytes)'
    <2>1. \A i \in 1 .. m : sent[i] \in Samples /\ CanEncode(sent[i])
      BY <1>4, LinkFacts
    <2>2. \A i \in 1 .. m : Wire(sent[i]) \in Seq(Bytes)
      BY <2>1, WireFacts
    <2>3. \A i \in 1 .. m : Occurs(Wire(sent[i]), grown, off[i - 1])
      BY <1>4, <1>5, <2>2
    <2> QED BY <1>2, <1>4, <1>5, <2>3 DEF Flow
  <1>8. Expects(m, bytes)'
    BY <1>1, <1>2 DEF Linked, Expects, readerVars
  <1>9. Typed'
    <2>1. faulty' \in BOOLEAN /\ open' \in BOOLEAN
      BY <1>2 DEF LinkInv, Typed
    <2> QED BY <1>2, <1>3, <2>1 DEF LinkInv, Typed, readerVars
  <1>10. Carried' /\ received' \in Seq(Frame)
    BY <1>2 DEF LinkInv, Carried, readerVars
  <1> QED BY <1>6, <1>7, <1>8, <1>9, <1>10 DEF LinkInv, Linked

(* What the reader has read of a length is the length of the next frame,   *)
(* or the first four of the bytes that are no frame.                       *)
LEMMA LengthRead ==
  ASSUME LinkInv, step = "length", AllRead,
         NEW all, NEW off, NEW m, NEW bad, Linked(all, off, m, bad)
  PROVE  /\ Len(buffer) = 4 /\ LengthOf(buffer) \in Nat
         /\ Len(received) < m =>
              /\ LengthOf(buffer) = Len(Encode(sent[Len(received) + 1]))
              /\ LengthOf(buffer) <= MaxFrameSize
         /\ Len(received) = m =>
              faulty /\ bad \in NoFrames /\ LengthOf(buffer) = LengthOf(bad)
  <1> DEFINE k == Len(received)
             base == off[k]
  <1>1. buffer \in Seq(Bytes) /\ Len(buffer) = 4
    <2>1. size = 4 /\ Len(buffer) \in Nat /\ Len(buffer) <= size /\ Len(buffer) >= size
      BY LinkFacts DEF Linked, Expects, AllRead, LinkInv, Typed
    <2>2. buffer \in Seq(Bytes)
      BY DEF LinkInv, Typed
    <2>3. \A n \in Nat : n <= 4 /\ n >= 4 => n = 4
      OBVIOUS
    <2>4. Len(buffer) = 4
      BY <2>1, <2>3, Zenon
    <2> QED BY <2>2, <2>4
  <1>2. buffer[1] \in Bytes /\ buffer[2] \in Bytes /\ buffer[3] \in Bytes /\ buffer[4] \in Bytes
    <2>1. \A j \in 1 .. 4 : buffer[j] \in Bytes
      BY <1>1, ElementOfSeq
    <2> QED BY <2>1
  <1>3. LengthOf(buffer) \in Nat
    <2>1. LengthOf(buffer) \in U32
      BY <1>2, Number32 DEF LengthOf
    <2> QED BY <2>1 DEF U32
  <1>4. /\ all \in Seq(Bytes) /\ m \in 0 .. Len(sent) /\ off \in [0 .. m -> Nat] /\ k <= m
        /\ k \in Nat /\ Len(sent) \in Nat
        /\ \A i \in 1 .. m : Occurs(Wire(sent[i]), all, off[i - 1])
        /\ faulty => bad \in NoFrames /\ Occurs(bad, all, off[m])
        /\ ~faulty => Len(all) = off[m]
    BY LinkFacts DEF Linked, Flow, Expects
  <1>5. base \in Nat /\ Occurs(buffer, all, base)
    <2>1. base \in Nat
      BY <1>4
    <2>2. Start(off) = base
      BY <2>1 DEF Start
    <2> QED BY <2>1, <2>2 DEF Linked, InTransit
  <1>6. ASSUME k < m
        PROVE  /\ LengthOf(buffer) = Len(Encode(sent[k + 1]))
               /\ LengthOf(buffer) <= MaxFrameSize
    <2> DEFINE f == sent[k + 1]
               prefix == ToBeBytes32(Len(Encode(f)))
    <2>1. k + 1 \in 1 .. m /\ k + 1 \in 1 .. Len(sent) /\ (k + 1) - 1 = k
      BY <1>4, <1>6
    <2>2. f \in Samples /\ CanEncode(f) /\ Occurs(Wire(f), all, base)
      BY <1>4, <2>1, LinkFacts
    <2> HIDE DEF f, base
    <2>3. /\ prefix \in Seq(Bytes) /\ Len(prefix) = 4 /\ LengthOf(prefix) = Len(Encode(f))
          /\ Encode(f) \in Seq(Bytes) /\ Len(Encode(f)) \in 0 .. MaxFrameSize
      BY <2>2, WireFacts
    <2>4. Wire(f) = prefix \o Encode(f)
      BY DEF Wire
    <2> HIDE DEF prefix
    <2>5. Occurs(prefix, all, base)
      BY <1>4, <2>2, <2>3, <2>4, OccursParts
    <2>6. buffer = prefix
      BY <1>1, <1>5, <2>3, <2>5, OccursSame
    <2> QED BY <2>3, <2>6, Bounds DEF f
  <1>7. ASSUME k = m
        PROVE  faulty /\ bad \in NoFrames /\ LengthOf(buffer) = LengthOf(bad)
    <2>1. faulty
      <3>1. Len(all) \in Nat /\ base + 4 <= Len(all)
        BY <1>1, <1>4, <1>5, LenProperties DEF Occurs
      <3> QED BY <1>4, <1>5, <1>7, <3>1
    <2>2. bad \in NoFrames /\ Occurs(bad, all, base)
      BY <1>4, <1>7, <2>1
    <2>3. bad \in Seq(Bytes) /\ Len(bad) >= 4
      BY <2>2, LinkAssumption DEF NoFrame
    <2>4. \A j \in 1 .. 4 : buffer[j] = bad[j]
      <3>1. \A j \in 1 .. 4 : all[base + j] = buffer[j]
        BY <1>1, <1>5 DEF Occurs
      <3>2. \A j \in 1 .. Len(bad) : all[base + j] = bad[j]
        BY <2>2 DEF Occurs
      <3>3. \A j \in 1 .. 4 : j \in 1 .. Len(bad)
        BY <2>3, LenProperties
      <3> QED BY <3>1, <3>2, <3>3
    <2>5. buffer[1] = bad[1] /\ buffer[2] = bad[2] /\ buffer[3] = bad[3] /\ buffer[4] = bad[4]
      BY <2>4
    <2> QED BY <2>1, <2>2, <2>5 DEF LengthOf
  <1> QED BY <1>1, <1>3, <1>6, <1>7

(* read_frame_static between the length and the data: it refuses nothing   *)
(* but bytes that are no frame, and expects the length of the next frame.  *)
LEMMA ReadLengthStep ==
  ASSUME LinkInv, ReadLength
  PROVE  LinkInv'
  <1>1. PICK all, off, m, bad : Linked(all, off, m, bad)
    BY DEF LinkInv
  <1>2. step = "length" /\ AllRead /\ UNCHANGED <<writerVars, pipe, open>>
    BY DEF ReadLength
  <1>3. /\ Len(buffer) = 4 /\ LengthOf(buffer) \in Nat
        /\ Len(received) < m =>
             /\ LengthOf(buffer) = Len(Encode(sent[Len(received) + 1]))
             /\ LengthOf(buffer) <= MaxFrameSize
        /\ Len(received) = m =>
             faulty /\ bad \in NoFrames /\ LengthOf(buffer) = LengthOf(bad)
    BY <1>1, <1>2, LengthRead
  <1>4. /\ Len(received) <= m /\ Len(received) \in Nat /\ m \in Nat
        /\ all \in Seq(Bytes) /\ off \in [0 .. m -> Nat]
    BY <1>1, LinkFacts DEF Linked, Flow, Expects
  <1>5. CASE LengthOf(buffer) > MaxFrameSize
    <2>1. faulty
      BY <1>3, <1>4, <1>5, Bounds
    <2>2. reader' = "refused" /\ UNCHANGED <<step, size, buffer, received>>
      BY <1>5 DEF ReadLength, Refuse
    <2>3. writer' \in {"up", "failed"} /\ UNCHANGED <<sent, faulty, unwritten>>
      BY <1>2 DEF LinkInv, Typed, writerVars
    <2> QED BY <1>2, <2>1, <2>2, <2>3, StateStep
  <1>6. CASE ~(LengthOf(buffer) > MaxFrameSize)
    <2>1. /\ step' = "data" /\ size' = LengthOf(buffer) /\ buffer' = << >>
          /\ UNCHANGED <<reader, received>>
      BY <1>6 DEF ReadLength
    <2>2. off[Len(received)] \in Nat
      BY <1>4
    <2>3. /\ Start(off) = off[Len(received)] /\ Start(off)' = off[Len(received)] + 4
      BY <1>2, <2>1, <2>2 DEF Start
    <2>4. InTransit(all, off)'
      <3>1. /\ Occurs(pipe, all, Start(off) + 4) /\ Occurs(unwritten, all, Len(all) - Len(unwritten))
            /\ open => Start(off) + 4 + Len(pipe) + Len(unwritten) = Len(all)
        BY <1>1, <1>3 DEF Linked, InTransit
      <3>2. Len(pipe) \in Nat /\ Len(all) \in Nat
        BY <1>4, LinkFacts, LenProperties
      <3>3. Occurs(<< >>, all, Start(off) + 4)
        BY <3>1, <3>2 DEF Occurs
      <3>4. Start(off)' = Start(off) + 4 /\ Start(off)' + Len(buffer') = Start(off) + 4
        BY <2>1, <2>2, <2>3
      <3> QED BY <1>2, <2>1, <3>1, <3>3, <3>4 DEF InTransit, writerVars
    <2>5. Flow(all, off, m, bad)'
      BY <1>1, <1>2 DEF Linked, Flow, writerVars
    <2>6. Expects(m, bad)'
      <3>1. CASE Len(received) < m
        BY <1>2, <1>3, <1>4, <2>1, <3>1 DEF Expects, writerVars
      <3>2. CASE Len(received) = m
        <4>1. bad \in NoFrames /\ size' = LengthOf(bad) /\ ~(LengthOf(bad) > MaxFrameSize) /\ faulty
          BY <1>3, <1>6, <2>1, <3>2
        <4>2. Len(bad) >= 4 + size' /\ ~CanDecode(SubSeq(bad, 5, 4 + size'))
          BY <4>1, LinkAssumption DEF NoFrame
        <4>3. bad \in Seq(Bytes) /\ size' \in Nat
          BY <1>3, <2>1, <4>1, LinkAssumption
        <4>4. 4 + size' <= Len(bad)
          BY <4>2, <4>3, LenProperties
        <4> QED BY <1>2, <1>4, <2>1, <3>2, <4>1, <4>2, <4>4 DEF Expects, writerVars
      <3> QED BY <1>4, <3>1, <3>2
    <2>7. Typed'
      <3>1. faulty' \in BOOLEAN /\ open' \in BOOLEAN
        BY <1>2 DEF LinkInv, Typed, writerVars
      <3>2. size' \in 0 .. MaxFrameSize /\ buffer' \in Seq(Bytes) /\ Len(buffer') <= size'
        BY <1>3, <1>6, <2>1, Bounds
      <3> QED BY <1>2, <2>1, <3>1, <3>2 DEF LinkInv, Typed, writerVars
    <2>8. Carried' /\ received' \in Seq(Frame)
      BY <1>2, <2>1 DEF LinkInv, Carried, writerVars
    <2> QED BY <2>4, <2>5, <2>6, <2>7, <2>8 DEF LinkInv, Linked
  <1> QED BY <1>5, <1>6

(* What the reader has read of a frame is the next frame sent, or bytes    *)
(* that `decode` refuses.                                                  *)
LEMMA DataRead ==
  ASSUME LinkInv, step = "data", AllRead,
         NEW all, NEW off, NEW m, NEW bad, Linked(all, off, m, bad)
  PROVE  /\ Len(buffer) = size
         /\ Len(received) < m => buffer = Encode(sent[Len(received) + 1])
         /\ Len(received) = m => faulty /\ ~CanDecode(buffer)
  <1> DEFINE k == Len(received)
             base == off[k]
  <1>1. /\ buffer \in Seq(Bytes) /\ Len(buffer) = size /\ size \in Nat
    <2>1. size \in Nat /\ Len(buffer) \in Nat /\ Len(buffer) <= size /\ Len(buffer) >= size
      BY LinkFacts, Bounds DEF AllRead, LinkInv, Typed
    <2>2. \A n, l \in Nat : n <= l /\ n >= l => n = l
      OBVIOUS
    <2>3. Len(buffer) = size
      BY <2>1, <2>2, Zenon
    <2> QED BY <2>1, <2>3 DEF LinkInv, Typed
  <1>2. /\ all \in Seq(Bytes) /\ m \in 0 .. Len(sent) /\ off \in [0 .. m -> Nat] /\ k <= m
        /\ k \in Nat /\ Len(sent) \in Nat
        /\ \A i \in 1 .. m : Occurs(Wire(sent[i]), all, off[i - 1])
        /\ faulty => bad \in NoFrames /\ Occurs(bad, all, off[m])
    BY LinkFacts DEF Linked, Flow, Expects
  <1>3. Occurs(buffer, all, base + 4)
    BY DEF Linked, InTransit, Start
  <1>4. ASSUME k < m PROVE buffer = Encode(sent[k + 1])
    <2> DEFINE f == sent[k + 1]
               prefix == ToBeBytes32(Len(Encode(f)))
    <2>1. k + 1 \in 1 .. m /\ k + 1 \in 1 .. Len(sent) /\ (k + 1) - 1 = k
      BY <1>2, <1>4
    <2>2. f \in Samples /\ CanEncode(f) /\ Occurs(Wire(f), all, base)
      BY <1>2, <2>1, LinkFacts
    <2>3. Len(buffer) = Len(Encode(f))
      BY <1>1, <1>4 DEF Linked, Expects
    <2> HIDE DEF f, base
    <2>4. /\ prefix \in Seq(Bytes) /\ Len(prefix) = 4 /\ Encode(f) \in Seq(Bytes)
      BY <2>2, WireFacts
    <2>5. Wire(f) = prefix \o Encode(f)
      BY DEF Wire
    <2> HIDE DEF prefix
    <2>6. Occurs(Encode(f), all, base + Len(prefix))
      BY <1>2, <2>2, <2>4, <2>5, OccursParts
    <2>7. buffer = Encode(f)
      BY <1>1, <1>3, <2>3, <2>4, <2>6, OccursSame
    <2> QED BY <2>7 DEF f
  <1>5. ASSUME k = m PROVE faulty /\ ~CanDecode(buffer)
    <2> DEFINE slice == SubSeq(bad, 4 + 1, 4 + size)
    <2>1. faulty /\ 4 + size <= Len(bad) /\ ~CanDecode(slice)
      BY <1>5 DEF Linked, Expects
    <2>2. bad \in Seq(Bytes) /\ Occurs(bad, all, base)
      BY <1>2, <1>5, <2>1, LinkAssumption
    <2> HIDE DEF base
    <2>3. slice \in Seq(Bytes) /\ Len(slice) = size /\ Occurs(slice, all, base + 4)
      BY <1>1, <1>2, <2>1, <2>2, OccursSlice
    <2> HIDE DEF slice
    <2>4. buffer = slice
      BY <1>1, <1>3, <2>3, OccursSame
    <2> QED BY <2>1, <2>4
  <1> QED BY <1>1, <1>4, <1>5

(* read_frame_static after the data: the frame it returns is the next one  *)
(* sent, and the reader is where the one after it begins.                  *)
LEMMA ReadDataStep ==
  ASSUME LinkInv, ReadData
  PROVE  LinkInv'
  <1>1. PICK all, off, m, bad : Linked(all, off, m, bad)
    BY DEF LinkInv
  <1> DEFINE k == Len(received)
  <1>2. step = "data" /\ AllRead /\ UNCHANGED <<writerVars, pipe, open>>
    BY DEF ReadData
  <1>3. /\ Len(buffer) = size
        /\ k < m => buffer = Encode(sent[k + 1])
        /\ k = m => faulty /\ ~CanDecode(buffer)
    BY <1>1, <1>2, DataRead
  <1>4. /\ k <= m /\ k \in Nat /\ m \in Nat /\ m <= Len(sent) /\ Len(sent) \in Nat
        /\ off \in [0 .. m -> Nat]
        /\ \A i \in 1 .. m : off[i] = off[i - 1] + 4 + Len(Encode(sent[i]))
    BY <1>1, LinkFacts DEF Linked, Flow, Expects
  <1>5. CASE k = m
    <2>1. reader' = "refused" /\ UNCHANGED <<step, size, buffer, received>> /\ faulty
      BY <1>3, <1>5 DEF ReadData, Refuse
    <2>2. writer' \in {"up", "failed"} /\ UNCHANGED <<sent, faulty, unwritten>>
      BY <1>2 DEF LinkInv, Typed, writerVars
    <2> QED BY <1>2, <2>1, <2>2, StateStep
  <1>6. CASE k < m
    <2> DEFINE f == sent[k + 1]
    <2>1. k + 1 \in 1 .. m /\ k + 1 \in 1 .. Len(sent) /\ (k + 1) - 1 = k
      BY <1>4, <1>6
    <2>2. f \in Samples /\ f \in Frame
      BY <2>1, LinkFacts, LinkAssumption
    <2>3. CanDecode(buffer) /\ Decode(buffer) = Seen(f) /\ Seen(f) \in Frame
      BY <1>3, <1>6, <2>2, DecodeEncode, SeenTwice
    <2>4. /\ received' = Append(received, Seen(f)) /\ step' = "length" /\ size' = 4
          /\ buffer' = << >> /\ reader' = reader
      BY <2>3 DEF ReadData
    <2> HIDE DEF f
    <2>5. /\ received' \in Seq(Frame) /\ Len(received') = k + 1 /\ received'[k + 1] = Seen(f)
          /\ \A i \in 1 .. k : received'[i] = received[i]
      <3>1. received \in Seq(Frame)
        BY DEF LinkInv
      <3> HIDE DEF Frame
      <3> QED BY <2>3, <2>4, <3>1
    <2>6. /\ off[k] \in Nat /\ off[k + 1] \in Nat /\ off[k + 1] = off[k] + 4 + size
      <3>1. off[k + 1] = off[k] + 4 + Len(Encode(f))
        BY <1>4, <2>1 DEF f
      <3>2. Len(Encode(f)) = size
        BY <1>3, <1>6 DEF f
      <3> QED BY <1>4, <1>6, <2>1, <3>1, <3>2
    <2>7. size \in Nat
      BY Bounds DEF LinkInv, Typed
    <2>8. InTransit(all, off)'
      <3>1. Start(off) = off[k] + 4 /\ Start(off)' = off[k + 1]
        BY <1>2, <2>4, <2>5, <2>6 DEF Start
      <3>2. /\ Occurs(pipe, all, Start(off) + size) /\ all \in Seq(Bytes)
            /\ Occurs(unwritten, all, Len(all) - Len(unwritten))
            /\ open => Start(off) + size + Len(pipe) + Len(unwritten) = Len(all)
        BY <1>1, <1>3 DEF Linked, InTransit, Flow
      <3>3. Len(pipe) \in Nat /\ Len(all) \in Nat
        BY <3>2, LinkFacts, LenProperties
      <3>4. Start(off)' = Start(off) + size /\ Start(off)' + Len(buffer') = Start(off) + size
        BY <2>4, <2>6, <2>7, <3>1
      <3>5. Occurs(<< >>, all, Start(off) + size)
        BY <3>2, <3>3 DEF Occurs
      <3>6. open => Start(off)' + Len(buffer') + Len(pipe) + Len(unwritten) = Len(all)
        BY <3>2, <3>4
      <3> QED BY <1>2, <2>4, <3>2, <3>4, <3>5, <3>6 DEF InTransit, writerVars
    <2>9. Flow(all, off, m, bad)'
      BY <1>1, <1>2 DEF Linked, Flow, writerVars
    <2>10. Expects(m, bad)'
      BY <1>4, <1>6, <2>1, <2>4, <2>5 DEF Expects
    <2>11. Typed'
      <3>1. faulty' \in BOOLEAN /\ open' \in BOOLEAN
        BY <1>2 DEF LinkInv, Typed, writerVars
      <3>2. /\ size' \in 0 .. MaxFrameSize /\ buffer' \in Seq(Bytes) /\ Len(buffer') <= size'
            /\ Len(received') <= Len(sent)
        BY <2>1, <2>4, <2>5, Bounds
      <3> QED BY <1>2, <2>4, <3>1, <3>2 DEF LinkInv, Typed, writerVars
    <2>12. Carried'
      <3>1. ASSUME NEW i \in 1 .. k + 1 PROVE received'[i] = Seen(sent[i])
        <4>1. CASE i \in 1 .. k
          BY <2>5, <4>1 DEF LinkInv, Carried
        <4>2. CASE i = k + 1
          BY <2>5, <4>2 DEF f
        <4> QED BY <1>4, <4>1, <4>2
      <3> QED BY <1>2, <2>4, <2>5, <3>1 DEF LinkInv, Carried, writerVars
    <2> QED BY <2>5, <2>8, <2>9, <2>10, <2>11, <2>12 DEF LinkInv, Linked
  <1> QED BY <1>4, <1>5, <1>6

(* Every step keeps the invariant.                                         *)
LEMMA LinkNext == LinkInv /\ [Next]_vars => LinkInv'
  <1> SUFFICES ASSUME LinkInv, [Next]_vars PROVE LinkInv'
    OBVIOUS
  <1>1. /\ writer \in {"up", "failed"} /\ reader \in {"up", "refused", "broken"}
        /\ reader = "refused" => faulty
    BY DEF LinkInv, Typed, Carried
  <1>2. ASSUME NEW f \in Samples, WriteFrame(f) PROVE LinkInv'
    BY <1>2, WriteFrameStep
  <1>3. ASSUME NEW f \in Samples, EncodeFails(f) PROVE LinkInv'
    BY <1>1, <1>3, StateStep DEF EncodeFails, readerVars
  <1>4. ASSUME NEW bytes \in NoFrames, WriteNoFrame(bytes) PROVE LinkInv'
    BY <1>4, WriteNoFrameStep
  <1>5. CASE Write
    BY <1>5, WriteAllStep DEF Write
  <1>6. CASE WriteFails
    BY <1>1, <1>6, StateStep DEF WriteFails, readerVars
  <1>7. CASE Read
    BY <1>7, ReadExactStep, ReadLengthStep, ReadDataStep DEF Read
  <1>8. CASE ReadFails \/ ReadNothing
    BY <1>1, <1>8, StateStep DEF ReadFails, ReadNothing, writerVars
  <1>9. CASE Disconnect
    BY <1>9, DisconnectStep
  <1>10. CASE ReadBegins \/ ReadEnds \/ UNCHANGED vars
    BY <1>1, <1>10, StateStep DEF ReadBegins, ReadEnds, vars, writerVars, readerVars
  <1> QED BY <1>2, <1>3, <1>4, <1>5, <1>6, <1>7, <1>8, <1>9, <1>10 DEF Next

(* The invariant implies what the run checks.                              *)
LEMMA LinkImplies == LinkInv => Typed /\ FramesIntact
  <1> SUFFICES ASSUME LinkInv PROVE Typed /\ FramesIntact
    OBVIOUS
  <1> DEFINE seen == [i \in DOMAIN sent |-> Seen(sent[i])]
  <1>1. /\ Typed /\ sent \in Seq(Samples) /\ received \in Seq(Frame)
        /\ Len(received) <= Len(sent)
        /\ \A i \in 1 .. Len(received) : received[i] = Seen(sent[i])
        /\ reader = "refused" => faulty
    BY DEF LinkInv, Typed, Carried
  <1>2. /\ Len(sent) \in Nat /\ Len(received) \in Nat /\ DOMAIN sent = 1 .. Len(sent)
        /\ DOMAIN received = 1 .. Len(received)
    BY <1>1, LenProperties
  <1>3. \A i \in 1 .. Len(sent) : sent[i] \in Frame
    BY <1>1, LinkAssumption, ElementOfSeq
  <1>4. \A i \in 1 .. Len(sent) : Seen(sent[i]) \in Frame /\ Seen(Seen(sent[i])) = sent[i]
    BY <1>3, SeenTwice
  <1>5. \A i \in 1 .. Len(received) : i \in 1 .. Len(sent)
    BY <1>1, <1>2
  <1>6. \A i \in DOMAIN received : Seen(received[i]) = sent[i]
    BY <1>1, <1>2, <1>4, <1>5
  <1>7. IsPrefix(received, seen)
    <2>1. /\ seen \in Seq(Frame) /\ Len(seen) = Len(sent)
          /\ \A i \in 1 .. Len(sent) : seen[i] = Seen(sent[i])
      BY <1>2, <1>4
    <2> HIDE DEF seen, Frame
    <2>2. SubSeq(received, 1, Len(received)) = received
      BY <1>1, SubSeqFull
    <2>3. SubSeq(seen, 1, Len(received)) \in Seq(Frame)
          /\ Len(SubSeq(seen, 1, Len(received))) = Len(received)
          /\ \A i \in 1 .. Len(received) : SubSeq(seen, 1, Len(received))[i] = seen[i]
      BY <1>1, <1>2, <2>1
    <2>4. received = SubSeq(seen, 1, Len(received))
      BY <1>1, <1>5, <2>1, <2>3, SeqEqual
    <2> QED BY <1>1, <2>1, <2>2, <2>4 DEF IsPrefix
  <1> QED BY <1>1, <1>6, <1>7 DEF FramesIntact

(* For any frames, sizes and faulty bytes: every variable of the link has  *)
(* its type, read_exact never reads more than it was asked for, and no     *)
(* more frames are received than were sent.                                *)
THEOREM TypeCorrect == Spec => []TypeOK
  <1>1. LinkInv /\ busy \in BOOLEAN => TypeOK
    BY LinkImplies DEF Typed, TypeOK
  <1>2. Init => busy \in BOOLEAN
    BY Zenon DEF Init
  <1>3. busy \in BOOLEAN /\ [Next]_vars => (busy \in BOOLEAN)'
    <2> SUFFICES ASSUME busy \in BOOLEAN, [Next]_vars PROVE busy' \in BOOLEAN
      OBVIOUS
    <2>1. busy' = busy \/ busy' = TRUE \/ busy' = FALSE
      BY DEF Next, WriteFrame, EncodeFails, WriteNoFrame, Write, WriteAll, WriteFails, Read,
         ReadExact, ReadLength, ReadData, ReadFails, ReadNothing, ReadBegins, ReadEnds, Disconnect,
         vars
    <2> QED BY <2>1, Zenon
  <1> QED BY <1>1, <1>2, <1>3, LinkInit, LinkNext, PTL DEF Spec

(* For any frames, any faulty bytes that are no frame, any size of the     *)
(* pipe and any way of cutting the bytes up: the frames received are the   *)
(* first of those sent, with their three numbers in the opposite byte      *)
(* order, and the reader refuses nothing that `encode` accepts.            *)
THEOREM FramesStayIntact == Spec => []FramesIntact
  <1>1. LinkInv => FramesIntact
    BY LinkImplies
  <1> QED BY <1>1, LinkInit, LinkNext, PTL DEF Spec

=============================================================================
