------------------------------ MODULE Protocol ------------------------------
(***************************************************************************)
(* src/protocol.rs: frames and their form on the wire.                     *)
(*                                                                         *)
(* A byte is a number below 256, a u16 or u32 the number itself, a payload *)
(* a sequence of bytes.  The sizes are parameters.                         *)
(***************************************************************************)
EXTENDS Integers, Sequences

CONSTANTS
  MaxPayloadSize,  \* MAX_PAYLOAD_SIZE
  MaxFrameSize     \* MAX_FRAME_SIZE, and the limit of read_frame_static

Bytes == 0 .. 255
HeaderSize == 1 + 1 + 2 + 4 + 4

(* The discriminants of FrameType and StreamId: `as u8`.                   *)
FrameType ==
  [Hello |-> 1, HelloAck |-> 2, Run |-> 16, RunAck |-> 17, Output |-> 32,
   Status |-> 48, Exit |-> 64, Cancel |-> 80, CancelAck |-> 81,
   WindowUpdate |-> 96, Error |-> 240, Ping |-> 254, Pong |-> 255,
   Goodbye |-> 253]
StreamId == [Control |-> 0, Stdout |-> 1, Stderr |-> 2, Stdin |-> 3]

(* TryFrom<u8>, whose arms list the same bytes: the name of a              *)
(* discriminant; other bytes have none.                                    *)
Known(enum, byte) == \E name \in DOMAIN enum : enum[name] = byte
TryFrom(enum, byte) == CHOOSE name \in DOMAIN enum : enum[name] = byte

-----------------------------------------------------------------------------
(* Integers of several bytes                                               *)

(* The lowest byte of a number, and the bytes above it.                    *)
Low(v) == v % 256
High(v) == v \div 256

U16 == {v \in Nat : High(v) < 256}
U32 == {v \in Nat : High(High(High(v))) < 256}

(* put_u16, put_u32 and to_be_bytes: the most significant byte first.      *)
ToBeBytes16(v) == <<High(v), Low(v)>>
ToBeBytes32(v) == <<High(High(High(v))), Low(High(High(v))), Low(High(v)), Low(v)>>

FromBeBytes16(a, b) == 256 * a + b
FromBeBytes32(a, b, c, d) == 256 * (256 * (256 * a + b) + c) + d

(* `to_be` on a little-endian machine, the only kind Windows runs on: the  *)
(* bytes in the opposite order.                                            *)
ToBe16(v) == FromBeBytes16(Low(v), High(v))
ToBe32(v) ==
  FromBeBytes32(Low(v), Low(High(v)), Low(High(High(v))), High(High(High(v))))

-----------------------------------------------------------------------------
(* Frame, Frame::encode and Frame::decode                                  *)

(* The decoder's and the reader's limits leave room for a header, and a    *)
(* length prefix can say the largest size.                                 *)
ASSUME SizesAssumption ==
  MaxPayloadSize \in Nat /\ MaxFrameSize \in U32 /\ MaxFrameSize >= HeaderSize

Frame ==
  [frame_type : DOMAIN FrameType, stream_id : DOMAIN StreamId, flags : U16,
   job_id : U32, sequence_number : U32, payload : Seq(Bytes)]

CanEncode(f) ==
  /\ Len(f.payload) <= MaxPayloadSize
  /\ HeaderSize + Len(f.payload) <= MaxFrameSize

(* A bug: the conversion of the sequence number is missing.                *)
EncodeUnswapped(f) ==
  <<FrameType[f.frame_type], StreamId[f.stream_id]>>
    \o ToBeBytes16(ToBe16(f.flags)) \o ToBeBytes32(ToBe32(f.job_id))
    \o ToBeBytes32(f.sequence_number) \o f.payload

(* The fields are converted twice: to_be, and the put that writes the most *)
(* significant byte first.                                                 *)
Encode(f) ==
  <<FrameType[f.frame_type], StreamId[f.stream_id]>>
    \o ToBeBytes16(ToBe16(f.flags)) \o ToBeBytes32(ToBe32(f.job_id))
    \o ToBeBytes32(ToBe32(f.sequence_number)) \o f.payload

CanDecode(data) ==
  Len(data) >= HeaderSize /\ Known(FrameType, data[1]) /\ Known(StreamId, data[2])

(* Here once only: from_be_bytes.                                          *)
Decode(data) ==
  [frame_type |-> TryFrom(FrameType, data[1]),
   stream_id |-> TryFrom(StreamId, data[2]),
   flags |-> FromBeBytes16(data[3], data[4]),
   job_id |-> FromBeBytes32(data[5], data[6], data[7], data[8]),
   sequence_number |-> FromBeBytes32(data[9], data[10], data[11], data[12]),
   payload |-> SubSeq(data, HeaderSize + 1, Len(data))]

=============================================================================
