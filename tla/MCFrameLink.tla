---------------------------- MODULE MCFrameLink -----------------------------
(***************************************************************************)
(* Frames and faults for TLC.  TLC's integers have 32 bits with a sign, so *)
(* the first and the last byte of every u32 are below 128.                 *)
(***************************************************************************)
EXTENDS FrameLink

SampleFrame(type, stream, flags, job, seq, payload) ==
  [frame_type |-> type, stream_id |-> stream, flags |-> flags, job_id |-> job,
   sequence_number |-> seq, payload |-> payload]

(* The second has four different bytes in job_id, the last is too long.    *)
SampleFrames ==
  {SampleFrame("Output", "Stdout", 0, 1, 258, <<255>>),
   SampleFrame("Output", "Stderr", 1, 16909060, 65407, << >>),
   SampleFrame("Pong", "Control", 0, 0, 0, <<1, 2>>)}

(* A length that is too small, one that is too large (12 in little-endian  *)
(* order), a type and a stream that do not exist.                          *)
FaultyBytes ==
  {<<0, 0, 0, 0>>, <<12, 0, 0, 0>>,
   <<0, 0, 0, 12, 3, 0, 0, 0, 0, 0, 0, 0, 0, 0, 0, 0>>,
   <<0, 0, 0, 12, 1, 4, 0, 0, 0, 0, 0, 0, 0, 0, 0, 0>>}

=============================================================================
