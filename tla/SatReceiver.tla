---------------------------- MODULE SatReceiver -----------------------------
(***************************************************************************)
(* The serial link of the satellite display: frames that the host feeder   *)
(* builds (satellite/host/src/sat_encoder.c) and the byte machine of the   *)
(* firmware that finds them in the stream (firmware/main/sat_receiver.c).  *)
(*                                                                         *)
(* The stream may lose a byte, carry a foreign one, and the display may be *)
(* reset in the middle of a frame.  s_frame_buf and s_frame_pos are one    *)
(* sequence: the position is its length, and the receiver never reads a    *)
(* byte of the buffer beyond it.                                           *)
(***************************************************************************)
EXTENDS Integers, Sequences

CONSTANTS
  MaxFrame,      \* SAT_MAX_FRAME_SIZE, length of s_frame_buf
  SeqWrap,       \* sequence numbers wrap here (2^16)
  MsgType,       \* the message type of each sequence number
  Payload,       \* the payload of each sequence number
  Crc(_),        \* sat_crc16 of some bytes, as its two bytes, low one first
  NoiseBytes,    \* bytes that may appear in the stream out of nowhere
  MaxFaults      \* bytes lost or inserted, and resets

Byte      == 0 .. 255
Word      == 0 .. 65535
HeaderLen == 8
CrcLen    == 2
Magic     == <<77, 78>>       \* 0x4E4D, low byte first
Version   == 1
SNAPSHOT  == 1
SeqNum    == 0 .. SeqWrap - 1
None      == -1               \* nothing received yet

ASSUME SatAssumption ==
  /\ MaxFrame \in Nat /\ MaxFrame >= HeaderLen + CrcLen
  /\ SeqWrap \in Nat \ {0} /\ SeqNum \subseteq Word
  /\ MsgType \in [SeqNum -> Byte]
  /\ Payload \in [SeqNum -> Seq(Byte)]
  /\ NoiseBytes \subseteq Byte /\ MaxFaults \in Nat

\* build_frame refuses a frame longer than the buffer, so none is sent.
ASSUME FramesFit ==
  \A s \in SeqNum : Len(Payload[s]) <= MaxFrame - HeaderLen - CrcLen
                    /\ Len(Payload[s]) \in Word

-----------------------------------------------------------------------------
(***************************************************************************)
(* Frames.                                                                 *)
(***************************************************************************)
LowByte(n)  == n % 256
HighByte(n) == n \div 256
WordOf(low, high) == low + 256 * high

\* Header and payload of a frame, the part its checksum covers.
Covered(s) ==
  LET len == Len(Payload[s])
  IN  <<Magic[1], Magic[2], Version, MsgType[s],
        LowByte(len), HighByte(len), LowByte(s), HighByte(s)>> \o Payload[s]

\* A checksum has two bytes.
ASSUME CrcAssumption ==
  \A s \in SeqNum : Crc(Covered(s)) \in Seq(Byte) /\ Len(Crc(Covered(s))) = CrcLen

build_frame(s) == Covered(s) \o Crc(Covered(s))

\* The fields of s_header, read from the bytes of a received header.
VersionOf(buf)    == buf[3]
TypeOf(buf)       == buf[4]
PayloadLenOf(buf) == WordOf(buf[5], buf[6])
SequenceOf(buf)   == WordOf(buf[7], buf[8])

-----------------------------------------------------------------------------
VARIABLES
  (* The sender and the wire. *)
  sending,      \* sequence number of the frame on the wire
  frame,        \* its bytes, the feeder's frame_buf
  sent,         \* how many of them have left the wire
  faults,       \* faults so far
  (* The receiver. *)
  state,        \* s_state
  frame_buf,    \* the bytes of s_frame_buf below s_frame_pos
  last_seq,     \* s_data.last_seq of the frame last accepted
  shown,        \* the payload of the snapshot last applied
  (* History, for the properties only: *)
  clean         \* the frame on the wire met an idle receiver and no fault

wire     == <<sending, frame, sent, faults, clean>>
receiver == <<state, frame_buf, last_seq, shown>>
vars     == <<wire, receiver>>

Init ==
  /\ sending = SeqWrap - 1 /\ frame = << >> /\ sent = 0 /\ faults = 0 /\ clean = FALSE
  /\ state = "SYNC" /\ frame_buf = << >> /\ last_seq = None /\ shown = << >>

-----------------------------------------------------------------------------
(***************************************************************************)
(* feed_byte, one disjunct per state of the receiver.                      *)
(***************************************************************************)
\* Mutant: the second magic byte is taken for a start on its own.
SyncOnSecond(b) ==
  /\ state = "SYNC"
  /\ \/ /\ b = Magic[2]
        /\ frame_buf' = Append(frame_buf, b) /\ state' = "HEADER"
     \/ /\ b # Magic[2]
        /\ frame_buf' = IF b = Magic[1] THEN <<b>> ELSE << >>
        /\ UNCHANGED state
  /\ UNCHANGED <<last_seq, shown>>

SyncByte(b) ==
  /\ state = "SYNC"
  /\ \/ /\ frame_buf = << >> /\ b = Magic[1]
        /\ frame_buf' = <<b>> /\ UNCHANGED state
     \/ /\ Len(frame_buf) = 1 /\ b = Magic[2]
        /\ frame_buf' = Append(frame_buf, b) /\ state' = "HEADER"
     \/ /\ ~(frame_buf = << >> /\ b = Magic[1])
        /\ ~(Len(frame_buf) = 1 /\ b = Magic[2])
        /\ frame_buf' = << >> /\ UNCHANGED state
  /\ UNCHANGED <<last_seq, shown>>

\* Mutant: room for the payload is checked without the checksum.
TooLongForPayload(buf) == PayloadLenOf(buf) > MaxFrame - HeaderLen

\* A payload that does not fit into the buffer with header and checksum.
TooLong(buf) == PayloadLenOf(buf) > MaxFrame - HeaderLen - CrcLen

\* Mutant: a bad header does not send the receiver back to SYNC.
HeaderSticks(b) ==
  LET buf == Append(frame_buf, b)
  IN  /\ state = "HEADER"
      /\ \/ /\ Len(buf) < HeaderLen
            /\ frame_buf' = buf /\ UNCHANGED state
         \/ /\ Len(buf) >= HeaderLen
            /\ VersionOf(buf) # Version \/ TooLong(buf)
            /\ UNCHANGED <<frame_buf, state>>
         \/ /\ Len(buf) >= HeaderLen
            /\ VersionOf(buf) = Version /\ ~TooLong(buf)
            /\ frame_buf' = buf
            /\ state' = IF PayloadLenOf(buf) = 0 THEN "CRC" ELSE "PAYLOAD"
      /\ UNCHANGED <<last_seq, shown>>

HeaderByte(b) ==
  LET buf == Append(frame_buf, b)
  IN  /\ state = "HEADER"
      /\ \/ /\ Len(buf) < HeaderLen
            /\ frame_buf' = buf /\ UNCHANGED state
         \/ /\ Len(buf) >= HeaderLen
            /\ VersionOf(buf) # Version \/ TooLong(buf)
            /\ frame_buf' = << >> /\ state' = "SYNC"
         \/ /\ Len(buf) >= HeaderLen
            /\ VersionOf(buf) = Version /\ ~TooLong(buf)
            /\ frame_buf' = buf
            /\ state' = IF PayloadLenOf(buf) = 0 THEN "CRC" ELSE "PAYLOAD"
      /\ UNCHANGED <<last_seq, shown>>

PayloadByte(b) ==
  LET buf == Append(frame_buf, b)
  IN  /\ state = "PAYLOAD"
      /\ frame_buf' = buf
      /\ state' = IF Len(buf) >= HeaderLen + PayloadLenOf(buf) THEN "CRC" ELSE state
      /\ UNCHANGED <<last_seq, shown>>

\* Mutant: a frame is accepted whatever its checksum.
AnyCrc(buf) == TRUE

\* Mutant: the two bytes of the checksum are swapped.
CrcSwapped(buf) ==
  LET n == HeaderLen + PayloadLenOf(buf)
  IN  <<buf[n + 2], buf[n + 1]>> = Crc(SubSeq(buf, 1, n))

\* The checksum a frame carries is that of the bytes before it.
CrcMatches(buf) ==
  LET n == HeaderLen + PayloadLenOf(buf)
  IN  SubSeq(buf, n + 1, n + CrcLen) = Crc(SubSeq(buf, 1, n))

\* process_frame: every frame with a correct checksum counts as a sign of
\* life; only a snapshot changes what is shown.
process_frame(buf) ==
  IF CrcMatches(buf)
    THEN /\ last_seq' = SequenceOf(buf)
         /\ shown' = IF TypeOf(buf) = SNAPSHOT
                       THEN SubSeq(buf, HeaderLen + 1, HeaderLen + PayloadLenOf(buf))
                       ELSE shown
    ELSE UNCHANGED <<last_seq, shown>>

CrcByte(b) ==
  LET buf == Append(frame_buf, b)
  IN  /\ state = "CRC"
      /\ \/ /\ Len(buf) < HeaderLen + PayloadLenOf(buf) + CrcLen
            /\ frame_buf' = buf
            /\ UNCHANGED <<state, last_seq, shown>>
         \/ /\ Len(buf) >= HeaderLen + PayloadLenOf(buf) + CrcLen
            /\ process_frame(buf)
            /\ frame_buf' = << >> /\ state' = "SYNC"

feed_byte(b) == SyncByte(b) \/ HeaderByte(b) \/ PayloadByte(b) \/ CrcByte(b)

-----------------------------------------------------------------------------
(***************************************************************************)
(* The wire.                                                               *)
(***************************************************************************)
Idle == state = "SYNC" /\ frame_buf = << >>

\* The feeder writes the next frame once the last one has left.
Send ==
  /\ sent = Len(frame)
  /\ sending' = (sending + 1) % SeqWrap
  /\ frame' = build_frame(sending') /\ sent' = 0
  /\ clean' = Idle
  /\ UNCHANGED <<faults, receiver>>

Deliver ==
  /\ sent < Len(frame)
  /\ feed_byte(frame[sent + 1])
  /\ sent' = sent + 1
  /\ UNCHANGED <<sending, frame, faults, clean>>

Fault == faults < MaxFaults /\ faults' = faults + 1 /\ clean' = FALSE

Lose ==
  /\ sent < Len(frame) /\ sent' = sent + 1
  /\ Fault
  /\ UNCHANGED <<sending, frame, receiver>>

Noise(b) == feed_byte(b) /\ Fault /\ UNCHANGED <<sending, frame, sent>>

\* The display is reset: sat_receiver_init, with zeroed data.
sat_receiver_init ==
  /\ state' = "SYNC" /\ frame_buf' = << >> /\ last_seq' = None /\ shown' = << >>
  /\ Fault
  /\ UNCHANGED <<sending, frame, sent>>

Next == Send \/ Deliver \/ Lose \/ (\E b \in NoiseBytes : Noise(b)) \/ sat_receiver_init

\* The feeder keeps sending and the receiver task keeps reading.  One of the
\* two is always possible, and never both.
Spec == Init /\ [][Next]_vars /\ WF_vars(Send \/ Deliver)

-----------------------------------------------------------------------------
(***************************************************************************)
(* Properties.                                                             *)
(***************************************************************************)
\* Where the receiver is in a frame: how many bytes it holds, and that the
\* header behind PAYLOAD and CRC passed its checks.
StageMatchesBuffer ==
  LET len == Len(frame_buf)
      n   == HeaderLen + PayloadLenOf(frame_buf)
  IN  /\ state = "SYNC"    => len < 2
      /\ state = "HEADER"  => len \in 2 .. HeaderLen - 1
      /\ state = "PAYLOAD" => HeaderLen <= len /\ len < n /\ n + CrcLen <= MaxFrame
      /\ state = "CRC"     => /\ HeaderLen <= len /\ n <= len /\ len < n + CrcLen
                              /\ n + CrcLen <= MaxFrame

TypeOK ==
  /\ sending \in SeqNum /\ frame \in Seq(Byte) /\ sent \in 0 .. Len(frame)
  /\ faults \in 0 .. MaxFaults /\ clean \in BOOLEAN
  /\ state \in {"SYNC", "HEADER", "PAYLOAD", "CRC"}
  /\ frame_buf \in Seq(Byte)
  /\ last_seq \in Nat \cup {None} /\ shown \in Seq(Byte)
  /\ StageMatchesBuffer

\* Whatever bytes arrive, the next one is stored inside s_frame_buf: the
\* check of payload_len in the header leaves room for the checksum.
StaysInBuffer == Len(frame_buf) < MaxFrame

\* A frame that meets an idle receiver and no fault is accepted with its
\* last byte, whatever came before it and whatever its payload looks like.
CleanFrameIsAccepted ==
  clean /\ sent = Len(frame) =>
    /\ Idle
    /\ last_seq = sending
    /\ MsgType[sending] = SNAPSHOT => shown = Payload[sending]

\* What is shown is a snapshot that was sent, never a splice of two frames or
\* a shortened one.  The checksum makes this likely, not certain: it holds
\* for the frames of the instance and lost bytes, and fails for some foreign
\* byte that happens to match it.
NothingInvented ==
  \/ shown = << >>
  \/ \E s \in SeqNum : MsgType[s] = SNAPSHOT /\ shown = Payload[s]

\* After the last fault the receiver falls back into step: again and again
\* a whole frame is accepted, even when payloads contain the magic bytes.
Resynchronises == []<>(clean /\ sent = Len(frame))
=============================================================================
