-------------------------- MODULE SatReceiverProofs -------------------------
(***************************************************************************)
(* Theorems about the satellite receiver, for every buffer size, every     *)
(* payload that fits it, every checksum function and any faults.           *)
(***************************************************************************)
EXTENDS SatReceiver, SequenceTheorems, TLAPS

\* Words are the natural numbers of sixteen bits.
LEMMA WordRange == Word \subseteq {n \in Nat : n < 65536}
BY DEF Word

\* A sixteen-bit word is two bytes, and reading them gives the word back.
LEMMA WordShape ==
  ASSUME NEW n \in Word
  PROVE  /\ LowByte(n) \in Byte /\ HighByte(n) \in Byte
         /\ WordOf(LowByte(n), HighByte(n)) = n
<1>1. n \in Nat /\ n < 65536
  BY WordRange
<1> DEFINE low == n % 256  high == n \div 256
<1>2. low \in 0 .. 255
  BY <1>1
<1>3. high \in Nat
  BY <1>1, SMTT(30)
<1>4. n = 256 * high + low
  BY <1>1, SMTT(30)
<1> HIDE DEF low, high
<1>5. high < 256
  BY <1>1, <1>2, <1>3, <1>4
<1>6. QED
  BY <1>2, <1>3, <1>4, <1>5 DEF Byte, LowByte, HighByte, WordOf, low, high

\* Two bytes make a natural number.
LEMMA WordType ==
  ASSUME NEW low \in Byte, NEW high \in Byte
  PROVE  WordOf(low, high) \in Nat
BY DEF Byte, WordOf

\* The header of a frame byte by byte, and where payload and checksum lie.
LEMMA FrameShape ==
  ASSUME NEW s \in SeqNum
  PROVE  LET f == build_frame(s)
             n == Len(Payload[s])
         IN  /\ f \in Seq(Byte) /\ n \in Nat
             /\ Len(f) = HeaderLen + n + CrcLen
             /\ Len(f) <= MaxFrame
             /\ f[1] = Magic[1] /\ f[2] = Magic[2] /\ VersionOf(f) = Version
             /\ TypeOf(f) = MsgType[s]
             /\ PayloadLenOf(f) = n
             /\ SequenceOf(f) = s
             /\ SubSeq(f, HeaderLen + 1, HeaderLen + n) = Payload[s]
             /\ SubSeq(f, 1, HeaderLen + n) = Covered(s)
             /\ SubSeq(f, HeaderLen + n + 1, HeaderLen + n + CrcLen) = Crc(Covered(s))
<1> DEFINE p == Payload[s]
           n == Len(p)
           h == <<Magic[1], Magic[2], Version, MsgType[s],
                  LowByte(n), HighByte(n), LowByte(s), HighByte(s)>>
           k == Crc(Covered(s))
           f == build_frame(s)
<1>1. /\ p \in Seq(Byte) /\ n \in Word /\ n \in Nat
      /\ n <= MaxFrame - HeaderLen - CrcLen /\ MaxFrame \in Nat
  BY SatAssumption, FramesFit, WordRange
<1>2. s \in Word /\ MsgType[s] \in Byte
  BY SatAssumption
<1>3. h \in Seq(Byte) /\ Len(h) = 8
  <2>1. Magic[1] \in Byte /\ Magic[2] \in Byte /\ Version \in Byte
    BY DEF Magic, Version, Byte
  <2>2. /\ LowByte(n) \in Byte /\ HighByte(n) \in Byte
        /\ LowByte(s) \in Byte /\ HighByte(s) \in Byte
    BY <1>1, <1>2, WordShape
  <2>3. QED
    BY <1>2, <2>1, <2>2
<1>4. Covered(s) = h \o p
  BY DEF Covered
<1>5. k \in Seq(Byte) /\ Len(k) = 2
  BY CrcAssumption DEF CrcLen
<1>6. f = (h \o p) \o k
  BY <1>4 DEF build_frame
<1>7. /\ h[1] = Magic[1] /\ h[2] = Magic[2] /\ h[3] = Version /\ h[4] = MsgType[s]
      /\ h[5] = LowByte(n) /\ h[6] = HighByte(n)
      /\ h[7] = LowByte(s) /\ h[8] = HighByte(s)
  OBVIOUS
<1> HIDE DEF h, k, p, f
<1>8. /\ h \o p \in Seq(Byte) /\ Len(h \o p) = 8 + n
      /\ \A i \in 1 .. 8 + n : (h \o p)[i] = IF i <= 8 THEN h[i] ELSE p[i - 8]
  <2>1. /\ h \o p \in Seq(Byte) /\ Len(h \o p) = Len(h) + Len(p)
        /\ \A i \in 1 .. Len(h) + Len(p) :
             (h \o p)[i] = IF i <= Len(h) THEN h[i] ELSE p[i - Len(h)]
    BY <1>1, <1>3, ConcatProperties
  <2>2. QED
    BY <1>3, <2>1
<1> DEFINE c == h \o p
<1> HIDE DEF c
<1>9. /\ f \in Seq(Byte) /\ Len(f) = 10 + n
      /\ \A i \in 1 .. 10 + n : f[i] = IF i <= 8 + n THEN c[i] ELSE k[i - (8 + n)]
  <2> c \in Seq(Byte)
    BY <1>8 DEF c
  <2>1. /\ c \o k \in Seq(Byte) /\ Len(c \o k) = Len(c) + Len(k)
        /\ \A i \in 1 .. Len(c) + Len(k) :
             (c \o k)[i] = IF i <= Len(c) THEN c[i] ELSE k[i - Len(c)]
    BY <1>5, ConcatProperties
  <2>2. Len(c) = 8 + n /\ f = c \o k
    BY <1>6, <1>8 DEF c
  <2>3. QED
    BY <1>1, <1>5, <2>1, <2>2
<1>10. /\ \A i \in 1 .. 8 : f[i] = h[i]
       /\ \A i \in 1 .. n : f[i + 8] = p[i]
       /\ \A i \in 1 .. 2 : f[i + 8 + n] = k[i]
  <2>1. \A i \in 1 .. 8 + n : f[i] = IF i <= 8 THEN h[i] ELSE p[i - 8]
    BY <1>1, <1>8, <1>9 DEF c
  <2>2. \A i \in 1 .. 8 : f[i] = h[i]
    BY <1>1, <2>1
  <2>3. ASSUME NEW i \in 1 .. n
        PROVE  f[i + 8] = p[i]
    <3>1. i + 8 \in 1 .. 8 + n /\ ~(i + 8 <= 8) /\ (i + 8) - 8 = i
      BY <1>1
    <3>2. QED
      BY <2>1, <3>1
  <2>4. ASSUME NEW i \in 1 .. 2
        PROVE  f[i + 8 + n] = k[i]
    <3>1. /\ i + 8 + n \in 1 .. 10 + n /\ ~(i + 8 + n <= 8 + n)
          /\ (i + 8 + n) - (8 + n) = i
      BY <1>1
    <3>2. QED
      BY <1>9, <3>1
  <2>5. QED
    BY <2>2, <2>3, <2>4
<1>11. f[1] = Magic[1] /\ f[2] = Magic[2] /\ VersionOf(f) = Version /\ TypeOf(f) = MsgType[s]
  BY <1>7, <1>10 DEF VersionOf, TypeOf
<1>12. PayloadLenOf(f) = n /\ SequenceOf(f) = s
  BY <1>1, <1>2, <1>7, <1>10, WordShape DEF PayloadLenOf, SequenceOf
<1>13. \A i \in 1 .. 10 + n : f[i] \in Byte
  BY <1>1, <1>9, ElementOfSeq
<1>14. SubSeq(f, 9, 8 + n) = p
  <2>1. /\ SubSeq(f, 9, 8 + n) \in Seq(Byte) /\ Len(SubSeq(f, 9, 8 + n)) = n
        /\ \A i \in 1 .. n : SubSeq(f, 9, 8 + n)[i] = f[i + 8]
    BY <1>1, <1>13, SubSeqProperties
  <2>2. QED
    BY <1>1, <1>10, <2>1, SeqEqual
<1>15. SubSeq(f, 1, 8 + n) = c
  <2>1. /\ SubSeq(f, 1, 8 + n) \in Seq(Byte) /\ Len(SubSeq(f, 1, 8 + n)) = 8 + n
        /\ \A i \in 1 .. 8 + n : SubSeq(f, 1, 8 + n)[i] = f[i]
    BY <1>1, <1>13, SubSeqProperties
  <2>2. c \in Seq(Byte) /\ Len(c) = 8 + n
    BY <1>8 DEF c
  <2>3. \A i \in 1 .. 8 + n : f[i] = c[i]
    BY <1>1, <1>9
  <2>4. QED
    BY <2>1, <2>2, <2>3, SeqEqual
<1>16. SubSeq(f, 9 + n, 10 + n) = k
  <2>1. /\ SubSeq(f, 9 + n, 10 + n) \in Seq(Byte) /\ Len(SubSeq(f, 9 + n, 10 + n)) = 2
        /\ \A i \in 1 .. 2 : SubSeq(f, 9 + n, 10 + n)[i] = f[i + 8 + n]
    BY <1>1, <1>13, SubSeqProperties
  <2>2. QED
    BY <1>5, <1>10, <2>1, SeqEqual
<1>17. QED
  <2>1. /\ HeaderLen + n + 1 = 9 + n /\ HeaderLen + n + CrcLen = 10 + n
        /\ HeaderLen + 1 = 9 /\ HeaderLen + n = 8 + n
    BY <1>1 DEF HeaderLen, CrcLen
  <2>2. n \in Nat /\ Len(f) = HeaderLen + n + CrcLen /\ Len(f) <= MaxFrame
    BY <1>1, <1>9 DEF HeaderLen, CrcLen
  <2>3. SubSeq(f, HeaderLen + 1, HeaderLen + n) = p
    BY <1>14, <2>1
  <2>4. SubSeq(f, 1, HeaderLen + n) = Covered(s)
    BY <1>4, <1>15, <2>1 DEF c
  <2>5. SubSeq(f, HeaderLen + n + 1, HeaderLen + n + CrcLen) = k
    BY <1>16, <2>1
  <2>6. QED
    BY <1>9, <1>11, <1>12, <2>2, <2>3, <2>4, <2>5 DEF f, p, k

-----------------------------------------------------------------------------
(***************************************************************************)
(* The receiver stays inside its buffer.  This rests on the type invariant *)
(* because the bound on payload_len was checked when the header was        *)
(* complete and must still hold for every byte that follows.               *)
(***************************************************************************)
ReceiverOK ==
  /\ state \in {"SYNC", "HEADER", "PAYLOAD", "CRC"}
  /\ frame_buf \in Seq(Byte)
  /\ last_seq \in Nat \cup {None} /\ shown \in Seq(Byte)
  /\ StageMatchesBuffer

WireOK ==
  /\ sending \in SeqNum /\ frame \in Seq(Byte) /\ sent \in 0 .. Len(frame)
  /\ faults \in 0 .. MaxFaults /\ clean \in BOOLEAN

\* A byte more leaves the bytes before it, and a header once it is complete.
LEMMA BufferGrows ==
  ASSUME NEW buf \in Seq(Byte), NEW b \in Byte
  PROVE  LET new == Append(buf, b)
         IN  /\ new \in Seq(Byte) /\ Len(buf) \in Nat /\ Len(new) = Len(buf) + 1
             /\ \A i \in 1 .. Len(buf) : new[i] = buf[i]
             /\ new[Len(buf) + 1] = b
             /\ Len(buf) >= HeaderLen => PayloadLenOf(new) = PayloadLenOf(buf)
<1>1. Len(buf) \in Nat
  BY LenProperties
<1>2. /\ Append(buf, b) \in Seq(Byte) /\ Len(Append(buf, b)) = Len(buf) + 1
      /\ \A i \in 1 .. Len(buf) : Append(buf, b)[i] = buf[i]
      /\ Append(buf, b)[Len(buf) + 1] = b
  BY AppendProperties
<1>3. Len(buf) >= HeaderLen => PayloadLenOf(Append(buf, b)) = PayloadLenOf(buf)
  <2> SUFFICES ASSUME Len(buf) >= 8
               PROVE  PayloadLenOf(Append(buf, b)) = PayloadLenOf(buf)
    BY DEF HeaderLen
  <2>1. 5 \in 1 .. Len(buf) /\ 6 \in 1 .. Len(buf)
    BY <1>1
  <2>2. QED
    BY <1>2, <2>1 DEF PayloadLenOf
<1>4. QED
  BY <1>1, <1>2, <1>3

\* The fields of a complete header are numbers.
LEMMA HeaderType ==
  ASSUME NEW buf \in Seq(Byte), Len(buf) >= HeaderLen
  PROVE  PayloadLenOf(buf) \in Nat /\ SequenceOf(buf) \in Nat
<1>1. Len(buf) \in Nat
  BY LenProperties
<1>2. {5, 6, 7, 8} \subseteq 1 .. Len(buf)
  BY <1>1 DEF HeaderLen
<1>3. buf[5] \in Byte /\ buf[6] \in Byte /\ buf[7] \in Byte /\ buf[8] \in Byte
  BY <1>2, ElementOfSeq
<1>4. QED
  BY <1>3, WordType DEF PayloadLenOf, SequenceOf

\* A byte of any value leaves the receiver in a legal state.
LEMMA FeedByteType ==
  ASSUME ReceiverOK, NEW b \in Byte, feed_byte(b)
  PROVE  ReceiverOK'
<1> DEFINE buf == Append(frame_buf, b)
           n   == PayloadLenOf(frame_buf)
<1>1. /\ buf \in Seq(Byte) /\ Len(frame_buf) \in Nat /\ Len(buf) = Len(frame_buf) + 1
      /\ Len(frame_buf) >= HeaderLen => PayloadLenOf(buf) = n
  BY BufferGrows DEF ReceiverOK
<1>2. HeaderLen = 8 /\ CrcLen = 2 /\ MaxFrame \in Nat
  BY SatAssumption DEF HeaderLen, CrcLen
<1>3. Len(buf) >= HeaderLen => PayloadLenOf(buf) \in Nat /\ SequenceOf(buf) \in Nat
  BY <1>1, HeaderType
<1>4. Len(frame_buf) >= HeaderLen => n \in Nat
  BY HeaderType DEF ReceiverOK
<1>5. << >> \in Seq(Byte) /\ Len(<< >>) = 0
  OBVIOUS
<1> HIDE DEF buf
<1>6. CASE SyncByte(b)
  <2>1. <<b>> \in Seq(Byte) /\ Len(<<b>>) = 1
    OBVIOUS
  <2>2. last_seq' \in Nat \cup {None} /\ shown' \in Seq(Byte)
    BY <1>6 DEF SyncByte, ReceiverOK
  <2>3. CASE frame_buf' = <<b>> /\ state' = state
    BY <1>6, <2>1, <2>2, <2>3 DEF SyncByte, ReceiverOK, StageMatchesBuffer
  <2>4. CASE Len(frame_buf) = 1 /\ frame_buf' = buf /\ state' = "HEADER"
    BY <1>1, <1>2, <2>2, <2>4 DEF ReceiverOK, StageMatchesBuffer
  <2>5. CASE frame_buf' = << >> /\ state' = state
    BY <1>5, <1>6, <2>2, <2>5 DEF SyncByte, ReceiverOK, StageMatchesBuffer
  <2>6. QED
    BY <1>6, <2>3, <2>4, <2>5 DEF SyncByte, buf
<1>7. CASE HeaderByte(b)
  <2>1. state = "HEADER" /\ Len(frame_buf) \in 2 .. 7
    BY <1>2, <1>7 DEF HeaderByte, ReceiverOK, StageMatchesBuffer
  <2>2. last_seq' \in Nat \cup {None} /\ shown' \in Seq(Byte)
    BY <1>7 DEF HeaderByte, ReceiverOK
  <2> DEFINE l == Len(frame_buf)
             m == Len(buf)
  <2> HIDE DEF l, m
  <2>3. l \in 2 .. 7 /\ m = l + 1
    BY <1>1, <2>1 DEF l, m
  <2>4. m \in 3 .. 8
    BY <2>3
  <2>5. CASE Len(buf) < HeaderLen /\ frame_buf' = buf /\ state' = state
    <3>1. Len(frame_buf') \in 2 .. HeaderLen - 1
      <4>1. m < 8 /\ Len(frame_buf') = m
        BY <1>2, <2>5 DEF m
      <4>2. QED
        BY <1>2, <2>4, <4>1
    <3>2. state' = "HEADER" /\ frame_buf' \in Seq(Byte)
      BY <1>1, <2>1, <2>5
    <3>3. QED
      BY <2>2, <3>1, <3>2 DEF ReceiverOK, StageMatchesBuffer
  <2>6. CASE frame_buf' = << >> /\ state' = "SYNC"
    BY <1>5, <2>2, <2>6 DEF ReceiverOK, StageMatchesBuffer
  <2>7. CASE /\ Len(buf) >= HeaderLen /\ ~TooLong(buf) /\ frame_buf' = buf
             /\ state' = IF PayloadLenOf(buf) = 0 THEN "CRC" ELSE "PAYLOAD"
    <3> DEFINE p == PayloadLenOf(buf)
    <3> HIDE DEF p
    <3>1. Len(buf) = 8
      BY <1>2, <2>4, <2>7 DEF m
    <3>2. p \in Nat
      BY <1>3, <2>7 DEF p
    <3>3. ~(p > MaxFrame - HeaderLen - CrcLen)
      BY <2>7 DEF TooLong, p
    <3>4. 8 + p + 2 <= MaxFrame
      BY <1>2, <3>2, <3>3
    <3>5. /\ PayloadLenOf(frame_buf') = p /\ Len(frame_buf') = 8 /\ frame_buf' \in Seq(Byte)
          /\ state' = IF p = 0 THEN "CRC" ELSE "PAYLOAD"
      BY <1>1, <2>7, <3>1 DEF p
    <3>6. QED
      BY <1>2, <2>2, <3>2, <3>4, <3>5 DEF ReceiverOK, StageMatchesBuffer
  <2>8. QED
    BY <1>7, <2>5, <2>6, <2>7 DEF HeaderByte, buf
<1>8. CASE PayloadByte(b)
  <2>1. /\ state = "PAYLOAD" /\ Len(frame_buf) >= 8 /\ Len(frame_buf) < 8 + n
        /\ 8 + n + 2 <= MaxFrame
    BY <1>1, <1>2, <1>8 DEF PayloadByte, ReceiverOK, StageMatchesBuffer
  <2>2. /\ last_seq' \in Nat \cup {None} /\ shown' \in Seq(Byte) /\ frame_buf' = buf
        /\ state' = IF Len(buf) >= HeaderLen + PayloadLenOf(buf) THEN "CRC" ELSE state
    BY <1>8 DEF PayloadByte, ReceiverOK, buf
  <2>3. n \in Nat /\ PayloadLenOf(buf) = n
    BY <1>1, <1>2, <1>4, <2>1
  <2>4. QED
    BY <1>1, <1>2, <2>1, <2>2, <2>3 DEF ReceiverOK, StageMatchesBuffer
<1>9. CASE CrcByte(b)
  <2>1. /\ state = "CRC" /\ Len(frame_buf) >= 8 /\ Len(frame_buf) < 8 + n + 2
        /\ 8 + n <= Len(frame_buf) /\ 8 + n + 2 <= MaxFrame
    BY <1>1, <1>2, <1>9 DEF CrcByte, ReceiverOK, StageMatchesBuffer
  <2>2. n \in Nat /\ PayloadLenOf(buf) = n /\ SequenceOf(buf) \in Nat
    BY <1>1, <1>2, <1>3, <1>4, <2>1
  <2>3. CASE /\ Len(buf) < HeaderLen + PayloadLenOf(buf) + CrcLen /\ frame_buf' = buf
             /\ UNCHANGED <<state, last_seq, shown>>
    <3>1. Len(frame_buf') < 8 + n + 2 /\ 8 + n <= Len(frame_buf') /\ Len(frame_buf') >= 8
      BY <1>1, <1>2, <2>1, <2>2, <2>3
    <3>2. PayloadLenOf(frame_buf') = n /\ state' = "CRC" /\ frame_buf' \in Seq(Byte)
      BY <1>1, <2>1, <2>2, <2>3
    <3>3. last_seq' \in Nat \cup {None} /\ shown' \in Seq(Byte)
      BY <2>3 DEF ReceiverOK
    <3>4. QED
      BY <1>2, <2>1, <2>2, <3>1, <3>2, <3>3 DEF ReceiverOK, StageMatchesBuffer
  <2>4. CASE /\ Len(buf) >= HeaderLen + PayloadLenOf(buf) + CrcLen /\ process_frame(buf)
             /\ frame_buf' = << >> /\ state' = "SYNC"
    <3>1. last_seq' \in Nat \cup {None}
      BY <2>2, <2>4 DEF process_frame, ReceiverOK
    <3>2. SubSeq(buf, HeaderLen + 1, HeaderLen + PayloadLenOf(buf)) \in Seq(Byte)
      <4>1. \A i \in 9 .. 8 + n : buf[i] \in Byte
        <5>1. 8 + n <= Len(buf)
          BY <1>1, <2>1, <2>2
        <5>2. QED
          BY <1>1, <2>2, <5>1, ElementOfSeq
      <4>2. SubSeq(buf, 9, 8 + n) \in Seq(Byte)
        BY <2>2, <4>1, SubSeqProperties
      <4>3. QED
        BY <1>2, <2>2, <4>2
    <3>3. shown' \in Seq(Byte)
      BY <2>4, <3>2 DEF process_frame, ReceiverOK
    <3>4. QED
      BY <1>5, <2>4, <3>1, <3>3 DEF ReceiverOK, StageMatchesBuffer
  <2>5. QED
    BY <1>9, <2>3, <2>4 DEF CrcByte, buf
<1>10. QED
  BY <1>6, <1>7, <1>8, <1>9 DEF feed_byte

\* A new receiver is in a legal state.
LEMMA FreshReceiver ==
  ASSUME state = "SYNC", frame_buf = << >>, last_seq = None, shown = << >>
  PROVE  ReceiverOK
<1>1. << >> \in Seq(Byte) /\ Len(<< >>) = 0
  OBVIOUS
<1>2. QED
  BY <1>1 DEF ReceiverOK, StageMatchesBuffer

\* A fault is counted, up to its bound.
LEMMA FaultType ==
  ASSUME faults \in 0 .. MaxFaults, Fault
  PROVE  faults' \in 0 .. MaxFaults /\ clean' \in BOOLEAN
<1>1. faults' \in 0 .. MaxFaults
  BY SatAssumption DEF Fault
<1>2. clean' = FALSE
  BY DEF Fault
<1>3. QED
  BY <1>1, <1>2

\* Every step of the feeder, the wire and the receiver keeps the types.
LEMMA TypeStep ==
  ASSUME WireOK, ReceiverOK, [Next]_vars
  PROVE  WireOK' /\ ReceiverOK'
<1>1. CASE Send
  <2>1. (sending + 1) % SeqWrap \in SeqNum
    BY SatAssumption DEF WireOK, SeqNum
  <2>2. build_frame(sending') \in Seq(Byte)
    BY <1>1, <2>1, FrameShape DEF Send
  <2>3. 0 \in 0 .. Len(frame')
    BY <1>1, <2>2 DEF Send
  <2>4. WireOK'
    BY <1>1, <2>1, <2>2, <2>3 DEF Send, WireOK, Idle
  <2>5. ReceiverOK'
    BY <1>1 DEF Send, receiver, ReceiverOK, StageMatchesBuffer
  <2>6. QED
    BY <2>4, <2>5
<1>2. CASE Deliver
  <2>1. frame[sent + 1] \in Byte
    BY <1>2, ElementOfSeq DEF Deliver, WireOK
  <2>2. ReceiverOK'
    BY <1>2, <2>1, FeedByteType DEF Deliver
  <2>3. WireOK'
    BY <1>2 DEF Deliver, WireOK
  <2>4. QED
    BY <2>2, <2>3
<1>3. CASE Lose
  <2>1. WireOK'
    <3>1. sent' \in 0 .. Len(frame)
      BY <1>3, LenProperties DEF Lose, WireOK
    <3>2. QED
      BY <1>3, <3>1, FaultType DEF Lose, WireOK
  <2>2. ReceiverOK'
    BY <1>3 DEF Lose, receiver, ReceiverOK, StageMatchesBuffer
  <2>3. QED
    BY <2>1, <2>2
<1>4. ASSUME NEW b \in NoiseBytes, Noise(b)
      PROVE  WireOK' /\ ReceiverOK'
  <2>1. b \in Byte
    BY SatAssumption
  <2>2. ReceiverOK'
    BY <1>4, <2>1, FeedByteType DEF Noise
  <2>3. WireOK'
    BY <1>4, FaultType DEF Noise, WireOK
  <2>4. QED
    BY <2>2, <2>3
<1>5. CASE sat_receiver_init
  <2>1. ReceiverOK'
    <3>1. << >> \in Seq(Byte) /\ Len(<< >>) = 0
      OBVIOUS
    <3>2. QED
      BY <1>5, <3>1 DEF sat_receiver_init, ReceiverOK, StageMatchesBuffer
  <2>2. WireOK'
    BY <1>5, FaultType DEF sat_receiver_init, WireOK
  <2>3. QED
    BY <2>1, <2>2
<1>6. CASE UNCHANGED vars
  BY <1>6 DEF vars, wire, receiver, WireOK, ReceiverOK, StageMatchesBuffer
<1>7. QED
  BY <1>1, <1>2, <1>3, <1>4, <1>5, <1>6 DEF Next

\* Both halves of the type invariant hold in every reachable state.
LEMMA TypeInvariant == Spec => [](WireOK /\ ReceiverOK)
<1>1. Init => WireOK /\ ReceiverOK
  <2> SUFFICES ASSUME Init
               PROVE  WireOK /\ ReceiverOK
    OBVIOUS
  <2>1. SeqWrap - 1 \in SeqNum
    BY SatAssumption DEF SeqNum
  <2>2. << >> \in Seq(Byte) /\ Len(<< >>) = 0
    OBVIOUS
  <2>3. WireOK
    <3>1. sending \in SeqNum /\ frame \in Seq(Byte) /\ sent \in 0 .. Len(frame)
      BY <2>1, <2>2 DEF Init
    <3>2. faults \in 0 .. MaxFaults
      BY SatAssumption DEF Init
    <3>3. clean \in BOOLEAN
      BY DEF Init
    <3>4. QED
      BY <3>1, <3>2, <3>3 DEF WireOK
  <2>4. QED
    BY <2>3, FreshReceiver DEF Init
<1>2. (WireOK /\ ReceiverOK) /\ [Next]_vars => (WireOK /\ ReceiverOK)'
  BY TypeStep
<1>3. QED
  BY <1>1, <1>2, PTL DEF Spec

\* The type invariant of the link, with the stage of the receiver tied to
\* what its buffer holds.
THEOREM TypeCorrect == Spec => []TypeOK
<1>1. WireOK /\ ReceiverOK => TypeOK
  BY DEF WireOK, ReceiverOK, TypeOK
<1>2. QED
  BY <1>1, TypeInvariant, PTL

\* No byte that arrives is stored outside s_frame_buf (sat_receiver.c:74-124),
\* whatever the stream carries.
THEOREM NoOverrun == Spec => []StaysInBuffer
<1>1. ASSUME ReceiverOK
      PROVE  StaysInBuffer
  <2>1. Len(frame_buf) \in Nat
    BY <1>1, LenProperties DEF ReceiverOK
  <2>2. Len(frame_buf) >= HeaderLen => PayloadLenOf(frame_buf) \in Nat
    BY <1>1, HeaderType DEF ReceiverOK
  <2>3. MaxFrame \in Nat /\ MaxFrame >= 10 /\ HeaderLen = 8 /\ CrcLen = 2
    BY SatAssumption DEF HeaderLen, CrcLen
  <2>4. CASE state \in {"SYNC", "HEADER"}
    <3> DEFINE l == Len(frame_buf)
    <3> HIDE DEF l
    <3>1. l < 2 \/ l \in 2 .. HeaderLen - 1
      BY <1>1, <2>4 DEF ReceiverOK, StageMatchesBuffer, l
    <3>2. l \in Nat
      BY <2>1 DEF l
    <3>3. l < MaxFrame
      BY <2>3, <3>1, <3>2
    <3>4. QED
      BY <3>3 DEF StaysInBuffer, l
  <2>5. CASE state \in {"PAYLOAD", "CRC"}
    <3> DEFINE l == Len(frame_buf)
               n == PayloadLenOf(frame_buf)
    <3> HIDE DEF l, n
    <3>1. l >= 8 /\ l < 8 + n + 2 /\ 8 + n + 2 <= MaxFrame /\ l \in Nat /\ n \in Nat
      BY <1>1, <2>1, <2>2, <2>3, <2>5 DEF ReceiverOK, StageMatchesBuffer, l, n
    <3>2. l < MaxFrame
      BY <2>3, <3>1
    <3>3. QED
      BY <3>2 DEF StaysInBuffer, l
  <2>6. QED
    BY <1>1, <2>4, <2>5 DEF ReceiverOK
<1>2. QED
  BY <1>1, TypeInvariant, PTL

-----------------------------------------------------------------------------
(***************************************************************************)
(* A clean frame is accepted.  Inductively: while it is on its way, the    *)
(* receiver holds exactly the bytes of it that have arrived.               *)
(***************************************************************************)
CleanSoFar ==
  clean =>
    /\ frame = build_frame(sending)
    /\ sent < Len(frame) => /\ Len(frame_buf) = sent
                            /\ \A i \in 1 .. sent : frame_buf[i] = frame[i]
    /\ sent = Len(frame) => /\ Idle /\ last_seq = sending
                            /\ MsgType[sending] = SNAPSHOT => shown = Payload[sending]

\* A byte of a clean frame that is stored is the next one of the frame.
LEMMA NextByteStored ==
  ASSUME NEW buf \in Seq(Byte), NEW f \in Seq(Byte),
         Len(buf) < Len(f), \A i \in 1 .. Len(buf) : buf[i] = f[i]
  PROVE  LET new == Append(buf, f[Len(buf) + 1])
         IN  /\ Len(new) = Len(buf) + 1
             /\ \A i \in 1 .. Len(buf) + 1 : new[i] = f[i]
             /\ Len(new) = Len(f) => new = f
<1> DEFINE b   == f[Len(buf) + 1]
           new == Append(buf, b)
<1>1. Len(buf) \in Nat /\ Len(f) \in Nat
  BY LenProperties
<1>2. b \in Byte
  BY <1>1, ElementOfSeq
<1>3. /\ new \in Seq(Byte) /\ Len(new) = Len(buf) + 1
      /\ \A i \in 1 .. Len(buf) : new[i] = buf[i]
      /\ new[Len(buf) + 1] = b
  BY <1>2, AppendProperties
<1>4. ASSUME NEW i \in 1 .. Len(buf) + 1
      PROVE  new[i] = f[i]
  <2>1. CASE i \in 1 .. Len(buf)
    BY <1>3, <2>1
  <2>2. CASE i = Len(buf) + 1
    BY <1>3, <2>2
  <2>3. QED
    BY <1>1, <2>1, <2>2
<1>5. ASSUME Len(new) = Len(f)
      PROVE  new = f
  <2>1. \A i \in 1 .. Len(new) : new[i] = f[i]
    BY <1>3, <1>4
  <2>2. QED
    BY <1>3, <1>5, <2>1, SeqEqual
<1>6. QED
  BY <1>3, <1>4, <1>5

\* The receiver takes the next byte of a clean frame for what it is.
LEMMA CleanDeliver ==
  ASSUME WireOK, ReceiverOK, CleanSoFar, clean, Deliver
  PROVE  CleanSoFar'
<1> DEFINE f   == build_frame(sending)
           n   == Len(Payload[sending])
           b   == f[sent + 1]
           buf == Append(frame_buf, b)
<1>1. /\ f \in Seq(Byte) /\ n \in Nat /\ Len(f) = 8 + n + 2 /\ Len(f) <= MaxFrame
      /\ f[1] = Magic[1] /\ f[2] = Magic[2] /\ VersionOf(f) = Version
      /\ TypeOf(f) = MsgType[sending] /\ PayloadLenOf(f) = n /\ SequenceOf(f) = sending
      /\ SubSeq(f, 8 + 1, 8 + n) = Payload[sending]
      /\ SubSeq(f, 1, 8 + n) = Covered(sending)
      /\ SubSeq(f, 8 + n + 1, 8 + n + 2) = Crc(Covered(sending))
  BY FrameShape DEF WireOK, HeaderLen, CrcLen
<1>2. /\ frame = f /\ sent < Len(f) /\ Len(frame_buf) = sent
      /\ \A i \in 1 .. sent : frame_buf[i] = f[i]
  BY DEF CleanSoFar, Deliver
<1>3. sent \in Nat /\ MaxFrame \in Nat /\ HeaderLen = 8 /\ CrcLen = 2
  BY SatAssumption DEF WireOK, HeaderLen, CrcLen
<1>4. /\ frame' = f /\ sending' = sending /\ clean' = clean /\ sent' = sent + 1
      /\ feed_byte(b)
  BY <1>2 DEF Deliver
<1> HIDE DEF f
<1>5. /\ Len(buf) = sent + 1
      /\ \A i \in 1 .. sent + 1 : buf[i] = f[i]
      /\ Len(buf) = Len(f) => buf = f
  BY <1>1, <1>2, NextByteStored DEF ReceiverOK
<1> HIDE DEF n, b, buf
<1>6. sent + 1 >= 6 => PayloadLenOf(buf) = n
  <2> SUFFICES ASSUME sent + 1 >= 6
               PROVE  PayloadLenOf(buf) = n
    OBVIOUS
  <2>1. 5 \in 1 .. sent + 1 /\ 6 \in 1 .. sent + 1
    BY <1>3
  <2>2. QED
    BY <1>1, <1>5, <2>1 DEF PayloadLenOf
<1>7. sent >= 6 => PayloadLenOf(frame_buf) = n
  <2> SUFFICES ASSUME sent >= 6
               PROVE  PayloadLenOf(frame_buf) = n
    OBVIOUS
  <2>1. 5 \in 1 .. sent /\ 6 \in 1 .. sent
    BY <1>3
  <2>2. QED
    BY <1>1, <1>2, <2>1 DEF PayloadLenOf
\* Whenever the byte is stored and the frame is not complete, we are done.
<1>8. ASSUME frame_buf' = buf, sent + 1 < 8 + n + 2
      PROVE  CleanSoFar'
  <2>1. sent' < Len(frame') /\ sent' # Len(frame')
    BY <1>1, <1>3, <1>4, <1>8
  <2>2. Len(frame_buf') = sent' /\ \A i \in 1 .. sent' : frame_buf'[i] = frame'[i]
    BY <1>4, <1>5, <1>8
  <2>3. QED
    BY <1>4, <2>1, <2>2 DEF CleanSoFar, f
<1>9. CASE SyncByte(b)
  <2>1. sent \in 0 .. 1
    BY <1>2, <1>3, <1>9 DEF SyncByte, ReceiverOK, StageMatchesBuffer
  <2>2. CASE sent = 0
    <3>1. frame_buf = << >> /\ b = Magic[1]
      BY <1>1, <1>2, <2>2 DEF ReceiverOK, b
    <3>2. frame_buf' = buf
      BY <1>9, <3>1 DEF SyncByte, buf
    <3>3. QED
      BY <1>1, <1>8, <2>2, <3>2
  <2>3. CASE sent = 1
    <3>1. Len(frame_buf) = 1 /\ b = Magic[2]
      BY <1>1, <1>2, <2>3 DEF b
    <3>2. frame_buf # << >>
      BY <3>1
    <3>3. frame_buf' = buf
      BY <1>9, <3>1, <3>2 DEF SyncByte, buf
    <3>4. QED
      BY <1>1, <1>8, <2>3, <3>3
  <2>4. QED
    BY <2>1, <2>2, <2>3
<1>10. CASE HeaderByte(b)
  <2>1. sent \in 2 .. 7
    BY <1>2, <1>3, <1>10 DEF HeaderByte, ReceiverOK, StageMatchesBuffer
  <2>2. ~(Len(buf) >= HeaderLen /\ (VersionOf(buf) # Version \/ TooLong(buf)))
    <3> SUFFICES ASSUME Len(buf) >= HeaderLen
                 PROVE  VersionOf(buf) = Version /\ ~TooLong(buf)
      OBVIOUS
    <3>1. sent = 7
      BY <1>3, <1>5, <2>1
    <3>2. VersionOf(buf) = Version
      BY <1>1, <1>5, <3>1 DEF VersionOf
    <3>3. PayloadLenOf(buf) = n
      BY <1>6, <3>1
    <3>4. ~TooLong(buf)
      BY <1>1, <1>3, <3>3 DEF TooLong
    <3>5. QED
      BY <3>2, <3>4
  <2>3. frame_buf' = buf
    BY <1>10, <2>2 DEF HeaderByte, buf
  <2>4. sent + 1 < 8 + n + 2
    BY <1>1, <2>1
  <2>5. QED
    BY <1>8, <2>3, <2>4
<1>11. CASE PayloadByte(b)
  <2>1. sent >= 8 /\ sent < 8 + PayloadLenOf(frame_buf)
    BY <1>2, <1>3, <1>11 DEF PayloadByte, ReceiverOK, StageMatchesBuffer
  <2>2. PayloadLenOf(frame_buf) = n
    BY <1>3, <1>7, <2>1
  <2>3. sent + 1 < 8 + n + 2
    BY <1>1, <1>3, <2>1, <2>2
  <2>4. QED
    BY <1>8, <1>11, <2>3 DEF PayloadByte, buf
<1>12. CASE CrcByte(b)
  <2>1. sent >= 8
    BY <1>2, <1>3, <1>12 DEF CrcByte, ReceiverOK, StageMatchesBuffer
  <2>2. PayloadLenOf(buf) = n
    BY <1>3, <1>6, <2>1
  <2>3. CASE Len(buf) < HeaderLen + PayloadLenOf(buf) + CrcLen /\ frame_buf' = buf
    <3>1. sent + 1 < 8 + n + 2
      BY <1>3, <1>5, <2>2, <2>3
    <3>2. QED
      BY <1>8, <2>3, <3>1
  <2>4. CASE /\ Len(buf) >= HeaderLen + PayloadLenOf(buf) + CrcLen
             /\ process_frame(buf) /\ frame_buf' = << >> /\ state' = "SYNC"
    <3>1. sent + 1 = Len(f)
      <4>1. sent + 1 >= 8 + n + 2
        BY <1>3, <1>5, <2>2, <2>4
      <4>2. QED
        BY <1>1, <1>2, <1>3, <4>1
    <3>2. buf = f
      BY <1>5, <3>1
    <3>3. CrcMatches(buf)
      BY <1>1, <1>3, <3>2 DEF CrcMatches
    <3>4. last_seq' = sending
      BY <1>1, <2>4, <3>2, <3>3 DEF process_frame
    <3>5. MsgType[sending] = SNAPSHOT => shown' = Payload[sending]
      BY <1>1, <1>3, <2>4, <3>2, <3>3 DEF process_frame
    <3>6. sent' = Len(frame') /\ ~(sent' < Len(frame'))
      BY <1>1, <1>3, <1>4, <3>1
    <3>7. QED
      BY <1>4, <2>4, <3>4, <3>5, <3>6 DEF CleanSoFar, Idle, f
  <2>5. QED
    BY <1>12, <2>3, <2>4 DEF CrcByte, buf
<1>13. QED
  BY <1>4, <1>9, <1>10, <1>11, <1>12 DEF feed_byte

\* No other step disturbs it: a fault ends clean, and the feeder starts a
\* frame as clean only if the receiver is idle.
LEMMA CleanStep ==
  ASSUME WireOK, ReceiverOK, CleanSoFar, [Next]_vars
  PROVE  CleanSoFar'
<1>1. CASE Send
  <2>1. (sending + 1) % SeqWrap \in SeqNum
    BY SatAssumption DEF WireOK, SeqNum
  <2>2. Len(frame') > 0
    <3>1. PICK s \in SeqNum : frame' = build_frame(s)
      BY <1>1, <2>1 DEF Send
    <3>2. Len(Payload[s]) \in Nat /\ Len(frame') = 8 + Len(Payload[s]) + 2
      BY <3>1, FrameShape DEF HeaderLen, CrcLen
    <3>3. QED
      BY <3>2
  <2>3. clean' => frame_buf' = << >> /\ Len(frame_buf') = 0
    BY <1>1 DEF Send, Idle, receiver
  <2>4. QED
    BY <1>1, <2>2, <2>3 DEF Send, CleanSoFar
<1>2. CASE Deliver
  <2>1. CASE clean
    BY <1>2, <2>1, CleanDeliver
  <2>2. CASE ~clean
    BY <1>2, <2>2 DEF Deliver, CleanSoFar
  <2>3. QED
    BY <2>1, <2>2
<1>3. CASE Fault
  BY <1>3 DEF Fault, CleanSoFar
<1>4. CASE UNCHANGED vars
  BY <1>4 DEF vars, wire, receiver, CleanSoFar, Idle
<1>5. QED
  BY <1>1, <1>2, <1>3, <1>4 DEF Next, Lose, Noise, sat_receiver_init

\* A frame that meets an idle receiver and no fault is accepted with its last
\* byte: encoder and receiver agree on the layout of the frame and on what
\* the checksum covers (sat_encoder.c:12-35, sat_receiver.c:44-124).
THEOREM CleanFramesArrive == Spec => []CleanFrameIsAccepted
<1>1. Init => CleanSoFar
  BY DEF Init, CleanSoFar
<1>2. WireOK /\ ReceiverOK /\ CleanSoFar /\ [Next]_vars => CleanSoFar'
  BY CleanStep
<1>3. CleanSoFar => CleanFrameIsAccepted
  BY DEF CleanSoFar, CleanFrameIsAccepted
<1>4. QED
  BY <1>1, <1>2, <1>3, TypeInvariant, PTL DEF Spec

-----------------------------------------------------------------------------
(***************************************************************************)
(* What is shown.  A 16-bit checksum cannot exclude that damaged bytes     *)
(* carry the right one, so that nothing is invented is no theorem; that    *)
(* nothing but such bytes can bring it about is.                           *)
(***************************************************************************)

\* The bytes of a whole snapshot that passes every test of the receiver.
PayloadIn(buf) == SubSeq(buf, HeaderLen + 1, HeaderLen + PayloadLenOf(buf))

Passes(buf) ==
  /\ Len(buf) = HeaderLen + PayloadLenOf(buf) + CrcLen /\ Len(buf) <= MaxFrame
  /\ buf[1] = Magic[1] /\ buf[2] = Magic[2] /\ VersionOf(buf) = Version
  /\ TypeOf(buf) = SNAPSHOT /\ CrcMatches(buf)

\* What is shown is the payload of bytes that pass, although the feeder never
\* sent them.
Collision ==
  \E buf \in Seq(Byte) :
    Passes(buf) /\ shown = PayloadIn(buf) /\ \A s \in SeqNum : buf # build_frame(s)

\* As far as the receiver has got, the bytes it holds have passed.
PassingSoFar ==
  /\ Len(frame_buf) >= 1 => frame_buf[1] = Magic[1]
  /\ Len(frame_buf) >= 2 => frame_buf[2] = Magic[2]
  /\ Len(frame_buf) >= HeaderLen => VersionOf(frame_buf) = Version

ShownPassed == shown = << >> \/ \E buf \in Seq(Byte) : Passes(buf) /\ shown = PayloadIn(buf)

\* Bytes that are stored behind others leave those as they were.
LEMMA PassingGrows ==
  ASSUME ReceiverOK, PassingSoFar, NEW b \in Byte
  PROVE  LET buf == Append(frame_buf, b)
         IN  /\ Len(frame_buf) >= 1 => buf[1] = Magic[1]
             /\ Len(frame_buf) >= 2 => buf[2] = Magic[2]
             /\ Len(frame_buf) >= HeaderLen => VersionOf(buf) = Version
<1> DEFINE buf == Append(frame_buf, b)
<1>1. Len(frame_buf) \in Nat /\ \A i \in 1 .. Len(frame_buf) : buf[i] = frame_buf[i]
  BY BufferGrows DEF ReceiverOK
<1> HIDE DEF buf
<1>2. Len(frame_buf) >= 1 => buf[1] = Magic[1]
  BY <1>1 DEF PassingSoFar
<1>3. Len(frame_buf) >= 2 => buf[2] = Magic[2]
  BY <1>1 DEF PassingSoFar
<1>4. Len(frame_buf) >= HeaderLen => VersionOf(buf) = Version
  BY <1>1 DEF PassingSoFar, VersionOf, HeaderLen
<1>5. QED
  BY <1>2, <1>3, <1>4 DEF buf

\* A byte of any value: what the receiver keeps has passed, and what it shows
\* anew has passed as a whole.
LEMMA PassingByte ==
  ASSUME ReceiverOK, PassingSoFar, ShownPassed, NEW b \in Byte, feed_byte(b)
  PROVE  PassingSoFar' /\ ShownPassed'
<1> DEFINE buf == Append(frame_buf, b)
<1>1. /\ buf \in Seq(Byte) /\ Len(frame_buf) \in Nat /\ Len(buf) = Len(frame_buf) + 1
      /\ buf[Len(frame_buf) + 1] = b
      /\ Len(frame_buf) >= HeaderLen => PayloadLenOf(buf) = PayloadLenOf(frame_buf)
  BY BufferGrows DEF ReceiverOK
<1>2. /\ Len(frame_buf) >= 1 => buf[1] = Magic[1]
      /\ Len(frame_buf) >= 2 => buf[2] = Magic[2]
      /\ Len(frame_buf) >= HeaderLen => VersionOf(buf) = Version
  BY PassingGrows
<1>3. HeaderLen = 8 /\ CrcLen = 2 /\ MaxFrame \in Nat
  BY SatAssumption DEF HeaderLen, CrcLen
<1> HIDE DEF buf
<1>4. ASSUME frame_buf' = << >>
      PROVE  PassingSoFar'
  <2>1. Len(frame_buf') = 0
    BY <1>4
  <2>2. QED
    BY <1>3, <2>1 DEF PassingSoFar
<1>5. ASSUME Len(frame_buf) >= 2, frame_buf' = buf,
             Len(buf) >= HeaderLen => VersionOf(buf) = Version
      PROVE  PassingSoFar'
  BY <1>2, <1>5 DEF PassingSoFar
<1>6. ASSUME shown' = shown
      PROVE  ShownPassed'
  BY <1>6 DEF ShownPassed
<1>7. CASE SyncByte(b)
  <2>1. shown' = shown
    BY <1>7 DEF SyncByte
  <2>2. CASE b = Magic[1] /\ frame_buf' = <<b>>
    <3>1. Len(frame_buf') = 1 /\ frame_buf'[1] = Magic[1]
      BY <2>2
    <3>2. QED
      BY <1>3, <1>6, <2>1, <3>1 DEF PassingSoFar
  <2>3. CASE Len(frame_buf) = 1 /\ b = Magic[2] /\ frame_buf' = buf
    <3>1. buf[2] = Magic[2] /\ buf[1] = Magic[1] /\ Len(buf) = 2
      BY <1>1, <1>2, <2>3
    <3>2. QED
      BY <1>3, <1>6, <2>1, <2>3, <3>1 DEF PassingSoFar
  <2>4. CASE frame_buf' = << >>
    BY <1>4, <1>6, <2>1, <2>4
  <2>5. QED
    BY <1>7, <2>2, <2>3, <2>4 DEF SyncByte, buf
<1>8. CASE HeaderByte(b)
  <2>1. shown' = shown /\ Len(frame_buf) >= 2
    BY <1>1, <1>3, <1>8 DEF HeaderByte, ReceiverOK, StageMatchesBuffer
  <2>2. \/ Len(buf) < HeaderLen /\ frame_buf' = buf
        \/ frame_buf' = << >>
        \/ VersionOf(buf) = Version /\ frame_buf' = buf
    BY <1>8 DEF HeaderByte, buf
  <2>3. CASE Len(buf) < HeaderLen /\ frame_buf' = buf
    <3>1. ~(Len(buf) >= HeaderLen)
      BY <1>1, <1>3, <2>3
    <3>2. QED
      BY <1>5, <1>6, <2>1, <2>3, <3>1
  <2>4. QED
    BY <1>4, <1>5, <1>6, <2>1, <2>2, <2>3
<1>9. CASE PayloadByte(b)
  <2>1. shown' = shown /\ frame_buf' = buf /\ Len(frame_buf) >= HeaderLen
    BY <1>9 DEF PayloadByte, ReceiverOK, StageMatchesBuffer, buf
  <2>2. Len(frame_buf) >= 2
    BY <1>1, <1>3, <2>1
  <2>3. QED
    BY <1>2, <1>5, <1>6, <2>1, <2>2
<1>10. CASE CrcByte(b)
  <2> DEFINE n == PayloadLenOf(frame_buf)
  <2>1. /\ Len(frame_buf) >= 8 /\ Len(frame_buf) < 8 + n + 2
        /\ 8 + n + 2 <= MaxFrame
    BY <1>3, <1>10 DEF CrcByte, ReceiverOK, StageMatchesBuffer
  <2>2. PayloadLenOf(buf) = n /\ VersionOf(buf) = Version
    BY <1>1, <1>2, <1>3, <2>1
  <2>3. n \in Nat
    BY <1>3, <2>1, HeaderType DEF ReceiverOK
  <2>4. buf[1] = Magic[1] /\ buf[2] = Magic[2] /\ Len(frame_buf) >= 2
    BY <1>1, <1>2, <2>1
  <2>5. CASE frame_buf' = buf /\ UNCHANGED <<state, last_seq, shown>>
    BY <1>5, <1>6, <2>2, <2>4, <2>5
  <2>6. CASE /\ Len(buf) >= HeaderLen + PayloadLenOf(buf) + CrcLen
             /\ process_frame(buf) /\ frame_buf' = << >>
    <3> HIDE DEF n
    <3>1. Len(buf) = 8 + n + 2
      BY <1>1, <1>3, <2>1, <2>2, <2>3, <2>6
    <3>2. Len(buf) = HeaderLen + PayloadLenOf(buf) + CrcLen /\ Len(buf) <= MaxFrame
      BY <1>3, <2>1, <2>2, <3>1
    <3>3. CASE CrcMatches(buf) /\ TypeOf(buf) = SNAPSHOT
      <4>1. Passes(buf)
        BY <2>2, <2>4, <3>2, <3>3 DEF Passes
      <4>2. shown' = PayloadIn(buf)
        BY <2>6, <3>3 DEF process_frame, PayloadIn
      <4>3. ShownPassed'
        BY <1>1, <4>1, <4>2 DEF ShownPassed
      <4>4. QED
        BY <1>4, <2>6, <4>3
    <3>4. CASE ~(CrcMatches(buf) /\ TypeOf(buf) = SNAPSHOT)
      <4>1. shown' = shown
        BY <2>6, <3>4 DEF process_frame
      <4>2. QED
        BY <1>4, <1>6, <2>6, <4>1
    <3>5. QED
      BY <3>3, <3>4
  <2>7. QED
    BY <1>10, <2>5, <2>6 DEF CrcByte, buf
<1>11. QED
  BY <1>7, <1>8, <1>9, <1>10 DEF feed_byte

LEMMA PassingStep ==
  ASSUME WireOK, ReceiverOK, PassingSoFar, ShownPassed, [Next]_vars
  PROVE  PassingSoFar' /\ ShownPassed'
<1>1. ASSUME UNCHANGED receiver
      PROVE  PassingSoFar' /\ ShownPassed'
  BY <1>1 DEF receiver, PassingSoFar, ShownPassed
<1>2. CASE Send
  BY <1>1, <1>2 DEF Send
<1>3. CASE Deliver
  <2>1. frame[sent + 1] \in Byte
    BY <1>3, ElementOfSeq DEF Deliver, WireOK
  <2>2. QED
    BY <1>3, <2>1, PassingByte DEF Deliver
<1>4. CASE Lose
  BY <1>1, <1>4 DEF Lose
<1>5. ASSUME NEW b \in NoiseBytes, Noise(b)
      PROVE  PassingSoFar' /\ ShownPassed'
  <2>1. b \in Byte
    BY SatAssumption
  <2>2. QED
    BY <1>5, <2>1, PassingByte DEF Noise
<1>6. CASE sat_receiver_init
  <2>1. frame_buf' = << >> /\ shown' = << >> /\ Len(frame_buf') = 0
    BY <1>6 DEF sat_receiver_init
  <2>2. QED
    BY <2>1 DEF PassingSoFar, ShownPassed, HeaderLen
<1>7. CASE UNCHANGED vars
  BY <1>1, <1>7 DEF vars
<1>8. QED
  BY <1>2, <1>3, <1>4, <1>5, <1>6, <1>7 DEF Next

\* However many bytes are lost, inserted or cut off by a reset, the display
\* shows a snapshot that was sent, unless whole foreign bytes pass the magic,
\* the version, the length and the checksum all together: a splice of two
\* frames gets through by its checksum only (sat_receiver.c:44-124).
THEOREM InventionIsCollision == Spec => [](NothingInvented \/ Collision)
<1>1. Init => PassingSoFar /\ ShownPassed
  <2> SUFFICES ASSUME Init
               PROVE  PassingSoFar /\ ShownPassed
    OBVIOUS
  <2>1. Len(frame_buf) = 0 /\ shown = << >>
    BY DEF Init
  <2>2. QED
    BY <2>1 DEF PassingSoFar, ShownPassed, HeaderLen
<1>2. WireOK /\ ReceiverOK /\ PassingSoFar /\ ShownPassed /\ [Next]_vars
        => (PassingSoFar /\ ShownPassed)'
  BY PassingStep
<1>3. ShownPassed => NothingInvented \/ Collision
  <2> SUFFICES ASSUME NEW buf \in Seq(Byte), Passes(buf), shown = PayloadIn(buf)
               PROVE  NothingInvented \/ Collision
    BY DEF ShownPassed, NothingInvented
  <2>1. CASE \A s \in SeqNum : buf # build_frame(s)
    BY <2>1 DEF Collision
  <2>2. ASSUME NEW s \in SeqNum, buf = build_frame(s)
        PROVE  NothingInvented
    <3>1. /\ TypeOf(buf) = MsgType[s] /\ PayloadLenOf(buf) = Len(Payload[s])
          /\ SubSeq(buf, HeaderLen + 1, HeaderLen + Len(Payload[s])) = Payload[s]
      BY <2>2, FrameShape
    <3>2. MsgType[s] = SNAPSHOT /\ shown = Payload[s]
      BY <3>1 DEF Passes, PayloadIn
    <3>3. QED
      BY <3>2 DEF NothingInvented
  <2>3. QED
    BY <2>1, <2>2
<1>4. QED
  BY <1>1, <1>2, <1>3, TypeInvariant, PTL DEF Spec

\* Before the first fault every frame is clean.
Undisturbed ==
  faults = 0 =>
    /\ clean \/ (Len(frame) = 0 /\ Idle)
    /\ NothingInvented

\* The type of a frame whose first bytes are those of a clean one.
LEMMA CleanType ==
  ASSUME WireOK, ReceiverOK, CleanSoFar, clean, sent < Len(frame), Len(frame_buf) >= HeaderLen,
         NEW b \in Byte
  PROVE  TypeOf(Append(frame_buf, b)) = MsgType[sending]
<1> DEFINE buf == Append(frame_buf, b)
<1>1. Len(frame_buf) \in Nat /\ \A i \in 1 .. Len(frame_buf) : buf[i] = frame_buf[i]
  BY BufferGrows DEF ReceiverOK
<1> HIDE DEF buf
<1>2. 4 \in 1 .. Len(frame_buf)
  BY <1>1 DEF HeaderLen
<1>3. buf[4] = frame_buf[4]
  BY <1>1, <1>2
<1>4. frame_buf[4] = frame[4] /\ frame = build_frame(sending)
  BY <1>2 DEF CleanSoFar
<1>5. TypeOf(build_frame(sending)) = MsgType[sending]
  BY FrameShape DEF WireOK
<1>6. QED
  BY <1>3, <1>4, <1>5 DEF TypeOf, buf

\* What a byte of a clean frame changes on the display is the frame's payload.
LEMMA UndisturbedByte ==
  ASSUME WireOK, ReceiverOK, CleanSoFar, CleanSoFar', clean, Deliver, NothingInvented
  PROVE  NothingInvented'
<1> DEFINE b == frame[sent + 1]
           buf == Append(frame_buf, b)
<1>1. /\ b \in Byte /\ feed_byte(b) /\ clean' = clean /\ sending' = sending
      /\ sent' = sent + 1 /\ sent < Len(frame) /\ frame' = frame
  BY ElementOfSeq DEF Deliver, WireOK
<1>2. sent \in Nat /\ Len(frame) \in Nat /\ sending \in SeqNum
  BY LenProperties DEF WireOK
<1> HIDE DEF b
<1>3. CASE shown' = shown
  BY <1>3 DEF NothingInvented
<1>4. CASE shown' # shown
  <2>1. CrcByte(b) /\ frame_buf' = << >> /\ process_frame(buf)
    BY <1>1, <1>4 DEF feed_byte, SyncByte, HeaderByte, PayloadByte, CrcByte
  <2>2. Len(frame_buf) >= HeaderLen
    BY <2>1 DEF CrcByte, ReceiverOK, StageMatchesBuffer
  <2>3. TypeOf(buf) = MsgType[sending]
    BY <1>1, <2>2, CleanType
  <2>4. MsgType[sending] = SNAPSHOT
    BY <1>4, <2>1, <2>3 DEF process_frame
  <2>5. Len(frame_buf') = 0
    BY <2>1
  <2>6. sent' = Len(frame')
    BY <1>1, <1>2, <2>5 DEF CleanSoFar
  <2>7. shown' = Payload[sending]
    BY <1>1, <2>4, <2>6 DEF CleanSoFar
  <2>8. QED
    BY <1>2, <2>4, <2>7 DEF NothingInvented
<1>5. QED
  BY <1>3, <1>4

LEMMA UndisturbedStep ==
  ASSUME WireOK, ReceiverOK, CleanSoFar, CleanSoFar', Undisturbed, [Next]_vars
  PROVE  Undisturbed'
<1>1. CASE Send
  <2>1. shown' = shown /\ faults' = faults
    BY <1>1 DEF Send, receiver
  <2>2. faults = 0 => Idle
    BY <1>1 DEF Send, CleanSoFar, Undisturbed
  <2>3. QED
    BY <1>1, <2>1, <2>2 DEF Send, Undisturbed, NothingInvented
<1>2. CASE Deliver
  <2>1. faults' = faults /\ clean' = clean
    BY <1>2 DEF Deliver
  <2>2. SUFFICES ASSUME faults = 0
                 PROVE  clean /\ NothingInvented'
    BY <2>1 DEF Undisturbed
  <2>3. Len(frame) # 0
    BY <1>2, LenProperties DEF Deliver, WireOK
  <2>4. clean /\ NothingInvented
    BY <2>2, <2>3 DEF Undisturbed
  <2>5. QED
    BY <1>2, <2>4, UndisturbedByte
<1>3. CASE Fault
  <2>1. faults' # 0
    BY <1>3 DEF Fault, WireOK
  <2>2. QED
    BY <2>1 DEF Undisturbed
<1>4. CASE UNCHANGED vars
  BY <1>4 DEF vars, wire, receiver, Undisturbed, NothingInvented, Idle
<1>5. QED
  BY <1>1, <1>2, <1>3, <1>4 DEF Next, Lose, Noise, sat_receiver_init

\* Until the first fault the display shows only what was sent, although
\* payloads contain the bytes with which a frame begins, and sequence numbers
\* wrap: frames are never found in the wrong place.
THEOREM FramesAreNotMistaken == Spec => [](faults = 0 => NothingInvented)
<1>1. Init => CleanSoFar /\ Undisturbed
  <2> SUFFICES ASSUME Init
               PROVE  CleanSoFar /\ Undisturbed
    OBVIOUS
  <2>1. CleanSoFar
    BY DEF Init, CleanSoFar
  <2>2. Len(frame) = 0
    BY DEF Init
  <2>3. QED
    BY <2>1, <2>2 DEF Init, Undisturbed, NothingInvented, Idle
<1>2. WireOK /\ ReceiverOK /\ CleanSoFar /\ [Next]_vars => CleanSoFar'
  BY CleanStep
<1>3. WireOK /\ ReceiverOK /\ CleanSoFar /\ CleanSoFar' /\ Undisturbed /\ [Next]_vars => Undisturbed'
  BY UndisturbedStep
<1>4. Undisturbed => (faults = 0 => NothingInvented)
  BY DEF Undisturbed
<1>5. QED
  BY <1>1, <1>2, <1>3, <1>4, TypeInvariant, PTL DEF Spec
=============================================================================
