--------------------------- MODULE PoseCodec_proofs ---------------------------
(***************************************************************************)
(* ntoh64 undoes hton64: what is taken from a datagram is what was put     *)
(* into it, for signed and unsigned values of any width; and a coordinate  *)
(* and a message are, but for the truncation, what they were.              *)
(***************************************************************************)
EXTENDS PoseCodec, SequenceTheorems, TLAPS

LEMMA Words == WordSpace \in Nat \ {0} /\ HalfWord \in Nat \ {0} /\ WordSpace = 2 * HalfWord
BY CodecAssumption DEF WordSpace

LEMMA Htonl ==
  ASSUME NEW w \in Word
  PROVE  htonl[w] \in Word /\ htonl[htonl[w]] = w
BY CodecAssumption

\* Quotient and remainder of a value put together from two words.
LEMMA DivMod ==
  ASSUME NEW q \in Int, NEW r \in Word
  PROVE  (q * WordSpace + r) % WordSpace = r /\ (q * WordSpace + r) \div WordSpace = q
BY Words, Z3 DEF Word

\* A value is put together from its quotient and remainder.
LEMMA Apart ==
  ASSUME NEW v \in Int
  PROVE  /\ v = (v \div WordSpace) * WordSpace + LowWord(v)
         /\ v \div WordSpace \in Int /\ LowWord(v) \in Word
BY Words, Z3 DEF LowWord, Word

LEMMA Monotone ==
  ASSUME NEW p \in Int, NEW q \in Int, p =< q
  PROVE  p * WordSpace =< q * WordSpace
BY Words, Z3

\* The upper word of a value as the signed number it stands for.
Signed(w) == IF w >= HalfWord THEN w - WordSpace ELSE w

LEMMA SignedWord ==
  ASSUME NEW w \in Word
  PROVE  /\ Signed(w) \in -HalfWord .. HalfWord - 1
         /\ Signed(w) % WordSpace = w
         /\ ShiftedInt64(w) = Signed(w) * WordSpace
<1>1. Signed(w) \in -HalfWord .. HalfWord - 1
  BY Words DEF Signed, Word
<1>2. ShiftedInt64(w) = Signed(w) * WordSpace
  BY DEF ShiftedInt64, Signed
<1>3. (0 * WordSpace + w) % WordSpace = w /\ ((-1) * WordSpace + w) % WordSpace = w
  <2>. 0 \in Int /\ (-1) \in Int
    OBVIOUS
  <2>. QED BY DivMod
<1>4. Signed(w) = 0 * WordSpace + w \/ Signed(w) = (-1) * WordSpace + w
  BY Words DEF Signed, Word
<1>. QED BY <1>1, <1>2, <1>3, <1>4

\* The upper word of a signed value stands for its quotient.
LEMMA SignedQuotient ==
  ASSUME NEW v \in Int64
  PROVE  /\ v \div WordSpace \in -HalfWord .. HalfWord - 1
         /\ HighWord(v) \in Word
         /\ Signed(HighWord(v)) = v \div WordSpace
<1>. DEFINE d == v \div WordSpace
<1>1. v \in Int /\ -HalfWord * WordSpace =< v /\ v < HalfWord * WordSpace
  BY Words, Z3 DEF Int64
<1>2. v = d * WordSpace + LowWord(v) /\ d \in Int /\ LowWord(v) \in Word
  BY <1>1, Apart
<1>. HIDE DEF d
<1>3. d < HalfWord
  <2>. SUFFICES ASSUME HalfWord =< d PROVE FALSE
    BY <1>2, Words
  <2>. HalfWord * WordSpace =< d * WordSpace
    BY <1>2, Words, Monotone
  <2>. QED BY <1>1, <1>2, Words, Z3 DEF Word
<1>4. -HalfWord =< d
  <2>. SUFFICES ASSUME d + 1 =< -HalfWord PROVE FALSE
    BY <1>2, Words
  <2>. (d + 1) * WordSpace =< (-HalfWord) * WordSpace
    BY <1>2, Words, Monotone
  <2>. QED BY <1>1, <1>2, Words, Z3 DEF Word
<1>5. HighWord(v) = IF d < 0 THEN d + WordSpace ELSE d
  <2>1. CASE d < 0
    <3>. ((-1) * WordSpace + (d + WordSpace)) % WordSpace = d + WordSpace
      BY <1>2, <1>4, <2>1, Words, DivMod DEF Word
    <3>. (-1) * WordSpace + (d + WordSpace) = d
      BY <1>2, Words
    <3>. QED BY <2>1 DEF HighWord, d
  <2>2. CASE d >= 0
    <3>. (0 * WordSpace + d) % WordSpace = d
      BY <1>2, <1>3, <2>2, Words, DivMod DEF Word
    <3>. 0 * WordSpace + d = d
      BY <1>2, Words
    <3>. QED BY <1>2, <2>2 DEF HighWord, d
  <2>. QED BY <1>2, <2>1, <2>2
<1>. QED
  BY <1>2, <1>3, <1>4, <1>5, Words DEF Signed, Word, d

\* What a signed value's bytes turned around are.
LEMMA Turned ==
  ASSUME NEW v \in Int64
  PROVE  /\ reverse_bytes_int64(v) \in Int64
         /\ LowWord(reverse_bytes_int64(v)) = htonl[HighWord(v)]
         /\ HighWord(reverse_bytes_int64(v)) = htonl[LowWord(v)]
<1>. DEFINE q == Signed(htonl[LowWord(v)])
            r == htonl[HighWord(v)]
<1>1. v \in Int
  BY Words, Z3 DEF Int64
<1>2. htonl[LowWord(v)] \in Word /\ r \in Word
  BY <1>1, Apart, SignedQuotient, Htonl
<1>3. q \in -HalfWord .. HalfWord - 1 /\ q % WordSpace = htonl[LowWord(v)]
  BY <1>2, SignedWord
<1>4. reverse_bytes_int64(v) = q * WordSpace + r
  BY <1>2, SignedWord DEF reverse_bytes_int64
<1>. HIDE DEF q, r
<1>5. (q * WordSpace + r) % WordSpace = r /\ (q * WordSpace + r) \div WordSpace = q
  <2>. q \in Int
    BY <1>3, Words
  <2>. QED BY <1>2, DivMod
<1>6. q * WordSpace + r \in Int64
  <2>1. (-HalfWord) * WordSpace =< q * WordSpace
    BY <1>3, Words, Monotone
  <2>2. q * WordSpace =< (HalfWord - 1) * WordSpace
    BY <1>3, Words, Monotone
  <2>3. (HalfWord - 1) * WordSpace = HalfWord * WordSpace - WordSpace
    BY Words, Z3
  <2>. QED BY <1>2, <1>3, <2>1, <2>2, <2>3, Words, Z3 DEF Word, Int64
<1>. QED
  BY <1>3, <1>4, <1>5, <1>6 DEF LowWord, HighWord, r

(***************************************************************************)
(* hton64 and ntoh64 of an int64_t (the poses): the receiver has the value *)
(* the sender had, negative ones included, where the upper word of the     *)
(* shifted value is a negative number.                                     *)
(***************************************************************************)
THEOREM SignedRoundTrip ==
  ASSUME NEW v \in Int64
  PROVE  /\ reverse_bytes_int64(v) \in Int64
         /\ reverse_bytes_int64(reverse_bytes_int64(v)) = v
<1>. DEFINE n == reverse_bytes_int64(v)
<1>1. n \in Int64 /\ LowWord(n) = htonl[HighWord(v)] /\ HighWord(n) = htonl[LowWord(v)]
  BY Turned
<1>2. v \in Int
  BY Words, Z3 DEF Int64
<1>3. HighWord(v) \in Word /\ LowWord(v) \in Word
  BY <1>2, Apart, SignedQuotient
<1>4. reverse_bytes_int64(n) = ShiftedInt64(HighWord(v)) + LowWord(v)
  BY <1>1, <1>3, Htonl DEF reverse_bytes_int64
<1>5. ShiftedInt64(HighWord(v)) = (v \div WordSpace) * WordSpace
  BY <1>3, SignedWord, SignedQuotient
<1>. QED
  BY <1>1, <1>2, <1>4, <1>5, Apart

(***************************************************************************)
(* The same of a uint64_t (the message counter).                           *)
(***************************************************************************)
THEOREM UnsignedRoundTrip ==
  ASSUME NEW v \in Uint64
  PROVE  /\ reverse_bytes_uint64(v) \in Uint64
         /\ reverse_bytes_uint64(reverse_bytes_uint64(v)) = v
<1>. DEFINE d == v \div WordSpace
            q == htonl[LowWord(v)]
            r == htonl[HighWord(v)]
            n == reverse_bytes_uint64(v)
<1>1. v \in Int /\ 0 =< v /\ v < WordSpace * WordSpace
  BY Words, Z3 DEF Uint64
<1>2. v = d * WordSpace + LowWord(v) /\ d \in Int /\ LowWord(v) \in Word
  BY <1>1, Apart
<1>3. d \in Word
  <2>. HIDE DEF d
  <2>1. d < WordSpace
    <3>. SUFFICES ASSUME WordSpace =< d PROVE FALSE
      BY <1>2, Words
    <3>. WordSpace * WordSpace =< d * WordSpace
      BY <1>2, Words, Monotone
    <3>. QED BY <1>1, <1>2, Words, Z3 DEF Word
  <2>2. 0 =< d
    <3>. SUFFICES ASSUME d =< -1 PROVE FALSE
      BY <1>2
    <3>. d * WordSpace =< (-1) * WordSpace
      BY <1>2, Words, Monotone
    <3>. QED BY <1>1, <1>2, Words, Z3 DEF Word
  <2>. QED BY <1>2, <2>1, <2>2, Words DEF Word
<1>4. HighWord(v) = d
  <2>. HIDE DEF d
  <2>. (0 * WordSpace + d) % WordSpace = d /\ 0 * WordSpace + d = d
    BY <1>2, <1>3, Words, DivMod
  <2>. QED BY DEF HighWord, d
<1>5. q \in Word /\ r \in Word /\ htonl[q] = LowWord(v) /\ htonl[r] = d
  BY <1>2, <1>3, <1>4, Htonl
<1>6. n = q * WordSpace + r
  BY DEF reverse_bytes_uint64, ShiftedUint64
<1>7. q \in 0 .. WordSpace - 1 /\ r \in 0 .. WordSpace - 1 /\ q \in Int
  BY <1>5, Words DEF Word
<1>. HIDE DEF d, q, r, n
<1>8. n % WordSpace = r /\ n \div WordSpace = q
  BY <1>5, <1>6, <1>7, DivMod
<1>9. q % WordSpace = q
  <2>. (0 * WordSpace + q) % WordSpace = q /\ 0 * WordSpace + q = q
    BY <1>5, <1>7, Words, DivMod
  <2>. QED OBVIOUS
<1>10. n \in Uint64
  <2>1. 0 * WordSpace =< q * WordSpace /\ q * WordSpace =< (WordSpace - 1) * WordSpace
    BY <1>7, Words, Monotone
  <2>2. (WordSpace - 1) * WordSpace = WordSpace * WordSpace - WordSpace
    BY Words, Z3
  <2>. QED BY <1>6, <1>7, <2>1, <2>2, Words, Z3 DEF Uint64
<1>11. reverse_bytes_uint64(n) = d * WordSpace + LowWord(v)
  BY <1>5, <1>8, <1>9 DEF reverse_bytes_uint64, ShiftedUint64, LowWord, HighWord
<1>. QED
  BY <1>2, <1>10, <1>11 DEF n

(***************************************************************************)
(* A coordinate arrives less than a unit from where it was, on the same    *)
(* side of 0 and no farther from it: nothing jumps across an axis, and a   *)
(* coordinate of less than a unit arrives as 0.                            *)
(***************************************************************************)
THEOREM ArrivesTruncated ==
  ASSUME NEW d \in Castable
  PROVE  \/ 0 =< ArrivesAs(d) /\ ArrivesAs(d) =< d /\ d < ArrivesAs(d) + StepsPerUnit
         \/ d =< ArrivesAs(d) /\ ArrivesAs(d) =< 0 /\ ArrivesAs(d) - StepsPerUnit < d
<1>. d \in Int /\ double_to_udp_int64(d) \in Int64
  BY DEF Castable
<1>1. StepsPerUnit \in Nat \ {0}
  BY CodecAssumption
<1>2. ArrivesAs(d) = double_to_udp_int64(d) * StepsPerUnit
  BY SignedRoundTrip DEF ArrivesAs, udp_int64_to_double
<1>3. CASE d >= 0
  <2>. DEFINE q == d \div StepsPerUnit
  <2>1. q \in Int /\ q * StepsPerUnit =< d /\ d < q * StepsPerUnit + StepsPerUnit /\ 0 =< q
    BY <1>1, <1>3, Z3
  <2>2. 0 =< q * StepsPerUnit
    BY <1>1, <2>1, Z3
  <2>. QED BY <1>2, <1>3, <2>1, <2>2 DEF double_to_udp_int64
<1>4. CASE d < 0
  <2>. DEFINE q == (-d) \div StepsPerUnit
  <2>1. q \in Int /\ q * StepsPerUnit =< -d /\ -d < q * StepsPerUnit + StepsPerUnit /\ 0 =< q
    BY <1>1, <1>4, Z3
  <2>2. 0 =< q * StepsPerUnit /\ (-q) * StepsPerUnit = -(q * StepsPerUnit)
    BY <1>1, <2>1, Z3
  <2>3. ArrivesAs(d) = (-q) * StepsPerUnit
    BY <1>2, <1>4 DEF double_to_udp_int64
  <2>. HIDE DEF q
  <2>. QED BY <1>1, <2>1, <2>2, <2>3, Z3
<1>. QED BY <1>3, <1>4

-----------------------------------------------------------------------------
\* What is appended to a sequence can be cut off again.
LEMMA CutOff ==
  ASSUME NEW S, NEW s \in Seq(S), NEW t \in Seq(S), Len(s) > 0
  PROVE  /\ Len(s \o t) = Len(s) + Len(t)
         /\ SubSeq(s \o t, 1, Len(s)) = s
<1>1. Len(s \o t) = Len(s) + Len(t)
  OBVIOUS
<1>2. 1 \in 1 .. Len(s) /\ Len(s) \in 1 .. Len(s)
  OBVIOUS
<1>3. SubSeq(s \o t, 1, Len(s)) = SubSeq(s, 1, Len(s))
  BY <1>2, SubSeqOfConcat1, Zenon
<1>4. SubSeq(s, 1, Len(s)) = s
  BY SubSeqFull, Zenon
<1>. QED BY <1>1, <1>3, <1>4

(***************************************************************************)
(* The sender puts more bytes on the wire than the message has             *)
(* (udp_sender.cpp:73), fewer than 8 that lie behind it in memory, and the *)
(* receiver is none the wiser: it has the bytes of the message, whatever   *)
(* came with them.                                                         *)
(***************************************************************************)
THEOREM StructArrives ==
  ASSUME NEW Byte, NEW bytes \in Seq(Byte), Len(bytes) = sizeof_UdpPoseMessage,
         NEW behind \in Seq(Byte),
         Len(behind) >= sizeof_PoseMessage - sizeof_UdpPoseMessage
  PROVE  /\ sizeof_UdpPoseMessage =< sizeof_PoseMessage
         /\ sizeof_PoseMessage < sizeof_UdpPoseMessage + 8
         /\ Len(SentBytes(bytes, behind)) = sizeof_PoseMessage
         /\ ReceivedBytes(SentBytes(bytes, behind)) = bytes
<1>1. sizeof_UdpPoseMessage = 122 /\ sizeof_PoseMessage = 128
  BY DEF sizeof_UdpPoseMessage, sizeof_PoseMessage, sizeof_UdpPose
<1>2. SentBytes(bytes, behind) = bytes \o SubSeq(behind, 1, 6)
  BY <1>1 DEF SentBytes
<1>3. SubSeq(behind, 1, 6) \in Seq(Byte) /\ Len(SubSeq(behind, 1, 6)) = 6
  BY <1>1
<1>4. Len(bytes) = 122 /\ Len(bytes) > 0
  BY <1>1
<1>5. /\ Len(SentBytes(bytes, behind)) = Len(bytes) + Len(SubSeq(behind, 1, 6))
      /\ SubSeq(SentBytes(bytes, behind), 1, Len(bytes)) = bytes
  <2>. DEFINE tail == SubSeq(behind, 1, 6)
  <2>1. tail \in Seq(Byte)
    BY <1>3
  <2>2. SentBytes(bytes, behind) = bytes \o tail
    BY <1>2
  <2>. HIDE DEF tail
  <2>3. Len(bytes \o tail) = Len(bytes) + Len(tail)
    BY <2>1
  <2>4. SubSeq(bytes \o tail, 1, Len(bytes)) = bytes
    BY <1>4, <2>1, CutOff, Zenon
  <2>. QED BY <2>2, <2>3, <2>4 DEF tail
<1>6. ReceivedBytes(SentBytes(bytes, behind)) = bytes
  BY <1>1, <1>4, <1>5, Zenon DEF ReceivedBytes
<1>. QED
  BY <1>1, <1>3, <1>4, <1>5, <1>6

=============================================================================
