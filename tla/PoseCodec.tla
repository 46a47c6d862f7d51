------------------------------ MODULE PoseCodec ------------------------------
(***************************************************************************)
(* The bytes of a datagram: how a double becomes an integer, hton64 and    *)
(* ntoh64 of net_endian.hpp on a little-endian machine, for signed and     *)
(* unsigned values, and how much of the struct is sent and received.       *)
(*                                                                         *)
(* A double is an integer number of steps, of which StepsPerUnit make up   *)
(* the 1 / udp_decimal_offset that travels; the rounding of the double's   *)
(* own product and quotient is left out.                                   *)
(* htonl is external: it turns the four bytes of a word around, so that    *)
(* it undoes itself, which is why ntoh64 may call hton64.                  *)
(***************************************************************************)
EXTENDS Integers, Sequences

CONSTANTS
  HalfWord,      \* 2^31 in the code
  htonl,         \* on words: 0 .. 2^32 - 1
  StepsPerUnit   \* how finely doubles divide the unit of the wire

WordSpace == 2 * HalfWord
Word == 0 .. WordSpace - 1

ASSUME CodecAssumption ==
  /\ HalfWord \in Nat \ {0}
  /\ htonl \in [Word -> Word]
  /\ \A w \in Word : htonl[htonl[w]] = w
  /\ StepsPerUnit \in Nat \ {0}

Int64 == -HalfWord * WordSpace .. HalfWord * WordSpace - 1
Uint64 == 0 .. WordSpace * WordSpace - 1

\* The argument of htonl is converted to a uint32_t; >> keeps the sign.
LowWord(value) == value % WordSpace
HighWord(value) == (value \div WordSpace) % WordSpace

\* (int64_t) w << 32, where the upper half of the words become negative.
ShiftedInt64(w) == (IF w >= HalfWord THEN w - WordSpace ELSE w) * WordSpace
ShiftedUint64(w) == w * WordSpace

reverse_bytes_int64(value) ==
  ShiftedInt64(htonl[LowWord(value)]) + htonl[HighWord(value)]

reverse_bytes_uint64(value) ==
  ShiftedUint64(htonl[LowWord(value)]) + htonl[HighWord(value)]

-----------------------------------------------------------------------------
(* The conversion to an integer drops what is less than a unit, towards 0. *)
double_to_udp_int64(d_field) ==
  IF d_field >= 0 THEN d_field \div StepsPerUnit
                  ELSE -((-d_field) \div StepsPerUnit)

udp_int64_to_double(u_field) == u_field * StepsPerUnit

\* What the receiver makes of a double the sender had.
ArrivesAs(d_field) ==
  udp_int64_to_double(
    reverse_bytes_int64(reverse_bytes_int64(double_to_udp_int64(d_field))))

\* Beyond these the cast is undefined.
Castable == {d_field \in Int : double_to_udp_int64(d_field) \in Int64}

-----------------------------------------------------------------------------
(* Sizes in bytes.  The doubles of a pose and the integers they travel as  *)
(* take 8 each, the counter 8 and the id 2.                                *)
sizeof_UdpPose == 7 * 8

sizeof_UdpPoseMessage == 8 + 2 * sizeof_UdpPose + 2   \* pack(push, 1)

\* The same fields, padded to a multiple of the largest alignment.
sizeof_PoseMessage == ((sizeof_UdpPoseMessage + 7) \div 8) * 8

\* send takes sizeof(PoseMessage) bytes from the packed struct: what lies
\* behind it in memory goes with it; recv cuts that off again.
SentBytes(bytes, behind) ==
  bytes \o SubSeq(behind, 1, sizeof_PoseMessage - sizeof_UdpPoseMessage)

ReceivedBytes(datagram) == SubSeq(datagram, 1, sizeof_UdpPoseMessage)

=============================================================================
