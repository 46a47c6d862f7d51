----------------------------- MODULE MCAnySender ----------------------------
(***************************************************************************)
(* Datagrams of two drones in two updates, and what a Gazebo process       *)
(* that has just started sends (counter 0).  The receiver's buffer starts  *)
(* as zeros or as some other message.                                      *)
(*                                                                         *)
(* The codec is evaluated for words of four bits, whose bytes have two.    *)
(***************************************************************************)
EXTENDS AnySender, PoseCodec

CONSTANTS a, b

MCModels == {a, b}

From(m, id, t) ==
  LET PoseOn(l) == [model |-> m, link |-> l, tick |-> t,
                    xi |-> OtherXi, fixed |-> FALSE]
  IN pose_to_udp_message([message_counter |-> t, drone |-> PoseOn("body"),
                          camera |-> PoseOn("camera"), drone_id |-> id])

MCDatagrams == {From(a, 0, 0), From(b, 1, 1), From(a, 0, 2)}

MCStack == {pose_to_udp_message(ZeroMessage), From(NoModel, 1, 2)}

MCHtonl == [w \in 0 .. 15 |-> (w % 4) * 4 + w \div 4]

\* ntoh64 undoes hton64, for every value of either type.
ASSUME RoundTrip ==
  /\ \A v \in Int64 : reverse_bytes_int64(reverse_bytes_int64(v)) = v
  /\ \A v \in Uint64 : reverse_bytes_uint64(reverse_bytes_uint64(v)) = v

\* The struct sent is shorter than what send is told to take, and the
\* receiver gets the struct whatever lies behind it.
ASSUME SizesAgree ==
  /\ sizeof_UdpPoseMessage = 122
  /\ sizeof_PoseMessage = 128
  /\ \A last, behind \in {0, 1} :
       LET Struct == [k \in 1 .. sizeof_UdpPoseMessage |-> IF k = 1 THEN 0 ELSE last]
       IN ReceivedBytes(SentBytes(Struct, [k \in 1 .. 8 |-> behind])) = Struct

=============================================================================
