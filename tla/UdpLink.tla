------------------------------- MODULE UdpLink ------------------------------
(***************************************************************************)
(* The datagrams between the sender's socket and the receiver's recv: the  *)
(* network and the receiving kernel's socket buffer.  Nothing acknowledges *)
(* a datagram, so it may be lost, duplicated or overtaken; a datagram that *)
(* finds the buffer full is dropped.  External to the repository.          *)
(***************************************************************************)
EXTENDS Integers, SequencesExt

CONSTANTS
  WireCap,     \* datagrams the socket buffer holds
  LinkFaults   \* the faults this link shows

ASSUME LinkAssumption ==
  /\ WireCap \in Nat \ {0}
  /\ LinkFaults \subseteq {"lose", "duplicate", "reorder"}

VARIABLE wire   \* sequence of datagrams in flight, oldest first

WireInit == wire = << >>

Transmit(d) ==
  wire' = IF Len(wire) < WireCap THEN Append(wire, d) ELSE wire

Lose ==
  /\ "lose" \in LinkFaults
  /\ \E k \in 1 .. Len(wire) : wire' = RemoveAt(wire, k)

Duplicate ==
  /\ "duplicate" \in LinkFaults
  /\ Len(wire) < WireCap
  /\ \E k \in 1 .. Len(wire) : wire' = Append(wire, wire[k])

Overtake ==
  /\ "reorder" \in LinkFaults
  /\ \E k \in 1 .. Len(wire) - 1 :
        wire' = [wire EXCEPT ![k] = wire[k + 1], ![k + 1] = wire[k]]

LinkNext == Lose \/ Duplicate \/ Overtake

=============================================================================
