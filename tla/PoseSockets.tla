----------------------------- MODULE PoseSockets -----------------------------
(***************************************************************************)
(* UDPSender::create_socket and the constructor of UDPReceiver: the        *)
(* addresses getaddrinfo answers with are tried one after the other until  *)
(* a socket is open and connected to its peer, or bound to its port.       *)
(***************************************************************************)
EXTENDS Integers, Sequences

(* What becomes of an address: socket() fails; connect or bind fails, and  *)
(* the socket is shut down but never closed; or the socket can be used.    *)
Outcomes == {"no_socket", "refused", "ready"}

\* The address the loop ends with; 0 if there is none (rp == NULL), also when
\* getaddrinfo fails.
create_socket(os) ==
  LET rp[k \in 1 .. Len(os) + 1] ==
        IF k > Len(os) THEN 0 ELSE IF os[k] = "ready" THEN k ELSE rp[k + 1]
  IN  rp[1]

Usable(os) == create_socket(os) # 0

=============================================================================
