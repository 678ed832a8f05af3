--------------------------- MODULE MCCallControl ---------------------------
(***************************************************************************)
(* Instances of CallControl for TLC: the SDP that the peers may send.      *)
(* Each configuration MC<Name>.cfg combines two of these sets with bounds  *)
(* and with the optional behaviours its properties are about.              *)
(***************************************************************************)
EXTENDS CallControl

\* Two-way audio, or no codec in common.
Ordinary == {"SendRecv", "Empty"}

\* An offer that may also be left to us.
Offerless == {"SendRecv", "None"}

\* The answers to a hold and a resume: two-way, or the peer holds us, or is held.
HeldOrNot == {"SendRecv", "SendOnly", "RecvOnly"}

\* Every answer of a peer to an offer.
Holding == {"SendRecv", "SendOnly", "RecvOnly", "Inactive", "Empty"}

AnyOffer == Holding \cup {"None"}
=============================================================================
