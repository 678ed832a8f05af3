---------------------------- MODULE OfferAnswer ----------------------------
(***************************************************************************)
(* Media directions of the SDP offer/answer (coreapi/offeranswer.c) and    *)
(* the direction tests of coreapi/sal_linphone.c.  A media description is  *)
(* abstracted to the direction of its audio stream; "Empty" stands for a   *)
(* description that shares no codec with ours (every port 0), "None" for a *)
(* NULL SalMediaDescription pointer.                                       *)
(***************************************************************************)

Dirs == {"SendRecv", "SendOnly", "RecvOnly", "Inactive"}

Descriptions == Dirs \cup {"Empty", "None"}

\* The direction seen by the offerer, given what the answer says.
compute_dir_outgoing(local, answered) ==
  IF answered = "Inactive" THEN "Inactive"
  ELSE IF local = "SendRecv" /\ answered = "RecvOnly" THEN "SendOnly"
  ELSE IF local = "SendRecv" /\ answered = "SendOnly" THEN "RecvOnly"
  ELSE local

\* The direction of the answer, given what we can do and what is offered.
CanSend(local, offered) ==
  local \in {"SendRecv", "SendOnly"} /\ offered \in {"SendRecv", "RecvOnly"}
CanReceive(local, offered) ==
  local \in {"SendRecv", "RecvOnly"} /\ offered \in {"SendRecv", "SendOnly"}
compute_dir_incoming(local, offered) ==
  CASE CanSend(local, offered) /\ CanReceive(local, offered)   -> "SendRecv"
    [] CanSend(local, offered) /\ ~CanReceive(local, offered)  -> "SendOnly"
    [] ~CanSend(local, offered) /\ CanReceive(local, offered)  -> "RecvOnly"
    [] ~CanSend(local, offered) /\ ~CanReceive(local, offered) -> "Inactive"

\* sdp_process for an answer to our offer, and for an offer we answer.
offer_answer_initiate_outgoing(local, answer) ==
  IF answer = "Empty" THEN "Empty" ELSE compute_dir_outgoing(local, answer)
offer_answer_initiate_incoming(local, offer) ==
  IF offer = "Empty" THEN "Empty" ELSE compute_dir_incoming(local, offer)

\* sal_media_description_has_dir on a one-stream description.  A stream that
\* neither sends nor receives has "direction" RecvOnly, SendOnly and Inactive.
sal_media_description_has_dir(md, dir) ==
  LET actual == IF md = "Empty" THEN "SendRecv" ELSE md IN
  CASE dir = "RecvOnly" -> actual \notin {"SendOnly", "SendRecv"}
    [] dir = "SendOnly" -> actual \notin {"RecvOnly", "SendRecv"}
    [] dir = "SendRecv" -> actual = "SendRecv"
    [] dir = "Inactive" -> actual \notin {"SendOnly", "SendRecv", "RecvOnly"}

sal_media_description_empty(md) == md = "Empty"
=============================================================================
