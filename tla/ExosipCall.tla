----------------------------- MODULE ExosipCall -----------------------------
(***************************************************************************)
(* One eXosip call context (eXosip_call_t, its dialog and its INVITE       *)
(* transactions) as the core sees it through the eXosip_call_* functions.  *)
(* The operators map a context to the context the API call leaves; the     *)
(* network side of the context moves in CallControl.                       *)
(*                                                                         *)
(*   stage "none"      no context                                          *)
(*         "calling"   INVITE sent, no response yet                        *)
(*         "early"     INVITE sent, a provisional response arrived         *)
(*         "incoming"  INVITE received, no final response sent             *)
(*         "conf"      dialog confirmed (osip DIALOG_CONFIRMED)            *)
(*         "refused"   a final response >= 300 is queued on the IST        *)
(*         "failed"    the initial INVITE ended with no dialog             *)
(*         "closed"    a BYE was sent or received (d_dialog is NULL)       *)
(*         "released"  context freed, CALL_RELEASED was reported           *)
(*   re    "out"/"in": a re-INVITE of ours / of the peer is unanswered     *)
(*   offer direction of our unanswered re-INVITE                           *)
(*   told  direction of the last SDP of ours that the peer has accepted    *)
(*   ack   an ACK carrying the peer's SDP answer is awaited                *)
(***************************************************************************)
EXTENDS OfferAnswer

Stages == {"none", "calling", "early", "incoming", "conf", "refused",
           "failed", "closed", "released"}

Contexts == [stage : Stages, re : {"none", "out", "in"}, offer : Dirs,
             told : Descriptions, ack : BOOLEAN]

NoContext == [stage |-> "none", re |-> "none", offer |-> "SendRecv",
              told |-> "None", ack |-> FALSE]

eXosip_call_send_initial_invite(local) ==
  [NoContext EXCEPT !.stage = "calling", !.offer = local]

\* eXosip_call_build_request(did, "INVITE") succeeds: the dialog exists and
\* the last INVITE transaction of either direction is over.
CanReinvite(x) == x.stage = "conf" /\ x.re = "none"

eXosip_call_send_request(x, local) == [x EXCEPT !.re = "out", !.offer = local]

\* A 2xx to the pending INVITE; "None" is an INVITE without SDP, whose answer
\* comes in the ACK.  A transaction that has been answered is left alone.
CanAnswer(x) == x.stage = "incoming" \/ (x.stage = "conf" /\ x.re = "in")

eXosip_call_send_200(x, answer, local) ==
  IF CanAnswer(x)
  THEN [x EXCEPT !.stage = "conf", !.re = "none", !.ack = (answer = "None"),
                 !.told = IF answer = "None" THEN local ELSE answer]
  ELSE x

\* A final response >= 300 to the initial INVITE.
eXosip_call_refuse(x) ==
  IF x.stage = "incoming" THEN [x EXCEPT !.stage = "refused"] ELSE x

\* eXosip_call_terminate(cid, did): BYE on a confirmed dialog, 603 to an
\* incoming INVITE; CANCEL after a provisional response changes nothing until
\* the peer answers, and before one nothing can be sent (OSIP_WRONG_STATE).
\* "byDialog" says whether did was given: without it the dialog is not looked
\* up, so a dialog confirmed behind the caller's back is not closed.
eXosip_call_terminate(x, byDialog) ==
  IF ~byDialog THEN x
  ELSE IF x.stage = "conf"
  THEN [x EXCEPT !.stage = "closed", !.ack = FALSE,
                 !.re = IF x.re = "in" THEN "none" ELSE x.re]
  ELSE eXosip_call_refuse(x)
=============================================================================
