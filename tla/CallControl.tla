---------------------------- MODULE CallControl ----------------------------
(***************************************************************************)
(* The calls of a LinphoneCore: coreapi/linphonecore.c, linphonecall.c and *)
(* callbacks.c over the SalOp layer of sal_eXosip2.c and the eXosip call   *)
(* contexts of ExosipCall.                                                 *)
(*                                                                         *)
(* Two threads meet here.  The eXosip thread moves the contexts and        *)
(* appends to the event queue (eXosip.j_events); the application's thread  *)
(* runs linphone_core_iterate, which takes the events off the queue and    *)
(* runs their handlers, and calls the API between them.  Every handler and *)
(* every API function is one action: an operator maps the state record "s" *)
(* to the state the C function leaves, in the order of its statements.     *)
(***************************************************************************)
EXTENDS Integers, Sequences, FiniteSets, ExosipCall

CONSTANTS
  MaxCid,    \* number of LinphoneCall objects created in a behaviour (bound)
  MaxCalls,  \* lc->max_calls
  MaxQueue,  \* bound on the events the network adds to an undrained queue
  Answers,   \* SDP the peer may answer with (200 OK, 183, ACK)
  Offers,    \* SDP the peer may offer (INVITE, re-INVITE); "None" is no SDP
  Features   \* the optional behaviours switched on in an instance

ASSUME ConstantsAssumption ==
  /\ MaxCid \in Nat /\ MaxCalls \in Nat /\ MaxQueue \in Nat
  /\ Answers \subseteq Descriptions \ {"None"}
  /\ Offers \subseteq Descriptions

Calls == 1 .. MaxCid
NoCall == 0

VARIABLES
  calls,    \* lc->calls
  current,  \* lc->current_call
  ring,     \* lc->ringstream # NULL
  friends,  \* presence last notified to the friends
  call,     \* the LinphoneCall objects, each with its SalOp
  ctx,      \* the eXosip contexts, by cid
  evq       \* the eXosip event queue

vars == <<calls, current, ring, friends, call, ctx, evq>>

(***************************************************************************)
(* LinphoneCallState.  Refered and Updated are events, not states: the     *)
(* first never enters call->state, the second is left in the same handler. *)
(* A call that does not exist yet is Idle.                                 *)
(***************************************************************************)
Outgoing == {"OutgoingProgress", "OutgoingRinging", "OutgoingEarlyMedia"}
Incoming == {"IncomingReceived", "IncomingEarlyMedia"}
Live == Outgoing \cup Incoming \cup
        {"OutgoingInit", "Connected", "StreamsRunning", "Pausing", "Paused",
         "Resuming", "PausedByRemote", "UpdatedByRemote"}
Ended == {"End", "Error"}
CallStates == Live \cup Ended \cup {"Idle", "Released"}

\* LinphoneCall and the fields of its SalOp: "op" says that call->op is not
\* NULL, "did" that op->did is known; "media" is the audio stream (none,
\* initialised, started); "local", "remote" and "result" are the localdesc,
\* remote_media and result descriptions, "desc" is call->resultdesc.
CallRecords ==
  [state : CallStates, refcnt : Int, op : BOOLEAN, terminated : BOOLEAN,
   did : BOOLEAN, media : {"none", "init", "on"}, local : Dirs,
   remote : Descriptions, result : Descriptions, desc : Descriptions,
   media_pending : BOOLEAN, refer_pending : BOOLEAN,
   was_automatically_paused : BOOLEAN, referer : Calls \cup {NoCall},
   srtp : BOOLEAN]

NewCall ==
  [state |-> "Idle", refcnt |-> 0, op |-> FALSE, terminated |-> FALSE,
   did |-> FALSE, media |-> "none", local |-> "SendRecv", remote |-> "None",
   result |-> "None", desc |-> "None", media_pending |-> FALSE,
   refer_pending |-> FALSE, was_automatically_paused |-> FALSE,
   referer |-> NoCall, srtp |-> FALSE]

Failures == {"Declined", "Media", "Other", "NoResponse"}

EventTypes == {"INVITE", "PROCEEDING", "RINGING", "ANSWERED", "FAILURE",
               "CLOSED", "REINVITE", "ACK", "REFER", "RELEASED"}

Events == [type : EventTypes \ {"FAILURE"}, cid : Calls, arg : Descriptions]
          \cup [type : {"FAILURE"}, cid : Calls, arg : Failures]

Event(type, c, arg) == [type |-> type, cid |-> c, arg |-> arg]

\* The state as one record, on which the operators below work.
States ==
  [calls : SUBSET Calls, current : Calls \cup {NoCall}, ring : BOOLEAN,
   friends : {"presence_mode", "OnThePhone"}, call : [Calls -> CallRecords],
   ctx : [Calls -> Contexts], evq : Seq(Events)]

Now == [calls |-> calls, current |-> current, ring |-> ring,
        friends |-> friends, call |-> call, ctx |-> ctx, evq |-> evq]

TypeOK == Now \in States

\* The LinphoneCall record of c becomes k, its context becomes x.
Store(s, c, k) == [s EXCEPT !.call[c] = k]
Signal(s, c, x) == [s EXCEPT !.ctx[c] = x]

Becomes(s) ==
  /\ calls' = s.calls /\ current' = s.current /\ ring' = s.ring
  /\ friends' = s.friends /\ call' = s.call /\ ctx' = s.ctx /\ evq' = s.evq

Init ==
  /\ calls = {} /\ current = NoCall /\ ring = FALSE
  /\ friends = "presence_mode"
  /\ call = [c \in Calls |-> NewCall]
  /\ ctx = [c \in Calls |-> NoContext]
  /\ evq = << >>

-----------------------------------------------------------------------------
(***************************************************************************)
(* linphonecall.c: reference counts, the state change and its effects      *)
(***************************************************************************)

\* The last reference frees the call, and its SalOp if it still has one.
linphone_call_unref(s, c) ==
  LET k == s.call[c] IN
  Store(s, c, [k EXCEPT !.refcnt = @ - 1, !.op = @ /\ k.refcnt # 1])

\* Mutant: the reference is leaked.
ReleaseReferer_Leaks(s, c) == Store(s, c, [s.call[c] EXCEPT !.referer = NoCall])

\* The reference that the target of a transfer holds on the call it comes from.
ReleaseReferer(s, c) ==
  LET referer == s.call[c].referer
      forgotten == Store(s, c, [s.call[c] EXCEPT !.referer = NoCall])
  IN IF referer = NoCall THEN s ELSE linphone_call_unref(forgotten, referer)

\* Mutant: the current call is not cleared.
SetTerminated_KeepsCurrent(s, c) ==
  ReleaseReferer([s EXCEPT !.calls = @ \ {c},
    !.friends = IF s.calls \subseteq {c} THEN "presence_mode" ELSE @], c)

\* Mutant: the presence is restored although other calls go on.
SetTerminated_RestoresPresence(s, c) ==
  ReleaseReferer([s EXCEPT !.calls = @ \ {c}, !.friends = "presence_mode",
    !.current = IF @ = c THEN NoCall ELSE @], c)

\* Mutant: only the current call is taken off the list.
SetTerminated_OnlyCurrentLeaves(s, c) ==
  ReleaseReferer([s EXCEPT !.calls = IF s.current = c THEN @ \ {c} ELSE @,
    !.current = IF @ = c THEN NoCall ELSE @,
    !.friends = IF s.calls \subseteq {c} THEN "presence_mode" ELSE @], c)

linphone_call_set_terminated(s, c) ==
  ReleaseReferer([s EXCEPT !.calls = @ \ {c},
    !.current = IF @ = c THEN NoCall ELSE @,
    !.friends = IF s.calls \subseteq {c} THEN "presence_mode" ELSE @], c)

\* Mutant: an ended call may change its state.
SetState_EndIsNotFinal(s, c, cstate) ==
  LET moved == Store(s, c, [s.call[c] EXCEPT !.state = cstate])
      closed == Store(s, c, [s.call[c] EXCEPT !.state = cstate, !.op = FALSE])
  IN IF s.call[c].state = cstate THEN s
     ELSE IF cstate \in Ended THEN linphone_call_set_terminated(moved, c)
     ELSE IF cstate = "Released" THEN linphone_call_unref(closed, c)
     ELSE moved

linphone_call_set_state(s, c, cstate) ==
  LET moved == Store(s, c, [s.call[c] EXCEPT !.state = cstate])
      closed == Store(s, c, [s.call[c] EXCEPT !.state = cstate, !.op = FALSE])
  IN IF s.call[c].state = cstate \/ (s.call[c].state \in Ended /\ cstate # "Released")
     THEN s
     ELSE IF cstate \in Ended THEN linphone_call_set_terminated(moved, c)
     ELSE IF cstate = "Released" THEN linphone_call_unref(closed, c)
     ELSE moved

linphone_call_stop_media_streams(s, c) ==
  Store(s, c, [s.call[c] EXCEPT !.media = "none"])

\* The streams start unless the description is inactive or has no port.
linphone_call_start_media_streams(md) ==
  IF md \in {"Inactive", "Empty"} THEN "init" ELSE "on"

\* The description of the call, and what runs once it is taken up.
WithStreams(k, md) ==
  [k EXCEPT !.media_pending = (md = "None"),
            !.desc = md,
            !.media = IF md # "None" THEN linphone_call_start_media_streams(md)
                      ELSE IF @ = "on" THEN "init" ELSE @]

Quiet(s) == [s EXCEPT !.ring = FALSE]

\* Mutant: the tone goes on.
UpdateStreams_KeepsRinging(s, c, md) == Store(s, c, WithStreams(s.call[c], md))

\* Mutant: streams that were stopped by a pause are not created again.
UpdateStreams_NotRecreated(s, c, md) ==
  LET k == s.call[c] IN
  IF k.media = "none" THEN Quiet(Store(s, c, [k EXCEPT !.desc = md]))
  ELSE Quiet(Store(s, c, WithStreams(k, md)))

linphone_core_update_streams(s, c, md) == Quiet(Store(s, c, WithStreams(s.call[c], md)))

-----------------------------------------------------------------------------
(***************************************************************************)
(* sal_eXosip2.c: what the core asks of the signalling layer               *)
(***************************************************************************)

\* sdp_process runs when a result is asked for and only an offer is there.
sal_call_get_final_media_description(s, c) ==
  LET k == s.call[c] IN
  IF k.result = "None" /\ k.remote # "None"
  THEN Store(s, c, [k EXCEPT !.result = offer_answer_initiate_incoming(k.local, k.remote)])
  ELSE s

sal_call_accept(s, c) ==
  LET t == sal_call_get_final_media_description(s, c) IN
  IF CanAnswer(s.ctx[c])
  THEN Signal(t, c, eXosip_call_send_200(s.ctx[c], t.call[c].result, t.call[c].local))
  ELSE s

sal_call_terminate(s, c) ==
  LET k == s.call[c] IN
  IF ~k.op THEN s
  ELSE Store(Signal(s, c, eXosip_call_terminate(s.ctx[c], k.did)),
             c, [k EXCEPT !.terminated = TRUE])

\* sal_call_set_local_media_description.
SetLocal(s, c, dir) == Store(s, c, [s.call[c] EXCEPT !.local = dir])

\* sal_call_update: its result is CanReinvite of the state it was called in.
sal_call_update(s, c) ==
  IF CanReinvite(s.ctx[c])
  THEN Signal(s, c, eXosip_call_send_request(s.ctx[c], s.call[c].local))
  ELSE s

sal_call(s, c, sent) ==
  LET k == s.call[c] IN
  Signal(Store(s, c, [k EXCEPT !.terminated = FALSE]),
         c, IF sent THEN eXosip_call_send_initial_invite(k.local) ELSE NoContext)

-----------------------------------------------------------------------------
(***************************************************************************)
(* linphonecore.c                                                          *)
(***************************************************************************)

\* Mutant: the re-INVITE is sent before the direction is changed.
PauseCall_AsksTooEarly(s, c) ==
  LET asked == [SetLocal(sal_call_update(s, c), c, "SendOnly") EXCEPT !.current = NoCall] IN
  IF s.call[c].state \notin {"StreamsRunning", "PausedByRemote"} THEN s
  ELSE linphone_call_stop_media_streams(linphone_call_set_state(asked, c, "Pausing"), c)

\* Mutant: a peer that already holds us is not asked.
PauseCall_NotAsked(s, c) ==
  LET held == s.call[c].state = "PausedByRemote"
      asked == IF held THEN s ELSE sal_call_update(SetLocal(s, c, "SendOnly"), c)
      paused == linphone_call_set_state([asked EXCEPT !.current = NoCall], c, "Pausing")
  IN IF s.call[c].state \notin {"StreamsRunning", "PausedByRemote"} THEN s
     ELSE linphone_call_stop_media_streams(paused, c)

\* The re-INVITE may be impossible to send: that is only warned about.
linphone_core_pause_call(s, c) ==
  LET desc == s.call[c].desc
      asked == sal_call_update(SetLocal(s, c, "SendOnly"), c)
      paused == linphone_call_set_state([asked EXCEPT !.current = NoCall], c, "Pausing")
  IN IF s.call[c].state \notin {"StreamsRunning", "PausedByRemote"} THEN s
     ELSE IF ~sal_media_description_has_dir(desc, "SendRecv")
             /\ ~sal_media_description_has_dir(desc, "RecvOnly") THEN s
     ELSE linphone_call_stop_media_streams(paused, c)

linphone_core_preempt_sound_resources(s) ==
  IF s.current = NoCall THEN s ELSE linphone_core_pause_call(s, s.current)

linphone_core_resume_call(s, c) ==
  LET freed == linphone_core_preempt_sound_resources(s)
      fresh == SetLocal(freed, c, "SendRecv")
  IN IF s.call[c].state # "Paused" THEN s
     ELSE IF ~CanReinvite(fresh.ctx[c]) THEN fresh
     ELSE linphone_call_set_state(sal_call_update(fresh, c), c, "Resuming")

linphone_core_start_invite(s, c, sent) ==
  LET ready == Store(s, c, [s.call[c] EXCEPT !.media = "init", !.media_pending = TRUE])
      called == sal_call(ready, c, sent)
  IN IF sent THEN linphone_call_set_state(called, c, "OutgoingProgress")
     ELSE linphone_call_set_state(linphone_call_stop_media_streams(called, c), c, "Error")

\* Mutant: one call too many.
CanWeAddCall_OneMore(s) == Cardinality(s.calls) <= MaxCalls

linphone_core_can_we_add_call(s) == Cardinality(s.calls) < MaxCalls

\* linphone_call_new_outgoing, which takes a reference on the referer.
linphone_call_new_outgoing(s, c, referer) ==
  LET made == [Store(s, c, [NewCall EXCEPT !.refcnt = 1, !.op = TRUE, !.referer = referer,
                                           !.srtp = "srtp" \in Features])
               EXCEPT !.friends = "OnThePhone"]
  IN IF referer = NoCall THEN made
     ELSE Store(made, referer, [s.call[referer] EXCEPT !.refcnt = @ + 1])

\* "ping" defers the INVITE until the OPTIONS ping is answered or 2 s are over.
linphone_core_invite_address_with_params(s, c, referer, ping, sent) ==
  LET freed == linphone_core_preempt_sound_resources(s)
      made == linphone_call_new_outgoing(freed, c, referer)
      added == [made EXCEPT !.calls = @ \cup {c}, !.current = c]
      started == linphone_call_set_state(added, c, "OutgoingInit")
  IN IF ~linphone_core_can_we_add_call(freed) THEN freed
     ELSE IF ping THEN started ELSE linphone_core_start_invite(started, c, sent)

\* "n" is the object of the new call, NoCall when the refered address cannot
\* be interpreted.  The NOTIFY to the peer that refered us is not modelled.
linphone_core_start_refered_call(s, c, n) ==
  LET taken == Store(s, c, [s.call[c] EXCEPT !.refer_pending = FALSE]) IN
  IF ~s.call[c].refer_pending THEN s
  ELSE IF n = NoCall THEN taken
  ELSE linphone_core_invite_address_with_params(taken, n, c, FALSE, TRUE)

\* Mutant: the streams go on.
TerminateCall_KeepsStreams(s, c) ==
  linphone_call_set_state(Quiet(sal_call_terminate(s, c)), c, "End")

linphone_core_terminate_call(s, c) ==
  LET told == Quiet(sal_call_terminate(s, c)) IN
  linphone_call_set_state(linphone_call_stop_media_streams(told, c), c, "End")

linphone_core_abort_call(s, c) ==
  LET told == Quiet(sal_call_terminate(s, c)) IN
  linphone_call_set_state(linphone_call_stop_media_streams(told, c), c, "Error")

\* The error of sal_call_accept is ignored, and an offer that is still to come
\* (offerless INVITE) leaves the call Connected until the ACK.
linphone_core_accept_call(s, c) ==
  LET freed == IF s.current = c THEN s ELSE linphone_core_preempt_sound_resources(s)
      ready == Quiet(Store(freed, c, [freed.call[c] EXCEPT
                                        !.media = IF @ = "none" THEN "init" ELSE @]))
      taken == [sal_call_accept(ready, c) EXCEPT !.current = c]
      connected == sal_call_get_final_media_description(
                     linphone_call_set_state(taken, c, "Connected"), c)
      md == connected.call[c].result
      running == linphone_core_update_streams(connected, c, md)
  IN IF s.call[c].state = "Connected" THEN s
     ELSE IF md = "None" THEN running
     ELSE linphone_call_set_state(running, c, "StreamsRunning")

Usable(md) == md # "None" /\ ~sal_media_description_empty(md)

\* Answer a re-INVITE and follow what was negotiated.
call_accept_update(s, c) ==
  LET t == sal_call_get_final_media_description(sal_call_accept(s, c), c)
      md == t.call[c].result
  IN IF Usable(md) THEN linphone_core_update_streams(t, c, md) ELSE t

linphone_core_accept_call_update(s, c) ==
  IF s.call[c].state # "UpdatedByRemote" THEN s
  ELSE linphone_call_set_state(call_accept_update(SetLocal(s, c, "SendRecv"), c),
                               c, "StreamsRunning")

\* The peer's SDP in an answer: sdp_process of an answer to our offer.
SetAnswer(s, c, md) ==
  LET k == s.call[c] IN
  Store(s, c, [k EXCEPT !.remote = md,
                        !.result = offer_answer_initiate_outgoing(k.local, md)])

-----------------------------------------------------------------------------
(***************************************************************************)
(* callbacks.c with the event handlers of sal_eXosip2.c.  "sal_" marks the *)
(* handler of the event, the other name is the callback it invokes.  A     *)
(* handler whose SalOp is gone (find_op returns NULL) does nothing, except *)
(* that a provisional or final response then cancels or ends the call.     *)
(***************************************************************************)

\* Mutant: a response to a call that is over is ignored.
Hangup_Ignores(s, c) == s

Hangup(s, c) == Signal(s, c, eXosip_call_terminate(s.ctx[c], TRUE))

already_a_call_pending(s) ==
  \E c \in s.calls :
    s.call[c].state \in (Outgoing \cup {"IncomingReceived", "OutgoingInit"})

linphone_call_new_incoming(s, c, md) ==
  sal_call_get_final_media_description(
    [Store(s, c, [NewCall EXCEPT !.refcnt = 1, !.op = TRUE, !.did = TRUE, !.remote = md])
     EXCEPT !.friends = "OnThePhone"], c)

\* What happens at the state notification of an incoming call: the
\* application may answer or end the call from within the callback.
Notified(s, c, reaction) ==
  CASE reaction = "accept"    -> linphone_core_accept_call(s, c)
    [] reaction = "terminate" -> linphone_core_terminate_call(s, c)
    [] reaction = "none"      -> s

\* "refuse" is the presence mode or the address of the caller: "busy" for
\* Busy, Offline, DoNotDisturb and for a caller we already have a call with,
\* "moved" for Moved without an alternative contact, which answers nothing.
call_received(s, c, md, refuse, reaction) ==
  LET decline(u) == Signal(u, c, eXosip_call_refuse(u.ctx[c]))
      made == linphone_call_new_incoming(s, c, md)
      unwanted == Store(decline(made), c, NewCall)
      only == s.calls = {}
      added == [made EXCEPT !.calls = @ \cup {c},
                            !.current = IF only THEN c ELSE @,
                            !.ring = @ \/ only]
      received == Notified(linphone_call_set_state(added, c, "IncomingReceived"),
                           c, reaction)
      early == linphone_call_set_state(received, c, "IncomingEarlyMedia")
  IN CASE refuse = "moved" -> s
       [] refuse = "busy" -> decline(s)
       [] refuse = "no" /\ (~linphone_core_can_we_add_call(s)
                            \/ already_a_call_pending(s)) -> decline(s)
       [] refuse = "no" /\ linphone_core_can_we_add_call(s)
                       /\ ~already_a_call_pending(s) ->
            IF made.call[c].result = "Empty" THEN unwanted
            ELSE IF received.call[c].state = "IncomingReceived"
                    /\ "earlymedia" \in Features
            THEN linphone_core_update_streams(early, c, early.call[c].result)
            ELSE received

sal_call_proceeding(s, c) ==
  IF ~s.call[c].op \/ s.call[c].terminated THEN Hangup(s, c) ELSE s

call_ringing(s, c) ==
  LET md == s.call[c].result
      early == linphone_call_set_state(s, c, "OutgoingEarlyMedia")
  IN IF md = "None"
     THEN IF s.ring THEN s
          ELSE linphone_call_set_state([s EXCEPT !.ring = TRUE], c, "OutgoingRinging")
     ELSE IF s.call[c].media = "on" THEN s
     ELSE linphone_core_update_streams(early, c, md)

\* op->did of the event becomes known.
SetDialog(s, c) == Store(s, c, [s.call[c] EXCEPT !.did = TRUE])

sal_call_ringing(s, c, md) ==
  LET known == SetDialog(s, c) IN
  IF ~s.call[c].op \/ s.call[c].terminated THEN Hangup(s, c)
  ELSE IF md = "None" THEN call_ringing(known, c)
  ELSE call_ringing(SetAnswer(known, c, md), c)

call_accepted(s, c, n) ==
  LET md == s.call[c].result
      connected == IF s.call[c].state \in Outgoing
                   THEN linphone_call_set_state(s, c, "Connected") ELSE s
      streams == linphone_core_update_streams(connected, c, md)
      paused == linphone_call_set_state(streams, c, "Paused")
      running == [streams EXCEPT !.current = c]
  IN CASE ~Usable(md) -> linphone_core_abort_call(connected, c)
       [] md \in {"SendOnly", "Inactive"} ->
            linphone_core_start_refered_call(paused, c, n)
       [] md = "RecvOnly" -> linphone_call_set_state(streams, c, "PausedByRemote")
       [] md = "SendRecv" -> linphone_call_set_state(running, c, "StreamsRunning")

\* The ACK cannot be built once the dialog is gone.
sal_call_accepted(s, c, md, n) ==
  LET answered == SetAnswer(SetDialog(s, c), c, md) IN
  IF ~s.call[c].op \/ s.call[c].terminated THEN Hangup(s, c)
  ELSE IF s.ctx[c].stage # "conf" THEN Hangup(answered, c)
  ELSE call_accepted(answered, c, n)

\* The second INVITE has a new cid: what is still queued for the first one
\* finds no operation any more.
WithoutSrtp(s, c) ==
  [Store(s, c, [s.call[c] EXCEPT !.srtp = FALSE])
   EXCEPT !.evq = SelectSeq(@, LAMBDA e : e.cid # c)]

\* An SRTP call refused for its media is tried again without SRTP, but only
\* before it rings; the callback returns in any case.
call_failure(s, c, failure) ==
  LET silent == linphone_call_stop_media_streams(Quiet(s), c)
      referer == s.call[c].referer
      back == IF referer # NoCall /\ s.call[referer].state = "Paused"
                 /\ s.call[referer].was_automatically_paused
              THEN linphone_core_resume_call(silent, referer) ELSE silent
      stopped == linphone_call_stop_media_streams(s, c)
  IN IF failure = "Media" /\ s.call[c].srtp
     THEN IF s.call[c].state \in {"OutgoingInit", "OutgoingProgress"}
          THEN linphone_core_start_invite(WithoutSrtp(stopped, c), c, TRUE)
          ELSE stopped
     ELSE linphone_call_set_state(back, c,
            IF failure = "Declined" THEN "End" ELSE "Error")

SetTerminated(s, c) == Store(s, c, [s.call[c] EXCEPT !.terminated = TRUE])

sal_call_failure(s, c, failure) ==
  IF ~s.call[c].op THEN s
  ELSE call_failure(SetTerminated(s, c), c, failure)

\* Mutant: the BYE that crosses our pause is ignored.
CallTerminated_IgnoredWhenPausing(s, c) ==
  IF s.call[c].state \in Ended \cup {"Pausing"} THEN s
  ELSE linphone_call_set_state(linphone_call_stop_media_streams(Quiet(s), c), c, "End")

call_terminated(s, c) ==
  LET quiet == [s EXCEPT !.ring = @ /\ Cardinality(s.calls) # 1 /\ s.current = NoCall] IN
  IF s.call[c].state \in Ended THEN s
  ELSE linphone_call_set_state(linphone_call_stop_media_streams(quiet, c), c, "End")

\* The operation is marked terminated only after the callback.
sal_call_terminated(s, c) ==
  IF ~s.call[c].op THEN s
  ELSE SetTerminated(call_terminated(s, c), c)

\* The application may put off the answer ("defer") from within the callback.
call_updated_by_remote(s, c, reaction) ==
  LET updated == linphone_call_set_state(s, c, "UpdatedByRemote") IN
  IF reaction = "defer" THEN updated ELSE linphone_core_accept_call_update(updated, c)

\* Mutant: the ACK of an offerless re-INVITE is not waited for.
CallUpdating_ForgetsAck(s, c, reaction) ==
  IF s.call[c].remote = "None" THEN call_accept_update(s, c)
  ELSE call_updated_by_remote(s, c, reaction)

call_updating(s, c, reaction) ==
  LET md == s.call[c].remote
      accepted == call_accept_update(s, c)
      asks(dir) == sal_media_description_has_dir(md, dir)
      state == s.call[c].state
  IN IF md = "None" THEN Store(accepted, c, [accepted.call[c] EXCEPT !.media_pending = TRUE])
     ELSE CASE state = "PausedByRemote" /\ (asks("SendRecv") \/ asks("RecvOnly")) ->
                 linphone_call_set_state(accepted, c, "StreamsRunning")
            [] state = "PausedByRemote" /\ ~asks("SendRecv") /\ ~asks("RecvOnly") ->
                 accepted
            [] state \in {"StreamsRunning", "Connected"}
                 /\ (asks("SendOnly") \/ asks("Inactive")) ->
                 linphone_call_set_state(accepted, c, "PausedByRemote")
            [] state \in {"StreamsRunning", "Connected"}
                 /\ ~asks("SendOnly") /\ ~asks("Inactive") ->
                 call_updated_by_remote(s, c, reaction)
            [] OTHER -> accepted

\* There is no test of op->terminated here.
handle_reinvite(s, c, md, reaction) ==
  IF ~s.call[c].op THEN s
  ELSE call_updating(Store(s, c, [s.call[c] EXCEPT !.remote = md, !.result = "None"]),
                     c, reaction)

\* Mutant: the SDP of the ACK is not looked at.
CallAck_AnySdp(s, c) ==
  IF ~s.call[c].media_pending THEN s
  ELSE linphone_call_set_state(linphone_core_update_streams(s, c, s.call[c].result),
                               c, "StreamsRunning")

call_ack(s, c) ==
  LET md == s.call[c].result
      streams == linphone_core_update_streams(s, c, md)
  IN IF ~s.call[c].media_pending THEN s
     ELSE IF Usable(md) THEN linphone_call_set_state(streams, c, "StreamsRunning")
     ELSE linphone_core_abort_call(s, c)

handle_ack(s, c, md) ==
  IF ~s.call[c].op \/ s.call[c].terminated THEN s ELSE call_ack(SetAnswer(s, c, md), c)

\* Mutant: the transfer always waits for a pause.
ReferReceived_AlwaysWaits(s, c, n) ==
  linphone_core_pause_call(Store(s, c, [s.call[c] EXCEPT !.refer_pending = TRUE]), c)

refer_received(s, c, n) ==
  LET asked == Store(s, c, [s.call[c] EXCEPT !.refer_pending = TRUE])
      paused == linphone_core_pause_call(asked, c)
  IN IF ~s.call[c].op THEN s
     ELSE IF s.call[c].state = "Paused" THEN linphone_core_start_refered_call(asked, c, n)
     ELSE Store(paused, c, [paused.call[c] EXCEPT !.was_automatically_paused = TRUE])

\* A context released without any response first reports a failure.
call_released(s, c) ==
  LET reported == IF s.call[c].terminated THEN s ELSE sal_call_failure(s, c, "NoResponse") IN
  IF ~s.call[c].op THEN s ELSE linphone_call_set_state(reported, c, "Released")

-----------------------------------------------------------------------------
(***************************************************************************)
(* The application's thread: API calls and the timers of iterate           *)
(***************************************************************************)

\* The object of the next call.  LinphoneCall objects are never reused, and it
\* does not matter which of the fresh ones is taken.
NextCall ==
  LET free == {c \in Calls : call[c].state = "Idle" /\ ctx[c].stage = "none"} IN
  IF free = {} THEN NoCall ELSE CHOOSE c \in free : TRUE

Invite ==
  /\ NextCall # NoCall
  /\ \E ping, sent \in BOOLEAN :
       /\ ping => "ping" \in Features
       /\ ~sent => "sendfailure" \in Features /\ ~ping
       /\ Becomes(linphone_core_invite_address_with_params(Now, NextCall, NoCall, ping, sent))

\* Mutant: the state of the call is not looked at when the ping is over.
PingOver_AnyState(c) ==
  /\ c \in calls
  /\ Becomes(linphone_core_start_invite(Now, c, TRUE))

\* ping_reply, or two seconds of waiting for it in linphone_core_iterate.
PingOver(c) ==
  /\ call[c].state = "OutgoingInit"
  /\ \E sent \in BOOLEAN :
       /\ ~sent => "sendfailure" \in Features
       /\ Becomes(linphone_core_start_invite(Now, c, sent))

Accept(c) ==
  /\ call[c].state \in Incoming
  /\ Becomes(linphone_core_accept_call(Now, c))

\* Also the incoming call timeout of linphone_core_iterate.
Terminate(c) ==
  /\ c \in calls
  /\ Becomes(linphone_core_terminate_call(Now, c))

\* The INVITE is declined, the operation is not marked terminated.
linphone_core_redirect_call(c) ==
  /\ call[c].state = "IncomingReceived"
  /\ LET declined == Quiet(Signal(Now, c, eXosip_call_refuse(ctx[c]))) IN
     Becomes(linphone_call_set_state(linphone_call_stop_media_streams(declined, c), c, "End"))

Pause(c) ==
  /\ "hold" \in Features
  /\ c \in calls
  /\ Becomes(linphone_core_pause_call(Now, c))

Resume(c) ==
  /\ "hold" \in Features
  /\ call[c].state = "Paused"
  /\ Becomes(linphone_core_resume_call(Now, c))

\* linphone_core_update_call with new parameters.
Update(c) ==
  /\ "update" \in Features
  /\ call[c].state = "StreamsRunning"
  /\ Becomes(sal_call_update(SetLocal(Now, c, "SendRecv"), c))

AcceptUpdate(c) ==
  /\ call[c].state = "UpdatedByRemote"
  /\ Becomes(linphone_core_accept_call_update(Now, c))

-----------------------------------------------------------------------------
(***************************************************************************)
(* sal_iterate: the next event leaves the queue and its handler runs       *)
(***************************************************************************)

Next1(type) == evq # << >> /\ Head(evq).type = type

Popped == [Now EXCEPT !.evq = Tail(@)]

HandleInvite ==
  /\ Next1("INVITE")
  /\ \E refuse \in {"no"} \cup (IF "presence" \in Features THEN {"moved", "busy"} ELSE {}),
        reaction \in {"none"} \cup (IF "reaction" \in Features THEN {"accept", "terminate"} ELSE {}) :
       Becomes(call_received(Popped, Head(evq).cid, Head(evq).arg, refuse, reaction))

HandleProceeding ==
  /\ Next1("PROCEEDING")
  /\ Becomes(sal_call_proceeding(Popped, Head(evq).cid))

HandleRinging ==
  /\ Next1("RINGING")
  /\ Becomes(sal_call_ringing(Popped, Head(evq).cid, Head(evq).arg))

HandleAnswered ==
  /\ Next1("ANSWERED")
  /\ Becomes(sal_call_accepted(Popped, Head(evq).cid, Head(evq).arg, NextCall))

HandleFailure ==
  /\ Next1("FAILURE")
  /\ Becomes(sal_call_failure(Popped, Head(evq).cid, Head(evq).arg))

HandleClosed ==
  /\ Next1("CLOSED")
  /\ Becomes(sal_call_terminated(Popped, Head(evq).cid))

HandleReinvite ==
  /\ Next1("REINVITE")
  /\ \E reaction \in {"accept", "defer"} :
       Becomes(handle_reinvite(Popped, Head(evq).cid, Head(evq).arg, reaction))

HandleAck ==
  /\ Next1("ACK")
  /\ Becomes(handle_ack(Popped, Head(evq).cid, Head(evq).arg))

HandleRefer ==
  /\ Next1("REFER")
  /\ Becomes(refer_received(Popped, Head(evq).cid, NextCall))

HandleReleased ==
  /\ Next1("RELEASED")
  /\ Becomes(call_released(Popped, Head(evq).cid))

Iterate ==
  \/ HandleInvite \/ HandleProceeding \/ HandleRinging \/ HandleAnswered
  \/ HandleFailure \/ HandleClosed \/ HandleReinvite \/ HandleAck
  \/ HandleRefer \/ HandleReleased

-----------------------------------------------------------------------------
(***************************************************************************)
(* The eXosip thread: messages of the peer and transaction timeouts        *)
(***************************************************************************)

\* The context moves to x, and the event is added to j_events.
Report(c, x, type, arg) ==
  /\ ctx' = [ctx EXCEPT ![c] = x]
  /\ evq' = Append(evq, Event(type, c, arg))
  /\ UNCHANGED <<calls, current, ring, friends, call>>

\* The context moves without an event.
Move(c, x) ==
  /\ ctx' = [ctx EXCEPT ![c] = x]
  /\ UNCHANGED <<calls, current, ring, friends, call, evq>>

Room == Len(evq) < MaxQueue

PeerInvite(md) ==
  /\ "incoming" \in Features /\ Room /\ NextCall # NoCall
  /\ Report(NextCall, [NoContext EXCEPT !.stage = "incoming"],
            "INVITE", md)

PeerTrying(c) ==
  /\ Room /\ ctx[c].stage = "calling"
  /\ Report(c, [ctx[c] EXCEPT !.stage = "early"], "PROCEEDING", "None")

PeerRinging(c, md) ==
  /\ Room /\ ctx[c].stage \in {"calling", "early"}
  /\ md # "None" => "earlymedia" \in Features
  /\ Report(c, [ctx[c] EXCEPT !.stage = "early"], "RINGING", md)

PeerAnswer(c, md) ==
  /\ Room /\ ctx[c].stage \in {"calling", "early"}
  /\ Report(c, [ctx[c] EXCEPT !.stage = "conf", !.told = ctx[c].offer],
            "ANSWERED", md)

PeerRefuse(c, failure) ==
  /\ Room /\ ctx[c].stage \in {"calling", "early"}
  /\ failure = "Media" => "srtp" \in Features
  /\ Report(c, [ctx[c] EXCEPT !.stage = "failed"], "FAILURE", failure)

PeerCancel(c) ==
  /\ ctx[c].stage = "incoming"
  /\ Move(c, eXosip_call_refuse(ctx[c]))

PeerBye(c) ==
  /\ Room /\ ctx[c].stage = "conf"
  /\ Report(c, eXosip_call_terminate(ctx[c], TRUE), "CLOSED", "None")

PeerReinvite(c, md) ==
  /\ "reinvite" \in Features /\ Room
  /\ CanReinvite(ctx[c]) /\ ~ctx[c].ack
  /\ Report(c, [ctx[c] EXCEPT !.re = "in"], "REINVITE", md)

PeerAcceptReinvite(c, md) ==
  /\ Room /\ ctx[c].stage = "conf" /\ ctx[c].re = "out"
  /\ Report(c, [ctx[c] EXCEPT !.re = "none", !.told = ctx[c].offer],
            "ANSWERED", md)

\* A failure is reported even when the dialog was closed meanwhile.
PeerRefuseReinvite(c) ==
  /\ "refusal" \in Features /\ Room
  /\ ctx[c].stage \in {"conf", "closed"} /\ ctx[c].re = "out"
  /\ Report(c, [ctx[c] EXCEPT !.re = "none"], "FAILURE", "Other")

PeerAck(c, md) ==
  /\ Room /\ ctx[c].ack
  /\ Report(c, [ctx[c] EXCEPT !.ack = FALSE], "ACK", md)

PeerRefer(c) ==
  /\ "refer" \in Features /\ Room /\ ctx[c].stage = "conf"
  /\ Report(c, ctx[c], "REFER", "None")

\* The refusal leaves the server transaction: the initial INVITE is over.
RefusalSent(c) ==
  /\ ctx[c].stage = "refused"
  /\ Report(c, [ctx[c] EXCEPT !.stage = "failed"], "CLOSED", "None")

\* 180 s without a final response; CALL_NOANSWER is only reported for a
\* context that has an (early) dialog.
NoAnswer(c) ==
  /\ ctx[c].stage \in {"calling", "early", "incoming"}
  /\ LET over == [ctx[c] EXCEPT !.stage = "failed"] IN
     \/ Move(c, over)
     \/ /\ ctx[c].stage # "calling"
        /\ Report(c, over, "FAILURE", "NoResponse")

\* eXosip_release_terminated_calls.
Release(c) ==
  /\ ctx[c].stage \in {"failed", "closed"}
  /\ Report(c, [ctx[c] EXCEPT !.stage = "released", !.re = "none"],
            "RELEASED", "None")

-----------------------------------------------------------------------------
Application(c) ==
  \/ PingOver(c) \/ Accept(c) \/ Terminate(c) \/ linphone_core_redirect_call(c)
  \/ Pause(c) \/ Resume(c) \/ Update(c) \/ AcceptUpdate(c)

Peer(c) ==
  \/ PeerTrying(c) \/ PeerCancel(c) \/ PeerBye(c)
  \/ PeerRefuseReinvite(c) \/ PeerRefer(c)
  \/ \E md \in Answers \cup {"None"} : PeerRinging(c, md)
  \/ \E md \in Answers : PeerAnswer(c, md) \/ PeerAcceptReinvite(c, md) \/ PeerAck(c, md)
  \/ \E failure \in Failures \ {"NoResponse"} : PeerRefuse(c, failure)
  \/ \E md \in Offers : PeerReinvite(c, md)

Next ==
  \/ Invite
  \/ Iterate
  \/ \E md \in Offers : PeerInvite(md)
  \/ \E c \in Calls : Application(c) \/ Peer(c) \/ RefusalSent(c) \/ NoAnswer(c) \/ Release(c)

\* linphone_core_iterate is called again and again, and eXosip's own thread
\* runs its transactions' timers and its clean-up.  Nothing is assumed of the
\* peer or of the user.
Fairness ==
  /\ WF_vars(Iterate)
  /\ \A c \in Calls : WF_vars(RefusalSent(c)) /\ WF_vars(NoAnswer(c)) /\ WF_vars(Release(c))

Spec == Init /\ [][Next]_vars

FairSpec == Spec /\ Fairness

-----------------------------------------------------------------------------
(***************************************************************************)
(* Properties                                                              *)
(***************************************************************************)

Queued(type, c) == \E i \in 1 .. Len(evq) : evq[i].type = type /\ evq[i].cid = c

\* lc->calls holds exactly the calls that were announced and have not ended:
\* no handler leaves an ended call in the list, none forgets to add one
\* (linphone_core_add_call, linphone_call_set_terminated).
ListedIffLive == \A c \in Calls : c \in calls <=> call[c].state \in Live

\* lc->current_call never points to a call that has left the list, whatever
\* late answer or re-INVITE is handled after the end of the call.
CurrentIsListed == current \in calls \cup {NoCall}

\* linphone_core_can_we_add_call is asked on every path that adds a call: the
\* user's, the peer's and the transfer's.
WithinMaxCalls == Cardinality(calls) <= MaxCalls

\* What the core still points to (list, current call, referer of a listed
\* call) has not been freed, and a listed call still has its SalOp.
NothingRetainedIsFreed ==
  \A c \in (calls \cup {call[d].referer : d \in calls} \cup {current}) \ {NoCall} :
    call[c].refcnt > 0 /\ (c \in calls => call[c].op)

\* A call is referenced once from its creation to its release, and once more
\* by each transfer target it started that has not ended.
ReferencesAreCounted ==
  \A c \in Calls :
    call[c].refcnt = (IF call[c].state \in {"Idle", "Released"} THEN 0 ELSE 1)
                     + Cardinality({d \in calls : call[d].referer = c})

\* No audio runs for a call that is over.
EndedIsSilent ==
  \A c \in Calls : call[c].state \in Ended \cup {"Released"} => call[c].media = "none"

\* StreamsRunning is only announced with the streams started, unless an
\* inactive stream was negotiated.
RunningHasMedia ==
  \A c \in Calls : call[c].state = "StreamsRunning" =>
    call[c].media = "on" \/ call[c].desc = "Inactive"

\* The ring or ringback tone does not outlive the last call, and while some call
\* is current it plays only if a call waits for its answer.
RingIsForSomeone ==
  ring =>
    /\ calls # {}
    /\ current # NoCall => \E c \in calls : call[c].state \in
         {"IncomingReceived", "OutgoingInit", "OutgoingProgress", "OutgoingRinging"}

\* While there is a call, the last presence sent to the friends is OnThePhone.
FriendsKnow == calls # {} => friends = "OnThePhone"

\* The peer is not left in a dialog after the call has ended here: either the
\* dialog is closed or the 200 OK that confirmed it is still to be handled,
\* and then answered with a BYE.
NoOrphanDialog ==
  \A c \in Calls : ctx[c].stage = "conf" /\ call[c].state \in Ended => Queued("ANSWERED", c)

\* A call whose dialog is closed is over, or the event that ends it is queued:
\* no handler that runs in between swallows it.
NoCallOnDeadDialog ==
  \A c \in calls :
    ctx[c].stage \in {"closed", "released"} => Queued("CLOSED", c) \/ Queued("RELEASED", c)

\* As long as its dialog lives, a Pausing or Resuming call waits for something:
\* its re-INVITE is out, or the answer to it is queued.
PauseIsAsked ==
  \A c \in Calls : call[c].state \in {"Pausing", "Resuming"} /\ ctx[c].stage = "conf" =>
    ctx[c].re = "out" \/ Queued("ANSWERED", c)

\* linphonecore.h on LinphoneCallPaused: "The call is paused, remote end has
\* accepted the pause": the peer has accepted an SDP in which we do not receive,
\* or it said itself that it does not send.
PausedIsAgreed ==
  \A c \in Calls : call[c].state = "Paused" =>
    ctx[c].told \in {"SendOnly", "Inactive"} \/ call[c].remote \in {"RecvOnly", "Inactive"}

\* A transfer never waits on a call that is already paused.
PausedHasNoPendingTransfer ==
  \A c \in Calls : call[c].state = "Paused" => ~call[c].refer_pending

\* linphonecore.h on LinphoneCallReleased: "The call object is no more
\* retained by the core".
ReleasedIsNotRetained == \A c \in calls : call[c].state # "Released"

\* While the peer owes us its SDP in the ACK, call_ack will look at it.
AwaitedAckIsPending ==
  \A c \in calls : ctx[c].ack => call[c].media_pending

\* A call that has ended only becomes Released, whatever is handled late.
EndIsFinal ==
  [][\A c \in Calls : call[c].state \in Ended =>
       call'[c].state \in {call[c].state, "Released"}]_vars

\* A call that has been answered never rings again: a provisional response
\* handled late does not bring the ringback tone or early media back.
AnsweredStaysAnswered ==
  [][\A c \in Calls :
       call[c].state \in Live \ (Outgoing \cup Incoming \cup {"OutgoingInit"}) =>
         call'[c].state \notin Outgoing \cup Incoming \cup {"OutgoingInit"}]_vars

\* Every call that ended is released, so that its object can be freed: the
\* CANCEL, BYE or refusal that ended it leads eXosip to release its context.
EndedIsReleased ==
  \A c \in Calls : call[c].state \in Ended ~> call[c].state = "Released"

-----------------------------------------------------------------------------
(***************************************************************************)
(* The inductive invariant behind ListedIffLive, CurrentIsListed and       *)
(* WithinMaxCalls (CallControlProofs), as predicates of a state record.    *)
(***************************************************************************)

\* What the fields of a call say about each other and about its context.
CallInv(k, x) ==
  /\ k.op => k.state \in Live \cup Ended
  /\ k.op /\ k.terminated => k.state \in Ended
  /\ k.op /\ ~k.terminated /\ k.state \in Ended =>
       x.stage \notin {"calling", "early", "incoming", "conf"}
  /\ k.state \in Incoming => x.stage \in {"incoming", "refused", "failed", "released"}
  /\ k.state = "OutgoingInit" => x.stage = "none"
  /\ k.srtp => "srtp" \in Features

\* What a queued event says about the call it is for.
EventInv(e, k, x) ==
  /\ e.type = "INVITE" => /\ k.state = "Idle"
                          /\ x.stage \in {"incoming", "refused", "failed", "released"}
  /\ e.type = "REINVITE" => x.stage \in {"conf", "closed", "released"}

ListInv(s) ==
  /\ \A c \in Calls : c \in s.calls <=> s.call[c].state \in Live
  /\ s.current \in s.calls \cup {NoCall}
  /\ Cardinality(s.calls) <= MaxCalls

QueueInv(s) ==
  /\ \A i \in 1 .. Len(s.evq) : EventInv(s.evq[i], s.call[s.evq[i].cid], s.ctx[s.evq[i].cid])
  /\ \A i, j \in 1 .. Len(s.evq) :
       s.evq[i].type = "INVITE" /\ s.evq[j].type = "INVITE" /\ s.evq[i].cid = s.evq[j].cid
         => i = j

LifeInv ==
  /\ TypeOK
  /\ \A c \in Calls : CallInv(call[c], ctx[c])
  /\ ListInv(Now)
  /\ QueueInv(Now)

-----------------------------------------------------------------------------
(***************************************************************************)
(* What is needed beyond it (CallControlInvariants): who holds a reference *)
(* on what, and in which order events are queued and contexts move.        *)
(***************************************************************************)

\* The listed calls that were started by a transfer of c.
Targets(s, c) == {d \in s.calls : s.call[d].referer = c}

ReferenceInv(s) ==
  /\ \A c \in s.calls : s.call[c].op
  /\ \A c \in Calls :
       s.call[c].refcnt = (IF s.call[c].state \in {"Idle", "Released"} THEN 0 ELSE 1)
                          + Cardinality(Targets(s, c))
  /\ \A c \in Calls : s.call[c].state = "Idle" => s.call[c].refcnt = 0
  /\ s.calls # {} => s.friends = "OnThePhone"

\* An event of this type for c is in the queue q.
InQueue(q, type, c) == \E i \in 1 .. Len(q) : q[i].type = type /\ q[i].cid = c

Provisional == {"PROCEEDING", "RINGING"}

\* A queued event belongs to a context that was opened; nothing but
\* provisional responses comes before the final one, and the INVITE of the
\* peer comes first of all.
OrderInv(q, x) ==
  /\ \A i \in 1 .. Len(q) :
       /\ x[q[i].cid].stage # "none"
       /\ x[q[i].cid].stage \in {"calling", "early"} => q[i].type \in Provisional
  /\ \A i, j \in 1 .. Len(q) : q[i].cid = q[j].cid /\ i < j =>
       /\ q[j].type # "INVITE"
       /\ q[j].type = "RINGING" => q[i].type \in Provisional

\* An ACK is only awaited in a dialog.
AckInv(x) == x.ack => x.stage \notin {"none", "calling", "early"}

\* The end of a dialog is reported behind what still needs it; a provisional
\* response finds a call that is still going out, or over; and a call does not
\* become Paused with a transfer to start.
WaitInv(k, x, q, c) ==
  /\ (k.state \in Live \/ InQueue(q, "INVITE", c)) /\ x.stage \in {"closed", "released"} =>
       InQueue(q, "CLOSED", c) \/ InQueue(q, "RELEASED", c)
  /\ x.stage \in {"calling", "early"} \/ InQueue(q, "RINGING", c) =>
       k.state \in Outgoing \cup Ended \cup {"Released"}
  /\ k.state = "Paused" => ~k.refer_pending
  /\ AckInv(x)

IndInv ==
  /\ LifeInv
  /\ ReferenceInv(Now)
  /\ OrderInv(evq, ctx)
  /\ \A c \in Calls : WaitInv(call[c], ctx[c], evq, c)

-----------------------------------------------------------------------------
(***************************************************************************)
(* What is needed beyond that for the media and the dialogs of a call      *)
(* (CallControlTalk), each part of one call k, its context x and the       *)
(* queue q.  A part that starts with a condition on Features says what the *)
(* peer, or the user, is assumed not to do.                                *)
(***************************************************************************)

Over == Ended \cup {"Released"}

\* The states in which media was agreed on and has not been stopped.
Talking == {"StreamsRunning", "PausedByRemote", "UpdatedByRemote"}

Once(q, type, c) ==
  \A i, j \in 1 .. Len(q) :
    q[i].type = type /\ q[j].type = type /\ q[i].cid = c /\ q[j].cid = c => i = j

\* Before a re-INVITE of the peer is handled, its ACK is.
AckFirst(q, c) ==
  \A j \in 1 .. Len(q) : q[j].type = "REINVITE" /\ q[j].cid = c =>
    \E i \in 1 .. Len(q) : i < j /\ q[i].type = "ACK" /\ q[i].cid = c

\* No call that talks lacks its streams, unless nothing is to be sent.
StreamInv(k) == k.state \in Talking => k.media = "on" \/ k.desc = "Inactive"

\* A call stays Connected only while the peer owes its SDP in the ACK.
OfferInv(k, x, q, c) == k.state = "Connected" =>
  /\ k.media_pending /\ x.re # "out" /\ ~InQueue(q, "ANSWERED", c)
  /\ x.stage = "conf" => x.ack \/ InQueue(q, "ACK", c)
  /\ AckFirst(q, c)

\* A call that was not answered yet has no dialog, and one that was has not the
\* peer's INVITE to answer; an incoming one was declined if there is nothing to
\* agree on.
FreshInv(k, x, q, c) ==
  /\ k.state \in Incoming \cup {"Idle"} =>
       /\ x.stage \notin {"calling", "early", "conf", "closed"}
       /\ \A type \in {"REINVITE", "ACK", "ANSWERED"} : ~InQueue(q, type, c)
  /\ k.state \in Incoming =>
       k.did /\ k.result # "Empty" /\ (k.result = "None" => k.remote = "None")
  /\ x.stage = "incoming" => k.state \in Incoming \cup Over \cup {"Idle"}

\* An operation that was not terminated with its call (a redirected call, an
\* INVITE that could not be sent) never had a dialog.
RedirectInv(k, x, q, c) == k.op /\ ~k.terminated /\ k.state \in Ended =>
  /\ x.stage \in {"none", "refused", "failed", "released"}
  /\ \A type \in {"RINGING", "ACK", "REINVITE"} : ~InQueue(q, type, c)

DialogInv(x) ==
  /\ x.ack => x.stage = "conf"
  /\ x.re # "none" => x.stage \in {"conf", "closed"}

\* Without re-INVITEs of the peer: only the ACK of the initial INVITE carries
\* an SDP, and a call that is over stays silent.
SilenceInv(k, x, q, c) == "reinvite" \notin Features =>
  /\ x.re # "in" /\ ~InQueue(q, "REINVITE", c) /\ k.state # "UpdatedByRemote"
  /\ x.ack \/ InQueue(q, "ACK", c) => k.state \in Over \cup {"Connected"}
  /\ x.ack => ~InQueue(q, "ACK", c)
  /\ Once(q, "ACK", c)
  /\ k.state \in Over \cup {"Idle"} => k.media = "none"

\* When the peer refuses no re-INVITE of ours: no end is reported of a dialog
\* that lives, and one that the core does not know of or has no call for is
\* about to be answered.  If it sends none either, a pause or a resume waits
\* for its answer.
AskedInv(k, x, q, c) == "refusal" \notin Features =>
  /\ x.stage \in {"incoming", "conf"} =>
       \A type \in {"FAILURE", "CLOSED", "RELEASED"} : ~InQueue(q, type, c)
  /\ x.stage = "conf" /\ (~k.did \/ k.state \in Ended) => InQueue(q, "ANSWERED", c)
  /\ "reinvite" \notin Features /\ x.stage = "conf" /\ k.state \in {"Pausing", "Resuming"} =>
       x.re = "out" \/ InQueue(q, "ANSWERED", c)

\* When neither side changes the parameters of a call that runs: at most one
\* offer of ours is open, it says what the core wants now, and a call is
\* Paused in agreement with the peer.
AgreedInv(k, x, q, c) == {"reinvite", "update"} \cap Features = {} /\ k.state \in Live =>
  /\ x.re = "out" \/ InQueue(q, "ANSWERED", c) =>
       k.state \in Outgoing \cup {"Pausing", "Resuming"}
  /\ x.re = "out" => ~InQueue(q, "ANSWERED", c)
  /\ Once(q, "ANSWERED", c)
  /\ k.local \in {"SendRecv", "SendOnly"}
  /\ k.state \in Outgoing \cup {"OutgoingInit"} => k.local = "SendRecv"
  /\ k.local = "SendOnly" /\ x.re = "out" => x.offer = "SendOnly"
  /\ k.local = "SendOnly" /\ InQueue(q, "ANSWERED", c) => x.told = "SendOnly"
  /\ k.state = "Paused" =>
       x.told \in {"SendOnly", "Inactive"} \/ k.remote \in {"RecvOnly", "Inactive"}

TalkOf(k, x, q, c) ==
  /\ StreamInv(k) /\ OfferInv(k, x, q, c) /\ FreshInv(k, x, q, c)
  /\ RedirectInv(k, x, q, c) /\ DialogInv(x) /\ SilenceInv(k, x, q, c)
  /\ AskedInv(k, x, q, c) /\ AgreedInv(k, x, q, c)

TalkInv == \A c \in Calls : TalkOf(call[c], ctx[c], evq, c)

\* Whatever was handled last, every call, its context, its references and what
\* is queued for it fit each other: the inductive invariant of the core.
CoreInv == IndInv /\ TalkInv

-----------------------------------------------------------------------------
\* The life of a call as the abstract specification sees it.
LifeOf(k) ==
  CASE k.state = "Idle" -> "new"
    [] k.state \in Live -> "open"
    [] k.state \in Ended -> "ended"
    [] k.state = "Released" -> "released"

life == [c \in Calls |-> LifeOf(call[c])]

CallLife == INSTANCE CallLife

\* The calls of the core live as CallLife says.
CallsLiveOnce == CallLife!LifeSpec
=============================================================================
