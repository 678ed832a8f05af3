---------------------------- MODULE Registration ----------------------------
(***************************************************************************)
(* The registration of one proxy configuration (proxy.c, linphonecore.c),  *)
(* through its SalOp (sal_eXosip2.c) and the registration contexts of      *)
(* eXosip (eXregister_api.c), at a registrar that sees the agent behind a  *)
(* NAT and may ask for a password.                                         *)
(*                                                                         *)
(* Three threads of control meet: the application with the core's loop,    *)
(* the eXosip thread that runs the transactions and queues their events,   *)
(* and the registrar.  A context (rid) has one transaction at a time; a    *)
(* context that is replaced leaves its transaction running.                *)
(***************************************************************************)
EXTENDS Naturals, Sequences, FiniteSets

CONSTANTS
  MaxOps,     \* registrations the core starts (SalOps)
  MaxActs,    \* calls of the application
  MaxFaults,  \* REGISTERs refused, unanswered or left with no more than a 1xx
  Expiries,   \* periods configured: "short" is below the registrar's minimum
  Password    \* the registrar's: 0 asks for none

ASSUME BoundsAssumption ==
  MaxOps \in Nat \ {0} /\ MaxActs \in Nat /\ MaxFaults \in Nat
ASSUME SettingsAssumption == Expiries \subseteq {"short", "long"} /\ Password \in {0, 1}

Rids == 1 .. MaxOps
Passwords == {1, 2}   \* 0 is none
Periods == {"zero", "short", "long"}
Contacts == {"private", "public"}
Answers == {"2xx", "401", "423", "other"}

Requests == [exp : Periods, contact : Contacts, creds : {0} \cup Passwords]
NoRequest == [exp |-> "zero", contact |-> "private", creds |-> 0]
NoContext == [listed |-> FALSE, period |-> "zero", retry |-> 0, tr |-> "none",
              req |-> NoRequest, nonce |-> FALSE, answer |-> "none",
              fresh |-> FALSE, last |-> "none"]

VARIABLES
  proxy,     \* LinphoneProxyConfig: state, reg_sendregister, commit, deletion
  op,        \* its SalOp: rid (0: none), contact, expires, pending_auth
  auth,      \* LinphoneAuthInfo, and whether the user was asked for it
  reg,       \* the contexts of eXosip with their last transactions
  events,    \* the events the core has not read
  up,        \* network_reachable
  bindings,  \* the contexts whose public contact is bound at the registrar: each
             \* has a line parameter of its own, so none replaces another's
  faults, acts

vars == <<proxy, op, auth, reg, events, up, bindings, faults, acts>>
ua == [proxy |-> proxy, op |-> op, auth |-> auth, reg |-> reg]

Proxies == [state : {"None", "Progress", "Ok", "Cleared", "Failed"},
            enabled : BOOLEAN, commit : BOOLEAN, editing : BOOLEAN,
            removed : {"no", "yes", "destroyed"}, expires : Expiries]
Ops == [rid : 0 .. MaxOps, made : 0 .. MaxOps, contact : Contacts,
        expires : Periods \ {"zero"}, pending : BOOLEAN]
Auths == [pass : {0} \cup Passwords, works : BOOLEAN, usecount : 0 .. 3, asked : BOOLEAN]

\* tr: "calling" until the registrar hears the request, "heard" until the
\* answer is back; both are what build_register calls a wrong state.
Contexts == [listed : BOOLEAN, period : Periods, retry : 0 .. 3,
             tr : {"none", "calling", "heard", "done"}, req : Requests,
             nonce : BOOLEAN, answer : Answers \cup {"none"}, fresh : BOOLEAN,
             last : Answers \cup {"none", "1xx"}]
Events == [rid : Rids, req : Requests, fresh : BOOLEAN, resp : Answers \cup {"none"}]

TypeOK ==
  /\ proxy \in Proxies /\ op \in Ops /\ auth \in Auths
  /\ reg \in [Rids -> Contexts]
  /\ events \in Seq(Events)
  /\ up \in BOOLEAN
  /\ bindings \subseteq Rids
  /\ faults \in 0 .. MaxFaults /\ acts \in 0 .. MaxActs

Init ==
  /\ proxy \in [state : {"None"}, enabled : {TRUE}, commit : {TRUE},
                editing : {FALSE}, removed : {"no"}, expires : Expiries]
  /\ op = [rid |-> 0, made |-> 0, contact |-> "private", expires |-> proxy.expires,
           pending |-> FALSE]
  /\ auth \in [pass : {0} \cup Passwords, works : {FALSE}, usecount : {0},
               asked : {FALSE}]
  /\ reg = [r \in Rids |-> NoContext]
  /\ events = <<>> /\ up = TRUE /\ bindings = {} /\ faults = 0 /\ acts = 0

-----------------------------------------------------------------------------
(* eXosip.  The operators take and return [proxy, op, auth, reg].          *)

Idle(s, r) == s.reg[r].listed /\ s.reg[r].tr \in {"none", "done"}

\* The request of the next transaction: a copy of the last one.  Whatever was
\* asked for, a 423 makes the new request ask for the registrar's minimum.
\* The credentials are those the core lends (pass) for the last challenge.
_eXosip_register_build_register(s, r, pass) ==
  LET jr == s.reg[r] IN
  [exp     |-> IF jr.last = "423" THEN "long" ELSE jr.period,
   contact |-> IF jr.tr = "none" THEN s.op.contact ELSE jr.req.contact,
   creds   |-> IF jr.last = "401" \/ (jr.nonce /\ jr.last \in Answers)
               THEN pass ELSE 0]

Sent(jr, req) ==
  [jr EXCEPT !.tr = "calling", !.req = req,
             !.nonce = @ \/ (req.creds # 0 /\ jr.last = "401"),
             !.period = IF jr.last = "423" THEN "long" ELSE @,
             !.answer = "none", !.fresh = FALSE, !.last = "none"]

eXosip_register_send_register(s, r, req) == [s EXCEPT !.reg[r] = Sent(@, req)]

\* eXosip_register_build_register: the period is set first, also when the
\* transaction of the moment then forbids to build anything.
SetPeriod(s, r, period) ==
  IF s.reg[r].listed THEN [s EXCEPT !.reg[r].period = period] ELSE s

SendAgain(s, r, pass) ==
  IF Idle(s, r)
  THEN eXosip_register_send_register(s, r, _eXosip_register_build_register(s, r, pass))
  ELSE s

\* Mutant: one more attempt than r_retry counts.
_eXosip_retry_register_with_auth_OneMore(s, r, pass) ==
  IF s.reg[r].listed /\ s.reg[r].retry <= 3
  THEN SendAgain([s EXCEPT !.reg[r].retry = @ + 1], r, pass)
  ELSE s

\* eXosip_default_action for a challenge.
_eXosip_retry_register_with_auth(s, r, pass) ==
  IF s.reg[r].listed /\ s.reg[r].retry < 3
  THEN SendAgain([s EXCEPT !.reg[r].retry = @ + 1], r, pass)
  ELSE s

\* A context out of the list: of its transaction, a request that is not heard
\* yet is all that matters, since nothing reports the answer.
Delisted(jr) ==
  IF jr.tr = "calling" THEN [NoContext EXCEPT !.tr = "calling", !.req = jr.req]
  ELSE NoContext

eXosip_register_remove(s, r) ==
  IF r = 0 THEN s ELSE [s EXCEPT !.reg[r] = Delisted(@)]

-----------------------------------------------------------------------------
(* The SalOp.                                                              *)

\* Mutant: the context stays with eXosip.
sal_op_release_Leaks(s) == [s EXCEPT !.op.rid = 0, !.op.pending = FALSE]

sal_op_release(s) ==
  LET t == eXosip_register_remove(s, s.op.rid)
  IN [t EXCEPT !.op.rid = 0, !.op.pending = FALSE]

\* A new operation: the contact is the address of the local interface.
sal_register(s) ==
  LET r == s.op.made + 1
      t == [s EXCEPT !.op = [rid |-> r, made |-> r, contact |-> "private",
                             expires |-> s.proxy.expires, pending |-> FALSE],
                     !.reg[r].listed = TRUE, !.reg[r].period = s.proxy.expires]
  IN SendAgain(t, r, 0)

sal_unregister(s) ==
  IF s.op.rid = 0 THEN s
  ELSE SendAgain(SetPeriod(s, s.op.rid, "zero"), s.op.rid, 0)

\* Sends, unless a transaction is active, with the contact of the operation.
sal_register_refresh(s) ==
  LET t == SetPeriod(s, s.op.rid, s.proxy.expires)
      req == _eXosip_register_build_register(t, s.op.rid, 0)
  IN IF Idle(s, s.op.rid)
     THEN [eXosip_register_send_register(t, s.op.rid,
             [req EXCEPT !.contact = s.op.contact]) EXCEPT !.proxy.state = "Progress"]
     ELSE t

\* extract_received_rport: the registrar sees the public address.  The address
\* is up to date when one of the contacts known to the registrar has it.
UpToDate(ev) ==
  IF ev.resp = "2xx" THEN ev.fresh ELSE ev.req.contact = "public"

register_again_with_updated_contact(s) ==
  LET t == SetPeriod(s, s.op.rid, s.op.expires)
      req == _eXosip_register_build_register(t, s.op.rid, 0)
  IN IF Idle(s, s.op.rid)
     THEN [sent |-> TRUE,
           then |-> [eXosip_register_send_register(t, s.op.rid,
                      [req EXCEPT !.contact = "public"]) EXCEPT !.op.contact = "public"]]
     ELSE [sent |-> FALSE, then |-> t]

\* The credentials are lent to eXosip for the time of the call.
sal_op_authenticate(s) ==
  IF s.op.pending
  THEN [_eXosip_retry_register_with_auth(s, s.op.rid, s.auth.pass)
          EXCEPT !.op.contact = "public"]
  ELSE s

-----------------------------------------------------------------------------
(* The core.                                                               *)

SetState(s, state) ==
  IF s.proxy.removed = "no" THEN [s EXCEPT !.proxy.state = state] ELSE s

\* The operation may have been asked for credentials when it is forbidden.
register_failure(s, forbidden) ==
  LET t == SetState(s, "Failed")
  IN [t EXCEPT !.auth.asked = @ \/ (forbidden /\ s.op.pending /\ s.proxy.removed = "no")]

CountUse(s) == [s EXCEPT !.auth.usecount = IF @ < 3 THEN @ + 1 ELSE 3]

\* "later": more than 30 seconds have passed since the third attempt.
auth_requested(s, later) ==
  LET ai == s.auth
      uses == IF later /\ ~ai.works /\ ai.usecount >= 3 THEN 0 ELSE ai.usecount
      t == [s EXCEPT !.auth.usecount = uses]
  IN CASE ai.pass # 0 /\ (ai.works \/ uses < 3) -> CountUse(sal_op_authenticate(t))
       [] ai.pass # 0 /\ ~(ai.works \/ uses < 3) ->
            [register_failure(t, TRUE) EXCEPT !.auth.asked = TRUE]
       [] OTHER -> [t EXCEPT !.auth.asked = TRUE]

process_authentication(s, later) == auth_requested([s EXCEPT !.op.pending = TRUE], later)

\* Mutant: the period of the moment says what was answered.
registration_success_ByPeriod(s, ev) ==
  IF s.reg[s.op.rid].period = "zero" THEN SetState(s, "Cleared") ELSE SetState(s, "Ok")

registration_success(s, ev) ==
  LET t == [s EXCEPT !.op.pending = FALSE,    \* authentication_ok
                     !.auth.works = @ \/ (ev.req.creds # 0 /\ s.auth.pass # 0)]
      again == register_again_with_updated_contact(t)
  IN CASE ev.req.exp = "zero" -> SetState(t, "Cleared")
       [] ev.req.exp # "zero" /\ UpToDate(ev) -> SetState(t, "Ok")
       [] ev.req.exp # "zero" /\ ~UpToDate(ev) ->
            IF again.sent THEN again.then ELSE SetState(again.then, "Ok")

\* A 423: the period of the operation is raised to the registrar's minimum.
IntervalTooBrief(s) ==
  LET t == SetPeriod([s EXCEPT !.op.expires = "long"], s.op.rid, "long")
  IN SendAgain(t, s.op.rid, 0)

registration_failure(s, ev, later) ==
  LET again == register_again_with_updated_contact(s)
      retried == ev.resp = "other" /\ ~UpToDate(ev)
  IN CASE ev.resp = "401" -> process_authentication(s, later)
       [] ev.resp = "423" -> IntervalTooBrief(s)
       [] retried /\ again.sent -> again.then
       [] retried /\ ~again.sent -> register_failure(again.then, TRUE)
       [] OTHER -> register_failure(s, ev.resp = "other")

Become(s) == proxy' = s.proxy /\ op' = s.op /\ auth' = s.auth /\ reg' = s.reg

\* sal_iterate: one event; those of a released operation are ignored.
ProcessEvent ==
  /\ events # <<>>
  /\ LET ev == Head(events) IN
     IF ev.rid # op.rid THEN UNCHANGED <<proxy, op, auth, reg>>
     ELSE \/ ev.resp = "2xx" /\ Become(registration_success(ua, ev))
          \/ ev.resp # "2xx" /\ \E later \in BOOLEAN :
                Become(registration_failure(ua, ev, later))
  /\ events' = Tail(events)
  /\ UNCHANGED <<up, bindings, faults, acts>>

\* Mutant: only what succeeded is sent again.
eXosip_automatic_refresh_OnlyOk ==
  /\ events = <<>>
  /\ \E r \in Rids :
       /\ reg[r].period # "zero" /\ reg[r].tr = "done" /\ Idle(ua, r)
       /\ reg[r].last = "2xx"
       /\ Become(SendAgain(ua, r, 0))
  /\ UNCHANGED <<events, up, bindings, faults, acts>>

\* The end of sal_iterate, once the events are handled: 90% of the period, or
\* 120 seconds after a REGISTER that did not succeed.
eXosip_automatic_refresh ==
  /\ events = <<>>
  /\ \E r \in Rids :
       /\ reg[r].period # "zero" /\ reg[r].tr = "done" /\ Idle(ua, r)
       /\ Become(SendAgain(ua, r, 0))
  /\ UNCHANGED <<events, up, bindings, faults, acts>>

\* linphone_proxy_config_update, for the proxies that are not removed.
linphone_proxy_config_update ==
  /\ proxy.commit /\ proxy.removed = "no"
  /\ LET s == [ua EXCEPT !.proxy.commit = FALSE] IN
     IF up /\ proxy.enabled
     THEN /\ op.made < MaxOps
          /\ Become([sal_register(sal_op_release(s)) EXCEPT !.proxy.state = "Progress",
                                                            !.auth.asked = FALSE])
     ELSE Become(s)
  /\ UNCHANGED <<events, up, bindings, faults, acts>>

\* proxy_update: five seconds after the removal.
linphone_proxy_config_destroy ==
  /\ proxy.removed = "yes"
  /\ Become([sal_op_release(ua) EXCEPT !.proxy.removed = "destroyed"])
  /\ UNCHANGED <<events, up, bindings, faults, acts>>

-----------------------------------------------------------------------------
(* The application.                                                        *)

edit(s) ==
  IF s.proxy.enabled /\ s.proxy.state \notin {"None", "Cleared"}
  THEN sal_unregister(s) ELSE s

Call == acts < MaxActs /\ acts' = acts + 1 /\ UNCHANGED <<bindings, faults>>

linphone_proxy_config_edit ==
  /\ Call /\ proxy.removed = "no"
  /\ Become([edit(ua) EXCEPT !.proxy.editing = TRUE])
  /\ UNCHANGED <<events, up>>

\* The change is whether to register, or one that leaves that as it is.
linphone_proxy_config_done(enable) ==
  /\ Call /\ proxy.editing /\ proxy.removed = "no"
  /\ proxy' = [proxy EXCEPT !.enabled = enable, !.commit = TRUE, !.editing = FALSE]
  /\ UNCHANGED <<op, auth, reg, events, up>>

linphone_core_refresh_registers ==
  /\ Call /\ up /\ proxy.enabled /\ proxy.removed = "no" /\ op.rid # 0
  /\ Become(sal_register_refresh(ua))
  /\ UNCHANGED <<events, up>>

linphone_core_remove_proxy_config ==
  /\ Call /\ proxy.removed = "no"
  /\ Become([(IF proxy.state = "Ok" THEN edit(ua) ELSE ua)
               EXCEPT !.proxy.removed = "yes", !.proxy.editing = FALSE])
  /\ UNCHANGED <<events, up>>

\* The pending operation is tried again with the new password.
linphone_core_add_auth_info(pass) ==
  /\ Call
  /\ LET s == [ua EXCEPT !.auth = [pass |-> pass, works |-> FALSE,
                                   usecount |-> 0, asked |-> FALSE]]
     IN Become(IF op.pending THEN CountUse(sal_op_authenticate(s)) ELSE s)
  /\ UNCHANGED <<events, up>>

\* sal_unlisten_ports: eXosip restarts and forgets contexts and events; what
\* was sent may be on its way.
Unlisten(s) == [s EXCEPT !.reg = [r \in Rids |-> Delisted(@[r])]]

set_network_reachable(isReachable) ==
  /\ Call
  /\ LET s == IF ~(proxy.enabled /\ proxy.removed = "no") THEN ua
              ELSE IF isReachable THEN [edit(ua) EXCEPT !.proxy.commit = TRUE]
              ELSE [ua EXCEPT !.proxy.state = "None"]
     IN Become(Unlisten(s))
  /\ up' = isReachable
  /\ events' = <<>>

-----------------------------------------------------------------------------
(* The registrar, and the transactions in the eXosip thread.               *)

\* The request, or one of its copies, is heard.
Registrar(r) ==
  /\ reg[r].tr = "calling"
  /\ LET req == reg[r].req
         Reply(a, fresh) ==
           reg' = [reg EXCEPT ![r] = IF @.listed
                     THEN [@ EXCEPT !.tr = "heard", !.answer = a, !.fresh = fresh]
                     ELSE NoContext]
     IN \/ /\ Password # 0 /\ req.creds # Password
           /\ Reply("401", FALSE) /\ UNCHANGED <<bindings, faults>>
        \/ /\ Password = 0 \/ req.creds = Password
           /\ req.exp = "short"
           /\ Reply("423", FALSE) /\ UNCHANGED <<bindings, faults>>
        \/ /\ Password = 0 \/ req.creds = Password
           /\ req.exp # "short"
           /\ bindings' = CASE req.contact = "private" -> bindings
                            [] req.contact = "public" /\ req.exp = "zero" -> bindings \ {r}
                            [] OTHER -> bindings \cup {r}
           /\ Reply("2xx", bindings' # {}) /\ UNCHANGED faults
        \/ /\ faults < MaxFaults /\ faults' = faults + 1
           /\ Reply("other", FALSE) /\ UNCHANGED bindings
  /\ UNCHANGED <<proxy, op, auth, events, up, acts>>

\* A proxy on the way answers 100 Trying.
rcv_1xx(r) ==
  /\ reg[r].listed /\ reg[r].tr = "calling" /\ reg[r].last = "none"
  /\ faults < MaxFaults /\ faults' = faults + 1
  /\ reg' = [reg EXCEPT ![r].last = "1xx"]
  /\ UNCHANGED <<proxy, op, auth, events, up, bindings, acts>>

Report(r, resp, fresh) ==
  events' = Append(events, [rid |-> r, req |-> reg[r].req, fresh |-> fresh, resp |-> resp])

\* cb_rcv2xx, cb_rcv4xx, ...
ReceiveAnswer(r) ==
  /\ reg[r].tr = "heard"
  /\ Report(r, reg[r].answer, reg[r].fresh)
  /\ reg' = [reg EXCEPT ![r].tr = "done", ![r].last = reg[r].answer,
                        ![r].answer = "none", ![r].fresh = FALSE,
                        ![r].retry = IF reg[r].answer = "2xx" THEN 0 ELSE @]
  /\ UNCHANGED <<proxy, op, auth, up, bindings, faults, acts>>

\* Timer F.  The end of the transaction is only reported without any answer.
Timeout(r) ==
  /\ reg[r].tr \in {"calling", "heard"}
  /\ IF reg[r].last = "1xx" THEN UNCHANGED faults
     ELSE faults < MaxFaults /\ faults' = faults + 1
  /\ IF reg[r].listed
     THEN /\ reg' = [reg EXCEPT ![r].tr = "done", ![r].answer = "none", ![r].fresh = FALSE]
          /\ IF reg[r].last = "none" THEN Report(r, "none", FALSE) ELSE UNCHANGED events
     ELSE reg' = [reg EXCEPT ![r] = NoContext] /\ UNCHANGED events
  /\ UNCHANGED <<proxy, op, auth, up, bindings, acts>>

\* Mutant: the period is not looked at.
eXosip_release_terminated_registrations_AnyPeriod(r) ==
  /\ reg[r].listed /\ reg[r].tr = "done"
  /\ reg' = [reg EXCEPT ![r] = Delisted(@)]
  /\ UNCHANGED <<proxy, op, auth, events, up, bindings, faults, acts>>

\* A context whose last period is zero goes with a 2xx, or after 75 seconds.
eXosip_release_terminated_registrations(r) ==
  /\ reg[r].listed /\ reg[r].period = "zero" /\ reg[r].tr = "done"
  /\ reg' = [reg EXCEPT ![r] = Delisted(@)]
  /\ UNCHANGED <<proxy, op, auth, events, up, bindings, faults, acts>>

-----------------------------------------------------------------------------
Loop == ProcessEvent \/ linphone_proxy_config_update
Transaction(r) == Registrar(r) \/ ReceiveAnswer(r) \/ Timeout(r)

Application ==
  \/ linphone_proxy_config_edit
  \/ \E enable \in BOOLEAN : linphone_proxy_config_done(enable)
  \/ linphone_core_refresh_registers
  \/ linphone_core_remove_proxy_config
  \/ \E pass \in Passwords : linphone_core_add_auth_info(pass)
  \/ \E isReachable \in BOOLEAN : set_network_reachable(isReachable)

Next ==
  \/ Loop \/ eXosip_automatic_refresh \/ linphone_proxy_config_destroy
  \/ Application
  \/ \E r \in Rids : Transaction(r) \/ rcv_1xx(r)
                       \/ eXosip_release_terminated_registrations(r)

\* The core's loop and the eXosip thread run, time passes, and a REGISTER is
\* answered or times out.
Fairness ==
  /\ WF_vars(Loop) /\ WF_vars(eXosip_automatic_refresh)
  /\ \A r \in Rids : WF_vars(Transaction(r))

Spec == Init /\ [][Next]_vars /\ Fairness

-----------------------------------------------------------------------------
(* Properties.                                                             *)

\* The core has read the events and registered what was committed.
Settled == events = <<>> /\ ~proxy.commit /\ ~proxy.editing /\ proxy.removed = "no"

\* A proxy that is Ok is one that eXosip will refresh: whatever crossed (an
\* edition, a restart of the transport, an unREGISTER answered late), the
\* context of its operation is still listed, with a period and a transaction,
\* which are what eXosip_automatic_refresh and the release of the contexts
\* look at.
OkIsRefreshed ==
  proxy.state = "Ok" /\ proxy.enabled /\ up /\ Settled =>
    /\ op.rid # 0 /\ reg[op.rid].listed
    /\ reg[op.rid].period # "zero" /\ reg[op.rid].tr # "none"

\* No context outlives its operation in eXosip, where it would be refreshed
\* beside the next one, or after the proxy is gone.
OneRegistration == \A r \in Rids : reg[r].listed => r = op.rid

\* When the last event read announces that the proxy is Cleared, and it is that
\* of the last REGISTER, the registrar no longer has the contact: Cleared
\* follows the request that was answered, not the one the core would send now.
ClearedIsUnbound ==
  [][proxy'.state = "Cleared" /\ proxy.state # "Cleared" /\ events' = <<>>
       /\ reg[op.rid].listed /\ reg[op.rid].tr = "done" /\ reg[op.rid].last = "2xx"
         => op.rid \notin bindings]_vars

\* A proxy does not stay in Progress: its REGISTER is answered, times out, or
\* is sent again when only a 1xx came, unless the user is asked for a password,
\* or unregisters.  With retry = 3 the challenge is left without an answer:
\* _eXosip_retry_register_with_auth refuses to send, and nobody is told.
ProgressEnds ==
  (proxy.state = "Progress" /\ Settled) ~>
    (proxy.state # "Progress" \/ ~Settled \/ ~proxy.enabled \/ auth.asked
       \/ (op.rid # 0 /\ reg[op.rid].retry = 3))
=============================================================================
