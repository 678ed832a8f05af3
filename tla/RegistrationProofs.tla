-------------------------- MODULE RegistrationProofs --------------------------
(***************************************************************************)
(* Proofs about Registration, for any number of operations, any calls of   *)
(* the application and any faults: the types, that eXosip never keeps a    *)
(* context beside the one of the operation, that a proxy left Ok is sent   *)
(* again, and that one left Cleared is not bound at the registrar.         *)
(*                                                                         *)
(* The handlers are operators on records, so the invariant is restated as  *)
(* a predicate of a record (Sound); each operator takes a sound record to  *)
(* a sound record.  RInv adds what the own context goes through (Served,   *)
(* Refreshed, LastTold), and Onward is the relation that carries it over   *)
(* an operator.                                                            *)
(***************************************************************************)
EXTENDS Registration, TLAPS

UA == [proxy : Proxies, op : Ops, auth : Auths, reg : [Rids -> Contexts]]

\* What makes OneRegistration inductive: only an operation that has a context
\* can be pending, since its retry looks the context up.
Sound(s) ==
  /\ s \in UA
  /\ \A r \in Rids : s.reg[r].listed => r = s.op.rid
  /\ s.op.pending => s.op.rid # 0

\* The rest of the state: what the operators on records do not see.
RestOK ==
  /\ events \in Seq(Events)
  /\ up \in BOOLEAN
  /\ bindings \subseteq Rids
  /\ faults \in 0 .. MaxFaults /\ acts \in 0 .. MaxActs

IInv == RestOK /\ Sound(ua)

\* t is sound and belongs to the same operation as s.
Keeps(s, t) == Sound(t) /\ t.op.rid = s.op.rid /\ t.op.made = s.op.made

-----------------------------------------------------------------------------
(* Contexts.                                                               *)

LEMMA RidsArePositive == Rids \subseteq 0 .. MaxOps /\ 0 \notin Rids
BY BoundsAssumption DEF Rids

\* A request built for a context is a request.
LEMMA BuildIsRequest ==
  ASSUME NEW s \in UA, NEW r \in Rids, NEW pass \in {0} \cup Passwords
  PROVE  _eXosip_register_build_register(s, r, pass) \in Requests
<1>1. s.reg[r] \in Contexts /\ s.op \in Ops
  BY DEF UA
<1> QED
  BY <1>1 DEF _eXosip_register_build_register, Contexts, Ops, Requests, Periods, Contacts

LEMMA SentIsContext ==
  ASSUME NEW jr \in Contexts, NEW req \in Requests
  PROVE  Sent(jr, req) \in Contexts /\ Sent(jr, req).listed = jr.listed
BY ZenonT(30) DEF Sent, Contexts, Periods, Answers

\* One context is changed, and not listed if it is not that of the operation.
LEMMA ContextKeeps ==
  ASSUME NEW s, Sound(s), NEW r \in Rids, NEW jr \in Contexts,
         jr.listed => s.reg[r].listed
  PROVE  Keeps(s, [s EXCEPT !.reg[r] = jr])
<1> DEFINE t == [s EXCEPT !.reg[r] = jr]
<1>1. s \in UA
  BY DEF Sound
<1>2. t \in UA /\ t.op = s.op /\ t.reg = [s.reg EXCEPT ![r] = jr]
  BY <1>1 DEF UA
<1>3. \A q \in Rids : t.reg[q].listed => s.reg[q].listed
  BY <1>1, <1>2 DEF UA
<1> QED
  BY <1>2, <1>3 DEF Sound, Keeps

LEMMA SendKeeps ==
  ASSUME NEW s, Sound(s), NEW r \in Rids, NEW req \in Requests
  PROVE  Keeps(s, eXosip_register_send_register(s, r, req))
<1>1. s.reg[r] \in Contexts
  BY DEF Sound, UA
<1> QED
  BY <1>1, SentIsContext, ContextKeeps DEF eXosip_register_send_register

LEMMA SetPeriodKeeps ==
  ASSUME NEW s, Sound(s), NEW r \in Rids, NEW period \in Periods
  PROVE  Keeps(s, SetPeriod(s, r, period))
<1>1. s.reg[r] \in Contexts
  BY DEF Sound, UA
<1>2. [s.reg[r] EXCEPT !.period = period] \in Contexts
      /\ [s.reg[r] EXCEPT !.period = period].listed = s.reg[r].listed
  BY <1>1 DEF Contexts
<1>3. Keeps(s, [s EXCEPT !.reg[r] = [s.reg[r] EXCEPT !.period = period]])
  BY <1>2, ContextKeeps
<1> QED
  BY <1>3 DEF SetPeriod, Keeps

LEMMA SendAgainKeeps ==
  ASSUME NEW s, Sound(s), NEW r \in Rids, NEW pass \in {0} \cup Passwords
  PROVE  Keeps(s, SendAgain(s, r, pass))
<1>1. _eXosip_register_build_register(s, r, pass) \in Requests
  BY BuildIsRequest DEF Sound
<1> QED
  BY <1>1, SendKeeps DEF SendAgain, Keeps

LEMMA RetryKeeps ==
  ASSUME NEW s, Sound(s), NEW r \in Rids, NEW pass \in {0} \cup Passwords
  PROVE  Keeps(s, _eXosip_retry_register_with_auth(s, r, pass))
<1>1. s.reg[r] \in Contexts
  BY DEF Sound, UA
<1>2. CASE s.reg[r].retry < 3
  <2> DEFINE jr == [s.reg[r] EXCEPT !.retry = @ + 1]
             t == [s EXCEPT !.reg[r] = jr]
  <2>1. jr \in Contexts /\ jr.listed = s.reg[r].listed
    BY <1>1, <1>2 DEF Contexts
  <2>2. Keeps(s, t)
    BY <2>1, ContextKeeps
  <2>3. Keeps(t, SendAgain(t, r, pass))
    BY <2>2, SendAgainKeeps DEF Keeps
  <2>4. t = [s EXCEPT !.reg[r].retry = @ + 1]
    BY <1>1 DEF Contexts
  <2> QED
    BY <2>2, <2>3, <2>4 DEF _eXosip_retry_register_with_auth, Keeps
<1>3. CASE ~ s.reg[r].retry < 3
  BY <1>3 DEF _eXosip_retry_register_with_auth, Keeps
<1> QED
  BY <1>2, <1>3

LEMMA DelistedIsContext ==
  ASSUME NEW jr \in Contexts
  PROVE  Delisted(jr) \in Contexts /\ ~ Delisted(jr).listed
<1>1. NoContext \in Contexts /\ ~ NoContext.listed
  BY DEF NoContext, NoRequest, Contexts, Requests, Periods, Contacts
<1> QED
  BY <1>1 DEF Delisted, Contexts, NoContext

-----------------------------------------------------------------------------
(* The operation.                                                          *)

LEMMA ProxyKeeps ==
  ASSUME NEW s, Sound(s), NEW p \in Proxies
  PROVE  Keeps(s, [s EXCEPT !.proxy = p])
BY DEF Sound, UA, Keeps

LEMMA AuthKeeps ==
  ASSUME NEW s, Sound(s), NEW a \in Auths
  PROVE  Keeps(s, [s EXCEPT !.auth = a])
BY DEF Sound, UA, Keeps

LEMMA OpKeeps ==
  ASSUME NEW s, Sound(s), NEW o \in Ops, o.rid = s.op.rid, o.made = s.op.made,
         o.pending => o.rid # 0
  PROVE  Keeps(s, [s EXCEPT !.op = o])
BY DEF Sound, UA, Keeps

\* A released operation has no context, and then none is listed.
LEMMA ReleaseIsSound ==
  ASSUME NEW s, Sound(s)
  PROVE  /\ Sound(sal_op_release(s))
         /\ sal_op_release(s).op.rid = 0
         /\ sal_op_release(s).op.made = s.op.made
<1> DEFINE t == eXosip_register_remove(s, s.op.rid)
<1>1. s \in UA /\ s.op \in Ops /\ s.op.rid \in 0 .. MaxOps
  BY DEF Sound, UA, Ops
<1>2. t \in UA /\ t.op = s.op /\ \A r \in Rids : ~ t.reg[r].listed
  <2>1. CASE s.op.rid = 0
    BY <1>1, <2>1, RidsArePositive DEF eXosip_register_remove, Sound
  <2>2. CASE s.op.rid # 0
    <3>1. s.op.rid \in Rids
      BY <1>1, <2>2, BoundsAssumption DEF Rids
    <3>2. s.reg[s.op.rid] \in Contexts
      BY <1>1, <3>1 DEF UA
    <3>3. Delisted(s.reg[s.op.rid]) \in Contexts /\ ~ Delisted(s.reg[s.op.rid]).listed
      BY <3>2, DelistedIsContext
    <3>4. t = [s EXCEPT !.reg[s.op.rid] = Delisted(s.reg[s.op.rid])]
      BY <2>2 DEF eXosip_register_remove
    <3> HIDE DEF t
    <3>5. t \in UA /\ t.op = s.op
      BY <1>1, <3>1, <3>3, <3>4 DEF UA
    <3>6. t.reg = [s.reg EXCEPT ![s.op.rid] = Delisted(s.reg[s.op.rid])]
      BY <1>1, <3>4 DEF UA
    <3>7. ASSUME NEW r \in Rids PROVE ~ t.reg[r].listed
      <4>1. CASE r = s.op.rid
        BY <1>1, <3>3, <3>6, <4>1 DEF UA
      <4>2. CASE r # s.op.rid
        BY <1>1, <3>6, <4>2 DEF UA, Sound
      <4> QED
        BY <4>1, <4>2
    <3> QED
      BY <3>5, <3>7
  <2> QED
    BY <2>1, <2>2
<1> HIDE DEF t
<1> DEFINE o == [s.op EXCEPT !.rid = 0, !.pending = FALSE]
<1>3. sal_op_release(s) = [t EXCEPT !.op = o]
  BY <1>1, <1>2 DEF sal_op_release, UA, Ops, t
<1>4. o \in Ops
  <2>1. 0 \in 0 .. MaxOps
    BY BoundsAssumption
  <2> QED
    BY <1>1, <2>1 DEF Ops, Contacts, Periods
<1>5. o.rid = 0 /\ o.made = s.op.made /\ o.pending = FALSE
  BY <1>1 DEF Ops
<1> QED
  BY <1>2, <1>3, <1>4, <1>5 DEF Sound, UA

\* A new operation takes a context that was never listed.
LEMMA RegisterIsSound ==
  ASSUME NEW s, Sound(s), s.op.rid = 0, s.op.made < MaxOps
  PROVE  Sound(sal_register(s))
<1> DEFINE r == s.op.made + 1
           o == [rid |-> r, made |-> r, contact |-> "private",
                 expires |-> s.proxy.expires, pending |-> FALSE]
           jr == [s.reg[r] EXCEPT !.listed = TRUE, !.period = s.proxy.expires]
           t == [s EXCEPT !.op = o, !.reg[r] = jr]
<1>1. s \in UA /\ s.op \in Ops /\ s.proxy.expires \in Periods \ {"zero"}
  BY SettingsAssumption DEF Sound, UA, Ops, Proxies, Periods
<1>2. r \in Rids /\ r \in 0 .. MaxOps
  BY <1>1, BoundsAssumption DEF Ops, Rids
<1>3. s.reg[r] \in Contexts
  BY <1>1, <1>2 DEF UA
<1>4. jr \in Contexts /\ o \in Ops
  BY <1>1, <1>2, <1>3 DEF Contexts, Ops, Contacts
<1>5. \A q \in Rids : ~ s.reg[q].listed
  BY RidsArePositive DEF Sound
<1> HIDE DEF r, jr
<1>6. t \in UA /\ t.op = o /\ t.reg = [s.reg EXCEPT ![r] = jr]
  BY <1>1, <1>2, <1>4 DEF UA
<1>7. \A q \in Rids : t.reg[q].listed => q = r
  BY <1>1, <1>5, <1>6 DEF UA
<1>8. Sound(t)
  BY <1>6, <1>7 DEF Sound
<1>9. Sound(SendAgain(t, r, 0))
  BY <1>2, <1>8, SendAgainKeeps DEF Keeps
<1>10. t = [s EXCEPT !.op = o, !.reg[r].listed = TRUE, !.reg[r].period = s.proxy.expires]
  BY <1>1, <1>2, <1>3, ZenonT(30) DEF UA, Contexts, jr
<1> QED
  BY <1>9, <1>10 DEF sal_register, r

\* The operation's own context, when it has one.
LEMMA RidIsContext ==
  ASSUME NEW s, Sound(s), s.op.rid # 0
  PROVE  s.op.rid \in Rids
<1>1. s.op.rid \in 0 .. MaxOps
  BY DEF Sound, UA, Ops
<1> QED
  BY <1>1, BoundsAssumption DEF Rids

LEMMA SettingIsPeriod ==
  ASSUME NEW s, Sound(s)
  PROVE  s.proxy.expires \in Periods /\ s.op.expires \in Periods
BY SettingsAssumption DEF Sound, UA, Proxies, Ops, Periods

LEMMA StateKeeps ==
  ASSUME NEW s, Sound(s), NEW state \in {"None", "Progress", "Ok", "Cleared", "Failed"}
  PROVE  Keeps(s, [s EXCEPT !.proxy.state = state]) /\ Keeps(s, SetState(s, state))
<1>1. [s.proxy EXCEPT !.state = state] \in Proxies
  BY DEF Sound, UA, Proxies
<1>2. Keeps(s, [s EXCEPT !.proxy = [s.proxy EXCEPT !.state = state]])
  BY <1>1, ProxyKeeps
<1> QED
  BY <1>2 DEF SetState, Keeps

LEMMA UnregisterKeeps ==
  ASSUME NEW s, Sound(s)
  PROVE  Keeps(s, sal_unregister(s)) /\ Keeps(s, edit(s))
<1>1. Keeps(s, s)
  BY DEF Keeps
<1>2. ASSUME s.op.rid # 0
      PROVE  Keeps(s, SendAgain(SetPeriod(s, s.op.rid, "zero"), s.op.rid, 0))
  <2>1. s.op.rid \in Rids /\ "zero" \in Periods
    BY <1>2, RidIsContext DEF Periods
  <2>2. Keeps(s, SetPeriod(s, s.op.rid, "zero"))
    BY <2>1, SetPeriodKeeps
  <2> QED
    BY <2>1, <2>2, SendAgainKeeps DEF Keeps
<1>3. Keeps(s, sal_unregister(s))
  BY <1>1, <1>2 DEF sal_unregister
<1> QED
  BY <1>1, <1>3 DEF edit

LEMMA RefreshKeeps ==
  ASSUME NEW s, Sound(s), s.op.rid # 0
  PROVE  Keeps(s, sal_register_refresh(s))
<1> DEFINE t == SetPeriod(s, s.op.rid, s.proxy.expires)
           req == [_eXosip_register_build_register(t, s.op.rid, 0)
                     EXCEPT !.contact = s.op.contact]
           u == eXosip_register_send_register(t, s.op.rid, req)
<1>1. s.op.rid \in Rids
  BY RidIsContext
<1>2. Keeps(s, t)
  BY <1>1, SettingIsPeriod, SetPeriodKeeps
<1>3. req \in Requests
  <2>1. _eXosip_register_build_register(t, s.op.rid, 0) \in Requests
    BY <1>1, <1>2, BuildIsRequest DEF Keeps, Sound
  <2>2. s.op.contact \in Contacts
    BY DEF Sound, UA, Ops
  <2> QED
    BY <2>1, <2>2 DEF Requests
<1> HIDE DEF t, req
<1>4. Keeps(t, u)
  BY <1>1, <1>2, <1>3, SendKeeps DEF Keeps
<1> HIDE DEF u
<1>5. Keeps(u, [u EXCEPT !.proxy.state = "Progress"])
  BY <1>4, StateKeeps DEF Keeps
<1> QED
  BY <1>2, <1>4, <1>5 DEF sal_register_refresh, Keeps, t, req, u

LEMMA UpdatedContactKeeps ==
  ASSUME NEW s, Sound(s), s.op.rid # 0
  PROVE  Keeps(s, register_again_with_updated_contact(s).then)
<1> DEFINE t == SetPeriod(s, s.op.rid, s.op.expires)
           req == [_eXosip_register_build_register(t, s.op.rid, 0)
                     EXCEPT !.contact = "public"]
           u == eXosip_register_send_register(t, s.op.rid, req)
           v == [u EXCEPT !.op.contact = "public"]
<1>1. s.op.rid \in Rids
  BY RidIsContext
<1>2. Keeps(s, t)
  BY <1>1, SettingIsPeriod, SetPeriodKeeps
<1>3. req \in Requests
  <2>1. _eXosip_register_build_register(t, s.op.rid, 0) \in Requests
    BY <1>1, <1>2, BuildIsRequest DEF Keeps, Sound
  <2> QED
    BY <2>1 DEF Requests, Contacts
<1> HIDE DEF t, req
<1>4. Keeps(t, u)
  BY <1>1, <1>2, <1>3, SendKeeps DEF Keeps
<1> HIDE DEF u
<1>5. Keeps(u, v)
  <2> DEFINE o == [u.op EXCEPT !.contact = "public"]
  <2>1. Sound(u) /\ u.op \in Ops
    BY <1>4 DEF Keeps, Sound, UA
  <2>2. o \in Ops /\ o.rid = u.op.rid /\ o.made = u.op.made /\ o.pending = u.op.pending
    BY <2>1 DEF Ops, Contacts
  <2>3. u.op.pending => u.op.rid # 0
    BY <2>1 DEF Sound
  <2> HIDE DEF o
  <2>4. Keeps(u, [u EXCEPT !.op = o])
    BY <2>1, <2>2, <2>3, OpKeeps
  <2> QED
    BY <2>4 DEF o
<1>6. Keeps(s, t) /\ Keeps(s, v)
  BY <1>2, <1>4, <1>5 DEF Keeps
<1> HIDE DEF v
<1> QED
  BY <1>6 DEF register_again_with_updated_contact, t, req, u, v

LEMMA AuthenticateKeeps ==
  ASSUME NEW s, Sound(s)
  PROVE  Keeps(s, sal_op_authenticate(s))
<1>1. CASE ~ s.op.pending
  BY <1>1 DEF sal_op_authenticate, Keeps
<1>2. CASE s.op.pending
  <2> DEFINE t == _eXosip_retry_register_with_auth(s, s.op.rid, s.auth.pass)
             o == [t.op EXCEPT !.contact = "public"]
  <2>1. s.op.rid \in Rids
    BY <1>2, RidIsContext DEF Sound
  <2>2. s.auth.pass \in {0} \cup Passwords
    BY DEF Sound, UA, Auths
  <2>3. Keeps(s, t)
    BY <2>1, <2>2, RetryKeeps
  <2> HIDE DEF t
  <2>4. Sound(t) /\ t.op \in Ops
    BY <2>3 DEF Keeps, Sound, UA
  <2>5. o \in Ops /\ o.rid = t.op.rid /\ o.made = t.op.made /\ o.pending = t.op.pending
    BY <2>4 DEF Ops, Contacts
  <2>6. t.op.pending => t.op.rid # 0
    BY <2>4 DEF Sound
  <2> HIDE DEF o
  <2>7. Keeps(t, [t EXCEPT !.op = o])
    BY <2>4, <2>5, <2>6, OpKeeps
  <2>8. Keeps(s, [t EXCEPT !.op = o])
    BY <2>3, <2>7 DEF Keeps
  <2> QED
    BY <1>2, <2>8 DEF sal_op_authenticate, o, t
<1> QED
  BY <1>1, <1>2

-----------------------------------------------------------------------------
(* The core's handlers.                                                    *)

LEMMA FailureKeeps ==
  ASSUME NEW s, Sound(s), NEW forbidden \in BOOLEAN
  PROVE  Keeps(s, register_failure(s, forbidden))
<1> DEFINE t == SetState(s, "Failed")
           a == [t.auth EXCEPT !.asked = @ \/ (forbidden /\ s.op.pending
                                                 /\ s.proxy.removed = "no")]
<1>1. Keeps(s, t)
  BY StateKeeps
<1> HIDE DEF t
<1>2. a \in Auths
  BY <1>1 DEF Keeps, Sound, UA, Auths
<1>3. Keeps(t, [t EXCEPT !.auth = a])
  BY <1>1, <1>2, AuthKeeps DEF Keeps
<1> QED
  BY <1>1, <1>3 DEF register_failure, Keeps, t

LEMMA CountUseKeeps ==
  ASSUME NEW s, Sound(s)
  PROVE  Keeps(s, CountUse(s))
<1> DEFINE a == [s.auth EXCEPT !.usecount = IF @ < 3 THEN @ + 1 ELSE 3]
<1>1. a \in Auths
  BY DEF Sound, UA, Auths
<1>2. Keeps(s, [s EXCEPT !.auth = a])
  BY <1>1, AuthKeeps
<1> QED
  BY <1>2 DEF CountUse

LEMMA AuthRequestedKeeps ==
  ASSUME NEW s, Sound(s), NEW later \in BOOLEAN
  PROVE  Keeps(s, auth_requested(s, later))
<1> DEFINE uses == IF later /\ ~s.auth.works /\ s.auth.usecount >= 3
                   THEN 0 ELSE s.auth.usecount
           t == [s EXCEPT !.auth.usecount = uses]
           f == register_failure(t, TRUE)
<1>1. Keeps(s, t)
  <2>1. [s.auth EXCEPT !.usecount = uses] \in Auths
    BY DEF Sound, UA, Auths
  <2> QED
    BY <2>1, AuthKeeps
<1> HIDE DEF t
<1>2. Keeps(s, CountUse(sal_op_authenticate(t)))
  <2>1. Keeps(t, sal_op_authenticate(t))
    BY <1>1, AuthenticateKeeps DEF Keeps
  <2>2. Keeps(sal_op_authenticate(t), CountUse(sal_op_authenticate(t)))
    BY <2>1, CountUseKeeps DEF Keeps
  <2> QED
    BY <1>1, <2>1, <2>2 DEF Keeps
<1>3. Keeps(t, f)
  BY <1>1, FailureKeeps DEF Keeps
<1> HIDE DEF f
<1>4. ASSUME NEW u, Sound(u) PROVE Keeps(u, [u EXCEPT !.auth.asked = TRUE])
  <2>1. [u.auth EXCEPT !.asked = TRUE] \in Auths
    BY <1>4 DEF Sound, UA, Auths
  <2> QED
    BY <1>4, <2>1, AuthKeeps
<1>5. Keeps(s, [f EXCEPT !.auth.asked = TRUE]) /\ Keeps(s, [t EXCEPT !.auth.asked = TRUE])
  BY <1>1, <1>3, <1>4 DEF Keeps
<1>6. auth_requested(s, later) \in
        {CountUse(sal_op_authenticate(t)), [f EXCEPT !.auth.asked = TRUE],
         [t EXCEPT !.auth.asked = TRUE]}
  BY DEF auth_requested, t, f
<1> QED
  BY <1>2, <1>5, <1>6

\* A challenge is only handled for an operation that has a context.
LEMMA AuthenticationKeeps ==
  ASSUME NEW s, Sound(s), s.op.rid # 0, NEW later \in BOOLEAN
  PROVE  Keeps(s, process_authentication(s, later))
<1> DEFINE t == [s EXCEPT !.op.pending = TRUE]
<1>1. Keeps(s, t)
  <2> DEFINE o == [s.op EXCEPT !.pending = TRUE]
  <2>1. o \in Ops /\ o.rid = s.op.rid /\ o.made = s.op.made
    BY DEF Sound, UA, Ops
  <2> QED
    BY <2>1, OpKeeps
<1> HIDE DEF t
<1>2. Keeps(t, auth_requested(t, later))
  BY <1>1, AuthRequestedKeeps DEF Keeps
<1> QED
  BY <1>1, <1>2 DEF process_authentication, Keeps, t

LEMMA SuccessKeeps ==
  ASSUME NEW s, Sound(s), s.op.rid # 0, NEW ev \in Events
  PROVE  Keeps(s, registration_success(s, ev))
<1> DEFINE t == [s EXCEPT !.op.pending = FALSE,
                          !.auth.works = @ \/ (ev.req.creds # 0 /\ s.auth.pass # 0)]
           o == [s.op EXCEPT !.pending = FALSE]
           a == [s.auth EXCEPT !.works = @ \/ (ev.req.creds # 0 /\ s.auth.pass # 0)]
           again == register_again_with_updated_contact(t).then
<1>1. Keeps(s, t)
  <2>1. o \in Ops /\ o.rid = s.op.rid /\ o.made = s.op.made /\ o.pending = FALSE
    BY DEF Sound, UA, Ops
  <2>2. a \in Auths
    BY DEF Sound, UA, Auths
  <2> HIDE DEF o, a
  <2>3. Keeps(s, [s EXCEPT !.op = o])
    BY <2>1, OpKeeps
  <2>4. Keeps([s EXCEPT !.op = o], [[s EXCEPT !.op = o] EXCEPT !.auth = a])
    BY <2>2, <2>3, AuthKeeps DEF Keeps
  <2>5. t = [[s EXCEPT !.op = o] EXCEPT !.auth = a]
    BY DEF Sound, UA, o, a
  <2> QED
    BY <2>3, <2>4, <2>5 DEF Keeps
<1> HIDE DEF t
<1>2. Keeps(t, again)
  BY <1>1, UpdatedContactKeeps DEF Keeps
<1> HIDE DEF again
<1>3. ASSUME NEW state \in {"Cleared", "Ok"}
      PROVE  Keeps(t, SetState(t, state)) /\ Keeps(again, SetState(again, state))
  <2>1. Sound(t) /\ Sound(again)
    BY <1>1, <1>2 DEF Keeps
  <2>2. state \in {"None", "Progress", "Ok", "Cleared", "Failed"}
    BY <1>3
  <2> QED
    BY <2>1, <2>2, StateKeeps
<1>4. registration_success(s, ev) \in
        {SetState(t, "Cleared"), SetState(t, "Ok"), again, SetState(again, "Ok")}
  BY DEF registration_success, t, again
<1> QED
  BY <1>1, <1>2, <1>3, <1>4 DEF Keeps

LEMMA TooBriefKeeps ==
  ASSUME NEW s, Sound(s), s.op.rid # 0
  PROVE  Keeps(s, IntervalTooBrief(s))
<1> DEFINE u == [s EXCEPT !.op.expires = "long"]
           t == SetPeriod(u, s.op.rid, "long")
<1>1. s.op.rid \in Rids
  BY RidIsContext
<1>2. Keeps(s, u)
  <2> DEFINE o == [s.op EXCEPT !.expires = "long"]
  <2>1. o \in Ops /\ o.rid = s.op.rid /\ o.made = s.op.made
    BY DEF Sound, UA, Ops, Periods
  <2> QED
    BY <2>1, OpKeeps
<1> HIDE DEF u
<1>3. Keeps(u, t)
  BY <1>1, <1>2, SetPeriodKeeps DEF Keeps, Periods
<1> HIDE DEF t
<1>4. Keeps(t, SendAgain(t, s.op.rid, 0))
  BY <1>1, <1>3, SendAgainKeeps DEF Keeps
<1> QED
  BY <1>2, <1>3, <1>4 DEF IntervalTooBrief, Keeps, t, u

LEMMA RegistrationFailureKeeps ==
  ASSUME NEW s, Sound(s), s.op.rid # 0, NEW ev \in Events, NEW later \in BOOLEAN
  PROVE  Keeps(s, registration_failure(s, ev, later))
<1> DEFINE again == register_again_with_updated_contact(s).then
<1>1. Keeps(s, again)
  BY UpdatedContactKeeps
<1> HIDE DEF again
<1>2. Keeps(again, register_failure(again, TRUE))
  BY <1>1, FailureKeeps DEF Keeps
<1>3. Keeps(s, register_failure(s, ev.resp = "other"))
  BY FailureKeeps
<1>4. Keeps(s, process_authentication(s, later)) /\ Keeps(s, IntervalTooBrief(s))
  BY AuthenticationKeeps, TooBriefKeeps
<1>5. registration_failure(s, ev, later) \in
        {process_authentication(s, later), IntervalTooBrief(s), again,
         register_failure(again, TRUE), register_failure(s, ev.resp = "other")}
  BY DEF registration_failure, again
<1> QED
  BY <1>1, <1>2, <1>3, <1>4, <1>5 DEF Keeps

-----------------------------------------------------------------------------
(* What the operation's own context goes through.                          *)

Own(s) == s.reg[s.op.rid]

\* Nobody is changing the proxy.
Active(s) ==
  s.proxy.enabled /\ ~s.proxy.commit /\ ~s.proxy.editing /\ s.proxy.removed = "no"

\* With the transaction that Served gives it, eXosip sends it again.
Refreshed(s) == s.op.rid # 0 /\ Own(s).listed /\ Own(s).period # "zero"

\* The contact at the registrar (b) is the one that its requests carry, so that
\* a request with a period of zero, once accepted, leaves no binding.
Served(s, b) ==
  s.op.rid # 0 /\ Own(s).listed =>
    /\ Own(s).tr # "none"
    /\ Own(s).req.contact = "public" => s.op.contact = "public"
    /\ s.op.rid \in b => Own(s).req.contact = "public"
    /\ Own(s).tr # "done" => Own(s).last # "2xx"
    /\ /\ Own(s).req.exp = "zero"
       /\ \/ Own(s).tr = "heard" /\ Own(s).answer = "2xx"
          \/ Own(s).tr = "done" /\ Own(s).last = "2xx"
       => s.op.rid \notin b

\* The contexts to come were never used.
Unmade(s, b) ==
  /\ s.op.rid <= s.op.made
  /\ \A r \in Rids : r > s.op.made => r \notin b /\ s.reg[r].tr = "none"

\* The last event is about the last request, if it is one of the context.
LastTold(s, evs) ==
  /\ evs # <<>> /\ s.op.rid # 0 /\ evs[Len(evs)].rid = s.op.rid
  /\ Own(s).listed /\ Own(s).tr = "done" /\ Own(s).last = "2xx"
  => evs[Len(evs)].req = Own(s).req

\* OkIsRefreshed and ClearedIsUnbound follow from this one.
RInv ==
  /\ IInv
  /\ up /\ Active(ua) => Refreshed(ua)
  /\ Served(ua, bindings) /\ Unmade(ua, bindings) /\ LastTold(ua, events)

SameSettings(s, t) ==
  /\ t.proxy.enabled = s.proxy.enabled /\ t.proxy.commit = s.proxy.commit
  /\ t.proxy.editing = s.proxy.editing /\ t.proxy.removed = s.proxy.removed

\* t comes from s, and only the own context was touched: what it asks the
\* registrar next still carries the contact that is bound.
Along(s, t, b) ==
  /\ Keeps(s, t) /\ SameSettings(s, t)
  /\ t.proxy.state = "Cleared" => s.proxy.state = "Cleared"
  /\ \A r \in Rids : r # s.op.rid => t.reg[r] = s.reg[r]
  /\ Served(s, b) => Served(t, b)
  /\ s.op.rid # 0 =>
       /\ Own(t).listed = Own(s).listed
       /\ Own(t).tr = "done" =>
            Own(s).tr = "done" /\ Own(t).req = Own(s).req /\ Own(t).last = Own(s).last

\* ... and eXosip goes on with it.
Onward(s, t, b) == Along(s, t, b) /\ (Refreshed(s) => Refreshed(t))

LEMMA OnwardTwice ==
  ASSUME NEW s, NEW t, NEW u, NEW b
  PROVE  /\ Along(s, t, b) /\ Along(t, u, b) => Along(s, u, b)
         /\ Onward(s, t, b) /\ Onward(t, u, b) => Onward(s, u, b)
<1>1. Along(s, t, b) /\ Along(t, u, b) => Along(s, u, b)
  <2> SUFFICES ASSUME Along(s, t, b), Along(t, u, b) PROVE Along(s, u, b)
    OBVIOUS
  <2>1. Keeps(s, u) /\ SameSettings(s, u) /\ t.op.rid = s.op.rid
    BY DEF Along, Keeps, SameSettings
  <2>2. \A r \in Rids : r # s.op.rid => u.reg[r] = s.reg[r]
    BY <2>1 DEF Along
  <2> QED
    BY <2>1, <2>2 DEF Along
<1> QED
  BY <1>1 DEF Onward

LEMMA OnwardSelf == ASSUME NEW s, Sound(s), NEW b PROVE Onward(s, s, b)
BY DEF Onward, Along, Keeps, SameSettings

\* The contexts are left alone.
LEMMA SideOnward ==
  ASSUME NEW s, NEW t, NEW b, Keeps(s, t), SameSettings(s, t), t.reg = s.reg,
         t.op.contact \in {s.op.contact, "public"},
         t.proxy.state = "Cleared" => s.proxy.state = "Cleared"
  PROVE  Onward(s, t, b)
<1>1. t.op.rid = s.op.rid /\ Own(t) = Own(s)
  BY DEF Keeps, Own
<1> QED
  BY <1>1 DEF Onward, Along, Served, Refreshed

\* One field of the own context that no request shows.
LEMMA OwnAlong ==
  ASSUME NEW s, Sound(s), s.op.rid # 0, NEW b, NEW jr \in Contexts,
         jr.listed = Own(s).listed, jr.tr = Own(s).tr, jr.req = Own(s).req,
         jr.answer = Own(s).answer, jr.last = Own(s).last
  PROVE  /\ Along(s, [s EXCEPT !.reg[s.op.rid] = jr], b)
         /\ jr.period = Own(s).period \/ jr.period # "zero" =>
              Onward(s, [s EXCEPT !.reg[s.op.rid] = jr], b)
<1> DEFINE t == [s EXCEPT !.reg[s.op.rid] = jr]
<1>1. s.op.rid \in Rids /\ s \in UA
  BY RidIsContext DEF Sound
<1>2. Keeps(s, t)
  BY <1>1, ContextKeeps DEF Own
<1>3. t.proxy = s.proxy /\ t.op = s.op /\ t.reg = [s.reg EXCEPT ![s.op.rid] = jr]
  BY <1>1 DEF UA
<1> HIDE DEF t
<1>4. Own(t) = jr /\ \A r \in Rids : r # s.op.rid => t.reg[r] = s.reg[r]
  BY <1>1, <1>3 DEF UA, Own
<1>5. Served(s, b) => Served(t, b)
  BY <1>3, <1>4 DEF Served
<1>6. Along(s, t, b)
  BY <1>2, <1>3, <1>4, <1>5 DEF Along, SameSettings
<1>7. jr.period = Own(s).period \/ jr.period # "zero" => Onward(s, t, b)
  BY <1>3, <1>4, <1>6 DEF Onward, Refreshed
<1> QED
  BY <1>6, <1>7 DEF t

LEMMA SendOnward ==
  ASSUME NEW s, Sound(s), s.op.rid # 0, NEW b, NEW req \in Requests,
         Idle(s, s.op.rid), req.contact \in {Own(s).req.contact, s.op.contact}
  PROVE  Onward(s, eXosip_register_send_register(s, s.op.rid, req), b)
<1> DEFINE t == eXosip_register_send_register(s, s.op.rid, req)
           jr == Sent(Own(s), req)
<1>1. s.op.rid \in Rids /\ s \in UA /\ Own(s) \in Contexts
  BY RidIsContext DEF Sound, UA, Own
<1>2. Keeps(s, t)
  BY <1>1, SendKeeps
<1>3. t.proxy = s.proxy /\ t.op = s.op /\ t.reg = [s.reg EXCEPT ![s.op.rid] = jr]
  BY <1>1 DEF UA, eXosip_register_send_register, Own
<1>4. /\ jr.listed = Own(s).listed /\ jr.tr = "calling" /\ jr.req = req
      /\ jr.last = "none"
      /\ jr.period = Own(s).period \/ jr.period # "zero"
  BY <1>1 DEF Sent, Contexts
<1> HIDE DEF t, jr
<1>5. Own(t) = jr /\ \A r \in Rids : r # s.op.rid => t.reg[r] = s.reg[r]
  BY <1>1, <1>3 DEF UA, Own
<1>6. Served(s, b) => Served(t, b)
  BY <1>3, <1>4, <1>5 DEF Served, Idle, Own
<1>7. Along(s, t, b)
  BY <1>2, <1>3, <1>4, <1>5, <1>6 DEF Along, SameSettings
<1>8. Onward(s, t, b)
  BY <1>3, <1>4, <1>5, <1>7 DEF Onward, Refreshed
<1> QED
  BY <1>8 DEF t

\* The contact of a request comes from the last one, or from the operation.
LEMMA BuildContact ==
  ASSUME NEW s, NEW pass
  PROVE  _eXosip_register_build_register(s, s.op.rid, pass).contact
           \in {Own(s).req.contact, s.op.contact}
BY DEF _eXosip_register_build_register, Own

LEMMA SendAgainOnward ==
  ASSUME NEW s, Sound(s), s.op.rid # 0, NEW b, NEW pass \in {0} \cup Passwords
  PROVE  Onward(s, SendAgain(s, s.op.rid, pass), b)
<1> DEFINE req == _eXosip_register_build_register(s, s.op.rid, pass)
<1>1. req \in Requests
  BY RidIsContext, BuildIsRequest DEF Sound
<1>2. req.contact \in {Own(s).req.contact, s.op.contact}
  BY BuildContact
<1> HIDE DEF req
<1>3. Idle(s, s.op.rid) => Onward(s, eXosip_register_send_register(s, s.op.rid, req), b)
  BY <1>1, <1>2, SendOnward
<1> QED
  BY <1>3, OnwardSelf DEF SendAgain, req

LEMMA SetPeriodOnward ==
  ASSUME NEW s, Sound(s), s.op.rid # 0, NEW b, NEW period \in Periods
  PROVE  /\ Along(s, SetPeriod(s, s.op.rid, period), b)
         /\ period # "zero" => Onward(s, SetPeriod(s, s.op.rid, period), b)
<1> DEFINE jr == [Own(s) EXCEPT !.period = period]
           t == [s EXCEPT !.reg[s.op.rid] = jr]
<1>1. Own(s) \in Contexts
  BY RidIsContext DEF Sound, UA, Own
<1>2. /\ jr \in Contexts /\ jr.listed = Own(s).listed /\ jr.tr = Own(s).tr
      /\ jr.req = Own(s).req /\ jr.answer = Own(s).answer /\ jr.last = Own(s).last
      /\ jr.period = period
  BY <1>1 DEF Contexts
<1> HIDE DEF jr
<1>3. Along(s, t, b) /\ (period # "zero" => Onward(s, t, b))
  BY <1>2, OwnAlong
<1>4. Along(s, s, b) /\ Onward(s, s, b)
  BY OnwardSelf DEF Onward
<1>5. SetPeriod(s, s.op.rid, period) \in {s, t}
  BY DEF SetPeriod, jr, Own
<1> QED
  BY <1>3, <1>4, <1>5

-----------------------------------------------------------------------------
(* The operators move the own context on.                                  *)

LEMMA RetryOnward ==
  ASSUME NEW s, Sound(s), s.op.rid # 0, NEW b, NEW pass \in {0} \cup Passwords
  PROVE  Onward(s, _eXosip_retry_register_with_auth(s, s.op.rid, pass), b)
<1>1. Own(s) \in Contexts
  BY RidIsContext DEF Sound, UA, Own
<1>2. CASE Own(s).retry < 3
  <2> DEFINE jr == [Own(s) EXCEPT !.retry = @ + 1]
             t == [s EXCEPT !.reg[s.op.rid] = jr]
  <2>1. /\ jr \in Contexts /\ jr.listed = Own(s).listed /\ jr.tr = Own(s).tr
        /\ jr.req = Own(s).req /\ jr.answer = Own(s).answer /\ jr.last = Own(s).last
        /\ jr.period = Own(s).period
    BY <1>1, <1>2 DEF Contexts
  <2>2. t = [s EXCEPT !.reg[s.op.rid].retry = @ + 1]
    BY DEF Own
  <2> HIDE DEF jr
  <2>3. Onward(s, t, b)
    BY <2>1, OwnAlong
  <2> HIDE DEF t
  <2>4. Sound(t) /\ t.op.rid = s.op.rid
    BY <2>3 DEF Onward, Along, Keeps
  <2>5. Onward(t, SendAgain(t, s.op.rid, pass), b)
    BY <2>4, SendAgainOnward
  <2>6. Onward(s, SendAgain(t, s.op.rid, pass), b)
    BY <2>3, <2>5, OnwardTwice
  <2> QED
    BY <2>2, <2>6, OnwardSelf DEF _eXosip_retry_register_with_auth
<1>3. CASE ~ Own(s).retry < 3
  BY <1>3, OnwardSelf DEF _eXosip_retry_register_with_auth, Own
<1> QED
  BY <1>2, <1>3

\* An unREGISTER takes the period away.
LEMMA UnregisterAlong ==
  ASSUME NEW s, Sound(s), NEW b
  PROVE  Along(s, edit(s), b)
<1>1. Along(s, s, b)
  BY OnwardSelf DEF Onward
<1>2. ASSUME s.op.rid # 0
      PROVE  Along(s, SendAgain(SetPeriod(s, s.op.rid, "zero"), s.op.rid, 0), b)
  <2> DEFINE t == SetPeriod(s, s.op.rid, "zero")
  <2>1. Along(s, t, b)
    BY <1>2, SetPeriodOnward DEF Periods
  <2> HIDE DEF t
  <2>2. Sound(t) /\ t.op.rid = s.op.rid
    BY <2>1 DEF Along, Keeps
  <2>3. Onward(t, SendAgain(t, s.op.rid, 0), b)
    BY <1>2, <2>2, SendAgainOnward
  <2>4. Along(s, SendAgain(t, s.op.rid, 0), b)
    BY <2>1, <2>3, OnwardTwice DEF Onward
  <2> QED
    BY <2>4 DEF t
<1> QED
  BY <1>1, <1>2 DEF edit, sal_unregister

\* A change of state, but to Cleared.
LEMMA StateOnward ==
  ASSUME NEW s, Sound(s), NEW b, NEW state \in {"None", "Progress", "Ok", "Failed"}
  PROVE  Onward(s, [s EXCEPT !.proxy.state = state], b) /\ Onward(s, SetState(s, state), b)
<1> DEFINE t == [s EXCEPT !.proxy.state = state]
<1>1. Keeps(s, t)
  BY StateKeeps
<1>2. /\ SameSettings(s, t) /\ t.reg = s.reg /\ t.op = s.op
      /\ t.proxy.state = state
  BY DEF Sound, UA, Proxies, SameSettings
<1> HIDE DEF t
<1>3. Onward(s, t, b)
  BY <1>1, <1>2, SideOnward
<1> QED
  BY <1>3, OnwardSelf DEF SetState, t

LEMMA RefreshOnward ==
  ASSUME NEW s, Sound(s), s.op.rid # 0, NEW b
  PROVE  Onward(s, sal_register_refresh(s), b)
<1> DEFINE t == SetPeriod(s, s.op.rid, s.proxy.expires)
           req == [_eXosip_register_build_register(t, s.op.rid, 0)
                     EXCEPT !.contact = s.op.contact]
           u == eXosip_register_send_register(t, s.op.rid, req)
<1>1. s.op.rid \in Rids /\ s.proxy.expires \in Periods \ {"zero"}
  BY RidIsContext, SettingsAssumption DEF Sound, UA, Proxies, Periods
<1>2. Onward(s, t, b)
  BY <1>1, SetPeriodOnward
<1>3. t.op = s.op /\ (Idle(s, s.op.rid) => Idle(t, s.op.rid))
  BY <1>1 DEF SetPeriod, Idle, Sound, UA, Contexts
<1>4. Sound(t)
  BY <1>2 DEF Onward, Along, Keeps
<1>5. req \in Requests /\ req.contact = t.op.contact
  <2>1. _eXosip_register_build_register(t, s.op.rid, 0) \in Requests
    BY <1>1, <1>4, BuildIsRequest DEF Sound
  <2>2. s.op.contact \in Contacts
    BY DEF Sound, UA, Ops
  <2> QED
    BY <1>3, <2>1, <2>2 DEF Requests
<1> HIDE DEF t, req
<1>6. ASSUME Idle(s, s.op.rid) PROVE Onward(t, u, b)
  BY <1>3, <1>4, <1>5, <1>6, SendOnward
<1> HIDE DEF u
<1>7. ASSUME Idle(s, s.op.rid) PROVE Onward(s, [u EXCEPT !.proxy.state = "Progress"], b)
  <2>1. Sound(u)
    BY <1>6, <1>7 DEF Onward, Along, Keeps
  <2>2. Onward(u, [u EXCEPT !.proxy.state = "Progress"], b)
    BY <2>1, StateOnward
  <2> QED
    BY <1>2, <1>6, <1>7, <2>2, OnwardTwice
<1> QED
  BY <1>2, <1>7 DEF sal_register_refresh, t, req, u

\* The contact is found out of date: it is the operation's from now on.
LEMMA UpdatedContactOnward ==
  ASSUME NEW s, Sound(s), s.op.rid # 0, NEW b
  PROVE  Onward(s, register_again_with_updated_contact(s).then, b)
<1> DEFINE t == SetPeriod(s, s.op.rid, s.op.expires)
           o == [s.op EXCEPT !.contact = "public"]
           v == [t EXCEPT !.op = o]
           req == [_eXosip_register_build_register(t, s.op.rid, 0)
                     EXCEPT !.contact = "public"]
           u == [eXosip_register_send_register(t, s.op.rid, req)
                   EXCEPT !.op.contact = "public"]
<1>1. /\ s.op.rid \in Rids /\ s.op.expires \in Periods \ {"zero"} /\ s.op \in Ops
      /\ o \in Ops /\ o.rid = s.op.rid /\ o.made = s.op.made /\ o.pending = s.op.pending
      /\ o.contact = "public"
  BY RidIsContext DEF Sound, UA, Ops, Contacts
<1>2. Onward(s, t, b)
  BY <1>1, SetPeriodOnward
<1>3. t.op = s.op /\ (Idle(s, s.op.rid) => Idle(t, s.op.rid))
  BY <1>1 DEF SetPeriod, Idle, Sound, UA, Contexts
<1>4. Sound(t)
  BY <1>2 DEF Onward, Along, Keeps
<1>5. req \in Requests /\ req.contact = "public"
  <2>1. _eXosip_register_build_register(t, s.op.rid, 0) \in Requests
    BY <1>1, <1>4, BuildIsRequest DEF Sound
  <2> QED
    BY <2>1 DEF Requests, Contacts
<1> HIDE DEF t, req
<1>6. Onward(t, v, b)
  <2>1. o.pending => o.rid # 0
    BY <1>1 DEF Sound
  <2>2. v.reg = t.reg /\ v.op = o /\ v.proxy = t.proxy
    BY <1>4 DEF Sound, UA
  <2> HIDE DEF o
  <2>3. Keeps(t, v)
    BY <1>1, <1>3, <1>4, <2>1, OpKeeps
  <2> HIDE DEF v
  <2> QED
    BY <1>1, <2>2, <2>3, SideOnward DEF SameSettings
<1>7. v.op = o /\ v.reg = t.reg /\ Sound(v)
  BY <1>4, <1>6 DEF Onward, Along, Keeps, Sound, UA
<1>8. ASSUME Idle(s, s.op.rid) PROVE Onward(v, u, b)
  <2>1. Idle(v, s.op.rid)
    BY <1>3, <1>7, <1>8 DEF Idle
  <2>2. Onward(v, eXosip_register_send_register(v, v.op.rid, req), b)
    <3> HIDE DEF v, o
    <3> QED
      BY <1>1, <1>5, <1>7, <2>1, SendOnward
  <2>3. u = eXosip_register_send_register(v, v.op.rid, req)
    BY <1>1, <1>3, <1>4, <1>7 DEF eXosip_register_send_register, Sound, UA
  <2> QED
    BY <2>2, <2>3
<1> HIDE DEF v, u
<1>9. Idle(s, s.op.rid) => Onward(s, u, b)
  BY <1>2, <1>6, <1>8, OnwardTwice
<1> QED
  BY <1>2, <1>9 DEF register_again_with_updated_contact, t, req, u

LEMMA AuthenticateOnward ==
  ASSUME NEW s, Sound(s), NEW b
  PROVE  Onward(s, sal_op_authenticate(s), b)
<1>1. CASE ~ s.op.pending
  BY <1>1, OnwardSelf DEF sal_op_authenticate
<1>2. CASE s.op.pending
  <2> DEFINE t == _eXosip_retry_register_with_auth(s, s.op.rid, s.auth.pass)
             o == [t.op EXCEPT !.contact = "public"]
             u == [t EXCEPT !.op = o]
  <2>1. s.op.rid # 0 /\ s.auth.pass \in {0} \cup Passwords
    BY <1>2 DEF Sound, UA, Auths
  <2>2. Onward(s, t, b)
    BY <2>1, RetryOnward
  <2> HIDE DEF t
  <2>3. Sound(t) /\ t.op \in Ops
    BY <2>2 DEF Onward, Along, Keeps, Sound, UA
  <2>4. /\ o \in Ops /\ o.rid = t.op.rid /\ o.made = t.op.made /\ o.contact = "public"
        /\ o.pending => o.rid # 0
    BY <2>3 DEF Sound, Ops, Contacts
  <2> HIDE DEF o
  <2>5. Keeps(t, u) /\ u.op = o /\ u.reg = t.reg /\ u.proxy = t.proxy
    BY <2>3, <2>4, OpKeeps DEF Sound, UA
  <2> HIDE DEF u
  <2>6. Onward(s, u, b)
    BY <2>2, <2>4, <2>5, SideOnward, OnwardTwice DEF SameSettings
  <2> QED
    BY <1>2, <2>6 DEF sal_op_authenticate, u, o, t
<1> QED
  BY <1>1, <1>2

\* Only the credentials change.
LEMMA AuthOnward ==
  ASSUME NEW s, Sound(s), NEW a \in Auths, NEW b
  PROVE  Onward(s, [s EXCEPT !.auth = a], b)
<1> DEFINE t == [s EXCEPT !.auth = a]
<1>1. Keeps(s, t) /\ t.proxy = s.proxy /\ t.op = s.op /\ t.reg = s.reg
  BY AuthKeeps DEF Sound, UA
<1> HIDE DEF t
<1>2. Onward(s, t, b)
  BY <1>1, SideOnward DEF SameSettings
<1> QED
  BY <1>2 DEF t

LEMMA FailureOnward ==
  ASSUME NEW s, Sound(s), NEW forbidden \in BOOLEAN, NEW b
  PROVE  Onward(s, register_failure(s, forbidden), b)
<1> DEFINE t == SetState(s, "Failed")
           a == [t.auth EXCEPT !.asked = @ \/ (forbidden /\ s.op.pending
                                                 /\ s.proxy.removed = "no")]
<1>1. Onward(s, t, b)
  BY StateOnward
<1> HIDE DEF t
<1>2. Sound(t) /\ a \in Auths
  BY <1>1 DEF Onward, Along, Keeps, Sound, UA, Auths
<1> HIDE DEF a
<1>3. Onward(s, [t EXCEPT !.auth = a], b)
  BY <1>1, <1>2, AuthOnward, OnwardTwice
<1> QED
  BY <1>3 DEF register_failure, t, a

LEMMA CountUseOnward ==
  ASSUME NEW s, Sound(s), NEW b
  PROVE  Onward(s, CountUse(s), b)
<1> DEFINE a == [s.auth EXCEPT !.usecount = IF @ < 3 THEN @ + 1 ELSE 3]
<1>1. a \in Auths
  BY DEF Sound, UA, Auths
<1>2. Onward(s, [s EXCEPT !.auth = a], b)
  BY <1>1, AuthOnward
<1> QED
  BY <1>2 DEF CountUse

LEMMA AuthenticationOnward ==
  ASSUME NEW s, Sound(s), s.op.rid # 0, NEW later \in BOOLEAN, NEW b
  PROVE  Onward(s, process_authentication(s, later), b)
<1> DEFINE o == [s.op EXCEPT !.pending = TRUE]
           q == [s EXCEPT !.op = o]
           uses == IF later /\ ~q.auth.works /\ q.auth.usecount >= 3
                   THEN 0 ELSE q.auth.usecount
           t == [q EXCEPT !.auth.usecount = uses]
           f == register_failure(t, TRUE)
           w == sal_op_authenticate(t)
<1>1. Onward(s, q, b)
  <2>1. /\ o \in Ops /\ o.rid = s.op.rid /\ o.made = s.op.made /\ o.contact = s.op.contact
    BY DEF Sound, UA, Ops
  <2> HIDE DEF o
  <2>2. Keeps(s, q) /\ q.op = o /\ q.reg = s.reg /\ q.proxy = s.proxy
    BY <2>1, OpKeeps DEF Sound, UA
  <2> HIDE DEF q
  <2> QED
    BY <2>1, <2>2, SideOnward DEF SameSettings
<1>2. q = [s EXCEPT !.op.pending = TRUE]
  OBVIOUS
<1> HIDE DEF q
<1>3. Sound(q)
  BY <1>1 DEF Onward, Along, Keeps
<1>4. Onward(q, t, b)
  <2>1. [q.auth EXCEPT !.usecount = uses] \in Auths
    BY <1>3 DEF Sound, UA, Auths
  <2> QED
    BY <1>3, <2>1, AuthOnward
<1>5. Sound(t)
  BY <1>4 DEF Onward, Along, Keeps
<1> HIDE DEF t
<1>6. Onward(t, CountUse(w), b)
  <2>1. Onward(t, w, b)
    BY <1>5, AuthenticateOnward
  <2>2. Sound(w)
    BY <2>1 DEF Onward, Along, Keeps
  <2> HIDE DEF w
  <2> QED
    BY <2>1, <2>2, CountUseOnward, OnwardTwice
<1>7. ASSUME NEW u, Sound(u) PROVE Onward(u, [u EXCEPT !.auth.asked = TRUE], b)
  <2>1. [u.auth EXCEPT !.asked = TRUE] \in Auths
    BY <1>7 DEF Sound, UA, Auths
  <2> QED
    BY <1>7, <2>1, AuthOnward
<1>8. Onward(t, [f EXCEPT !.auth.asked = TRUE], b)
  <2>1. Onward(t, f, b)
    BY <1>5, FailureOnward
  <2>2. Sound(f)
    BY <2>1 DEF Onward, Along, Keeps
  <2> HIDE DEF f
  <2> QED
    BY <1>7, <2>1, <2>2, OnwardTwice
<1>9. Onward(t, [t EXCEPT !.auth.asked = TRUE], b)
  BY <1>5, <1>7
<1>10. auth_requested(q, later) \in
         {CountUse(w), [f EXCEPT !.auth.asked = TRUE], [t EXCEPT !.auth.asked = TRUE]}
  BY DEF auth_requested, t, f, w
<1> HIDE DEF f, w
<1>11. Onward(t, auth_requested(q, later), b)
  BY <1>6, <1>8, <1>9, <1>10
<1>12. Onward(s, auth_requested(q, later), b)
  BY <1>1, <1>4, <1>11, OnwardTwice
<1> QED
  BY <1>2, <1>12 DEF process_authentication

LEMMA TooBriefOnward ==
  ASSUME NEW s, Sound(s), s.op.rid # 0, NEW b
  PROVE  Onward(s, IntervalTooBrief(s), b)
<1> DEFINE o == [s.op EXCEPT !.expires = "long"]
           u == [s EXCEPT !.op = o]
           t == SetPeriod(u, s.op.rid, "long")
<1>1. Onward(s, u, b) /\ u.op.rid = s.op.rid
  <2>1. /\ o \in Ops /\ o.rid = s.op.rid /\ o.made = s.op.made /\ o.contact = s.op.contact
        /\ o.pending = s.op.pending
    BY DEF Sound, UA, Ops, Periods
  <2>2. o.pending => o.rid # 0
    BY <2>1 DEF Sound
  <2> HIDE DEF o
  <2>3. Keeps(s, u) /\ u.op = o /\ u.reg = s.reg /\ u.proxy = s.proxy
    BY <2>1, <2>2, OpKeeps DEF Sound, UA
  <2> HIDE DEF u
  <2> QED
    BY <2>1, <2>3, SideOnward DEF SameSettings
<1>2. u = [s EXCEPT !.op.expires = "long"]
  OBVIOUS
<1> HIDE DEF u
<1>3. Onward(u, t, b)
  BY <1>1, SetPeriodOnward, SMTT(20) DEF Onward, Along, Keeps, Periods
<1> HIDE DEF t
<1>4. Onward(t, SendAgain(t, s.op.rid, 0), b)
  BY <1>1, <1>3, SendAgainOnward DEF Onward, Along, Keeps
<1>5. Onward(s, SendAgain(t, s.op.rid, 0), b)
  BY <1>1, <1>3, <1>4, OnwardTwice
<1> QED
  BY <1>2, <1>5 DEF IntervalTooBrief, t

LEMMA RegistrationFailureOnward ==
  ASSUME NEW s, Sound(s), s.op.rid # 0, NEW ev \in Events, NEW later \in BOOLEAN, NEW b
  PROVE  Onward(s, registration_failure(s, ev, later), b)
<1> DEFINE again == register_again_with_updated_contact(s).then
<1>1. Onward(s, again, b)
  BY UpdatedContactOnward
<1>2. Sound(again)
  BY <1>1 DEF Onward, Along, Keeps
<1> HIDE DEF again
<1>3. Onward(s, register_failure(again, TRUE), b)
  BY <1>1, <1>2, FailureOnward, OnwardTwice
<1>4. Onward(s, register_failure(s, ev.resp = "other"), b)
  BY FailureOnward
<1>5. Onward(s, process_authentication(s, later), b) /\ Onward(s, IntervalTooBrief(s), b)
  BY AuthenticationOnward, TooBriefOnward
<1>6. registration_failure(s, ev, later) \in
        {process_authentication(s, later), IntervalTooBrief(s), again,
         register_failure(again, TRUE), register_failure(s, ev.resp = "other")}
  BY DEF registration_failure, again
<1> QED
  BY <1>1, <1>3, <1>4, <1>5, <1>6

\* The proxy is Cleared for a request with a period of zero, and no other.
LEMMA SuccessOnward ==
  ASSUME NEW s, Sound(s), s.op.rid # 0, NEW ev \in Events, NEW b
  PROVE  \E u : /\ Onward(s, u, b)
                /\ \/ registration_success(s, ev) = u
                   \/ ev.req.exp = "zero" /\ registration_success(s, ev) = SetState(u, "Cleared")
<1> DEFINE o == [s.op EXCEPT !.pending = FALSE]
           a == [s.auth EXCEPT !.works = @ \/ (ev.req.creds # 0 /\ s.auth.pass # 0)]
           q == [s EXCEPT !.op = o]
           t == [q EXCEPT !.auth = a]
           again == register_again_with_updated_contact(t).then
<1>1. Onward(s, q, b) /\ Sound(q)
  <2>1. /\ o \in Ops /\ o.rid = s.op.rid /\ o.made = s.op.made /\ o.contact = s.op.contact
        /\ o.pending = FALSE
    BY DEF Sound, UA, Ops
  <2> HIDE DEF o
  <2>2. Keeps(s, q) /\ q.op = o /\ q.reg = s.reg /\ q.proxy = s.proxy
    BY <2>1, OpKeeps DEF Sound, UA
  <2> HIDE DEF q
  <2> QED
    BY <2>1, <2>2, SideOnward DEF SameSettings, Keeps
<1>2. t = [s EXCEPT !.op.pending = FALSE,
                    !.auth.works = @ \/ (ev.req.creds # 0 /\ s.auth.pass # 0)]
  BY DEF Sound, UA
<1>3. a \in Auths
  BY DEF Sound, UA, Auths
<1> HIDE DEF q, a
<1>4. Onward(s, t, b)
  BY <1>1, <1>3, AuthOnward, OnwardTwice
<1>5. Sound(t) /\ t.op.rid # 0
  BY <1>4 DEF Onward, Along, Keeps
<1> HIDE DEF t
<1>6. Onward(s, again, b) /\ Sound(again)
  <2>1. Onward(t, again, b)
    BY <1>5, UpdatedContactOnward
  <2> QED
    BY <1>4, <2>1, OnwardTwice DEF Onward, Along, Keeps
<1> HIDE DEF again
<1>7. Onward(s, SetState(t, "Ok"), b) /\ Onward(s, SetState(again, "Ok"), b)
  BY <1>4, <1>5, <1>6, StateOnward, OnwardTwice
<1>8. CASE ev.req.exp = "zero"
  BY <1>2, <1>4, <1>8 DEF registration_success
<1>9. CASE ev.req.exp # "zero"
  <2>1. registration_success(s, ev) \in {SetState(t, "Ok"), again, SetState(again, "Ok")}
    BY <1>2, <1>9 DEF registration_success, again
  <2> QED
    BY <1>6, <1>7, <2>1
<1> QED
  BY <1>8, <1>9

-----------------------------------------------------------------------------
(* The steps.                                                              *)

LEMMA InvariantIsTyped ==
  ASSUME IInv
  PROVE  TypeOK /\ OneRegistration /\ ua \in UA
BY DEF IInv, RestOK, Sound, UA, ua, TypeOK, OneRegistration

\* A step that becomes a sound record keeps the invariant's part of it.
LEMMA BecomeIsSound ==
  ASSUME NEW t, Sound(t), Become(t)
  PROVE  Sound(ua')
<1>1. t = [proxy |-> t.proxy, op |-> t.op, auth |-> t.auth, reg |-> t.reg]
  BY DEF Sound, UA
<1>2. ua' = t
  BY <1>1 DEF Become, ua
<1> QED
  BY <1>2

\* A step of eXosip or the registrar that changes one context.
LEMMA ContextIsSound ==
  ASSUME Sound(ua), NEW r \in Rids, NEW jr \in Contexts, jr.listed => reg[r].listed,
         reg' = [reg EXCEPT ![r] = jr], UNCHANGED <<proxy, op, auth>>
  PROVE  Sound(ua')
<1>1. Sound([ua EXCEPT !.reg[r] = jr])
  BY ContextKeeps DEF Keeps, ua
<1>2. ua' = [ua EXCEPT !.reg[r] = jr]
  BY DEF ua
<1> QED
  BY <1>1, <1>2

LEMMA InitIsSound == Init => IInv
<1> SUFFICES ASSUME Init PROVE IInv
  OBVIOUS
<1>1. NoContext \in Contexts /\ ~ NoContext.listed
  BY DEF NoContext, NoRequest, Contexts, Requests, Periods, Contacts
<1>2. proxy \in Proxies /\ op \in Ops /\ auth \in Auths /\ op.pending = FALSE
  <2>1. proxy \in Proxies
    BY DEF Init, Proxies
  <2>2. proxy.expires \in Periods \ {"zero"} /\ 0 \in 0 .. MaxOps
    <3>1. proxy.expires \in Expiries
      BY <2>1 DEF Proxies
    <3>2. proxy.expires \in Periods \ {"zero"}
      BY <3>1, SettingsAssumption DEF Periods
    <3>3. 0 \in 0 .. MaxOps
      BY BoundsAssumption
    <3> QED
      BY <3>2, <3>3
  <2>3. op \in Ops /\ op.pending = FALSE
    BY <2>2 DEF Init, Ops, Contacts
  <2>4. auth \in Auths
    <3>1. /\ auth = [pass |-> auth.pass, works |-> auth.works,
                      usecount |-> auth.usecount, asked |-> auth.asked]
          /\ auth.pass \in {0} \cup Passwords
          /\ auth.works = FALSE /\ auth.usecount = 0 /\ auth.asked = FALSE
      BY DEF Init
    <3>2. auth = [pass |-> auth.pass, works |-> FALSE, usecount |-> 0, asked |-> FALSE]
      BY <3>1
    <3>3. \A p \in {0} \cup Passwords :
            [pass |-> p, works |-> FALSE, usecount |-> 0, asked |-> FALSE] \in Auths
      BY DEF Auths
    <3> QED
      BY <3>1, <3>2, <3>3
  <2> QED
    BY <2>1, <2>3, <2>4
<1>3. reg \in [Rids -> Contexts] /\ \A r \in Rids : ~ reg[r].listed
  BY <1>1 DEF Init
<1>4. Sound(ua)
  BY <1>2, <1>3 DEF Sound, UA, ua
<1>5. RestOK
  BY BoundsAssumption DEF Init, RestOK
<1> QED
  BY <1>4, <1>5 DEF IInv

LEMMA ProcessEventStep == IInv /\ ProcessEvent => IInv'
<1> SUFFICES ASSUME IInv, ProcessEvent PROVE IInv'
  OBVIOUS
<1> DEFINE ev == Head(events)
<1>1. ev \in Events /\ Tail(events) \in Seq(Events)
  BY DEF IInv, RestOK, ProcessEvent
<1>2. RestOK'
  BY <1>1 DEF IInv, RestOK, ProcessEvent
<1>3. CASE ev.rid # op.rid
  <2>1. UNCHANGED <<proxy, op, auth, reg>>
    BY <1>3 DEF ProcessEvent
  <2> QED
    BY <1>2, <2>1 DEF IInv, ua
<1>4. CASE ev.rid = op.rid
  <2>1. ua.op.rid # 0 /\ Sound(ua)
    BY <1>1, <1>4, RidsArePositive DEF Events, IInv, ua
  <2> HIDE DEF ev
  <2>2. CASE Become(registration_success(ua, ev))
    BY <1>1, <1>2, <2>1, <2>2, SuccessKeeps, BecomeIsSound DEF IInv, Keeps
  <2>3. ASSUME NEW later \in BOOLEAN, Become(registration_failure(ua, ev, later))
        PROVE  IInv'
    BY <1>1, <1>2, <2>1, <2>3, RegistrationFailureKeeps, BecomeIsSound DEF IInv, Keeps
  <2> QED
    BY <1>4, <2>2, <2>3 DEF ProcessEvent, ev
<1> QED
  BY <1>3, <1>4

LEMMA AutomaticRefreshStep == IInv /\ eXosip_automatic_refresh => IInv'
<1> SUFFICES ASSUME IInv, eXosip_automatic_refresh PROVE IInv'
  OBVIOUS
<1>1. PICK r \in Rids : Become(SendAgain(ua, r, 0))
  BY DEF eXosip_automatic_refresh
<1>2. Sound(ua')
  BY <1>1, SendAgainKeeps, BecomeIsSound DEF IInv, Keeps
<1> QED
  BY <1>2 DEF IInv, RestOK, eXosip_automatic_refresh

LEMMA UpdateStep == IInv /\ linphone_proxy_config_update => IInv'
<1> SUFFICES ASSUME IInv, linphone_proxy_config_update PROVE IInv'
  OBVIOUS
<1> DEFINE s == [ua EXCEPT !.proxy.commit = FALSE]
           t == sal_register(sal_op_release(s))
           u == [t EXCEPT !.proxy.state = "Progress"]
           v == [u EXCEPT !.auth.asked = FALSE]
<1>1. Keeps(ua, s)
  <2>1. [ua.proxy EXCEPT !.commit = FALSE] \in Proxies
    BY DEF IInv, Sound, UA, Proxies
  <2> QED
    BY <2>1, ProxyKeeps DEF IInv
<1> HIDE DEF s
<1>2. RestOK'
  BY DEF IInv, RestOK, linphone_proxy_config_update
<1>3. CASE Become(s)
  BY <1>1, <1>2, <1>3, BecomeIsSound DEF IInv, Keeps
<1>4. CASE op.made < MaxOps /\ Become([t EXCEPT !.proxy.state = "Progress", !.auth.asked = FALSE])
  <2>1. Sound(t)
    BY <1>1, <1>4, ReleaseIsSound, RegisterIsSound DEF Keeps, ua
  <2> HIDE DEF t
  <2>2. Sound(u)
    BY <2>1, StateKeeps DEF Keeps
  <2>3. Sound(v)
    <3>1. [u.auth EXCEPT !.asked = FALSE] \in Auths
      BY <2>2 DEF Sound, UA, Auths
    <3> HIDE DEF u
    <3> QED
      BY <2>2, <3>1, AuthKeeps DEF Keeps
  <2>4. Become(v)
    BY <1>4
  <2> QED
    BY <1>2, <2>3, <2>4, BecomeIsSound DEF IInv
<1> QED
  BY <1>3, <1>4 DEF linphone_proxy_config_update, s

LEMMA DestroyStep == IInv /\ linphone_proxy_config_destroy => IInv'
<1> SUFFICES ASSUME IInv, linphone_proxy_config_destroy PROVE IInv'
  OBVIOUS
<1> DEFINE t == sal_op_release(ua)
<1>1. Sound(t)
  BY ReleaseIsSound DEF IInv
<1> HIDE DEF t
<1>2. [t.proxy EXCEPT !.removed = "destroyed"] \in Proxies
  BY <1>1 DEF Sound, UA, Proxies
<1>3. Sound([t EXCEPT !.proxy.removed = "destroyed"])
  BY <1>1, <1>2, ProxyKeeps DEF Keeps
<1>4. Sound(ua')
  BY <1>3, BecomeIsSound DEF linphone_proxy_config_destroy, t
<1> QED
  BY <1>4 DEF IInv, RestOK, linphone_proxy_config_destroy

-----------------------------------------------------------------------------
(* The steps of the application.                                           *)

\* A call of the application keeps the invariant if the record it becomes is sound.
LEMMA CallKeeps ==
  ASSUME IInv, Call, Sound(ua'), up' \in BOOLEAN, events' \in Seq(Events)
  PROVE  IInv'
BY BoundsAssumption DEF IInv, RestOK, Call

LEMMA EditStep == IInv /\ linphone_proxy_config_edit => IInv'
<1> SUFFICES ASSUME IInv, linphone_proxy_config_edit PROVE IInv'
  OBVIOUS
<1> DEFINE t == edit(ua)
<1>1. Sound(t)
  BY UnregisterKeeps DEF IInv, Keeps
<1> HIDE DEF t
<1>2. [t.proxy EXCEPT !.editing = TRUE] \in Proxies
  BY <1>1 DEF Sound, UA, Proxies
<1>3. Sound([t EXCEPT !.proxy.editing = TRUE])
  BY <1>1, <1>2, ProxyKeeps DEF Keeps
<1>4. Sound(ua')
  BY <1>3, BecomeIsSound DEF linphone_proxy_config_edit, t
<1> QED
  BY <1>4, CallKeeps DEF linphone_proxy_config_edit, IInv, RestOK

LEMMA DoneStep ==
  ASSUME IInv, NEW enable \in BOOLEAN, linphone_proxy_config_done(enable)
  PROVE  IInv'
<1> DEFINE p == [proxy EXCEPT !.enabled = enable, !.commit = TRUE, !.editing = FALSE]
<1>1. p \in Proxies
  BY DEF IInv, Sound, UA, Proxies, ua
<1> HIDE DEF p
<1>2. ua' = [ua EXCEPT !.proxy = p]
  BY DEF linphone_proxy_config_done, ua, p
<1>3. Sound(ua')
  BY <1>1, <1>2, ProxyKeeps DEF IInv, Keeps
<1> QED
  BY <1>3, CallKeeps DEF linphone_proxy_config_done, IInv, RestOK

LEMMA RefreshStep == IInv /\ linphone_core_refresh_registers => IInv'
<1> SUFFICES ASSUME IInv, linphone_core_refresh_registers PROVE IInv'
  OBVIOUS
<1>1. ua.op.rid # 0
  BY DEF linphone_core_refresh_registers, ua
<1>2. Sound(ua')
  BY <1>1, RefreshKeeps, BecomeIsSound DEF linphone_core_refresh_registers, IInv, Keeps
<1> QED
  BY <1>2, CallKeeps DEF linphone_core_refresh_registers, IInv, RestOK

LEMMA RemoveStep == IInv /\ linphone_core_remove_proxy_config => IInv'
<1> SUFFICES ASSUME IInv, linphone_core_remove_proxy_config PROVE IInv'
  OBVIOUS
<1> DEFINE t == IF proxy.state = "Ok" THEN edit(ua) ELSE ua
           p == [t.proxy EXCEPT !.removed = "yes", !.editing = FALSE]
<1>1. Sound(t)
  BY UnregisterKeeps DEF IInv, Keeps
<1> HIDE DEF t
<1>2. p \in Proxies
  BY <1>1 DEF Sound, UA, Proxies
<1>3. [t EXCEPT !.proxy.removed = "yes", !.proxy.editing = FALSE] = [t EXCEPT !.proxy = p]
  BY <1>1 DEF Sound, UA, Proxies
<1>4. Sound(ua')
  BY <1>1, <1>2, <1>3, ProxyKeeps, BecomeIsSound
  DEF linphone_core_remove_proxy_config, Keeps, t
<1> QED
  BY <1>4, CallKeeps DEF linphone_core_remove_proxy_config, IInv, RestOK

LEMMA AddAuthInfoStep ==
  ASSUME IInv, NEW pass \in Passwords, linphone_core_add_auth_info(pass)
  PROVE  IInv'
<1> DEFINE a == [pass |-> pass, works |-> FALSE, usecount |-> 0, asked |-> FALSE]
           s == [ua EXCEPT !.auth = a]
<1>1. Sound(s)
  <2>1. a \in Auths
    BY DEF Auths
  <2> QED
    BY <2>1, AuthKeeps DEF IInv, Keeps
<1> HIDE DEF s
<1>2. Sound(CountUse(sal_op_authenticate(s)))
  BY <1>1, AuthenticateKeeps, CountUseKeeps DEF Keeps
<1>3. Sound(ua')
  BY <1>1, <1>2, BecomeIsSound DEF linphone_core_add_auth_info, s
<1> QED
  BY <1>3, CallKeeps DEF linphone_core_add_auth_info, IInv, RestOK

\* Every context is forgotten at once.
LEMMA UnlistenIsSound ==
  ASSUME NEW s, Sound(s)
  PROVE  Sound(Unlisten(s))
<1> DEFINE regs == [r \in Rids |-> Delisted(s.reg[r])]
<1>1. s \in UA /\ s.op \in Ops
  BY DEF Sound, UA
<1>2. regs \in [Rids -> Contexts] /\ \A r \in Rids : ~ regs[r].listed
  BY <1>1, DelistedIsContext DEF UA
<1> HIDE DEF regs
<1>3. [s EXCEPT !.reg = regs] \in UA
  BY <1>1, <1>2 DEF UA
<1>4. Unlisten(s) = [s EXCEPT !.reg = regs]
  BY DEF Unlisten, regs
<1> QED
  BY <1>1, <1>2, <1>3, <1>4 DEF Sound, UA

LEMMA ReachableStep ==
  ASSUME IInv, NEW isReachable \in BOOLEAN, set_network_reachable(isReachable)
  PROVE  IInv'
<1> DEFINE t == edit(ua)
           s1 == [t EXCEPT !.proxy.commit = TRUE]
           s2 == [ua EXCEPT !.proxy.state = "None"]
<1>1. Sound(s1)
  <2>1. Sound(t)
    BY UnregisterKeeps DEF IInv, Keeps
  <2> HIDE DEF t
  <2>2. [t.proxy EXCEPT !.commit = TRUE] \in Proxies
    BY <2>1 DEF Sound, UA, Proxies
  <2> QED
    BY <2>1, <2>2, ProxyKeeps DEF Keeps
<1>2. Sound(s2)
  BY StateKeeps DEF IInv, Keeps
<1> HIDE DEF s1, s2
<1>3. \E s \in {ua, s1, s2} : Become(Unlisten(s))
  BY DEF set_network_reachable, s1, s2, t
<1>4. Sound(ua')
  BY <1>1, <1>2, <1>3, UnlistenIsSound, BecomeIsSound DEF IInv
<1>5. up' \in BOOLEAN /\ events' \in Seq(Events)
  BY DEF set_network_reachable
<1> QED
  BY <1>4, <1>5, CallKeeps DEF set_network_reachable

-----------------------------------------------------------------------------
(* The steps of the registrar and of eXosip's thread.                      *)

LEMMA RegistrarStep ==
  ASSUME IInv, NEW r \in Rids, Registrar(r)
  PROVE  IInv'
<1> DEFINE jr(a, fresh) == IF reg[r].listed
                           THEN [reg[r] EXCEPT !.tr = "heard", !.answer = a, !.fresh = fresh]
                           ELSE NoContext
<1>1. reg[r] \in Contexts /\ NoContext \in Contexts /\ ~ NoContext.listed
  BY DEF IInv, Sound, UA, ua, NoContext, NoRequest, Contexts, Requests, Periods, Contacts
<1>2. ASSUME NEW a \in Answers, NEW fresh \in BOOLEAN
      PROVE  jr(a, fresh) \in Contexts /\ (jr(a, fresh).listed => reg[r].listed)
  BY <1>1, ZenonT(30) DEF Contexts, Answers
<1>3. PICK a \in Answers, fresh \in BOOLEAN : reg' = [reg EXCEPT ![r] = jr(a, fresh)]
  BY DEF Registrar, Answers
<1> HIDE DEF jr
<1>4. Sound(ua')
  <2>1. UNCHANGED <<proxy, op, auth>>
    BY DEF Registrar
  <2>2. jr(a, fresh) \in Contexts /\ (jr(a, fresh).listed => reg[r].listed)
    BY <1>2
  <2> QED
    BY <1>3, <2>1, <2>2, ContextIsSound DEF IInv
<1>5. bindings' \subseteq Rids /\ faults' \in 0 .. MaxFaults
  BY BoundsAssumption DEF Registrar, IInv, RestOK
<1> QED
  BY <1>4, <1>5 DEF IInv, RestOK, Registrar

LEMMA ProvisionalStep ==
  ASSUME IInv, NEW r \in Rids, rcv_1xx(r)
  PROVE  IInv'
<1> DEFINE jr == [reg[r] EXCEPT !.last = "1xx"]
<1>1. jr \in Contexts /\ jr.listed = reg[r].listed
  BY DEF IInv, Sound, UA, ua, Contexts
<1>2. reg' = [reg EXCEPT ![r] = jr] /\ UNCHANGED <<proxy, op, auth>>
  BY DEF rcv_1xx
<1> HIDE DEF jr
<1>3. Sound(ua')
  BY <1>1, <1>2, ContextIsSound DEF IInv
<1>4. faults' \in 0 .. MaxFaults
  BY BoundsAssumption DEF rcv_1xx, IInv, RestOK
<1> QED
  BY <1>3, <1>4 DEF IInv, RestOK, rcv_1xx

\* What is reported is an event.
LEMMA ReportIsEvent ==
  ASSUME IInv, NEW r \in Rids, NEW resp \in Answers \cup {"none"}, NEW fresh \in BOOLEAN,
         Report(r, resp, fresh)
  PROVE  events' \in Seq(Events)
<1>1. reg[r].req \in Requests
  BY DEF IInv, Sound, UA, ua, Contexts
<1>2. [rid |-> r, req |-> reg[r].req, fresh |-> fresh, resp |-> resp] \in Events
  BY <1>1 DEF Events
<1> QED
  BY <1>2 DEF Report, IInv, RestOK

LEMMA ReceiveAnswerStep ==
  ASSUME IInv, NEW r \in Rids, ReceiveAnswer(r)
  PROVE  IInv'
<1> DEFINE jr == [reg[r] EXCEPT !.tr = "done", !.last = reg[r].answer, !.answer = "none",
                                !.fresh = FALSE,
                                !.retry = IF reg[r].answer = "2xx" THEN 0 ELSE @]
<1>1. reg[r] \in Contexts
  BY DEF IInv, Sound, UA, ua
<1>2. jr \in Contexts /\ jr.listed = reg[r].listed
  <2>1. /\ reg[r].answer \in Answers \cup {"none", "1xx"}
        /\ (IF reg[r].answer = "2xx" THEN 0 ELSE reg[r].retry) \in 0 .. 3
    BY <1>1 DEF Contexts
  <2>2. "none" \in Answers \cup {"none"}
    OBVIOUS
  <2> QED
    BY <1>1, <2>1, <2>2 DEF Contexts
<1>3. reg' = [reg EXCEPT ![r] = jr] /\ UNCHANGED <<proxy, op, auth>>
  BY <1>1 DEF ReceiveAnswer, Contexts
<1> HIDE DEF jr
<1>4. Sound(ua')
  BY <1>2, <1>3, ContextIsSound DEF IInv
<1>5. events' \in Seq(Events)
  <2>1. reg[r].answer \in Answers \cup {"none"} /\ reg[r].fresh \in BOOLEAN
    BY <1>1 DEF Contexts
  <2>2. Report(r, reg[r].answer, reg[r].fresh)
    BY DEF ReceiveAnswer
  <2> QED
    BY <2>1, <2>2, ReportIsEvent
<1> QED
  BY <1>4, <1>5 DEF IInv, RestOK, ReceiveAnswer

LEMMA TimeoutStep ==
  ASSUME IInv, NEW r \in Rids, Timeout(r)
  PROVE  IInv'
<1> DEFINE jr == [reg[r] EXCEPT !.tr = "done", !.answer = "none", !.fresh = FALSE]
<1>1. reg[r] \in Contexts /\ NoContext \in Contexts /\ ~ NoContext.listed
  BY DEF IInv, Sound, UA, ua, NoContext, NoRequest, Contexts, Requests, Periods, Contacts
<1>2. jr \in Contexts /\ jr.listed = reg[r].listed
  BY <1>1 DEF Contexts
<1>3. reg' = [reg EXCEPT ![r] = jr] \/ reg' = [reg EXCEPT ![r] = NoContext]
  BY <1>1 DEF Timeout, Contexts
<1> HIDE DEF jr
<1>4. UNCHANGED <<proxy, op, auth>>
  BY DEF Timeout
<1>5. Sound(ua')
  BY <1>1, <1>2, <1>3, <1>4, ContextIsSound DEF IInv
<1>6. events' \in Seq(Events)
  BY ReportIsEvent DEF Timeout, IInv, RestOK
<1>7. faults' \in 0 .. MaxFaults
  BY BoundsAssumption DEF Timeout, IInv, RestOK
<1> QED
  BY <1>5, <1>6, <1>7 DEF IInv, RestOK, Timeout

LEMMA ReleaseStep ==
  ASSUME IInv, NEW r \in Rids, eXosip_release_terminated_registrations(r)
  PROVE  IInv'
<1>1. Delisted(reg[r]) \in Contexts /\ ~ Delisted(reg[r]).listed
  BY DelistedIsContext DEF IInv, Sound, UA, ua
<1>2. reg' = [reg EXCEPT ![r] = Delisted(reg[r])] /\ UNCHANGED <<proxy, op, auth>>
  BY DEF eXosip_release_terminated_registrations
<1>3. Sound(ua')
  BY <1>1, <1>2, ContextIsSound DEF IInv
<1> QED
  BY <1>3 DEF IInv, RestOK, eXosip_release_terminated_registrations

-----------------------------------------------------------------------------
(* The steps keep the binding known and the context refreshed.             *)

LEMMA BecomeIs ==
  ASSUME NEW t, Sound(t), Become(t)
  PROVE  ua' = t
<1>1. t = [proxy |-> t.proxy, op |-> t.op, auth |-> t.auth, reg |-> t.reg]
  BY DEF Sound, UA
<1> QED
  BY <1>1 DEF Become, ua

\* The last event stays the last until it is read.
LEMMA TailIsLast ==
  ASSUME NEW evs \in Seq(Events), evs # <<>>, Tail(evs) # <<>>
  PROVE  Tail(evs)[Len(Tail(evs))] = evs[Len(evs)]
<1>1. Len(Tail(evs)) = Len(evs) - 1 /\ Len(evs) \in Nat /\ Len(evs) > 1
  OBVIOUS
<1> QED
  BY <1>1

LEMMA AlongStep ==
  ASSUME RInv, IInv', NEW t, Along(ua, t, bindings),
         ua'.reg = t.reg, ua'.op = t.op, up' /\ Active(ua') => Refreshed(ua'),
         bindings' = bindings, events' = events \/ (events # <<>> /\ events' = Tail(events))
  PROVE  RInv'
<1>1. t.op.rid = ua.op.rid /\ t.op.made = ua.op.made /\ Own(ua') = Own(t)
  BY DEF Along, Keeps, Own
<1>2. Served(ua', bindings')
  BY <1>1 DEF RInv, Along, Served
<1>3. Unmade(ua', bindings')
  <2>1. ua.op.rid \in 0 .. MaxOps /\ ua.op.made \in 0 .. MaxOps
    BY DEF RInv, IInv, Sound, UA, Ops
  <2>2. \A r \in Rids : r > ua.op.made => r # ua.op.rid
    BY <2>1 DEF RInv, Unmade, Rids
  <2> QED
    BY <1>1, <2>2 DEF RInv, Along, Unmade
<1>4. LastTold(ua', events')
  <2>1. events \in Seq(Events)
    BY DEF RInv, IInv, RestOK
  <2>2. events' # <<>> => events # <<>> /\ events'[Len(events')] = events[Len(events)]
    BY <2>1, TailIsLast
  <2> QED
    BY <1>1, <2>2 DEF RInv, Along, LastTold
<1> QED
  BY <1>2, <1>3, <1>4 DEF RInv

\* The common case: the record is the operator's result.
LEMMA OnwardStep ==
  ASSUME RInv, IInv', NEW t, Onward(ua, t, bindings), Become(t), up' = up,
         bindings' = bindings, events' = events \/ (events # <<>> /\ events' = Tail(events))
  PROVE  RInv'
<1>1. Along(ua, t, bindings) /\ Sound(t)
  BY DEF Onward, Along, Keeps
<1>2. ua' = t
  BY <1>1, BecomeIs
<1>3. up' /\ Active(ua') => Refreshed(ua')
  BY <1>1, <1>2 DEF RInv, Onward, Along, SameSettings, Active
<1> QED
  BY <1>1, <1>2, <1>3, AlongStep

LEMMA InitIsServed == Init => RInv
<1> SUFFICES ASSUME Init PROVE RInv
  OBVIOUS
<1>1. op.rid = 0 /\ op.made = 0 /\ bindings = {} /\ events = <<>>
  BY DEF Init
<1>2. \A r \in Rids : reg[r].tr = "none"
  BY DEF Init, NoContext
<1>3. ~ Active(ua)
  BY DEF Init, Active, ua
<1> QED
  BY <1>1, <1>2, <1>3, InitIsSound DEF RInv, Served, Unmade, LastTold, ua

\* What an event does to the operation.
LEMMA EventGoes ==
  ASSUME RInv, ProcessEvent
  PROVE  \E u : /\ Onward(ua, u, bindings)
                /\ \/ Become(u)
                   \/ /\ Become(SetState(u, "Cleared"))
                      /\ Head(events).rid = op.rid /\ Head(events).req.exp = "zero"
<1> DEFINE ev == Head(events)
<1>1. ev \in Events /\ Sound(ua)
  BY DEF RInv, IInv, RestOK, ProcessEvent
<1>2. CASE ev.rid # op.rid
  <2>1. Become(ua)
    BY <1>2 DEF ProcessEvent, Become, ua
  <2> QED
    BY <1>1, <2>1, OnwardSelf
<1>3. CASE ev.rid = op.rid
  <2>1. ua.op.rid # 0
    BY <1>1, <1>3, RidsArePositive DEF Events, ua
  <2> HIDE DEF ev
  <2>2. CASE Become(registration_success(ua, ev))
    <3>1. PICK u : /\ Onward(ua, u, bindings)
                   /\ \/ registration_success(ua, ev) = u
                      \/ ev.req.exp = "zero"
                         /\ registration_success(ua, ev) = SetState(u, "Cleared")
      BY <1>1, <2>1, SuccessOnward
    <3>2. CASE registration_success(ua, ev) = u
      BY <2>2, <3>1, <3>2
    <3>3. CASE ev.req.exp = "zero" /\ registration_success(ua, ev) = SetState(u, "Cleared")
      BY <1>3, <2>2, <3>1, <3>3 DEF ev
    <3> QED
      BY <3>1, <3>2, <3>3
  <2>3. ASSUME NEW later \in BOOLEAN, Become(registration_failure(ua, ev, later))
        PROVE  \E u : Onward(ua, u, bindings) /\ Become(u)
    BY <1>1, <2>1, <2>3, RegistrationFailureOnward
  <2> QED
    BY <1>3, <2>2, <2>3 DEF ProcessEvent, ev
<1> QED
  BY <1>2, <1>3

\* Becoming Cleared leaves the context as it is.
LEMMA ClearedKeeps ==
  ASSUME NEW u, Sound(u)
  PROVE  LET v == SetState(u, "Cleared") IN
         Sound(v) /\ v.reg = u.reg /\ v.op = u.op /\ SameSettings(u, v)
<1>1. Sound(SetState(u, "Cleared"))
  BY StateKeeps DEF Keeps
<1> QED
  BY <1>1 DEF SetState, Sound, UA, Proxies, SameSettings

LEMMA ProcessEventServes == RInv /\ ProcessEvent => RInv'
<1> SUFFICES ASSUME RInv, ProcessEvent PROVE RInv'
  OBVIOUS
<1>1. IInv'
  BY ProcessEventStep DEF RInv
<1>2. PICK u : /\ Onward(ua, u, bindings)
               /\ Become(u) \/ Become(SetState(u, "Cleared"))
  BY EventGoes
<1>3. UNCHANGED <<up, bindings>> /\ events # <<>> /\ events' = Tail(events)
  BY DEF ProcessEvent
<1>4. CASE Become(u)
  BY <1>1, <1>2, <1>3, <1>4, OnwardStep
<1>5. CASE Become(SetState(u, "Cleared"))
  <2> DEFINE v == SetState(u, "Cleared")
  <2>1. Along(ua, u, bindings) /\ Sound(u)
    BY <1>2 DEF Onward, Along, Keeps
  <2>2. Sound(v) /\ v.reg = u.reg /\ v.op = u.op /\ SameSettings(u, v)
    BY <2>1, ClearedKeeps
  <2> HIDE DEF v
  <2>3. ua' = v
    BY <1>5, <2>2, BecomeIs DEF v
  <2>4. up' /\ Active(ua') => Refreshed(ua')
    BY <1>2, <1>3, <2>1, <2>2, <2>3
    DEF RInv, Onward, Along, SameSettings, Active, Refreshed, Own
  <2> QED
    BY <1>1, <1>3, <2>1, <2>2, <2>3, <2>4, AlongStep
<1> QED
  BY <1>2, <1>4, <1>5

LEMMA AutomaticRefreshServes == RInv /\ eXosip_automatic_refresh => RInv'
<1> SUFFICES ASSUME RInv, eXosip_automatic_refresh PROVE RInv'
  OBVIOUS
<1>1. IInv'
  BY AutomaticRefreshStep DEF RInv
<1>2. PICK r \in Rids : reg[r].listed /\ Become(SendAgain(ua, r, 0))
  BY DEF eXosip_automatic_refresh, Idle, ua
<1>3. r = ua.op.rid /\ r # 0 /\ Sound(ua)
  BY <1>2, RidsArePositive DEF RInv, IInv, Sound, ua
<1>4. Onward(ua, SendAgain(ua, r, 0), bindings)
  BY <1>3, SendAgainOnward
<1> QED
  BY <1>1, <1>2, <1>4, OnwardStep DEF eXosip_automatic_refresh

-----------------------------------------------------------------------------
(* A new operation.                                                        *)

LEMMA ReleaseLeaves ==
  ASSUME NEW s, Sound(s)
  PROVE  /\ sal_op_release(s).proxy = s.proxy
         /\ \A r \in Rids : r # s.op.rid => sal_op_release(s).reg[r] = s.reg[r]
<1> DEFINE t == eXosip_register_remove(s, s.op.rid)
<1>1. s \in UA /\ (s.op.rid # 0 => s.op.rid \in Rids)
  BY RidIsContext DEF Sound
<1>2. t \in UA /\ t.proxy = s.proxy /\ \A r \in Rids : r # s.op.rid => t.reg[r] = s.reg[r]
  <2>1. CASE s.op.rid = 0
    BY <1>1, <2>1 DEF eXosip_register_remove
  <2>2. CASE s.op.rid # 0
    <3>1. Delisted(s.reg[s.op.rid]) \in Contexts
      BY <1>1, <2>2, DelistedIsContext DEF UA
    <3> QED
      BY <1>1, <2>2, <3>1 DEF eXosip_register_remove, UA
  <2> QED
    BY <2>1, <2>2
<1> HIDE DEF t
<1>3. sal_op_release(s) = [t EXCEPT !.op.rid = 0, !.op.pending = FALSE]
  BY DEF sal_op_release, t
<1>4. sal_op_release(s).proxy = t.proxy /\ sal_op_release(s).reg = t.reg
  BY <1>2, <1>3 DEF UA
<1> QED
  BY <1>2, <1>4

\* The first REGISTER of a context that was never used leaves at once.
LEMMA RegisterServes ==
  ASSUME NEW s, Sound(s), NEW b, s.op.rid = 0, s.op.made < MaxOps, Unmade(s, b)
  PROVE  LET t == sal_register(s) IN
         /\ Sound(t) /\ Served(t, b) /\ Unmade(t, b) /\ Refreshed(t)
         /\ Own(t).tr = "calling" /\ t.proxy = s.proxy
<1> DEFINE r == s.op.made + 1
           o == [rid |-> r, made |-> r, contact |-> "private",
                 expires |-> s.proxy.expires, pending |-> FALSE]
           jr == [s.reg[r] EXCEPT !.listed = TRUE, !.period = s.proxy.expires]
           t == [s EXCEPT !.op = o, !.reg[r] = jr]
           req == _eXosip_register_build_register(t, r, 0)
           u == sal_register(s)
<1>1. /\ s \in UA /\ s.op \in Ops /\ s.op.made \in Nat
      /\ s.proxy.expires \in Periods \ {"zero"}
  <2>1. s \in UA /\ s.op \in Ops /\ s.proxy.expires \in Periods \ {"zero"}
    BY SettingsAssumption DEF Sound, UA, Ops, Proxies, Periods
  <2>2. s.op.made \in Nat
    BY <2>1, BoundsAssumption DEF Ops
  <2> QED
    BY <2>1, <2>2
<1>2. r \in Rids /\ r # 0 /\ r \in 0 .. MaxOps
  BY <1>1, BoundsAssumption DEF Rids
<1>3. s.reg[r] \in Contexts /\ s.reg[r].tr = "none" /\ r \notin b
  BY <1>1, <1>2 DEF UA, Unmade
<1>4. /\ o \in Ops /\ o.rid = r /\ o.made = r /\ o.contact = "private" /\ ~ o.pending
  BY <1>1, <1>2 DEF Ops, Contacts
<1>5. /\ jr \in Contexts /\ jr.listed /\ jr.tr = "none" /\ jr.period # "zero"
  BY <1>1, <1>3 DEF Contexts
<1>7. \A q \in Rids : ~ s.reg[q].listed
  BY RidsArePositive DEF Sound
<1>8. \A q \in Rids : q > r => q # r /\ q > s.op.made
  BY <1>1 DEF Rids
<1>9. r <= r
  BY <1>1
<1>10. r = s.op.made + 1
  OBVIOUS
<1> HIDE DEF r, jr
<1>6. t = [s EXCEPT !.op = o, !.reg[r].listed = TRUE, !.reg[r].period = s.proxy.expires]
  BY <1>1, <1>2, <1>3, ZenonT(30) DEF UA, Contexts, jr
<1>22. u = SendAgain(t, r, 0)
  BY <1>6, <1>10 DEF sal_register
<1> HIDE DEF o
<1>11. t \in UA /\ t.op = o /\ t.proxy = s.proxy /\ t.reg = [s.reg EXCEPT ![r] = jr]
  BY <1>1, <1>2, <1>4, <1>5 DEF UA
<1> HIDE DEF t
<1>12. t.reg[r] = jr /\ \A q \in Rids : q # r => t.reg[q] = s.reg[q]
  BY <1>1, <1>2, <1>11 DEF UA
<1>13. Idle(t, r) /\ req.contact = "private" /\ req \in Requests
  <2>1. req \in Requests
    BY <1>2, <1>11, BuildIsRequest
  <2>2. req.contact = "private"
    BY <1>4, <1>5, <1>11, <1>12 DEF _eXosip_register_build_register
  <2> QED
    BY <1>5, <1>12, <2>1, <2>2 DEF Idle
<1> HIDE DEF req
<1>14. u = [t EXCEPT !.reg[r] = Sent(jr, req)]
  BY <1>12, <1>13, <1>22 DEF SendAgain, eXosip_register_send_register, req
<1>15. /\ Sent(jr, req).tr = "calling" /\ Sent(jr, req).req = req /\ Sent(jr, req).listed
       /\ Sent(jr, req).period # "zero" /\ Sent(jr, req).last = "none"
  BY <1>5 DEF Sent, Contexts
<1> HIDE DEF u
<1>16. u.op = o /\ u.proxy = s.proxy /\ u.reg[r] = Sent(jr, req)
       /\ \A q \in Rids : q # r => u.reg[q] = s.reg[q]
  BY <1>2, <1>11, <1>12, <1>14 DEF UA
<1>17. Own(u) = Sent(jr, req)
  BY <1>4, <1>16 DEF Own
<1>18. Served(u, b)
  BY <1>3, <1>4, <1>13, <1>15, <1>16, <1>17 DEF Served
<1>19. Unmade(u, b)
  BY <1>4, <1>8, <1>9, <1>16 DEF Unmade
<1>20. Refreshed(u)
  BY <1>2, <1>4, <1>15, <1>16, <1>17 DEF Refreshed
<1>21. Sound(u)
  BY RegisterIsSound DEF u
<1> QED
  BY <1>15, <1>16, <1>17, <1>18, <1>19, <1>20, <1>21 DEF u

LEMMA UpdateServes == RInv /\ linphone_proxy_config_update => RInv'
<1> SUFFICES ASSUME RInv, linphone_proxy_config_update PROVE RInv'
  OBVIOUS
<1> DEFINE p == [proxy EXCEPT !.commit = FALSE]
           s == [ua EXCEPT !.proxy = p]
           q == sal_op_release(s)
           t == sal_register(q)
           u == [t EXCEPT !.proxy.state = "Progress", !.auth.asked = FALSE]
<1>1. IInv' /\ UNCHANGED <<events, up, bindings>> /\ Sound(ua)
  BY UpdateStep DEF RInv, IInv, linphone_proxy_config_update
<1>2. p \in Proxies /\ p.enabled = proxy.enabled
  BY <1>1 DEF Sound, UA, ua, Proxies
<1>3. s = [ua EXCEPT !.proxy.commit = FALSE]
  BY DEF ua
<1> HIDE DEF p
<1>4. s.op = op /\ s.reg = reg /\ s.proxy = p /\ Keeps(ua, s)
  BY <1>1, <1>2, ProxyKeeps DEF ua
<1> HIDE DEF s
<1>5. CASE ~ (up /\ proxy.enabled)
  <2>1. ua' = s
    BY <1>3, <1>4, <1>5, BecomeIs DEF linphone_proxy_config_update, Keeps
  <2>2. ~ (up' /\ Active(ua'))
    BY <1>1, <1>2, <1>4, <1>5, <2>1 DEF Active
  <2> DEFINE v == ua
  <2>3. Along(ua, v, bindings)
    BY <1>1, OnwardSelf DEF Onward
  <2>4. ua'.op = v.op /\ ua'.reg = v.reg
    BY <1>4, <2>1 DEF ua
  <2>5. up' /\ Active(ua') => Refreshed(ua')
    BY <2>2
  <2>6. bindings' = bindings /\ IInv'
        /\ (events' = events \/ (events # <<>> /\ events' = Tail(events)))
    BY <1>1
  <2> HIDE DEF v
  <2> QED
    BY <2>3, <2>4, <2>5, <2>6, AlongStep
<1>6. CASE up /\ proxy.enabled
  <2>1. op.made < MaxOps /\ Become(u)
    BY <1>3, <1>6 DEF linphone_proxy_config_update
  <2>2. /\ Sound(q) /\ q.op.rid = 0 /\ q.op.made = op.made
        /\ \A r \in Rids : r # op.rid => q.reg[r] = reg[r]
    BY <1>4, ReleaseIsSound, ReleaseLeaves DEF Keeps
  <2> HIDE DEF q
  <2>3. Unmade(q, bindings)
    <3>1. op.rid \in 0 .. MaxOps /\ op.made \in 0 .. MaxOps
      BY <1>1 DEF Sound, UA, Ops, ua
    <3>2. op.rid <= op.made /\ \A r \in Rids : r > op.made => r \notin bindings /\ reg[r].tr = "none"
      BY DEF RInv, Unmade, ua
    <3>3. \A r \in Rids : r > op.made => r # op.rid
      BY <3>1, <3>2 DEF Rids
    <3>4. q.op.rid <= q.op.made
      BY <2>2, <3>1
    <3> QED
      BY <2>2, <3>2, <3>3, <3>4 DEF Unmade
  <2>4. /\ Sound(t) /\ Served(t, bindings) /\ Unmade(t, bindings) /\ Refreshed(t)
        /\ Own(t).tr = "calling"
    BY <2>1, <2>2, <2>3, RegisterServes
  <2> HIDE DEF t
  <2>5. u.op = t.op /\ u.reg = t.reg /\ ua'.op = u.op /\ ua'.reg = u.reg
    BY <2>1, <2>4 DEF Sound, UA, Become, ua
  <2> HIDE DEF u
  <2>6. Own(ua') = Own(t)
    BY <2>5 DEF Own
  <2>7. Served(ua', bindings') /\ Refreshed(ua')
    BY <1>1, <2>4, <2>5, <2>6 DEF Served, Refreshed
  <2>8. Unmade(ua', bindings') /\ LastTold(ua', events')
    BY <1>1, <2>4, <2>5, <2>6 DEF Unmade, LastTold
  <2> QED
    BY <1>1, <2>7, <2>8 DEF RInv
<1> QED
  BY <1>5, <1>6

\* Nothing is served, nothing is to be refreshed: a context out of the list.
LEMMA UnlistedStep ==
  ASSUME RInv, IInv', ~ (up' /\ Active(ua')), bindings' = bindings,
         op'.rid = 0 \/ ~ reg'[op'.rid].listed, op'.rid <= op'.made, op'.made = op.made,
         \A r \in Rids : r > op.made => reg'[r].tr = "none"
  PROVE  RInv'
<1>1. Served(ua', bindings') /\ LastTold(ua', events')
  BY DEF Served, LastTold, Own, ua
<1>2. Unmade(ua', bindings')
  BY DEF RInv, Unmade, ua
<1> QED
  BY <1>1, <1>2 DEF RInv

\* The operation is never ahead of the contexts made.
LEMMA NotMade ==
  ASSUME RInv
  PROVE  /\ op.rid <= op.made /\ op.made \in Nat
         /\ \A r \in Rids : r > op.made =>
              r # op.rid /\ reg[r].tr = "none" /\ r \notin bindings
<1>1. op.rid \in 0 .. MaxOps /\ op.made \in 0 .. MaxOps
  BY DEF RInv, IInv, Sound, UA, Ops, ua
<1>2. op.rid <= op.made /\ \A r \in Rids : r > op.made => r \notin bindings /\ reg[r].tr = "none"
  BY DEF RInv, Unmade, ua
<1> QED
  BY <1>1, <1>2 DEF Rids

LEMMA DestroyServes == RInv /\ linphone_proxy_config_destroy => RInv'
<1> SUFFICES ASSUME RInv, linphone_proxy_config_destroy PROVE RInv'
  OBVIOUS
<1> DEFINE t == sal_op_release(ua)
           u == [t EXCEPT !.proxy.removed = "destroyed"]
<1>1. IInv' /\ UNCHANGED <<events, up, bindings>> /\ Sound(ua) /\ Become(u)
  BY DestroyStep DEF RInv, IInv, linphone_proxy_config_destroy
<1>2. /\ Sound(t) /\ t.op.rid = 0 /\ t.op.made = op.made
      /\ \A r \in Rids : r # op.rid => t.reg[r] = reg[r]
  BY <1>1, ReleaseIsSound, ReleaseLeaves DEF ua
<1> HIDE DEF t
<1>3. u.op = t.op /\ u.reg = t.reg /\ u.proxy.removed = "destroyed"
  BY <1>2 DEF Sound, UA, Proxies
<1>4. op' = t.op /\ reg' = t.reg /\ proxy'.removed = "destroyed"
  BY <1>1, <1>3 DEF Become
<1>5. ~ Active(ua')
  BY <1>4 DEF Active, ua
<1>6. \A r \in Rids : r > op.made => reg'[r].tr = "none"
  BY <1>2, <1>4, NotMade
<1>7. op'.rid = 0 /\ op'.made = op.made /\ op'.rid <= op'.made
  BY <1>2, <1>4, NotMade
<1> QED
  BY <1>1, <1>5, <1>6, <1>7, UnlistedStep

\* A call that leaves the contexts alone, while the proxy is being changed.
LEMMA DoneServes ==
  ASSUME RInv, NEW enable \in BOOLEAN, linphone_proxy_config_done(enable)
  PROVE  RInv'
<1>1. IInv'
  BY DoneStep DEF RInv
<1>5. UNCHANGED <<events, bindings, op, reg>>
  BY DEF linphone_proxy_config_done, Call
<1>2. ~ Active(ua')
  BY DEF linphone_proxy_config_done, Active, ua, RInv, IInv, Sound, UA, Proxies
<1> DEFINE v == ua
<1>3. Along(ua, v, bindings)
  BY OnwardSelf DEF Onward, RInv, IInv
<1>4. ua'.op = v.op /\ ua'.reg = v.reg
  BY <1>5 DEF ua
<1> HIDE DEF v
<1> QED
  BY <1>1, <1>2, <1>3, <1>4, <1>5, AlongStep

LEMMA EditServes == RInv /\ linphone_proxy_config_edit => RInv'
<1> SUFFICES ASSUME RInv, linphone_proxy_config_edit PROVE RInv'
  OBVIOUS
<1> DEFINE t == edit(ua)
           u == [t EXCEPT !.proxy.editing = TRUE]
<1>1. IInv' /\ UNCHANGED <<events, bindings>> /\ Become(u)
  BY EditStep DEF RInv, linphone_proxy_config_edit, Call
<1>2. Along(ua, t, bindings) /\ Sound(t)
  BY UnregisterAlong DEF RInv, IInv, Along, Keeps
<1> HIDE DEF t
<1>3. u.op = t.op /\ u.reg = t.reg /\ u.proxy.editing = TRUE
  BY <1>2 DEF Sound, UA, Proxies
<1> HIDE DEF u
<1>4. ua'.op = t.op /\ ua'.reg = t.reg /\ ~ Active(ua')
  BY <1>1, <1>3 DEF Become, ua, Active
<1> QED
  BY <1>1, <1>2, <1>4, AlongStep

LEMMA RefreshServes == RInv /\ linphone_core_refresh_registers => RInv'
<1> SUFFICES ASSUME RInv, linphone_core_refresh_registers PROVE RInv'
  OBVIOUS
<1>1. IInv' /\ UNCHANGED <<events, up, bindings>> /\ Become(sal_register_refresh(ua))
  BY RefreshStep DEF RInv, linphone_core_refresh_registers, Call
<1>2. Onward(ua, sal_register_refresh(ua), bindings)
  <2>1. ua.op.rid # 0 /\ Sound(ua)
    BY DEF RInv, IInv, linphone_core_refresh_registers, ua
  <2> QED
    BY <2>1, RefreshOnward
<1> QED
  BY <1>1, <1>2, OnwardStep

LEMMA RemoveServes == RInv /\ linphone_core_remove_proxy_config => RInv'
<1> SUFFICES ASSUME RInv, linphone_core_remove_proxy_config PROVE RInv'
  OBVIOUS
<1> DEFINE t == IF proxy.state = "Ok" THEN edit(ua) ELSE ua
           u == [t EXCEPT !.proxy.removed = "yes", !.proxy.editing = FALSE]
<1>1. IInv' /\ UNCHANGED <<events, bindings>> /\ Become(u)
  BY RemoveStep DEF RInv, linphone_core_remove_proxy_config, Call
<1>2. Along(ua, t, bindings) /\ Sound(t)
  BY UnregisterAlong, OnwardSelf DEF RInv, IInv, Onward, Along, Keeps
<1> HIDE DEF t
<1>3. u.op = t.op /\ u.reg = t.reg /\ u.proxy.removed = "yes"
  BY <1>2 DEF Sound, UA, Proxies
<1> HIDE DEF u
<1>4. ua'.op = t.op /\ ua'.reg = t.reg /\ ~ Active(ua')
  BY <1>1, <1>3 DEF Become, ua, Active
<1> QED
  BY <1>1, <1>2, <1>4, AlongStep

LEMMA AddAuthInfoServes ==
  ASSUME RInv, NEW pass \in Passwords, linphone_core_add_auth_info(pass)
  PROVE  RInv'
<1> DEFINE a == [pass |-> pass, works |-> FALSE, usecount |-> 0, asked |-> FALSE]
           s == [ua EXCEPT !.auth = a]
           w == sal_op_authenticate(s)
<1>1. IInv' /\ UNCHANGED <<events, up, bindings>> /\ (Become(s) \/ Become(CountUse(w)))
  BY AddAuthInfoStep DEF RInv, linphone_core_add_auth_info, Call
<1>2. Onward(ua, s, bindings) /\ Sound(s)
  <2>1. a \in Auths
    BY DEF Auths
  <2> QED
    BY <2>1, AuthOnward DEF RInv, IInv, Onward, Along, Keeps
<1> HIDE DEF s
<1>3. Onward(ua, CountUse(w), bindings)
  <2>1. Onward(s, w, bindings)
    BY <1>2, AuthenticateOnward
  <2>2. Sound(w)
    BY <2>1 DEF Onward, Along, Keeps
  <2> HIDE DEF w
  <2>3. Onward(s, CountUse(w), bindings)
    BY <2>1, <2>2, CountUseOnward, OnwardTwice
  <2> QED
    BY <1>2, <2>3, OnwardTwice
<1> HIDE DEF w
<1> QED
  BY <1>1, <1>2, <1>3, OnwardStep

\* eXosip forgets every context.
LEMMA ReachableServes ==
  ASSUME RInv, NEW isReachable \in BOOLEAN, set_network_reachable(isReachable)
  PROVE  RInv'
<1> DEFINE t == edit(ua)
           s1 == [t EXCEPT !.proxy.commit = TRUE]
           s2 == [ua EXCEPT !.proxy.state = "None"]
           kept == proxy.enabled /\ proxy.removed = "no"
<1>1. IInv' /\ bindings' = bindings /\ up' = isReachable /\ Sound(ua)
  BY ReachableStep DEF RInv, IInv, set_network_reachable, Call
<1>2. Along(ua, t, bindings) /\ Sound(t)
  BY <1>1, UnregisterAlong DEF Along, Keeps
<1> HIDE DEF t
<1>3. Along(ua, s2, bindings) /\ Along(ua, ua, bindings)
  BY <1>1, StateOnward, OnwardSelf DEF Onward
<1>4. s1.op = t.op /\ s1.reg = t.reg /\ s1.proxy.commit = TRUE
  BY <1>2 DEF Sound, UA, Proxies
<1> DEFINE Taken(s) == \E v : Along(ua, v, bindings) /\ s.op = v.op /\ s.reg = v.reg
<1>5. Taken(s1) /\ Taken(s2) /\ Taken(ua)
  BY <1>2, <1>3, <1>4
<1>6. \E s : Become(Unlisten(s)) /\ Taken(s)
               /\ (s.proxy.commit \/ ~ isReachable \/ (s.proxy = proxy /\ ~ kept))
  <2>1. CASE ~ kept
    <3>1. Become(Unlisten(ua)) /\ ua.proxy = proxy
      BY <2>1 DEF set_network_reachable, ua
    <3> QED
      BY <1>5, <2>1, <3>1
  <2>2. CASE kept /\ isReachable
    <3>1. Become(Unlisten(s1))
      BY <2>2 DEF set_network_reachable, t
    <3> QED
      BY <1>4, <1>5, <3>1
  <2>3. CASE kept /\ ~ isReachable
    <3>1. Become(Unlisten(s2))
      BY <2>3 DEF set_network_reachable
    <3> QED
      BY <1>5, <2>3, <3>1
  <2> QED
    BY <2>1, <2>2, <2>3
<1> HIDE DEF s1, s2
<1>7. PICK s : Become(Unlisten(s)) /\ Taken(s)
                 /\ (s.proxy.commit \/ ~ isReachable \/ (s.proxy = proxy /\ ~ kept))
  BY <1>6
<1>8. PICK v : Along(ua, v, bindings) /\ s.op = v.op /\ s.reg = v.reg
  BY <1>7
<1>9. /\ s.op.rid = op.rid /\ s.op.made = op.made /\ s.reg \in [Rids -> Contexts]
      /\ \A r \in Rids : r # op.rid => s.reg[r] = reg[r]
  BY <1>8 DEF Along, Keeps, Sound, UA, ua
<1>10. /\ op' = s.op /\ proxy' = s.proxy
       /\ reg' = [r \in Rids |-> Delisted(s.reg[r])]
  BY <1>7 DEF Unlisten, Become
<1>11. ~ (up' /\ Active(ua'))
  BY <1>1, <1>7, <1>10 DEF Active, ua
<1>12. \A r \in Rids : r > op.made => reg'[r].tr = "none"
  <2>1. \A jr \in Contexts : jr.tr = "none" => Delisted(jr).tr = "none"
    BY DEF Delisted, NoContext
  <2> QED
    BY <1>9, <1>10, <2>1, NotMade
<1>13. op'.rid = 0 \/ ~ reg'[op'.rid].listed
  <2>1. op.rid # 0 => op.rid \in Rids
    BY <1>1, RidIsContext DEF ua
  <2> QED
    BY <1>9, <1>10, <2>1, DelistedIsContext
<1>14. op'.rid <= op'.made /\ op'.made = op.made
  BY <1>9, <1>10, NotMade
<1> QED
  BY <1>1, <1>11, <1>12, <1>13, <1>14, UnlistedStep

-----------------------------------------------------------------------------
(* The registrar and the transactions.                                     *)

\* A step of eXosip about a context that is not the operation's own.
LEMMA OtherContext ==
  ASSUME RInv, IInv', NEW r \in Rids, NEW jr, reg' = [reg EXCEPT ![r] = jr],
         r # op.rid, reg[r].tr # "none",
         UNCHANGED <<proxy, op, up>>, bindings' \subseteq bindings \cup {r},
         events' = events \/ (events' # <<>> /\ events'[Len(events')].rid = r)
  PROVE  RInv'
<1>1. reg \in [Rids -> Contexts]
  BY DEF RInv, IInv, Sound, UA, ua
<1>2. \A q \in Rids : q # r => reg'[q] = reg[q]
  BY <1>1
<1>3. op.rid # 0 => op.rid \in Rids /\ reg'[op.rid] = reg[op.rid]
  BY <1>2, RidIsContext DEF RInv, IInv, ua
<1>4. op.rid \in bindings' => op.rid \in bindings
  OBVIOUS
<1>5. Served(ua', bindings') /\ LastTold(ua', events')
  BY <1>3, <1>4 DEF RInv, Served, LastTold, Own, ua
<1>6. Unmade(ua', bindings')
  BY <1>2, NotMade DEF RInv, Unmade, ua
<1>7. up' /\ Active(ua') => Refreshed(ua')
  BY <1>3 DEF RInv, Active, Refreshed, Own, ua
<1> QED
  BY <1>5, <1>6, <1>7 DEF RInv

\* A step of eXosip about the own context.
LEMMA OwnContext ==
  ASSUME RInv, IInv', op.rid \in Rids, NEW jr, reg' = [reg EXCEPT ![op.rid] = jr],
         UNCHANGED <<proxy, op, up>>, bindings' \subseteq bindings \cup {op.rid},
         jr.listed => jr.period = reg[op.rid].period,
         up /\ Active(ua) => jr.listed,
         Served(ua', bindings'), LastTold(ua', events')
  PROVE  RInv'
<1>1. reg \in [Rids -> Contexts]
  BY DEF RInv, IInv, Sound, UA, ua
<1>2. reg'[op.rid] = jr /\ \A q \in Rids : q # op.rid => reg'[q] = reg[q]
  BY <1>1
<1>3. Unmade(ua', bindings')
  BY <1>2, NotMade DEF RInv, Unmade, ua
<1>4. up' /\ Active(ua') => Refreshed(ua')
  BY <1>2 DEF RInv, Active, Refreshed, Own, ua
<1> QED
  BY <1>3, <1>4 DEF RInv

\* A request is heard: a 2xx to a period of zero removes the contact it carries.
LEMMA RegistrarServes ==
  ASSUME RInv, NEW r \in Rids, Registrar(r)
  PROVE  RInv'
<1> DEFINE bound(c) == CASE reg[r].req.contact = "private" -> bindings
                         [] reg[r].req.contact = "public" /\ c = "zero" -> bindings \ {r}
                         [] OTHER -> bindings \cup {r}
           jr(a, fresh) == IF reg[r].listed
                           THEN [reg[r] EXCEPT !.tr = "heard", !.answer = a, !.fresh = fresh]
                           ELSE NoContext
<1>1. IInv'
  BY RegistrarStep DEF RInv
<1>2. reg[r] \in Contexts /\ reg[r].tr = "calling" /\ UNCHANGED <<proxy, op, up, events>>
  BY DEF RInv, IInv, Sound, UA, ua, Registrar
<1>3. PICK a \in Answers, fresh \in BOOLEAN :
        /\ reg' = [reg EXCEPT ![r] = jr(a, fresh)]
        /\ bindings' = IF a = "2xx" THEN bound(reg[r].req.exp) ELSE bindings
  <2> HIDE DEF jr, bound
  <2>1. \/ reg' = [reg EXCEPT ![r] = jr("401", FALSE)] /\ bindings' = bindings
        \/ reg' = [reg EXCEPT ![r] = jr("423", FALSE)] /\ bindings' = bindings
        \/ reg' = [reg EXCEPT ![r] = jr("other", FALSE)] /\ bindings' = bindings
        \/ /\ reg' = [reg EXCEPT ![r] = jr("2xx", bindings' # {})]
           /\ bindings' = bound(reg[r].req.exp)
    BY Zenon DEF Registrar, jr, bound
  <2>2. (bindings' # {}) \in BOOLEAN
    OBVIOUS
  <2> QED
    BY <2>1, <2>2, ZenonT(30) DEF Answers
<1>4. reg[r].req.contact \in {"private", "public"}
  BY <1>2 DEF Contexts, Requests, Contacts
<1>5. /\ bindings' \subseteq bindings \cup {r}
      /\ reg[r].req.contact = "private" => bindings' = bindings
      /\ a = "2xx" /\ reg[r].req.contact = "public" /\ reg[r].req.exp = "zero" => r \notin bindings'
  <2>1. /\ reg[r].req.contact = "private" => bound(reg[r].req.exp) = bindings
        /\ reg[r].req.contact = "public" /\ reg[r].req.exp = "zero" =>
             bound(reg[r].req.exp) = bindings \ {r}
        /\ reg[r].req.contact = "public" /\ reg[r].req.exp # "zero" =>
             bound(reg[r].req.exp) = bindings \cup {r}
    OBVIOUS
  <2> HIDE DEF bound
  <2> QED
    BY <1>3, <1>4, <2>1
<1> HIDE DEF bound
<1>6. CASE r # op.rid
  BY <1>1, <1>2, <1>3, <1>5, <1>6, OtherContext
<1>7. CASE r = op.rid
  <2> DEFINE j == jr(a, fresh)
  <2>1. /\ j.listed = reg[r].listed
        /\ j.listed => /\ j.tr = "heard" /\ j.answer = a /\ j.req = reg[r].req
                       /\ j.last = reg[r].last
                       /\ j.period = reg[r].period
    BY <1>2 DEF Contexts, NoContext
  <2> HIDE DEF j, jr
  <2>2. reg' = [reg EXCEPT ![op.rid] = j]
    BY <1>3, <1>7 DEF j
  <2>3. reg'[r] = j
    BY <1>7, <2>2 DEF RInv, IInv, Sound, UA, ua
  <2>4. up /\ Active(ua) => j.listed
    BY <1>7, <2>1 DEF RInv, Refreshed, Own, ua
  <2>5. r # 0 /\ (j.listed => /\ reg[r].last # "2xx"
                              /\ reg[r].req.contact = "public" => op.contact = "public"
                              /\ r \in bindings => reg[r].req.contact = "public")
    BY <1>2, <1>7, <2>1, RidsArePositive DEF RInv, Served, Own, ua
  <2>6. j.listed /\ r \in bindings' => reg[r].req.contact = "public"
    BY <1>4, <1>5, <2>5
  <2>7. j.listed /\ reg[r].req.exp = "zero" /\ a = "2xx" => r \notin bindings'
    BY <1>4, <1>5, <2>5
  <2>8. Served(ua', bindings')
    BY <1>2, <1>7, <2>1, <2>3, <2>5, <2>6, <2>7 DEF Served, Own, ua
  <2>9. LastTold(ua', events')
    BY <1>2, <1>7, <2>1, <2>3 DEF LastTold, Own, ua
  <2>10. /\ op.rid \in Rids /\ UNCHANGED <<proxy, op, up>>
         /\ bindings' \subseteq bindings \cup {op.rid}
         /\ j.listed => j.period = reg[op.rid].period
    BY <1>2, <1>5, <1>7, <2>1
  <2> QED
    BY <1>1, <2>2, <2>4, <2>8, <2>9, <2>10, OwnContext
<1> QED
  BY <1>6, <1>7

\* What is reported is the last event.
LEMMA ReportIsLast ==
  ASSUME NEW r, NEW resp, NEW fresh, events \in Seq(Events), events' \in Seq(Events),
         Report(r, resp, fresh)
  PROVE  /\ events' # <<>> /\ events'[Len(events')].rid = r
         /\ events'[Len(events')].req = reg[r].req
<1> DEFINE e == [rid |-> r, req |-> reg[r].req, fresh |-> fresh, resp |-> resp]
<1>1. events' = Append(events, e) /\ e.rid = r /\ e.req = reg[r].req
  BY DEF Report
<1> HIDE DEF e
<1>2. Len(events') = Len(events) + 1 /\ events'[Len(events) + 1] = e
  BY <1>1
<1> QED
  BY <1>1, <1>2

LEMMA ProvisionalServes ==
  ASSUME RInv, NEW r \in Rids, rcv_1xx(r)
  PROVE  RInv'
<1> DEFINE j == [reg[r] EXCEPT !.last = "1xx"]
<1>1. IInv' /\ reg[r] \in Contexts /\ reg \in [Rids -> Contexts]
  BY ProvisionalStep DEF RInv, IInv, Sound, UA, ua
<1>2. r = op.rid /\ r # 0
  BY RidsArePositive DEF rcv_1xx, RInv, IInv, Sound, ua
<1>3. /\ j.listed = reg[r].listed /\ j.tr = "calling" /\ j.req = reg[r].req
      /\ j.period = reg[r].period /\ j.last = "1xx" /\ j.listed
  BY <1>1 DEF Contexts, rcv_1xx
<1>4. reg' = [reg EXCEPT ![op.rid] = j] /\ UNCHANGED <<proxy, op, up, bindings, events>>
  BY <1>2 DEF rcv_1xx
<1> HIDE DEF j
<1>5. reg'[r] = j
  BY <1>1, <1>2, <1>4
<1>6. Served(ua', bindings') /\ LastTold(ua', events')
  BY <1>2, <1>3, <1>4, <1>5 DEF RInv, Served, LastTold, Own, ua
<1>7. bindings' \subseteq bindings \cup {op.rid} /\ j.period = reg[op.rid].period
  BY <1>2, <1>3, <1>4
<1> QED
  BY <1>1, <1>2, <1>3, <1>4, <1>6, <1>7, OwnContext

\* The answer is told with the request that it answers.
LEMMA ReceiveAnswerServes ==
  ASSUME RInv, NEW r \in Rids, ReceiveAnswer(r)
  PROVE  RInv'
<1> DEFINE j == [reg[r] EXCEPT !.tr = "done", !.last = reg[r].answer, !.answer = "none",
                               !.fresh = FALSE,
                               !.retry = IF reg[r].answer = "2xx" THEN 0 ELSE @]
<1>1. IInv' /\ reg[r] \in Contexts /\ reg \in [Rids -> Contexts] /\ r # 0
  BY ReceiveAnswerStep, RidsArePositive DEF RInv, IInv, Sound, UA, ua
<1>2. /\ j.listed = reg[r].listed /\ j.tr = "done" /\ j.req = reg[r].req
      /\ j.period = reg[r].period /\ j.last = reg[r].answer
  BY <1>1 DEF Contexts
<1>3. reg' = [reg EXCEPT ![r] = j] /\ UNCHANGED <<proxy, op, up, bindings>>
      /\ reg[r].tr = "heard"
  BY <1>1 DEF ReceiveAnswer, Contexts
<1> HIDE DEF j
<1>4. reg'[r] = j
  BY <1>1, <1>3
<1>5. /\ events' # <<>> /\ events'[Len(events')].rid = r
      /\ events'[Len(events')].req = reg[r].req
  <2>1. events \in Seq(Events) /\ events' \in Seq(Events)
    BY <1>1 DEF RInv, IInv, RestOK
  <2> QED
    BY <2>1, ReportIsLast DEF ReceiveAnswer
<1>6. CASE r # op.rid
  BY <1>1, <1>3, <1>5, <1>6, OtherContext
<1>7. CASE r = op.rid
  <2>1. LastTold(ua', events')
    BY <1>2, <1>3, <1>4, <1>5, <1>7 DEF LastTold, Own, ua
  <2>2. Served(ua', bindings')
    BY <1>1, <1>2, <1>3, <1>4, <1>7 DEF RInv, Served, Own, ua
  <2>3. up /\ Active(ua) => j.listed
    BY <1>2, <1>7 DEF RInv, Refreshed, Own, ua
  <2>4. /\ op.rid \in Rids /\ reg' = [reg EXCEPT ![op.rid] = j]
        /\ bindings' \subseteq bindings \cup {op.rid} /\ j.period = reg[op.rid].period
    BY <1>2, <1>3, <1>7
  <2> QED
    BY <1>1, <1>3, <2>1, <2>2, <2>3, <2>4, OwnContext
<1> QED
  BY <1>6, <1>7

\* What timed out was not accepted.
LEMMA TimeoutServes ==
  ASSUME RInv, NEW r \in Rids, Timeout(r)
  PROVE  RInv'
<1> DEFINE d == [reg[r] EXCEPT !.tr = "done", !.answer = "none", !.fresh = FALSE]
           j == IF reg[r].listed THEN d ELSE NoContext
<1>1. IInv' /\ reg[r] \in Contexts /\ reg \in [Rids -> Contexts] /\ r # 0
  BY TimeoutStep, RidsArePositive DEF RInv, IInv, Sound, UA, ua
<1>2. /\ j.listed = reg[r].listed
      /\ j.listed => /\ j.tr = "done" /\ j.req = reg[r].req
                     /\ j.period = reg[r].period /\ j.last = reg[r].last
  BY <1>1 DEF Contexts, NoContext
<1>3. reg' = [reg EXCEPT ![r] = j] /\ UNCHANGED <<proxy, op, up, bindings>>
      /\ reg[r].tr \in {"calling", "heard"}
  BY <1>1 DEF Timeout, Contexts
<1> HIDE DEF j
<1>4. reg'[r] = j
  BY <1>1, <1>3
<1>5. events' = events \/ (events' # <<>> /\ events'[Len(events')].rid = r)
  <2>1. events \in Seq(Events) /\ events' \in Seq(Events)
    BY <1>1 DEF RInv, IInv, RestOK
  <2> QED
    BY <2>1, ReportIsLast DEF Timeout
<1>6. CASE r # op.rid
  BY <1>1, <1>3, <1>5, <1>6, OtherContext
<1>7. CASE r = op.rid
  <2>1. j.listed => j.last # "2xx"
    BY <1>1, <1>2, <1>3, <1>7 DEF RInv, Served, Own, ua
  <2>2. LastTold(ua', events')
    BY <1>3, <1>4, <1>7, <2>1 DEF LastTold, Own, ua
  <2>3. Served(ua', bindings')
    BY <1>1, <1>2, <1>3, <1>4, <1>7, <2>1 DEF RInv, Served, Own, ua
  <2>4. up /\ Active(ua) => j.listed
    BY <1>2, <1>7 DEF RInv, Refreshed, Own, ua
  <2>5. /\ op.rid \in Rids /\ reg' = [reg EXCEPT ![op.rid] = j]
        /\ bindings' \subseteq bindings \cup {op.rid}
        /\ j.listed => j.period = reg[op.rid].period
    BY <1>2, <1>3, <1>7
  <2> QED
    BY <1>1, <1>3, <2>2, <2>3, <2>4, <2>5, OwnContext
<1> QED
  BY <1>6, <1>7

\* eXosip only lets go of a context without a period.
LEMMA ReleaseServes ==
  ASSUME RInv, NEW r \in Rids, eXosip_release_terminated_registrations(r)
  PROVE  RInv'
<1> DEFINE j == Delisted(reg[r])
<1>1. IInv' /\ reg[r] \in Contexts /\ reg \in [Rids -> Contexts]
  BY ReleaseStep DEF RInv, IInv, Sound, UA, ua
<1>2. r = op.rid /\ ~ j.listed
  BY <1>1, DelistedIsContext DEF eXosip_release_terminated_registrations, RInv, IInv, Sound, ua
<1>3. reg' = [reg EXCEPT ![op.rid] = j] /\ UNCHANGED <<proxy, op, up, bindings, events>>
  BY <1>2 DEF eXosip_release_terminated_registrations
<1> HIDE DEF j
<1>4. reg'[r] = j
  BY <1>1, <1>2, <1>3
<1>5. Served(ua', bindings') /\ LastTold(ua', events')
  BY <1>2, <1>3, <1>4 DEF Served, LastTold, Own, ua
<1>6. ~ (up /\ Active(ua))
  BY <1>2 DEF RInv, Refreshed, Own, ua, eXosip_release_terminated_registrations
<1>7. bindings' \subseteq bindings \cup {op.rid} /\ op.rid \in Rids
  BY <1>2, <1>3
<1> QED
  BY <1>1, <1>2, <1>3, <1>5, <1>6, <1>7, OwnContext

-----------------------------------------------------------------------------
(* Who says that the proxy is Cleared.                                     *)

\* A record whose proxy is not newly Cleared does not clear the proxy.
LEMMA AlongClears ==
  ASSUME NEW t, NEW u, Along(ua, t, bindings), u.proxy.state = t.proxy.state, Become(u),
         proxy'.state = "Cleared"
  PROVE  proxy.state = "Cleared"
BY DEF Along, Become, ua

LEMMA ApplicationNeverClears ==
  ASSUME RInv, Application, proxy'.state = "Cleared"
  PROVE  proxy.state = "Cleared"
<1>1. Sound(ua) /\ proxy \in Proxies
  BY DEF RInv, IInv, Sound, UA, ua
<1> DEFINE t == edit(ua)
<1>2. Along(ua, t, bindings) /\ Sound(t)
  BY <1>1, UnregisterAlong DEF Along, Keeps
<1>3. Along(ua, ua, bindings)
  BY <1>1, OnwardSelf DEF Onward
<1>4. CASE linphone_proxy_config_edit
  <2> DEFINE u == [t EXCEPT !.proxy.editing = TRUE]
  <2>1. Become(u)
    BY <1>4 DEF linphone_proxy_config_edit
  <2> HIDE DEF t
  <2>2. u.proxy.state = t.proxy.state
    BY <1>2 DEF Sound, UA, Proxies
  <2> HIDE DEF u
  <2> QED
    BY <1>2, <2>1, <2>2, AlongClears
<1>5. ASSUME NEW enable \in BOOLEAN, linphone_proxy_config_done(enable)
      PROVE  proxy.state = "Cleared"
  BY <1>1, <1>5 DEF linphone_proxy_config_done, Proxies
<1>6. CASE linphone_core_refresh_registers
  <2>1. Onward(ua, sal_register_refresh(ua), bindings)
    BY <1>1, <1>6, RefreshOnward DEF linphone_core_refresh_registers, ua
  <2> QED
    BY <1>6, <2>1, AlongClears DEF linphone_core_refresh_registers, Onward
<1>7. CASE linphone_core_remove_proxy_config
  <2> DEFINE v == IF proxy.state = "Ok" THEN t ELSE ua
             u == [v EXCEPT !.proxy.removed = "yes", !.proxy.editing = FALSE]
  <2>1. Become(u)
    BY <1>7 DEF linphone_core_remove_proxy_config
  <2>2. Along(ua, v, bindings) /\ Sound(v)
    BY <1>1, <1>2, <1>3
  <2> HIDE DEF v
  <2>3. u.proxy.state = v.proxy.state
    BY <2>2 DEF Sound, UA, Proxies
  <2> HIDE DEF u
  <2> QED
    BY <2>1, <2>2, <2>3, AlongClears
<1>8. ASSUME NEW pass \in Passwords, linphone_core_add_auth_info(pass)
      PROVE  proxy.state = "Cleared"
  <2> DEFINE a == [pass |-> pass, works |-> FALSE, usecount |-> 0, asked |-> FALSE]
             s == [ua EXCEPT !.auth = a]
             w == sal_op_authenticate(s)
  <2>1. Become(s) \/ Become(CountUse(w))
    BY <1>8 DEF linphone_core_add_auth_info
  <2>2. Onward(ua, s, bindings) /\ Sound(s)
    <3>1. a \in Auths
      BY DEF Auths
    <3> QED
      BY <1>1, <3>1, AuthOnward DEF Onward, Along, Keeps
  <2> HIDE DEF s
  <2>3. Onward(ua, w, bindings) /\ Sound(w)
    BY <2>2, AuthenticateOnward, OnwardTwice, SMTT(20) DEF Onward, Along, Keeps
  <2> HIDE DEF w
  <2>4. Onward(ua, CountUse(w), bindings)
    BY <2>3, CountUseOnward, OnwardTwice
  <2> QED
    BY <1>8, <2>1, <2>2, <2>4, AlongClears DEF Onward
<1>9. ASSUME NEW isReachable \in BOOLEAN, set_network_reachable(isReachable)
      PROVE  proxy.state = "Cleared"
  <2> DEFINE s1 == [t EXCEPT !.proxy.commit = TRUE]
             s2 == [ua EXCEPT !.proxy.state = "None"]
  <2>1. Become(Unlisten(ua)) \/ Become(Unlisten(s1)) \/ Become(Unlisten(s2))
    BY <1>9 DEF set_network_reachable
  <2> HIDE DEF t
  <2>2. s1.proxy.state = t.proxy.state /\ s2.proxy.state = "None"
    BY <1>1, <1>2 DEF Sound, UA, Proxies
  <2> HIDE DEF s1, s2
  <2>3. proxy' \in {ua.proxy, s1.proxy, s2.proxy}
    BY <2>1 DEF Become, Unlisten
  <2>4. proxy'.state \in {proxy.state, t.proxy.state, "None"}
    BY <2>2, <2>3 DEF ua
  <2> QED
    BY <1>2, <2>4 DEF Along, ua
<1> QED
  BY <1>4, <1>5, <1>6, <1>7, <1>8, <1>9 DEF Application

LEMMA OnlyEventsClear ==
  ASSUME RInv, [Next]_vars, proxy'.state = "Cleared", proxy.state # "Cleared"
  PROVE  ProcessEvent
<1>1. Sound(ua) /\ proxy \in Proxies
  BY DEF RInv, IInv, Sound, UA, ua
<1>2. ~ eXosip_automatic_refresh
  <2> SUFFICES ASSUME eXosip_automatic_refresh PROVE FALSE
    OBVIOUS
  <2>1. PICK r \in Rids : reg[r].listed /\ Become(SendAgain(ua, r, 0))
    BY DEF eXosip_automatic_refresh, Idle, ua
  <2>2. r = ua.op.rid /\ r # 0
    BY <1>1, <2>1, RidsArePositive DEF Sound, ua
  <2>3. Along(ua, SendAgain(ua, r, 0), bindings)
    BY <1>1, <2>2, SendAgainOnward DEF Onward
  <2> QED
    BY <2>1, <2>3, AlongClears
<1>3. ~ linphone_proxy_config_update
  <2> SUFFICES ASSUME linphone_proxy_config_update PROVE FALSE
    OBVIOUS
  <2> DEFINE s == [ua EXCEPT !.proxy.commit = FALSE]
             t == sal_register(sal_op_release(s))
             u == [t EXCEPT !.proxy.state = "Progress", !.auth.asked = FALSE]
  <2>1. Become(s) \/ (op.made < MaxOps /\ Become(u))
    BY DEF linphone_proxy_config_update
  <2>2. s.proxy.state = proxy.state /\ Sound(s) /\ s.op = op
    <3>1. [proxy EXCEPT !.commit = FALSE] \in Proxies
      BY <1>1 DEF Proxies
    <3>2. Sound([ua EXCEPT !.proxy = [proxy EXCEPT !.commit = FALSE]])
      BY <1>1, <3>1, ProxyKeeps DEF Keeps
    <3>3. s = [ua EXCEPT !.proxy = [proxy EXCEPT !.commit = FALSE]]
      BY DEF ua
    <3> QED
      BY <1>1, <3>2, <3>3 DEF ua, Proxies
  <2> HIDE DEF s
  <2>3. CASE Become(s)
    BY <2>2, <2>3 DEF Become
  <2>4. CASE op.made < MaxOps /\ Become(u)
    <3>1. Sound(t)
      BY <2>2, <2>4, ReleaseIsSound, RegisterIsSound
    <3> HIDE DEF t
    <3>2. u.proxy.state = "Progress"
      BY <3>1 DEF Sound, UA, Proxies
    <3> QED
      BY <2>4, <3>2 DEF Become
  <2> QED
    BY <2>1, <2>3, <2>4
<1>4. ~ linphone_proxy_config_destroy
  <2> SUFFICES ASSUME linphone_proxy_config_destroy PROVE FALSE
    OBVIOUS
  <2> DEFINE t == sal_op_release(ua)
             u == [t EXCEPT !.proxy.removed = "destroyed"]
  <2>1. Sound(t) /\ t.proxy = proxy
    BY <1>1, ReleaseIsSound, ReleaseLeaves DEF ua
  <2>2. Become(u)
    BY DEF linphone_proxy_config_destroy
  <2> HIDE DEF t
  <2>3. u.proxy.state = proxy.state
    BY <2>1 DEF Sound, UA, Proxies
  <2> QED
    BY <2>2, <2>3 DEF Become
<1>5. ~ Application
  BY ApplicationNeverClears
<1>6. ASSUME NEW r \in Rids,
             Transaction(r) \/ rcv_1xx(r) \/ eXosip_release_terminated_registrations(r)
      PROVE  FALSE
  BY <1>6 DEF Transaction, Registrar, ReceiveAnswer, Timeout, rcv_1xx,
              eXosip_release_terminated_registrations
<1>7. ~ UNCHANGED vars
  BY DEF vars
<1> QED
  BY <1>2, <1>3, <1>4, <1>5, <1>6, <1>7 DEF Next, Loop

\* The event that clears the proxy is the answer to the last request.
LEMMA ClearedIsTold ==
  ASSUME RInv, [Next]_vars, proxy'.state = "Cleared", proxy.state # "Cleared",
         events' = <<>>, reg[op.rid].listed, reg[op.rid].tr = "done",
         reg[op.rid].last = "2xx"
  PROVE  op.rid \notin bindings
<1>1. ProcessEvent /\ events \in Seq(Events)
  BY OnlyEventsClear DEF RInv, IInv, RestOK
<1>2. PICK u : /\ Onward(ua, u, bindings)
               /\ \/ Become(u)
                  \/ /\ Become(SetState(u, "Cleared"))
                     /\ Head(events).rid = op.rid /\ Head(events).req.exp = "zero"
  BY <1>1, EventGoes
<1>3. ~ Become(u)
  BY <1>2, AlongClears DEF Onward
<1>4. Head(events).rid = op.rid /\ Head(events).req.exp = "zero"
  BY <1>2, <1>3
<1>5. events # <<>> /\ Tail(events) = <<>>
  BY <1>1 DEF ProcessEvent
<1>6. Len(events) = 1
  <2>1. Len(events) \in Nat /\ Len(events) > 0 /\ Len(Tail(events)) = Len(events) - 1
    BY <1>1, <1>5
  <2>2. Len(Tail(events)) = 0
    <3>1. Len(<<>>) = 0
      OBVIOUS
    <3> QED
      BY <1>5, <3>1, Zenon
  <2> QED
    BY <2>1, <2>2
<1>7. Head(events) = events[Len(events)] /\ Head(events) \in Events
  BY <1>1, <1>5, <1>6
<1>8. op.rid # 0
  BY <1>4, <1>7, RidsArePositive DEF Events
<1>9. reg[op.rid].req.exp = "zero"
  BY <1>4, <1>5, <1>7, <1>8 DEF RInv, LastTold, Own, ua
<1> QED
  BY <1>8, <1>9 DEF RInv, Served, Own, ua

-----------------------------------------------------------------------------
(* The theorems.                                                           *)

LEMMA StepKeepsInvariant == IInv /\ [Next]_vars => IInv'
<1> SUFFICES ASSUME IInv, [Next]_vars PROVE IInv'
  OBVIOUS
<1>1. CASE Loop
  BY <1>1, ProcessEventStep, UpdateStep DEF Loop
<1>2. CASE eXosip_automatic_refresh
  BY <1>2, AutomaticRefreshStep
<1>3. CASE linphone_proxy_config_destroy
  BY <1>3, DestroyStep
<1>4. CASE Application
  BY <1>4, EditStep, DoneStep, RefreshStep, RemoveStep, AddAuthInfoStep, ReachableStep
  DEF Application
<1>5. ASSUME NEW r \in Rids,
             Transaction(r) \/ rcv_1xx(r) \/ eXosip_release_terminated_registrations(r)
      PROVE  IInv'
  BY <1>5, RegistrarStep, ReceiveAnswerStep, TimeoutStep, ProvisionalStep, ReleaseStep
  DEF Transaction
<1>6. CASE UNCHANGED vars
  BY <1>6 DEF vars, IInv, RestOK, ua
<1> QED
  BY <1>1, <1>2, <1>3, <1>4, <1>5, <1>6 DEF Next

\* The inductive invariant holds in every state, whatever the application, the
\* network and the registrar do.
THEOREM RegistrationInvariance == Spec => []IInv
<1>1. Spec => Init /\ [][Next]_vars
  BY DEF Spec
<1> QED
  BY <1>1, InitIsSound, StepKeepsInvariant, PTL

\* Types: in particular r_retry never exceeds 3 and events are about contexts
\* that exist (_eXosip_retry_register_with_auth, process_authentication).
THEOREM RegistrationTypes == Spec => []TypeOK
<1>1. IInv => TypeOK
  BY InvariantIsTyped
<1> QED
  BY <1>1, RegistrationInvariance, PTL

\* eXosip lists at most the context of the current operation: what sal_op_release
\* leaves behind is never refreshed (eXosip_automatic_refresh looks at the list).
THEOREM OneRegistrationHolds == Spec => []OneRegistration
<1>1. IInv => OneRegistration
  BY InvariantIsTyped
<1> QED
  BY <1>1, RegistrationInvariance, PTL

LEMMA StepServes == RInv /\ [Next]_vars => RInv'
<1> SUFFICES ASSUME RInv, [Next]_vars PROVE RInv'
  OBVIOUS
<1>1. CASE Loop
  BY <1>1, ProcessEventServes, UpdateServes DEF Loop
<1>2. CASE eXosip_automatic_refresh
  BY <1>2, AutomaticRefreshServes
<1>3. CASE linphone_proxy_config_destroy
  BY <1>3, DestroyServes
<1>4. CASE Application
  BY <1>4, EditServes, DoneServes, RefreshServes, RemoveServes, AddAuthInfoServes,
     ReachableServes DEF Application
<1>5. ASSUME NEW r \in Rids,
             Transaction(r) \/ rcv_1xx(r) \/ eXosip_release_terminated_registrations(r)
      PROVE  RInv'
  BY <1>5, RegistrarServes, ReceiveAnswerServes, TimeoutServes, ProvisionalServes,
     ReleaseServes DEF Transaction
<1>6. CASE UNCHANGED vars
  <2>1. IInv'
    BY <1>6 DEF vars, RInv, IInv, RestOK, ua
  <2>2. ua' = ua /\ UNCHANGED <<events, up, bindings>>
    BY <1>6 DEF vars, ua
  <2> QED
    BY <2>1, <2>2 DEF RInv, Active, Refreshed, Served, Unmade, LastTold, Own
<1> QED
  BY <1>1, <1>2, <1>3, <1>4, <1>5, <1>6 DEF Next

\* The stronger invariant of the own context holds in every state.
THEOREM RegistrationIsServed == Spec => []RInv
<1>1. Spec => Init /\ [][Next]_vars
  BY DEF Spec
<1> QED
  BY <1>1, InitIsServed, StepServes, PTL

\* A proxy that is Ok, and that nobody is changing, has a listed context with a
\* period and a transaction: eXosip_automatic_refresh will send it again.
THEOREM OkIsAlwaysRefreshed == Spec => []OkIsRefreshed
<1>1. RInv => OkIsRefreshed
  BY DEF RInv, OkIsRefreshed, Settled, Active, Refreshed, Served, Own, ua
<1> QED
  BY <1>1, RegistrationIsServed, PTL

\* Cleared is said of a proxy whose contact the registrar has removed, when the
\* event read is the last one (registration_success looks at the request that
\* was answered).
THEOREM ClearedIsReallyUnbound == Spec => ClearedIsUnbound
<1>1. RInv /\ [Next]_vars =>
        [proxy'.state = "Cleared" /\ proxy.state # "Cleared" /\ events' = <<>>
           /\ reg[op.rid].listed /\ reg[op.rid].tr = "done" /\ reg[op.rid].last = "2xx"
             => op.rid \notin bindings]_vars
  BY ClearedIsTold
<1>2. Spec => [][Next]_vars
  BY DEF Spec
<1> QED
  BY <1>1, <1>2, RegistrationIsServed, PTL DEF ClearedIsUnbound
=============================================================================
