# A verification of tjphone's calls, registrations and streams

`src/` is a Windows bundle of linphone 3.5.2 (coreapi, mediastreamer2, oRTP), the SIP
stack libeXosip2-3.6.0 over libosip2-3.6.0, several user interfaces, and third-party SDK
and codec trees. This directory specifies the parts that decide what happens to a call:
the core's call handlers and API over eXosip's call contexts, the SIP transactions below
them, the registration with its authentication and refresh, the event queue between the
media threads and the application, the reception of RTP, and the control of the rate that is sent.

Contents: 1. inventory, 2. modules and how they correspond to the code, 3. the runs,
4. bounds and fairness, 5. the proofs, 6. disagreements between code and documentation,
7. what is not modelled, 8. the plan.

## 1. Inventory

### How the parts meet

Two threads share the SIP state.

* The **eXosip thread** reads messages, runs the osip transactions and their timers,
  moves the call contexts (`eXosip_call_t`, `eXosip_dialog_t`) and appends to the event
  queue `j_events`.
* The **application thread** calls `linphone_core_iterate` periodically. It calls
  `sal_iterate`, which takes the events off the queue one by one and runs a handler of
  `sal_eXosip2.c`. This updates a `SalOp` and invokes a callback of `callbacks.c`. The
  callback changes the `LinphoneCall`, starts or stops streams, and tells the user
  interface. The same thread runs the API functions between two events, and the user
  interface may call the API again from within a notification.

So an event describes the context as it was when the event was appended, and a handler
or an API call acts on the context as it is now. The hard behaviours come from this gap:
the BYE, the CANCEL, the 200 OK and the re-INVITE that cross on the wire or wait in the
queue while the user does something else, and one handler that changes several calls
(pausing the current one, ending the last one, resuming the one that was transferred).

The mediastreamer2 tickers are further threads. They exchange media events with the
application thread through a ring buffer (`eventqueue.c`) of which only the room counter is
protected, they read the RTP packets of the peer at every tick, and they do not read call
states. So the models of the event queue, of RTP and of the rate control (which acts on the
encoder when the application reads an RTCP report) stand alone, and those of the calls and of the registration meet in the `SalOp`, the eXosip thread and its event queue.

### Components

| Component | State it keeps | Operations | Interacts with | Hard | Correct when |
|---|---|---|---|---|---|
| Call control (`callbacks.c`, `linphonecall.c`, `linphonecore.c`) | `lc->calls`, `current_call`, ring stream, each call's state, references, streams, descriptions, pending transfer | invite, accept, terminate, redirect, pause, resume, update, a callback per SIP event, timers of `iterate` | SalOp (calls down, callbacks up), streams, friends | late events, reentrant notifications, several calls, glare | list = open calls; an end is final; no dangling pointer; tone, streams and presence fit the calls |
| SalOp (`sal_eXosip2.c`) | cid, did, tid, `terminated`, local and remote SDP, result | `sal_call_*`, one handler per eXosip event | eXosip API and event queue | ids learnt by event, after the context has moved | every dialog of an ended call is closed |
| SDP offer/answer (`offeranswer.c`, `sal_linphone.c`) | none (pure) | combine two descriptions, test directions | SalOp, call control | directions of inactive streams | the result fits both sides |
| eXosip call contexts (`eXcall_api.c`, `udp.c`, `jcall.c`, `jdialog.c`, `jevents.c`) | dialogs, INVITE transactions, event queue | `eXosip_call_*`, messages, timeouts, `eXosip_release_terminated_calls` | osip transactions, SalOp | two threads, cleanup | each context ends and is reported once |
| SIP transactions (`ict*.c`, `ist*.c`, `nict*.c`, `nist*.c`) | state and timers of each transaction | messages and timers | network | loss, duplication, retransmission | a request is answered once, a final response is absorbed |
| Dialogs and parser (osip2, osipparser2) | CSeq, tags, route set | build, match | transactions | CSeq order | in-dialog requests match one dialog |
| Registration (`proxy.c`, `authentication.c`, `eXregister_api.c`) | state, expiry, pending auth | register, refresh, unregister | SalOp | challenges, contact change | Ok means registered at the current contact |
| Presence, friends, chat | subscriptions both ways, presence | subscribe, notify, close | SalOp, call control | expiry, crossing NOTIFY | one subscription per friend |
| Conference (`conference.c`) | local conference, members | add, remove, enter, leave | calls, audio mixer | the conference ends with its second last member | members are running calls |
| Media engine (`msticker.c`, `msfilter.c`, `eventqueue.c`, `msqueue.c`) | filter graphs, event ring buffer | attach, detach, tick, pump | application thread, tickers | ring-buffer overflow and wrap, several writers | every event accepted is delivered once, in order |
| Media quality (`bitratecontrol.c`, `bitratedriver.c`, `qosanalyzer.c`) | state and counters of the controller, the last two reports, the driver's idea of rate and ptime | act on each RTCP report | encoders of the streams | long sequences of reports, a driver that is wrong about the encoder | trouble lowers what is sent, a calm network gets its quality back |
| RTP (`rtpsession.c`, `rtpparse.c`, `jitterctl.c`, `scheduler.c`) | receive queue, sequence numbers, timestamps | put, get, schedule | tickers | wrap-around, reordering | packets in order, late ones dropped |
| ICE and STUN, codecs and devices, configuration, user interfaces | | | | | see section 7 |

`PROJECT.json` lists every component with its files and status, and under "hazards" the
places where this code is hard to test, with the properties that watch them.

## 2. Modules

| Module | What it is |
|---|---|
| `OfferAnswer` | Directions of an SDP offer and answer (`offeranswer.c`) and the direction tests of `sal_linphone.c`, as operators. |
| `ExosipCall` | One eXosip call context and what the `eXosip_call_*` functions do to it. |
| `CallControl` | The calls of a core over these contexts: variables, one action per handler, API function and network event, the properties and the inductive invariant. |
| `CallLife` | The abstract specification: what an application may rely on about the calls. |
| `MCCallControl` | The sets of SDP that the configurations use. |
| `EventQueue` | The event ring buffer between a ticker's thread and the application's, with the start and stop of streams. |
| `EventFifo` | The abstract specification of the event queue, which `EventQueue` implements. |
| `MCEventQueue` | The event sizes of its configuration. |
| `SipTransaction` | One request from one user agent to another over UDP: the client and server transactions of osip2, eXosip above them, the network between. |
| `Exchange` | The abstract specification: what a request promises to both applications, which `SipTransaction` implements. |
| `Registration` | One proxy configuration, its `SalOp`, the registration contexts of eXosip and the registrar. |
| `RtpReceive` | The receiving side of an RTP session, with the sender and the network. |
| `RtpReport` | `RtpReceive` with the loss counts of the RTCP reports. |
| `RateControl` | The analyser of RTCP reports, the controller, the audio and video drivers, and what the encoders make of their rates. |
| `CallControlProofs` | The proofs about the life of calls, from the helpers to the theorems. |
| `CallControlInvariants` | The proofs about references, queued events, transfers and presence, on top of them. |
| `CallControlTalk` | The proofs about streams, dialogs, holds and the tone, on top of both. |
| `EventQueueProofs` | The proofs about the event queue, with events of one size. |
| `SipTransactionProofs` | The proofs about the transactions. |
| `RegistrationProofs` | The proofs about the registration. |
| `RtpReceiveProofs` | The proofs about the reception of RTP. |
| `RateControlProofs` | The proofs about the rate control. |

### State of `CallControl`

| Variable | Code |
|---|---|
| `calls`, `current` | `lc->calls` (a set: the order of the list is never used here), `lc->current_call` |
| `ring` | `lc->ringstream` is not NULL: ring tone or ringback |
| `friends` | the presence last sent with `linphone_core_notify_all_friends`; `"presence_mode"` stands for the user's own |
| `call[c]` | the `LinphoneCall`: `state`, `refcnt`, `media` (`audiostream`: none, initialised, started), `media_pending`, `refer_pending`, `was_automatically_paused`, `referer`, `desc` (`resultdesc`), and of its `SalOp`: `op` (not NULL), `did` (known), `terminated`, `local`, `remote`, `result`, `srtp` |
| `ctx[c]` | the eXosip context: stage of its dialog, unanswered re-INVITE, SDP told to the peer, awaited ACK |
| `evq` | `eXosip.j_events` |

The cid is the name of a call, and stands for `op->cid`, the `eXosip_call_t` and the
`LinphoneCall` alike: eXosip never reuses a cid. The C functions become operators from a state
record `s` to a state record, one per function and under its name, so that a handler is
the composition its statements are: `linphone_core_invite_address_with_params`, for
instance, is the preemption of the current call, the test of `max_calls`, the new call,
the list, the state change and the INVITE. An action applies the operator of a handler
to the current state (`Becomes(handler(Now, ...))`), so it includes every call the
handler makes. A handler takes one event off the queue and runs to its end, as it does in the
application thread; the eXosip thread moves between any two of them. What is not exact
in this: eXosip's lock is released between two API calls, and a network event can then
fall inside a handler. In the model it falls before or after it.

`LinphoneCallRefered` is never stored (`linphone_call_set_state` excludes it) and
`LinphoneCallUpdated` is left within the same handler, so neither is a state here. A
notification of an incoming call and of an update by the peer carries a `reaction`: what
the user interface does from within it.

Actions: `Invite`, `PingOver` (ping reply or the 2 s of `iterate`), `Accept`, `Terminate`
(also the incoming call timeout), `linphone_core_redirect_call`, `Pause`, `Resume`,
`Update`, `AcceptUpdate`; the ten `Handle...` of `sal_iterate`; and on eXosip's side the `Peer...`
messages, `RefusalSent`, `NoAnswer` (180 s) and `Release` (`eXosip_release_terminated_calls`).

### State of `EventQueue`

`rptr`, `wptr`, `endptr` and `freeroom` are the fields of `MSEventQueue`, in units of the 16
bytes of an event's header; `buffer` says of each unit which event was last written there, and
which part of it. `writer` is where the ticker is in `write_event`, `reader` where the
application is in `read_event`, each cut at the places where the other thread can see a
difference: `Place` (room, wrap-around), `Copy`, `Commit` (`freeroom`), and `Read` (up to the
callback), `Advance`, `Release` (`freeroom`). `running` and `filter` are the stream whose filters
post, `StopStream` is `linphone_call_stop_media_streams` with its `ms_event_queue_skip`.
`pending` is a history variable: the events committed and not yet read, the queue of
`EventFifo`. `lim` is `Size`, and `size` never changes.

### State of `SipTransaction`

`cli` and `srv` are the two `osip_transaction_t`: state, last response, retransmissions by timer,
and the fifo of events that `osip_transaction_execute` takes one at a time. INVITE and other
requests share the module (`kind`): the state names are those of the code, TRYING standing
also for ICT_CALLING. `uac` and `uas` are the eXosip dialogs of both sides, `called` the
caller's context, `count` the callee's `d_count`. `net` is the set of messages in transit: a
message taken may leave a copy behind (duplication), is taken in any order, and may be lost;
losses, duplicates and failed sends are `faults`. `heard`, `answers`, `told`, `broke` are
history, the variables of `Exchange`. `stray` marks a BYE of the callee that ended no call.

A handler is an action; one that sends has a parameter `ok`, whether the socket took the message,
since a failed send ends the transaction on most paths. `client_discards` and `server_discards` are the events that no
transition accepts. Not followed: the To tags (a callee has one), a second
call made by a copy of the INVITE (it is counted in `heard`), CANCEL (its effect on the core is in
`CallControl`).

### State of `Registration`

`proxy` is the `LinphoneProxyConfig`, `op` its `SalOp` (`rid`, contact, expires, `pending_auth`), `auth` the
`LinphoneAuthInfo` with its `usecount`, `reg[r]` the `eXosip_reg_t` with its last transaction, `events`
the queue, `up` `network_reachable`, `bindings` what the registrar holds: a line parameter
makes the contact of each context a binding of its own. Periods are `"zero"`, `"short"` (below the
registrar's minimum, answered 423) and `"long"`; contacts are the local address and the
one the registrar sees (a NAT is assumed, so the first REGISTER is always out of date).
The C functions are operators on the record `ua` as in `CallControl`. A context that is
replaced leaves its request in transit; of it only a request that was not heard
matters. `linphone_core_remove_proxy_config` is followed by `linphone_proxy_config_destroy` (five seconds
later). "Other" failures are taken as forbidden; the 30 seconds of `auth_requested` are a
choice, and `usecount` is capped at 3, where it stops mattering.

### State of `RtpReceive`

`session` is the part of `RtpSession` that decides what is played: `ssrc`, `rcv_last_ts`, the flag
`FIRST_PACKET_DELIVERED` and the queue. `sender` and `net` are the other side: a packet carries its SSRC, sequence
number and timestamp, and for the properties the sender's own clock (`line`, `time`).
`rtp_session_rtp_parse` is one action from the socket to the queue, with the resynchronisation that
`create_duplex_rtpsession` (`audiostream.c`) connects to the jump and SSRC signals;
`rtp_session_recvm_with_ts(ts)` is a tick that finds a packet. The jitter control decides in floating point which `ts` is wanted; any
may be. `permissive` is the video session. `played`, `newest` and `deaf` are history: the last packet given since a
resynchronisation, the newest one received, and how much of the sender's time was refused since a packet was last given. `RtpReport` adds `hwrcv_extseq`, `hwrcv_since_last_SR`,
`hwrcv_seq_at_last_SR` and the computation of `report_block_init`.

### State of `RateControl`

`state`, `stable_count` and `probing_up_count` are those of `MSBitrateController`; `cur` and `prev` the last two entries of
the analyser's `stats`, with the delay in tenths of a second and the jitter only as "at least `big_jitter`". `driver` is the nominal and
current rate and the ptime of the audio or video driver, `encoder` what the encoder really has: its mode, its
ptime, and the rate it reports (`ip_bitrate` of `msspeex.c`, `maxbr` of `videoenc.c`). `medium` tells three encoders
apart: speex, which has modes; one with no rate to set (G.711); and video. `Report` is
`ms_bitrate_controller_process_rtcp` of a report on our stream, `ReportOnOther` of one on another source, after
which the controller runs on the old entries. `state_machine` has one disjunct for each case of the
switch. `calm` is history: how many analyses in a row found nothing wrong.

## 3. The runs

The first five are configurations of `MCCallControl`, like `srtp_refused`; `events` is one of `MCEventQueue`, and
the others are configurations of the module itself.

| Run (cfg) | States | Question | Properties |
|---|---|---|---|
| `calls` (`MCCalls`) | 1 010 049 | Two calls in either direction, answered, refused or ended at any moment, also from within a notification, while CANCEL, BYE and late responses cross; early media, OPTIONS pings, offerless INVITEs, callers refused for our presence. | `NothingRetainedIsFreed`: list, current call and referers never point to freed calls; `NoOrphanDialog`: the peer is not left in a dialog of an ended call; `RingIsForSomeone`, `EndedIsSilent`, `FriendsKnow`: what is played, rung and shown fits the calls; `AnsweredStaysAnswered`; and the inductive invariant `CoreInv`, which contains `TypeOK` and `CurrentIsListed` |
| `glare` (`MCGlare`) | 742 329 | One call, re-INVITEs of both sides in flight, refused ones, every SDP, queue of three. | `ListedIffLive`, `RunningHasMedia`, `EndIsFinal` |
| `pauses` (`MCPauses`) | 3 233 338 | Two calls paused and resumed by either side, and transferred by their peers, with the answers to a hold and the peer hanging up meanwhile. | `PauseIsAsked`: a pause waits for something; `PausedIsAgreed`: Paused means agreed; `NoCallOnDeadDialog`: a lost dialog always ends its call; `ReferencesAreCounted`; `PausedHasNoPendingTransfer` |
| `release` (`MCRelease`) | 4 158 | One call under fairness, with the peer's re-INVITEs and offerless INVITEs. | `EndedIsReleased` (liveness), `AwaitedAckIsPending` |
| `life` (`MCLife`) | 130 571 | Two call objects and `max_calls` = 1, with transfers, pings and INVITEs that cannot be sent. | `CallsLiveOnce`: the refinement of `CallLife`, which contains `WithinMaxCalls` |
| `events` (`MCEvents`) | 3 620 | A ticker posts events of two units into a buffer of six while the application reads them and starts and stops streams. | `DeliversInOrder`: the refinement of `EventFifo`; `ArgumentIsIntact`: a callback's argument is not written over; `CallbackFilterIsAlive`; `TypeOK` |
| `transactions` (`MCTransaction`) | 118 428 | One INVITE or other request, answered or not, while one message is lost or duplicated or one send fails, and every timer fires once. | `Implements`: the refinement of `Exchange` (heard once, one outcome told); `EveryRequestEnds`, `AnswerIsSettled`, `CallsAgree` (liveness): the caller learns the end, no 200 OK is repeated for ever, both sides have the call or neither; `TypeOK` |
| `registration` (`MCRegistration`) | 573 776 | Two operations, two calls of the application, a lost or refused REGISTER, a registrar that asks for a password and for a minimum period. | `OkIsRefreshed`: a proxy that is Ok will be refreshed; `OneRegistration`: no context outlives its operation; `ClearedIsUnbound`: Cleared is said of the unREGISTER that was answered; `ProgressEnds` (liveness); `TypeOK` |
| `rtp` (`MCRtp`) | 521 974 | Six packets around the wraps, one of them lost or duplicated, one restart or change of the source, audio and video. | `PlaysForward`: no step back in time between two resyncs; `NeverDeaf`: a restarted sender is not refused for longer than the jump limit; `TypeOK` |
| `rate` (`MCRate`) | 261 553 | Every sequence of reports (losses below and above the limit, two delays, jitter) to the three encoders, the peer asking for 20 or 40 ms. | `RaiseNeedsCalm`: quality is raised only after a calm time; `TroubleNeverRaises`: what is done about trouble never sends more; `CongestionIsRelieved`, `CalmRestores` (liveness): lasting congestion leads to the lowest rate, a good network back to the nominal one; `TypeOK` |
| `srtp_refused`, `rtp_loss` | | Two sentences of the headers that the code does not keep (section 6). | expected to be violated |

Each property of a passing run has a mutant in `PROJECT.json`: a definition of the model
changed as a plausible bug would change the code, under which TLC finds the property
violated. The mutated forms stand before the definitions they replace, marked `Mutant:`.

Some properties are stated for an environment in which they hold; the restriction is
a `Features` switch, and section 6 and the hazard list say what happens beyond it:

* `EndedIsSilent` without re-INVITEs of the peer: `handle_reinvite` does not test
  `op->terminated`, so a re-INVITE queued before the end of the call creates its streams again.
* `NoOrphanDialog` without refused re-INVITEs of ours: `call_failure` ends the call without a BYE.
* `PauseIsAsked` without re-INVITEs of the peer: `call_ack` announces StreamsRunning
  whatever the state is.
* `RingIsForSomeone` without failing sends when pings are used: a caller who gives up while another call waits for its ping and
  none is current leaves the tone to that call (callbacks.c:504); if its INVITE then cannot be sent, nothing stops the tone
  (linphonecore.c:2138). TLC finds it with three calls, the third being the one whose failed INVITE left none current.
* `FriendsKnow` says only that friends are told OnThePhone while there are calls: an incoming
  call declined for its media tells them so with no end to take it back.
* `EndedIsReleased` without pings: a call ended during the ping has no eXosip context
  whose release could be reported.
* `PausedIsAgreed` without updates of ours: the answer to an update can be taken for agreement to a pause that was never sent.

Some properties name the case in which the code does not keep them. `EveryRequestEnds` excepts a
request that got a 1xx before timer F, of whose end nobody is told; `CallsAgree` a BYE of
the callee that overtakes its 200 OK, or comes after the caller's context is gone
(the BYE that `eXosip_process_response_out_of_transaction` sends is never repeated, but losing it needs no exception: it is only sent
when the dialog has ended on both sides);
`ProgressEnds` a REGISTER challenged after `r_retry` has run out. `TroubleNeverRaises` has the premise that the
driver knows what is sent (`RateIsKnown`); `CalmRestores` leaves out a video driver that never decreased its rate
(it "raises" it to 0), takes the audio driver's word for the nominal rate, and
assumes that the delay returns to the shortest.

## 4. Bounds and fairness

### Calls

`MaxCid` is the number of call objects a behaviour creates, `MaxCalls` is
`lc->max_calls`, and `MaxQueue` bounds the events the network adds while the
application does not iterate (`RefusalSent`, `NoAnswer` and `Release` are not bounded by
it, they happen a bounded number of times). One call suffices for what a call's own
events can do to it, and then the queue is three deep, enough for a re-INVITE, an answer
and a BYE to wait together. Two calls suffice for what calls do to each other: every
interaction in the code is between a call and the current one, or a call and its
referer. `max_calls` = 1 with two objects makes the bound bite on all three paths
(user, peer, transfer).

### Event queue

The ring buffer is 512 units long in the code. What happens in it depends on how far apart the
pointers are and on whether an event ends before, at or beyond the limit: six units hold
three events of two, so that the buffer is full, empty and wrapped in every combination
with the positions of both threads. The passing run has one size of event because
the queue is only right for one size that divides the buffer. That is the case of the events that
streams of a call post with a callback installed (video decoder, file player), which have
no argument and take one unit; two units, the size of the tone events, are used here so that there is
an argument to be overwritten. Two filters stand for those of one stream and of the next.

### Features and fairness of the calls

`Answers` and `Offers` are the SDP of the peer, reduced to the direction of the audio
stream, `"Empty"` (no codec in common) or `"None"` (no SDP). `Features` switches optional
behaviour on: `incoming` (peer invites), `reaction` (API calls from within the notification
of an incoming call), `earlymedia`, `ping`, `sendfailure`, `presence` (callers refused), `hold`,
`update`, `reinvite` (of the peer), `refusal` (of our re-INVITE), `refer`, `srtp`. The behaviours
themselves are the code's; a configuration leaves out those its question is not about,
since all of them at once exceed what TLC can enumerate. Of the proofs, those of section 5 name
the switches that they need to be off; the others hold for any.

`CHECK_DEADLOCK FALSE` is set because the system may rest: when every call object has been
used and released, nothing is left to do.

`FairSpec` assumes that `linphone_core_iterate` is called again and again (weak fairness
of `Iterate`, the documented duty of every application) and that eXosip's thread runs
its own work: a queued refusal is sent, a transaction that gets no answer times out, a
terminated context is released. Nothing is assumed of the peer or the user, who
may never answer, never hang up, or do so forever.

`pauses` leaves out, for time, the answer `a=inactive` and the one without a codec in common: with them as well, all five properties
hold (7.7 million states); `glare` has every answer.

### Transactions, registration, RTP, rate control

`SipTransaction`: `MaxCopies` = 1 stands for the seven retransmissions of a timer and the nine of the 200 OK: one is
what it takes for a copy to cross the next step, and the last one is told from the others.
`MaxFaults` = 1 is a loss, a duplicate or a failed send at any place; the same run with two passes
as well (297 327 states). `MaxFifo` = 2 lets a message and a timer wait together. A message lives less than the timers
chosen for it (J, H, I, and the 180 s), as the RFC assumes of UDP. The fairness is one
weak fairness, of `Work`: the eXosip thread and the core go on as long as there is anything to do. As faults
and copies are bounded, nothing that stays due can be passed over; the callee need not answer.

`Registration`: two operations are the least at which one is replaced while it is under way; two calls of
the application edit and commit, disable during a refresh, or take the network down and up; one
fault is a lost or refused REGISTER. The safety properties also hold with three calls (3.5 million states), and
all of them with a registrar that asks for no password. `Fairness`: the core's loop runs, time passes (`eXosip_automatic_refresh`,
called by every `sal_iterate`), and a REGISTER is answered or times out, which osip's timer F enforces.

`RtpReceive`: sequence numbers and timestamps are modulo 16, a jump is beyond 2 instead of 5 seconds: half of the
range, the wrap, the jump limit and the queue of two are then all within reach of six packets.
`FirstSeqs` and `FirstTs` start before a wrap and away from one; `Jumps` are a jump forward (5), one
back within the limit (14) and one beyond it (11). A packet is in transit while at most one
newer one is sent (`Window`); three with two faults and five packets passes as well. No
fairness: a session that is not asked for packets owes nothing. `CHECK_DEADLOCK FALSE` is set in
these three because a finished exchange, a removed proxy and a sender at its end rest.

`RateControl`: `Interval` is 3 instead of 10 reports, which leaves room for trouble before, within and after the count. Four
modes of the speex encoder are enough for steps that skip one; both ptimes of the peer are needed, as the driver assumes the
shorter. The video rates are in kbit/s, so that truncation happens in units a thousand times as large: no property
depends on it. Losses are none, above the limit, and twice that; delays are below and at
`significant_delay`, one twice the other. The only fairness is that reports keep coming: a peer that
implements RTCP sends one every few seconds, and without any the controller does nothing.

## 5. The proofs

### Calls

`CallControlProofs`, `CallControlInvariants` and `CallControlTalk` prove with TLAPS, for every value of the constants allowed by
`ConstantsAssumption` (any number of calls, any `max_calls`, any queue, any SDP) and under `"srtp" \notin Features`:

| Theorem | Statement |
|---|---|
| `Invariance` | `Spec => []LifeInv` |
| `TypeCorrectness` | `Spec => []TypeOK` |
| `ListIsExact` | `Spec => []ListedIffLive`: `lc->calls` holds exactly the calls announced and not ended |
| `CurrentIsSafe` | `Spec => []CurrentIsListed` |
| `CallsAreBounded` | `Spec => []WithinMaxCalls` |
| `EndStaysFinal` | `Spec => EndIsFinal` |
| `Refinement` | `Spec => CallsLiveOnce`: `CallControl` implements `CallLife` |
| `WholeInvariance` | `Spec => []IndInv` |
| `ReferencesAreExact` | `Spec => []ReferencesAreCounted` |
| `NothingRetainedIsLost` | `Spec => []NothingRetainedIsFreed`: list, current call and referers never point to freed calls |
| `FriendsAreTold` | `Spec => []FriendsKnow` |
| `TransfersAreStarted` | `Spec => []PausedHasNoPendingTransfer` |
| `DeadDialogsAreReported` | `Spec => []NoCallOnDeadDialog`: a lost dialog always ends its call |
| `AnsweredNeverRings` | `Spec => AnsweredStaysAnswered` |
| `TalkInvariance`, `CoreInvariance` | `Spec => []TalkInv`, `Spec => []CoreInv` |
| `RunningIsHeard` | `Spec => []RunningHasMedia`: StreamsRunning is never said without streams |

The assumption on SRTP is needed: with it the list is not exact, as the run `srtp_refused` shows. No other
feature is excluded: these theorems hold with all of the optional behaviours at once, which no run can enumerate.
The next ones say, beyond that, what the peer or the user is assumed not to do:

| Theorem | Switched off | Statement |
|---|---|---|
| `EndsAreSilent` | `reinvite` | `Spec => []EndedIsSilent`: no streams after the end |
| `AwaitedAcksAreLookedAt` | `reinvite` | `Spec => []AwaitedAckIsPending`: the ACK that brings the peer's SDP is used |
| `DialogsAreHungUp` | `refusal` | `Spec => []NoOrphanDialog`: the peer is not left in the dialog of an ended call |
| `PausesAreAsked` | `reinvite`, `refusal` | `Spec => []PauseIsAsked`: Pausing and Resuming wait for an answer that will come |
| `PausesAreAgreed` | `reinvite`, `update` | `Spec => []PausedIsAgreed`: Paused means that the peer agreed |
| `ToneIsForSomeone` | `ping` or `sendfailure` | `Spec => []RingIsForSomeone`: the ring stream plays for a call that waits |

None of these hypotheses is there for the proof's sake: section 3 says what the code does without, and TLC finds the counterexamples
(the hazard list names the lines). The rest is arbitrary: any number of calls that pause, resume, transfer and
preempt each other, any SDP, any length of queue. Only for `AwaitedAckIsPending` does a run go where its theorem
does not: `release` has one call, re-INVITEs of the peer and no hold.

**The first invariant.** That the list is exact is not inductive. `linphone_call_set_state`
ignores every change of an ended call but Released, and what it is called with depends on
the operation and the context: a call may only be Released through its `op`, `op`
is only lost with the last state, an ended call whose operation is not marked terminated has
a context past its dialog, an incoming call has an incoming context, a call that
waits for its ping has none (`CallInv`); a queued INVITE is for a call that does not exist yet and
is the only one for it, a queued re-INVITE is for a confirmed or closed dialog
(`EventInv`, `QueueInv`). `LifeInv` is `TypeOK`, these, and the list's own three facts (`ListInv`).

**The second invariant.** `IndInv` adds to it what the rest needs.

* `ReferenceInv`: a call that is listed has its operation, and the count of each call is one for itself
  and one for each *listed* call that names it as its referer, so that a call can only be freed when nobody names it.
* `OrderInv`: a dialog that is being set up has only provisional responses in the queue, the peer's INVITE comes before
  all other events of its call, and a ringing response never waits behind a final one. It is what tells a late
  response from one of another time: without it nothing says that the 180 read after the 200 OK does not exist.
* `WaitInv`: the closing or releasing event of a dialog that is gone is still queued while its call is listed *or
  will be*, namely while the INVITE that will list it is queued too; a context that is still calling, or a queued 180, belongs to a call
  of ours that is going out or over; a paused call has no transfer to start.
* `AckInv`: an ACK is awaited only in a dialog.

**The third invariant.** `TalkInv` says of each call, its context and the queue what they expect of each other.

* `StreamInv`: a call that talks (StreamsRunning, or held or updated by the peer) has its streams. `OfferInv`: Connected is only stayed
  in while the peer owes its SDP: `media_pending` is set and the ACK is awaited or queued, before any re-INVITE of the peer.
* `FreshInv`, `RedirectInv`, `DialogInv`: a call that was not answered, or whose operation was not terminated with it, has no dialog and
  nothing of one in the queue; the INVITE of the peer is open only for a call that was not answered. Without them a late ACK or 200 OK would have to be thought of in states where none can come.
* `SilenceInv`, without re-INVITEs of the peer: the only ACK with an SDP is that of the initial INVITE, there is at most one, and it
  finds its call Connected or over.
* `AskedInv`, when the peer refuses no re-INVITE of ours: a dialog that lives has no end in the queue, and if the core has no
  call for it or does not know its id, the 200 OK that makes it known is queued. If the peer sends none either, a pause or a
  resume waits for an answer that will come.
* `AgreedInv`, when neither side updates: at most one offer of ours is open, the answer on its way answers the latest offer, and so a
  hold is not mistaken for agreed. `local` is what the core last wanted, `offer` what eXosip sent, `told` what the peer answered to.

The run `calls` checks `CoreInv`, which is `IndInv /\ TalkInv`, on its instance; `pauses` passes with it too, in more time than a run is given here.
`ToneIsForSomeone` needs one thing more (`Toned`): without pings no call is ever in OutgoingInit.

**The argument.** The handlers are operators on state records, so the first two invariants are restated as
predicates of a record: `Whole(s)` for `LifeInv`, `Counted(s)` for the part of the second one that every operator keeps by itself.

* `CallControlProofs`, first half: a helper may disturb one call `c` and *ease* the others: move
  them within their open or ended state, drop references, never open or end them (`Eased`,
  `Near`, `Eases`). These relations compose; each helper is shown to be in one. Then come the operations that open, end or release a
  call. `Moves` says that
  one step opens, ends or releases at most the one call it names, `Keeps` that it also takes
  a whole record to a whole record.
* Second half: each event handler `Keeps`; then one step lemma per action, `Invariance`, and the consequences.
  `Refinement` follows from `Moves`: the call that moved makes the corresponding step of
  `CallLife`, and the others stutter.
* `CallControlInvariants`: most operators touch neither references nor the list (`Steady`, `Still`), so only those that open, end
  or release a call need a count of the targets before and after it. What an operator does to the calls and contexts is
  a second relation, `Goes`: a call never goes back to ringing, a context never goes back in its life. With it the queue's part of
  the invariant is shown once for all handlers (`HandlerInd`): the event taken was the head, so `OrderInv` says what may come behind it,
  and the steps of eXosip's thread are the only ones that append.
* `CallControlTalk`: an operator that works for one call is shown to *spare* the others (`Spares`): what it may do to them, to pause the current
  one or to drop a reference, keeps `TalkInv` for any queue. For the call itself the record that the operator leaves is compared with the
  invariant. A handler may use that its event was queued before it (`Arrives`) and gives the invariant for the queue without it (`Leaves`).
  Then come eXosip's steps, that change one context and append, and last the tone: most operators let it `Subside`, and
  those that start it leave a call that waits.

### Event queue

`EventQueueProofs` proves, for every size of the buffer (`SizesAssumption`: it is not zero and every event fits)
and under the hypothesis `OneSize`, that all events have one size and the buffer holds a whole number of them:

| Theorem | Statement |
|---|---|
| `QueueInvariance` | `Spec => []QueueInv` |
| `QueueTypes` | `Spec => []TypeOK` |
| `HandedOutIsIntact` | `Spec => []ArgumentIsIntact`: no event is overwritten before its callback has returned |
| `CalledFilterIsAlive` | `Spec => []CallbackFilterIsAlive` |
| `QueueImplementsFifo` | `Spec => DeliversInOrder`: `EventQueue` implements `EventFifo` |

The hypothesis is needed: the room left where the writer wraps around before the limit is not subtracted from
`freeroom`, so with events of several sizes the counter says less than it seems to, and the queue fails (section 6).
The run `events` has events of one size too.

**The invariant.** Both threads use `freeroom` with the mutex and the pointers without. `QueueInv` says what the
counter means: the buffer is `Places` places of `Unit` cells, `rptr` and `wptr` are at places `r` and
`w`, `freeroom` is `Unit` times the places without an event that waits or is handed out (`RoomInv`), `w` is as many
places behind `r` as there are events between them, including the one that is copied and not committed (`PointerInv`), each of those
places is filled with the event that the reader will look for there (`ContentInv`), and all of them come from
the filter of the stream that runs (`AliveInv`).

**The argument.** Each thread's step disturbs one end: a first group of lemmas is the arithmetic of places
(cells of two places differ, the pointers wrap around after the last place and only there), then there is one lemma per
step. `Copy` fills a place that no event occupies, as the room was found before; `Read` finds the head of `pending`;
`StopStream` discards all. A step of the FIFO is then read off the step's definition, and `Len(pending) < Size` off `RoomInv`.

### Transactions

`SipTransactionProofs` proves, under `BoundsAssumption` (any number of retransmissions and of faults, fifos of
any length):

| Theorem | Statement |
|---|---|
| `TransactionInvariance` | `Spec => []Inv` |
| `ExchangeIsImplemented` | `Spec => Implements`: `SipTransaction` implements `Exchange` |
| `TransactionTypes` | `Spec => []TypeOK`: no timer repeats more often than it may, no fifo is longer than its bound |

**The invariant.** That the callee hears of a request once although the network repeats it depends on what timers
H, I and J promise: `EndInv` says that a server transaction that has ended leaves no copy of the request in the network or
to be sent by the client, unless its end was a failure of the transport or of the exchange (`broke`), and that these timers are only queued when this is so.
`HeardInv` relates the server's state to what was heard; `AnswerInv` says that the callee has answered only
if the answer waits in the fifo, has been sent or the exchange was given up, so that it answers once; `NetInv`, `ClientInv` and `ServerTypes` say
that no answer is in transit, queued or kept that was not given, that the client transaction has told nothing until it has an answer or has
ended, and that `uas` waits for an ACK only of a 2xx that was given.

**The argument.** Each action is shown to keep `Inv` and to be, for the abstract variables, one of three things: an `Outcome`
(the caller is told, or not), a `Hearing` (the callee hears of the request, or gives the exchange up) or an
`Answering`. These are steps of `Exchange`.

The bounds of `TypeOK` need an invariant of their own (`TInv`): that a count does not pass its limit depends on what
waits in the fifo. `Paced` says that at most one timer event of a transaction waits at a time, and that a repeating
one is only queued while a repetition is left; every step takes an event off a fifo, puts one on it, or starts the fifo anew (`Goes`),
which keeps it.

### Registration

`RegistrationProofs` proves, under `BoundsAssumption` (the bounds are natural numbers, so for any number of
operations, faults and user actions) and `SettingsAssumption` (the configured expiry is not
zero, and the registrar asks for no password or for number 1):

| Theorem | Statement |
|---|---|
| `RegistrationInvariance` | `Spec => []IInv` |
| `RegistrationTypes` | `Spec => []TypeOK`: in particular `r_retry` and `usecount` stay within 0..3 |
| `OneRegistrationHolds` | `Spec => []OneRegistration`: eXosip lists no context but that of the current operation |
| `RegistrationIsServed` | `Spec => []RInv` |
| `OkIsAlwaysRefreshed` | `Spec => []OkIsRefreshed` |
| `ClearedIsReallyUnbound` | `Spec => ClearedIsUnbound` |

**The invariant.** That only `op.rid` is listed is not inductive: an operation that is
pending is sent again when credentials arrive (`sal_op_authenticate`), and one without a
context would then use one that does not exist. `IInv` is the types (`RestOK`, `UA`), the
listing, and that a pending operation has a context (`Sound`). `RInv` follows the context of the operation through its
requests: while nobody changes the proxy it is listed with a period (`Refreshed`), the contact that the registrar holds for it is the one
its next request carries, so that a 2xx to a period of zero leaves no binding (`Served`), and the last event queued for a context
whose request is over tells of that request (`LastTold`), which is what makes Cleared the answer to the unREGISTER
and not to an older REGISTER.

**The argument.** The functions of the core and of eXosip take a record of the proxy, the
operation, the credentials and the contexts to another one. A context that changes without being listed
anew keeps the record sound (`ContextIsSound`); each operator is then shown to keep a
sound record and its operation (`Keeps`), in the order of the calls, and each action takes
`IInv` to `IInv'`. Only `sal_register` lists a context, and only after
`sal_op_release` has removed the previous one from the list. For `RInv`, an operator moves the own context `Along` (its binding stays the
one its requests carry, only a handler of an event may say Cleared), and most also `Onward` (eXosip still refreshes it).

### Reception of RTP

`RtpReceiveProofs` proves, under `ModuliAssumption` and `SenderAssumption` (the numbers have an even modulus, a jump is less
than half of it; any queue, window, jumps, number of faults and restarts):

| Theorem | Hypothesis | Statement |
|---|---|---|
| `ReceptionTypes` | | `Spec => []TypeOK`: the queue keeps its bound and holds packets of one source |
| `ReceptionInvariance` | `HalfTurn` | `Spec => []RInv` |
| `DecoderGoesForward` | `HalfTurn` | `Spec => PlaysForward` |
| `RestartIsHeard` | `HalfTurn` | `Spec => []NeverDeaf` |

`HalfTurn` says that the sender sends fewer packets than half a turn of the sequence numbers and of the timestamps. The numbers
still wrap, as a source begins anywhere. Beyond it the comparisons of rtp.h and rtpsession.c
no longer tell the order of two packets that are half a turn apart, and the queue, which bounds how many packets wait but not how old they
are, may hold two such packets when the decoder asks for none in between. The configuration `MCRtp` satisfies it (6 packets, 16 numbers).

**The invariant.** The session sees remainders; the properties speak of the sender's clock. `Kin` relates any two packets sent: of one source, their
sequence numbers differ by as many as were sent between them, and of one timeline, their timestamps by the time between, modulo the turn (`KnownInv`, of
all packets in transit, queued, given or counted). `PlayInv` says that the queue is in the order of sending, that what was given last is what
`rcv_last_ts` says, and that nothing of its timeline that waits is before it. `DeafInv` says that the sender who is refused is behind
`rcv_last_ts` by no more than a jump, and that each unit of time refused has brought it one nearer: what was refused and what is left add up to the limit.

**The argument.** `rtp_putq` and both `rtp_getq` are characterised first: the place found by the walk back, which packet is chosen
and that what is left stays sorted (the least and the greatest member of a set of numbers are found by well-founded induction on the naturals).
Under `HalfTurn` the comparisons agree with the order of sending. Then there is one lemma for each way in which a packet is taken: old, a jump forward, a jump back,
another source, or queued.

The proof also corrected the model. `NeverDeaf` used to count what was refused since the last resynchronisation and to bound it by the jump
limit and the length of the queue; TLC finds that false for a limit of 3 and a queue of 1, as each packet given meanwhile, still queued from before the restart, moves
`rcv_last_ts` on. It now counts since a packet was last given, and the bound is the limit itself.

### Rate control

`RateControlProofs` proves, under `ConstantsAssumption` (a set of modes has a highest and a lowest one, the
maximal ptime is one of the multiples of 20 up to 100; any losses, delays and interval):

| Theorem | Statement |
|---|---|
| `RateInvariance` | `Spec => []Inv` |
| `RateTypes` | `Spec => []TypeOK` |
| `RaiseIsEarned` | `Spec => []RaiseNeedsCalm` |
| `TroubleRelieves` | `Spec => TroubleNeverRaises` |

**The invariant.** `CountInv` relates the counters to the state: Init has counted nothing, in Stable the
count is below the interval and no greater than the calm time, ProbingUp comes only after a whole interval of it. `RateInv` is the
types of the rates, and that the driver of an encoder without rate believes in none.

**The argument.** Every step does nothing, does what the analyser suggests, or raises the quality when nothing is wrong
(`OneAction`). The rest is about what an action makes the encoder send. A mode that fits a rate sends no more than the rate, a lower mode sends
less, and so does a longer ptime; the last needs that the headers saved outweigh the rounding of the payload to whole
octets, and is shown for each of the five ptimes. So it does not matter whether the encoder finds a mode below the
reduced rate, or has to take its lowest.

### Only model-checked

* Liveness: `EndedIsReleased`, `EveryRequestEnds`, `AnswerIsSettled`, `CallsAgree`, `ProgressEnds`, `CongestionIsRelieved`, `CalmRestores`.
  Fairness and ENABLED are out of the prover's reach.
* `AwaitedAckIsPending` together with re-INVITEs of the peer (run `release`), and the other five properties of the calls
  beyond the hypotheses of their theorems: there they are not checked, as they are false.
* Every run with SRTP, under which the list is not exact, and `LossIsReal` of `RtpReport`, which is false.
* Reception of RTP beyond `HalfTurn`.

## 6. Where code and documentation disagree

Two runs are expected to be violated, and TLC prints the trace:

1. `srtp_refused`: linphonecore.h:325 says a Released call is no more retained by the core.
   `call_failure` returns early for an SRTP call refused with 415 or 488 that has rung already
   (no second INVITE is sent), so the call stays in `lc->calls`, is released with its
   eXosip context and freed while the list points to it.
2. `rtp_loss`: rtcp.h:99 describes a report block's loss as the number of packets lost. The extended sequence number is the
   last number and a count of wraps (rtpparse.c:181). A packet of before the wrap that arrives after
   one of behind it is the greater number, takes the last number back up, and the wrap is counted
   twice: the next report announces 65536 packets as lost (13 in the instance), none being lost.

Others were seen with TLC while modelling, on instances of the same modules; they are in the hazard list, and
the passing properties are stated around them.

* linphonecall.c:710 promises that a pending transfer is executed when the call is paused *or closed*; the code
  executes it only on reaching Paused.
* linphonecore.h:316 says Paused means that the remote end has accepted the pause. A pause during an unanswered update only
  warns that its re-INVITE could not be sent, and the answer to the update is taken for agreement.
* linphonecore.h:314 says StreamsRunning means running streams. A peer that holds us and then sends `a=inactive` moves the call
  to StreamsRunning with none: `sal_media_description_has_dir(md, RecvOnly)` holds of an inactive stream.
* mseventqueue.h:46 says that `ms_event_queue_pump` runs the callbacks of the events received. With events of two sizes, the
  writer can wrap around before the limit and move `endptr` back to where the reader already is; the reader goes on behind it and
  takes a filter pointer from memory that holds no event.
* bitratecontrol.c:106 says that the maximum is reached when the driver has nothing left to raise. The audio driver takes the encoder for
  nominal after one raise of 20 % (bitratedriver.c:127), so that a rate reduced several times stays reduced however long the network is good.
* The video driver raises from `cur_bitrate`, which is 0 as long as it never decreased the rate (bitratedriver.c:186): after losses without jitter
  and a calm time the encoder is set to 0 bits per second, and stays there.
* qosanalyzer.c:27 says that `ms_qos_analyser_process_rtcp` returns TRUE if relevant information was found; it does so for a report
  on any source.
* authentication.c:270 says that a new password retries pending operations; after three challenges `r_retry` silently forbids it.

## 7. Not modelled

Within call control: conferences, Replaces in `linphone_core_accept_call`, video, call logs, DTMF,
authentication retries of an INVITE, NOTIFYs of a transfer, transfers we request, sound devices, the
one-second statistics. SDP is reduced to one audio stream's direction: codec matching and
crypto keys are not. The contexts of `CallControl` abstract osip: transactions below them are reliable there
(a response arrives once or the transaction times out), which is what `Exchange` promises and
`SipTransaction` is shown to keep. Forking (several
dialogs for one INVITE), PRACK, UPDATE, INFO and subscriptions are left out. A message that cannot be
built for lack of memory is not considered.

Within the event queue: several tickers posting at once (nothing protects `wptr` from the second:
see the hazards), a callback that stops its own stream and thereby resets the queue under
`read_event`, notifications without a queue, and memory ordering: a step of a thread is seen at once by the other.

Within transactions: TCP, DNS, two requests of one dialog at a time, malformed messages. Within registration: several
proxies sharing a password, the plug-ins of `sipsetup.c`, routes. Within RTP: the averages of the jitter control (hence
the delay), telephone events, STUN, a change of payload type, SRTP, sending. A duplicate of the packet
delivered last is delivered again: `PlaysForward` allows equal times. Within the rate control: the quality
indicators (floating point), other reports than the first block, a video encoder without
bitrate, and the sizes and frame rates a video encoder derives from its rate.

Other components: presence subscriptions, conferences and the rest of the media engine are planned (section 8). Signal processing, codecs, devices, parsing,
configuration and the user interfaces keep no concurrent state worth a model; ICE is not
used by the calls of this version; vendored SDK and codec trees are third-party code, and make up
most of the lines of `src/`.

## 8. Plan

Done: the core (`OfferAnswer`, `ExosipCall`, `CallControl`, `CallLife`, runs and proofs), the event queue, the
transactions with their abstract exchange, the registration, the reception of RTP and the rate control, each with proofs. Left, in this order:

1. Several writers of the event queue, and a callback that stops its stream.
2. The authentication retry of an INVITE in `CallControl`.
3. `Conference` and Replaces on top of `CallControl`.
4. Friend subscriptions; full offer/answer with codecs and several streams as operators
   against a reference definition.
