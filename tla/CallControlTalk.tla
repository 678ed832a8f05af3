-------------------------- MODULE CallControlTalk --------------------------
(***************************************************************************)
(* The theorems about CallControl that are about what the two ends agree   *)
(* on: streams, dialogs, holds, and the tone.                              *)
(*                                                                         *)
(* They rest on TalkInv, which says for one call, its context and the      *)
(* queue what each of them expects of the other two.  Every operator is    *)
(* shown to "spare" all calls but the one it is for, whatever the queue:   *)
(* the little it may do to them (a pause, a reference less) keeps TalkInv. *)
(* For the call itself, the record that the operator leaves is compared    *)
(* with the invariant; the handler of an event may use that the event was  *)
(* still queued before it ("Arrives").                                     *)
(***************************************************************************)
EXTENDS CallControlInvariants

\* What the invariant says of the call d, with q for the queue.
Fine(s, q, d) == TalkOf(s.call[d], s.ctx[d], q, d)

\* The record of a call is the same but for its references and its SalOp.
Alike(k, l) ==
  /\ l.state = k.state /\ (l.op => k.op) /\ l.terminated = k.terminated
  /\ l.did = k.did /\ l.media = k.media /\ l.local = k.local /\ l.remote = k.remote
  /\ l.result = k.result /\ l.desc = k.desc /\ l.media_pending = k.media_pending

\* Whatever the step does to c, the invariant is kept for all other calls.
Spares(s, t, c) ==
  /\ t \in States
  /\ \A q : \A d \in Calls : d # c /\ Fine(s, q, d) => Fine(t, q, d)

\* No other call than c is touched at all.
Touches(s, t, c) ==
  /\ t \in States
  /\ \A d \in Calls : d # c => t.call[d] = s.call[d] /\ t.ctx[d] = s.ctx[d]

-----------------------------------------------------------------------------
LEMMA AlikeTalk ==
  ASSUME NEW k, NEW l, Alike(k, l), NEW x, NEW q, NEW c, TalkOf(k, x, q, c)
  PROVE  TalkOf(l, x, q, c)
<1>1. StreamInv(l) BY DEF Alike, TalkOf, StreamInv
<1>2. OfferInv(l, x, q, c) BY DEF Alike, TalkOf, OfferInv
<1>3. FreshInv(l, x, q, c) BY DEF Alike, TalkOf, FreshInv
<1>4. RedirectInv(l, x, q, c) BY DEF Alike, TalkOf, RedirectInv
<1>5. SilenceInv(l, x, q, c) BY DEF Alike, TalkOf, SilenceInv
<1>6. AskedInv(l, x, q, c) BY DEF Alike, TalkOf, AskedInv
<1>7. AgreedInv(l, x, q, c) BY DEF Alike, TalkOf, AgreedInv
<1> QED BY <1>1, <1>2, <1>3, <1>4, <1>5, <1>6, <1>7 DEF TalkOf

LEMMA SparesTwice ==
  ASSUME NEW s, NEW t, NEW u, NEW c, Spares(s, t, c), Spares(t, u, c)
  PROVE  Spares(s, u, c)
  BY DEF Spares

LEMMA SparesAll ==
  ASSUME NEW s, NEW t, Spares(s, t, NoCall)
  PROVE  /\ t \in States
         /\ \A q : \A d \in Calls : Fine(s, q, d) => Fine(t, q, d)
         /\ \A c : Spares(s, t, c)
  BY NoCallIsNone DEF Spares

LEMMA SparesOne ==
  ASSUME NEW s, NEW t, NEW c \in Calls, Spares(s, t, c),
         \A q : Fine(s, q, c) => Fine(t, q, c)
  PROVE  Spares(s, t, NoCall)
  BY DEF Spares

LEMMA TouchesSpares ==
  ASSUME NEW s, NEW t, NEW c, Touches(s, t, c)
  PROVE  Spares(s, t, c)
  BY DEF Touches, Spares, Fine

LEMMA TouchesTwice ==
  ASSUME NEW s, NEW t, NEW u, NEW c, Touches(s, t, c), Touches(t, u, c)
  PROVE  Touches(s, u, c)
  BY DEF Touches

\* Neither the calls nor the contexts change.
LEMMA SameTouches ==
  ASSUME NEW s, NEW t \in States, t.call = s.call, t.ctx = s.ctx
  PROVE  \A c : Touches(s, t, c) /\ Spares(s, t, c)
  BY TouchesSpares DEF Touches

LEMMA StoreTouches ==
  ASSUME NEW s \in States, NEW c \in Calls, NEW k \in CallRecords
  PROVE  /\ Touches(s, Store(s, c, k), c)
         /\ Store(s, c, k).call[c] = k /\ Store(s, c, k).ctx = s.ctx
         /\ Store(s, c, k).calls = s.calls /\ Store(s, c, k).current = s.current
         /\ Store(s, c, k).ring = s.ring
<1>1. Store(s, c, k).ring = s.ring BY DEF Store, States
<1> QED BY <1>1, StoreTyped DEF Touches

LEMMA SignalTouches ==
  ASSUME NEW s \in States, NEW c \in Calls, NEW x \in Contexts
  PROVE  /\ Touches(s, Signal(s, c, x), c)
         /\ Signal(s, c, x).ctx[c] = x /\ Signal(s, c, x).call = s.call
         /\ Signal(s, c, x).calls = s.calls /\ Signal(s, c, x).current = s.current
         /\ Signal(s, c, x).ring = s.ring
<1>1. Signal(s, c, x).ring = s.ring BY DEF Signal, States
<1> QED BY <1>1, SignalTyped DEF Touches

LEMMA CurrentTouches ==
  ASSUME NEW s \in States, NEW n \in Calls \cup {NoCall}
  PROVE  LET t == [s EXCEPT !.current = n] IN
         /\ t \in States /\ t.call = s.call /\ t.ctx = s.ctx /\ t.calls = s.calls
         /\ t.current = n /\ t.ring = s.ring
         /\ \A c : Touches(s, t, c) /\ Spares(s, t, c)
<1> DEFINE t == [s EXCEPT !.current = n]
<1>1. /\ t \in States /\ t.call = s.call /\ t.ctx = s.ctx /\ t.calls = s.calls
      /\ t.current = n /\ t.ring = s.ring
  BY DEF States
<1> HIDE DEF t
<1>2. \A c : Touches(s, t, c) /\ Spares(s, t, c) BY <1>1, SameTouches
<1> QED BY <1>1, <1>2 DEF t

LEMMA RingTouches ==
  ASSUME NEW s \in States, NEW b \in BOOLEAN
  PROVE  LET t == [s EXCEPT !.ring = b] IN
         /\ t \in States /\ t.call = s.call /\ t.ctx = s.ctx /\ t.calls = s.calls
         /\ t.current = s.current /\ t.ring = b
         /\ \A c : Touches(s, t, c) /\ Spares(s, t, c)
<1> DEFINE t == [s EXCEPT !.ring = b]
<1>1. /\ t \in States /\ t.call = s.call /\ t.ctx = s.ctx /\ t.calls = s.calls
      /\ t.current = s.current /\ t.ring = b
  BY DEF States
<1> HIDE DEF t
<1>2. \A c : Touches(s, t, c) /\ Spares(s, t, c) BY <1>1, SameTouches
<1> QED BY <1>1, <1>2 DEF t

LEMMA QuietTouches ==
  ASSUME NEW s \in States
  PROVE  /\ Quiet(s) \in States /\ Quiet(s).call = s.call /\ Quiet(s).ctx = s.ctx
         /\ Quiet(s).calls = s.calls /\ Quiet(s).current = s.current /\ Quiet(s).ring = FALSE
         /\ \A c : Touches(s, Quiet(s), c) /\ Spares(s, Quiet(s), c)
  BY RingTouches DEF Quiet

-----------------------------------------------------------------------------
LEMMA StopMediaTouches ==
  ASSUME NEW s \in States, NEW c \in Calls
  PROVE  LET t == linphone_call_stop_media_streams(s, c) IN
         /\ Touches(s, t, c) /\ t.ctx = s.ctx
         /\ t.call[c] = [s.call[c] EXCEPT !.media = "none"]
         /\ t.calls = s.calls /\ t.current = s.current /\ t.ring = s.ring
<1> DEFINE k == [s.call[c] EXCEPT !.media = "none"]
<1>1. s.call[c] \in CallRecords BY StateFields
<1>2. k \in CallRecords BY <1>1 DEF CallRecords
<1> HIDE DEF k
<1> QED BY <1>2, StoreTouches DEF linphone_call_stop_media_streams, k

LEMMA UpdateStreamsTouches ==
  ASSUME NEW s \in States, NEW c \in Calls, NEW md \in Descriptions
  PROVE  LET t == linphone_core_update_streams(s, c, md) IN
         /\ Touches(s, t, c) /\ t.ctx = s.ctx
         /\ t.call[c] = WithStreams(s.call[c], md)
         /\ WithStreams(s.call[c], md) \in CallRecords
         /\ t.calls = s.calls /\ t.current = s.current /\ t.ring = FALSE
<1> DEFINE k == WithStreams(s.call[c], md)
           u == Store(s, c, k)
<1>1. s.call[c] \in CallRecords BY StateFields
<1>2. k \in CallRecords
  BY <1>1 DEF CallRecords, WithStreams, linphone_call_start_media_streams
<1> HIDE DEF k
<1>3. /\ Touches(s, u, c) /\ u \in States /\ u.call[c] = k /\ u.ctx = s.ctx
      /\ u.calls = s.calls /\ u.current = s.current
  BY <1>2, StoreTouches DEF Touches
<1> HIDE DEF u
<1>4. Touches(s, Quiet(u), c) BY <1>3, QuietTouches, TouchesTwice
<1>5. linphone_core_update_streams(s, c, md) = Quiet(u) BY DEF linphone_core_update_streams, u, k
<1>6. /\ Quiet(u).call = u.call /\ Quiet(u).ctx = u.ctx /\ Quiet(u).calls = u.calls
      /\ Quiet(u).current = u.current /\ Quiet(u).ring = FALSE
  BY <1>3, QuietTouches
<1> QED BY <1>2, <1>3, <1>4, <1>5, <1>6 DEF k

\* The result, once it is asked for.
Final(k) ==
  IF k.result = "None" /\ k.remote # "None"
  THEN [k EXCEPT !.result = offer_answer_initiate_incoming(k.local, k.remote)] ELSE k

LEMMA FinalDescriptionTouches ==
  ASSUME NEW s \in States, NEW c \in Calls
  PROVE  LET t == sal_call_get_final_media_description(s, c) IN
         /\ Touches(s, t, c) /\ t.ctx = s.ctx /\ t.call[c] = Final(s.call[c])
         /\ t.calls = s.calls /\ t.current = s.current /\ t.ring = s.ring
<1> DEFINE md == offer_answer_initiate_incoming(s.call[c].local, s.call[c].remote)
           k == [s.call[c] EXCEPT !.result = md]
<1>1. s.call[c] \in CallRecords BY StateFields
<1>2. md \in Descriptions BY <1>1, AnswerTyped DEF CallRecords
<1>3. /\ sal_call_get_final_media_description(s, c) =
           IF s.call[c].result = "None" /\ s.call[c].remote # "None" THEN Store(s, c, k) ELSE s
      /\ Final(s.call[c]) =
           IF s.call[c].result = "None" /\ s.call[c].remote # "None" THEN k ELSE s.call[c]
  BY DEF sal_call_get_final_media_description, Final
<1> HIDE DEF md
<1>4. k \in CallRecords BY <1>1, <1>2 DEF CallRecords
<1> HIDE DEF k
<1>5. Touches(s, s, c) BY DEF Touches
<1> QED BY <1>3, <1>4, <1>5, StoreTouches

\* What is to be known of a final description.
LEMMA FinalRecord ==
  ASSUME NEW k \in CallRecords
  PROVE  /\ Final(k) \in CallRecords
         /\ Final(k).state = k.state /\ Final(k).op = k.op /\ Final(k).terminated = k.terminated
         /\ Final(k).did = k.did /\ Final(k).media = k.media /\ Final(k).local = k.local
         /\ Final(k).remote = k.remote /\ Final(k).desc = k.desc
         /\ Final(k).media_pending = k.media_pending
         /\ Final(k).result = "None" <=> k.result = "None" /\ k.remote = "None"
         /\ k.result # "None" => Final(k).result = k.result
         /\ k.result = "None" /\ k.remote # "Empty" => Final(k).result # "Empty"
         /\ Final(Final(k)) = Final(k)
<1> DEFINE md == offer_answer_initiate_incoming(k.local, k.remote)
<1>1. md \in Descriptions BY AnswerTyped DEF CallRecords
<1>2. /\ k.remote # "None" => md # "None"
      /\ k.remote # "Empty" => md # "Empty"
  BY DEF offer_answer_initiate_incoming, compute_dir_incoming, CanSend, CanReceive,
         CallRecords, Dirs, Descriptions
<1>3. Final(k) = IF k.result = "None" /\ k.remote # "None" THEN [k EXCEPT !.result = md] ELSE k
  BY DEF Final
<1> HIDE DEF md
<1>4. \A l : l.result # "None" \/ l.remote = "None" => Final(l) = l BY DEF Final
<1>5. CASE k.result = "None" /\ k.remote # "None"
  <2>1. Final(k) = [k EXCEPT !.result = md] BY <1>3, <1>5
  <2>2. /\ Final(k) \in CallRecords /\ Final(k).result = md
        /\ Final(k).state = k.state /\ Final(k).op = k.op /\ Final(k).terminated = k.terminated
        /\ Final(k).did = k.did /\ Final(k).media = k.media /\ Final(k).local = k.local
        /\ Final(k).remote = k.remote /\ Final(k).desc = k.desc
        /\ Final(k).media_pending = k.media_pending
    BY <1>1, <2>1 DEF CallRecords
  <2> QED BY <1>2, <1>4, <1>5, <2>2
<1>6. CASE ~(k.result = "None" /\ k.remote # "None") BY <1>3, <1>4, <1>6
<1> QED BY <1>5, <1>6

LEMMA SetLocalTouches ==
  ASSUME NEW s \in States, NEW c \in Calls, NEW dir \in Dirs
  PROVE  LET t == SetLocal(s, c, dir) IN
         /\ Touches(s, t, c) /\ t.ctx = s.ctx
         /\ t.call[c] = [s.call[c] EXCEPT !.local = dir]
         /\ t.calls = s.calls /\ t.current = s.current /\ t.ring = s.ring
<1> DEFINE k == [s.call[c] EXCEPT !.local = dir]
<1>1. s.call[c] \in CallRecords BY StateFields
<1>2. k \in CallRecords BY <1>1 DEF CallRecords
<1> HIDE DEF k
<1> QED BY <1>2, StoreTouches DEF SetLocal, k

\* The context once a re-INVITE is asked for.
Asked(x, local) == IF CanReinvite(x) THEN eXosip_call_send_request(x, local) ELSE x

LEMMA CallUpdateTouches ==
  ASSUME NEW s \in States, NEW c \in Calls
  PROVE  LET t == sal_call_update(s, c) IN
         /\ Touches(s, t, c) /\ t.call = s.call
         /\ t.ctx[c] = Asked(s.ctx[c], s.call[c].local)
         /\ t.calls = s.calls /\ t.current = s.current /\ t.ring = s.ring
<1> DEFINE x == eXosip_call_send_request(s.ctx[c], s.call[c].local)
<1>1. s.call[c].local \in Dirs /\ s.ctx[c] \in Contexts BY StateFields DEF CallRecords
<1>2. x \in Contexts BY <1>1, OfferingContext DEF Descriptions
<1> HIDE DEF x
<1>3. Touches(s, s, c) BY DEF Touches
<1>4. /\ sal_call_update(s, c) = IF CanReinvite(s.ctx[c]) THEN Signal(s, c, x) ELSE s
      /\ Asked(s.ctx[c], s.call[c].local) = IF CanReinvite(s.ctx[c]) THEN x ELSE s.ctx[c]
  BY DEF sal_call_update, x, Asked
<1> QED BY <1>2, <1>3, <1>4, SignalTouches

\* What a context says that was asked for a re-INVITE.
LEMMA AskedContextIs ==
  ASSUME NEW x \in Contexts, NEW dir \in Dirs
  PROVE  LET y == Asked(x, dir) IN
         /\ y \in Contexts /\ y.stage = x.stage /\ y.ack = x.ack /\ y.told = x.told
         /\ CanReinvite(x) => y.re = "out" /\ y.offer = dir
         /\ ~CanReinvite(x) => y = x
  BY DEF Asked, CanReinvite, eXosip_call_send_request, Contexts

LEMMA SetStateTouches ==
  ASSUME NEW s \in States, NEW c \in Calls, NEW cstate \in Live
  PROVE  LET t == linphone_call_set_state(s, c, cstate) IN
         /\ Touches(s, t, c) /\ t.ctx = s.ctx
         /\ s.call[c].state \notin Ended => t.call[c] = [s.call[c] EXCEPT !.state = cstate]
         /\ s.call[c].state \in Ended => t = s
         /\ t.calls = s.calls /\ t.current = s.current /\ t.ring = s.ring
<1> DEFINE k == [s.call[c] EXCEPT !.state = cstate]
           t == linphone_call_set_state(s, c, cstate)
<1>1. s.call[c] \in CallRecords BY StateFields
<1>2. cstate \in CallStates /\ cstate \notin Ended /\ cstate # "Released"
  BY DEF CallStates, Live, Ended, Outgoing, Incoming
<1>3. k \in CallRecords BY <1>1, <1>2 DEF CallRecords
<1>4. s.call[c].state = cstate => k = s.call[c] BY <1>1 DEF CallRecords
<1>5. t = IF s.call[c].state = cstate \/ s.call[c].state \in Ended THEN s ELSE Store(s, c, k)
  BY <1>2 DEF linphone_call_set_state
<1> HIDE DEF k, t
<1>6. Touches(s, s, c) BY DEF Touches
<1>7. CASE s.call[c].state = cstate \/ s.call[c].state \in Ended
  BY <1>2, <1>4, <1>5, <1>6, <1>7 DEF k, t
<1>8. CASE ~(s.call[c].state = cstate \/ s.call[c].state \in Ended)
  BY <1>3, <1>5, <1>8, StoreTouches DEF k, t
<1> QED BY <1>7, <1>8

-----------------------------------------------------------------------------
\* A call that talked is paused: its re-INVITE goes out if there is a dialog.
LEMMA PausedTalk ==
  ASSUME NEW k \in CallRecords, NEW x \in Contexts, NEW q, NEW c, TalkOf(k, x, q, c),
         k.state \in {"StreamsRunning", "PausedByRemote"},
         NEW l \in CallRecords, l.state = "Pausing", l.local = "SendOnly", l.did = k.did,
         NEW y, y = Asked(x, "SendOnly")
  PROVE  TalkOf(l, y, q, c)
<1> USE DEF Outgoing, Incoming, Live, Ended, Over
<1>1. /\ y.stage = x.stage /\ y.ack = x.ack /\ y.told = x.told
      /\ CanReinvite(x) => y.re = "out" /\ y.offer = "SendOnly"
      /\ ~CanReinvite(x) => y = x
  BY AskedContextIs DEF Dirs
<1>2. StreamInv(l) BY DEF StreamInv, Talking
<1>3. OfferInv(l, y, q, c) BY DEF OfferInv
<1>4. FreshInv(l, y, q, c) BY <1>1 DEF TalkOf, FreshInv
<1>5. RedirectInv(l, y, q, c) BY DEF RedirectInv
<1>6. DialogInv(y) BY <1>1 DEF TalkOf, DialogInv, CanReinvite
<1>7. SilenceInv(l, y, q, c) BY <1>1 DEF TalkOf, SilenceInv
<1>8. AskedInv(l, y, q, c)
  <2>1. "reinvite" \notin Features /\ x.stage = "conf" => y.re = "out"
    BY <1>1 DEF TalkOf, SilenceInv, CanReinvite, Contexts
  <2> QED BY <1>1, <2>1 DEF TalkOf, AskedInv
<1>9. AgreedInv(l, y, q, c)
  BY <1>1 DEF TalkOf, AgreedInv, CanReinvite
<1> QED BY <1>2, <1>3, <1>4, <1>5, <1>6, <1>7, <1>8, <1>9 DEF TalkOf

\* The context as it was, or with a re-INVITE of ours.
Reoffers(x, y) ==
  /\ y.stage = x.stage /\ y.ack = x.ack
  /\ y.re = x.re \/ (y.re = "out" /\ x.stage = "conf")

LEMMA AskedReoffers ==
  ASSUME NEW x \in Contexts, NEW dir \in Dirs
  PROVE  Reoffers(x, Asked(x, dir))
  BY AskedContextIs DEF Reoffers, CanReinvite

\* Held(c): what pausing leaves of a call, if it is paused at all.
Pauses(s, t, c) ==
  /\ \A d \in Calls : Reoffers(s.ctx[d], t.ctx[d])
  /\ t.calls = s.calls /\ t.ring = s.ring /\ t.current \in {s.current, NoCall}
  /\ \A d \in Calls : d # c \/ s.call[d].state \notin {"StreamsRunning", "PausedByRemote"} =>
       t.call[d] = s.call[d] /\ t.ctx[d] = s.ctx[d]
  /\ \A d \in Calls :
       /\ t.call[d].state \in {s.call[d].state, "Pausing"}
       /\ t.call[d].media \in {s.call[d].media, "none"}
       /\ t.call[d].terminated = s.call[d].terminated /\ t.call[d].op = s.call[d].op
       /\ t.call[d].did = s.call[d].did /\ t.ctx[d].stage = s.ctx[d].stage

LEMMA PauseSpares ==
  ASSUME NEW s \in States, NEW c \in Calls
  PROVE  LET t == linphone_core_pause_call(s, c) IN
         Spares(s, t, NoCall) /\ Pauses(s, t, c)
<1> DEFINE local == SetLocal(s, c, "SendOnly")
           asked == sal_call_update(local, c)
           alone == [asked EXCEPT !.current = NoCall]
           paused == linphone_call_set_state(alone, c, "Pausing")
           t == linphone_call_stop_media_streams(paused, c)
           k == s.call[c]
           k1 == [k EXCEPT !.local = "SendOnly"]
           k2 == [k1 EXCEPT !.state = "Pausing"]
           k3 == [k2 EXCEPT !.media = "none"]
           y == Asked(s.ctx[c], "SendOnly")
<1>0. Spares(s, s, NoCall) /\ Pauses(s, s, c) BY DEF Spares, Pauses, Reoffers
<1>1. CASE k.state \in {"StreamsRunning", "PausedByRemote"}
  <2>0. k \in CallRecords /\ s.ctx[c] \in Contexts BY StateFields
  <2>1. /\ k1 \in CallRecords /\ k1.state = k.state /\ k1.local = "SendOnly"
        /\ k2 \in CallRecords /\ k3 \in CallRecords
        /\ k3.state = "Pausing" /\ k3.local = "SendOnly" /\ k3.media = "none"
        /\ k3.did = k.did /\ k3.terminated = k.terminated /\ k3.op = k.op
    BY <2>0 DEF CallRecords, Dirs, CallStates, Live
  <2>2. /\ Touches(s, local, c) /\ local \in States /\ local.call[c] = k1 /\ local.ctx = s.ctx
        /\ local.calls = s.calls /\ local.ring = s.ring
    BY SetLocalTouches DEF Dirs, Touches
  <2> HIDE DEF local, k1
  <2>3. /\ Touches(s, asked, c) /\ asked \in States /\ asked.call[c] = k1 /\ asked.ctx[c] = y
        /\ asked.calls = s.calls /\ asked.ring = s.ring
    BY <2>1, <2>2, CallUpdateTouches, TouchesTwice DEF Touches
  <2> HIDE DEF asked, y
  <2>4. /\ Touches(s, alone, c) /\ alone \in States /\ alone.call[c] = k1 /\ alone.ctx[c] = y
        /\ alone.calls = s.calls /\ alone.ring = s.ring /\ alone.current = NoCall
    BY <2>3, CurrentTouches, TouchesTwice
  <2> HIDE DEF alone
  <2>5. k1.state \notin Ended /\ "Pausing" \in Live BY <1>1, <2>1 DEF Ended, Live
  <2>6. /\ Touches(s, paused, c) /\ paused \in States /\ paused.call[c] = k2 /\ paused.ctx[c] = y
        /\ paused.calls = s.calls /\ paused.ring = s.ring /\ paused.current = NoCall
    BY <2>4, <2>5, SetStateTouches, TouchesTwice DEF Touches
  <2> HIDE DEF paused, k2
  <2>7. /\ Touches(s, t, c) /\ t \in States /\ t.call[c] = k3 /\ t.ctx[c] = y
        /\ t.calls = s.calls /\ t.ring = s.ring /\ t.current = NoCall
    BY <2>6, StopMediaTouches, TouchesTwice DEF Touches
  <2>8. linphone_core_pause_call(s, c) \in {s, t}
    BY DEF linphone_core_pause_call, local, asked, alone, paused
  <2> HIDE DEF t, k3, k
  <2>9. \A q : TalkOf(k, s.ctx[c], q, c) => TalkOf(k3, y, q, c)
    BY <1>1, <2>0, <2>1, PausedTalk DEF y
  <2>10. Spares(s, t, NoCall) BY <2>7, <2>9, TouchesSpares, SparesOne DEF Fine, k
  <2>11. Reoffers(s.ctx[c], y) BY <2>0, AskedReoffers DEF y, Dirs
  <2>12. \A d \in Calls : Reoffers(s.ctx[d], t.ctx[d])
    BY <2>7, <2>11 DEF Touches, Reoffers
  <2>13. y.stage = s.ctx[c].stage BY <2>11 DEF Reoffers
  <2>14. Pauses(s, t, c) BY <1>1, <2>1, <2>7, <2>12, <2>13 DEF Pauses, Touches, k
  <2> QED BY <1>0, <2>8, <2>10, <2>14
<1>2. CASE k.state \notin {"StreamsRunning", "PausedByRemote"}
  BY <1>0, <1>2 DEF linphone_core_pause_call
<1> QED BY <1>1, <1>2

LEMMA PreemptSpares ==
  ASSUME NEW s \in States
  PROVE  LET t == linphone_core_preempt_sound_resources(s) IN
         /\ Spares(s, t, NoCall) /\ t \in States
         /\ Pauses(s, t, s.current)
<1> DEFINE t == linphone_core_preempt_sound_resources(s)
<1>1. s.current \in Calls \cup {NoCall} BY StateFields
<1>2. CASE s.current = NoCall
  BY <1>2 DEF linphone_core_preempt_sound_resources, Spares, Pauses, Reoffers
<1>3. CASE s.current \in Calls
  <2>1. t = linphone_core_pause_call(s, s.current)
    BY <1>3, NoCallIsNone DEF linphone_core_preempt_sound_resources
  <2> QED BY <1>3, <2>1, PauseSpares, SparesAll
<1> QED BY <1>1, <1>2, <1>3

\* A paused call is resumed only with a re-INVITE.
LEMMA ResumedTalk ==
  ASSUME NEW k \in CallRecords, NEW x \in Contexts, NEW q, NEW c, TalkOf(k, x, q, c),
         k.state = "Paused",
         NEW l \in CallRecords, l.local = "SendRecv", l.did = k.did, l.remote = k.remote,
         NEW y, y = Asked(x, "SendRecv"),
         CanReinvite(x) => l.state = "Resuming", ~CanReinvite(x) => l.state = "Paused"
  PROVE  TalkOf(l, y, q, c)
<1> USE DEF Outgoing, Incoming, Live, Ended, Over
<1>1. /\ y.stage = x.stage /\ y.ack = x.ack /\ y.told = x.told
      /\ CanReinvite(x) => y.re = "out" /\ y.offer = "SendRecv"
      /\ ~CanReinvite(x) => y = x
  BY AskedContextIs DEF Dirs
<1>2. StreamInv(l) BY DEF StreamInv, Talking
<1>3. OfferInv(l, y, q, c) BY DEF OfferInv
<1>4. FreshInv(l, y, q, c) BY <1>1 DEF TalkOf, FreshInv
<1>5. RedirectInv(l, y, q, c) BY DEF RedirectInv
<1>6. DialogInv(y) BY <1>1 DEF TalkOf, DialogInv, CanReinvite
<1>7. SilenceInv(l, y, q, c) BY <1>1 DEF TalkOf, SilenceInv
<1>8. AskedInv(l, y, q, c) BY <1>1 DEF TalkOf, AskedInv, CanReinvite
<1>9. AgreedInv(l, y, q, c)
  BY <1>1 DEF TalkOf, AgreedInv, CanReinvite
<1> QED BY <1>2, <1>3, <1>4, <1>5, <1>6, <1>7, <1>8, <1>9 DEF TalkOf

\* Whoever is resumed, whoever is paused for that: both keep the invariant, and
\* no other call moves.
LEMMA ResumeSpares ==
  ASSUME NEW s \in States, NEW c \in Calls
  PROVE  LET t == linphone_core_resume_call(s, c) IN
         /\ Spares(s, t, NoCall)
         /\ t.calls = s.calls /\ t.ring = s.ring /\ t.current \in {s.current, NoCall}
         /\ \A d \in Calls :
              /\ s.call[d].state \notin {"StreamsRunning", "PausedByRemote", "Paused"} =>
                   t.call[d] = s.call[d] /\ t.ctx[d] = s.ctx[d]
              /\ s.call[d].state \in {"StreamsRunning", "PausedByRemote", "Paused"} =>
                   t.call[d].state \in {s.call[d].state, "Pausing", "Resuming"}
              /\ t.call[d].media \in {s.call[d].media, "none"}
              /\ t.call[d].terminated = s.call[d].terminated /\ t.call[d].op = s.call[d].op
              /\ t.call[d].did = s.call[d].did /\ t.ctx[d].stage = s.ctx[d].stage
              /\ Reoffers(s.ctx[d], t.ctx[d])
<1> DEFINE freed == linphone_core_preempt_sound_resources(s)
           fresh == SetLocal(freed, c, "SendRecv")
           asked == sal_call_update(fresh, c)
           t == linphone_call_set_state(asked, c, "Resuming")
           k == s.call[c]
           k1 == [k EXCEPT !.local = "SendRecv"]
           k2 == [k1 EXCEPT !.state = "Resuming"]
           x == s.ctx[c]
           y == Asked(x, "SendRecv")
<1>1. CASE k.state = "Paused"
  <2>0. k \in CallRecords /\ x \in Contexts BY StateFields
  <2>1. /\ k1 \in CallRecords /\ k1.state = "Paused" /\ k1.local = "SendRecv"
        /\ k2 \in CallRecords /\ k2.state = "Resuming" /\ k2.local = "SendRecv"
        /\ k1.did = k.did /\ k1.terminated = k.terminated /\ k1.op = k.op
        /\ k2.did = k.did /\ k2.terminated = k.terminated /\ k2.op = k.op
        /\ k1.remote = k.remote /\ k2.remote = k.remote
        /\ k1.media = k.media /\ k2.media = k.media
    BY <1>1, <2>0 DEF CallRecords, Dirs, CallStates, Live
  <2>2. /\ Spares(s, freed, NoCall) /\ freed \in States /\ Pauses(s, freed, s.current)
        /\ freed.call[c] = k /\ freed.ctx[c] = x
    BY <1>1, PreemptSpares DEF Pauses
  <2> HIDE DEF freed
  <2>3. /\ Touches(freed, fresh, c) /\ fresh \in States /\ fresh.call[c] = k1
        /\ fresh.ctx = freed.ctx /\ fresh.calls = freed.calls /\ fresh.ring = freed.ring
        /\ fresh.current = freed.current
    <3>1. "SendRecv" \in Dirs BY DEF Dirs
    <3>2. /\ Touches(freed, fresh, c) /\ fresh.call[c] = [freed.call[c] EXCEPT !.local = "SendRecv"]
          /\ fresh.ctx = freed.ctx /\ fresh.calls = freed.calls /\ fresh.ring = freed.ring
          /\ fresh.current = freed.current
      BY <2>2, <3>1, SetLocalTouches
    <3> QED BY <2>2, <3>2 DEF Touches
  <2> HIDE DEF fresh, k1
  <2>4. /\ Touches(freed, asked, c) /\ asked \in States /\ asked.call[c] = k1
        /\ asked.ctx[c] = y /\ asked.calls = freed.calls /\ asked.ring = freed.ring
        /\ asked.current = freed.current
    BY <2>1, <2>2, <2>3, CallUpdateTouches, TouchesTwice DEF Touches
  <2> HIDE DEF asked, y
  <2>5. k1.state \notin Ended /\ "Resuming" \in Live BY <2>1 DEF Ended, Live
  <2>6. /\ Touches(freed, t, c) /\ t \in States /\ t.call[c] = k2 /\ t.ctx[c] = y
        /\ t.calls = freed.calls /\ t.ring = freed.ring /\ t.current = freed.current
    BY <2>4, <2>5, SetStateTouches, TouchesTwice DEF Touches
  <2>7. linphone_core_resume_call(s, c) = IF ~CanReinvite(x) THEN fresh ELSE t
    BY <1>1, <2>2, <2>3 DEF linphone_core_resume_call, freed, fresh, asked
  <2> HIDE DEF t, k2
  <2> DEFINE u == linphone_core_resume_call(s, c)
             l == IF ~CanReinvite(x) THEN k1 ELSE k2
  <2>8. /\ Touches(freed, u, c) /\ u \in States /\ u.call[c] = l /\ u.ctx[c] = y
        /\ u.calls = freed.calls /\ u.ring = freed.ring /\ u.current = freed.current
    BY <2>0, <2>2, <2>3, <2>6, <2>7, AskedContextIs DEF y, Dirs
  <2> HIDE DEF u
  <2>9. \A q : TalkOf(k, x, q, c) => TalkOf(l, y, q, c)
    BY <1>1, <2>0, <2>1, ResumedTalk DEF y
  <2>10. l.did = k.did /\ l.terminated = k.terminated /\ l.op = k.op /\ l.media = k.media
         /\ l.state \in {"Paused", "Resuming"} /\ y.stage = x.stage
    BY <2>0, <2>1, AskedContextIs DEF y, Dirs
  <2>15. Reoffers(x, y) BY <2>0, AskedReoffers DEF y, Dirs
  <2> HIDE DEF l, k, x
  <2>11. Spares(freed, u, NoCall) BY <2>2, <2>8, <2>9, TouchesSpares, SparesOne DEF Fine
  <2>12. Spares(s, u, NoCall) BY <2>2, <2>11, SparesTwice
  <2>13. u.calls = s.calls /\ u.ring = s.ring /\ u.current \in {s.current, NoCall}
    BY <2>2, <2>8 DEF Pauses
  <2>14. ASSUME NEW d \in Calls
         PROVE  /\ s.call[d].state \notin {"StreamsRunning", "PausedByRemote", "Paused"} =>
                     u.call[d] = s.call[d] /\ u.ctx[d] = s.ctx[d]
                /\ s.call[d].state \in {"StreamsRunning", "PausedByRemote", "Paused"} =>
                     u.call[d].state \in {s.call[d].state, "Pausing", "Resuming"}
                /\ u.call[d].media \in {s.call[d].media, "none"}
                /\ u.call[d].terminated = s.call[d].terminated /\ u.call[d].op = s.call[d].op
                /\ u.call[d].did = s.call[d].did /\ u.ctx[d].stage = s.ctx[d].stage
                /\ Reoffers(s.ctx[d], u.ctx[d])
    <3>1. CASE d = c BY <1>1, <2>8, <2>10, <2>15, <3>1 DEF k, x
    <3>2. CASE d # c
      <4>1. u.call[d] = freed.call[d] /\ u.ctx[d] = freed.ctx[d] BY <2>8, <3>2 DEF Touches
      <4> QED BY <2>2, <4>1 DEF Pauses
    <3> QED BY <3>1, <3>2
  <2> QED BY <2>12, <2>13, <2>14 DEF u
<1>2. CASE k.state # "Paused"
  BY <1>2 DEF linphone_core_resume_call, Spares, Reoffers
<1> QED BY <1>1, <1>2

-----------------------------------------------------------------------------
\* The end of a call.

LEMMA AlikeTwice ==
  ASSUME NEW k, NEW l, NEW m, Alike(k, l), Alike(l, m)
  PROVE  Alike(k, m)
  BY DEF Alike

LEMMA AlikeSelf == ASSUME NEW k PROVE Alike(k, k)
  BY DEF Alike

LEMMA UnrefAlike ==
  ASSUME NEW s \in States, NEW c \in Calls
  PROVE  LET t == linphone_call_unref(s, c) IN
         /\ t \in States /\ t.ctx = s.ctx /\ \A d \in Calls : Alike(s.call[d], t.call[d])
         /\ t.calls = s.calls /\ t.current = s.current /\ t.ring = s.ring
<1> DEFINE n == s.call[c].refcnt - 1
           b == s.call[c].op /\ s.call[c].refcnt # 1
           k == [s.call[c] EXCEPT !.refcnt = n, !.op = b]
<1>1. s.call[c] \in CallRecords BY StateFields
<1>2. n \in Int BY <1>1 DEF CallRecords
<1>3. b \in BOOLEAN /\ (b => s.call[c].op) OBVIOUS
<1>4. linphone_call_unref(s, c) = Store(s, c, k) BY DEF linphone_call_unref
<1> HIDE DEF n, b
<1>5. k \in CallRecords /\ Alike(s.call[c], k) BY <1>1, <1>2, <1>3 DEF CallRecords, Alike
<1> HIDE DEF k
<1>6. \A d \in Calls : Alike(s.call[d], s.call[d]) BY AlikeSelf
<1> QED BY <1>4, <1>5, <1>6, StoreTouches DEF Touches

LEMMA ReleaseRefererAlike ==
  ASSUME NEW s \in States, NEW c \in Calls
  PROVE  LET t == ReleaseReferer(s, c) IN
         /\ t \in States /\ t.ctx = s.ctx /\ \A d \in Calls : Alike(s.call[d], t.call[d])
         /\ t.calls = s.calls /\ t.current = s.current /\ t.ring = s.ring
<1> DEFINE k == [s.call[c] EXCEPT !.referer = NoCall]
           r == s.call[c].referer
           u == Store(s, c, k)
<1>1. s.call[c] \in CallRecords BY StateFields
<1>2. r \in Calls \cup {NoCall} BY <1>1 DEF CallRecords
<1>3. k \in CallRecords /\ Alike(s.call[c], k) BY <1>1 DEF CallRecords, Alike
<1>4. ReleaseReferer(s, c) = IF r = NoCall THEN s ELSE linphone_call_unref(u, r)
  BY DEF ReleaseReferer
<1> HIDE DEF k, r
<1>5. \A d \in Calls : Alike(s.call[d], s.call[d]) BY AlikeSelf
<1>6. /\ u \in States /\ u.ctx = s.ctx /\ \A d \in Calls : Alike(s.call[d], u.call[d])
      /\ u.calls = s.calls /\ u.current = s.current /\ u.ring = s.ring
  BY <1>3, <1>5, StoreTouches DEF Touches
<1> HIDE DEF u
<1>7. CASE r = NoCall BY <1>4, <1>5, <1>7
<1>8. CASE r \in Calls
  <2>1. \A d \in Calls : Alike(u.call[d], linphone_call_unref(u, r).call[d])
    BY <1>6, <1>8, UnrefAlike
  <2>2. \A d \in Calls : Alike(s.call[d], linphone_call_unref(u, r).call[d])
    BY <1>6, <2>1, AlikeTwice
  <2> QED BY <1>4, <1>6, <1>8, <2>2, NoCallIsNone, UnrefAlike
<1> QED BY <1>2, <1>7, <1>8

\* What it takes to end a call in this context without a trace.
Endable(x, q, c) ==
  /\ DialogInv(x)
  /\ "reinvite" \notin Features =>
       /\ x.re # "in" /\ ~InQueue(q, "REINVITE", c)
       /\ x.ack => ~InQueue(q, "ACK", c)
       /\ Once(q, "ACK", c)
  /\ "refusal" \notin Features /\ x.stage \in {"incoming", "conf"} =>
       \A type \in {"FAILURE", "CLOSED", "RELEASED"} : ~InQueue(q, type, c)

\* The peer is about to answer, if there is a dialog.
Awaited(x, q, c) ==
  "refusal" \notin Features /\ x.stage = "conf" => InQueue(q, "ANSWERED", c)

\* There was no dialog, and nothing is queued that would take up the call.
Untold(x, q, c) ==
  /\ x.stage \in {"none", "refused", "failed", "released"}
  /\ \A type \in {"RINGING", "ACK", "REINVITE"} : ~InQueue(q, type, c)

LEMMA TalkEndable ==
  ASSUME NEW k, NEW x, NEW q, NEW c, TalkOf(k, x, q, c)
  PROVE  Endable(x, q, c) /\ (~k.did => Awaited(x, q, c))
<1>1. /\ DialogInv(x) /\ SilenceInv(k, x, q, c) /\ AskedInv(k, x, q, c) BY DEF TalkOf
<1>2. Endable(x, q, c) BY <1>1 DEF Endable, SilenceInv, AskedInv
<1>3. ~k.did => Awaited(x, q, c) BY <1>1 DEF Awaited, AskedInv
<1> QED BY <1>2, <1>3

LEMMA OverTalk ==
  ASSUME NEW l, NEW x, NEW q, NEW c, Endable(x, q, c), Awaited(x, q, c),
         l.state \in Over, l.media = "none", l.terminated \/ Untold(x, q, c)
  PROVE  TalkOf(l, x, q, c)
<1> USE DEF Over, Ended
<1>1. StreamInv(l) BY DEF StreamInv, Talking
<1>2. OfferInv(l, x, q, c) BY DEF OfferInv
<1>3. FreshInv(l, x, q, c) BY DEF FreshInv, Incoming
<1>4. RedirectInv(l, x, q, c) BY DEF RedirectInv, Untold
<1>5. SilenceInv(l, x, q, c) BY DEF SilenceInv, Endable
<1>6. AskedInv(l, x, q, c) BY DEF AskedInv, Endable, Awaited
<1>7. AgreedInv(l, x, q, c) BY DEF AgreedInv, Live, Outgoing, Incoming
<1>8. DialogInv(x) BY DEF Endable
<1> QED BY <1>1, <1>2, <1>3, <1>4, <1>5, <1>6, <1>7, <1>8 DEF TalkOf

\* The BYE, the CANCEL or the refusal that ends it.
LEMMA ClosedEndable ==
  ASSUME NEW x \in Contexts, NEW b \in BOOLEAN, NEW q, NEW c
  PROVE  LET y == eXosip_call_terminate(x, b) IN
         LET z == eXosip_call_refuse(x) IN
         /\ y \in Contexts /\ z \in Contexts
         /\ Endable(x, q, c) => Endable(y, q, c) /\ Endable(z, q, c)
         /\ y.stage = "conf" => ~b /\ x.stage = "conf"
         /\ y.stage = x.stage \/ (x.stage = "conf" /\ y.stage = "closed")
              \/ (x.stage = "incoming" /\ y.stage = "refused")
         /\ z.stage = IF x.stage = "incoming" THEN "refused" ELSE x.stage
         /\ z.ack = x.ack /\ z.re = x.re /\ z.offer = x.offer /\ z.told = x.told
         /\ y.ack => x.ack
         /\ y.ack = x.ack \/ x.stage = "conf"
         /\ y.re = x.re \/ (y.re = "none" /\ x.re = "in")
         /\ y.offer = x.offer /\ y.told = x.told
<1> DEFINE y == eXosip_call_terminate(x, b)
           z == eXosip_call_refuse(x)
<1>1. /\ z \in Contexts /\ y \in Contexts BY EndingContext
<1>2. /\ z.stage = IF x.stage = "incoming" THEN "refused" ELSE x.stage
      /\ z.ack = x.ack /\ z.re = x.re /\ z.offer = x.offer /\ z.told = x.told
  BY DEF eXosip_call_refuse, Contexts
<1>3. CASE b /\ x.stage = "conf"
  <2> DEFINE re == IF x.re = "in" THEN "none" ELSE x.re
             w == [x EXCEPT !.stage = "closed", !.ack = FALSE, !.re = re]
  <2>1. y = w BY <1>3 DEF eXosip_call_terminate
  <2>2. re = x.re \/ (re = "none" /\ x.re = "in") OBVIOUS
  <2> HIDE DEF re
  <2>3. y.stage = "closed" /\ y.ack = FALSE /\ y.re = re /\ y.offer = x.offer /\ y.told = x.told
    BY <2>1 DEF Contexts
  <2> HIDE DEF y, z
  <2>4. Endable(x, q, c) => Endable(y, q, c) BY <1>3, <2>2, <2>3 DEF Endable, DialogInv
  <2>5. Endable(x, q, c) => Endable(z, q, c) BY <1>2, <1>3 DEF Endable, DialogInv
  <2> QED BY <1>1, <1>2, <1>3, <2>2, <2>3, <2>4, <2>5 DEF y, z
<1>4. CASE ~(b /\ x.stage = "conf")
  <2>1. y = IF b THEN z ELSE x BY <1>4 DEF eXosip_call_terminate
  <2> HIDE DEF y, z
  <2>2. Endable(x, q, c) => Endable(z, q, c) BY <1>2 DEF Endable, DialogInv
  <2>3. y.stage = "conf" => ~b /\ x.stage = "conf" BY <1>2, <1>4, <2>1
  <2> QED BY <1>1, <1>2, <1>4, <2>1, <2>2, <2>3 DEF y, z
<1> QED BY <1>3, <1>4

\* The change to an ended state.
LEMMA EndsTalk ==
  ASSUME NEW s \in States, NEW c \in Calls, NEW cstate \in Ended,
         s.call[c].state \notin Ended
  PROVE  LET t == linphone_call_set_state(s, c, cstate) IN
         /\ Spares(s, t, c) /\ t \in States /\ t.ctx = s.ctx
         /\ \A d \in Calls : d # c => Alike(s.call[d], t.call[d])
         /\ t.call[c].state = cstate /\ t.call[c].terminated = s.call[c].terminated
         /\ t.call[c].media = s.call[c].media
         /\ t.calls = s.calls \ {c} /\ t.ring = s.ring
         /\ t.current = IF s.current = c THEN NoCall ELSE s.current
<1> DEFINE k == [s.call[c] EXCEPT !.state = cstate]
           m == Store(s, c, k)
           n == IF m.current = c THEN NoCall ELSE m.current
           f == IF m.calls \subseteq {c} THEN "presence_mode" ELSE m.friends
           u == [m EXCEPT !.calls = @ \ {c}, !.current = n, !.friends = f]
           t == ReleaseReferer(u, c)
<1>1. s.call[c] \in CallRecords BY StateFields
<1>2. cstate \in CallStates /\ cstate # "Released" BY DEF CallStates, Ended
<1>3. /\ k \in CallRecords /\ k.state = cstate /\ k.terminated = s.call[c].terminated
      /\ k.media = s.call[c].media
  BY <1>1, <1>2 DEF CallRecords
<1>4. linphone_call_set_state(s, c, cstate) = t
  BY <1>2 DEF linphone_call_set_state, linphone_call_set_terminated
<1> HIDE DEF k
<1>5. /\ m \in States /\ m.calls = s.calls /\ m.current = s.current /\ m.ring = s.ring
      /\ m.ctx = s.ctx /\ m.call[c] = k
      /\ \A d \in Calls : d # c => m.call[d] = s.call[d]
  BY <1>3, StoreTyped, StoreTouches
<1> HIDE DEF m
<1>6. n \in Calls \cup {NoCall} /\ f \in {"presence_mode", "OnThePhone"}
  BY <1>5, StateFields
<1>7. n = IF s.current = c THEN NoCall ELSE s.current BY <1>5
<1> HIDE DEF n, f
<1>8. /\ u \in States /\ u.calls = s.calls \ {c} /\ u.current = n /\ u.ring = s.ring
      /\ u.ctx = s.ctx /\ u.call = m.call
  BY <1>5, <1>6 DEF States
<1> HIDE DEF u
<1>9. /\ t \in States /\ t.ctx = s.ctx /\ \A d \in Calls : Alike(u.call[d], t.call[d])
      /\ t.calls = s.calls \ {c} /\ t.current = n /\ t.ring = s.ring
  BY <1>8, ReleaseRefererAlike
<1> HIDE DEF t
<1>10. /\ \A d \in Calls : d # c => Alike(s.call[d], t.call[d])
       /\ Alike(k, t.call[c])
  BY <1>5, <1>8, <1>9
<1>11. Spares(s, t, c) BY <1>9, <1>10, AlikeTalk DEF Spares, Fine
<1>12. /\ t.call[c].state = cstate /\ t.call[c].terminated = s.call[c].terminated
       /\ t.call[c].media = s.call[c].media
  BY <1>3, <1>10 DEF Alike
<1> QED BY <1>4, <1>7, <1>9, <1>10, <1>11, <1>12

\* A call that has ended, however it did.
LEMMA EndedTalk ==
  ASSUME NEW s \in States, NEW c \in Calls, NEW cstate \in Ended,
         s.call[c].media = "none", NEW q,
         s.call[c].terminated \/ Untold(s.ctx[c], q, c), Endable(s.ctx[c], q, c), Awaited(s.ctx[c], q, c)
  PROVE  Fine(linphone_call_set_state(s, c, cstate), q, c)
<1> DEFINE t == linphone_call_set_state(s, c, cstate)
<1>1. s.call[c] \in CallRecords BY StateFields
<1>2. cstate \in CallStates /\ cstate # "Released" BY DEF CallStates, Ended
<1>3. CASE s.call[c].state \in Ended
  <2>1. t = s BY <1>2, <1>3 DEF linphone_call_set_state
  <2> QED BY <1>3, <2>1, OverTalk DEF Over, Fine
<1>4. CASE s.call[c].state \notin Ended
  <2>1. /\ t.call[c].state = cstate /\ t.call[c].media = "none"
        /\ t.call[c].terminated = s.call[c].terminated /\ t.ctx = s.ctx
    BY <1>4, EndsTalk
  <2> HIDE DEF t
  <2>2. TalkOf(t.call[c], s.ctx[c], q, c) BY <2>1, OverTalk DEF Over
  <2> QED BY <2>1, <2>2 DEF Fine, t
<1> QED BY <1>3, <1>4

\* linphone_core_terminate_call and linphone_core_abort_call.
Dropped(s, c, cstate) ==
  linphone_call_set_state(linphone_call_stop_media_streams(Quiet(sal_call_terminate(s, c)), c),
                          c, cstate)

\* The call of t has left the core, and the tone is off; no other call has moved.
Gone(s, t, c, cstate) ==
  /\ t.call[c].state = cstate
  /\ \A d \in Calls : d # c => t.call[d].state = s.call[d].state
  /\ t.calls = s.calls \ {c} /\ t.ring = FALSE
  /\ t.current = IF s.current = c THEN NoCall ELSE s.current

LEMMA DroppedTalk ==
  ASSUME NEW s \in States, NEW c \in Calls, NEW cstate \in Ended,
         s.call[c].state \notin Ended, s.call[c].op
  PROVE  LET t == Dropped(s, c, cstate) IN
         /\ Spares(s, t, c)
         /\ \A q : Endable(s.ctx[c], q, c) /\ (s.call[c].did \/ Awaited(s.ctx[c], q, c)) =>
                     Fine(t, q, c)
         /\ Gone(s, t, c, cstate)
<1> DEFINE k == s.call[c]
           y == eXosip_call_terminate(s.ctx[c], k.did)
           told == Signal(s, c, y)
           k1 == [k EXCEPT !.terminated = TRUE]
           k2 == [k1 EXCEPT !.media = "none"]
           bye == Store(told, c, k1)
           quiet == Quiet(bye)
           silent == linphone_call_stop_media_streams(quiet, c)
           t == linphone_call_set_state(silent, c, cstate)
<1>1. k \in CallRecords /\ s.ctx[c] \in Contexts /\ k.did \in BOOLEAN
  BY StateFields DEF CallRecords
<1>2. y \in Contexts BY <1>1, ClosedEndable
<1>3. /\ k1 \in CallRecords /\ k2.state = k.state /\ k2.media = "none" /\ k2.terminated
      /\ k2.op = k.op /\ k2.did = k.did
  BY <1>1 DEF CallRecords
<1>4. sal_call_terminate(s, c) = bye BY DEF sal_call_terminate
<1> HIDE DEF y, k1
<1>5. /\ Touches(s, told, c) /\ told \in States /\ told.ctx[c] = y /\ told.call = s.call
      /\ told.calls = s.calls /\ told.current = s.current
  BY <1>2, SignalTouches DEF Touches
<1> HIDE DEF told
<1>6. /\ Touches(s, bye, c) /\ bye \in States /\ bye.ctx[c] = y /\ bye.call[c] = k1
      /\ bye.calls = s.calls /\ bye.current = s.current
  BY <1>3, <1>5, StoreTouches, TouchesTwice DEF Touches
<1> HIDE DEF bye
<1>7. /\ Touches(s, quiet, c) /\ quiet \in States /\ quiet.ctx[c] = y /\ quiet.call[c] = k1
      /\ quiet.calls = s.calls /\ quiet.current = s.current /\ quiet.ring = FALSE
  BY <1>6, QuietTouches, TouchesTwice
<1> HIDE DEF quiet
<1>8. /\ Touches(s, silent, c) /\ silent \in States /\ silent.ctx[c] = y /\ silent.call[c] = k2
      /\ silent.calls = s.calls /\ silent.current = s.current /\ silent.ring = FALSE
  BY <1>7, StopMediaTouches, TouchesTwice DEF Touches
<1> HIDE DEF silent, k2
<1>9. /\ Spares(silent, t, c) /\ t.calls = s.calls \ {c} /\ t.ring = FALSE
      /\ t.current = (IF s.current = c THEN NoCall ELSE s.current)
      /\ t.call[c].state = cstate
  BY <1>3, <1>8, EndsTalk
<1>10. \A d \in Calls : d # c => t.call[d].state = s.call[d].state
  <2>1. \A d \in Calls : d # c => Alike(silent.call[d], t.call[d]) BY <1>3, <1>8, EndsTalk
  <2> HIDE DEF t, k
  <2> QED BY <1>8, <2>1 DEF Touches, Alike
<1>11. Spares(s, t, c) BY <1>8, <1>9, TouchesSpares, SparesTwice
<1>12. ASSUME NEW q, Endable(s.ctx[c], q, c), k.did \/ Awaited(s.ctx[c], q, c)
       PROVE  Fine(t, q, c)
  <2>1. Endable(y, q, c) BY <1>1, <1>12, ClosedEndable DEF y
  <2>2. y.stage = "conf" => ~k.did /\ s.ctx[c].stage = "conf"
    <3>1. CASE k.did = TRUE
      <4>1. y = eXosip_call_terminate(s.ctx[c], TRUE) BY <3>1 DEF y
      <4> QED BY <1>1, <4>1, ClosedEndable
    <3>2. CASE k.did = FALSE
      <4>1. y = eXosip_call_terminate(s.ctx[c], FALSE) BY <3>2 DEF y
      <4> QED BY <1>1, <3>2, <4>1 DEF eXosip_call_terminate
    <3> QED BY <1>1, <3>1, <3>2
  <2>3. Awaited(y, q, c) BY <1>12, <2>2 DEF Awaited
  <2>4. silent.call[c].media = "none" /\ silent.call[c].terminated BY <1>3, <1>8
  <2> QED BY <1>8, <2>1, <2>3, <2>4, EndedTalk
<1>13. Dropped(s, c, cstate) = t BY <1>4 DEF Dropped, silent, quiet
<1> HIDE DEF t, k
<1>14. Gone(s, t, c, cstate) BY <1>9, <1>10 DEF Gone
<1> QED BY <1>11, <1>12, <1>13, <1>14 DEF k

LEMMA TerminateDrops ==
  ASSUME NEW s, NEW c
  PROVE  /\ linphone_core_terminate_call(s, c) = Dropped(s, c, "End")
         /\ linphone_core_abort_call(s, c) = Dropped(s, c, "Error")
  BY DEF linphone_core_terminate_call, linphone_core_abort_call, Dropped

-----------------------------------------------------------------------------
\* Nothing of the queue is for c.
Nothing(q, c) == \A i \in 1 .. Len(q) : q[i].cid # c

LEMMA NothingQueued ==
  ASSUME NEW q, NEW c, Nothing(q, c)
  PROVE  /\ \A type : ~InQueue(q, type, c) /\ Once(q, type, c)
         /\ AckFirst(q, c)
  BY DEF Nothing, InQueue, Once, AckFirst

\* The INVITE goes out, or could not be sent.
LEMMA StartInviteTalk ==
  ASSUME NEW s \in States, NEW c \in Calls, NEW sent \in BOOLEAN,
         s.call[c].state = "OutgoingInit"
  PROVE  LET t == linphone_core_start_invite(s, c, sent) IN
         /\ Spares(s, t, c) /\ t.ring = s.ring
         /\ \A q : Nothing(q, c) /\ Fine(s, q, c) => Fine(t, q, c)
         /\ sent => /\ t.call[c].state = "OutgoingProgress"
                    /\ t.calls = s.calls /\ t.current = s.current
         /\ ~sent => /\ t.call[c].state = "Error" /\ t.calls = s.calls \ {c}
                     /\ t.current = IF s.current = c THEN NoCall ELSE s.current
         /\ \A d \in Calls : d # c => t.call[d].state = s.call[d].state
<1> DEFINE k == s.call[c]
           k1 == [k EXCEPT !.media = "init", !.media_pending = TRUE]
           k2 == [k1 EXCEPT !.terminated = FALSE]
           k3 == [k2 EXCEPT !.state = "OutgoingProgress"]
           k4 == [k2 EXCEPT !.media = "none"]
           x == IF sent THEN eXosip_call_send_initial_invite(k.local) ELSE NoContext
           ready == Store(s, c, k1)
           reset == Store(ready, c, k2)
           called == Signal(reset, c, x)
           silent == linphone_call_stop_media_streams(called, c)
           out == linphone_call_set_state(called, c, "OutgoingProgress")
           failed == linphone_call_set_state(silent, c, "Error")
           t == linphone_core_start_invite(s, c, sent)
<1>1. k \in CallRecords /\ k.local \in Dirs BY StateFields DEF CallRecords
<1>2. /\ k1 \in CallRecords /\ k2 \in CallRecords /\ k1.local = k.local
      /\ k2.state = "OutgoingInit" /\ ~k2.terminated /\ k2.local = k.local
      /\ k3 \in CallRecords /\ k3.state = "OutgoingProgress" /\ k3.local = k.local
      /\ ~k3.terminated
      /\ k4 \in CallRecords /\ k4.state = "OutgoingInit" /\ k4.media = "none"
      /\ ~k4.terminated
  <2>1. k1 \in CallRecords /\ k1.local = k.local /\ k1.state = "OutgoingInit"
    BY <1>1 DEF CallRecords
  <2> HIDE DEF k1
  <2>2. /\ k2 \in CallRecords /\ k2.state = "OutgoingInit" /\ ~k2.terminated
        /\ k2.local = k.local
    BY <2>1 DEF CallRecords
  <2> HIDE DEF k2
  <2>3. /\ k3 \in CallRecords /\ k3.state = "OutgoingProgress" /\ k3.local = k.local
        /\ ~k3.terminated
    BY <2>2 DEF CallRecords, CallStates, Live, Outgoing
  <2>4. /\ k4 \in CallRecords /\ k4.state = "OutgoingInit" /\ k4.media = "none"
        /\ ~k4.terminated
    BY <2>2 DEF CallRecords
  <2> QED BY <2>1, <2>2, <2>3, <2>4
<1>3. /\ x \in Contexts /\ x.re = "none" /\ x.ack = FALSE
      /\ x.stage = IF sent THEN "calling" ELSE "none"
  BY <1>1 DEF eXosip_call_send_initial_invite, NoContext, Contexts, Stages, Dirs, Descriptions
<1> HIDE DEF x
<1> HIDE DEF k1
<1>4. /\ Touches(s, ready, c) /\ ready \in States /\ ready.call[c] = k1 /\ ready.calls = s.calls
      /\ ready.current = s.current /\ ready.ring = s.ring /\ ready.ctx = s.ctx
  <2>1. /\ Touches(s, ready, c) /\ ready.call[c] = k1 /\ ready.calls = s.calls
        /\ ready.current = s.current /\ ready.ring = s.ring /\ ready.ctx = s.ctx
    BY <1>2, StoreTouches
  <2> QED BY <2>1 DEF Touches
<1>5. sal_call(ready, c, sent) = called
  BY <1>2, <1>4 DEF sal_call, x
<1> HIDE DEF ready, k2
<1>6. /\ Touches(s, reset, c) /\ reset \in States /\ reset.call[c] = k2 /\ reset.calls = s.calls
      /\ reset.current = s.current /\ reset.ring = s.ring
  <2>1. /\ Touches(ready, reset, c) /\ reset.call[c] = k2 /\ reset.calls = ready.calls
        /\ reset.current = ready.current /\ reset.ring = ready.ring
    BY <1>2, <1>4, StoreTouches
  <2>2. Touches(s, reset, c) BY <1>4, <2>1, TouchesTwice
  <2> QED BY <1>4, <2>1, <2>2 DEF Touches
<1> HIDE DEF reset
<1>7. /\ Touches(s, called, c) /\ called \in States /\ called.call[c] = k2
      /\ called.calls = s.calls /\ called.ctx[c] = x
      /\ called.current = s.current /\ called.ring = s.ring
  BY <1>3, <1>6, SignalTouches, TouchesTwice DEF Touches
<1>8. t = IF sent THEN out ELSE failed
  BY <1>5 DEF linphone_core_start_invite, ready, k1, silent
<1> HIDE DEF called
<1>9. CASE sent
  <2>1. "OutgoingProgress" \in Live /\ k2.state \notin Ended
    BY <1>2 DEF Live, Outgoing, Ended
  <2>2. /\ Touches(s, out, c) /\ out \in States /\ out.call[c] = k3 /\ out.ctx[c] = x
        /\ out.calls = s.calls /\ out.current = s.current /\ out.ring = s.ring
    <3>1. /\ Touches(called, out, c) /\ out.ctx = called.ctx
          /\ out.call[c] = [called.call[c] EXCEPT !.state = "OutgoingProgress"]
          /\ out.calls = called.calls /\ out.current = called.current /\ out.ring = called.ring
      BY <1>7, <2>1, SetStateTouches
    <3>2. Touches(s, out, c) BY <1>7, <3>1, TouchesTwice
    <3>3. out.call[c] = k3 BY <1>7, <3>1 DEF k3
    <3> QED BY <1>7, <3>1, <3>2, <3>3 DEF Touches
  <2>3. ASSUME NEW q, Nothing(q, c), Fine(s, q, c) PROVE TalkOf(k3, x, q, c)
    <3> USE DEF Outgoing, Incoming, Live, Ended, Over
    <3> HIDE DEF k3
    <3>1. \A type : ~InQueue(q, type, c) /\ Once(q, type, c) BY <2>3, NothingQueued
    <3>2. {"reinvite", "update"} \cap Features = {} => k.local = "SendRecv" BY <2>3 DEF Fine, TalkOf, AgreedInv
    <3>3. StreamInv(k3) BY <1>2 DEF StreamInv, Talking
    <3>4. OfferInv(k3, x, q, c) BY <1>2 DEF OfferInv
    <3>5. FreshInv(k3, x, q, c) BY <1>2, <1>3, <1>9 DEF FreshInv
    <3>6. RedirectInv(k3, x, q, c) BY <1>2 DEF RedirectInv
    <3>7. DialogInv(x) BY <1>3 DEF DialogInv
    <3>8. SilenceInv(k3, x, q, c) BY <1>2, <1>3, <3>1 DEF SilenceInv
    <3>9. AskedInv(k3, x, q, c) BY <1>3, <1>9 DEF AskedInv
    <3>10. AgreedInv(k3, x, q, c) BY <1>2, <1>3, <3>1, <3>2 DEF AgreedInv
    <3> QED BY <3>3, <3>4, <3>5, <3>6, <3>7, <3>8, <3>9, <3>10 DEF TalkOf
  <2>4. \A d \in Calls : d # c => t.call[d].state = s.call[d].state
    BY <1>8, <1>9, <2>2 DEF Touches
  <2> QED BY <1>2, <1>8, <1>9, <2>2, <2>3, <2>4, TouchesSpares DEF Fine
<1>10. CASE ~sent
  <2>1. /\ Touches(s, silent, c) /\ silent \in States /\ silent.call[c] = k4 /\ silent.ctx[c] = x
        /\ silent.calls = s.calls /\ silent.current = s.current /\ silent.ring = s.ring
    <3>1. /\ Touches(called, silent, c) /\ silent.ctx = called.ctx
          /\ silent.call[c] = [called.call[c] EXCEPT !.media = "none"]
          /\ silent.calls = called.calls /\ silent.current = called.current
          /\ silent.ring = called.ring
      BY <1>7, StopMediaTouches
    <3>2. Touches(s, silent, c) BY <1>7, <3>1, TouchesTwice
    <3>3. silent.call[c] = k4 BY <1>7, <3>1 DEF k4
    <3> QED BY <1>7, <3>1, <3>2, <3>3 DEF Touches
  <2> HIDE DEF silent, k4
  <2>2. "Error" \in Ended /\ k4.state \notin Ended BY <1>2 DEF Ended
  <2>3. /\ Spares(s, failed, c) /\ failed.calls = s.calls \ {c} /\ failed.ring = s.ring
        /\ failed.current = IF s.current = c THEN NoCall ELSE s.current
        /\ failed.call[c].state = "Error"
        /\ \A d \in Calls : d # c => failed.call[d].state = s.call[d].state
    <3>1. /\ Spares(silent, failed, c) /\ failed.calls = silent.calls \ {c}
          /\ failed.ring = silent.ring
          /\ failed.current = IF silent.current = c THEN NoCall ELSE silent.current
          /\ failed.call[c].state = "Error"
          /\ \A d \in Calls : d # c => Alike(silent.call[d], failed.call[d])
      <4>1. silent \in States /\ silent.call[c].state \notin Ended /\ "Error" \in Ended
        BY <2>1, <2>2
      <4> QED BY <4>1, EndsTalk
    <3>2. Spares(s, failed, c) BY <2>1, <3>1, TouchesSpares, SparesTwice
    <3>3. \A d \in Calls : d # c => failed.call[d].state = s.call[d].state
      BY <2>1, <3>1 DEF Touches, Alike
    <3> QED BY <2>1, <3>1, <3>2, <3>3
  <2>4. ASSUME NEW q, Nothing(q, c) PROVE Fine(failed, q, c)
    <3>1. \A type : ~InQueue(q, type, c) /\ Once(q, type, c) BY <2>4, NothingQueued
    <3>2. Endable(x, q, c) BY <1>3, <3>1 DEF Endable, DialogInv
    <3>3. Awaited(x, q, c) BY <1>3, <1>10 DEF Awaited
    <3>4. Untold(x, q, c) BY <1>3, <1>10, <3>1 DEF Untold
    <3> QED BY <1>2, <2>1, <2>2, <3>2, <3>3, <3>4, EndedTalk
  <2> QED BY <1>8, <1>10, <2>3, <2>4
<1> QED BY <1>9, <1>10

-----------------------------------------------------------------------------
\* The queue: an event leaves it, or is added to it.

\* What the queue says of a call does not get worse when its first event goes.
LEMMA Popping ==
  ASSUME NEW p \in Seq(Events), p # << >>, NEW q, q = Tail(p), NEW c
  PROVE  /\ \A type : InQueue(q, type, c) => InQueue(p, type, c)
         /\ \A type : InQueue(p, type, c) /\ ~(Head(p).type = type /\ Head(p).cid = c) =>
              InQueue(q, type, c)
         /\ \A type : Once(p, type, c) => Once(q, type, c)
         /\ \A type : Once(p, type, c) /\ Head(p).type = type /\ Head(p).cid = c =>
              ~InQueue(q, type, c)
         /\ AckFirst(p, c) => ~(Head(p).type = "REINVITE" /\ Head(p).cid = c)
         /\ AckFirst(p, c) /\ ~(Head(p).type = "ACK" /\ Head(p).cid = c) => AckFirst(q, c)
<1>1. /\ Head(p) = p[1] /\ 1 \in 1 .. Len(p) /\ Len(p) \in Nat /\ Len(q) = Len(p) - 1
      /\ \A i \in 1 .. Len(q) : q[i] = p[i + 1]
      /\ \A type : InQueue(p, type, c) <=>
           (Head(p).type = type /\ Head(p).cid = c) \/ InQueue(q, type, c)
  BY HeadOrTail
<1>2. \A i \in 1 .. Len(q) : i + 1 \in 1 .. Len(p) BY <1>1
<1>3. ASSUME NEW type, Once(p, type, c) PROVE Once(q, type, c)
  <2> SUFFICES ASSUME NEW i \in 1 .. Len(q), NEW j \in 1 .. Len(q),
                      q[i].type = type, q[j].type = type, q[i].cid = c, q[j].cid = c
               PROVE  i = j
    BY DEF Once
  <2>1. i + 1 = j + 1 BY <1>1, <1>2, <1>3 DEF Once
  <2> QED BY <2>1
<1>4. ASSUME NEW type, Once(p, type, c), Head(p).type = type, Head(p).cid = c
      PROVE  ~InQueue(q, type, c)
  <2> SUFFICES ASSUME NEW i \in 1 .. Len(q), q[i].type = type, q[i].cid = c PROVE FALSE
    BY DEF InQueue
  <2>1. 1 = i + 1 BY <1>1, <1>2, <1>4 DEF Once
  <2> QED BY <2>1
<1>5. ASSUME AckFirst(p, c), Head(p).type = "REINVITE", Head(p).cid = c PROVE FALSE
  <2>1. PICK i \in 1 .. Len(p) : i < 1 BY <1>1, <1>5 DEF AckFirst
  <2> QED BY <2>1
<1>6. ASSUME AckFirst(p, c), ~(Head(p).type = "ACK" /\ Head(p).cid = c) PROVE AckFirst(q, c)
  <2> SUFFICES ASSUME NEW j \in 1 .. Len(q), q[j].type = "REINVITE", q[j].cid = c
               PROVE  \E i \in 1 .. Len(q) : i < j /\ q[i].type = "ACK" /\ q[i].cid = c
    BY DEF AckFirst
  <2>1. PICK i \in 1 .. Len(p) : i < j + 1 /\ p[i].type = "ACK" /\ p[i].cid = c
    BY <1>1, <1>2, <1>6 DEF AckFirst
  <2>2. i # 1 BY <1>1, <1>6, <2>1
  <2>3. i - 1 \in 1 .. Len(q) /\ i - 1 < j /\ q[i - 1] = p[i] BY <1>1, <2>1, <2>2
  <2> QED BY <2>1, <2>3
<1> QED BY <1>1, <1>3, <1>4, <1>5, <1>6

\* An event may leave unheard unless a call waits for it.
LEMMA PopTalk ==
  ASSUME NEW p \in Seq(Events), p # << >>, NEW q, q = Tail(p), NEW c, NEW k, NEW x,
         TalkOf(k, x, p, c),
         Head(p).cid = c /\ Head(p).type = "ACK" => k.state # "Connected",
         Head(p).cid = c /\ Head(p).type = "ANSWERED" => x.stage # "conf"
  PROVE  TalkOf(k, x, q, c)
<1>1. StreamInv(k) /\ DialogInv(x) BY DEF TalkOf
<1>2. OfferInv(k, x, q, c) BY Popping DEF TalkOf, OfferInv
<1>3. FreshInv(k, x, q, c) BY Popping DEF TalkOf, FreshInv
<1>4. RedirectInv(k, x, q, c) BY Popping DEF TalkOf, RedirectInv
<1>5. SilenceInv(k, x, q, c) BY Popping DEF TalkOf, SilenceInv
<1>6. AskedInv(k, x, q, c) BY Popping DEF TalkOf, AskedInv
<1>7. AgreedInv(k, x, q, c) BY Popping DEF TalkOf, AgreedInv
<1> QED BY <1>1, <1>2, <1>3, <1>4, <1>5, <1>6, <1>7 DEF TalkOf

\* Endable goes the same way, and so does the answer that is awaited.
LEMMA PopEndable ==
  ASSUME NEW p \in Seq(Events), p # << >>, NEW q, q = Tail(p), NEW c, NEW x, Endable(x, p, c)
  PROVE  /\ Endable(x, q, c)
         /\ /\ Awaited(x, p, c)
            /\ Head(p).cid = c /\ Head(p).type = "ANSWERED" => x.stage # "conf"
            => Awaited(x, q, c)
         /\ Head(p).cid = c /\ Head(p).type \in {"FAILURE", "CLOSED", "RELEASED"} =>
              Awaited(x, q, c)
<1>1. Endable(x, q, c) BY Popping DEF Endable
<1>2. Awaited(x, p, c) /\ (Head(p).cid = c /\ Head(p).type = "ANSWERED" => x.stage # "conf")
      => Awaited(x, q, c)
  BY Popping DEF Awaited
<1>3. \A type : Head(p).cid = c /\ Head(p).type = type => InQueue(p, type, c) BY HeadOrTail
<1>4. Head(p).cid = c /\ Head(p).type \in {"FAILURE", "CLOSED", "RELEASED"} =>
        Awaited(x, q, c)
  BY <1>3 DEF Endable, Awaited
<1> QED BY <1>1, <1>2, <1>4

\* An event that is added.
LEMMA Adding ==
  ASSUME NEW p \in Seq(Events), NEW e \in Events, NEW q, q = Append(p, e), NEW c
  PROVE  /\ \A type : InQueue(q, type, c) <=> InQueue(p, type, c) \/ (e.type = type /\ e.cid = c)
         /\ \A type : Once(p, type, c) /\ (e.type = type /\ e.cid = c => ~InQueue(p, type, c)) =>
              Once(q, type, c)
         /\ /\ AckFirst(p, c)
            /\ e.type = "REINVITE" /\ e.cid = c => InQueue(p, "ACK", c)
            => AckFirst(q, c)
<1>1. /\ Len(p) \in Nat /\ Len(q) = Len(p) + 1 /\ q[Len(p) + 1] = e
      /\ \A i \in 1 .. Len(p) : i \in 1 .. Len(q) /\ q[i] = p[i]
      /\ \A i \in 1 .. Len(q) : i \in 1 .. Len(p) \/ i = Len(p) + 1
      /\ Len(p) + 1 \in 1 .. Len(q)
  OBVIOUS
<1>2. \A type : InQueue(q, type, c) <=> InQueue(p, type, c) \/ (e.type = type /\ e.cid = c)
  BY <1>1 DEF InQueue
<1>3. \A type : Once(p, type, c) /\ (e.type = type /\ e.cid = c => ~InQueue(p, type, c)) =>
        Once(q, type, c)
  <2> SUFFICES ASSUME NEW type, Once(p, type, c),
                      e.type = type /\ e.cid = c => ~InQueue(p, type, c),
                      NEW i \in 1 .. Len(q), NEW j \in 1 .. Len(q),
                      q[i].type = type, q[j].type = type, q[i].cid = c, q[j].cid = c
               PROVE  i = j
    BY DEF Once
  <2>1. CASE i \in 1 .. Len(p) /\ j \in 1 .. Len(p) BY <1>1, <2>1 DEF Once
  <2>2. CASE i = Len(p) + 1 /\ j \in 1 .. Len(p) BY <1>1, <2>2 DEF InQueue
  <2>3. CASE j = Len(p) + 1 /\ i \in 1 .. Len(p) BY <1>1, <2>3 DEF InQueue
  <2> QED BY <1>1, <2>1, <2>2, <2>3
<1>4. ASSUME AckFirst(p, c), e.type = "REINVITE" /\ e.cid = c => InQueue(p, "ACK", c)
      PROVE  AckFirst(q, c)
  <2> SUFFICES ASSUME NEW j \in 1 .. Len(q), q[j].type = "REINVITE", q[j].cid = c
               PROVE  \E i \in 1 .. Len(q) : i < j /\ q[i].type = "ACK" /\ q[i].cid = c
    BY DEF AckFirst
  <2>1. CASE j \in 1 .. Len(p)
    <3>1. PICK i \in 1 .. Len(p) : i < j /\ p[i].type = "ACK" /\ p[i].cid = c
      BY <1>1, <1>4, <2>1 DEF AckFirst
    <3> QED BY <1>1, <3>1
  <2>2. CASE j = Len(p) + 1
    <3>1. PICK i \in 1 .. Len(p) : p[i].type = "ACK" /\ p[i].cid = c
      BY <1>1, <1>4, <2>2 DEF InQueue
    <3> QED BY <1>1, <2>2, <3>1
  <2> QED BY <1>1, <2>1, <2>2
<1> QED BY <1>2, <1>3, <1>4

\* An event for another call.
LEMMA OtherTalk ==
  ASSUME NEW p \in Seq(Events), NEW e \in Events, NEW q, q = Append(p, e), NEW c, e.cid # c,
         NEW k, NEW x, TalkOf(k, x, p, c)
  PROVE  TalkOf(k, x, q, c)
<1>0. /\ \A type : InQueue(q, type, c) <=> InQueue(p, type, c)
      /\ \A type : Once(p, type, c) => Once(q, type, c)
      /\ AckFirst(p, c) => AckFirst(q, c)
  BY Adding
<1>1. StreamInv(k) /\ DialogInv(x) BY DEF TalkOf
<1>2. OfferInv(k, x, q, c) BY <1>0 DEF TalkOf, OfferInv
<1>3. FreshInv(k, x, q, c) BY <1>0 DEF TalkOf, FreshInv
<1>4. RedirectInv(k, x, q, c) BY <1>0 DEF TalkOf, RedirectInv
<1>5. SilenceInv(k, x, q, c) BY <1>0 DEF TalkOf, SilenceInv
<1>6. AskedInv(k, x, q, c) BY <1>0 DEF TalkOf, AskedInv
<1>7. AgreedInv(k, x, q, c) BY <1>0 DEF TalkOf, AgreedInv
<1> QED BY <1>1, <1>2, <1>3, <1>4, <1>5, <1>6, <1>7 DEF TalkOf

-----------------------------------------------------------------------------
\* What the network does to a context, x before and y after, and to what is
\* queued for it: an event of this type is added, or none.
Adds(p, q, type, c) ==
  /\ \A any : InQueue(q, any, c) <=> InQueue(p, any, c) \/ any = type
  /\ \A any : any # type /\ Once(p, any, c) => Once(q, any, c)
  /\ Once(p, type, c) /\ ~InQueue(p, type, c) => Once(q, type, c)
  /\ AckFirst(p, c) /\ (type = "REINVITE" => InQueue(p, "ACK", c)) => AckFirst(q, c)

LEMMA AddsEvent ==
  ASSUME NEW p \in Seq(Events), NEW e \in Events, NEW q, q = Append(p, e), NEW c, e.cid = c
  PROVE  Adds(p, q, e.type, c)
<1>1. ASSUME NEW any PROVE InQueue(q, any, c) <=> InQueue(p, any, c) \/ any = e.type
  BY Adding
<1>2. ASSUME NEW any, Once(p, any, c), any = e.type => ~InQueue(p, any, c)
      PROVE  Once(q, any, c)
  BY <1>2, Adding
<1>3. ASSUME AckFirst(p, c), e.type = "REINVITE" => InQueue(p, "ACK", c)
      PROVE  AckFirst(q, c)
  BY <1>3, Adding
<1> QED BY <1>1, <1>2, <1>3 DEF Adds

\* The context is over, or the dialog is.
LEMMA ClosingTalk ==
  ASSUME NEW k \in CallRecords, NEW x, NEW p, NEW c, TalkOf(k, x, p, c), NEW q,
         \/ q = p
         \/ \E type \in {"FAILURE", "CLOSED", "RELEASED"} : Adds(p, q, type, c),
         NEW y, ~y.ack, y.stage \in {"refused", "failed", "closed", "released"},
         y.stage = "closed" => x.stage = "conf",
         y.re = "none" \/ (y.re = "out" /\ x.re = "out" /\ y.stage = "closed"),
         y.offer = x.offer, y.told = x.told
  PROVE  TalkOf(k, y, q, c)
<1>0. /\ \A type : InQueue(p, type, c) => InQueue(q, type, c)
      /\ \A type \in {"ACK", "ANSWERED", "REINVITE", "RINGING"} :
           (InQueue(q, type, c) => InQueue(p, type, c)) /\ (Once(p, type, c) => Once(q, type, c))
      /\ AckFirst(p, c) => AckFirst(q, c)
  BY DEF Adds
<1>1. StreamInv(k) /\ DialogInv(y) BY DEF TalkOf, DialogInv
<1>2. OfferInv(k, y, q, c) BY <1>0 DEF TalkOf, OfferInv
<1>3. FreshInv(k, y, q, c) BY <1>0 DEF TalkOf, FreshInv
<1>4. RedirectInv(k, y, q, c) BY <1>0 DEF TalkOf, RedirectInv
<1>5. SilenceInv(k, y, q, c) BY <1>0 DEF TalkOf, SilenceInv
<1>6. AskedInv(k, y, q, c) BY DEF AskedInv
<1>7. AgreedInv(k, y, q, c) BY <1>0 DEF TalkOf, AgreedInv
<1> QED BY <1>1, <1>2, <1>3, <1>4, <1>5, <1>6, <1>7 DEF TalkOf

\* A provisional response, for a call that is going out or is over.
LEMMA ProvisionalTalk ==
  ASSUME NEW k \in CallRecords, NEW x, NEW p, NEW c, TalkOf(k, x, p, c),
         NEW q, NEW type \in Provisional, Adds(p, q, type, c),
         x.stage \in {"calling", "early"}, NEW y, y.stage = "early",
         y.ack = x.ack, y.re = x.re, y.offer = x.offer, y.told = x.told
  PROVE  TalkOf(k, y, q, c)
<1>0. /\ \A any \in {"ACK", "ANSWERED", "REINVITE"} :
           (InQueue(q, any, c) => InQueue(p, any, c)) /\ (Once(p, any, c) => Once(q, any, c))
      /\ AckFirst(p, c) => AckFirst(q, c)
  BY DEF Adds, Provisional
<1>1. StreamInv(k) /\ DialogInv(y) BY DEF TalkOf, DialogInv
<1>2. OfferInv(k, y, q, c) BY <1>0 DEF TalkOf, OfferInv
<1>3. FreshInv(k, y, q, c) BY <1>0 DEF TalkOf, FreshInv
<1>4. RedirectInv(k, y, q, c) BY DEF TalkOf, RedirectInv
<1>5. SilenceInv(k, y, q, c) BY <1>0 DEF TalkOf, SilenceInv
<1>6. AskedInv(k, y, q, c) BY DEF AskedInv
<1>7. AgreedInv(k, y, q, c) BY <1>0 DEF TalkOf, AgreedInv
<1> QED BY <1>1, <1>2, <1>3, <1>4, <1>5, <1>6, <1>7 DEF TalkOf

\* The answer of the peer to our INVITE: only provisional responses were queued.
LEMMA AnswerTalk ==
  ASSUME NEW k \in CallRecords, NEW x, NEW p, NEW c, TalkOf(k, x, p, c),
         k.state \in Dialled, \A type : InQueue(p, type, c) => type \in Provisional,
         NEW q, Adds(p, q, "ANSWERED", c),
         x.stage \in {"calling", "early"}, NEW y, y.stage = "conf",
         y.ack = x.ack, y.re = x.re, y.offer = x.offer, y.told = x.offer
  PROVE  TalkOf(k, y, q, c)
<1> USE DEF Dialled, Live, Outgoing, Incoming, Ended, Over
<1>0. /\ \A type \in {"ACK", "ANSWERED", "REINVITE", "FAILURE", "CLOSED", "RELEASED"} :
           ~InQueue(p, type, c)
      /\ \A type \in {"ACK", "REINVITE", "FAILURE", "CLOSED", "RELEASED"} : ~InQueue(q, type, c)
      /\ InQueue(q, "ANSWERED", c)
      /\ Once(q, "ANSWERED", c)
      /\ Once(q, "ACK", c)
  <2>1. \A type \in {"ACK", "ANSWERED", "REINVITE", "FAILURE", "CLOSED", "RELEASED"} :
          ~InQueue(p, type, c)
    BY DEF Provisional
  <2>2. \A type : ~InQueue(p, type, c) => Once(p, type, c) BY DEF InQueue, Once
  <2> QED BY <2>1, <2>2 DEF Adds
<1>1. StreamInv(k) /\ DialogInv(y) BY DEF TalkOf, DialogInv
<1>2. OfferInv(k, y, q, c) BY DEF OfferInv
<1>3. FreshInv(k, y, q, c) BY DEF FreshInv
<1>4. RedirectInv(k, y, q, c) BY DEF TalkOf, RedirectInv
<1>5. SilenceInv(k, y, q, c) BY <1>0 DEF TalkOf, SilenceInv, DialogInv
<1>6. AskedInv(k, y, q, c) BY <1>0 DEF TalkOf, AskedInv, DialogInv
<1>7. AgreedInv(k, y, q, c) BY <1>0 DEF TalkOf, AgreedInv, DialogInv
<1> QED BY <1>1, <1>2, <1>3, <1>4, <1>5, <1>6, <1>7 DEF TalkOf

\* The answer of the peer to a re-INVITE of ours.
LEMMA ReanswerTalk ==
  ASSUME NEW k \in CallRecords, NEW x, NEW p, NEW c, TalkOf(k, x, p, c),
         NEW q, Adds(p, q, "ANSWERED", c), x.stage = "conf", x.re = "out",
         NEW y, y.stage = "conf", y.re = "none", y.ack = x.ack,
         y.offer = x.offer, y.told = x.offer
  PROVE  TalkOf(k, y, q, c)
<1> USE DEF Outgoing, Incoming, Ended, Over
<1>0. /\ \A type : type # "ANSWERED" =>
           (InQueue(q, type, c) <=> InQueue(p, type, c)) /\ (Once(p, type, c) => Once(q, type, c))
      /\ InQueue(q, "ANSWERED", c)
      /\ ~InQueue(p, "ANSWERED", c) /\ Once(p, "ANSWERED", c) => Once(q, "ANSWERED", c)
  BY DEF Adds
<1>1. StreamInv(k) /\ DialogInv(y) BY DEF TalkOf, DialogInv
<1>2. OfferInv(k, y, q, c) BY DEF TalkOf, OfferInv
<1>3. FreshInv(k, y, q, c) BY <1>0 DEF TalkOf, FreshInv
<1>4. RedirectInv(k, y, q, c) BY <1>0 DEF TalkOf, RedirectInv
<1>5. SilenceInv(k, y, q, c) BY <1>0 DEF TalkOf, SilenceInv
<1>6. AskedInv(k, y, q, c) BY <1>0 DEF TalkOf, AskedInv
<1>7. AgreedInv(k, y, q, c) BY <1>0 DEF TalkOf, AgreedInv
<1> QED BY <1>1, <1>2, <1>3, <1>4, <1>5, <1>6, <1>7 DEF TalkOf

\* The peer refuses a re-INVITE of ours.
LEMMA RerefusalTalk ==
  ASSUME "refusal" \in Features,
         NEW k \in CallRecords, NEW x, NEW p, NEW c, TalkOf(k, x, p, c),
         NEW q, Adds(p, q, "FAILURE", c), x.stage \in {"conf", "closed"},
         NEW y, y.stage = x.stage, y.re = "none", y.ack = x.ack,
         y.offer = x.offer, y.told = x.told
  PROVE  TalkOf(k, y, q, c)
<1>0. /\ \A type : type # "FAILURE" =>
           (InQueue(q, type, c) <=> InQueue(p, type, c)) /\ (Once(p, type, c) => Once(q, type, c))
      /\ AckFirst(p, c) => AckFirst(q, c)
  BY DEF Adds
<1>1. StreamInv(k) /\ DialogInv(y) BY DEF TalkOf, DialogInv
<1>2. OfferInv(k, y, q, c) BY <1>0 DEF TalkOf, OfferInv
<1>3. FreshInv(k, y, q, c) BY <1>0 DEF TalkOf, FreshInv
<1>4. RedirectInv(k, y, q, c) BY <1>0 DEF TalkOf, RedirectInv
<1>5. SilenceInv(k, y, q, c) BY <1>0 DEF TalkOf, SilenceInv
<1>6. AskedInv(k, y, q, c) BY DEF AskedInv
<1>7. AgreedInv(k, y, q, c) BY <1>0 DEF TalkOf, AgreedInv
<1> QED BY <1>1, <1>2, <1>3, <1>4, <1>5, <1>6, <1>7 DEF TalkOf

\* A re-INVITE of the peer, who sends none before its ACK.
LEMMA ReinvitedTalk ==
  ASSUME "reinvite" \in Features,
         NEW k \in CallRecords, NEW x, NEW p, NEW c, TalkOf(k, x, p, c),
         NEW q, Adds(p, q, "REINVITE", c), x.stage = "conf", ~x.ack,
         NEW y, y.stage = "conf", y.re = "in", y.ack = x.ack
  PROVE  TalkOf(k, y, q, c)
<1>0. \A type : type # "REINVITE" => (InQueue(q, type, c) <=> InQueue(p, type, c)) BY DEF Adds
<1>1. StreamInv(k) /\ DialogInv(y) BY DEF TalkOf, DialogInv
<1>2. OfferInv(k, y, q, c)
  <2> SUFFICES ASSUME k.state = "Connected" PROVE OfferInv(k, y, q, c) BY DEF OfferInv
  <2>1. /\ k.media_pending /\ ~InQueue(p, "ANSWERED", c) /\ InQueue(p, "ACK", c)
        /\ AckFirst(p, c)
    BY DEF TalkOf, OfferInv
  <2>2. AckFirst(q, c) BY <2>1 DEF Adds
  <2> QED BY <1>0, <2>1, <2>2 DEF OfferInv
<1>3. FreshInv(k, y, q, c) BY <1>0 DEF TalkOf, FreshInv
<1>4. RedirectInv(k, y, q, c) BY DEF TalkOf, RedirectInv
<1>5. SilenceInv(k, y, q, c) BY DEF SilenceInv
<1>6. AskedInv(k, y, q, c) BY <1>0 DEF TalkOf, AskedInv
<1>7. AgreedInv(k, y, q, c) BY DEF AgreedInv
<1> QED BY <1>1, <1>2, <1>3, <1>4, <1>5, <1>6, <1>7 DEF TalkOf

\* The ACK of the peer.
LEMMA AckTalk ==
  ASSUME NEW k \in CallRecords, NEW x, NEW p, NEW c, TalkOf(k, x, p, c),
         NEW q, Adds(p, q, "ACK", c), x.ack, NEW y, y.stage = x.stage, y.re = x.re, ~y.ack,
         y.offer = x.offer, y.told = x.told
  PROVE  TalkOf(k, y, q, c)
<1>0. /\ \A type : type # "ACK" =>
           (InQueue(q, type, c) <=> InQueue(p, type, c)) /\ (Once(p, type, c) => Once(q, type, c))
      /\ InQueue(q, "ACK", c)
      /\ ~InQueue(p, "ACK", c) /\ Once(p, "ACK", c) => Once(q, "ACK", c)
      /\ AckFirst(p, c) => AckFirst(q, c)
      /\ x.stage = "conf"
  BY DEF Adds, TalkOf, DialogInv
<1>1. StreamInv(k) /\ DialogInv(y) BY DEF TalkOf, DialogInv
<1>2. OfferInv(k, y, q, c) BY <1>0 DEF TalkOf, OfferInv
<1>3. FreshInv(k, y, q, c) BY <1>0 DEF TalkOf, FreshInv
<1>4. RedirectInv(k, y, q, c) BY <1>0 DEF TalkOf, RedirectInv
<1>5. SilenceInv(k, y, q, c) BY <1>0 DEF TalkOf, SilenceInv
<1>6. AskedInv(k, y, q, c) BY <1>0 DEF TalkOf, AskedInv
<1>7. AgreedInv(k, y, q, c) BY <1>0 DEF TalkOf, AgreedInv
<1> QED BY <1>1, <1>2, <1>3, <1>4, <1>5, <1>6, <1>7 DEF TalkOf

\* A transfer is asked for.
LEMMA ReferredTalk ==
  ASSUME NEW k \in CallRecords, NEW x, NEW p, NEW c, TalkOf(k, x, p, c),
         NEW q, Adds(p, q, "REFER", c)
  PROVE  TalkOf(k, x, q, c)
<1>0. /\ \A type : type # "REFER" =>
           (InQueue(q, type, c) <=> InQueue(p, type, c)) /\ (Once(p, type, c) => Once(q, type, c))
      /\ AckFirst(p, c) => AckFirst(q, c)
  BY DEF Adds
<1>1. StreamInv(k) /\ DialogInv(x) BY DEF TalkOf
<1>2. OfferInv(k, x, q, c) BY <1>0 DEF TalkOf, OfferInv
<1>3. FreshInv(k, x, q, c) BY <1>0 DEF TalkOf, FreshInv
<1>4. RedirectInv(k, x, q, c) BY <1>0 DEF TalkOf, RedirectInv
<1>5. SilenceInv(k, x, q, c) BY <1>0 DEF TalkOf, SilenceInv
<1>6. AskedInv(k, x, q, c) BY <1>0 DEF TalkOf, AskedInv
<1>7. AgreedInv(k, x, q, c) BY <1>0 DEF TalkOf, AgreedInv
<1> QED BY <1>1, <1>2, <1>3, <1>4, <1>5, <1>6, <1>7 DEF TalkOf

\* A call of the peer, for an object that was not used yet.
LEMMA OfferedTalk ==
  ASSUME NEW k \in CallRecords, k.state = "Idle", NEW x, NEW p, NEW c, TalkOf(k, x, p, c),
         Nothing(p, c), NEW q, Adds(p, q, "INVITE", c),
         NEW y, y.stage = "incoming", y.re = "none", ~y.ack
  PROVE  TalkOf(k, y, q, c)
<1> USE DEF Live, Outgoing, Incoming, Ended, Over
<1>0. /\ \A type : type # "INVITE" => ~InQueue(q, type, c) /\ Once(q, type, c)
  BY NothingQueued DEF Adds
<1>1. StreamInv(k) /\ DialogInv(y) BY DEF TalkOf, DialogInv
<1>2. OfferInv(k, y, q, c) BY <1>0 DEF TalkOf, OfferInv
<1>3. FreshInv(k, y, q, c) BY <1>0 DEF TalkOf, FreshInv
<1>4. RedirectInv(k, y, q, c) BY <1>0 DEF TalkOf, RedirectInv
<1>5. SilenceInv(k, y, q, c) BY <1>0 DEF TalkOf, SilenceInv
<1>6. AskedInv(k, y, q, c) BY <1>0 DEF TalkOf, AskedInv
<1>7. AgreedInv(k, y, q, c) BY <1>0 DEF TalkOf, AgreedInv
<1> QED BY <1>1, <1>2, <1>3, <1>4, <1>5, <1>6, <1>7 DEF TalkOf

LEMMA TypedNow ==
  ASSUME IndInv
  PROVE  /\ Now \in States /\ evq \in Seq(Events)
         /\ \A c \in Calls : /\ call[c] \in CallRecords /\ ctx[c] \in Contexts
                             /\ CallInv(call[c], ctx[c]) /\ WaitInv(call[c], ctx[c], evq, c)
         /\ calls \subseteq Calls /\ current \in Calls \cup {NoCall}
         /\ \A c \in Calls : c \in calls <=> call[c].state \in Live
         /\ \A c \in calls : call[c].op /\ ~call[c].terminated
<1>1. Now \in States BY DEF IndInv, LifeInv, TypeOK
<1>2. /\ Now.evq = evq /\ Now.call = call /\ Now.ctx = ctx /\ Now.calls = calls
      /\ Now.current = current
  BY DEF Now
<1>3. /\ \A c \in Calls : CallInv(call[c], ctx[c]) /\ WaitInv(call[c], ctx[c], evq, c)
      /\ \A c \in Calls : c \in calls <=> call[c].state \in Live
      /\ \A c \in calls : call[c].op
  BY <1>2 DEF IndInv, LifeInv, ListInv, ReferenceInv
<1>4. /\ evq \in Seq(Events) /\ calls \subseteq Calls /\ current \in Calls \cup {NoCall}
      /\ \A c \in Calls : call[c] \in CallRecords /\ ctx[c] \in Contexts
  BY <1>1, <1>2, StateFields
<1>5. ASSUME NEW c \in calls PROVE ~call[c].terminated
  <2>1. c \in Calls /\ call[c].op /\ call[c].state \notin Ended
    BY <1>3, <1>4 DEF Live, Ended, Outgoing, Incoming
  <2> QED BY <1>3, <2>1 DEF CallInv
<1> QED BY <1>1, <1>3, <1>4, <1>5

LEMMA ReportTalk ==
  ASSUME IndInv, TalkInv, NEW c \in Calls, NEW y, NEW type, NEW arg,
         Event(type, c, arg) \in Events, Report(c, y, type, arg),
         Adds(evq, evq', type, c) => TalkOf(call[c], y, evq', c)
  PROVE  TalkInv'
<1> DEFINE e == Event(type, c, arg)
<1>1. /\ evq \in Seq(Events) /\ e \in Events /\ e.type = type /\ e.cid = c
      /\ Now \in States
  BY TypedNow DEF Event
<1>2. /\ ctx' = [ctx EXCEPT ![c] = y] /\ evq' = Append(evq, e) /\ call' = call
  BY DEF Report
<1>3. ctx'[c] = y /\ \A d \in Calls : d # c => ctx'[d] = ctx[d]
  <2>1. ctx \in [Calls -> Contexts] BY <1>1 DEF Now, States
  <2> QED BY <1>2, <2>1
<1> HIDE DEF e
<1>4. Adds(evq, evq', type, c) BY <1>1, <1>2, AddsEvent
<1>5. ASSUME NEW d \in Calls, d # c PROVE TalkOf(call[d], ctx[d], evq', d)
  BY <1>1, <1>2, <1>5, OtherTalk DEF TalkInv
<1> QED BY <1>2, <1>3, <1>4, <1>5 DEF TalkInv

LEMMA MoveTalk ==
  ASSUME IndInv, TalkInv, NEW c \in Calls, NEW y, Move(c, y), TalkOf(call[c], y, evq, c)
  PROVE  TalkInv'
<1>1. /\ ctx' = [ctx EXCEPT ![c] = y] /\ evq' = evq /\ call' = call BY DEF Move
<1>2. ctx'[c] = y /\ \A d \in Calls : d # c => ctx'[d] = ctx[d]
  <2>1. ctx \in [Calls -> Contexts] BY TypedNow DEF Now, States
  <2> QED BY <1>1, <2>1
<1> QED BY <1>1, <1>2 DEF TalkInv

LEMMA DialogTalk ==
  ASSUME IndInv, TalkInv, NEW c \in Calls,
         \/ PeerCancel(c) \/ PeerBye(c) \/ PeerRefuseReinvite(c) \/ PeerRefer(c)
         \/ \E md \in Answers : PeerAcceptReinvite(c, md) \/ PeerAck(c, md)
         \/ \E md \in Offers : PeerReinvite(c, md)
  PROVE  TalkInv'
<1> DEFINE x == ctx[c]
           k == call[c]
<1>1. x \in Contexts /\ k \in CallRecords /\ TalkOf(k, x, evq, c) BY TypedNow DEF TalkInv
<1>2. Answers \subseteq Descriptions /\ Offers \subseteq Descriptions /\ "None" \in Descriptions
  BY ConstantsAssumption DEF Descriptions
<1>3. {"CLOSED", "FAILURE", "REFER", "ANSWERED", "ACK", "REINVITE"} \subseteq EventTypes
      /\ "Other" \in Failures
  BY DEF EventTypes, Failures
<1>4. x.ack => x.stage = "conf" BY <1>1 DEF TalkOf, DialogInv
<1>5. CASE PeerCancel(c)
  <2> DEFINE y == eXosip_call_refuse(x)
  <2>1. Move(c, y) /\ x.stage = "incoming" BY <1>5 DEF PeerCancel
  <2>2. /\ y.stage = "refused" /\ y.re = x.re /\ y.ack = x.ack /\ y.offer = x.offer
        /\ y.told = x.told
    BY <1>1, <2>1, ClosedEndable
  <2> HIDE DEF y
  <2>3. x.re = "none" BY <1>1, <2>1 DEF TalkOf, DialogInv
  <2>4. TalkOf(k, y, evq, c) BY <1>1, <1>4, <2>1, <2>2, <2>3, ClosingTalk
  <2> QED BY <2>1, <2>4, MoveTalk
<1>6. CASE PeerBye(c)
  <2> DEFINE y == eXosip_call_terminate(x, TRUE)
  <2>1. Report(c, y, "CLOSED", "None") /\ x.stage = "conf" BY <1>6 DEF PeerBye
  <2>2. /\ y.stage = "closed" /\ y.ack = FALSE /\ y.re = (IF x.re = "in" THEN "none" ELSE x.re)
        /\ y.offer = x.offer /\ y.told = x.told
    BY <1>1, <2>1 DEF eXosip_call_terminate, Contexts
  <2> HIDE DEF y
  <2>3. y.re = "none" \/ (y.re = "out" /\ x.re = "out") BY <1>1, <2>2 DEF Contexts
  <2>4. Event("CLOSED", c, "None") \in Events BY <1>2, <1>3, EventTyped
  <2>5. ASSUME Adds(evq, evq', "CLOSED", c) PROVE TalkOf(k, y, evq', c)
    BY <1>1, <2>1, <2>2, <2>3, <2>5, ClosingTalk
  <2> QED BY <2>1, <2>4, <2>5, ReportTalk
<1>7. CASE PeerRefuseReinvite(c)
  <2> DEFINE y == [x EXCEPT !.re = "none"]
  <2>1. /\ Report(c, y, "FAILURE", "Other") /\ "refusal" \in Features
        /\ x.stage \in {"conf", "closed"}
    BY <1>7 DEF PeerRefuseReinvite
  <2>2. /\ y.stage = x.stage /\ y.re = "none" /\ y.ack = x.ack /\ y.offer = x.offer
        /\ y.told = x.told
    BY <1>1 DEF Contexts
  <2> HIDE DEF y
  <2>3. Event("FAILURE", c, "Other") \in Events BY <1>3, EventTyped
  <2>4. ASSUME Adds(evq, evq', "FAILURE", c) PROVE TalkOf(k, y, evq', c)
    BY <1>1, <2>1, <2>2, <2>4, RerefusalTalk
  <2> QED BY <2>1, <2>3, <2>4, ReportTalk
<1>8. CASE PeerRefer(c)
  <2>1. Report(c, x, "REFER", "None") BY <1>8 DEF PeerRefer
  <2>2. Event("REFER", c, "None") \in Events BY <1>2, <1>3, EventTyped
  <2>3. ASSUME Adds(evq, evq', "REFER", c) PROVE TalkOf(k, x, evq', c)
    BY <1>1, <2>3, ReferredTalk
  <2> QED BY <2>1, <2>2, <2>3, ReportTalk
<1>9. ASSUME NEW md \in Answers, PeerAcceptReinvite(c, md)
      PROVE  TalkInv'
  <2> DEFINE y == [x EXCEPT !.re = "none", !.told = x.offer]
  <2>1. Report(c, y, "ANSWERED", md) /\ x.stage = "conf" /\ x.re = "out"
    BY <1>9 DEF PeerAcceptReinvite
  <2>2. /\ y.stage = "conf" /\ y.re = "none" /\ y.ack = x.ack /\ y.offer = x.offer
        /\ y.told = x.offer
    BY <1>1, <2>1 DEF Contexts
  <2> HIDE DEF y
  <2>3. Event("ANSWERED", c, md) \in Events BY <1>2, <1>3, EventTyped
  <2>4. ASSUME Adds(evq, evq', "ANSWERED", c) PROVE TalkOf(k, y, evq', c)
    BY <1>1, <2>1, <2>2, <2>4, ReanswerTalk
  <2> QED BY <2>1, <2>3, <2>4, ReportTalk
<1>10. ASSUME NEW md \in Answers, PeerAck(c, md)
       PROVE  TalkInv'
  <2> DEFINE y == [x EXCEPT !.ack = FALSE]
  <2>1. Report(c, y, "ACK", md) /\ x.ack BY <1>10 DEF PeerAck
  <2>2. /\ y.stage = x.stage /\ y.re = x.re /\ y.ack = FALSE /\ y.offer = x.offer
        /\ y.told = x.told
    BY <1>1 DEF Contexts
  <2> HIDE DEF y
  <2>3. Event("ACK", c, md) \in Events BY <1>2, <1>3, EventTyped
  <2>4. ASSUME Adds(evq, evq', "ACK", c) PROVE TalkOf(k, y, evq', c)
    BY <1>1, <2>1, <2>2, <2>4, AckTalk
  <2> QED BY <2>1, <2>3, <2>4, ReportTalk
<1>11. ASSUME NEW md \in Offers, PeerReinvite(c, md)
       PROVE  TalkInv'
  <2> DEFINE y == [x EXCEPT !.re = "in"]
  <2>1. /\ Report(c, y, "REINVITE", md) /\ x.stage = "conf" /\ ~x.ack
        /\ "reinvite" \in Features
    BY <1>11 DEF PeerReinvite, CanReinvite
  <2>2. y.stage = "conf" /\ y.re = "in" /\ y.ack = x.ack BY <1>1, <2>1 DEF Contexts
  <2> HIDE DEF y
  <2>3. Event("REINVITE", c, md) \in Events BY <1>2, <1>3, EventTyped
  <2>4. ASSUME Adds(evq, evq', "REINVITE", c) PROVE TalkOf(k, y, evq', c)
    BY <1>1, <2>1, <2>2, <2>4, ReinvitedTalk
  <2> QED BY <2>1, <2>3, <2>4, ReportTalk
<1> QED BY <1>5, <1>6, <1>7, <1>8, <1>9, <1>10, <1>11

LEMMA StagesTalk ==
  ASSUME IndInv, TalkInv, NEW c \in Calls,
         \/ PeerTrying(c)
         \/ \E md \in Answers \cup {"None"} : PeerRinging(c, md)
         \/ \E md \in Answers : PeerAnswer(c, md)
         \/ \E failure \in Failures \ {"NoResponse"} : PeerRefuse(c, failure)
         \/ RefusalSent(c) \/ NoAnswer(c) \/ Release(c)
  PROVE  TalkInv'
<1> DEFINE x == ctx[c]
           k == call[c]
<1>1. x \in Contexts /\ k \in CallRecords /\ TalkOf(k, x, evq, c) BY TypedNow DEF TalkInv
<1>2. Answers \subseteq Descriptions /\ "None" \in Descriptions
  BY ConstantsAssumption DEF Descriptions
<1>3. /\ {"PROCEEDING", "RINGING", "ANSWERED", "FAILURE", "CLOSED", "RELEASED"} \subseteq EventTypes
      /\ "NoResponse" \in Failures
  BY DEF EventTypes, Failures
<1>4. (x.ack => x.stage = "conf") /\ (x.re # "none" => x.stage \in {"conf", "closed"})
  BY <1>1 DEF TalkOf, DialogInv
<1>5. x.stage \in {"calling", "early"} =>
        k.state \in Dialled /\ \A type : InQueue(evq, type, c) => type \in Provisional
  <2>1. WaitInv(k, x, evq, c) /\ OrderInv(evq, ctx) BY TypedNow DEF IndInv
  <2> QED BY <2>1 DEF WaitInv, Dialled, OrderInv, InQueue
<1>6. ASSUME NEW md \in Answers \cup {"None"}, PeerTrying(c) \/ PeerRinging(c, md)
      PROVE  TalkInv'
  <2> DEFINE y == [x EXCEPT !.stage = "early"]
  <2>1. PICK type \in Provisional, arg \in Descriptions :
          Report(c, y, type, arg) /\ x.stage \in {"calling", "early"}
    BY <1>2, <1>6 DEF PeerTrying, PeerRinging, Provisional
  <2>2. /\ y.stage = "early" /\ y.ack = x.ack /\ y.re = x.re /\ y.offer = x.offer
        /\ y.told = x.told
    BY <1>1 DEF Contexts
  <2> HIDE DEF y
  <2>3. Event(type, c, arg) \in Events BY <1>3, EventTyped DEF Provisional
  <2>4. ASSUME Adds(evq, evq', type, c) PROVE TalkOf(k, y, evq', c)
    BY <1>1, <2>1, <2>2, <2>4, ProvisionalTalk
  <2> QED BY <2>1, <2>3, <2>4, ReportTalk
<1>7. ASSUME NEW md \in Answers, PeerAnswer(c, md)
      PROVE  TalkInv'
  <2> DEFINE y == [x EXCEPT !.stage = "conf", !.told = x.offer]
  <2>1. Report(c, y, "ANSWERED", md) /\ x.stage \in {"calling", "early"} BY <1>7 DEF PeerAnswer
  <2>2. /\ y.stage = "conf" /\ y.ack = x.ack /\ y.re = x.re /\ y.offer = x.offer
        /\ y.told = x.offer
    BY <1>1 DEF Contexts
  <2> HIDE DEF y
  <2>3. Event("ANSWERED", c, md) \in Events BY <1>2, <1>3, EventTyped
  <2>4. ASSUME Adds(evq, evq', "ANSWERED", c) PROVE TalkOf(k, y, evq', c)
    BY <1>1, <1>5, <2>1, <2>2, <2>4, AnswerTalk
  <2> QED BY <2>1, <2>3, <2>4, ReportTalk
<1>8. ASSUME NEW failure \in Failures, x.stage \in {"calling", "early", "incoming"},
             Move(c, [x EXCEPT !.stage = "failed"])
               \/ Report(c, [x EXCEPT !.stage = "failed"], "FAILURE", failure)
      PROVE  TalkInv'
  <2> DEFINE y == [x EXCEPT !.stage = "failed"]
  <2>1. Move(c, y) \/ Report(c, y, "FAILURE", failure) BY <1>8
  <2>2. /\ y.stage = "failed" /\ y.ack = x.ack /\ y.re = x.re /\ y.offer = x.offer
        /\ y.told = x.told
    BY <1>1 DEF Contexts
  <2> HIDE DEF y
  <2>3. ~y.ack /\ y.re = "none" BY <1>4, <1>8, <2>2
  <2>4. CASE Move(c, y)
    <3>1. TalkOf(k, y, evq, c) BY <1>1, <2>2, <2>3, ClosingTalk
    <3> QED BY <2>4, <3>1, MoveTalk
  <2>5. CASE Report(c, y, "FAILURE", failure)
    <3>1. Event("FAILURE", c, failure) \in Events BY <1>3, EventTyped
    <3>2. ASSUME Adds(evq, evq', "FAILURE", c) PROVE TalkOf(k, y, evq', c)
      BY <1>1, <2>2, <2>3, <3>2, ClosingTalk
    <3> QED BY <2>5, <3>1, <3>2, ReportTalk
  <2> QED BY <2>1, <2>4, <2>5
<1>9. ASSUME NEW failure \in Failures \ {"NoResponse"}, PeerRefuse(c, failure)
      PROVE  TalkInv'
  BY <1>8, <1>9 DEF PeerRefuse
<1>10. CASE NoAnswer(c)
  BY <1>3, <1>8, <1>10 DEF NoAnswer
<1>11. CASE RefusalSent(c)
  <2> DEFINE y == [x EXCEPT !.stage = "failed"]
  <2>1. Report(c, y, "CLOSED", "None") /\ x.stage = "refused" BY <1>11 DEF RefusalSent
  <2>2. /\ y.stage = "failed" /\ y.ack = x.ack /\ y.re = x.re /\ y.offer = x.offer
        /\ y.told = x.told
    BY <1>1 DEF Contexts
  <2> HIDE DEF y
  <2>3. ~y.ack /\ y.re = "none" BY <1>4, <2>1, <2>2
  <2>4. Event("CLOSED", c, "None") \in Events BY <1>2, <1>3, EventTyped
  <2>5. ASSUME Adds(evq, evq', "CLOSED", c) PROVE TalkOf(k, y, evq', c)
    BY <1>1, <2>2, <2>3, <2>5, ClosingTalk
  <2> QED BY <2>1, <2>4, <2>5, ReportTalk
<1>12. CASE Release(c)
  <2> DEFINE y == [x EXCEPT !.stage = "released", !.re = "none"]
  <2>1. Report(c, y, "RELEASED", "None") /\ x.stage \in {"failed", "closed"}
    BY <1>12 DEF Release
  <2>2. /\ y.stage = "released" /\ y.ack = x.ack /\ y.re = "none" /\ y.offer = x.offer
        /\ y.told = x.told
    BY <1>1 DEF Contexts
  <2> HIDE DEF y
  <2>3. ~y.ack BY <1>4, <2>1, <2>2
  <2>4. Event("RELEASED", c, "None") \in Events BY <1>2, <1>3, EventTyped
  <2>5. ASSUME Adds(evq, evq', "RELEASED", c) PROVE TalkOf(k, y, evq', c)
    BY <1>1, <2>2, <2>3, <2>5, ClosingTalk
  <2> QED BY <2>1, <2>4, <2>5, ReportTalk
<1> QED BY <1>6, <1>7, <1>9, <1>10, <1>11, <1>12

\* No event is queued for a context that was never opened.
LEMMA FreshNothing ==
  ASSUME IndInv, NEW c \in Calls, ctx[c].stage = "none"
  PROVE  Nothing(evq, c) /\ (evq # << >> => Nothing(Tail(evq), c))
<1>1. evq \in Seq(Events) BY TypedNow
<1>2. Nothing(evq, c) BY DEF Nothing, IndInv, OrderInv
<1> QED BY <1>1, <1>2, HeadOrTail DEF Nothing

LEMMA PeerInviteTalk ==
  ASSUME IndInv, TalkInv, NEW md \in Offers, PeerInvite(md)
  PROVE  TalkInv'
<1> DEFINE c == NextCall
           y == [NoContext EXCEPT !.stage = "incoming"]
<1>1. c \in Calls /\ Fresh(Now, c) BY NextCallFresh DEF PeerInvite
<1>2. Report(c, y, "INVITE", md) BY DEF PeerInvite
<1>3. y.stage = "incoming" /\ y.re = "none" /\ ~y.ack BY DEF NoContext
<1> HIDE DEF y, c
<1>4. /\ call[c].state = "Idle" /\ ctx[c].stage = "none" /\ call[c] \in CallRecords
      /\ TalkOf(call[c], ctx[c], evq, c)
  BY <1>1, TypedNow DEF Fresh, Now, TalkInv
<1>5. Event("INVITE", c, md) \in Events
  BY <1>1, ConstantsAssumption, EventTyped DEF EventTypes
<1>6. ASSUME Adds(evq, evq', "INVITE", c) PROVE TalkOf(call[c], y, evq', c)
  BY <1>1, <1>3, <1>4, <1>6, FreshNothing, OfferedTalk
<1> QED BY <1>1, <1>2, <1>5, <1>6, ReportTalk

-----------------------------------------------------------------------------
(***************************************************************************)
(* The handlers.  The event is the head of the queue p, for the call c of  *)
(* the state s; q is what it leaves behind.                                *)
(***************************************************************************)

Arrives(s, p, q, c, type) ==
  /\ p \in Seq(Events) /\ p # << >> /\ q = Tail(p)
  /\ Head(p).cid = c /\ Head(p).type = type
  /\ Fine(s, p, c) /\ CallInv(s.call[c], s.ctx[c]) /\ WaitInv(s.call[c], s.ctx[c], p, c)
  /\ s.call[c].state \in Live => s.call[c].op /\ ~s.call[c].terminated

\* The event is in the queue, and is gone.
LEMMA ArrivesQueued ==
  ASSUME NEW s \in States, NEW p, NEW q, NEW c, NEW type, Arrives(s, p, q, c, type)
  PROVE  InQueue(p, type, c)
<1>1. Len(p) \in Nat /\ 1 \in 1 .. Len(p) /\ p[1] = Head(p) BY DEF Arrives
<1> QED BY <1>1 DEF InQueue, Arrives

\* An event that changes nothing.
LEMMA IgnoredTalk ==
  ASSUME NEW s \in States, NEW p, NEW q, NEW c, NEW type, Arrives(s, p, q, c, type),
         type = "ACK" => s.call[c].state # "Connected",
         type = "ANSWERED" => s.ctx[c].stage # "conf"
  PROVE  Fine(s, q, c)
  BY PopTalk DEF Arrives, Fine

\* A call that is over, or unknown, hangs up.
LEMMA HungUpTalk ==
  ASSUME NEW k \in CallRecords, NEW x \in Contexts, NEW q, NEW c, TalkOf(k, x, q, c),
         k.state \notin Live,
         NEW y, y = eXosip_call_terminate(x, TRUE)
  PROVE  TalkOf(k, y, q, c) /\ y.stage # "conf" /\ y \in Contexts
<1> USE DEF Outgoing, Incoming, Live
<1>0. /\ StreamInv(k) /\ OfferInv(k, x, q, c) /\ FreshInv(k, x, q, c)
      /\ RedirectInv(k, x, q, c) /\ DialogInv(x) /\ SilenceInv(k, x, q, c)
      /\ AskedInv(k, x, q, c) /\ AgreedInv(k, x, q, c)
  BY DEF TalkOf
<1>1. Endable(x, q, c) BY TalkEndable
<1>2. /\ y \in Contexts /\ Endable(y, q, c)
      /\ y.stage = x.stage \/ (x.stage = "conf" /\ y.stage = "closed")
           \/ (x.stage = "incoming" /\ y.stage = "refused")
      /\ y.ack => x.ack
      /\ y.ack = x.ack \/ x.stage = "conf"
  BY <1>1, ClosedEndable
<1>3. y.stage \notin {"conf", "incoming"}
  BY DEF eXosip_call_terminate, eXosip_call_refuse, Contexts
<1> HIDE DEF Outgoing, Incoming, Live
<1>4. OfferInv(k, y, q, c) BY DEF OfferInv, Live
<1>5. FreshInv(k, y, q, c) BY <1>0, <1>2 DEF FreshInv, Live
<1>6. RedirectInv(k, y, q, c) BY <1>0, <1>2 DEF RedirectInv
<1>7. DialogInv(y) BY <1>2 DEF Endable
<1>8. SilenceInv(k, y, q, c) BY <1>0, <1>2 DEF SilenceInv, Endable
<1>9. AskedInv(k, y, q, c) BY <1>3 DEF AskedInv
<1>10. AgreedInv(k, y, q, c) BY DEF AgreedInv
<1> QED BY <1>0, <1>2, <1>3, <1>4, <1>5, <1>6, <1>7, <1>8, <1>9, <1>10 DEF TalkOf

LEMMA HangupTalk ==
  ASSUME NEW s \in States, NEW c \in Calls, NEW p, NEW q, NEW type, Arrives(s, p, q, c, type),
         ~s.call[c].op \/ s.call[c].terminated, type # "ACK"
  PROVE  LET t == Hangup(s, c) IN Spares(s, t, c) /\ Fine(t, q, c)
<1> DEFINE k == s.call[c]
           y == eXosip_call_terminate(s.ctx[c], TRUE)
           t == Signal(s, c, y)
<1>1. k \in CallRecords /\ s.ctx[c] \in Contexts BY StateFields
<1>2. k.state \notin Live BY DEF Arrives
<1>3. TalkOf(k, s.ctx[c], p, c) BY DEF Arrives, Fine
<1>4. TalkOf(k, y, p, c) /\ y.stage # "conf" /\ y \in Contexts BY <1>1, <1>2, <1>3, HungUpTalk
<1> HIDE DEF y, k
<1>5. TalkOf(k, y, q, c) BY <1>4, PopTalk DEF Arrives
<1>6. Touches(s, t, c) /\ t.ctx[c] = y /\ t.call = s.call BY <1>4, SignalTouches
<1>7. Hangup(s, c) = t BY DEF Hangup, y
<1> HIDE DEF t
<1> QED BY <1>5, <1>6, <1>7, TouchesSpares DEF Fine, k

LEMMA ProceedingTalk ==
  ASSUME NEW s \in States, NEW c \in Calls, NEW p, NEW q, Arrives(s, p, q, c, "PROCEEDING")
  PROVE  LET t == sal_call_proceeding(s, c) IN Spares(s, t, c) /\ Fine(t, q, c)
<1>1. CASE ~s.call[c].op \/ s.call[c].terminated
  BY <1>1, HangupTalk DEF sal_call_proceeding
<1>2. CASE ~(~s.call[c].op \/ s.call[c].terminated)
  <2>1. Fine(s, q, c) BY IgnoredTalk
  <2>2. Spares(s, s, c) BY DEF Spares
  <2> QED BY <1>2, <2>1, <2>2 DEF sal_call_proceeding
<1> QED BY <1>1, <1>2

-----------------------------------------------------------------------------
\* A call that goes out still does, with the same offer.
LEMMA GoingOutTalk ==
  ASSUME NEW k \in CallRecords, NEW x \in Contexts, NEW q, NEW c, TalkOf(k, x, q, c),
         k.state \in Outgoing, NEW l \in CallRecords, l.state \in Outgoing,
         l.local = k.local, l.did \/ l.did = k.did
  PROVE  TalkOf(l, x, q, c)
<1> USE DEF Outgoing
<1>0. /\ FreshInv(k, x, q, c) /\ DialogInv(x) /\ SilenceInv(k, x, q, c)
      /\ AskedInv(k, x, q, c) /\ AgreedInv(k, x, q, c)
  BY DEF TalkOf
<1>1. StreamInv(l) BY DEF StreamInv, Talking
<1>2. OfferInv(l, x, q, c) BY DEF OfferInv
<1>3. FreshInv(l, x, q, c) BY <1>0 DEF FreshInv, Incoming, Over, Ended
<1>4. RedirectInv(l, x, q, c) BY DEF RedirectInv, Ended
<1>5. SilenceInv(l, x, q, c) BY <1>0 DEF SilenceInv, Over, Ended
<1>6. AskedInv(l, x, q, c) BY <1>0 DEF AskedInv, Ended
<1>7. AgreedInv(l, x, q, c) BY <1>0 DEF AgreedInv, Live
<1> QED BY <1>0, <1>1, <1>2, <1>3, <1>4, <1>5, <1>6, <1>7 DEF TalkOf

\* SetDialog and SetAnswer.
Known(k) == [k EXCEPT !.did = TRUE]

Agrees(k, md) ==
  [k EXCEPT !.remote = md, !.result = offer_answer_initiate_outgoing(k.local, md)]

LEMMA KnownRecord ==
  ASSUME NEW k \in CallRecords
  PROVE  /\ Known(k) \in CallRecords /\ Known(k).did
         /\ Known(k).state = k.state /\ Known(k).op = k.op /\ Known(k).terminated = k.terminated
         /\ Known(k).media = k.media /\ Known(k).local = k.local
         /\ Known(k).remote = k.remote /\ Known(k).result = k.result /\ Known(k).desc = k.desc
         /\ Known(k).media_pending = k.media_pending
  BY DEF Known, CallRecords

LEMMA AgreesRecord ==
  ASSUME NEW k \in CallRecords, NEW md \in Descriptions
  PROVE  LET l == Agrees(k, md) IN
         /\ l \in CallRecords /\ l.remote = md
         /\ l.result = offer_answer_initiate_outgoing(k.local, md)
         /\ l.result \in Descriptions /\ l.result # "None"
         /\ l.did = k.did
         /\ l.state = k.state /\ l.op = k.op /\ l.terminated = k.terminated
         /\ l.media = k.media /\ l.local = k.local /\ l.desc = k.desc
         /\ l.media_pending = k.media_pending
<1>1. k.local \in Dirs BY DEF CallRecords
<1>2. /\ offer_answer_initiate_outgoing(k.local, md) \in Descriptions
      /\ offer_answer_initiate_outgoing(k.local, md) # "None"
  BY <1>1 DEF offer_answer_initiate_outgoing, compute_dir_outgoing, Dirs, Descriptions
<1> QED BY <1>2 DEF Agrees, CallRecords

LEMMA SetDialogTouches ==
  ASSUME NEW s \in States, NEW c \in Calls
  PROVE  LET t == SetDialog(s, c) IN
         /\ Touches(s, t, c) /\ t \in States /\ t.ctx = s.ctx
         /\ t.call[c] = Known(s.call[c])
         /\ t.calls = s.calls /\ t.current = s.current /\ t.ring = s.ring
<1>1. s.call[c] \in CallRecords BY StateFields
<1>2. Known(s.call[c]) \in CallRecords BY <1>1, KnownRecord
<1>3. SetDialog(s, c) = Store(s, c, Known(s.call[c])) BY DEF SetDialog, Known
<1> QED BY <1>2, <1>3, StoreTouches DEF Touches

LEMMA SetAnswerTouches ==
  ASSUME NEW s \in States, NEW c \in Calls, NEW md \in Descriptions
  PROVE  LET t == SetAnswer(s, c, md) IN
         /\ Touches(s, t, c) /\ t \in States /\ t.ctx = s.ctx
         /\ t.call[c] = Agrees(s.call[c], md)
         /\ t.calls = s.calls /\ t.current = s.current /\ t.ring = s.ring
<1>1. s.call[c] \in CallRecords BY StateFields
<1>2. Agrees(s.call[c], md) \in CallRecords BY <1>1, AgreesRecord
<1>3. SetAnswer(s, c, md) = Store(s, c, Agrees(s.call[c], md)) BY DEF SetAnswer, Agrees
<1> QED BY <1>2, <1>3, StoreTouches DEF Touches

\* What the streams become.
LEMMA WithStreamsRecord ==
  ASSUME NEW k \in CallRecords, NEW md \in Descriptions
  PROVE  LET l == WithStreams(k, md) IN
         /\ l \in CallRecords /\ l.desc = md /\ (l.media_pending <=> md = "None")
         /\ Usable(md) => l.media = "on" \/ l.desc = "Inactive"
         /\ l.state = k.state /\ l.op = k.op /\ l.terminated = k.terminated
         /\ l.did = k.did /\ l.local = k.local /\ l.remote = k.remote /\ l.result = k.result
  BY DEF WithStreams, CallRecords, linphone_call_start_media_streams, Usable,
         sal_media_description_empty

\* call_ringing, for a call that goes out.
LEMMA CallRingingTalk ==
  ASSUME NEW s \in States, NEW c \in Calls, NEW q, Fine(s, q, c), s.call[c].state \in Outgoing
  PROVE  LET t == call_ringing(s, c) IN Spares(s, t, c) /\ Fine(t, q, c)
<1> DEFINE k == s.call[c]
           md == k.result
           rings == [s EXCEPT !.ring = TRUE]
           ringing == linphone_call_set_state(rings, c, "OutgoingRinging")
           early == linphone_call_set_state(s, c, "OutgoingEarlyMedia")
           played == linphone_core_update_streams(early, c, md)
           k1 == [k EXCEPT !.state = "OutgoingRinging"]
           k2 == [k EXCEPT !.state = "OutgoingEarlyMedia"]
           k3 == WithStreams(k2, md)
<1>1. k \in CallRecords /\ s.ctx[c] \in Contexts /\ md \in Descriptions
  BY StateFields DEF CallRecords
<1>2. /\ k1 \in CallRecords /\ k1.state = "OutgoingRinging" /\ k1.local = k.local /\ k1.did = k.did
      /\ k2 \in CallRecords /\ k2.state = "OutgoingEarlyMedia" /\ k2.local = k.local
      /\ k2.did = k.did
  BY <1>1 DEF CallRecords, CallStates, Live, Outgoing
<1>3. k.state \notin Ended /\ {"OutgoingRinging", "OutgoingEarlyMedia"} \subseteq Live \cap Outgoing
  BY DEF Outgoing, Ended, Live
<1> HIDE DEF k1, k2
<1>4. k3 \in CallRecords /\ k3.state = "OutgoingEarlyMedia" /\ k3.local = k.local /\ k3.did = k.did
  BY <1>1, <1>2, WithStreamsRecord
<1>5. Touches(s, ringing, c) /\ ringing.ctx = s.ctx /\ ringing.call[c] = k1
  <2>1. rings \in States /\ rings.call = s.call /\ rings.ctx = s.ctx /\ Touches(s, rings, c)
    BY RingTouches
  <2> HIDE DEF rings
  <2>2. /\ Touches(rings, ringing, c) /\ ringing.ctx = rings.ctx
        /\ ringing.call[c] = [rings.call[c] EXCEPT !.state = "OutgoingRinging"]
    BY <1>3, <2>1, SetStateTouches
  <2> QED BY <2>1, <2>2, TouchesTwice DEF k1
<1>6. Touches(s, early, c) /\ early \in States /\ early.ctx = s.ctx /\ early.call[c] = k2
  BY <1>3, SetStateTouches DEF k2, Touches
<1> HIDE DEF early, k
<1>7. Touches(s, played, c) /\ played.ctx = s.ctx /\ played.call[c] = k3
  <2>1. /\ Touches(early, played, c) /\ played.ctx = early.ctx
        /\ played.call[c] = WithStreams(early.call[c], md)
    BY <1>1, <1>6, UpdateStreamsTouches
  <2> QED BY <1>6, <2>1, TouchesTwice
<1>8. call_ringing(s, c) \in {s, ringing, played}
  BY DEF call_ringing, ringing, played, early, k
<1> HIDE DEF ringing, played, k3, md
<1>9. \A l \in {k1, k3} : TalkOf(l, s.ctx[c], q, c)
  BY <1>1, <1>2, <1>3, <1>4, GoingOutTalk DEF Fine, k
<1>10. Spares(s, s, c) BY DEF Spares
<1> QED BY <1>5, <1>7, <1>8, <1>9, <1>10, TouchesSpares DEF Fine

LEMMA RingingTalk ==
  ASSUME NEW s \in States, NEW c \in Calls, NEW p, NEW q, Arrives(s, p, q, c, "RINGING"),
         NEW md \in Descriptions
  PROVE  LET t == sal_call_ringing(s, c, md) IN Spares(s, t, c) /\ Fine(t, q, c)
<1> DEFINE k == s.call[c]
           known == SetDialog(s, c)
           answered == SetAnswer(known, c, md)
           u == IF md = "None" THEN known ELSE answered
           t == call_ringing(u, c)
<1>1. CASE ~k.op \/ k.terminated
  BY <1>1, HangupTalk DEF sal_call_ringing
<1>2. CASE ~(~k.op \/ k.terminated)
  <2>1. k \in CallRecords /\ s.ctx[c] \in Contexts BY StateFields
  <2>2. k.state \in Outgoing
    <3>1. InQueue(p, "RINGING", c) BY ArrivesQueued
    <3>2. k.state \in Dialled BY <3>1 DEF Arrives, WaitInv, Dialled
    <3>3. k.state \in Live \cup Ended BY <1>2 DEF Arrives, CallInv
    <3>4. k.state \notin Ended BY <1>2, <3>1 DEF Arrives, Fine, TalkOf, RedirectInv
    <3> QED BY <3>2, <3>3, <3>4 DEF Dialled, Live, Outgoing, Incoming
  <2>3. Fine(s, q, c) BY IgnoredTalk
  <2>4. /\ Touches(s, known, c) /\ known \in States /\ known.ctx = s.ctx
        /\ known.call[c] = Known(k)
    BY SetDialogTouches
  <2>5. /\ Known(k) \in CallRecords /\ Known(k).did /\ Known(k).state = k.state
        /\ Known(k).local = k.local
    BY <2>1, KnownRecord
  <2> HIDE DEF known
  <2>6. /\ Touches(s, answered, c) /\ answered \in States /\ answered.ctx = s.ctx
        /\ answered.call[c] = Agrees(Known(k), md)
    BY <2>4, SetAnswerTouches, TouchesTwice
  <2>7. /\ Agrees(Known(k), md) \in CallRecords /\ Agrees(Known(k), md).did
        /\ Agrees(Known(k), md).state = k.state /\ Agrees(Known(k), md).local = k.local
    BY <2>5, AgreesRecord
  <2>8. sal_call_ringing(s, c, md) = t
    BY <1>2 DEF sal_call_ringing, known
  <2> HIDE DEF answered
  <2>9. Touches(s, u, c) /\ u \in States /\ u.ctx = s.ctx BY <2>4, <2>6
  <2>10. /\ u.call[c] \in CallRecords /\ u.call[c].did /\ u.call[c].state = k.state
         /\ u.call[c].local = k.local
    BY <2>4, <2>5, <2>6, <2>7
  <2> HIDE DEF u
  <2>11. Fine(u, q, c) BY <2>1, <2>2, <2>3, <2>9, <2>10, GoingOutTalk DEF Fine
  <2>12. Spares(u, t, c) /\ Fine(t, q, c) BY <2>2, <2>9, <2>10, <2>11, CallRingingTalk
  <2> QED BY <2>8, <2>9, <2>12, TouchesSpares, SparesTwice
<1> QED BY <1>1, <1>2

-----------------------------------------------------------------------------
\* A new call is placed: its object n is fresh, and nothing is queued for it.
LEMMA NewOutgoingTalk ==
  ASSUME NEW s \in States, NEW n \in Calls, NEW r \in Calls \cup {NoCall}, r # n
  PROVE  LET t == linphone_call_new_outgoing(s, n, r) IN
         /\ Spares(s, t, n) /\ t \in States /\ t.ctx = s.ctx
         /\ t.call[n].state = "Idle" /\ t.call[n].local = "SendRecv" /\ t.call[n].op
         /\ ~t.call[n].terminated
         /\ \A d \in Calls : d # n => Alike(s.call[d], t.call[d])
         /\ t.calls = s.calls /\ t.current = s.current /\ t.ring = s.ring
<1> DEFINE srtp == "srtp" \in Features
           k == [NewCall EXCEPT !.refcnt = 1, !.op = TRUE, !.referer = r, !.srtp = srtp]
           stored == Store(s, n, k)
           made == [stored EXCEPT !.friends = "OnThePhone"]
           l == [s.call[r] EXCEPT !.refcnt = @ + 1]
           t == linphone_call_new_outgoing(s, n, r)
<1>0. srtp \in BOOLEAN OBVIOUS
<1> HIDE DEF srtp
<1>1. k \in CallRecords BY <1>0, OutgoingTyped
<1>2. /\ k.state = "Idle" /\ k.local = "SendRecv" /\ k.op /\ ~k.terminated
  BY DEF NewCall
<1>3. t = IF r = NoCall THEN made ELSE Store(made, r, l)
  BY DEF linphone_call_new_outgoing, srtp
<1> HIDE DEF k
<1>4. /\ Touches(s, stored, n) /\ stored \in States /\ stored.call[n] = k /\ stored.ctx = s.ctx
      /\ stored.calls = s.calls /\ stored.current = s.current /\ stored.ring = s.ring
  BY <1>1, StoreTouches DEF Touches
<1> HIDE DEF stored
<1>5. /\ made \in States /\ made.call = stored.call /\ made.ctx = s.ctx
      /\ made.calls = s.calls /\ made.current = s.current /\ made.ring = s.ring
  BY <1>4 DEF States
<1> HIDE DEF made
<1>6. CASE r = NoCall
  <2>1. t = made BY <1>3, <1>6
  <2> HIDE DEF t
  <2>2. \A d \in Calls : d # n => t.call[d] = s.call[d] BY <1>4, <1>5, <2>1 DEF Touches
  <2>3. Spares(s, t, n) BY <1>5, <2>1, <2>2 DEF Spares, Fine
  <2>4. \A d \in Calls : d # n => Alike(s.call[d], t.call[d]) BY <2>2, AlikeSelf
  <2> QED BY <1>2, <1>4, <1>5, <2>1, <2>3, <2>4 DEF t
<1>7. CASE r # NoCall
  <2>1. r \in Calls /\ t = Store(made, r, l) BY <1>3, <1>7
  <2>2. s.call[r] \in CallRecords BY <2>1, StateFields
  <2>3. l \in CallRecords /\ Alike(s.call[r], l) BY <2>2 DEF CallRecords, Alike
  <2> HIDE DEF l
  <2>4. /\ Touches(made, t, r) /\ t.call[r] = l /\ t.ctx = made.ctx
        /\ t.calls = made.calls /\ t.current = made.current /\ t.ring = made.ring
    BY <1>5, <2>1, <2>3, StoreTouches
  <2> HIDE DEF t
  <2>5. t \in States /\ \A d \in Calls : d # r => t.call[d] = made.call[d] BY <2>4 DEF Touches
  <2>6. ASSUME NEW d \in Calls, d # n PROVE Alike(s.call[d], t.call[d])
    <3>1. CASE d = r BY <2>3, <2>4, <3>1
    <3>2. CASE d # r
      <4>1. t.call[d] = s.call[d] BY <1>4, <1>5, <2>5, <2>6, <3>2 DEF Touches
      <4> QED BY <4>1, AlikeSelf
    <3> QED BY <3>1, <3>2
  <2>7. t.call[n] = k BY <1>4, <1>5, <2>5
  <2>8. t.ctx = s.ctx BY <1>5, <2>4
  <2>9. Spares(s, t, n) BY <2>5, <2>6, <2>8, AlikeTalk DEF Spares, Fine
  <2> QED BY <1>2, <1>5, <2>4, <2>5, <2>6, <2>7, <2>8, <2>9 DEF t
<1> QED BY <1>6, <1>7

\* The record of a new call, before its INVITE.
LEMMA StartedTalk ==
  ASSUME NEW k, NEW x, NEW q, NEW n, TalkOf(k, x, q, n), x.stage = "none", Nothing(q, n),
         NEW l, l.state = "OutgoingInit", l.local = "SendRecv"
  PROVE  TalkOf(l, x, q, n)
<1>0. DialogInv(x) /\ SilenceInv(k, x, q, n) BY DEF TalkOf
<1>1. \A type : ~InQueue(q, type, n) /\ Once(q, type, n) BY NothingQueued
<1>2. StreamInv(l) BY DEF StreamInv, Talking
<1>3. OfferInv(l, x, q, n) BY DEF OfferInv
<1>4. FreshInv(l, x, q, n) BY DEF FreshInv, Incoming
<1>5. RedirectInv(l, x, q, n) BY DEF RedirectInv, Ended
<1>6. ~x.ack /\ x.re = "none" BY <1>0 DEF DialogInv
<1>7. SilenceInv(l, x, q, n) BY <1>0, <1>1, <1>6 DEF SilenceInv, Over, Ended
<1>8. AskedInv(l, x, q, n) BY DEF AskedInv
<1>9. AgreedInv(l, x, q, n) BY <1>1, <1>6 DEF AgreedInv
<1> QED BY <1>0, <1>2, <1>3, <1>4, <1>5, <1>7, <1>8, <1>9 DEF TalkOf

LEMMA InviteTalk ==
  ASSUME NEW s \in States, NEW n \in Calls, Fresh(s, n),
         NEW r \in Calls \cup {NoCall}, r # n, NEW ping \in BOOLEAN, NEW sent \in BOOLEAN
  PROVE  LET t == linphone_core_invite_address_with_params(s, n, r, ping, sent) IN
         /\ Spares(s, t, n)
         /\ \A q : Nothing(q, n) /\ Fine(s, q, n) => Fine(t, q, n)
<1> DEFINE freed == linphone_core_preempt_sound_resources(s)
           made == linphone_call_new_outgoing(freed, n, r)
           k == made.call[n]
           k1 == [k EXCEPT !.state = "OutgoingInit"]
           mm == made.calls \cup {n}
           added == [made EXCEPT !.calls = mm, !.current = n]
           started == linphone_call_set_state(added, n, "OutgoingInit")
           out == linphone_core_start_invite(started, n, sent)
           t == linphone_core_invite_address_with_params(s, n, r, ping, sent)
<1>1. /\ Spares(s, freed, NoCall) /\ freed \in States /\ freed.ctx[n] = s.ctx[n]
  BY PreemptSpares DEF Pauses, Fresh
<1>2. Spares(s, freed, n) /\ \A q : Fine(s, q, n) => Fine(freed, q, n)
  BY <1>1, SparesAll
<1> HIDE DEF freed
<1>3. /\ Spares(freed, made, n) /\ made \in States /\ made.ctx = freed.ctx
      /\ k.state = "Idle" /\ k.local = "SendRecv"
  BY <1>1, NewOutgoingTalk
<1>4. t \in {freed, started, out}
  BY DEF linphone_core_invite_address_with_params, started, out, added, made, freed
<1> HIDE DEF made
<1>5. k \in CallRecords BY <1>3, StateFields
<1>6. k1 \in CallRecords /\ k1.state = "OutgoingInit" /\ k1.local = "SendRecv"
  BY <1>3, <1>5 DEF CallRecords, CallStates, Live
<1>7. mm \in SUBSET Calls BY <1>3, StateFields
<1> HIDE DEF k1, mm
<1>8. /\ added \in States /\ added.call = made.call /\ added.ctx = made.ctx
  BY <1>3, <1>7 DEF States
<1> HIDE DEF added
<1>9. Spares(freed, added, n) BY <1>3, <1>8 DEF Spares, Fine
<1>10. Spares(freed, started, n) /\ started \in States /\ started.call[n] = k1 /\ started.ctx = freed.ctx
  <2>1. "OutgoingInit" \in Live /\ added.call[n].state \notin Ended
    BY <1>3, <1>8 DEF Live, Ended
  <2>2. /\ Touches(added, started, n) /\ started.ctx = added.ctx
        /\ started.call[n] = [added.call[n] EXCEPT !.state = "OutgoingInit"]
    BY <1>8, <2>1, SetStateTouches
  <2>3. started.call[n] = k1 BY <1>8, <2>2 DEF k1
  <2> QED BY <1>3, <1>8, <1>9, <2>2, <2>3, TouchesSpares, SparesTwice DEF Touches
<1> HIDE DEF k, started
<1>11. ASSUME NEW q, Nothing(q, n), Fine(freed, q, n) PROVE Fine(started, q, n)
  BY <1>1, <1>6, <1>10, <1>11, StartedTalk DEF Fine, Fresh
<1>12. Spares(started, out, n) /\ \A q : Nothing(q, n) /\ Fine(started, q, n) => Fine(out, q, n)
  BY <1>6, <1>10, StartInviteTalk
<1> HIDE DEF out, t
<1>13. Spares(freed, freed, n) BY <1>1 DEF Spares
<1>14. Spares(freed, out, n) BY <1>10, <1>12, SparesTwice
<1>15. Spares(freed, t, n) BY <1>4, <1>10, <1>13, <1>14
<1>16. Spares(s, t, n) BY <1>2, <1>15, SparesTwice
<1>17. ASSUME NEW q, Nothing(q, n), Fine(s, q, n) PROVE Fine(t, q, n)
  BY <1>2, <1>4, <1>11, <1>12, <1>17
<1> QED BY <1>16, <1>17 DEF t

\* The transfer that waited for the call to be paused.
LEMMA StartReferedTalk ==
  ASSUME NEW s \in States, NEW c \in Calls, NEW n \in Calls \cup {NoCall},
         n # NoCall => n # c /\ Fresh(s, n), NEW q, n # NoCall => Nothing(q, n),
         NEW d \in Calls, Fine(s, q, d)
  PROVE  LET t == linphone_core_start_refered_call(s, c, n) IN t \in States /\ Fine(t, q, d)
<1> DEFINE k == s.call[c]
           l == [k EXCEPT !.refer_pending = FALSE]
           taken == Store(s, c, l)
           out == linphone_core_invite_address_with_params(taken, n, c, FALSE, TRUE)
           t == linphone_core_start_refered_call(s, c, n)
<1>1. k \in CallRecords BY StateFields
<1>2. l \in CallRecords /\ Alike(k, l) BY <1>1 DEF CallRecords, Alike
<1>3. t = IF ~k.refer_pending THEN s ELSE IF n = NoCall THEN taken ELSE out
  BY DEF linphone_core_start_refered_call
<1> HIDE DEF l, t
<1>4. /\ Touches(s, taken, c) /\ taken \in States /\ taken.call[c] = l /\ taken.ctx = s.ctx
  BY <1>2, StoreTouches DEF Touches
<1> HIDE DEF taken
<1>5. Fine(taken, q, d)
  <2>1. Alike(s.call[d], taken.call[d])
    <3>1. CASE d = c BY <1>2, <1>4, <3>1
    <3>2. CASE d # c
      <4>1. taken.call[d] = s.call[d] BY <1>4, <3>2 DEF Touches
      <4> QED BY <4>1, AlikeSelf
    <3> QED BY <3>1, <3>2
  <2> QED BY <1>4, <2>1, AlikeTalk DEF Fine
<1>6. CASE n # NoCall
  <2>1. n \in Calls /\ n # c /\ Fresh(taken, n) /\ Nothing(q, n)
    BY <1>4, <1>6 DEF Fresh, Touches
  <2>2. Spares(taken, out, n) /\ (Fine(taken, q, n) => Fine(out, q, n))
    BY <1>4, <2>1, InviteTalk
  <2>3. out \in States /\ Fine(out, q, d) BY <1>5, <2>2 DEF Spares
  <2> QED BY <1>3, <1>4, <1>5, <1>6, <2>3 DEF t
<1>7. CASE n = NoCall BY <1>3, <1>4, <1>5, <1>7 DEF t
<1> QED BY <1>6, <1>7 DEF t

-----------------------------------------------------------------------------
\* After its handler the invariant holds for the call of the event, and for
\* the others if it did before.
Leaves(s, t, q, c) ==
  /\ t \in States /\ Fine(t, q, c)
  /\ \A d \in Calls : d # c /\ Fine(s, q, d) => Fine(t, q, d)

LEMMA SparesLeaves ==
  ASSUME NEW s, NEW t, NEW q, NEW c, Spares(s, t, c), Fine(t, q, c)
  PROVE  Leaves(s, t, q, c)
  BY DEF Spares, Leaves

\* A 200 OK finds a call that waits for one, or talks.
LEMMA AnsweredState ==
  ASSUME NEW k \in CallRecords, NEW x \in Contexts, NEW p, NEW c, TalkOf(k, x, p, c),
         CallInv(k, x), InQueue(p, "ANSWERED", c), x.stage = "conf",
         k.op, ~k.terminated
  PROVE  k.state \in Outgoing \cup {"StreamsRunning", "Pausing", "Paused", "Resuming",
                                    "PausedByRemote", "UpdatedByRemote"}
<1>1. k.state \in Live \cup Ended BY DEF CallInv
<1>2. k.state \notin Ended BY DEF TalkOf, RedirectInv
<1>3. k.state # "Connected" BY DEF TalkOf, OfferInv
<1>4. k.state \notin Incoming BY DEF TalkOf, FreshInv
<1>5. k.state # "OutgoingInit" BY DEF CallInv
<1> QED BY <1>1, <1>2, <1>3, <1>4, <1>5 DEF Live, Outgoing, Incoming

LEMMA AnsweredRecord ==
  ASSUME NEW k \in CallRecords, NEW x \in Contexts, NEW p \in Seq(Events), p # << >>,
         NEW q, q = Tail(p), NEW c, TalkOf(k, x, p, c),
         Head(p).cid = c, Head(p).type = "ANSWERED", InQueue(p, "ANSWERED", c),
         x.stage = "conf",
         k.state \in Outgoing \cup {"StreamsRunning", "Pausing", "Paused", "Resuming",
                                    "PausedByRemote", "UpdatedByRemote"},
         NEW md \in Descriptions, NEW result, result = offer_answer_initiate_outgoing(k.local, md),
         NEW l \in CallRecords, l.state \in {"Paused", "PausedByRemote", "StreamsRunning"},
         l.did, l.local = k.local, l.remote = md, l.media = "on" \/ l.desc = "Inactive",
         l.state = "Paused" => result \in {"SendOnly", "Inactive"}
  PROVE  TalkOf(l, x, q, c)
<1>0. /\ DialogInv(x) /\ SilenceInv(k, x, p, c) /\ AskedInv(k, x, p, c) /\ AgreedInv(k, x, p, c)
  BY DEF TalkOf
<1>1. /\ \A type : InQueue(q, type, c) => InQueue(p, type, c)
      /\ \A type : Once(p, type, c) => Once(q, type, c)
      /\ Once(p, "ANSWERED", c) => ~InQueue(q, "ANSWERED", c)
  BY Popping
<1>2. k.state \in Live /\ k.state \notin Over \cup {"Connected", "Idle"}
  BY DEF Live, Outgoing, Incoming, Over, Ended
<1>3. StreamInv(l) BY DEF StreamInv
<1>4. OfferInv(l, x, q, c) BY DEF OfferInv
<1>5. FreshInv(l, x, q, c) BY DEF FreshInv, Incoming
<1>6. RedirectInv(l, x, q, c) BY DEF RedirectInv, Ended
<1>7. SilenceInv(l, x, q, c) BY <1>0, <1>1, <1>2 DEF SilenceInv, Over, Ended
<1>8. AskedInv(l, x, q, c) BY <1>0, <1>1 DEF AskedInv, Ended
<1>9. AgreedInv(l, x, q, c)
  <2> SUFFICES ASSUME {"reinvite", "update"} \cap Features = {} PROVE AgreedInv(l, x, q, c)
    BY DEF AgreedInv
  <2>1. /\ x.re # "out" /\ Once(p, "ANSWERED", c)
        /\ k.local \in {"SendRecv", "SendOnly"}
        /\ k.local = "SendOnly" => x.told = "SendOnly"
    BY <1>0, <1>2 DEF AgreedInv
  <2>2. result \in {"SendOnly", "Inactive"} =>
          x.told \in {"SendOnly", "Inactive"} \/ md \in {"RecvOnly", "Inactive"}
    BY <2>1 DEF offer_answer_initiate_outgoing, compute_dir_outgoing, Descriptions, Dirs
  <2>3. ~InQueue(q, "ANSWERED", c) BY <1>1, <2>1
  <2>4. l.state \notin Outgoing \cup {"OutgoingInit"} BY DEF Outgoing
  <2>5. Once(q, "ANSWERED", c) BY <1>1, <2>1
  <2> QED BY <2>1, <2>2, <2>3, <2>4, <2>5 DEF AgreedInv
<1> QED BY <1>0, <1>3, <1>4, <1>5, <1>6, <1>7, <1>8, <1>9 DEF TalkOf

\* A live call whose dialog is known and whose answer has been taken in.
Answering(k) ==
  k.did /\ k.op /\ k.state \in Live /\ k.result \in Descriptions \ {"None"}

\* What AnsweredRecord says of the call k, whose answer has been taken in.
AnswerHolds(k, x, q, c) == \A l \in CallRecords :
  /\ l.state \in {"Paused", "PausedByRemote", "StreamsRunning"}
  /\ l.did /\ l.local = k.local /\ l.remote = k.remote
  /\ l.media = "on" \/ l.desc = "Inactive"
  /\ l.state = "Paused" => k.result \in {"SendOnly", "Inactive"}
  => TalkOf(l, x, q, c)

\* call_accepted, for a call whose dialog the core knows.
LEMMA CallAcceptedTalk ==
  ASSUME NEW s \in States, NEW c \in Calls, NEW n \in Calls \cup {NoCall},
         n # NoCall => n # c /\ Fresh(s, n), NEW q, n # NoCall => Nothing(q, n),
         Endable(s.ctx[c], q, c), Answering(s.call[c]),
         AnswerHolds(s.call[c], s.ctx[c], q, c)
  PROVE  Leaves(s, call_accepted(s, c, n), q, c)
<1> DEFINE k == s.call[c]
           md == k.result
           moved == linphone_call_set_state(s, c, "Connected")
           connected == IF k.state \in Outgoing THEN moved ELSE s
           streams == linphone_core_update_streams(connected, c, md)
           paused == linphone_call_set_state(streams, c, "Paused")
           refers == linphone_core_start_refered_call(paused, c, n)
           held == linphone_call_set_state(streams, c, "PausedByRemote")
           running == [streams EXCEPT !.current = c]
           talks == linphone_call_set_state(running, c, "StreamsRunning")
           aborted == linphone_core_abort_call(connected, c)
           k1 == [k EXCEPT !.state = "Connected"]
           k2 == IF k.state \in Outgoing THEN k1 ELSE k
           k3 == WithStreams(k2, md)
           l(cstate) == [k3 EXCEPT !.state = cstate]
           t == call_accepted(s, c, n)
<1>1. /\ k \in CallRecords /\ md \in Descriptions /\ md # "None"
      /\ k.did /\ k.op /\ k.state \in Live
  BY StateFields DEF Answering
<1>2. /\ k2 \in CallRecords /\ k2.did /\ k2.op /\ k2.local = k.local /\ k2.remote = k.remote
      /\ k2.state \in Live
  BY <1>1 DEF CallRecords, CallStates, Live
<1>3. k.state \notin Ended /\ k2.state \notin Ended
  BY <1>1, <1>2 DEF Live, Ended, Outgoing, Incoming
<1>4. Touches(s, connected, c) /\ connected \in States /\ connected.ctx = s.ctx
      /\ connected.call[c] = k2
  <2>1. "Connected" \in Live BY DEF Live
  <2>2. Touches(s, moved, c) /\ moved.ctx = s.ctx /\ moved.call[c] = k1
    BY <1>3, <2>1, SetStateTouches
  <2>3. Touches(s, s, c) BY DEF Touches
  <2> QED BY <2>2, <2>3 DEF Touches
<1>5. t = CASE ~Usable(md) -> aborted
            [] md \in {"SendOnly", "Inactive"} -> refers
            [] md = "RecvOnly" -> held
            [] md = "SendRecv" -> talks
  BY DEF call_accepted, aborted, refers, held, talks, paused, running, streams, connected, moved
<1> HIDE DEF connected, k2, t, md
<1>6. /\ Touches(s, streams, c) /\ streams \in States /\ streams.ctx = s.ctx
      /\ streams.call[c] = k3
  <2>1. /\ Touches(connected, streams, c) /\ streams.ctx = connected.ctx
        /\ streams.call[c] = WithStreams(connected.call[c], md)
    <3>1. connected \in States /\ md \in Descriptions BY <1>1, <1>4
    <3>2. Touches(connected, streams, c) BY <3>1, UpdateStreamsTouches
    <3>3. streams.ctx = connected.ctx BY <3>1, UpdateStreamsTouches
    <3>4. streams.call[c] = WithStreams(connected.call[c], md) BY <3>1, UpdateStreamsTouches
    <3> QED BY <3>2, <3>3, <3>4
  <2> QED BY <1>4, <2>1, TouchesTwice DEF Touches
<1>7. /\ k3 \in CallRecords
      /\ Usable(md) => k3.media = "on" \/ k3.desc = "Inactive"
      /\ k3.did /\ k3.local = k.local /\ k3.remote = k.remote /\ k3.state \notin Ended
  BY <1>1, <1>2, <1>3, WithStreamsRecord
<1>8. CASE ~Usable(md)
  <2>1. t = Dropped(connected, c, "Error")
    <3>0. md = "Empty" BY <1>1, <1>8 DEF Usable, sal_media_description_empty
    <3>1. t = aborted BY <1>5, <1>8, <3>0
    <3> QED BY <3>1, TerminateDrops
  <2>2. Spares(connected, t, c) /\ Fine(t, q, c)
    BY <1>2, <1>3, <1>4, <2>1, DroppedTalk DEF Ended
  <2> QED BY <1>4, <2>2, TouchesSpares, SparesTwice, SparesLeaves DEF t
<1>9. CASE Usable(md)
  <2> HIDE DEF streams, k3
  <2>1. ASSUME NEW u \in States, u.call = streams.call, u.ctx = streams.ctx,
               NEW cstate \in {"Paused", "PausedByRemote", "StreamsRunning"},
               cstate = "Paused" => md \in {"SendOnly", "Inactive"}
        PROVE  LET v == linphone_call_set_state(u, c, cstate) IN
               Touches(s, v, c) /\ v \in States /\ Fine(v, q, c)
    <3> DEFINE v == linphone_call_set_state(u, c, cstate)
    <3>1. cstate \in Live BY DEF Live
    <3>2. Touches(u, v, c) /\ v.ctx = u.ctx /\ v.call[c] = l(cstate)
      BY <1>6, <1>7, <2>1, <3>1, SetStateTouches
    <3>3. Touches(s, u, c) BY <1>6, <2>1, SameTouches, TouchesTwice
    <3>4. /\ l(cstate) \in CallRecords /\ l(cstate).state = cstate /\ l(cstate).did
          /\ l(cstate).local = k.local /\ l(cstate).remote = k.remote
          /\ l(cstate).media = "on" \/ l(cstate).desc = "Inactive"
      <4>1. k3 \in CallRecords /\ cstate \in CallStates BY <1>7, <3>1 DEF CallStates
      <4>2. /\ l(cstate) \in CallRecords /\ l(cstate).state = cstate
            /\ l(cstate).did = k3.did /\ l(cstate).local = k3.local
            /\ l(cstate).remote = k3.remote /\ l(cstate).media = k3.media
            /\ l(cstate).desc = k3.desc
        BY <4>1 DEF CallRecords
      <4> QED BY <1>7, <1>9, <4>2
    <3> HIDE DEF v, l
    <3>5. TalkOf(l(cstate), s.ctx[c], q, c) BY <2>1, <3>4 DEF md, AnswerHolds
    <3> QED BY <1>6, <2>1, <3>2, <3>3, <3>5, TouchesTwice DEF Fine, Touches, v
  <2>2. md \in {"SendOnly", "Inactive", "RecvOnly", "SendRecv"}
    BY <1>1, <1>9 DEF Usable, sal_media_description_empty, Descriptions, Dirs
  <2>3. CASE md \in {"SendOnly", "Inactive"}
    <3>1. t = refers BY <1>5, <1>9, <2>3
    <3>2. Touches(s, paused, c) /\ paused \in States /\ Fine(paused, q, c)
      BY <1>6, <2>1, <2>3
    <3> HIDE DEF paused
    <3>3. n # NoCall => n # c /\ Fresh(paused, n) BY <3>2 DEF Fresh, Touches
    <3>4. \A d \in Calls : Fine(paused, q, d) => refers \in States /\ Fine(refers, q, d)
      BY <3>2, <3>3, StartReferedTalk
    <3> HIDE DEF refers
    <3>5. \A d \in Calls : d # c /\ Fine(s, q, d) => Fine(paused, q, d)
      BY <3>2 DEF Touches, Fine
    <3> QED BY <3>1, <3>2, <3>4, <3>5 DEF Leaves, t
  <2>4. CASE md = "RecvOnly"
    <3>1. t = held BY <1>5, <1>9, <2>4
    <3>2. Touches(s, held, c) /\ Fine(held, q, c) BY <1>6, <2>1
    <3> QED BY <3>1, <3>2, TouchesSpares, SparesLeaves DEF t
  <2>5. CASE md = "SendRecv"
    <3>1. t = talks BY <1>5, <1>9, <2>5
    <3>2. running \in States /\ running.call = streams.call /\ running.ctx = streams.ctx
      BY <1>6, CurrentTouches
    <3>3. Touches(s, talks, c) /\ Fine(talks, q, c) BY <2>1, <3>2
    <3> QED BY <3>1, <3>3, TouchesSpares, SparesLeaves DEF t
  <2> QED BY <2>2, <2>3, <2>4, <2>5
<1> QED BY <1>8, <1>9

LEMMA AcceptedTalk ==
  ASSUME NEW s \in States, NEW c \in Calls, NEW p, NEW q, Arrives(s, p, q, c, "ANSWERED"),
         NEW md \in Descriptions, NEW n \in Calls \cup {NoCall},
         n # NoCall => n # c /\ Fresh(s, n), n # NoCall => Nothing(q, n)
  PROVE  Leaves(s, sal_call_accepted(s, c, md, n), q, c)
<1> DEFINE k == s.call[c]
           x == s.ctx[c]
           m == Agrees(Known(k), md)
           known == SetDialog(s, c)
           answered == SetAnswer(known, c, md)
           bye == Hangup(answered, c)
           taken == call_accepted(answered, c, n)
           t == sal_call_accepted(s, c, md, n)
<1>1. k \in CallRecords /\ x \in Contexts BY StateFields
<1>2. /\ Known(k) \in CallRecords /\ Known(k).did /\ Known(k).state = k.state
      /\ Known(k).op = k.op /\ Known(k).terminated = k.terminated /\ Known(k).media = k.media
      /\ Known(k).local = k.local /\ Known(k).desc = k.desc
      /\ Known(k).media_pending = k.media_pending
  BY <1>1, KnownRecord
<1>3. /\ m \in CallRecords /\ m.remote = md
      /\ m.result = offer_answer_initiate_outgoing(k.local, md)
      /\ m.result \in Descriptions /\ m.result # "None"
      /\ m.did = Known(k).did
      /\ m.state = k.state /\ m.op = k.op /\ m.terminated = k.terminated
      /\ m.media = k.media /\ m.local = k.local /\ m.desc = k.desc
      /\ m.media_pending = k.media_pending
  <2> DEFINE j == Known(k)
             l == Agrees(j, md)
  <2>1. j \in CallRecords BY <1>2
  <2> HIDE DEF j
  <2>2. /\ l \in CallRecords /\ l.remote = md
        /\ l.result = offer_answer_initiate_outgoing(j.local, md)
        /\ l.result \in Descriptions /\ l.result # "None"
        /\ l.did = j.did
        /\ l.state = j.state /\ l.op = j.op /\ l.terminated = j.terminated
        /\ l.media = j.media /\ l.local = j.local /\ l.desc = j.desc
        /\ l.media_pending = j.media_pending
    BY <2>1, AgreesRecord
  <2>3. l = m BY DEF j
  <2> HIDE DEF l, m
  <2> QED BY <1>2, <2>2, <2>3 DEF j
<1>4. /\ Touches(s, answered, c) /\ answered \in States /\ answered.ctx = s.ctx
      /\ answered.call[c] = m
  <2>1. Touches(s, known, c) /\ known \in States /\ known.ctx = s.ctx /\ known.call[c] = Known(k)
    BY SetDialogTouches
  <2> HIDE DEF known
  <2>2. /\ Touches(known, answered, c) /\ answered \in States /\ answered.ctx = known.ctx
        /\ answered.call[c] = Agrees(known.call[c], md)
    BY <2>1, SetAnswerTouches
  <2> QED BY <2>1, <2>2, TouchesTwice
<1>5. InQueue(p, "ANSWERED", c) BY ArrivesQueued
<1>6. /\ p \in Seq(Events) /\ p # << >> /\ q = Tail(p) /\ Head(p).cid = c
      /\ Head(p).type = "ANSWERED" /\ TalkOf(k, x, p, c) /\ CallInv(k, x)
  BY DEF Arrives, Fine
<1>7. CASE ~k.op \/ k.terminated
  <2>1. t = Hangup(s, c) BY <1>7 DEF sal_call_accepted
  <2> QED BY <1>7, <2>1, HangupTalk, SparesLeaves
<1>8. t = IF ~k.op \/ k.terminated THEN Hangup(s, c)
          ELSE IF x.stage # "conf" THEN bye ELSE taken
  BY DEF sal_call_accepted, answered, known
<1> HIDE DEF answered, k, x, m, t
<1>9. CASE ~(~k.op \/ k.terminated) /\ x.stage = "conf"
  <2>1. t = taken BY <1>8, <1>9
  <2>2. k.state \in Outgoing \cup {"StreamsRunning", "Pausing", "Paused", "Resuming",
                                   "PausedByRemote", "UpdatedByRemote"}
    BY <1>1, <1>5, <1>6, <1>9, AnsweredState
  <2>3. k.state \in Live BY <2>2 DEF Live
  <2>4. Answering(m) BY <1>2, <1>3, <1>9, <2>3 DEF Answering
  <2>5. AnswerHolds(m, x, q, c)
    <3> SUFFICES ASSUME NEW l \in CallRecords,
                        l.state \in {"Paused", "PausedByRemote", "StreamsRunning"},
                        l.did, l.local = m.local, l.remote = m.remote,
                        l.media = "on" \/ l.desc = "Inactive",
                        l.state = "Paused" => m.result \in {"SendOnly", "Inactive"}
                 PROVE  TalkOf(l, x, q, c)
      BY DEF AnswerHolds
    <3>1. l.local = k.local /\ l.remote = md BY <1>3
    <3>2. m.result = offer_answer_initiate_outgoing(k.local, md) BY <1>3
    <3>3. x.stage = "conf" BY <1>9
    <3> QED BY <1>1, <1>5, <1>6, <2>2, <3>1, <3>2, <3>3, AnsweredRecord
  <2>6. Endable(x, q, c) BY <1>6, TalkEndable, PopEndable
  <2>7. n # NoCall => Fresh(answered, n) BY <1>4 DEF Fresh, Touches
  <2>8. answered.ctx[c] = x BY <1>4 DEF x
  <2>9. Leaves(answered, taken, q, c) BY <1>4, <2>4, <2>5, <2>6, <2>7, <2>8, CallAcceptedTalk
  <2> QED BY <1>4, <2>1, <2>9 DEF Leaves, Touches, Fine, t
<1>10. CASE ~(~k.op \/ k.terminated) /\ x.stage # "conf"
  <2> DEFINE y == eXosip_call_terminate(x, TRUE)
             u == Signal(answered, c, y)
  <2>1. t = bye BY <1>8, <1>10
  <2>2. y \in Contexts BY <1>1, ClosedEndable
  <2>3. bye = u BY <1>4 DEF Hangup, x
  <2> HIDE DEF y
  <2>4. Touches(s, u, c) /\ u.ctx[c] = y /\ u.call[c] = m
    BY <1>4, <2>2, SignalTouches, TouchesTwice
  <2>5. TalkOf(m, y, q, c)
    <3> USE <1>1, <1>2, <1>3, <1>6, <1>10
    <3>1. /\ y.stage = x.stage \/ (x.stage = "incoming" /\ y.stage = "refused")
          /\ y.ack = x.ack /\ y.re = x.re /\ y.offer = x.offer /\ y.told = x.told
      BY DEF y, eXosip_call_terminate, eXosip_call_refuse, Contexts
    <3>2. y.stage # "incoming" /\ y.stage # "conf"
      BY DEF y, eXosip_call_terminate, eXosip_call_refuse, Contexts
    <3>3. TalkOf(k, x, q, c) BY PopTalk
    <3>4. /\ StreamInv(k) /\ OfferInv(k, x, p, c) /\ FreshInv(k, x, p, c)
          /\ RedirectInv(k, x, q, c) /\ DialogInv(x) /\ SilenceInv(k, x, q, c)
          /\ AgreedInv(k, x, p, c) /\ AgreedInv(k, x, q, c)
      BY <3>3 DEF TalkOf
    <3>5. k.state # "Connected" BY <1>5, <3>4 DEF OfferInv
    <3>6. k.state \notin Incoming \cup {"Idle"} BY <1>5, <3>4 DEF FreshInv
    <3>7. StreamInv(m) BY <3>4 DEF StreamInv
    <3>8. OfferInv(m, y, q, c) BY <3>5 DEF OfferInv
    <3>9. FreshInv(m, y, q, c) BY <3>2, <3>6 DEF FreshInv
    <3>10. RedirectInv(m, y, q, c) BY <3>1, <3>4 DEF RedirectInv
    <3>11. DialogInv(y) BY <3>1, <3>4 DEF DialogInv
    <3>12. SilenceInv(m, y, q, c) BY <3>1, <3>4 DEF SilenceInv
    <3>13. AskedInv(m, y, q, c) BY <3>2 DEF AskedInv
    <3>14. AgreedInv(m, y, q, c)
      <4> SUFFICES ASSUME {"reinvite", "update"} \cap Features = {}, k.state \in Live
          PROVE  AgreedInv(m, y, q, c)
        BY DEF AgreedInv
      <4>1. k.state # "Paused" BY <1>5, <3>4 DEF AgreedInv, Outgoing
      <4> QED BY <3>1, <3>4, <4>1 DEF AgreedInv
    <3> QED BY <3>7, <3>8, <3>9, <3>10, <3>11, <3>12, <3>13, <3>14 DEF TalkOf
  <2> QED BY <2>1, <2>3, <2>4, <2>5, TouchesSpares, SparesLeaves DEF Fine, t
<1> QED BY <1>7, <1>9, <1>10 DEF k

-----------------------------------------------------------------------------
\* The end of a call, whichever side reports it.
LEMMA EndSpares ==
  ASSUME NEW s \in States, NEW c \in Calls, NEW cstate \in Ended
  PROVE  LET t == linphone_call_set_state(s, c, cstate) IN
         /\ Spares(s, t, c) /\ t \in States /\ t.ctx = s.ctx
         /\ t.call[c].state \in Ended /\ t.call[c].terminated = s.call[c].terminated
         /\ t.call[c].media = s.call[c].media
<1>1. cstate # "Released" BY DEF Ended
<1>2. CASE s.call[c].state \in Ended
  <2>1. linphone_call_set_state(s, c, cstate) = s
    BY <1>1, <1>2 DEF linphone_call_set_state
  <2> QED BY <1>2, <2>1 DEF Spares
<1>3. CASE s.call[c].state \notin Ended BY <1>3, EndsTalk
<1> QED BY <1>2, <1>3

LEMMA ReofferEndable ==
  ASSUME NEW x, NEW y, NEW q, NEW c, Endable(x, q, c), Reoffers(x, y)
  PROVE  Endable(y, q, c)
  BY DEF Endable, Reoffers, DialogInv

LEMMA SetTerminatedTouches ==
  ASSUME NEW s \in States, NEW c \in Calls
  PROVE  LET t == SetTerminated(s, c) IN
         /\ Touches(s, t, c) /\ t \in States /\ t.ctx = s.ctx
         /\ t.call[c] \in CallRecords /\ t.call[c].terminated
         /\ t.call[c].state = s.call[c].state /\ t.call[c].media = s.call[c].media
         /\ t.call[c].srtp = s.call[c].srtp
         /\ Alike([s.call[c] EXCEPT !.terminated = TRUE], t.call[c])
         /\ t.calls = s.calls /\ t.current = s.current /\ t.ring = s.ring
<1> DEFINE k == [s.call[c] EXCEPT !.terminated = TRUE]
<1>1. s.call[c] \in CallRecords BY StateFields
<1>2. /\ k \in CallRecords /\ k.terminated /\ k.state = s.call[c].state
      /\ k.media = s.call[c].media /\ k.srtp = s.call[c].srtp
  BY <1>1 DEF CallRecords
<1>3. SetTerminated(s, c) = Store(s, c, k) BY DEF SetTerminated
<1> HIDE DEF k
<1>4. /\ Touches(s, Store(s, c, k), c) /\ Store(s, c, k).call[c] = k /\ Store(s, c, k).ctx = s.ctx
      /\ Store(s, c, k).calls = s.calls /\ Store(s, c, k).current = s.current
      /\ Store(s, c, k).ring = s.ring
  BY <1>2, StoreTouches
<1> QED BY <1>2, <1>3, <1>4, AlikeSelf DEF Touches, k

LEMMA FailureTalk ==
  ASSUME "srtp" \notin Features,
         NEW s \in States, NEW c \in Calls, NEW p, NEW q,
         NEW type \in {"FAILURE", "RELEASED"}, Arrives(s, p, q, c, type),
         NEW failure
  PROVE  LET t == sal_call_failure(s, c, failure) IN
         /\ Spares(s, t, c) /\ Fine(t, q, c)
         /\ s.call[c].op => t.call[c].state \in Ended
<1> DEFINE marked == SetTerminated(s, c)
           quiet == Quiet(marked)
           silent == linphone_call_stop_media_streams(quiet, c)
           referer == marked.call[c].referer
           resumed == linphone_core_resume_call(silent, referer)
           back == IF referer # NoCall /\ marked.call[referer].state = "Paused"
                      /\ marked.call[referer].was_automatically_paused
                   THEN resumed ELSE silent
           cstate == IF failure = "Declined" THEN "End" ELSE "Error"
           ended == linphone_call_set_state(back, c, cstate)
           t == sal_call_failure(s, c, failure)
<1>1. CASE ~s.call[c].op
  <2>1. t = s BY <1>1 DEF sal_call_failure
  <2>2. Fine(s, q, c) BY IgnoredTalk
  <2> QED BY <1>1, <2>1, <2>2 DEF Spares
<1>2. CASE s.call[c].op
  <2>1. /\ Touches(s, marked, c) /\ marked \in States /\ marked.ctx = s.ctx
        /\ marked.call[c] \in CallRecords /\ marked.call[c].terminated
        /\ marked.call[c].srtp = s.call[c].srtp
    BY SetTerminatedTouches
  <2>2. ~s.call[c].srtp BY DEF Arrives, CallInv
  <2>3. t = call_failure(marked, c, failure) BY <1>2 DEF sal_call_failure
  <2>4. t = ended
    BY <2>1, <2>2, <2>3 DEF call_failure, ended, back, resumed, silent, quiet, referer, cstate
  <2> HIDE DEF marked, t
  <2>5. referer \in Calls \cup {NoCall} BY <2>1 DEF CallRecords
  <2>6. /\ Touches(s, quiet, c) /\ quiet \in States /\ quiet.ctx = s.ctx
        /\ quiet.call = marked.call
    BY <2>1, QuietTouches, TouchesTwice
  <2> HIDE DEF quiet
  <2>7. /\ Touches(s, silent, c) /\ silent \in States /\ silent.ctx = s.ctx
        /\ silent.call[c].media = "none" /\ silent.call[c].terminated
    <3>1. /\ Touches(quiet, silent, c) /\ silent.ctx = quiet.ctx
          /\ silent.call[c] = [quiet.call[c] EXCEPT !.media = "none"]
      BY <2>6, StopMediaTouches
    <3> HIDE DEF silent
    <3>2. quiet.call[c] \in CallRecords /\ quiet.call[c].terminated BY <2>1, <2>6
    <3>3. silent.call[c].media = "none" /\ silent.call[c].terminated
      BY <3>1, <3>2 DEF CallRecords
    <3> QED BY <2>6, <3>1, <3>3, TouchesTwice DEF Touches
  <2> HIDE DEF silent, referer
  <2>8. /\ Spares(s, back, c) /\ back \in States /\ Reoffers(s.ctx[c], back.ctx[c])
        /\ back.call[c].media = "none" /\ back.call[c].terminated
    <3>1. CASE back = silent
      BY <2>7, <3>1, TouchesSpares DEF Reoffers
    <3>2. CASE back = resumed /\ referer \in Calls
      <4>1. /\ Spares(silent, resumed, NoCall)
            /\ resumed.call[c].media \in {silent.call[c].media, "none"}
            /\ resumed.call[c].terminated = silent.call[c].terminated
            /\ Reoffers(silent.ctx[c], resumed.ctx[c])
        <5> DEFINE u == linphone_core_resume_call(silent, referer)
        <5>1. silent \in States /\ referer \in Calls BY <2>7, <3>2
        <5>2. Spares(silent, u, NoCall) BY <5>1, ResumeSpares
        <5>3. u.call[c].media \in {silent.call[c].media, "none"} BY <5>1, ResumeSpares
        <5>4. u.call[c].terminated = silent.call[c].terminated BY <5>1, ResumeSpares
        <5>5. Reoffers(silent.ctx[c], u.ctx[c]) BY <5>1, ResumeSpares
        <5>6. u = resumed OBVIOUS
        <5> HIDE DEF u, resumed
        <5> QED BY <5>2, <5>3, <5>4, <5>5, <5>6
      <4> HIDE DEF resumed, back
      <4>2. resumed \in States /\ Spares(silent, resumed, c) BY <4>1, SparesAll
      <4>3. Spares(s, resumed, c) BY <2>7, <4>2, TouchesSpares, SparesTwice
      <4> QED BY <2>7, <3>2, <4>1, <4>2, <4>3
    <3> QED BY <2>5, <3>1, <3>2
  <2> HIDE DEF back
  <2>9. cstate \in Ended BY DEF Ended
  <2> HIDE DEF cstate
  <2>10. Spares(back, ended, c) /\ ended.call[c].state \in Ended BY <2>8, <2>9, EndSpares
  <2>11. Spares(s, ended, c) BY <2>8, <2>10, SparesTwice
  <2>12. Endable(back.ctx[c], q, c) /\ Awaited(back.ctx[c], q, c)
    <3>1. Endable(s.ctx[c], p, c) BY TalkEndable DEF Arrives, Fine
    <3>2. Endable(back.ctx[c], p, c) BY <2>8, <3>1, ReofferEndable
    <3> QED BY <3>2, PopEndable DEF Arrives
  <2>13. Fine(ended, q, c) BY <2>8, <2>9, <2>12, EndedTalk
  <2> QED BY <2>4, <2>10, <2>11, <2>13 DEF t
<1> QED BY <1>1, <1>2

\* The operation of a call is marked as terminated after the end.
LEMMA TerminatedTalk ==
  ASSUME NEW s \in States, NEW c \in Calls, NEW p, NEW q, Arrives(s, p, q, c, "CLOSED")
  PROVE  LET t == sal_call_terminated(s, c) IN Spares(s, t, c) /\ Fine(t, q, c)
<1> DEFINE ring2 == s.ring /\ Cardinality(s.calls) # 1 /\ s.current = NoCall
           quiet == [s EXCEPT !.ring = ring2]
           silent == linphone_call_stop_media_streams(quiet, c)
           ended == linphone_call_set_state(silent, c, "End")
           over == IF s.call[c].state \in Ended THEN s ELSE ended
           marked == SetTerminated(over, c)
           t == sal_call_terminated(s, c)
<1>1. CASE ~s.call[c].op
  <2>1. t = s BY <1>1 DEF sal_call_terminated
  <2>2. Fine(s, q, c) BY IgnoredTalk
  <2> QED BY <1>1, <2>1, <2>2 DEF Spares
<1>2. CASE s.call[c].op
  <2>1. t = marked BY <1>2 DEF sal_call_terminated, call_terminated
  <2>2. s.call[c] \in CallRecords /\ s.ring \in BOOLEAN BY StateFields
  <2>3. ring2 \in BOOLEAN BY <2>2
  <2> HIDE DEF ring2, t
  <2>4. quiet \in States /\ quiet.ctx = s.ctx /\ quiet.call = s.call /\ Touches(s, quiet, c)
    BY <2>3, RingTouches
  <2> HIDE DEF quiet
  <2>5. Endable(s.ctx[c], q, c) /\ Awaited(s.ctx[c], q, c)
    <3>1. Endable(s.ctx[c], p, c) BY TalkEndable DEF Arrives, Fine
    <3> QED BY <3>1, PopEndable DEF Arrives
  <2>6. CASE s.call[c].state \in Ended
    <3> DEFINE k == s.call[c]
               l == [k EXCEPT !.terminated = TRUE]
    <3>1. l \in CallRecords /\ l.state = k.state /\ l.media = k.media /\ l.terminated
          /\ l.did = k.did /\ l.local = k.local
      BY <2>2 DEF CallRecords
    <3>2. t = SetTerminated(s, c) BY <2>1, <2>6
    <3>3. /\ Touches(s, t, c) /\ t.ctx = s.ctx /\ Alike(l, t.call[c])
      BY <3>2, SetTerminatedTouches
    <3>4. TalkOf(k, s.ctx[c], q, c) BY IgnoredTalk DEF Fine
    <3>5. TalkOf(l, s.ctx[c], q, c)
      <4> HIDE DEF l, k
      <4>1. /\ DialogInv(s.ctx[c]) /\ SilenceInv(k, s.ctx[c], q, c)
            /\ AskedInv(k, s.ctx[c], q, c)
        BY <3>4 DEF TalkOf
      <4>2. k.state \in Ended BY <2>6 DEF k
      <4> USE DEF Ended
      <4>3. StreamInv(l) BY <3>1, <4>2 DEF StreamInv, Talking
      <4>4. OfferInv(l, s.ctx[c], q, c) BY <3>1, <4>2 DEF OfferInv
      <4>5. FreshInv(l, s.ctx[c], q, c) BY <3>1, <4>2 DEF FreshInv, Incoming, Over
      <4>6. RedirectInv(l, s.ctx[c], q, c) BY <3>1 DEF RedirectInv
      <4>7. SilenceInv(l, s.ctx[c], q, c) BY <3>1, <4>1 DEF SilenceInv
      <4>8. AskedInv(l, s.ctx[c], q, c) BY <3>1, <4>1 DEF AskedInv
      <4>9. AgreedInv(l, s.ctx[c], q, c)
        BY <3>1, <4>2 DEF AgreedInv, Live, Outgoing, Incoming
      <4> QED BY <4>1, <4>3, <4>4, <4>5, <4>6, <4>7, <4>8, <4>9 DEF TalkOf
    <3> HIDE DEF l
    <3>6. TalkOf(t.call[c], s.ctx[c], q, c) BY <3>3, <3>5, AlikeTalk
    <3> QED BY <3>3, <3>6, TouchesSpares DEF Fine, t
  <2>7. CASE s.call[c].state \notin Ended
    <3>1. /\ Touches(s, silent, c) /\ silent \in States /\ silent.ctx = s.ctx
          /\ silent.call[c].media = "none"
      <4>1. /\ Touches(quiet, silent, c) /\ silent.ctx = quiet.ctx
            /\ silent.call[c] = [quiet.call[c] EXCEPT !.media = "none"]
        BY <2>4, StopMediaTouches
      <4> HIDE DEF silent
      <4>2. silent.call[c].media = "none" BY <2>2, <2>4, <4>1 DEF CallRecords
      <4> QED BY <2>4, <4>1, <4>2, TouchesTwice DEF Touches
    <3> HIDE DEF silent
    <3>2. /\ Spares(silent, ended, c) /\ ended \in States /\ ended.ctx = s.ctx
          /\ ended.call[c].state \in Ended /\ ended.call[c].media = "none"
      BY <3>1, EndSpares DEF Ended
    <3> HIDE DEF ended
    <3>3. t = SetTerminated(ended, c) BY <2>1, <2>7
    <3>4. /\ Touches(ended, t, c) /\ t.ctx = s.ctx /\ t.call[c].terminated
          /\ t.call[c].state \in Ended /\ t.call[c].media = "none"
      BY <3>2, <3>3, SetTerminatedTouches
    <3>5. Fine(t, q, c) BY <2>5, <3>4, OverTalk DEF Fine, Over
    <3>6. Spares(s, t, c) BY <3>1, <3>2, <3>4, TouchesSpares, SparesTwice
    <3> QED BY <3>5, <3>6 DEF t
  <2> QED BY <2>6, <2>7
<1> QED BY <1>1, <1>2

\* An ended call is released, and its operation with it.
LEMMA ReleaseTalk ==
  ASSUME NEW s \in States, NEW c \in Calls, s.call[c].state \in Ended
  PROVE  LET t == linphone_call_set_state(s, c, "Released") IN
         Spares(s, t, c) /\ \A q : Fine(s, q, c) => Fine(t, q, c)
<1> DEFINE k == s.call[c]
           l == [k EXCEPT !.state = "Released", !.op = FALSE]
           closed == Store(s, c, l)
           t == linphone_call_unref(closed, c)
<1>1. k \in CallRecords BY StateFields
<1>2. /\ l \in CallRecords /\ l.state = "Released" /\ ~l.op /\ l.did = k.did
      /\ l.media = k.media
  BY <1>1 DEF CallRecords, CallStates
<1>3. linphone_call_set_state(s, c, "Released") = t
  BY DEF linphone_call_set_state, Ended
<1> HIDE DEF l
<1>4. /\ Touches(s, closed, c) /\ closed \in States /\ closed.call[c] = l /\ closed.ctx = s.ctx
  BY <1>2, StoreTouches DEF Touches
<1> HIDE DEF closed
<1>5. /\ t \in States /\ t.ctx = closed.ctx /\ \A d \in Calls : Alike(closed.call[d], t.call[d])
  BY <1>4, UnrefAlike
<1> HIDE DEF t, k
<1>6. Spares(closed, t, c) BY <1>5, AlikeTalk DEF Spares, Fine
<1>7. ASSUME NEW x, NEW q, TalkOf(k, x, q, c) PROVE TalkOf(l, x, q, c)
  <2>1. DialogInv(x) /\ SilenceInv(k, x, q, c) /\ AskedInv(k, x, q, c) BY <1>7 DEF TalkOf
  <2>2. k.state \in Ended BY DEF k
  <2> USE DEF Ended
  <2>3. StreamInv(l) BY <1>2 DEF StreamInv, Talking
  <2>4. OfferInv(l, x, q, c) BY <1>2 DEF OfferInv
  <2>5. FreshInv(l, x, q, c) BY <1>2 DEF FreshInv, Incoming, Over
  <2>6. RedirectInv(l, x, q, c) BY <1>2 DEF RedirectInv
  <2>7. SilenceInv(l, x, q, c) BY <1>2, <2>1, <2>2 DEF SilenceInv, Over
  <2>8. AskedInv(l, x, q, c) BY <1>2, <2>1, <2>2 DEF AskedInv
  <2>9. AgreedInv(l, x, q, c) BY <1>2 DEF AgreedInv, Live, Outgoing, Incoming
  <2> QED BY <2>1, <2>3, <2>4, <2>5, <2>6, <2>7, <2>8, <2>9 DEF TalkOf
<1>8. ASSUME NEW q, Fine(s, q, c) PROVE Fine(t, q, c)
  BY <1>4, <1>5, <1>7, <1>8, AlikeTalk DEF Fine, k
<1>9. Spares(s, t, c) BY <1>4, <1>6, TouchesSpares, SparesTwice
<1> QED BY <1>3, <1>8, <1>9

LEMMA ReleasedTalk ==
  ASSUME "srtp" \notin Features,
         NEW s \in States, NEW c \in Calls, NEW p, NEW q, Arrives(s, p, q, c, "RELEASED")
  PROVE  LET t == call_released(s, c) IN Spares(s, t, c) /\ Fine(t, q, c)
<1> DEFINE failed == sal_call_failure(s, c, "NoResponse")
           reported == IF s.call[c].terminated THEN s ELSE failed
           t == call_released(s, c)
<1>1. CASE ~s.call[c].op
  <2>1. t = s BY <1>1 DEF call_released
  <2>2. Fine(s, q, c) BY IgnoredTalk
  <2> QED BY <1>1, <2>1, <2>2 DEF Spares
<1>2. CASE s.call[c].op
  <2>1. t = linphone_call_set_state(reported, c, "Released") BY <1>2 DEF call_released
  <2>2. Spares(s, reported, c) /\ Fine(reported, q, c) /\ reported.call[c].state \in Ended
    <3>1. CASE s.call[c].terminated
      <4>1. s.call[c].state \in Ended BY <1>2, <3>1 DEF Arrives, CallInv
      <4>2. Fine(s, q, c) BY IgnoredTalk
      <4> QED BY <3>1, <4>1, <4>2 DEF Spares
    <3>2. CASE ~s.call[c].terminated
      <4>1. Spares(s, failed, c) /\ Fine(failed, q, c) /\ failed.call[c].state \in Ended
        BY <1>2, FailureTalk
      <4> QED BY <3>2, <4>1
    <3> QED BY <3>1, <3>2
  <2> HIDE DEF reported, t
  <2>3. reported \in States BY <2>2 DEF Spares
  <2>4. Spares(reported, t, c) /\ Fine(t, q, c) BY <2>1, <2>2, <2>3, ReleaseTalk
  <2> QED BY <2>2, <2>4, SparesTwice DEF t
<1> QED BY <1>1, <1>2

-----------------------------------------------------------------------------
\* Where the peer may re-INVITE, little is left to say of a call that is up.
LEMMA FreeTalk ==
  ASSUME "reinvite" \in Features, NEW l, NEW y, NEW q, NEW c, StreamInv(l), Endable(y, q, c),
         l.state \notin Incoming \cup {"Idle", "Connected"},
         l.op /\ ~l.terminated => l.state \notin Ended,
         y.stage # "incoming", ~l.did \/ l.state \in Ended => Awaited(y, q, c)
  PROVE  TalkOf(l, y, q, c)
<1>1. OfferInv(l, y, q, c) BY DEF OfferInv
<1>2. FreshInv(l, y, q, c) BY DEF FreshInv
<1>3. RedirectInv(l, y, q, c) BY DEF RedirectInv
<1>4. SilenceInv(l, y, q, c) BY DEF SilenceInv
<1>5. AskedInv(l, y, q, c) BY DEF AskedInv, Endable, Awaited
<1>6. AgreedInv(l, y, q, c) BY DEF AgreedInv
<1>7. DialogInv(y) BY DEF Endable
<1> QED BY <1>1, <1>2, <1>3, <1>4, <1>5, <1>6, <1>7 DEF TalkOf

\* The ACK with the SDP of the peer starts the streams.
LEMMA AckedRecord ==
  ASSUME NEW k \in CallRecords, NEW x \in Contexts, NEW p \in Seq(Events), p # << >>,
         NEW q, q = Tail(p), NEW c, TalkOf(k, x, p, c),
         Head(p).cid = c, Head(p).type = "ACK", InQueue(p, "ACK", c), k.state = "Connected",
         NEW l \in CallRecords, l.state = "StreamsRunning", l.did = k.did, l.local = k.local,
         l.media = "on" \/ l.desc = "Inactive"
  PROVE  TalkOf(l, x, q, c)
<1>1. /\ OfferInv(k, x, p, c) /\ FreshInv(k, x, p, c) /\ DialogInv(x) /\ SilenceInv(k, x, p, c)
      /\ AskedInv(k, x, p, c) /\ AgreedInv(k, x, p, c)
  BY DEF TalkOf
<1>2. /\ \A type : InQueue(q, type, c) => InQueue(p, type, c)
      /\ \A type : InQueue(p, type, c) /\ type # "ACK" => InQueue(q, type, c)
      /\ \A type : Once(p, type, c) => Once(q, type, c)
      /\ Once(p, "ACK", c) => ~InQueue(q, "ACK", c)
  BY Popping
<1>3. StreamInv(l) BY DEF StreamInv
<1>4. OfferInv(l, x, q, c) BY DEF OfferInv
<1>5. FreshInv(l, x, q, c) BY <1>1 DEF FreshInv, OfferInv, Incoming, Over, Ended
<1>6. RedirectInv(l, x, q, c) BY DEF RedirectInv, Ended
<1>7. SilenceInv(l, x, q, c)
  BY <1>1, <1>2 DEF SilenceInv, Over, Ended
<1>8. AskedInv(l, x, q, c)
  BY <1>1, <1>2 DEF AskedInv, Ended
<1>9. AgreedInv(l, x, q, c)
  <2>1. x.re # "out" /\ ~InQueue(p, "ANSWERED", c) BY <1>1 DEF OfferInv
  <2> QED BY <1>1, <1>2, <2>1 DEF AgreedInv, Live, Outgoing
<1> QED BY <1>1, <1>3, <1>4, <1>5, <1>6, <1>7, <1>8, <1>9 DEF TalkOf

\* The ACK finds a call that is up.
LEMMA AckedState ==
  ASSUME NEW s \in States, NEW c \in Calls, NEW p, NEW q, Arrives(s, p, q, c, "ACK"),
         s.call[c].op, ~s.call[c].terminated
  PROVE  /\ s.call[c].state \in Live \ Incoming
         /\ s.call[c].state = "Connected" => s.call[c].media_pending
         /\ "reinvite" \notin Features => s.call[c].state = "Connected"
<1> DEFINE k == s.call[c]
           x == s.ctx[c]
<1>1. k \in CallRecords BY StateFields
<1>2. InQueue(p, "ACK", c) BY ArrivesQueued
<1>3. /\ CallInv(k, x) /\ OfferInv(k, x, p, c) /\ FreshInv(k, x, p, c)
      /\ RedirectInv(k, x, p, c) /\ SilenceInv(k, x, p, c)
  BY DEF Arrives, Fine, TalkOf
<1> HIDE DEF k, x
<1>4. k.op /\ ~k.terminated BY DEF k
<1>5. k.state \notin Incoming BY <1>2, <1>3 DEF FreshInv
<1>6. k.state \notin Ended BY <1>2, <1>3, <1>4 DEF RedirectInv
<1>7. k.state \in Live BY <1>3, <1>4, <1>6 DEF CallInv
<1>8. "reinvite" \notin Features => k.state = "Connected"
  <2>1. "reinvite" \notin Features => k.state \in Over \cup {"Connected"}
    BY <1>2, <1>3 DEF SilenceInv
  <2> QED BY <1>6, <1>7, <2>1 DEF Over, Live, Outgoing, Incoming
<1>9. k.state = "Connected" => k.media_pending BY <1>3 DEF OfferInv
<1> QED BY <1>5, <1>7, <1>8, <1>9 DEF k

LEMMA HandledAckTalk ==
  ASSUME NEW s \in States, NEW c \in Calls, NEW p, NEW q, Arrives(s, p, q, c, "ACK"),
         NEW md \in Descriptions
  PROVE  LET t == handle_ack(s, c, md) IN Spares(s, t, c) /\ Fine(t, q, c)
<1> DEFINE k == s.call[c]
           x == s.ctx[c]
           answered == SetAnswer(s, c, md)
           j == Agrees(k, md)
           streams == linphone_core_update_streams(answered, c, j.result)
           running == linphone_call_set_state(streams, c, "StreamsRunning")
           t == handle_ack(s, c, md)
<1>1. k \in CallRecords /\ x \in Contexts BY StateFields
<1>2. CASE ~k.op \/ k.terminated
  <2>1. t = s BY <1>2 DEF handle_ack
  <2>2. k.state # "Connected" BY <1>2 DEF Arrives, Live
  <2>3. Fine(s, q, c) BY <2>2, IgnoredTalk
  <2> QED BY <2>1, <2>3 DEF Spares
<1>3. CASE k.op /\ ~k.terminated
  <2>1. /\ Touches(s, answered, c) /\ answered \in States /\ answered.ctx = s.ctx
        /\ answered.call[c] = j
    BY SetAnswerTouches
  <2>2. /\ j \in CallRecords /\ j.result \in Descriptions /\ j.state = k.state /\ j.op
        /\ ~j.terminated /\ j.media = k.media /\ j.desc = k.desc /\ j.did = k.did
        /\ j.local = k.local /\ j.media_pending = k.media_pending
    BY <1>1, <1>3, AgreesRecord
  <2>3. /\ k.state \in Live \ Incoming
        /\ k.state = "Connected" => k.media_pending
        /\ "reinvite" \notin Features => k.state = "Connected"
    BY <1>3, AckedState
  <2>4. t = call_ack(answered, c) BY <1>3 DEF handle_ack
  <2>5. TalkOf(k, x, p, c) /\ InQueue(p, "ACK", c) BY ArrivesQueued DEF Arrives, Fine
  <2> HIDE DEF t, answered, j
  <2>9. Endable(x, q, c) /\ (~k.did => Awaited(x, q, c))
    <3>1. Endable(x, p, c) /\ (~k.did => Awaited(x, p, c)) BY <2>5, TalkEndable
    <3> QED BY <3>1, PopEndable DEF Arrives
  <2>10. k.state \notin Ended /\ x.stage # "incoming"
    BY <2>3, <2>5 DEF TalkOf, FreshInv, Over, Live, Outgoing, Incoming, Ended
  <2>6. CASE ~j.media_pending
    <3>1. t = answered BY <2>1, <2>4, <2>6 DEF call_ack
    <3>2. k.state # "Connected" /\ "reinvite" \in Features BY <2>2, <2>3, <2>6
    <3>3. StreamInv(j) BY <2>2, <2>5 DEF TalkOf, StreamInv
    <3>4. j.state \notin Incoming \cup {"Idle", "Connected"} /\ j.state \notin Ended
      BY <2>2, <2>3, <3>2 DEF Live, Outgoing, Incoming, Ended
    <3>5. TalkOf(j, x, q, c) BY <2>2, <2>9, <2>10, <3>2, <3>3, <3>4, FreeTalk
    <3> QED BY <2>1, <3>1, <3>5, TouchesSpares DEF Fine, t, x
  <2>7. CASE j.media_pending /\ Usable(j.result)
    <3>1. t = running BY <2>1, <2>4, <2>7 DEF call_ack
    <3> DEFINE l == WithStreams(j, j.result)
               m == [l EXCEPT !.state = "StreamsRunning"]
    <3>2. /\ Touches(s, streams, c) /\ streams \in States /\ streams.ctx = s.ctx
          /\ streams.call[c] = l
      <4>1. /\ Touches(answered, streams, c) /\ streams.ctx = answered.ctx
            /\ streams.call[c] = WithStreams(answered.call[c], j.result)
        <5>1. answered \in States /\ j.result \in Descriptions BY <2>1, <2>2
        <5> QED BY <5>1, UpdateStreamsTouches
      <4> HIDE DEF streams
      <4> QED BY <2>1, <4>1, TouchesTwice DEF Touches
    <3>3. /\ l \in CallRecords /\ l.state = k.state /\ l.did = k.did /\ l.local = k.local
          /\ l.media = "on" \/ l.desc = "Inactive"
      BY <2>2, <2>7, WithStreamsRecord
    <3> HIDE DEF streams, l
    <3>4. k.state \notin Ended BY <2>3 DEF Live, Outgoing, Incoming, Ended
    <3>5. /\ Touches(s, running, c) /\ running.ctx = s.ctx /\ running.call[c] = m
      <4>1. "StreamsRunning" \in Live BY DEF Live
      <4>2. /\ Touches(streams, running, c) /\ running.ctx = streams.ctx
            /\ running.call[c] = m
        BY <3>2, <3>3, <3>4, <4>1, SetStateTouches
      <4> HIDE DEF running
      <4> QED BY <3>2, <4>2, TouchesTwice
    <3>6. /\ m \in CallRecords /\ m.state = "StreamsRunning" /\ m.did = k.did
          /\ m.local = k.local
          /\ m.media = "on" \/ m.desc = "Inactive"
      BY <3>3 DEF CallRecords, CallStates, Live
    <3>7. m.op = l.op /\ m.terminated = l.terminated BY <3>3 DEF CallRecords
    <3> HIDE DEF running, m
    <3>8. TalkOf(m, x, q, c)
      <4>1. CASE k.state = "Connected"
        <5>1. /\ p \in Seq(Events) /\ p # << >> /\ q = Tail(p)
              /\ Head(p).cid = c /\ Head(p).type = "ACK"
          BY DEF Arrives
        <5>2. TalkOf(k, x, p, c) /\ InQueue(p, "ACK", c) /\ k \in CallRecords /\ x \in Contexts
          BY <1>1, <2>5
        <5> HIDE DEF k, x
        <5> QED BY <3>6, <4>1, <5>1, <5>2, AckedRecord
      <4>2. CASE k.state # "Connected"
        <5>1. "reinvite" \in Features BY <2>3, <4>2
        <5>2. StreamInv(m) BY <3>6 DEF StreamInv
        <5> QED BY <2>9, <2>10, <3>6, <5>1, <5>2, FreeTalk DEF Incoming, Ended
      <4> QED BY <4>1, <4>2
    <3> QED BY <3>1, <3>5, <3>8, TouchesSpares DEF Fine, t, x
  <2>8. CASE j.media_pending /\ ~Usable(j.result)
    <3>1. t = Dropped(answered, c, "Error") BY <2>1, <2>4, <2>8, TerminateDrops DEF call_ack
    <3>2. answered.call[c].state \notin Ended /\ answered.call[c].op
      BY <2>1, <2>2, <2>3 DEF Live, Outgoing, Incoming, Ended
    <3>3. "Error" \in Ended BY DEF Ended
    <3>4. Endable(answered.ctx[c], q, c)
          /\ (answered.call[c].did \/ Awaited(answered.ctx[c], q, c))
      BY <2>1, <2>2, <2>9 DEF x
    <3>5. Spares(answered, t, c) /\ Fine(t, q, c)
      BY <2>1, <3>1, <3>2, <3>3, <3>4, DroppedTalk
    <3> QED BY <2>1, <3>5, TouchesSpares, SparesTwice DEF t
  <2> QED BY <2>6, <2>7, <2>8
<1> QED BY <1>2, <1>3

-----------------------------------------------------------------------------
\* The call of t goes on from the one of s, or talks on; no tone starts.
Follows(s, t, c) ==
  /\ Touches(s, t, c)
  /\ t.calls = s.calls /\ t.current = s.current /\ (t.ring => s.ring)
  /\ t.call[c].state # s.call[c].state => {s.call[c].state, t.call[c].state} \subseteq Talking
  /\ t.call[c].op = s.call[c].op /\ t.call[c].terminated = s.call[c].terminated
  /\ s.call[c].did => t.call[c].did
  /\ StreamInv(s.call[c]) => StreamInv(t.call[c])
  /\ DialogInv(s.ctx[c]) => DialogInv(t.ctx[c])
  /\ s.ctx[c].stage # "incoming" => t.ctx[c].stage = s.ctx[c].stage

LEMMA FollowsTwice ==
  ASSUME NEW s, NEW t, NEW u, NEW c, Follows(s, t, c), Follows(t, u, c)
  PROVE  Follows(s, u, c)
<1>1. Touches(s, u, c) BY TouchesTwice DEF Follows
<1> QED BY <1>1 DEF Follows

\* Whatever the queue holds, where the peer may re-INVITE.
LEMMA FollowsTalk ==
  ASSUME "reinvite" \in Features, NEW s, NEW t, NEW c, Follows(s, t, c), NEW q,
         StreamInv(s.call[c]), Endable(s.ctx[c], q, c), s.ctx[c].stage # "incoming",
         s.call[c].state \notin Incoming \cup {"Idle", "Connected"},
         s.call[c].op /\ ~s.call[c].terminated => s.call[c].state \notin Ended,
         ~s.call[c].did \/ s.call[c].state \in Ended => Awaited(s.ctx[c], q, c)
  PROVE  Spares(s, t, c) /\ Fine(t, q, c)
<1>1. Spares(s, t, c) BY TouchesSpares DEF Follows
<1>2. StreamInv(t.call[c]) BY DEF Follows
<1>3. t.call[c].state \notin Incoming \cup {"Idle", "Connected"}
  BY DEF Follows, Talking, Incoming
<1>4. /\ t.call[c].op /\ ~t.call[c].terminated => t.call[c].state \notin Ended
      /\ t.call[c].state \in Ended => s.call[c].state \in Ended
  BY DEF Follows, Talking, Ended
<1>5. t.ctx[c].stage = s.ctx[c].stage BY DEF Follows
<1>6. Endable(t.ctx[c], q, c) BY <1>5 DEF Follows, Endable
<1>7. Awaited(s.ctx[c], q, c) => Awaited(t.ctx[c], q, c) BY <1>5 DEF Awaited
<1>8. ~t.call[c].did \/ t.call[c].state \in Ended => Awaited(t.ctx[c], q, c)
  BY <1>4, <1>7 DEF Follows
<1> QED BY <1>1, <1>2, <1>3, <1>4, <1>5, <1>6, <1>8, FreeTalk DEF Fine

LEMMA FollowsState ==
  ASSUME NEW s \in States, NEW c \in Calls, s.call[c].state \in Talking, NEW cstate \in Talking
  PROVE  Follows(s, linphone_call_set_state(s, c, cstate), c)
<1> DEFINE t == linphone_call_set_state(s, c, cstate)
<1>1. cstate \in Live /\ s.call[c].state \notin Ended BY DEF Talking, Live, Ended
<1>2. s.call[c] \in CallRecords BY StateFields
<1>3. /\ Touches(s, t, c) /\ t.ctx = s.ctx
      /\ t.call[c] = [s.call[c] EXCEPT !.state = cstate]
      /\ t.calls = s.calls /\ t.current = s.current /\ t.ring = s.ring
  BY <1>1, SetStateTouches
<1> HIDE DEF t
<1>4. /\ t.call[c].state = cstate /\ t.call[c].op = s.call[c].op
      /\ t.call[c].terminated = s.call[c].terminated
      /\ t.call[c].media = s.call[c].media /\ t.call[c].desc = s.call[c].desc
      /\ t.call[c].did = s.call[c].did
  BY <1>2, <1>3 DEF CallRecords
<1>5. StreamInv(s.call[c]) => StreamInv(t.call[c]) BY <1>4 DEF StreamInv
<1> QED BY <1>3, <1>4, <1>5 DEF Follows, t

\* A record that differs in what the invariant does not look at.
LEMMA FollowsStore ==
  ASSUME NEW s \in States, NEW c \in Calls, NEW l \in CallRecords,
         l.state = s.call[c].state, l.op = s.call[c].op, l.terminated = s.call[c].terminated,
         l.media = s.call[c].media, l.desc = s.call[c].desc, l.did = s.call[c].did
  PROVE  Follows(s, Store(s, c, l), c) /\ Store(s, c, l) \in States /\ Store(s, c, l).call[c] = l
<1> DEFINE t == Store(s, c, l)
<1>1. /\ Touches(s, t, c) /\ t.call[c] = l /\ t.ctx = s.ctx
      /\ t.calls = s.calls /\ t.current = s.current /\ t.ring = s.ring
  BY StoreTouches
<1> HIDE DEF t
<1>2. StreamInv(s.call[c]) => StreamInv(l) BY DEF StreamInv
<1>3. Follows(s, t, c) BY <1>1, <1>2 DEF Follows
<1> QED BY <1>1, <1>3 DEF Touches, t

\* sal_call_accept answers the transaction that waits for an answer.
LEMMA SalAcceptTouches ==
  ASSUME NEW s \in States, NEW c \in Calls
  PROVE  LET t == sal_call_accept(s, c)
             k == Final(s.call[c])
             y == eXosip_call_send_200(s.ctx[c], k.result, k.local) IN
         /\ Touches(s, t, c) /\ t \in States
         /\ t.calls = s.calls /\ t.current = s.current /\ t.ring = s.ring
         /\ CanAnswer(s.ctx[c]) => t.call[c] = k /\ t.ctx[c] = y
         /\ ~CanAnswer(s.ctx[c]) => t = s
         /\ y \in Contexts /\ (DialogInv(s.ctx[c]) => DialogInv(t.ctx[c]))
         /\ s.ctx[c].stage # "incoming" => t.ctx[c].stage = s.ctx[c].stage
<1> DEFINE x == s.ctx[c]
           k == Final(s.call[c])
           y == eXosip_call_send_200(x, k.result, k.local)
           u == sal_call_get_final_media_description(s, c)
           t == sal_call_accept(s, c)
<1>1. s.call[c] \in CallRecords /\ x \in Contexts BY StateFields
<1>2. k \in CallRecords BY <1>1, FinalRecord
<1>3. k.result \in Descriptions /\ k.local \in Dirs BY <1>2 DEF CallRecords
<1>4. /\ Touches(s, u, c) /\ u.ctx = s.ctx /\ u.call[c] = k
      /\ u.calls = s.calls /\ u.current = s.current /\ u.ring = s.ring
  BY FinalDescriptionTouches
<1>5. t = IF CanAnswer(x) THEN Signal(u, c, y) ELSE s BY <1>4 DEF sal_call_accept
<1> HIDE DEF k, u, t
<1>6. y \in Contexts /\ (CanAnswer(x) => DialogInv(y) /\ y.stage = "conf")
  <2> HIDE DEF x
  <2> DEFINE b == k.result = "None"
             z == [x EXCEPT !.stage = "conf", !.re = "none", !.ack = b,
                            !.told = IF b THEN k.local ELSE k.result]
  <2>1. y \in Contexts BY <1>1, <1>3, OfferingContext
  <2>2. CanAnswer(x) => y = z BY DEF eXosip_call_send_200
  <2>3. z.stage = "conf" /\ z.re = "none" BY <1>1 DEF Contexts
  <2> HIDE DEF y, z
  <2> QED BY <2>1, <2>2, <2>3 DEF DialogInv
<1>7. CASE CanAnswer(x)
  <2> HIDE DEF y
  <2>1. /\ Touches(u, t, c) /\ t.ctx[c] = y /\ t.call = u.call
        /\ t.calls = u.calls /\ t.current = u.current /\ t.ring = u.ring
    BY <1>4, <1>5, <1>6, <1>7, SignalTouches DEF Touches
  <2>2. Touches(s, t, c) /\ t \in States BY <1>4, <2>1, TouchesTwice DEF Touches
  <2>3. x.stage # "incoming" => y.stage = x.stage BY <1>6, <1>7 DEF CanAnswer
  <2> QED BY <1>4, <1>6, <1>7, <2>1, <2>2, <2>3 DEF t, y, k, x
<1>8. CASE ~CanAnswer(x)
  <2>1. t = s BY <1>5, <1>8
  <2>2. Touches(s, t, c) BY <2>1 DEF Touches
  <2> QED BY <1>6, <1>8, <2>1, <2>2 DEF t, k, x
<1> QED BY <1>7, <1>8

LEMMA AcceptUpdateFollows ==
  ASSUME NEW s \in States, NEW c \in Calls
  PROVE  LET t == call_accept_update(s, c) IN
         Follows(s, t, c) /\ t \in States /\ t.call[c].state = s.call[c].state
<1> DEFINE accepted == sal_call_accept(s, c)
           final == sal_call_get_final_media_description(accepted, c)
           k == s.call[c]
           j == accepted.call[c]
           f == final.call[c]
           streams == linphone_core_update_streams(final, c, f.result)
           t == call_accept_update(s, c)
<1>1. k \in CallRecords /\ Final(k) \in CallRecords BY StateFields, FinalRecord
<1>2. /\ Touches(s, accepted, c) /\ accepted \in States /\ j \in {k, Final(k)}
      /\ DialogInv(s.ctx[c]) => DialogInv(accepted.ctx[c])
      /\ s.ctx[c].stage # "incoming" => accepted.ctx[c].stage = s.ctx[c].stage
      /\ accepted.calls = s.calls /\ accepted.current = s.current /\ accepted.ring = s.ring
  BY SalAcceptTouches
<1> HIDE DEF accepted
<1>3. /\ Touches(accepted, final, c) /\ final.ctx = accepted.ctx /\ f = Final(j)
      /\ final.calls = accepted.calls /\ final.current = accepted.current
      /\ final.ring = accepted.ring
  BY <1>2, FinalDescriptionTouches
<1> HIDE DEF final
<1>4. j \in CallRecords /\ f \in CallRecords BY <1>1, <1>2, <1>3, FinalRecord
<1>5. /\ f.state = k.state /\ f.op = k.op /\ f.terminated = k.terminated
      /\ f.media = k.media /\ f.desc = k.desc /\ f.did = k.did
  <2>1. /\ Final(k).state = k.state /\ Final(k).op = k.op /\ Final(k).terminated = k.terminated
        /\ Final(k).media = k.media /\ Final(k).desc = k.desc /\ Final(k).did = k.did
    BY <1>1, FinalRecord
  <2>2. /\ Final(j).state = j.state /\ Final(j).op = j.op /\ Final(j).terminated = j.terminated
        /\ Final(j).media = j.media /\ Final(j).desc = j.desc /\ Final(j).did = j.did
    BY <1>4, FinalRecord
  <2> QED BY <1>2, <1>3, <2>1, <2>2
<1>6. Touches(s, final, c) /\ final \in States BY <1>2, <1>3, TouchesTwice DEF Touches
<1>7. Follows(s, final, c)
  <2>1. StreamInv(k) => StreamInv(f) BY <1>5 DEF StreamInv
  <2> QED BY <1>2, <1>3, <1>5, <1>6, <2>1 DEF Follows
<1>8. CASE ~Usable(f.result)
  <2>1. t = final BY <1>8 DEF call_accept_update, final, accepted
  <2> QED BY <1>5, <1>6, <1>7, <2>1
<1>9. CASE Usable(f.result)
  <2>1. t = streams BY <1>9 DEF call_accept_update, final, accepted
  <2> DEFINE l == WithStreams(f, f.result)
  <2>2. f.result \in Descriptions BY <1>4 DEF CallRecords
  <2>3. /\ Touches(final, streams, c) /\ streams.ctx = final.ctx /\ streams.call[c] = l
        /\ streams.calls = final.calls /\ streams.current = final.current
        /\ streams.ring = FALSE
    BY <1>6, <2>2, UpdateStreamsTouches
  <2>4. /\ l.media = "on" \/ l.desc = "Inactive"
        /\ l.state = f.state /\ l.op = f.op /\ l.terminated = f.terminated /\ l.did = f.did
    BY <1>4, <1>9, <2>2, WithStreamsRecord
  <2> HIDE DEF streams, l, t
  <2>5. StreamInv(l) BY <2>4 DEF StreamInv
  <2>6. Follows(final, streams, c) BY <2>3, <2>4, <2>5 DEF Follows
  <2> QED BY <1>5, <1>7, <2>1, <2>3, <2>4, <2>6, FollowsTwice DEF Touches, t
<1> QED BY <1>8, <1>9

LEMMA AcceptCallUpdateFollows ==
  ASSUME NEW s \in States, NEW c \in Calls
  PROVE  LET t == linphone_core_accept_call_update(s, c) IN Follows(s, t, c) /\ t \in States
<1> DEFINE k == s.call[c]
           l == [k EXCEPT !.local = "SendRecv"]
           asked == Store(s, c, l)
           accepted == call_accept_update(asked, c)
           t == linphone_core_accept_call_update(s, c)
<1>1. CASE k.state # "UpdatedByRemote"
  <2>1. t = s BY <1>1 DEF linphone_core_accept_call_update
  <2> QED BY <2>1 DEF Follows, Touches
<1>2. CASE k.state = "UpdatedByRemote"
  <2>1. t = linphone_call_set_state(accepted, c, "StreamsRunning")
    BY <1>2 DEF linphone_core_accept_call_update, SetLocal
  <2>2. k \in CallRecords BY StateFields
  <2>3. /\ l \in CallRecords /\ l.state = k.state /\ l.op = k.op /\ l.terminated = k.terminated
        /\ l.media = k.media /\ l.desc = k.desc /\ l.did = k.did
    <3>1. "SendRecv" \in Dirs BY DEF Dirs
    <3> HIDE DEF k
    <3> QED BY <2>2, <3>1 DEF CallRecords
  <2> HIDE DEF l, t
  <2>4. Follows(s, asked, c) /\ asked \in States /\ asked.call[c] = l BY <2>3, FollowsStore
  <2> HIDE DEF asked
  <2>5. Follows(asked, accepted, c) /\ accepted \in States /\ accepted.call[c].state = k.state
    BY <2>3, <2>4, AcceptUpdateFollows
  <2> HIDE DEF accepted
  <2>6. "StreamsRunning" \in Talking /\ k.state \in Talking BY <1>2 DEF Talking
  <2>7. Follows(accepted, t, c) BY <2>1, <2>5, <2>6, FollowsState
  <2>8. Follows(s, t, c) BY <2>4, <2>5, <2>7, FollowsTwice
  <2> QED BY <2>7, <2>8 DEF Follows, Touches, t
<1> QED BY <1>1, <1>2

\* A re-INVITE of the peer.
LEMMA UpdatingFollows ==
  ASSUME NEW s \in States, NEW c \in Calls, NEW reaction, s.call[c].state # "Connected"
  PROVE  LET t == call_updating(s, c, reaction) IN Follows(s, t, c)
<1> DEFINE md == s.call[c].remote
           state == s.call[c].state
           accepted == call_accept_update(s, c)
           k == accepted.call[c]
           l == [k EXCEPT !.media_pending = TRUE]
           asks(dir) == sal_media_description_has_dir(md, dir)
           updated == linphone_call_set_state(s, c, "UpdatedByRemote")
           t == call_updating(s, c, reaction)
<1>1. Follows(s, accepted, c) /\ accepted \in States /\ k.state = state
  BY AcceptUpdateFollows
<1>2. k \in CallRecords BY <1>1, StateFields
<1>3. {"StreamsRunning", "PausedByRemote", "UpdatedByRemote"} = Talking BY DEF Talking
<1>4. \/ t = Store(accepted, c, l)
      \/ t = accepted
      \/ state = "PausedByRemote" /\ t = linphone_call_set_state(accepted, c, "StreamsRunning")
      \/ state = "StreamsRunning" /\ t = linphone_call_set_state(accepted, c, "PausedByRemote")
      \/ state = "StreamsRunning" /\ t = call_updated_by_remote(s, c, reaction)
  <2>1. CASE md = "None" BY <2>1 DEF call_updating
  <2>2. CASE md # "None" /\ state = "PausedByRemote"
    <3> HIDE DEF accepted
    <3>1. CASE asks("SendRecv") \/ asks("RecvOnly")
      BY <2>2, <3>1 DEF call_updating, accepted
    <3>2. CASE ~asks("SendRecv") /\ ~asks("RecvOnly")
      BY <2>2, <3>2 DEF call_updating, accepted
    <3> QED BY <3>1, <3>2
  <2>3. CASE md # "None" /\ state = "StreamsRunning"
    <3> HIDE DEF accepted
    <3>1. CASE asks("SendOnly") \/ asks("Inactive")
      BY <2>3, <3>1 DEF call_updating, accepted
    <3>2. CASE ~asks("SendOnly") /\ ~asks("Inactive")
      BY <2>3, <3>2 DEF call_updating, accepted
    <3> QED BY <3>1, <3>2
  <2>4. CASE md # "None" /\ state \notin {"PausedByRemote", "StreamsRunning"}
    BY <2>4 DEF call_updating
  <2> QED BY <2>1, <2>2, <2>3, <2>4
<1> HIDE DEF accepted, t
<1>5. CASE t = Store(accepted, c, l)
  <2>1. /\ l \in CallRecords /\ l.state = k.state /\ l.op = k.op /\ l.terminated = k.terminated
        /\ l.media = k.media /\ l.desc = k.desc /\ l.did = k.did
    <3> HIDE DEF k
    <3> QED BY <1>2 DEF CallRecords
  <2> HIDE DEF l
  <2>2. Follows(accepted, t, c) BY <1>1, <1>5, <2>1, FollowsStore
  <2> QED BY <1>1, <2>2, FollowsTwice DEF t
<1>6. CASE t = accepted BY <1>1, <1>6 DEF t
<1>7. ASSUME NEW cstate \in Talking, state \in Talking,
             t = linphone_call_set_state(accepted, c, cstate)
      PROVE  Follows(s, t, c)
  <2>1. Follows(accepted, t, c) BY <1>1, <1>7, FollowsState
  <2> QED BY <1>1, <2>1, FollowsTwice
<1>8. CASE state = "StreamsRunning" /\ t = call_updated_by_remote(s, c, reaction)
  <2>1. "UpdatedByRemote" \in Talking /\ state \in Talking BY <1>3, <1>8
  <2>2. Follows(s, updated, c) /\ updated \in States BY <2>1, FollowsState DEF Follows, Touches
  <2>3. t = updated \/ t = linphone_core_accept_call_update(updated, c)
    BY <1>8 DEF call_updated_by_remote
  <2> HIDE DEF updated
  <2>4. Follows(updated, linphone_core_accept_call_update(updated, c), c)
    BY <2>2, AcceptCallUpdateFollows
  <2> QED BY <2>2, <2>3, <2>4, FollowsTwice DEF t
<1> QED BY <1>3, <1>4, <1>5, <1>6, <1>7, <1>8 DEF t

LEMMA ReinvitedCallTalk ==
  ASSUME NEW s \in States, NEW c \in Calls, NEW p, NEW q, Arrives(s, p, q, c, "REINVITE"),
         s.ctx[c].stage \in {"conf", "closed", "released"}, NEW md \in Descriptions, NEW reaction
  PROVE  LET t == handle_reinvite(s, c, md, reaction) IN
         Spares(s, t, c) /\ Fine(t, q, c) /\ Follows(s, t, c)
<1> DEFINE k == s.call[c]
           x == s.ctx[c]
           l == [k EXCEPT !.remote = md, !.result = "None"]
           asked == Store(s, c, l)
           t == handle_reinvite(s, c, md, reaction)
<1>1. CASE ~k.op
  <2>1. t = s BY <1>1 DEF handle_reinvite
  <2>2. Fine(s, q, c) BY IgnoredTalk
  <2>3. Follows(s, s, c) BY DEF Follows, Touches
  <2> QED BY <2>1, <2>2, <2>3 DEF Spares
<1>2. CASE k.op
  <2>1. k \in CallRecords BY StateFields
  <2>2. TalkOf(k, x, p, c) /\ InQueue(p, "REINVITE", c) BY ArrivesQueued DEF Arrives, Fine
  <2>3. t = call_updating(asked, c, reaction) BY <1>2 DEF handle_reinvite
  <2> HIDE DEF k, x, t
  <2>4. "reinvite" \in Features BY <2>2 DEF TalkOf, SilenceInv
  <2>5. k.state \notin Incoming \cup {"Idle"} BY <2>2 DEF TalkOf, FreshInv
  <2>6. k.op /\ ~k.terminated => k.state \notin Ended BY <2>2 DEF TalkOf, RedirectInv
  <2>7. k.state # "Connected"
    <3>1. AckFirst(p, c) => ~(Head(p).type = "REINVITE" /\ Head(p).cid = c)
      BY Popping DEF Arrives
    <3> QED BY <2>2, <3>1 DEF TalkOf, OfferInv, Arrives
  <2>8. /\ l \in CallRecords /\ l.state = k.state /\ l.op = k.op /\ l.terminated = k.terminated
        /\ l.media = k.media /\ l.desc = k.desc /\ l.did = k.did
    <3>1. "None" \in Descriptions BY DEF Descriptions
    <3> QED BY <2>1, <3>1 DEF CallRecords
  <2> HIDE DEF l
  <2>9. Follows(s, asked, c) /\ asked \in States /\ asked.call[c] = l
    BY <2>8, FollowsStore DEF k
  <2> HIDE DEF asked
  <2>10. Follows(asked, t, c) BY <2>3, <2>7, <2>8, <2>9, UpdatingFollows
  <2>11. Follows(s, t, c) BY <2>9, <2>10, FollowsTwice
  <2>12. Endable(x, q, c) /\ (~k.did \/ k.state \in Ended => Awaited(x, q, c))
    <3>1. Endable(x, p, c) BY <2>2, TalkEndable
    <3>2. ~k.did \/ k.state \in Ended => Awaited(x, p, c)
      BY <2>2 DEF TalkOf, AskedInv, Awaited
    <3> QED BY <3>1, <3>2, PopEndable DEF Arrives
  <2>13. StreamInv(k) BY <2>2 DEF TalkOf
  <2> QED BY <2>4, <2>5, <2>6, <2>7, <2>11, <2>12, <2>13, FollowsTalk DEF k, x, t
<1> QED BY <1>1, <1>2

-----------------------------------------------------------------------------
LEMMA StoreAlike ==
  ASSUME NEW s \in States, NEW c \in Calls, NEW l \in CallRecords, Alike(s.call[c], l)
  PROVE  LET t == Store(s, c, l) IN
         /\ Spares(s, t, NoCall) /\ t \in States /\ t.call[c] = l /\ t.ctx = s.ctx
         /\ Touches(s, t, c)
         /\ t.calls = s.calls /\ t.current = s.current /\ t.ring = s.ring
<1> DEFINE t == Store(s, c, l)
<1>1. /\ Touches(s, t, c) /\ t.call[c] = l /\ t.ctx = s.ctx
      /\ t.calls = s.calls /\ t.current = s.current /\ t.ring = s.ring
  BY StoreTouches
<1> HIDE DEF t
<1>2. \A q : Fine(s, q, c) => Fine(t, q, c) BY <1>1, AlikeTalk DEF Fine
<1>3. Spares(s, t, NoCall) BY <1>1, <1>2, TouchesSpares, SparesOne
<1> QED BY <1>1, <1>3 DEF Spares, t

\* A REFER of the peer: the transfer waits for the pause of the call.
LEMMA ReferTalk ==
  ASSUME NEW s \in States, NEW c \in Calls, NEW p, NEW q, Arrives(s, p, q, c, "REFER"),
         NEW n \in Calls \cup {NoCall},
         n # NoCall => n # c /\ Fresh(s, n), n # NoCall => Nothing(q, n)
  PROVE  Leaves(s, refer_received(s, c, n), q, c)
<1> DEFINE k == s.call[c]
           l == [k EXCEPT !.refer_pending = TRUE]
           asked == Store(s, c, l)
           started == linphone_core_start_refered_call(asked, c, n)
           paused == linphone_core_pause_call(asked, c)
           j == paused.call[c]
           m == [j EXCEPT !.was_automatically_paused = TRUE]
           marked == Store(paused, c, m)
           t == refer_received(s, c, n)
<1>1. Fine(s, q, c) BY IgnoredTalk
<1>2. k \in CallRecords BY StateFields
<1>3. t = IF ~k.op THEN s ELSE IF k.state = "Paused" THEN started ELSE marked
  BY DEF refer_received
<1>4. l \in CallRecords /\ Alike(k, l) BY <1>2 DEF CallRecords, Alike
<1> HIDE DEF l, t
<1>5. /\ Spares(s, asked, NoCall) /\ asked \in States /\ asked.ctx = s.ctx
      /\ Touches(s, asked, c)
  BY <1>4, StoreAlike
<1> HIDE DEF asked
<1>6. \A d \in Calls : Fine(s, q, d) => Fine(asked, q, d) BY <1>5, SparesAll
<1>7. CASE ~k.op BY <1>1, <1>3, <1>7 DEF Leaves, t
<1>8. CASE k.op /\ k.state = "Paused"
  <2>1. n # NoCall => n # c /\ Fresh(asked, n) BY <1>5 DEF Fresh, Touches
  <2>2. \A d \in Calls : Fine(asked, q, d) => started \in States /\ Fine(started, q, d)
    BY <1>5, <2>1, StartReferedTalk
  <2>3. t = started BY <1>3, <1>8
  <2> HIDE DEF started
  <2>4. Fine(asked, q, c) BY <1>1, <1>6
  <2> QED BY <1>6, <2>2, <2>3, <2>4 DEF Leaves, t
<1>9. CASE k.op /\ k.state # "Paused"
  <2>1. Spares(asked, paused, NoCall) BY <1>5, PauseSpares
  <2>2. paused \in States BY <2>1 DEF Spares
  <2> HIDE DEF paused
  <2>3. j \in CallRecords BY <2>2, StateFields
  <2>4. m \in CallRecords /\ Alike(j, m) BY <2>3 DEF CallRecords, Alike
  <2> HIDE DEF m
  <2>5. Spares(paused, marked, NoCall) BY <2>2, <2>4, StoreAlike
  <2>6. t = marked BY <1>3, <1>9
  <2> HIDE DEF marked
  <2>7. Spares(s, marked, NoCall) BY <1>5, <2>1, <2>5, SparesTwice
  <2>8. marked \in States /\ \A d \in Calls : Fine(s, q, d) => Fine(marked, q, d)
    BY <2>7, SparesAll
  <2> QED BY <1>1, <2>6, <2>8 DEF Leaves, t
<1> QED BY <1>7, <1>8, <1>9

-----------------------------------------------------------------------------
\* An incoming call is answered; without an offer the answer is in the ACK.
LEMMA AcceptedRecord ==
  ASSUME NEW k \in CallRecords, NEW x \in Contexts, NEW q, NEW c, TalkOf(k, x, q, c),
         k.state \in Incoming, x.stage \in {"incoming", "refused", "failed", "released"},
         NEW l \in CallRecords, l.did, l.local = k.local,
         \/ l.state = "Connected" /\ l.media_pending /\ k.result = "None"
         \/ l.state = "StreamsRunning" /\ (l.media = "on" \/ l.desc = "Inactive")
              /\ k.result # "None",
         NEW y, y = IF CanAnswer(x) THEN eXosip_call_send_200(x, k.result, k.local) ELSE x
  PROVE  TalkOf(l, y, q, c)
<1>1. /\ FreshInv(k, x, q, c) /\ DialogInv(x) /\ SilenceInv(k, x, q, c)
      /\ AskedInv(k, x, q, c) /\ AgreedInv(k, x, q, c)
  BY DEF TalkOf
<1>2. /\ y.re = "none" /\ y.stage = IF x.stage = "incoming" THEN "conf" ELSE x.stage
      /\ y.ack => y.stage = "conf" /\ k.result = "None"
      /\ y.stage = "conf" /\ k.result = "None" => y.ack
  <2>1. CASE x.stage = "incoming"
    <3>1. CASE k.result = "None"
      <4> DEFINE z == [x EXCEPT !.stage = "conf", !.re = "none", !.ack = TRUE, !.told = k.local]
      <4>1. y = z BY <2>1, <3>1 DEF CanAnswer, eXosip_call_send_200
      <4>2. z.re = "none" /\ z.stage = "conf" /\ z.ack BY DEF Contexts
      <4> QED BY <2>1, <3>1, <4>1, <4>2
    <3>2. CASE k.result # "None"
      <4> DEFINE z == [x EXCEPT !.stage = "conf", !.re = "none", !.ack = FALSE,
                                !.told = k.result]
      <4>1. y = z BY <2>1, <3>2 DEF CanAnswer, eXosip_call_send_200
      <4>2. z.re = "none" /\ z.stage = "conf" /\ ~z.ack BY DEF Contexts
      <4> QED BY <2>1, <3>2, <4>1, <4>2
    <3> QED BY <3>1, <3>2
  <2>2. CASE x.stage # "incoming"
    <3>1. y = x BY <2>2 DEF CanAnswer
    <3>2. ~x.ack /\ x.re = "none" BY <1>1, <2>2 DEF DialogInv
    <3> QED BY <2>2, <3>1, <3>2
  <2> QED BY <2>1, <2>2
<1>3. \A type \in {"REINVITE", "ACK", "ANSWERED"} : ~InQueue(q, type, c)
  BY <1>1 DEF FreshInv
<1>4. StreamInv(l) BY DEF StreamInv, Talking
<1>5. OfferInv(l, y, q, c)
  <2>1. AckFirst(q, c) BY <1>3 DEF AckFirst, InQueue
  <2> QED BY <1>2, <1>3, <2>1 DEF OfferInv
<1>6. FreshInv(l, y, q, c) BY <1>2 DEF FreshInv, Incoming
<1>7. RedirectInv(l, y, q, c) BY DEF RedirectInv, Ended
<1>8. DialogInv(y) BY <1>2 DEF DialogInv
<1>9. SilenceInv(l, y, q, c) BY <1>1, <1>2, <1>3 DEF SilenceInv, Over, Ended
<1>10. AskedInv(l, y, q, c) BY <1>1, <1>2, <1>3 DEF AskedInv, Ended
<1>11. AgreedInv(l, y, q, c)
  BY <1>1, <1>2, <1>3 DEF AgreedInv, Live, Outgoing, Incoming
<1> QED BY <1>4, <1>5, <1>6, <1>7, <1>8, <1>9, <1>10, <1>11 DEF TalkOf

LEMMA AcceptCallTalk ==
  ASSUME NEW s \in States, NEW c \in Calls, s.call[c].state \in Incoming,
         CallInv(s.call[c], s.ctx[c]), NEW q, Fine(s, q, c)
  PROVE  LET t == linphone_core_accept_call(s, c) IN
         /\ Spares(s, t, c) /\ Fine(t, q, c)
         /\ t.calls = s.calls /\ t.current = c /\ t.ring = FALSE
         /\ t.call[c].state \in {"Connected", "StreamsRunning"}
         /\ \A d \in Calls : d # c => t.call[d].state \in {s.call[d].state, "Pausing"}
<1> DEFINE k == s.call[c]
           x == s.ctx[c]
           pre == linphone_core_preempt_sound_resources(s)
           freed == IF s.current = c THEN s ELSE pre
           j == [freed.call[c] EXCEPT !.media = IF @ = "none" THEN "init" ELSE @]
           stored == Store(freed, c, j)
           ready == Quiet(stored)
           answered == sal_call_accept(ready, c)
           taken == [answered EXCEPT !.current = c]
           up == linphone_call_set_state(taken, c, "Connected")
           connected == sal_call_get_final_media_description(up, c)
           md == connected.call[c].result
           running == linphone_core_update_streams(connected, c, md)
           done == linphone_call_set_state(running, c, "StreamsRunning")
           t == linphone_core_accept_call(s, c)
           y == IF CanAnswer(x) THEN eXosip_call_send_200(x, k.result, k.local) ELSE x
<1>1. k \in CallRecords /\ x \in Contexts BY StateFields
<1>2. /\ TalkOf(k, x, q, c) /\ CallInv(k, x) /\ k.state \in Incoming
      /\ k.state \notin Ended /\ k.state \notin {"Connected", "StreamsRunning", "PausedByRemote"}
  BY DEF Fine, Incoming, Ended
<1>3. /\ k.did /\ k.result # "Empty" /\ k.result \in Descriptions
      /\ k.result = "None" => k.remote = "None"
  <2> HIDE DEF k, x
  <2> QED BY <1>1, <1>2 DEF TalkOf, FreshInv, CallRecords
<1>4. x.stage \in {"incoming", "refused", "failed", "released"} BY <1>2 DEF CallInv
<1>5. t = IF md = "None" THEN running ELSE done
  <2>1. s.call[c].state # "Connected" BY <1>2
  <2> QED BY <2>1 DEF linphone_core_accept_call
<1> HIDE DEF t
<1>6. /\ Spares(s, freed, NoCall) /\ freed \in States /\ freed.call[c] = k /\ freed.ctx[c] = x
      /\ freed.calls = s.calls
      /\ \A d \in Calls : freed.call[d].state \in {s.call[d].state, "Pausing"}
  <2>1. CASE s.current = c BY <2>1 DEF Spares
  <2>2. CASE s.current # c
    <3>1. Spares(s, pre, NoCall) /\ pre \in States /\ Pauses(s, pre, s.current)
      BY PreemptSpares
    <3> HIDE DEF pre
    <3>2. pre.call[c] = k /\ pre.ctx[c] = x /\ pre.calls = s.calls BY <2>2, <3>1 DEF Pauses
    <3>3. \A d \in Calls : pre.call[d].state \in {s.call[d].state, "Pausing"} BY <3>1 DEF Pauses
    <3> QED BY <2>2, <3>1, <3>2, <3>3
  <2> QED BY <2>1, <2>2
<1> HIDE DEF freed
<1>7. /\ j \in CallRecords /\ j.state = k.state /\ j.did /\ j.local = k.local
      /\ j.remote = k.remote /\ j.result = k.result
  <2> DEFINE media == IF k.media = "none" THEN "init" ELSE k.media
  <2>1. media \in {"none", "init", "on"}
    <3> HIDE DEF k
    <3> QED BY <1>1 DEF CallRecords
  <2>2. j = [k EXCEPT !.media = media] BY <1>6
  <2> HIDE DEF media, k, j
  <2> QED BY <1>1, <1>3, <2>1, <2>2 DEF CallRecords
<1> HIDE DEF j
<1>8. /\ Touches(freed, stored, c) /\ stored.call[c] = j /\ stored.ctx = freed.ctx
      /\ stored.calls = s.calls
  BY <1>6, <1>7, StoreTouches
<1> HIDE DEF stored
<1>9. stored \in States BY <1>8 DEF Touches
<1>10. /\ Touches(stored, ready, c) /\ ready \in States /\ ready.call[c] = j
       /\ ready.ctx[c] = x /\ ready.calls = s.calls
  BY <1>6, <1>8, <1>9, QuietTouches
<1> HIDE DEF ready
<1> DEFINE a == answered.call[c]
<1>11. /\ Touches(ready, answered, c) /\ answered \in States /\ answered.calls = s.calls
       /\ a \in {j, Final(j)}
       /\ answered.ctx[c] = IF CanAnswer(x)
                            THEN eXosip_call_send_200(x, Final(j).result, Final(j).local)
                            ELSE x
  BY <1>10, SalAcceptTouches
<1> HIDE DEF answered
<1>12. /\ Final(j) \in CallRecords /\ Final(j).state = k.state /\ Final(j).did
       /\ Final(j).local = k.local /\ Final(j).remote = k.remote /\ Final(j).result = k.result
  <2>1. /\ Final(j) \in CallRecords /\ Final(j).state = j.state /\ Final(j).did = j.did
        /\ Final(j).local = j.local /\ Final(j).remote = j.remote
    BY <1>7, FinalRecord
  <2>2. Final(j).result = "None" <=> j.result = "None" /\ j.remote = "None"
    BY <1>7, FinalRecord
  <2>3. j.result # "None" => Final(j).result = j.result BY <1>7, FinalRecord
  <2> QED BY <1>3, <1>7, <2>1, <2>2, <2>3
<1>13. answered.ctx[c] = y BY <1>11, <1>12
<1>14. /\ a \in CallRecords /\ a.state = k.state /\ a.did /\ a.local = k.local
       /\ a.remote = k.remote /\ a.result = k.result
  BY <1>7, <1>11, <1>12
<1>15. /\ taken \in States /\ taken.call = answered.call /\ taken.ctx = answered.ctx
       /\ taken.calls = s.calls /\ taken.current = c /\ Touches(answered, taken, c)
  BY <1>11, CurrentTouches
<1> HIDE DEF taken, y
<1> DEFINE b == [a EXCEPT !.state = "Connected"]
<1>16. /\ Touches(taken, up, c) /\ up.ctx = taken.ctx /\ up.call[c] = b
       /\ up.calls = taken.calls /\ up.current = taken.current
  <2>1. "Connected" \in Live BY DEF Live
  <2>2. taken.call[c].state \notin Ended BY <1>2, <1>14, <1>15
  <2> QED BY <1>15, <2>1, <2>2, SetStateTouches
<1> HIDE DEF up, a
<1>17. /\ b \in CallRecords /\ b.state = "Connected" /\ b.did /\ b.local = k.local
       /\ b.remote = k.remote /\ b.result = k.result
  BY <1>14 DEF CallRecords, CallStates, Live
<1> HIDE DEF b
<1> DEFINE f == connected.call[c]
<1>18. /\ Touches(up, connected, c) /\ connected.ctx = up.ctx /\ f = Final(b)
       /\ connected.calls = up.calls /\ connected.current = up.current
  BY <1>16, FinalDescriptionTouches DEF Touches
<1> HIDE DEF connected
<1>19. /\ f \in CallRecords /\ f.state = "Connected" /\ f.did /\ f.local = k.local
       /\ f.result = k.result
  <2>1. /\ Final(b) \in CallRecords /\ Final(b).state = b.state /\ Final(b).did = b.did
        /\ Final(b).local = b.local
    BY <1>17, FinalRecord
  <2>2. Final(b).result = "None" <=> b.result = "None" /\ b.remote = "None"
    BY <1>17, FinalRecord
  <2>3. b.result # "None" => Final(b).result = b.result BY <1>17, FinalRecord
  <2> QED BY <1>3, <1>17, <1>18, <2>1, <2>2, <2>3
<1> HIDE DEF f
<1>20. md = k.result /\ connected \in States BY <1>18, <1>19 DEF f, Touches
<1> DEFINE l == WithStreams(f, k.result)
<1>21. /\ Touches(connected, running, c) /\ running.ctx = connected.ctx /\ running.call[c] = l
       /\ running.calls = connected.calls /\ running.current = connected.current
       /\ running.ring = FALSE
  <2>1. connected \in States /\ md \in Descriptions BY <1>3, <1>20
  <2>2. l = WithStreams(connected.call[c], md) BY <1>20 DEF f
  <2> HIDE DEF md, l
  <2> QED BY <2>1, <2>2, UpdateStreamsTouches
<1> HIDE DEF running, md
<1>22. /\ l \in CallRecords /\ (l.media_pending <=> k.result = "None")
       /\ k.result # "None" => l.media = "on" \/ l.desc = "Inactive"
       /\ l.state = "Connected" /\ l.did /\ l.local = k.local
  <2>1. k.result # "None" => Usable(k.result)
    BY <1>3 DEF Usable, sal_media_description_empty
  <2> QED BY <1>3, <1>19, <2>1, WithStreamsRecord
<1> HIDE DEF l
<1>23. /\ Spares(s, running, c) /\ running \in States /\ running.ctx[c] = y
       /\ running.calls = s.calls /\ running.current = c
       /\ \A d \in Calls : d # c => running.call[d].state \in {s.call[d].state, "Pausing"}
  <2>1. Spares(s, freed, c) BY <1>6, SparesAll
  <2>2. Touches(freed, answered, c) BY <1>8, <1>10, <1>11, TouchesTwice
  <2>3. Touches(freed, up, c) BY <1>15, <1>16, <2>2, TouchesTwice
  <2>4. Touches(freed, running, c) BY <1>18, <1>21, <2>3, TouchesTwice
  <2>5. Spares(s, running, c) BY <2>1, <2>4, TouchesSpares, SparesTwice
  <2>6. \A d \in Calls : d # c => running.call[d] = freed.call[d] BY <2>4 DEF Touches
  <2>7. \A d \in Calls : d # c => running.call[d].state \in {s.call[d].state, "Pausing"}
    BY <1>6, <2>6
  <2> QED BY <1>13, <1>15, <1>16, <1>18, <1>21, <2>5, <2>7 DEF Spares
<1>24. CASE k.result = "None"
  <2>1. TalkOf(l, y, q, c)
    <3> HIDE DEF k, x
    <3> QED BY <1>1, <1>2, <1>4, <1>22, <1>24, AcceptedRecord DEF y
  <2> QED BY <1>5, <1>20, <1>21, <1>22, <1>23, <1>24, <2>1 DEF Fine, t
<1>25. CASE k.result # "None"
  <2> DEFINE m == [l EXCEPT !.state = "StreamsRunning"]
  <2>1. /\ Touches(running, done, c) /\ done.ctx = running.ctx /\ done.call[c] = m
        /\ done.calls = s.calls /\ done.current = c /\ done.ring = FALSE
    <3>1. "StreamsRunning" \in Live BY DEF Live
    <3>2. running.call[c].state \notin Ended BY <1>21, <1>22 DEF Ended
    <3> QED BY <1>21, <1>23, <3>1, <3>2, SetStateTouches
  <2> HIDE DEF done
  <2>2. /\ m \in CallRecords /\ m.state = "StreamsRunning" /\ m.did /\ m.local = k.local
        /\ m.media = "on" \/ m.desc = "Inactive"
    BY <1>22, <1>25 DEF CallRecords, CallStates, Live
  <2> HIDE DEF m
  <2>3. TalkOf(m, y, q, c)
    <3> HIDE DEF k, x
    <3>1. m.did /\ m.local = k.local /\ m.state = "StreamsRunning"
          /\ (m.media = "on" \/ m.desc = "Inactive")
      BY <2>2
    <3> QED BY <1>1, <1>2, <1>4, <1>25, <2>2, <3>1, AcceptedRecord DEF y
  <2>4. Spares(s, done, c) BY <1>23, <2>1, TouchesSpares, SparesTwice
  <2>5. done.ctx[c] = y BY <1>23, <2>1
  <2>6. \A d \in Calls : d # c => done.call[d].state \in {s.call[d].state, "Pausing"}
    BY <1>23, <2>1 DEF Touches
  <2> QED BY <1>5, <1>20, <1>25, <2>1, <2>2, <2>3, <2>4, <2>5, <2>6 DEF Fine, t
<1> QED BY <1>24, <1>25

-----------------------------------------------------------------------------
\* The call that an INVITE is for: what the core makes of it, or refuses.
LEMMA IncomingRecord ==
  ASSUME NEW k, k.state \in Incoming \cup {"Idle"}, NEW x, NEW q, NEW c, TalkOf(k, x, q, c),
         NEW l, l.state \in Incoming, l.did, l.local = "SendRecv",
         l.result # "Empty", l.result = "None" => l.remote = "None"
  PROVE  TalkOf(l, x, q, c)
<1>1. /\ FreshInv(k, x, q, c) /\ DialogInv(x) /\ SilenceInv(k, x, q, c) /\ AskedInv(k, x, q, c)
  BY DEF TalkOf
<1>2. /\ x.stage \notin {"conf", "closed"} /\ x.re = "none" /\ ~x.ack
      /\ \A type \in {"REINVITE", "ACK", "ANSWERED"} : ~InQueue(q, type, c)
  BY <1>1 DEF FreshInv, DialogInv
<1>3. StreamInv(l) BY DEF StreamInv, Talking, Incoming
<1>4. OfferInv(l, x, q, c) BY DEF OfferInv, Incoming
<1>5. FreshInv(l, x, q, c) BY <1>1 DEF FreshInv
<1>6. RedirectInv(l, x, q, c) BY DEF RedirectInv, Ended, Incoming
<1>7. SilenceInv(l, x, q, c) BY <1>1, <1>2 DEF SilenceInv, Over, Ended, Incoming
<1>8. AskedInv(l, x, q, c) BY <1>1, <1>2 DEF AskedInv
<1>9. AgreedInv(l, x, q, c)
  <2>1. Once(q, "ANSWERED", c) BY <1>2 DEF Once, InQueue
  <2> QED BY <1>2, <2>1 DEF AgreedInv, Incoming, Outgoing
<1> QED BY <1>1, <1>3, <1>4, <1>5, <1>6, <1>7, <1>8, <1>9 DEF TalkOf

LEMMA IdleRecord ==
  ASSUME NEW k, k.state = "Idle", NEW x, NEW q, NEW c, TalkOf(k, x, q, c),
         NEW l, l.state = "Idle", l.media = "none"
  PROVE  TalkOf(l, x, q, c)
<1>1. /\ FreshInv(k, x, q, c) /\ DialogInv(x) /\ SilenceInv(k, x, q, c) /\ AskedInv(k, x, q, c)
  BY DEF TalkOf
<1>2. x.stage \notin {"conf", "closed"} BY <1>1 DEF FreshInv
<1>3. StreamInv(l) BY DEF StreamInv, Talking
<1>4. OfferInv(l, x, q, c) BY DEF OfferInv
<1>5. FreshInv(l, x, q, c) BY <1>1 DEF FreshInv, Incoming
<1>6. RedirectInv(l, x, q, c) BY DEF RedirectInv, Ended
<1>7. SilenceInv(l, x, q, c) BY <1>1, <1>2 DEF SilenceInv, Over, Ended
<1>8. AskedInv(l, x, q, c) BY <1>1, <1>2 DEF AskedInv
<1>9. AgreedInv(l, x, q, c) BY DEF AgreedInv, Live, Incoming, Outgoing
<1> QED BY <1>1, <1>3, <1>4, <1>5, <1>6, <1>7, <1>8, <1>9 DEF TalkOf

LEMMA NewIncomingTalk ==
  ASSUME NEW s \in States, NEW c \in Calls, NEW md \in Descriptions
  PROVE  LET t == linphone_call_new_incoming(s, c, md)
             k == t.call[c] IN
         /\ Touches(s, t, c) /\ t \in States /\ t.ctx = s.ctx
         /\ t.calls = s.calls /\ t.current = s.current /\ t.ring = s.ring
         /\ k \in CallRecords /\ k.state = "Idle" /\ k.op /\ ~k.terminated /\ k.did /\ ~k.srtp
         /\ k.local = "SendRecv" /\ (k.result = "None" => k.remote = "None")
         /\ k.media = "none"
<1> DEFINE n == [NewCall EXCEPT !.refcnt = 1, !.op = TRUE, !.did = TRUE, !.remote = md]
           stored == Store(s, c, n)
           u == [stored EXCEPT !.friends = "OnThePhone"]
           t == linphone_call_new_incoming(s, c, md)
<1>1. n \in CallRecords /\ n.state = "Idle" /\ n.terminated = FALSE /\ n.srtp = FALSE
  BY IncomingTyped
<1>2. n.op /\ n.did /\ n.local = "SendRecv" /\ n.media = "none" BY DEF NewCall
<1>3. t = sal_call_get_final_media_description(u, c) BY DEF linphone_call_new_incoming
<1> HIDE DEF n
<1>4. /\ Touches(s, stored, c) /\ stored.call[c] = n /\ stored.ctx = s.ctx
      /\ stored.calls = s.calls /\ stored.current = s.current /\ stored.ring = s.ring
  BY <1>1, StoreTouches
<1>5. stored \in States BY <1>4 DEF Touches
<1> HIDE DEF stored
<1>6. /\ u \in States /\ u.call = stored.call /\ u.ctx = stored.ctx
      /\ u.calls = stored.calls /\ u.current = stored.current /\ u.ring = stored.ring
  BY <1>5 DEF States
<1> HIDE DEF u, t
<1>7. /\ Touches(u, t, c) /\ t.ctx = u.ctx /\ t.call[c] = Final(u.call[c])
      /\ t.calls = u.calls /\ t.current = u.current /\ t.ring = u.ring
  BY <1>3, <1>6, FinalDescriptionTouches
<1>8. Touches(s, t, c) /\ t \in States
  BY <1>4, <1>6, <1>7 DEF Touches
<1>9. t.call[c] = Final(n) BY <1>4, <1>6, <1>7
<1>10. /\ Final(n) \in CallRecords /\ Final(n).state = n.state /\ Final(n).op = n.op
       /\ Final(n).terminated = n.terminated /\ Final(n).did = n.did
       /\ Final(n).local = n.local /\ Final(n).remote = n.remote /\ Final(n).media = n.media
       /\ Final(n).result = "None" => n.remote = "None"
  <2>1. Final(n).result = "None" <=> n.result = "None" /\ n.remote = "None"
    BY <1>1, FinalRecord
  <2> QED BY <1>1, <2>1, FinalRecord
<1>11. Final(n).srtp = n.srtp
  BY <1>1 DEF Final, CallRecords
<1> QED BY <1>1, <1>2, <1>4, <1>6, <1>7, <1>8, <1>9, <1>10, <1>11 DEF t

LEMMA RefuseTalk ==
  ASSUME NEW s \in States, NEW c \in Calls, NEW q, Fine(s, q, c),
         s.call[c].state \notin Live, s.ctx[c].stage # "conf"
  PROVE  LET t == Signal(s, c, eXosip_call_refuse(s.ctx[c])) IN
         /\ Touches(s, t, c) /\ t \in States /\ t.call = s.call /\ Fine(t, q, c)
<1> DEFINE x == s.ctx[c]
           y == eXosip_call_refuse(x)
           t == Signal(s, c, y)
<1>1. x \in Contexts /\ s.call[c] \in CallRecords BY StateFields
<1>2. y = eXosip_call_terminate(x, TRUE) BY DEF eXosip_call_terminate
<1>3. TalkOf(s.call[c], y, q, c) /\ y \in Contexts BY <1>1, <1>2, HungUpTalk DEF Fine
<1> HIDE DEF y
<1>4. Touches(s, t, c) /\ t.ctx[c] = y /\ t.call = s.call BY <1>3, SignalTouches
<1> QED BY <1>3, <1>4 DEF Fine, Touches, t, y

\* linphone_core_terminate_call.
LEMMA TerminateTalk ==
  ASSUME NEW s \in States, NEW c \in Calls, s.call[c].state \notin Ended, s.call[c].op,
         NEW q, Fine(s, q, c)
  PROVE  LET t == linphone_core_terminate_call(s, c) IN
         Spares(s, t, c) /\ Fine(t, q, c) /\ Gone(s, t, c, "End")
<1> DEFINE d == Dropped(s, c, "End")
<1>1. "End" \in Ended BY DEF Ended
<1>2. Spares(s, d, c) BY <1>1, DroppedTalk
<1>4. Gone(s, d, c, "End") BY <1>1, DroppedTalk
<1>5. Fine(d, q, c)
  <2>1. Endable(s.ctx[c], q, c) /\ (s.call[c].did \/ Awaited(s.ctx[c], q, c))
    BY TalkEndable DEF Fine
  <2> QED BY <1>1, <2>1, DroppedTalk
<1>6. linphone_core_terminate_call(s, c) = d BY TerminateDrops DEF d
<1> HIDE DEF d
<1> QED BY <1>2, <1>4, <1>5, <1>6

\* The notification of an incoming call, in which the application may answer
\* or end it.
LEMMA NotifiedTalk ==
  ASSUME NEW s \in States, NEW c \in Calls, s.call[c].state = "IncomingReceived",
         s.call[c].op, s.call[c].did, CallInv(s.call[c], s.ctx[c]), NEW q, Fine(s, q, c),
         NEW reaction \in {"none", "accept", "terminate"}
  PROVE  LET t == Notified(s, c, reaction) IN
         /\ Spares(s, t, c) /\ Fine(t, q, c)
         /\ t.call[c].state = "IncomingReceived" => t = s
<1> DEFINE t == Notified(s, c, reaction)
           accepted == linphone_core_accept_call(s, c)
<1>1. CASE reaction = "accept"
  <2>1. t = accepted BY <1>1 DEF Notified
  <2>2. s.call[c].state \in Incoming BY DEF Incoming
  <2>3. /\ Spares(s, accepted, c) /\ Fine(accepted, q, c)
        /\ accepted.call[c].state \in {"Connected", "StreamsRunning"}
    BY <2>2, AcceptCallTalk
  <2> QED BY <2>1, <2>3
<1>2. CASE reaction = "terminate"
  <2> DEFINE d == linphone_core_terminate_call(s, c)
  <2>1. t = d BY <1>2 DEF Notified
  <2>2. s.call[c].state \notin Ended BY DEF Ended
  <2> HIDE DEF t
  <2>3. Spares(s, d, c) /\ Fine(d, q, c) /\ Gone(s, d, c, "End") BY <2>2, TerminateTalk
  <2> HIDE DEF d
  <2> QED BY <2>1, <2>3 DEF Gone, t
<1>3. CASE reaction = "none"
  <2>1. t = s BY <1>3 DEF Notified
  <2> QED BY <2>1 DEF Spares
<1> QED BY <1>1, <1>2, <1>3

\* Early media for an incoming call.
LEMMA HeardTalk ==
  ASSUME NEW s \in States, NEW c \in Calls, s.call[c].state = "IncomingReceived",
         s.call[c].local = "SendRecv", NEW q, Fine(s, q, c)
  PROVE  LET early == linphone_call_set_state(s, c, "IncomingEarlyMedia")
             t == linphone_core_update_streams(early, c, early.call[c].result) IN
         Spares(s, t, c) /\ Fine(t, q, c)
<1> DEFINE k == s.call[c]
           x == s.ctx[c]
           early == linphone_call_set_state(s, c, "IncomingEarlyMedia")
           j == [k EXCEPT !.state = "IncomingEarlyMedia"]
           md == early.call[c].result
           t == linphone_core_update_streams(early, c, md)
           l == WithStreams(j, j.result)
<1>1. k \in CallRecords /\ TalkOf(k, x, q, c) BY StateFields DEF Fine
<1>2. Touches(s, early, c) /\ early.ctx = s.ctx /\ early.call[c] = j
  <2>1. "IncomingEarlyMedia" \in Live BY DEF Live, Incoming
  <2>2. s.call[c].state \notin Ended BY DEF Ended
  <2> QED BY <2>1, <2>2, SetStateTouches
<1> HIDE DEF early
<1>3. k.state = "IncomingReceived" /\ k.local = "SendRecv" OBVIOUS
<1> HIDE DEF k, x
<1>4. /\ j \in CallRecords /\ j.state = "IncomingEarlyMedia" /\ j.did = k.did
      /\ j.local = k.local /\ j.result = k.result /\ j.remote = k.remote
  BY <1>1 DEF CallRecords, CallStates, Live, Incoming
<1> HIDE DEF j
<1>5. j.result \in Descriptions /\ early \in States BY <1>2, <1>4 DEF CallRecords, Touches
<1>6. Touches(early, t, c) /\ t.ctx = early.ctx /\ t.call[c] = l
  <2>1. md = j.result BY <1>2
  <2> HIDE DEF md
  <2> QED BY <1>2, <1>5, <2>1, UpdateStreamsTouches
<1>7. /\ l.state = j.state /\ l.did = j.did /\ l.local = j.local
      /\ l.remote = j.remote /\ l.result = j.result
  BY <1>4, <1>5, WithStreamsRecord
<1> HIDE DEF l, t
<1>8. k.did /\ k.result # "Empty" /\ (k.result = "None" => k.remote = "None")
  BY <1>1, <1>3 DEF TalkOf, FreshInv, Incoming
<1>9. l.state \in Incoming /\ k.state \in Incoming BY <1>3, <1>4, <1>7 DEF Incoming
<1>10. TalkOf(l, x, q, c) BY <1>1, <1>3, <1>4, <1>7, <1>8, <1>9, IncomingRecord
<1>11. Spares(s, t, c) BY <1>2, <1>6, TouchesTwice, TouchesSpares
<1> QED BY <1>2, <1>6, <1>10, <1>11 DEF Fine, t, x, early

\* A call that is wanted rings.
LEMMA WantedTalk ==
  ASSUME NEW s \in States, NEW c \in Calls, s.call[c].state = "Idle", s.call[c].op,
         ~s.call[c].terminated, s.call[c].did, ~s.call[c].srtp, s.call[c].local = "SendRecv",
         s.call[c].result # "Empty", s.call[c].result = "None" => s.call[c].remote = "None",
         s.ctx[c].stage \in {"incoming", "refused", "failed", "released"},
         NEW q, Fine(s, q, c), NEW reaction \in {"none", "accept", "terminate"}
  PROVE  LET received == Notified(linphone_call_set_state(s, c, "IncomingReceived"),
                                  c, reaction)
             early == linphone_call_set_state(received, c, "IncomingEarlyMedia")
             heard == linphone_core_update_streams(early, c, early.call[c].result) IN
         /\ Spares(s, received, c) /\ Fine(received, q, c)
         /\ received.call[c].state = "IncomingReceived" =>
              Spares(s, heard, c) /\ Fine(heard, q, c)
<1> DEFINE k == s.call[c]
           x == s.ctx[c]
           j == [k EXCEPT !.state = "IncomingReceived"]
           u == linphone_call_set_state(s, c, "IncomingReceived")
           received == Notified(u, c, reaction)
           early == linphone_call_set_state(received, c, "IncomingEarlyMedia")
           heard == linphone_core_update_streams(early, c, early.call[c].result)
<1>1. k \in CallRecords /\ TalkOf(k, x, q, c) BY StateFields DEF Fine
<1>2. Touches(s, u, c) /\ u.ctx = s.ctx /\ u.call[c] = j
  <2>1. "IncomingReceived" \in Live BY DEF Live, Incoming
  <2>2. s.call[c].state \notin Ended BY DEF Ended
  <2> QED BY <2>1, <2>2, SetStateTouches
<1> HIDE DEF u
<1>3. /\ k.state = "Idle" /\ k.op /\ ~k.terminated /\ k.did /\ ~k.srtp /\ k.local = "SendRecv"
      /\ k.result # "Empty" /\ (k.result = "None" => k.remote = "None")
      /\ x.stage \in {"incoming", "refused", "failed", "released"}
  OBVIOUS
<1> HIDE DEF k, x
<1>4. /\ j \in CallRecords /\ j.state = "IncomingReceived" /\ j.did /\ j.op /\ ~j.terminated
      /\ ~j.srtp /\ j.local = "SendRecv" /\ j.result = k.result /\ j.remote = k.remote
  BY <1>1, <1>3 DEF CallRecords, CallStates, Live, Incoming
<1> HIDE DEF j
<1>5. TalkOf(j, x, q, c) BY <1>1, <1>3, <1>4, IncomingRecord DEF Incoming
<1>6. CallInv(j, x) BY <1>3, <1>4 DEF CallInv, Live, Incoming, Ended
<1>7. u \in States /\ u.ctx[c] = x BY <1>2 DEF Touches, x
<1>8. Fine(u, q, c) BY <1>2, <1>5, <1>7 DEF Fine
<1>9. /\ Spares(u, received, c) /\ Fine(received, q, c)
      /\ received.call[c].state = "IncomingReceived" => received = u
  <2>1. /\ u.call[c].state = "IncomingReceived" /\ u.call[c].op /\ u.call[c].did
        /\ CallInv(u.call[c], u.ctx[c])
    BY <1>2, <1>4, <1>6, <1>7
  <2> QED BY <1>7, <1>8, <2>1, NotifiedTalk
<1> HIDE DEF received
<1>10. Spares(s, received, c) BY <1>2, <1>9, TouchesSpares, SparesTwice
<1>11. ASSUME received.call[c].state = "IncomingReceived"
       PROVE  Spares(s, heard, c) /\ Fine(heard, q, c)
  <2>1. received = u BY <1>9, <1>11
  <2>2. /\ received \in States /\ received.call[c].local = "SendRecv" /\ Fine(received, q, c)
    BY <1>2, <1>4, <1>7, <1>8, <2>1
  <2>3. Spares(received, heard, c) /\ Fine(heard, q, c) BY <1>11, <2>2, HeardTalk
  <2> HIDE DEF heard
  <2> QED BY <1>10, <2>3, SparesTwice
<1> HIDE DEF heard, early
<1> QED BY <1>9, <1>10, <1>11 DEF received, heard, early, u

LEMMA ReceivedTalk ==
  ASSUME NEW s \in States, NEW c \in Calls, NEW p, NEW q, Arrives(s, p, q, c, "INVITE"),
         s.call[c].state = "Idle",
         s.ctx[c].stage \in {"incoming", "refused", "failed", "released"},
         NEW md \in Descriptions, NEW refuse \in {"no", "moved", "busy"},
         NEW reaction \in {"none", "accept", "terminate"}
  PROVE  LET t == call_received(s, c, md, refuse, reaction) IN Spares(s, t, c) /\ Fine(t, q, c)
<1> DEFINE x == s.ctx[c]
           made == linphone_call_new_incoming(s, c, md)
           k == made.call[c]
           declined == Signal(s, c, eXosip_call_refuse(s.ctx[c]))
           refused == Signal(made, c, eXosip_call_refuse(made.ctx[c]))
           unwanted == Store(refused, c, NewCall)
           only == s.calls = {}
           added == [made EXCEPT !.calls = @ \cup {c},
                                 !.current = IF only THEN c ELSE @,
                                 !.ring = @ \/ only]
           received == Notified(linphone_call_set_state(added, c, "IncomingReceived"),
                                c, reaction)
           early == linphone_call_set_state(received, c, "IncomingEarlyMedia")
           heard == linphone_core_update_streams(early, c, early.call[c].result)
           t == call_received(s, c, md, refuse, reaction)
           wanted == linphone_core_can_we_add_call(s) /\ ~already_a_call_pending(s)
           sounding == received.call[c].state = "IncomingReceived" /\ "earlymedia" \in Features
           Fits(u) == Spares(s, u, c) /\ Fine(u, q, c)
<1>1. t = CASE refuse = "moved" -> s
            [] refuse = "busy" -> declined
            [] refuse = "no" /\ ~wanted -> declined
            [] refuse = "no" /\ wanted ->
                 IF made.call[c].result = "Empty" THEN unwanted
                 ELSE IF sounding THEN heard ELSE received
  BY DEF call_received
<1>2. Fine(s, q, c) BY IgnoredTalk
<1>3. Fits(s) BY <1>2 DEF Spares
<1>4. Fits(declined)
  <2>1. s.call[c].state \notin Live /\ s.ctx[c].stage # "conf" BY DEF Live, Outgoing, Incoming
  <2>2. Touches(s, declined, c) /\ Fine(declined, q, c) BY <1>2, <2>1, RefuseTalk
  <2> HIDE DEF declined
  <2> QED BY <2>2, TouchesSpares
<1>5. /\ Touches(s, made, c) /\ made \in States /\ made.ctx = s.ctx
      /\ made.calls = s.calls /\ made.current = s.current /\ made.ring = s.ring
      /\ k \in CallRecords /\ k.state = "Idle" /\ k.op /\ ~k.terminated /\ k.did /\ ~k.srtp
      /\ k.local = "SendRecv" /\ (k.result = "None" => k.remote = "None")
      /\ k.media = "none"
  BY NewIncomingTalk
<1> HIDE DEF declined, made
<1>6. Fits(unwanted)
  <2>1. made.ctx[c].stage # "conf" /\ k.state \notin Live
    BY <1>5 DEF Live, Outgoing, Incoming
  <2>2. s.call[c] \in CallRecords /\ TalkOf(s.call[c], x, q, c) BY <1>2, StateFields DEF Fine
  <2>3. s.call[c].state \notin Live BY DEF Live, Outgoing, Incoming
  <2> DEFINE y == eXosip_call_refuse(x)
  <2>4. y = eXosip_call_terminate(x, TRUE) BY DEF eXosip_call_terminate
  <2>5. TalkOf(s.call[c], y, q, c) /\ y \in Contexts
    <3>1. x \in Contexts BY StateFields
    <3> HIDE DEF y
    <3> QED BY <2>2, <2>3, <2>4, <3>1, HungUpTalk
  <2>6. refused = Signal(made, c, y) BY <1>5
  <2> HIDE DEF y, refused
  <2>7. Touches(made, refused, c) /\ refused.ctx[c] = y /\ refused \in States
    BY <1>5, <2>5, <2>6, SignalTouches DEF Touches
  <2>8. /\ Touches(refused, unwanted, c) /\ unwanted.call[c] = NewCall
        /\ unwanted.ctx = refused.ctx
    BY <2>7, NewCallTyped, StoreTouches
  <2> HIDE DEF unwanted
  <2>9. TalkOf(NewCall, y, q, c)
    <3>1. NewCall.state = "Idle" /\ NewCall.media = "none" BY DEF NewCall
    <3> QED BY <2>5, <3>1, IdleRecord
  <2>10. Touches(s, unwanted, c) BY <1>5, <2>7, <2>8, TouchesTwice
  <2> QED BY <2>7, <2>8, <2>9, <2>10, TouchesSpares DEF Fine
<1>7. ASSUME k.result # "Empty"
      PROVE  Fits(received) /\ (received.call[c].state = "IncomingReceived" => Fits(heard))
  <2> DEFINE n == IF only THEN c ELSE made.current
             b == made.ring \/ only
  <2>1. added = [made EXCEPT !.calls = @ \cup {c}, !.current = n, !.ring = b] OBVIOUS
  <2>2. made.ring \in BOOLEAN /\ made.current \in Calls \cup {NoCall} BY <1>5, StateFields
  <2>3. n \in Calls \cup {NoCall} /\ b \in BOOLEAN BY <2>2
  <2> HIDE DEF n, b
  <2>4. added \in States /\ added.call = made.call /\ added.ctx = made.ctx
    BY <1>5, <2>1, <2>3 DEF States
  <2> HIDE DEF added
  <2>5. Touches(made, added, c) BY <2>4, SameTouches
  <2>6. Fine(added, q, c)
    <3>1. TalkOf(s.call[c], x, q, c) BY <1>2 DEF Fine
    <3>2. TalkOf(k, x, q, c)
      <4> HIDE DEF k, x
      <4> QED BY <1>5, <3>1, IdleRecord
    <3> QED BY <1>5, <2>4, <3>2 DEF Fine
  <2>7. /\ added.call[c] = k /\ added.ctx[c].stage \in {"incoming", "refused", "failed", "released"}
    BY <1>5, <2>4
  <2>8. /\ Spares(added, received, c) /\ Fine(received, q, c)
        /\ received.call[c].state = "IncomingReceived" =>
             Spares(added, heard, c) /\ Fine(heard, q, c)
    <3> HIDE DEF k
    <3> QED BY <1>5, <1>7, <2>4, <2>6, <2>7, WantedTalk
  <2> HIDE DEF received, heard
  <2>9. Spares(s, added, c) BY <1>5, <2>5, TouchesTwice, TouchesSpares
  <2> QED BY <2>8, <2>9, SparesTwice
<1> HIDE DEF t, received, heard, wanted, unwanted, Fits
<1>8. Fits(t)
  <2>1. CASE refuse = "no" /\ wanted
    BY <1>1, <1>6, <1>7, <2>1 DEF k, sounding
  <2>2. CASE refuse = "no" /\ ~wanted BY <1>1, <1>4, <2>2
  <2>3. CASE refuse = "moved" BY <1>1, <1>3, <2>3
  <2>4. CASE refuse = "busy" BY <1>1, <1>4, <2>4
  <2> QED BY <2>1, <2>2, <2>3, <2>4
<1> QED BY <1>8 DEF Fits, t

-----------------------------------------------------------------------------
(***************************************************************************)
(* The steps of the application's thread                                   *)
(***************************************************************************)

\* An API function, on the call c.
LEMMA StepTalk ==
  ASSUME IndInv, TalkInv, NEW t, Becomes(t), t.evq = evq, NEW c, Spares(Now, t, c),
         c \in Calls => Fine(t, evq, c)
  PROVE  TalkInv'
<1>1. Now.call = call /\ Now.ctx = ctx BY DEF Now
<1>2. \A d \in Calls : Fine(Now, evq, d) BY <1>1 DEF TalkInv, Fine
<1>3. \A d \in Calls : Fine(t, evq, d) BY <1>2 DEF Spares
<1>4. call' = t.call /\ ctx' = t.ctx /\ evq' = evq BY DEF Becomes
<1> QED BY <1>3, <1>4 DEF TalkInv, Fine

\* The handler of the event at the head of the queue, for the call c.
LEMMA HandledTalk ==
  ASSUME IndInv, TalkInv, evq # << >>, NEW t, Becomes(t), t.evq = Tail(evq),
         NEW c, c = Head(evq).cid, Leaves(Popped, t, Tail(evq), c)
  PROVE  TalkInv'
<1>1. Popped.call = call /\ Popped.ctx = ctx BY DEF Popped, Now
<1>2. evq \in Seq(Events) BY TypedNow
<1>3. ASSUME NEW d \in Calls PROVE Fine(t, Tail(evq), d)
  <2>1. CASE d = c BY <2>1 DEF Leaves
  <2>2. CASE d # c
    <3>1. TalkOf(call[d], ctx[d], evq, d) BY DEF TalkInv
    <3>2. TalkOf(call[d], ctx[d], Tail(evq), d) BY <1>2, <2>2, <3>1, PopTalk
    <3> QED BY <1>1, <2>2, <3>2 DEF Leaves, Fine
  <2> QED BY <2>1, <2>2
<1>4. call' = t.call /\ ctx' = t.ctx /\ evq' = Tail(evq) BY DEF Becomes
<1> QED BY <1>3, <1>4 DEF TalkInv, Fine

LEMMA HeadArrives ==
  ASSUME IndInv, TalkInv, evq # << >>
  PROVE  LET c == Head(evq).cid IN
         /\ c \in Calls /\ Popped \in States
         /\ Arrives(Popped, evq, Tail(evq), c, Head(evq).type)
<1> DEFINE c == Head(evq).cid
<1>1. /\ evq \in Seq(Events) /\ call[c] \in CallRecords /\ ctx[c] \in Contexts
      /\ CallInv(call[c], ctx[c]) /\ WaitInv(call[c], ctx[c], evq, c) /\ c \in Calls
      /\ call[c].state \in Live => call[c].op /\ ~call[c].terminated
  <2>1. c \in Calls BY HeadInd
  <2> HIDE DEF c
  <2> QED BY <2>1, TypedNow
<1>2. TalkOf(call[c], ctx[c], evq, c) BY <1>1 DEF TalkInv
<1>3. Popped.call = call /\ Popped.ctx = ctx BY DEF Popped, Now
<1>4. Popped \in States BY CountedNow DEF Counted
<1> HIDE DEF c
<1>5. Arrives(Popped, evq, Tail(evq), c, Head(evq).type)
  <2>1. Head(evq).cid = c BY DEF c
  <2> QED BY <1>1, <1>2, <1>3, <2>1 DEF Arrives, Fine
<1> QED BY <1>1, <1>4, <1>5 DEF c

LEMMA IterateTalk ==
  ASSUME "srtp" \notin Features, IndInv, TalkInv, Iterate
  PROVE  TalkInv'
<1> DEFINE e == Head(evq)
           c == e.cid
           n == NextCall
           q == Tail(evq)
<1>1. evq # << >> BY DEF Iterate, HandleInvite, HandleProceeding, HandleRinging,
        HandleAnswered, HandleFailure, HandleClosed, HandleReinvite, HandleAck,
        HandleRefer, HandleReleased, Next1
<1>2. Whole(Popped) /\ Counted(Popped) /\ Popped \in States
  BY <1>1, CountedNow DEF Counted
<1>3. /\ e \in Events /\ c \in Calls /\ EventInv(e, call[c], ctx[c])
      /\ e.type = "INVITE" => \A i \in 1 .. Len(q) : q[i].cid = c => q[i].type # "INVITE"
      /\ ctx[c].stage # "none"
      /\ ctx[c].stage \in {"calling", "early"} => e.type \in Provisional
      /\ e.type = "RINGING" => call[c].state \in Dialled
  BY <1>1, HeadInd
<1>4. e.type # "FAILURE" => e.arg \in Descriptions BY <1>3 DEF Events
<1>5. Popped.call = call /\ Popped.ctx = ctx /\ Popped.evq = q
  BY DEF Popped, Now
<1>6. n \in Calls \cup {NoCall} /\ (n # NoCall => Fresh(Popped, n)) BY NextCallFresh
<1>7. n # NoCall => n # c /\ Nothing(q, n)
  <2>1. n # NoCall => n \in Calls /\ ctx[n].stage = "none" BY <1>5, <1>6 DEF Fresh
  <2> QED BY <1>1, <1>3, <2>1, FreshNothing
<1>8. Arrives(Popped, evq, q, c, e.type) BY <1>1, HeadArrives
<1>9. ASSUME NEW t, Becomes(t), t.evq = Popped.evq, Leaves(Popped, t, q, c) PROVE TalkInv'
  BY <1>1, <1>5, <1>9, HandledTalk
<1>20. ASSUME NEW t, Becomes(t), t.evq = Popped.evq, Spares(Popped, t, c), Fine(t, q, c)
       PROVE  TalkInv'
  BY <1>9, <1>20, SparesLeaves
<1> HIDE DEF n, e, c, q
<1>10. CASE HandleInvite
  <2>1. e.type = "INVITE" BY <1>10 DEF HandleInvite, Next1, e
  <2>2. Announced(Popped, c) BY <1>3, <1>5, <2>1 DEF Announced, EventInv
  <2>3. PICK refuse \in {"no", "moved", "busy"}, reaction \in {"none", "accept", "terminate"} :
          Becomes(call_received(Popped, c, e.arg, refuse, reaction))
    BY <1>10 DEF HandleInvite, e, c
  <2> DEFINE t == call_received(Popped, c, e.arg, refuse, reaction)
  <2>4. t.evq = Popped.evq
    BY <1>2, <1>3, <1>4, <2>1, <2>2, ReceivedCounted DEF Enters
  <2>5. Becomes(t) BY <2>3
  <2>6. /\ Popped.call[c].state = "Idle"
        /\ Popped.ctx[c].stage \in {"incoming", "refused", "failed", "released"}
    BY <1>3, <1>5, <2>1 DEF EventInv
  <2>7. Spares(Popped, t, c) /\ Fine(t, q, c)
    BY <1>2, <1>3, <1>4, <1>8, <2>1, <2>6, ReceivedTalk
  <2> HIDE DEF t
  <2> QED BY <1>20, <2>4, <2>5, <2>7
<1>11. CASE HandleProceeding
  <2>1. e.type = "PROCEEDING" BY <1>11 DEF HandleProceeding, Next1, e
  <2> DEFINE t == sal_call_proceeding(Popped, c)
  <2>2. t.evq = Popped.evq BY <1>2, <1>3, ProceedingCounted DEF Goes
  <2>3. Becomes(t) BY <1>11 DEF HandleProceeding, e, c
  <2>4. Spares(Popped, t, c) /\ Fine(t, q, c) BY <1>2, <1>3, <1>8, <2>1, ProceedingTalk
  <2> HIDE DEF t
  <2> QED BY <1>20, <2>2, <2>3, <2>4
<1>12. CASE HandleRinging
  <2>1. e.type = "RINGING" BY <1>12 DEF HandleRinging, Next1, e
  <2> DEFINE t == sal_call_ringing(Popped, c, e.arg)
  <2>2. t.evq = Popped.evq
    BY <1>2, <1>3, <1>4, <1>5, <2>1, RingingCounted DEF Goes
  <2>3. Becomes(t) BY <1>12 DEF HandleRinging, e, c
  <2>4. Spares(Popped, t, c) /\ Fine(t, q, c) BY <1>2, <1>3, <1>4, <1>8, <2>1, RingingTalk
  <2> HIDE DEF t
  <2> QED BY <1>20, <2>2, <2>3, <2>4
<1>13. CASE HandleAnswered
  <2>1. e.type = "ANSWERED" BY <1>13 DEF HandleAnswered, Next1, e
  <2> DEFINE t == sal_call_accepted(Popped, c, e.arg, n)
  <2>2. t.evq = Popped.evq BY <1>2, <1>3, <1>4, <1>6, <2>1, AcceptedCounted DEF Goes
  <2>3. Becomes(t) BY <1>13 DEF HandleAnswered, e, c, n
  <2>4. Leaves(Popped, t, q, c)
    BY <1>2, <1>3, <1>4, <1>6, <1>7, <1>8, <2>1, AcceptedTalk
  <2> HIDE DEF t
  <2> QED BY <1>9, <2>2, <2>3, <2>4
<1>14. CASE HandleFailure
  <2>1. e.type = "FAILURE" BY <1>14 DEF HandleFailure, Next1, e
  <2> DEFINE t == sal_call_failure(Popped, c, e.arg)
  <2>2. t.evq = Popped.evq BY <1>2, <1>3, FailureCounted DEF Goes
  <2>3. Becomes(t) BY <1>14 DEF HandleFailure, e, c
  <2>4. Spares(Popped, t, c) /\ Fine(t, q, c) BY <1>2, <1>3, <1>8, <2>1, FailureTalk
  <2> HIDE DEF t
  <2> QED BY <1>20, <2>2, <2>3, <2>4
<1>15. CASE HandleClosed
  <2>1. e.type = "CLOSED" BY <1>15 DEF HandleClosed, Next1, e
  <2> DEFINE t == sal_call_terminated(Popped, c)
  <2>2. t.evq = Popped.evq BY <1>2, <1>3, TerminatedCounted DEF Goes
  <2>3. Becomes(t) BY <1>15 DEF HandleClosed, e, c
  <2>4. Spares(Popped, t, c) /\ Fine(t, q, c) BY <1>2, <1>3, <1>8, <2>1, TerminatedTalk
  <2> HIDE DEF t
  <2> QED BY <1>20, <2>2, <2>3, <2>4
<1>16. CASE HandleReinvite
  <2>1. e.type = "REINVITE" BY <1>16 DEF HandleReinvite, Next1, e
  <2>2. PICK reaction \in {"accept", "defer"} :
          Becomes(handle_reinvite(Popped, c, e.arg, reaction))
    BY <1>16 DEF HandleReinvite, e, c
  <2> DEFINE t == handle_reinvite(Popped, c, e.arg, reaction)
  <2>3. t.evq = Popped.evq BY <1>2, <1>3, <1>4, <2>1, ReinviteStill DEF Still, Steady
  <2>4. Becomes(t) BY <2>2
  <2>5. Spares(Popped, t, c) /\ Fine(t, q, c)
    BY <1>2, <1>3, <1>4, <1>5, <1>8, <2>1, ReinvitedCallTalk DEF EventInv
  <2> HIDE DEF t
  <2> QED BY <1>20, <2>3, <2>4, <2>5
<1>17. CASE HandleAck
  <2>1. e.type = "ACK" BY <1>17 DEF HandleAck, Next1, e
  <2> DEFINE t == handle_ack(Popped, c, e.arg)
  <2>2. Popped.ctx[c].stage \notin {"calling", "early"} BY <1>3, <1>5, <2>1 DEF Provisional
  <2>3. t.evq = Popped.evq BY <1>2, <1>3, <1>4, <2>1, <2>2, AckCounted DEF Goes
  <2>4. Becomes(t) BY <1>17 DEF HandleAck, e, c
  <2>5. Spares(Popped, t, c) /\ Fine(t, q, c)
    BY <1>2, <1>3, <1>4, <1>8, <2>1, HandledAckTalk
  <2> HIDE DEF t
  <2> QED BY <1>20, <2>3, <2>4, <2>5
<1>18. CASE HandleRefer
  <2>1. e.type = "REFER" BY <1>18 DEF HandleRefer, Next1, e
  <2> DEFINE t == refer_received(Popped, c, n)
  <2>2. t.evq = Popped.evq BY <1>2, <1>3, <1>6, ReferCounted DEF Goes
  <2>3. Becomes(t) BY <1>18 DEF HandleRefer, e, c, n
  <2>4. Leaves(Popped, t, q, c) BY <1>2, <1>3, <1>6, <1>7, <1>8, <2>1, ReferTalk
  <2> HIDE DEF t
  <2> QED BY <1>9, <2>2, <2>3, <2>4
<1>19. CASE HandleReleased
  <2>1. e.type = "RELEASED" BY <1>19 DEF HandleReleased, Next1, e
  <2> DEFINE t == call_released(Popped, c)
  <2>2. t.evq = Popped.evq BY <1>2, <1>3, ReleasedCounted DEF Goes
  <2>3. Becomes(t) BY <1>19 DEF HandleReleased, e, c
  <2>4. Spares(Popped, t, c) /\ Fine(t, q, c) BY <1>2, <1>3, <1>8, <2>1, ReleasedTalk
  <2> HIDE DEF t
  <2> QED BY <1>20, <2>2, <2>3, <2>4
<1> QED BY <1>10, <1>11, <1>12, <1>13, <1>14, <1>15, <1>16, <1>17, <1>18, <1>19 DEF Iterate

-----------------------------------------------------------------------------
\* A new call of the user.
LEMMA InviteStepTalk ==
  ASSUME IndInv, TalkInv, Invite
  PROVE  TalkInv'
<1>1. Counted(Now) /\ Now \in States BY CountedNow DEF Counted
<1>2. NextCall \in Calls /\ Fresh(Now, NextCall) BY NextCallFresh DEF Invite
<1>3. PICK ping \in BOOLEAN, sent \in BOOLEAN :
        Becomes(linphone_core_invite_address_with_params(Now, NextCall, NoCall, ping, sent))
  BY DEF Invite
<1> DEFINE n == NextCall
           r == NoCall
           t == linphone_core_invite_address_with_params(Now, n, r, ping, sent)
<1>4. /\ r \in Calls \cup {NoCall} /\ r \notin Calls /\ r # n /\ n \in Calls /\ Fresh(Now, n)
  BY <1>2, NoCallIsNone
<1>5. Becomes(t) BY <1>3
<1>6. Now.evq = evq /\ Now.call = call /\ Now.ctx = ctx BY DEF Now
<1> HIDE DEF n, r
<1>7. t.evq = evq BY <1>1, <1>4, <1>6, InviteCounted DEF Goes
<1>8. Nothing(evq, n) BY <1>4, <1>6, FreshNothing DEF Fresh
<1>9. Spares(Now, t, n) /\ (Nothing(evq, n) /\ Fine(Now, evq, n) => Fine(t, evq, n))
  BY <1>1, <1>4, InviteTalk
<1>10. Fine(Now, evq, n) BY <1>4, <1>6 DEF TalkInv, Fine
<1> HIDE DEF t
<1> QED BY <1>5, <1>7, <1>8, <1>9, <1>10, StepTalk

\* The INVITE of a call is declined with a redirection: the call never had a
\* dialog, so its operation need not be terminated.
LEMMA RedirectTalk ==
  ASSUME NEW s \in States, NEW c \in Calls, s.call[c].state \in Incoming,
         CallInv(s.call[c], s.ctx[c]), NEW q, Fine(s, q, c), WaitInv(s.call[c], s.ctx[c], q, c)
  PROVE  LET declined == Quiet(Signal(s, c, eXosip_call_refuse(s.ctx[c])))
             t == linphone_call_set_state(linphone_call_stop_media_streams(declined, c), c, "End")
         IN Spares(s, t, c) /\ Fine(t, q, c)
<1> DEFINE x == s.ctx[c]
           k == s.call[c]
           y == eXosip_call_refuse(x)
           a == Signal(s, c, y)
           d == Quiet(a)
           u == linphone_call_stop_media_streams(d, c)
           t == linphone_call_set_state(u, c, "End")
<1>1. x \in Contexts /\ k \in CallRecords BY StateFields
<1>2. TalkOf(k, x, q, c) /\ CallInv(k, x) /\ WaitInv(k, x, q, c) /\ k.state \in Incoming
  BY DEF Fine
<1> HIDE DEF x, k
<1>3. Endable(x, q, c) BY <1>2, TalkEndable
<1>4. y \in Contexts /\ Endable(y, q, c)
  <2>1. x.stage # "conf" BY <1>2 DEF CallInv
  <2>2. y = eXosip_call_terminate(x, TRUE) BY <2>1 DEF eXosip_call_terminate
  <2> HIDE DEF y
  <2> QED BY <1>1, <1>3, <2>2, ClosedEndable
<1>5. y.stage \in {"refused", "failed", "released"}
  BY <1>1, <1>2 DEF CallInv, eXosip_call_refuse, Contexts
<1> HIDE DEF y
<1>6. Untold(y, q, c)
  <2>1. ~InQueue(q, "ACK", c) /\ ~InQueue(q, "REINVITE", c) BY <1>2 DEF TalkOf, FreshInv
  <2>2. ~InQueue(q, "RINGING", c)
    BY <1>2 DEF WaitInv, Incoming, Outgoing, Ended
  <2> QED BY <1>5, <2>1, <2>2 DEF Untold
<1>7. Awaited(y, q, c) BY <1>5 DEF Awaited
<1>8. a \in States /\ Touches(s, a, c) /\ a.ctx[c] = y /\ a.call = s.call
  BY <1>4, SignalTouches DEF Touches
<1> HIDE DEF a
<1>9. d \in States /\ Touches(a, d, c) /\ d.ctx = a.ctx /\ d.call = a.call BY <1>8, QuietTouches
<1> HIDE DEF d
<1>10. /\ Touches(d, u, c) /\ u.ctx = d.ctx /\ u.call[c] = [d.call[c] EXCEPT !.media = "none"]
  BY <1>9, StopMediaTouches
<1>11. u \in States BY <1>10 DEF Touches
<1>12. u.ctx[c] = y BY <1>8, <1>9, <1>10
<1>13. d.call[c] = k BY <1>8, <1>9 DEF k
<1>14. u.call[c].media = "none" /\ u.call[c].state = k.state
  BY <1>1, <1>10, <1>13 DEF CallRecords
<1> HIDE DEF u
<1>15. Spares(s, u, c) BY <1>8, <1>9, <1>10, TouchesTwice, TouchesSpares
<1>16. "End" \in Ended BY DEF Ended
<1>17. Spares(u, t, c) BY <1>11, <1>16, EndSpares
<1>18. Fine(t, q, c) BY <1>4, <1>6, <1>7, <1>11, <1>12, <1>14, <1>16, EndedTalk
<1>19. Spares(s, t, c) BY <1>15, <1>17, SparesTwice
<1> QED BY <1>18, <1>19 DEF t, u, d, a, y, x

\* The API calls of the application.
LEMMA ApplicationTalk ==
  ASSUME IndInv, TalkInv, NEW c \in Calls, Application(c)
  PROVE  TalkInv'
<1>1. /\ Whole(Now) /\ Counted(Now) /\ Now \in States
      /\ Now.call = call /\ Now.calls = calls /\ Now.ctx = ctx /\ Now.evq = evq
  BY CountedNow DEF Counted, Now
<1>2. /\ call[c] \in CallRecords /\ ctx[c] \in Contexts
      /\ CallInv(call[c], ctx[c]) /\ WaitInv(call[c], ctx[c], evq, c)
      /\ c \in calls => call[c].op /\ call[c].state \in Live
  BY TypedNow
<1>3. Fine(Now, evq, c) /\ TalkOf(call[c], ctx[c], evq, c) BY <1>1 DEF TalkInv, Fine
<1>4. ASSUME NEW t, Becomes(t), t.evq = evq, Spares(Now, t, c), Fine(t, evq, c) PROVE TalkInv'
  BY <1>4, StepTalk
<1>5. ASSUME NEW t, Becomes(t), t.evq = evq, Spares(Now, t, NoCall) PROVE TalkInv'
  BY <1>3, <1>4, <1>5, SparesAll
<1>6. CASE PingOver(c)
  <2>1. PICK sent \in BOOLEAN : Becomes(linphone_core_start_invite(Now, c, sent))
    BY <1>6 DEF PingOver
  <2> DEFINE t == linphone_core_start_invite(Now, c, sent)
  <2>2. call[c].state = "OutgoingInit" /\ ctx[c].stage = "none"
    BY <1>2, <1>6 DEF PingOver, CallInv
  <2>3. t.evq = evq BY <1>1, <2>2, StartInviteCounted DEF Goes
  <2>4. Becomes(t) BY <2>1
  <2>5. Nothing(evq, c) BY <2>2, FreshNothing
  <2>6. Spares(Now, t, c) /\ (Nothing(evq, c) /\ Fine(Now, evq, c) => Fine(t, evq, c))
    BY <1>1, <2>2, StartInviteTalk
  <2> HIDE DEF t
  <2> QED BY <1>3, <1>4, <2>3, <2>4, <2>5, <2>6
<1>7. CASE Accept(c)
  <2> DEFINE t == linphone_core_accept_call(Now, c)
  <2>1. Becomes(t) /\ call[c].state \in Incoming BY <1>7 DEF Accept
  <2>2. t.evq = evq BY <1>1, <2>1, AcceptCounted DEF Goes
  <2>3. /\ Now \in States /\ Now.call[c].state \in Incoming
        /\ CallInv(Now.call[c], Now.ctx[c]) /\ Fine(Now, evq, c)
    BY <1>1, <1>2, <1>3, <2>1
  <2>4. Spares(Now, t, c) BY <2>3, AcceptCallTalk
  <2>5. Fine(t, evq, c) BY <2>3, AcceptCallTalk
  <2> HIDE DEF t
  <2> QED BY <1>4, <2>1, <2>2, <2>4, <2>5
<1>8. CASE Terminate(c)
  <2> DEFINE t == linphone_core_terminate_call(Now, c)
  <2>1. Becomes(t) /\ c \in calls BY <1>8 DEF Terminate
  <2>2. call[c].state \in Live /\ call[c].op BY <1>2, <2>1
  <2>3. call[c].state \notin Ended BY <2>2 DEF Live, Outgoing, Incoming, Ended
  <2>4. t.evq = evq BY <1>1, <2>2, EndCounted DEF Goes
  <2>5. Spares(Now, t, c) /\ Fine(t, evq, c) BY <1>1, <1>3, <2>2, <2>3, TerminateTalk
  <2> HIDE DEF t
  <2> QED BY <1>4, <2>1, <2>4, <2>5
<1>9. CASE linphone_core_redirect_call(c)
  <2> DEFINE declined == Quiet(Signal(Now, c, eXosip_call_refuse(Now.ctx[c])))
             t == linphone_call_set_state(linphone_call_stop_media_streams(declined, c),
                                          c, "End")
  <2>1. call[c].state \in Incoming BY <1>9 DEF linphone_core_redirect_call, Incoming
  <2>2. t.evq = evq BY <1>1, <2>1, RedirectCounted DEF Goes
  <2>3. Becomes(t) BY <1>1, <1>9 DEF linphone_core_redirect_call
  <2>4. Spares(Now, t, c) /\ Fine(t, evq, c) BY <1>1, <1>2, <1>3, <2>1, RedirectTalk
  <2> HIDE DEF t
  <2> QED BY <1>4, <2>2, <2>3, <2>4
<1>10. CASE Pause(c)
  <2> DEFINE t == linphone_core_pause_call(Now, c)
  <2>1. Becomes(t) BY <1>10 DEF Pause
  <2>2. t.evq = evq BY <1>1, PauseStill DEF Still, Steady
  <2>3. Spares(Now, t, NoCall) BY <1>1, PauseSpares
  <2> HIDE DEF t
  <2> QED BY <1>5, <2>1, <2>2, <2>3
<1>11. CASE Resume(c)
  <2> DEFINE t == linphone_core_resume_call(Now, c)
  <2>1. Becomes(t) BY <1>11 DEF Resume
  <2>2. t.evq = evq BY <1>1, ResumeStill DEF Still, Steady
  <2>3. Spares(Now, t, NoCall) BY <1>1, ResumeSpares
  <2> HIDE DEF t
  <2> QED BY <1>5, <2>1, <2>2, <2>3
<1>12. CASE Update(c)
  <2> DEFINE local == SetLocal(Now, c, "SendRecv")
             t == sal_call_update(local, c)
  <2>1. "update" \in Features /\ call[c].state = "StreamsRunning" /\ Becomes(t)
    BY <1>12 DEF Update
  <2>2. "SendRecv" \in Dirs BY DEF Dirs
  <2>3. /\ Touches(Now, local, c) /\ local.ctx = ctx
        /\ local.call[c] = [call[c] EXCEPT !.local = "SendRecv"]
    BY <1>1, <2>2, SetLocalTouches
  <2>4. local.evq = evq BY <1>1, <2>2, SetLocalStill DEF Still, Steady
  <2>5. local \in States BY <2>3 DEF Touches
  <2> HIDE DEF local
  <2>6. t.evq = evq BY <2>4, <2>5, CallUpdateStill DEF Still, Steady
  <2>7. /\ Touches(local, t, c) /\ t.call = local.call
        /\ t.ctx[c] = Asked(local.ctx[c], local.call[c].local)
    BY <2>5, CallUpdateTouches
  <2> HIDE DEF t
  <2> DEFINE l == t.call[c]
             y == t.ctx[c]
  <2>8. l = [call[c] EXCEPT !.local = "SendRecv"] BY <2>3, <2>7
  <2>9. /\ l.state = "StreamsRunning" /\ l.media = call[c].media /\ l.desc = call[c].desc
        /\ l.local = "SendRecv" /\ l.did = call[c].did
    BY <1>2, <2>1, <2>8 DEF CallRecords
  <2>10. y = Asked(ctx[c], "SendRecv") BY <2>3, <2>7, <2>9
  <2>11. Reoffers(ctx[c], y) BY <1>2, <2>2, <2>10, AskedReoffers
  <2> HIDE DEF l, y
  <2>12. y.re = "in" => ctx[c].re = "in" BY <2>11 DEF Reoffers
  <2>13. TalkOf(l, y, evq, c)
    <3>1. StreamInv(l) BY <1>3, <2>1, <2>9 DEF TalkOf, StreamInv, Talking
    <3>2. OfferInv(l, y, evq, c) /\ FreshInv(l, y, evq, c) /\ RedirectInv(l, y, evq, c)
      BY <1>3, <2>1, <2>9, <2>11
         DEF TalkOf, OfferInv, FreshInv, RedirectInv, Reoffers, Incoming, Ended, Over
    <3>3. DialogInv(y) BY <1>3, <2>11 DEF TalkOf, DialogInv, Reoffers
    <3>4. SilenceInv(l, y, evq, c)
      BY <1>3, <2>1, <2>9, <2>11, <2>12 DEF TalkOf, SilenceInv, Reoffers, Over, Ended
    <3>5. AskedInv(l, y, evq, c)
      BY <1>3, <2>1, <2>9, <2>11 DEF TalkOf, AskedInv, Reoffers, Ended
    <3>6. AgreedInv(l, y, evq, c) BY <2>1 DEF AgreedInv
    <3> QED BY <3>1, <3>2, <3>3, <3>4, <3>5, <3>6 DEF TalkOf
  <2>14. Fine(t, evq, c) BY <2>13 DEF Fine, l, y
  <2>15. Spares(Now, t, c) BY <2>3, <2>7, TouchesTwice, TouchesSpares
  <2> QED BY <1>4, <2>1, <2>6, <2>14, <2>15
<1>13. CASE AcceptUpdate(c)
  <2> DEFINE t == linphone_core_accept_call_update(Now, c)
  <2>1. Becomes(t) /\ call[c].state = "UpdatedByRemote" BY <1>13 DEF AcceptUpdate
  <2>2. t.evq = evq BY <1>1, AcceptCallUpdateStill DEF Still, Steady
  <2>3. Follows(Now, t, c) BY <1>1, AcceptCallUpdateFollows
  <2>4. "reinvite" \in Features BY <1>3, <2>1 DEF TalkOf, SilenceInv
  <2>5. call[c].state \notin Incoming \cup {"Idle", "Connected"} /\ call[c].state \notin Ended
    BY <2>1 DEF Incoming, Ended
  <2> HIDE DEF t
  <2>6. /\ StreamInv(call[c]) /\ Endable(ctx[c], evq, c) /\ ctx[c].stage # "incoming"
        /\ ~call[c].did => Awaited(ctx[c], evq, c)
    BY <1>3, <2>1, TalkEndable DEF TalkOf, FreshInv, Over, Ended, Incoming
  <2>7. Spares(Now, t, c) /\ Fine(t, evq, c) BY <1>1, <2>3, <2>4, <2>5, <2>6, FollowsTalk
  <2> QED BY <1>4, <2>1, <2>2, <2>7
<1> QED BY <1>6, <1>7, <1>8, <1>9, <1>10, <1>11, <1>12, <1>13 DEF Application

\* Every step keeps the invariant.
LEMMA NextTalk ==
  ASSUME "srtp" \notin Features, IndInv, TalkInv, [Next]_vars
  PROVE  TalkInv'
<1>1. CASE Invite BY <1>1, InviteStepTalk
<1>2. CASE Iterate BY <1>2, IterateTalk
<1>3. CASE \E md \in Offers : PeerInvite(md) BY <1>3, PeerInviteTalk
<1>4. ASSUME NEW c \in Calls,
             Application(c) \/ Peer(c) \/ RefusalSent(c) \/ NoAnswer(c) \/ Release(c)
      PROVE  TalkInv'
  <2>1. CASE Application(c) BY <2>1, ApplicationTalk
  <2>2. CASE RefusalSent(c) \/ NoAnswer(c) \/ Release(c) BY <2>2, StagesTalk
  <2>3. CASE Peer(c)
    <3>1. CASE \/ PeerCancel(c) \/ PeerBye(c) \/ PeerRefuseReinvite(c) \/ PeerRefer(c)
               \/ \E md \in Answers : PeerAcceptReinvite(c, md) \/ PeerAck(c, md)
               \/ \E md \in Offers : PeerReinvite(c, md)
      BY <3>1, DialogTalk
    <3>2. CASE \/ PeerTrying(c)
               \/ \E md \in Answers \cup {"None"} : PeerRinging(c, md)
               \/ \E md \in Answers : PeerAnswer(c, md)
               \/ \E failure \in Failures \ {"NoResponse"} : PeerRefuse(c, failure)
      BY <3>2, StagesTalk
    <3> QED BY <2>3, <3>1, <3>2 DEF Peer
  <2> QED BY <1>4, <2>1, <2>2, <2>3
<1>5. CASE UNCHANGED vars BY <1>5 DEF vars, TalkInv
<1> QED BY <1>1, <1>2, <1>3, <1>4, <1>5 DEF Next

LEMMA InitTalk ==
  ASSUME Init
  PROVE  TalkInv
<1> SUFFICES ASSUME NEW c \in Calls PROVE TalkOf(NewCall, NoContext, << >>, c)
  BY DEF Init, TalkInv
<1>1. /\ NewCall.state = "Idle" /\ NewCall.media = "none" /\ ~NewCall.op
      /\ NoContext.stage = "none" /\ NoContext.re = "none" /\ ~NoContext.ack
  BY DEF NewCall, NoContext
<1>2. Nothing(<< >>, c) BY DEF Nothing
<1>3. /\ \A type : ~InQueue(<< >>, type, c) /\ Once(<< >>, type, c)
  BY <1>2, NothingQueued
<1>4. {"Idle"} \cap (Live \cup Ended \cup Talking) = {}
  BY DEF Live, Outgoing, Incoming, Ended, Talking
<1> QED
  BY <1>1, <1>3, <1>4 DEF TalkOf, StreamInv, OfferInv, FreshInv, RedirectInv, DialogInv,
     SilenceInv, AskedInv, AgreedInv, Incoming, Live

\* Whatever the user and the peers do, in any order of what is queued: a call
\* that talks has its streams, a call stays Connected only while the peer owes
\* its SDP, and contexts, offers and queued events fit what each call waits for.
THEOREM TalkInvariance ==
  ASSUME "srtp" \notin Features
  PROVE  Spec => []TalkInv
<1>1. Init => TalkInv BY InitTalk
<1>2. IndInv /\ TalkInv /\ [Next]_vars => TalkInv' BY NextTalk
<1> QED BY <1>1, <1>2, WholeInvariance, PTL DEF Spec

\* Both invariants together: the strengthening that carries every theorem here.
THEOREM CoreInvariance ==
  ASSUME "srtp" \notin Features
  PROVE  Spec => []CoreInv
<1>1. IndInv /\ TalkInv => CoreInv BY DEF CoreInv
<1> QED BY <1>1, WholeInvariance, TalkInvariance, PTL

\* StreamsRunning is never announced without streams, unless nothing is to be
\* sent either way: however pauses, resumes, updates and their answers cross,
\* linphone_core_update_streams has created anew what a pause has stopped.
THEOREM RunningIsHeard ==
  ASSUME "srtp" \notin Features
  PROVE  Spec => []RunningHasMedia
<1>1. TalkInv => RunningHasMedia
  BY DEF TalkInv, TalkOf, StreamInv, Talking, RunningHasMedia
<1> QED BY <1>1, TalkInvariance, PTL

\* Without re-INVITEs of the peer a call that has ended has no streams, and what
\* is still queued for it (responses, the ACK of an answer) starts none again.
THEOREM EndsAreSilent ==
  ASSUME "srtp" \notin Features, "reinvite" \notin Features
  PROVE  Spec => []EndedIsSilent
<1>1. TalkInv => EndedIsSilent
  BY DEF TalkInv, TalkOf, SilenceInv, Over, EndedIsSilent
<1> QED BY <1>1, TalkInvariance, PTL

\* Without re-INVITEs of the peer: as long as eXosip waits for the ACK with the
\* peer's SDP, a listed call has media_pending set, so that call_ack uses it.
THEOREM AwaitedAcksAreLookedAt ==
  ASSUME "srtp" \notin Features, "reinvite" \notin Features
  PROVE  Spec => []AwaitedAckIsPending
<1>1. IndInv /\ TalkInv => AwaitedAckIsPending
  <2> SUFFICES ASSUME IndInv, TalkInv, NEW c \in calls, ctx[c].ack
               PROVE  call[c].media_pending
    BY DEF AwaitedAckIsPending
  <2>1. c \in Calls /\ call[c].state \in Live BY TypedNow
  <2>2. SilenceInv(call[c], ctx[c], evq, c) /\ OfferInv(call[c], ctx[c], evq, c)
    BY <2>1 DEF TalkInv, TalkOf
  <2>3. call[c].state \in Over \cup {"Connected"} BY <2>2 DEF SilenceInv
  <2>4. call[c].state = "Connected"
    BY <2>1, <2>3 DEF Over, Ended, Live, Outgoing, Incoming
  <2> QED BY <2>2, <2>4 DEF OfferInv
<1> QED BY <1>1, WholeInvariance, TalkInvariance, PTL

\* When the peer refuses no re-INVITE of ours, a dialog that is confirmed for a
\* call which is over, or of which the core has no dialog id yet, is never
\* forgotten: the 200 OK that will be met with a BYE, or make it known, is in
\* the queue.
THEOREM DialogsAreHungUp ==
  ASSUME "srtp" \notin Features, "refusal" \notin Features
  PROVE  Spec => []NoOrphanDialog
<1>1. TalkInv => NoOrphanDialog
  BY DEF TalkInv, TalkOf, AskedInv, NoOrphanDialog, InQueue, Queued
<1> QED BY <1>1, TalkInvariance, PTL

\* A call says Pausing or Resuming only while its re-INVITE is under way or the
\* answer to it is queued, when the peer neither refuses nor sends re-INVITEs.
THEOREM PausesAreAsked ==
  ASSUME "srtp" \notin Features, {"reinvite", "refusal"} \cap Features = {}
  PROVE  Spec => []PauseIsAsked
<1>1. TalkInv => PauseIsAsked
  BY DEF TalkInv, TalkOf, AskedInv, PauseIsAsked, InQueue, Queued
<1> QED BY <1>1, TalkInvariance, PTL

\* A call says Paused only if the peer last accepted not to send, or asked for
\* the hold itself; the answer to an older offer is never taken for it.
THEOREM PausesAreAgreed ==
  ASSUME "srtp" \notin Features, {"reinvite", "update"} \cap Features = {}
  PROVE  Spec => []PausedIsAgreed
<1>1. TalkInv => PausedIsAgreed
  <2>1. "Paused" \in Live BY DEF Live
  <2> QED BY <2>1 DEF TalkInv, TalkOf, AgreedInv, PausedIsAgreed
<1> QED BY <1>1, TalkInvariance, PTL

-----------------------------------------------------------------------------
(***************************************************************************)
(* The tone                                                                *)
(***************************************************************************)

\* The calls that somebody still has to answer.
Waiting == {"IncomingReceived", "OutgoingInit", "OutgoingProgress", "OutgoingRinging"}

\* The tone is for someone; no call waits for its ping where none is sent.
Rings(s) ==
  s.ring => /\ s.calls # {}
            /\ s.current # NoCall => \E c \in s.calls : s.call[c].state \in Waiting

Undialled(s) == "ping" \notin Features => \A c \in Calls : s.call[c].state # "OutgoingInit"

Toned(s) == Rings(s) /\ Undialled(s)

\* The tone does not start, and while it goes on no call that waits stops
\* waiting, leaves the list or makes room for another current call.
Subsides(s, t) ==
  /\ \A d \in Calls : t.call[d].state = "OutgoingInit" => s.call[d].state = "OutgoingInit"
  /\ t.ring => /\ s.ring /\ s.calls \subseteq t.calls /\ t.current \in {s.current, NoCall}
               /\ \A d \in Calls : s.call[d].state \in Waiting => t.call[d].state \in Waiting

LEMMA SubsidesTwice ==
  ASSUME NEW s, NEW t, NEW u, Subsides(s, t), Subsides(t, u)
  PROVE  Subsides(s, u)
  BY DEF Subsides

LEMMA SubsidesToned ==
  ASSUME NEW s \in States, NEW t, Toned(s), Subsides(s, t)
  PROVE  Toned(t)
<1>1. s.calls \subseteq Calls BY StateFields
<1>2. Rings(t)
  <2> SUFFICES ASSUME t.ring
               PROVE  /\ t.calls # {}
                      /\ t.current # NoCall => \E c \in t.calls : t.call[c].state \in Waiting
    BY DEF Rings
  <2>1. /\ s.ring /\ s.calls \subseteq t.calls /\ t.current \in {s.current, NoCall}
        /\ \A d \in Calls : s.call[d].state \in Waiting => t.call[d].state \in Waiting
    BY DEF Subsides
  <2>2. /\ s.calls # {}
        /\ s.current # NoCall => \E c \in s.calls : s.call[c].state \in Waiting
    BY <2>1 DEF Toned, Rings
  <2> QED BY <1>1, <2>1, <2>2
<1>3. Undialled(t) BY DEF Toned, Undialled, Subsides
<1> QED BY <1>2, <1>3 DEF Toned

LEMMA BecomesTone ==
  ASSUME NEW t, Becomes(t), Toned(t)
  PROVE  Toned(Now')
<1>1. /\ Now'.calls = t.calls /\ Now'.current = t.current /\ Now'.ring = t.ring
      /\ Now'.call = t.call
  BY DEF Becomes, Now
<1> QED BY <1>1 DEF Toned, Rings, Undialled

\* No call changes its state but those that do not wait, nor start to.
LEMMA StatesSubside ==
  ASSUME NEW s, NEW t, t.calls = s.calls, t.current \in {s.current, NoCall}, t.ring => s.ring,
         \A d \in Calls : t.call[d].state = s.call[d].state
                          \/ (s.call[d].state \notin Waiting /\ t.call[d].state # "OutgoingInit")
  PROVE  Subsides(s, t)
  BY DEF Subsides

LEMMA PausesSubside ==
  ASSUME NEW s, NEW t, NEW c, Pauses(s, t, c)
  PROVE  Subsides(s, t)
<1>1. /\ t.calls = s.calls /\ t.ring = s.ring /\ t.current \in {s.current, NoCall}
      /\ \A d \in Calls : s.call[d].state \notin {"StreamsRunning", "PausedByRemote"} =>
           t.call[d] = s.call[d]
      /\ \A d \in Calls : t.call[d].state \in {s.call[d].state, "Pausing"}
  BY DEF Pauses
<1>2. ASSUME NEW d \in Calls
      PROVE  t.call[d].state = s.call[d].state
             \/ (s.call[d].state \notin Waiting /\ t.call[d].state # "OutgoingInit")
  BY <1>1 DEF Waiting
<1> QED BY <1>1, <1>2, StatesSubside

LEMMA ResumeSubsides ==
  ASSUME NEW s \in States, NEW c \in Calls
  PROVE  LET t == linphone_core_resume_call(s, c) IN t \in States /\ Subsides(s, t)
<1> DEFINE t == linphone_core_resume_call(s, c)
<1>1. Spares(s, t, NoCall) BY ResumeSpares
<1>2. t.calls = s.calls /\ t.ring = s.ring /\ t.current \in {s.current, NoCall} BY ResumeSpares
<1>3. ASSUME NEW d \in Calls
      PROVE  /\ s.call[d].state \notin {"StreamsRunning", "PausedByRemote", "Paused"} =>
                  t.call[d] = s.call[d]
             /\ s.call[d].state \in {"StreamsRunning", "PausedByRemote", "Paused"} =>
                  t.call[d].state \in {s.call[d].state, "Pausing", "Resuming"}
  BY ResumeSpares
<1> HIDE DEF t
<1>4. ASSUME NEW d \in Calls
      PROVE  t.call[d].state = s.call[d].state
             \/ (s.call[d].state \notin Waiting /\ t.call[d].state # "OutgoingInit")
  <2>1. CASE s.call[d].state \in {"StreamsRunning", "PausedByRemote", "Paused"}
    BY <1>3, <2>1 DEF Waiting
  <2>2. CASE s.call[d].state \notin {"StreamsRunning", "PausedByRemote", "Paused"}
    BY <1>3, <2>2
  <2> QED BY <2>1, <2>2
<1> QED BY <1>1, <1>2, <1>4, SparesAll, StatesSubside DEF t

\* An operation on one call, that leaves its state.
LEMMA TouchSubsides ==
  ASSUME NEW s, NEW t, NEW c, Touches(s, t, c), t.call[c].state = s.call[c].state,
         t.calls = s.calls, t.current \in {s.current, NoCall}, t.ring => s.ring
  PROVE  Subsides(s, t)
<1>1. \A d \in Calls : t.call[d].state = s.call[d].state BY DEF Touches
<1> QED BY <1>1, StatesSubside

\* An operation on one call that switches the tone off.
LEMMA MuteSubsides ==
  ASSUME NEW s, NEW t, NEW c, Touches(s, t, c), t.ring = FALSE,
         t.call[c].state = s.call[c].state \/ t.call[c].state # "OutgoingInit"
  PROVE  Subsides(s, t)
  BY DEF Touches, Subsides

LEMMA SameSubsides ==
  ASSUME NEW s, NEW t, t.call = s.call, t.calls = s.calls, t.current = s.current,
         t.ring = s.ring
  PROVE  Subsides(s, t)
  BY DEF Subsides

LEMMA GoneSubsides ==
  ASSUME NEW s, NEW t, NEW c, NEW cstate \in Ended, Gone(s, t, c, cstate)
  PROVE  Subsides(s, t)
<1>1. cstate # "OutgoingInit" BY DEF Ended
<1>2. \A d \in Calls : t.call[d].state = s.call[d].state \/ t.call[d].state = cstate
  BY DEF Gone
<1> QED BY <1>1, <1>2 DEF Gone, Subsides

\* The end of a call while no tone is played.
LEMMA EndSubsides ==
  ASSUME NEW s \in States, NEW c \in Calls, NEW cstate \in Ended, s.ring = FALSE
  PROVE  Subsides(s, linphone_call_set_state(s, c, cstate))
<1> DEFINE t == linphone_call_set_state(s, c, cstate)
<1>1. cstate \notin {"Released", "OutgoingInit"} BY DEF Ended
<1>2. CASE s.call[c].state \in Ended
  <2>1. t = s BY <1>1, <1>2 DEF linphone_call_set_state
  <2> QED BY <2>1, SameSubsides
<1>3. CASE s.call[c].state \notin Ended
  <2>1. t.call[c].state = cstate /\ t.ring = s.ring BY <1>3, EndsTalk
  <2>2. \A d \in Calls : d # c => Alike(s.call[d], t.call[d]) BY <1>3, EndsTalk
  <2> HIDE DEF t
  <2>3. \A d \in Calls : t.call[d].state = s.call[d].state \/ t.call[d].state = cstate
    BY <2>1, <2>2 DEF Alike
  <2> QED BY <1>1, <2>1, <2>3 DEF Subsides, t
<1> QED BY <1>2, <1>3

-----------------------------------------------------------------------------
\* A new call becomes the current one, and waits; or the tone was for others.
LEMMA InviteTone ==
  ASSUME NEW s \in States, Toned(s), NEW n \in Calls, n \notin s.calls,
         NEW r \in Calls \cup {NoCall}, r # n,
         NEW ping \in BOOLEAN, NEW sent \in BOOLEAN, ping => "ping" \in Features
  PROVE  Toned(linphone_core_invite_address_with_params(s, n, r, ping, sent))
<1> DEFINE freed == linphone_core_preempt_sound_resources(s)
           made == linphone_call_new_outgoing(freed, n, r)
           mm == made.calls \cup {n}
           added == [made EXCEPT !.calls = mm, !.current = n]
           started == linphone_call_set_state(added, n, "OutgoingInit")
           out == linphone_core_start_invite(started, n, sent)
           t == linphone_core_invite_address_with_params(s, n, r, ping, sent)
<1>1. /\ freed \in States /\ Toned(freed) /\ freed.calls = s.calls
  <2>1. freed \in States /\ Pauses(s, freed, s.current) BY PreemptSpares
  <2> HIDE DEF freed
  <2>2. freed.calls = s.calls BY <2>1 DEF Pauses
  <2> QED BY <2>1, <2>2, PausesSubside, SubsidesToned
<1>2. t = IF ~linphone_core_can_we_add_call(freed) THEN freed
          ELSE IF ping THEN started ELSE out
  BY DEF linphone_core_invite_address_with_params
<1> HIDE DEF freed
<1>3. /\ made \in States /\ made.call[n].state = "Idle"
      /\ made.calls = freed.calls /\ made.ring = freed.ring
  BY <1>1, NewOutgoingTalk
<1>4. \A d \in Calls : d # n => made.call[d].state = freed.call[d].state
  <2>1. \A d \in Calls : d # n => Alike(freed.call[d], made.call[d]) BY <1>1, NewOutgoingTalk
  <2> HIDE DEF made
  <2> QED BY <2>1 DEF Alike
<1> HIDE DEF made
<1>5. mm \in SUBSET Calls BY <1>3, StateFields
<1>6. mm = freed.calls \cup {n} BY <1>3
<1> HIDE DEF mm
<1>7. /\ added \in States /\ added.call = made.call /\ added.calls = mm
      /\ added.current = n /\ added.ring = freed.ring
  BY <1>3, <1>5 DEF States
<1> HIDE DEF added
<1>8. /\ started \in States /\ started.call[n].state = "OutgoingInit" /\ started.calls = mm
      /\ started.current = n /\ started.ring = freed.ring
      /\ \A d \in Calls : d # n => started.call[d].state = freed.call[d].state
  <2>1. "OutgoingInit" \in Live /\ added.call[n].state \notin Ended
    BY <1>3, <1>7 DEF Live, Ended
  <2>2. /\ Touches(added, started, n)
        /\ started.call[n] = [added.call[n] EXCEPT !.state = "OutgoingInit"]
        /\ started.calls = added.calls /\ started.current = added.current
        /\ started.ring = added.ring
    BY <1>7, <2>1, SetStateTouches
  <2> HIDE DEF started
  <2>3. added.call[n] \in CallRecords BY <1>7, StateFields
  <2>4. started.call[n].state = "OutgoingInit" BY <2>2, <2>3 DEF CallRecords
  <2> QED BY <1>4, <1>7, <2>2, <2>4 DEF Touches
<1> HIDE DEF started
<1>9. "OutgoingInit" \in Waiting /\ "OutgoingProgress" \in Waiting /\ "Error" # "OutgoingInit"
  BY DEF Waiting
<1>10. /\ \A d \in Calls : d # n => out.call[d].state = started.call[d].state
       /\ out.ring = freed.ring
       /\ sent => /\ out.call[n].state = "OutgoingProgress"
                  /\ out.calls = mm /\ out.current = n
       /\ ~sent => /\ out.call[n].state = "Error"
                   /\ out.calls = mm \ {n} /\ out.current = NoCall
  BY <1>8, StartInviteTalk
<1> HIDE DEF out, t
<1>11. CASE t = freed BY <1>1, <1>11 DEF t
<1>12. CASE ping /\ t = started
  <2>1. Rings(started) BY <1>6, <1>8, <1>9 DEF Rings
  <2>2. Undialled(started) BY <1>12 DEF Undialled
  <2> QED BY <1>12, <2>1, <2>2 DEF Toned, t
<1>13. CASE ~ping /\ t = out
  <2>1. Undialled(out)
    <3>1. \A d \in Calls : d # n => out.call[d].state = freed.call[d].state
      BY <1>8, <1>10
    <3>2. out.call[n].state # "OutgoingInit" BY <1>10
    <3> QED BY <1>1, <3>1, <3>2 DEF Toned, Undialled
  <2>2. Rings(out)
    <3>1. CASE sent BY <1>6, <1>9, <1>10, <3>1 DEF Rings
    <3>2. CASE ~sent
      <4>1. out.calls = freed.calls BY <1>1, <1>6, <1>10, <3>2
      <4> QED BY <1>1, <1>10, <3>2, <4>1 DEF Toned, Rings
    <3> QED BY <3>1, <3>2
  <2> QED BY <1>13, <2>1, <2>2 DEF Toned, t
<1> QED BY <1>2, <1>11, <1>12, <1>13 DEF t

LEMMA StartReferedTone ==
  ASSUME NEW s \in States, Toned(s), NEW c \in Calls, NEW n \in Calls \cup {NoCall},
         n # NoCall => n # c /\ n \notin s.calls
  PROVE  Toned(linphone_core_start_refered_call(s, c, n))
<1> DEFINE k == s.call[c]
           l == [k EXCEPT !.refer_pending = FALSE]
           taken == Store(s, c, l)
           out == linphone_core_invite_address_with_params(taken, n, c, FALSE, TRUE)
           t == linphone_core_start_refered_call(s, c, n)
<1>1. k \in CallRecords BY StateFields
<1>2. l \in CallRecords /\ l.state = k.state BY <1>1 DEF CallRecords
<1>3. t = IF ~k.refer_pending THEN s ELSE IF n = NoCall THEN taken ELSE out
  BY DEF linphone_core_start_refered_call
<1> HIDE DEF l, t
<1>4. /\ Touches(s, taken, c) /\ taken.call[c] = l /\ taken.calls = s.calls
      /\ taken.current = s.current /\ taken.ring = s.ring
  BY <1>2, StoreTouches
<1> HIDE DEF taken
<1>5. taken \in States /\ Toned(taken)
  <2>1. taken \in States BY <1>4 DEF Touches
  <2>2. Subsides(s, taken) BY <1>2, <1>4, TouchSubsides
  <2> QED BY <2>1, <2>2, SubsidesToned
<1>6. n # NoCall => Toned(out)
  BY <1>4, <1>5, InviteTone
<1> QED BY <1>3, <1>5, <1>6 DEF t

-----------------------------------------------------------------------------
\* The handlers of the events.
LEMMA HangupTone ==
  ASSUME NEW s \in States, NEW c \in Calls
  PROVE  Subsides(s, Hangup(s, c))
<1> DEFINE y == eXosip_call_terminate(s.ctx[c], TRUE)
<1>1. y \in Contexts BY StateFields, EndingContext
<1> HIDE DEF y
<1>2. /\ Signal(s, c, y).call = s.call /\ Signal(s, c, y).calls = s.calls
      /\ Signal(s, c, y).current = s.current /\ Signal(s, c, y).ring = s.ring
  BY <1>1, SignalTouches
<1> QED BY <1>2, SameSubsides DEF Hangup, y

\* The ringback tone starts for a call that is then OutgoingRinging.
LEMMA CallRingingTone ==
  ASSUME NEW s \in States, Toned(s), NEW c \in s.calls, s.call[c].state \in Outgoing
  PROVE  Toned(call_ringing(s, c))
<1> DEFINE k == s.call[c]
           md == k.result
           rings == [s EXCEPT !.ring = TRUE]
           ringing == linphone_call_set_state(rings, c, "OutgoingRinging")
           early == linphone_call_set_state(s, c, "OutgoingEarlyMedia")
           played == linphone_core_update_streams(early, c, md)
<1>0. c \in Calls BY StateFields
<1>1. k \in CallRecords /\ md \in Descriptions BY <1>0, StateFields DEF CallRecords
<1>2. k.state \notin Ended /\ {"OutgoingRinging", "OutgoingEarlyMedia"} \subseteq Live
  BY DEF Outgoing, Ended, Live
<1>3. call_ringing(s, c) \in {s, ringing, played}
  BY DEF call_ringing, ringing, played, early, k
<1>4. Toned(ringing)
  <2>1. /\ rings \in States /\ rings.call = s.call /\ rings.calls = s.calls
        /\ rings.current = s.current
    BY RingTouches
  <2> HIDE DEF rings
  <2>2. /\ Touches(rings, ringing, c) /\ ringing.calls = rings.calls
        /\ ringing.call[c] = [rings.call[c] EXCEPT !.state = "OutgoingRinging"]
    BY <1>0, <1>2, <2>1, SetStateTouches
  <2> HIDE DEF ringing
  <2>3. ringing.call[c].state = "OutgoingRinging"
    <3>1. rings.call[c] \in CallRecords BY <1>1, <2>1
    <3> QED BY <2>2, <3>1 DEF CallRecords
  <2>4. Rings(ringing) BY <2>1, <2>2, <2>3 DEF Rings, Waiting
  <2>5. Undialled(ringing)
    <3>1. \A d \in Calls : d # c => ringing.call[d].state = s.call[d].state
      BY <2>1, <2>2 DEF Touches
    <3> QED BY <2>3, <3>1 DEF Toned, Undialled
  <2> QED BY <2>4, <2>5 DEF Toned
<1>5. Toned(played)
  <2>1. Touches(s, early, c) /\ early \in States
        /\ early.call[c] = [k EXCEPT !.state = "OutgoingEarlyMedia"]
    BY <1>0, <1>2, SetStateTouches DEF Touches
  <2> HIDE DEF early, k
  <2>2. early.call[c].state = "OutgoingEarlyMedia" BY <1>1, <2>1 DEF CallRecords
  <2>3. /\ Touches(early, played, c) /\ played.ring = FALSE
        /\ played.call[c] = WithStreams(early.call[c], md)
    <3>1. early \in States /\ md \in Descriptions BY <1>0, <1>1, <2>1
    <3>2. Touches(early, played, c) BY <1>0, <3>1, UpdateStreamsTouches
    <3>3. played.ring = FALSE BY <1>0, <3>1, UpdateStreamsTouches
    <3>4. played.call[c] = WithStreams(early.call[c], md) BY <1>0, <3>1, UpdateStreamsTouches
    <3> QED BY <3>2, <3>3, <3>4
  <2> HIDE DEF played, md
  <2>4. played.call[c].state = "OutgoingEarlyMedia"
    <3>1. early.call[c] \in CallRecords BY <1>0, <2>1, StateFields
    <3> QED BY <1>1, <2>2, <2>3, <3>1, WithStreamsRecord
  <2>5. Touches(s, played, c) BY <2>1, <2>3, TouchesTwice
  <2>6. Subsides(s, played) BY <2>3, <2>4, <2>5, MuteSubsides
  <2> QED BY <2>6, SubsidesToned
<1> HIDE DEF ringing, played
<1> QED BY <1>3, <1>4, <1>5

LEMMA RingingTone ==
  ASSUME NEW s \in States, Toned(s), NEW c \in Calls, s.call[c].state \in Live => c \in s.calls,
         NEW p, NEW q, Arrives(s, p, q, c, "RINGING"), NEW md \in Descriptions
  PROVE  Toned(sal_call_ringing(s, c, md))
<1> DEFINE k == s.call[c]
           known == SetDialog(s, c)
           answered == SetAnswer(known, c, md)
           u == IF md = "None" THEN known ELSE answered
           t == call_ringing(u, c)
<1>1. CASE ~k.op \/ k.terminated
  <2>1. sal_call_ringing(s, c, md) = Hangup(s, c) BY <1>1 DEF sal_call_ringing
  <2> QED BY <2>1, HangupTone, SubsidesToned
<1>2. CASE ~(~k.op \/ k.terminated)
  <2>1. k \in CallRecords BY StateFields
  <2>2. k.state \in Outgoing
    <3>1. InQueue(p, "RINGING", c) BY ArrivesQueued
    <3>2. k.state \in Dialled BY <3>1 DEF Arrives, WaitInv, Dialled
    <3>3. k.state \in Live \cup Ended BY <1>2 DEF Arrives, CallInv
    <3>4. k.state \notin Ended BY <1>2, <3>1 DEF Arrives, Fine, TalkOf, RedirectInv
    <3> QED BY <3>2, <3>3, <3>4 DEF Dialled, Live, Outgoing, Incoming
  <2>3. c \in s.calls BY <2>2 DEF Live
  <2>4. sal_call_ringing(s, c, md) = t
    BY <1>2 DEF sal_call_ringing, known
  <2>5. /\ Touches(s, known, c) /\ known \in States /\ known.call[c] = Known(k)
        /\ known.calls = s.calls /\ known.current = s.current /\ known.ring = s.ring
    BY SetDialogTouches
  <2>6. Known(k) \in CallRecords /\ Known(k).state = k.state BY <2>1, KnownRecord
  <2> HIDE DEF known
  <2>7. /\ Touches(s, answered, c) /\ answered \in States
        /\ answered.call[c] = Agrees(Known(k), md) /\ answered.calls = s.calls
        /\ answered.current = s.current /\ answered.ring = s.ring
    BY <2>5, SetAnswerTouches, TouchesTwice
  <2>8. Agrees(Known(k), md).state = k.state BY <2>6, AgreesRecord
  <2> HIDE DEF answered
  <2>9. /\ Touches(s, u, c) /\ u \in States /\ u.call[c].state = k.state
        /\ u.calls = s.calls /\ u.current = s.current /\ u.ring = s.ring
    BY <2>5, <2>6, <2>7, <2>8
  <2> HIDE DEF u
  <2>10. Toned(u) BY <2>9, TouchSubsides, SubsidesToned
  <2> QED BY <2>2, <2>3, <2>4, <2>9, <2>10, CallRingingTone
<1> QED BY <1>1, <1>2

LEMMA CallAcceptedTone ==
  ASSUME NEW s \in States, Toned(s), NEW c \in Calls, NEW n \in Calls \cup {NoCall},
         n # NoCall => n # c /\ n \notin s.calls,
         Answering(s.call[c])
  PROVE  Toned(call_accepted(s, c, n))
<1> DEFINE k == s.call[c]
           md == k.result
           moved == linphone_call_set_state(s, c, "Connected")
           connected == IF k.state \in Outgoing THEN moved ELSE s
           streams == linphone_core_update_streams(connected, c, md)
           paused == linphone_call_set_state(streams, c, "Paused")
           refers == linphone_core_start_refered_call(paused, c, n)
           held == linphone_call_set_state(streams, c, "PausedByRemote")
           running == [streams EXCEPT !.current = c]
           talks == linphone_call_set_state(running, c, "StreamsRunning")
           aborted == linphone_core_abort_call(connected, c)
           t == call_accepted(s, c, n)
<1>1. /\ k \in CallRecords /\ md \in Descriptions /\ md # "None"
      /\ k.op /\ k.state \in Live /\ k.state \notin Ended
  BY StateFields DEF Answering, Live, Ended, Outgoing, Incoming
<1>2. t = CASE ~Usable(md) -> aborted
            [] md \in {"SendOnly", "Inactive"} -> refers
            [] md = "RecvOnly" -> held
            [] md = "SendRecv" -> talks
  BY DEF call_accepted, aborted, refers, held, talks, paused, running, streams, connected, moved
<1>3. /\ Touches(s, connected, c) /\ connected \in States /\ connected.call[c] \in CallRecords
      /\ connected.call[c].op /\ connected.call[c].state \in {k.state, "Connected"}
      /\ connected.calls = s.calls
  <2>1. "Connected" \in Live BY DEF Live
  <2>2. /\ Touches(s, moved, c) /\ moved.call[c] = [k EXCEPT !.state = "Connected"]
        /\ moved.calls = s.calls
    BY <1>1, <2>1, SetStateTouches
  <2> HIDE DEF moved, k
  <2>3. /\ moved.call[c].op /\ moved.call[c].state = "Connected" BY <1>1, <2>2 DEF CallRecords
  <2>4. Touches(s, s, c) BY DEF Touches
  <2>5. connected \in {s, moved} OBVIOUS
  <2>6. connected \in States BY <2>2, <2>5 DEF Touches
  <2>7. connected.call[c] \in CallRecords BY <2>6, StateFields
  <2> QED BY <1>1, <2>2, <2>3, <2>4, <2>5, <2>6, <2>7 DEF k
<1> HIDE DEF connected, t, md
<1>4. CASE ~Usable(md)
  <2>0. md = "Empty" BY <1>1, <1>4 DEF Usable, sal_media_description_empty
  <2>1. t = Dropped(connected, c, "Error")
    <3>1. t = aborted BY <1>2, <1>4, <2>0
    <3> QED BY <3>1, TerminateDrops
  <2>2. connected.call[c].state \notin Ended /\ "Error" \in Ended BY <1>1, <1>3 DEF Ended
  <2>3. Gone(connected, t, c, "Error") BY <1>3, <2>1, <2>2, DroppedTalk
  <2>4. Subsides(s, t)
    <3>1. \A d \in Calls : d # c => t.call[d].state = s.call[d].state
      BY <1>3, <2>3 DEF Gone, Touches
    <3> QED BY <2>3, <3>1 DEF Gone, Subsides
  <2> QED BY <2>4, SubsidesToned DEF t
<1>5. CASE Usable(md)
  <2>1. /\ Touches(s, streams, c) /\ streams \in States /\ streams.ring = FALSE
        /\ streams.call[c].state \notin Ended /\ streams.call[c] \in CallRecords
        /\ streams.calls = s.calls
    <3>1. connected \in States /\ md \in Descriptions BY <1>1, <1>3
    <3>2. Touches(connected, streams, c) BY <3>1, UpdateStreamsTouches
    <3>3. streams.ring = FALSE BY <3>1, UpdateStreamsTouches
    <3>4. streams.call[c] = WithStreams(connected.call[c], md) BY <3>1, UpdateStreamsTouches
    <3>5. streams.calls = connected.calls BY <3>1, UpdateStreamsTouches
    <3> HIDE DEF streams
    <3>6. streams.call[c].state = connected.call[c].state /\ streams.call[c] \in CallRecords
      BY <1>1, <1>3, <3>4, WithStreamsRecord
    <3>7. streams.call[c].state \notin Ended BY <1>1, <1>3, <3>6 DEF Ended
    <3> QED BY <1>3, <3>2, <3>3, <3>5, <3>6, <3>7, TouchesTwice DEF Touches
  <2> HIDE DEF streams
  <2>2. ASSUME NEW u \in States, u.call = streams.call, u.ctx = streams.ctx, u.ring = FALSE,
               u.calls = s.calls,
               NEW cstate \in {"Paused", "PausedByRemote", "StreamsRunning"}
        PROVE  LET v == linphone_call_set_state(u, c, cstate) IN
               v \in States /\ Toned(v) /\ v.calls = s.calls
    <3> DEFINE v == linphone_call_set_state(u, c, cstate)
    <3>1. cstate \in Live BY DEF Live
    <3>2. /\ Touches(u, v, c) /\ v.call[c] = [streams.call[c] EXCEPT !.state = cstate]
          /\ v.ring = FALSE /\ v.calls = s.calls
      BY <2>1, <2>2, <3>1, SetStateTouches
    <3>3. Touches(s, u, c) BY <2>1, <2>2, SameTouches, TouchesTwice
    <3> HIDE DEF v
    <3>4. v.call[c].state = cstate BY <2>1, <3>2 DEF CallRecords
    <3>5. Subsides(s, v) BY <3>2, <3>3, <3>4, TouchesTwice, MuteSubsides
    <3> QED BY <3>2, <3>5, SubsidesToned DEF Touches, v
  <2>3. md \in {"SendOnly", "Inactive", "RecvOnly", "SendRecv"}
    BY <1>1, <1>5 DEF Usable, sal_media_description_empty, Descriptions, Dirs
  <2>4. CASE md \in {"SendOnly", "Inactive"}
    <3>1. t = refers BY <1>2, <1>5, <2>4
    <3>2. paused \in States /\ Toned(paused) /\ paused.calls = s.calls BY <2>1, <2>2
    <3> HIDE DEF paused
    <3> QED BY <3>1, <3>2, StartReferedTone DEF t
  <2>5. CASE md = "RecvOnly"
    <3>1. t = held BY <1>2, <1>5, <2>5
    <3> QED BY <2>1, <2>2, <3>1 DEF t
  <2>6. CASE md = "SendRecv"
    <3>1. t = talks BY <1>2, <1>5, <2>6
    <3>2. /\ running \in States /\ running.call = streams.call /\ running.ctx = streams.ctx
          /\ running.ring = FALSE /\ running.calls = s.calls
      BY <2>1, CurrentTouches
    <3> HIDE DEF running
    <3>3. Toned(talks) BY <2>2, <3>2
    <3> QED BY <3>1, <3>3 DEF t
  <2> QED BY <2>3, <2>4, <2>5, <2>6
<1> QED BY <1>4, <1>5

LEMMA AcceptedTone ==
  ASSUME NEW s \in States, Toned(s), NEW c \in Calls, NEW p, NEW q,
         Arrives(s, p, q, c, "ANSWERED"), NEW md \in Descriptions,
         NEW n \in Calls \cup {NoCall}, n # NoCall => n # c /\ n \notin s.calls
  PROVE  Toned(sal_call_accepted(s, c, md, n))
<1> DEFINE k == s.call[c]
           x == s.ctx[c]
           m == Agrees(Known(k), md)
           known == SetDialog(s, c)
           answered == SetAnswer(known, c, md)
           t == sal_call_accepted(s, c, md, n)
<1>1. k \in CallRecords /\ x \in Contexts BY StateFields
<1>2. CASE ~k.op \/ k.terminated
  <2>1. t = Hangup(s, c) BY <1>2 DEF sal_call_accepted
  <2> QED BY <2>1, HangupTone, SubsidesToned
<1>3. /\ Touches(s, known, c) /\ known \in States /\ known.call[c] = Known(k)
      /\ known.calls = s.calls /\ known.current = s.current /\ known.ring = s.ring
  BY SetDialogTouches
<1>4. /\ Known(k) \in CallRecords /\ Known(k).state = k.state /\ Known(k).did
      /\ Known(k).op = k.op
  BY <1>1, KnownRecord
<1> HIDE DEF known
<1>5. /\ Touches(s, answered, c) /\ answered \in States /\ answered.call[c] = m
      /\ answered.calls = s.calls /\ answered.current = s.current /\ answered.ring = s.ring
  BY <1>3, SetAnswerTouches, TouchesTwice
<1>6. m.state = k.state /\ m.did /\ m.op = k.op /\ m.result \in Descriptions \ {"None"}
  BY <1>4, AgreesRecord
<1> HIDE DEF m
<1>7. Toned(answered) BY <1>5, <1>6, TouchSubsides, SubsidesToned
<1>8. CASE ~(~k.op \/ k.terminated) /\ x.stage # "conf"
  <2>1. t = Hangup(answered, c) BY <1>8 DEF sal_call_accepted, answered, known
  <2> HIDE DEF answered
  <2> QED BY <1>5, <1>7, <2>1, HangupTone, SubsidesToned
<1>9. CASE ~(~k.op \/ k.terminated) /\ x.stage = "conf"
  <2>1. t = call_accepted(answered, c, n) BY <1>9 DEF sal_call_accepted, answered, known
  <2> HIDE DEF answered
  <2>2. k.state \in Live
    <3>1. InQueue(p, "ANSWERED", c) BY ArrivesQueued
    <3>2. TalkOf(k, x, p, c) /\ CallInv(k, x) BY DEF Arrives, Fine
    <3>3. k.state \in Outgoing \cup {"StreamsRunning", "Pausing", "Paused", "Resuming",
                                     "PausedByRemote", "UpdatedByRemote"}
      BY <1>1, <1>9, <3>1, <3>2, AnsweredState
    <3> QED BY <3>3 DEF Live
  <2>3. Answering(answered.call[c]) BY <1>5, <1>6, <1>9, <2>2 DEF Answering
  <2> QED BY <1>5, <1>7, <2>1, <2>3, CallAcceptedTone
<1> QED BY <1>2, <1>8, <1>9

LEMMA FailureTone ==
  ASSUME "srtp" \notin Features, NEW s \in States, NEW c \in Calls,
         CallInv(s.call[c], s.ctx[c]), NEW failure
  PROVE  LET t == sal_call_failure(s, c, failure) IN t \in States /\ Subsides(s, t)
<1> DEFINE marked == SetTerminated(s, c)
           quiet == Quiet(marked)
           silent == linphone_call_stop_media_streams(quiet, c)
           referer == marked.call[c].referer
           resumed == linphone_core_resume_call(silent, referer)
           back == IF referer # NoCall /\ marked.call[referer].state = "Paused"
                      /\ marked.call[referer].was_automatically_paused
                   THEN resumed ELSE silent
           cstate == IF failure = "Declined" THEN "End" ELSE "Error"
           ended == linphone_call_set_state(back, c, cstate)
           t == sal_call_failure(s, c, failure)
<1>1. CASE ~s.call[c].op
  <2>1. t = s BY <1>1 DEF sal_call_failure
  <2> QED BY <2>1, SameSubsides
<1>2. CASE s.call[c].op
  <2>1. /\ Touches(s, marked, c) /\ marked \in States /\ marked.call[c] \in CallRecords
        /\ marked.call[c].srtp = s.call[c].srtp /\ marked.call[c].state = s.call[c].state
        /\ marked.calls = s.calls /\ marked.current = s.current
    BY SetTerminatedTouches
  <2>2. ~s.call[c].srtp BY DEF CallInv
  <2>3. t = call_failure(marked, c, failure) BY <1>2 DEF sal_call_failure
  <2>4. t = ended
    BY <2>1, <2>2, <2>3 DEF call_failure, ended, back, resumed, silent, quiet, referer, cstate
  <2> HIDE DEF marked, t
  <2>5. referer \in Calls \cup {NoCall} BY <2>1 DEF CallRecords
  <2>6. /\ Touches(s, quiet, c) /\ quiet \in States /\ quiet.ring = FALSE
        /\ quiet.call = marked.call
    BY <2>1, QuietTouches, TouchesTwice
  <2> HIDE DEF quiet
  <2>7. /\ Touches(s, silent, c) /\ silent \in States /\ silent.ring = FALSE
        /\ silent.call[c].state = s.call[c].state
    <3>1. /\ Touches(quiet, silent, c) /\ silent.ring = FALSE
          /\ silent.call[c] = [quiet.call[c] EXCEPT !.media = "none"]
      BY <2>6, StopMediaTouches
    <3> HIDE DEF silent
    <3>2. quiet.call[c] \in CallRecords /\ quiet.call[c].state = s.call[c].state
      BY <2>1, <2>6
    <3>3. silent.call[c].state = s.call[c].state BY <3>1, <3>2 DEF CallRecords
    <3> QED BY <2>6, <3>1, <3>3, TouchesTwice DEF Touches
  <2> HIDE DEF silent, referer
  <2>8. Subsides(s, silent) BY <2>7, MuteSubsides
  <2>9. back \in States /\ Subsides(s, back) /\ back.ring = FALSE
    <3>1. CASE back = silent BY <2>7, <2>8, <3>1
    <3>2. CASE back = resumed /\ referer \in Calls
      <4>1. resumed \in States /\ Subsides(silent, resumed) BY <2>7, <3>2, ResumeSubsides
      <4>2. resumed.ring = FALSE
        <5>1. silent \in States /\ referer \in Calls BY <2>7, <3>2
        <5>2. resumed.ring = silent.ring BY <5>1, ResumeSpares
        <5> QED BY <2>7, <5>2
      <4> HIDE DEF resumed, back
      <4> QED BY <2>8, <3>2, <4>1, <4>2, SubsidesTwice
    <3> QED BY <2>5, <3>1, <3>2
  <2> HIDE DEF back
  <2>10. cstate \in Ended BY DEF Ended
  <2> HIDE DEF cstate
  <2>11. ended \in States /\ Subsides(back, ended) BY <2>9, <2>10, EndSpares, EndSubsides
  <2> HIDE DEF ended
  <2> QED BY <2>4, <2>9, <2>11, SubsidesTwice DEF t
<1> QED BY <1>1, <1>2

\* The BYE of a call stops the tone unless it is for another one.
LEMMA TerminatedTone ==
  ASSUME NEW s \in States, Toned(s), NEW c \in Calls
  PROVE  Toned(sal_call_terminated(s, c))
<1> DEFINE ring2 == s.ring /\ Cardinality(s.calls) # 1 /\ s.current = NoCall
           quiet == [s EXCEPT !.ring = ring2]
           silent == linphone_call_stop_media_streams(quiet, c)
           ended == linphone_call_set_state(silent, c, "End")
           over == IF s.call[c].state \in Ended THEN s ELSE ended
           marked == SetTerminated(over, c)
           t == sal_call_terminated(s, c)
<1>1. CASE ~s.call[c].op BY <1>1 DEF sal_call_terminated
<1>2. CASE s.call[c].op
  <2>1. t = marked BY <1>2 DEF sal_call_terminated, call_terminated
  <2> HIDE DEF t
  <2>2. s.call[c] \in CallRecords /\ s.ring \in BOOLEAN BY StateFields
  <2>3. ASSUME NEW u \in States, Toned(u) PROVE Toned(SetTerminated(u, c))
    <3>1. /\ Touches(u, SetTerminated(u, c), c)
          /\ SetTerminated(u, c).call[c].state = u.call[c].state
          /\ SetTerminated(u, c).calls = u.calls
          /\ SetTerminated(u, c).current = u.current /\ SetTerminated(u, c).ring = u.ring
      BY SetTerminatedTouches
    <3>2. Subsides(u, SetTerminated(u, c)) BY <3>1, TouchSubsides
    <3> QED BY <2>3, <3>2, SubsidesToned
  <2>4. CASE s.call[c].state \in Ended BY <2>1, <2>3, <2>4 DEF t
  <2>5. CASE s.call[c].state \notin Ended
    <3>1. ring2 \in BOOLEAN BY <2>2
    <3>2. ring2 => s.ring /\ Cardinality(s.calls) # 1 /\ s.current = NoCall OBVIOUS
    <3> HIDE DEF ring2
    <3>3. /\ quiet \in States /\ quiet.call = s.call /\ quiet.calls = s.calls
          /\ quiet.current = s.current /\ quiet.ring = ring2
      BY <3>1, RingTouches
    <3> HIDE DEF quiet
    <3>4. /\ silent \in States /\ silent.call[c].state \notin Ended /\ silent.calls = s.calls
          /\ silent.current = s.current /\ silent.ring = ring2
          /\ \A d \in Calls : silent.call[d].state = s.call[d].state
      <4>1. /\ Touches(quiet, silent, c) /\ silent.calls = quiet.calls
            /\ silent.call[c] = [quiet.call[c] EXCEPT !.media = "none"]
            /\ silent.current = quiet.current /\ silent.ring = quiet.ring
        BY <3>3, StopMediaTouches
      <4> HIDE DEF silent
      <4>2. silent.call[c].state = s.call[c].state BY <2>2, <3>3, <4>1 DEF CallRecords
      <4>3. \A d \in Calls : silent.call[d].state = s.call[d].state
        BY <3>3, <4>1, <4>2 DEF Touches
      <4> QED BY <2>5, <3>3, <4>1, <4>2, <4>3 DEF Touches
    <3> HIDE DEF silent
    <3>5. "End" \in Ended BY DEF Ended
    <3>6. /\ ended \in States /\ ended.calls = s.calls \ {c} /\ ended.ring = ring2
          /\ ended.call[c].state = "End"
          /\ ended.current = IF s.current = c THEN NoCall ELSE s.current
      BY <3>4, <3>5, EndsTalk
    <3>7. \A d \in Calls : d # c => Alike(silent.call[d], ended.call[d])
      BY <3>4, <3>5, EndsTalk
    <3> HIDE DEF ended
    <3>8. Rings(ended)
      <4> SUFFICES ASSUME ended.ring PROVE ended.calls # {} /\ ended.current = NoCall
        BY DEF Rings
      <4>1. s.ring /\ Cardinality(s.calls) # 1 /\ s.current = NoCall BY <3>2, <3>6
      <4>2. s.calls # {} BY <4>1 DEF Toned, Rings
      <4>3. s.calls # {c} BY <4>1, FS_Singleton
      <4> QED BY <3>6, <4>1, <4>2, <4>3
    <3>9. Undialled(ended)
      <4>1. \A d \in Calls : d # c => ended.call[d].state = s.call[d].state
        BY <3>4, <3>7 DEF Alike
      <4> QED BY <3>6, <4>1 DEF Toned, Undialled
    <3> QED BY <2>1, <2>3, <2>5, <3>6, <3>8, <3>9 DEF Toned, t
  <2> QED BY <2>4, <2>5
<1> QED BY <1>1, <1>2

LEMMA ReleasedTone ==
  ASSUME "srtp" \notin Features, NEW s \in States, NEW c \in Calls, NEW p, NEW q,
         Arrives(s, p, q, c, "RELEASED")
  PROVE  Subsides(s, call_released(s, c))
<1> DEFINE failed == sal_call_failure(s, c, "NoResponse")
           reported == IF s.call[c].terminated THEN s ELSE failed
           t == call_released(s, c)
<1>1. CASE ~s.call[c].op
  <2>1. t = s BY <1>1 DEF call_released
  <2> QED BY <2>1, SameSubsides
<1>2. CASE s.call[c].op
  <2>1. t = linphone_call_set_state(reported, c, "Released") BY <1>2 DEF call_released
  <2>2. reported \in States /\ Subsides(s, reported) /\ reported.call[c].state \in Ended
    <3>1. CASE s.call[c].terminated
      <4>1. s.call[c].state \in Ended BY <1>2, <3>1 DEF Arrives, CallInv
      <4> QED BY <3>1, <4>1, SameSubsides
    <3>2. CASE ~s.call[c].terminated
      <4>1. failed \in States /\ Subsides(s, failed) BY FailureTone DEF Arrives
      <4>2. failed.call[c].state \in Ended BY <1>2, FailureTalk
      <4> HIDE DEF failed
      <4> QED BY <3>2, <4>1, <4>2
    <3> QED BY <3>1, <3>2
  <2> HIDE DEF reported, t
  <2> DEFINE k == reported.call[c]
             l == [k EXCEPT !.state = "Released", !.op = FALSE]
             closed == Store(reported, c, l)
             freed == linphone_call_unref(closed, c)
  <2>3. k \in CallRecords BY <2>2, StateFields
  <2>4. l \in CallRecords /\ l.state = "Released" BY <2>3 DEF CallRecords, CallStates
  <2>5. t = freed BY <2>1, <2>2 DEF linphone_call_set_state, Ended
  <2> HIDE DEF l
  <2>6. /\ Touches(reported, closed, c) /\ closed \in States /\ closed.call[c] = l
        /\ closed.calls = reported.calls /\ closed.current = reported.current
        /\ closed.ring = reported.ring
    BY <2>2, <2>4, StoreTouches DEF Touches
  <2> HIDE DEF closed
  <2>7. \A d \in Calls : Alike(closed.call[d], freed.call[d]) BY <2>6, UnrefAlike
  <2>8. freed.calls = closed.calls /\ freed.current = closed.current /\ freed.ring = closed.ring
    BY <2>6, UnrefAlike
  <2> HIDE DEF freed
  <2>9. Subsides(reported, freed)
    <3>1. k.state \notin Waiting BY <2>2 DEF Waiting, Ended
    <3>2. \A d \in Calls : freed.call[d].state = closed.call[d].state BY <2>7 DEF Alike
    <3>3. \A d \in Calls : freed.call[d].state = reported.call[d].state
                            \/ (reported.call[d].state \notin Waiting
                                /\ freed.call[d].state # "OutgoingInit")
      BY <2>4, <2>6, <3>1, <3>2 DEF Touches
    <3> QED BY <2>6, <2>8, <3>3, StatesSubside
  <2> QED BY <2>2, <2>5, <2>9, SubsidesTwice DEF t
<1> QED BY <1>1, <1>2

LEMMA FollowsSubsides ==
  ASSUME NEW s, NEW t, NEW c, Follows(s, t, c)
  PROVE  Subsides(s, t)
<1>1. Talking \cap Waiting = {} /\ "OutgoingInit" \notin Talking BY DEF Talking, Waiting
<1>2. \A d \in Calls : t.call[d].state = s.call[d].state
                        \/ (s.call[d].state \notin Waiting /\ t.call[d].state # "OutgoingInit")
  BY <1>1 DEF Follows, Touches
<1> QED BY <1>2, StatesSubside DEF Follows

LEMMA AckTone ==
  ASSUME NEW s \in States, NEW c \in Calls, NEW p, NEW q, Arrives(s, p, q, c, "ACK"),
         NEW md \in Descriptions
  PROVE  Subsides(s, handle_ack(s, c, md))
<1> DEFINE k == s.call[c]
           answered == SetAnswer(s, c, md)
           j == Agrees(k, md)
           streams == linphone_core_update_streams(answered, c, j.result)
           running == linphone_call_set_state(streams, c, "StreamsRunning")
           t == handle_ack(s, c, md)
<1>1. k \in CallRecords BY StateFields
<1>2. CASE ~k.op \/ k.terminated
  <2>1. t = s BY <1>2 DEF handle_ack
  <2> QED BY <2>1, SameSubsides
<1>3. CASE k.op /\ ~k.terminated
  <2>1. /\ Touches(s, answered, c) /\ answered \in States /\ answered.call[c] = j
        /\ answered.calls = s.calls /\ answered.current = s.current /\ answered.ring = s.ring
    BY SetAnswerTouches
  <2>2. j \in CallRecords /\ j.result \in Descriptions /\ j.state = k.state /\ j.op
    BY <1>1, <1>3, AgreesRecord
  <2>3. k.state \notin Ended BY <1>3, AckedState DEF Live, Ended, Outgoing, Incoming
  <2>4. t = call_ack(answered, c) BY <1>3 DEF handle_ack
  <2> HIDE DEF t, answered, j
  <2>5. Subsides(s, answered) BY <2>1, <2>2, TouchSubsides
  <2>6. CASE ~j.media_pending
    <3>1. t = answered BY <2>1, <2>4, <2>6 DEF call_ack
    <3> QED BY <2>5, <3>1 DEF t
  <2>7. CASE j.media_pending /\ Usable(j.result)
    <3>1. t = running BY <2>1, <2>4, <2>7 DEF call_ack
    <3>2. /\ Touches(s, streams, c) /\ streams \in States /\ streams.ring = FALSE
      <4>1. answered \in States /\ j.result \in Descriptions BY <2>1, <2>2
      <4>2. Touches(answered, streams, c) BY <4>1, UpdateStreamsTouches
      <4>3. streams.ring = FALSE BY <4>1, UpdateStreamsTouches
      <4> QED BY <2>1, <4>2, <4>3, TouchesTwice DEF Touches
    <3> HIDE DEF streams
    <3>3. "StreamsRunning" \in Live BY DEF Live
    <3>4. /\ Touches(streams, running, c) /\ running.ring = streams.ring
          /\ streams.call[c].state \notin Ended =>
               running.call[c] = [streams.call[c] EXCEPT !.state = "StreamsRunning"]
          /\ streams.call[c].state \in Ended => running = streams
      BY <3>2, <3>3, SetStateTouches
    <3>5. streams.call[c] \in CallRecords BY <3>2, StateFields
    <3> HIDE DEF running
    <3>6. running.call[c].state # "OutgoingInit"
      <4>1. CASE streams.call[c].state \in Ended BY <3>4, <4>1 DEF Ended
      <4>2. CASE streams.call[c].state \notin Ended BY <3>4, <3>5, <4>2 DEF CallRecords
      <4> QED BY <4>1, <4>2
    <3>7. Touches(s, running, c) BY <3>2, <3>4, TouchesTwice
    <3> QED BY <3>1, <3>2, <3>4, <3>6, <3>7, MuteSubsides DEF t
  <2>8. CASE j.media_pending /\ ~Usable(j.result)
    <3>1. t = Dropped(answered, c, "Error")
      BY <2>1, <2>4, <2>8, TerminateDrops DEF call_ack
    <3>2. answered.call[c].op /\ answered.call[c].state \notin Ended /\ "Error" \in Ended
      BY <2>1, <2>2, <2>3 DEF Ended
    <3>3. Gone(answered, t, c, "Error") BY <2>1, <3>1, <3>2, DroppedTalk
    <3>4. Subsides(answered, t) BY <3>2, <3>3, GoneSubsides
    <3> QED BY <2>5, <3>4, SubsidesTwice DEF t
  <2> QED BY <2>6, <2>7, <2>8
<1> QED BY <1>2, <1>3

LEMMA ReferTone ==
  ASSUME NEW s \in States, Toned(s), NEW c \in Calls, NEW n \in Calls \cup {NoCall},
         n # NoCall => n # c /\ n \notin s.calls
  PROVE  Toned(refer_received(s, c, n))
<1> DEFINE k == s.call[c]
           l == [k EXCEPT !.refer_pending = TRUE]
           asked == Store(s, c, l)
           started == linphone_core_start_refered_call(asked, c, n)
           paused == linphone_core_pause_call(asked, c)
           j == paused.call[c]
           m == [j EXCEPT !.was_automatically_paused = TRUE]
           marked == Store(paused, c, m)
           t == refer_received(s, c, n)
<1>1. k \in CallRecords BY StateFields
<1>2. t = IF ~k.op THEN s ELSE IF k.state = "Paused" THEN started ELSE marked
  BY DEF refer_received
<1>3. l \in CallRecords /\ l.state = k.state BY <1>1 DEF CallRecords
<1> HIDE DEF l, t
<1>4. /\ Touches(s, asked, c) /\ asked.call[c] = l /\ asked.calls = s.calls
      /\ asked.current = s.current /\ asked.ring = s.ring
  BY <1>3, StoreTouches
<1> HIDE DEF asked
<1>5. asked \in States /\ Toned(asked)
  <2>1. asked \in States BY <1>4 DEF Touches
  <2>2. Subsides(s, asked) BY <1>3, <1>4, TouchSubsides
  <2> QED BY <2>1, <2>2, SubsidesToned
<1>6. Toned(started) BY <1>4, <1>5, StartReferedTone
<1>7. Toned(marked)
  <2>1. Spares(asked, paused, NoCall) /\ Pauses(asked, paused, c) BY <1>5, PauseSpares
  <2> HIDE DEF paused
  <2>2. paused \in States /\ Toned(paused)
    BY <1>5, <2>1, PausesSubside, SubsidesToned DEF Spares
  <2>3. j \in CallRecords BY <2>2, StateFields
  <2>4. m \in CallRecords /\ m.state = j.state BY <2>3 DEF CallRecords
  <2> HIDE DEF m
  <2>5. /\ Touches(paused, marked, c) /\ marked.call[c] = m /\ marked.calls = paused.calls
        /\ marked.current = paused.current /\ marked.ring = paused.ring
    BY <2>2, <2>4, StoreTouches
  <2> QED BY <2>2, <2>4, <2>5, TouchSubsides, SubsidesToned
<1> QED BY <1>2, <1>6, <1>7 DEF t

-----------------------------------------------------------------------------
\* An incoming call, and what the application does about it.
LEMMA AcceptTone ==
  ASSUME NEW s \in States, NEW c \in Calls, s.call[c].state \in Incoming,
         CallInv(s.call[c], s.ctx[c]), NEW q, Fine(s, q, c)
  PROVE  LET t == linphone_core_accept_call(s, c) IN t \in States /\ Subsides(s, t)
<1> DEFINE t == linphone_core_accept_call(s, c)
<1>1. /\ Spares(s, t, c) /\ Fine(t, q, c)
      /\ t.calls = s.calls /\ t.current = c /\ t.ring = FALSE
      /\ t.call[c].state \in {"Connected", "StreamsRunning"}
      /\ \A d \in Calls : d # c => t.call[d].state \in {s.call[d].state, "Pausing"}
  BY AcceptCallTalk
<1> HIDE DEF t
<1> QED BY <1>1 DEF Spares, Subsides, t

LEMMA TerminateTone ==
  ASSUME NEW s \in States, NEW c \in Calls, s.call[c].state \notin Ended, s.call[c].op
  PROVE  LET t == linphone_core_terminate_call(s, c) IN t \in States /\ Subsides(s, t)
<1> DEFINE t == linphone_core_terminate_call(s, c)
           d == Dropped(s, c, "End")
<1>1. "End" \in Ended BY DEF Ended
<1>2. Spares(s, d, c) /\ Gone(s, d, c, "End") BY <1>1, DroppedTalk
<1>3. t = d BY TerminateDrops
<1> HIDE DEF t, d
<1> QED BY <1>1, <1>2, <1>3, GoneSubsides DEF Spares, t

LEMMA HeardTone ==
  ASSUME NEW s \in States, NEW c \in Calls, s.call[c].state = "IncomingReceived"
  PROVE  LET early == linphone_call_set_state(s, c, "IncomingEarlyMedia")
             t == linphone_core_update_streams(early, c, early.call[c].result) IN
         t \in States /\ Subsides(s, t)
<1> DEFINE k == s.call[c]
           early == linphone_call_set_state(s, c, "IncomingEarlyMedia")
           j == [k EXCEPT !.state = "IncomingEarlyMedia"]
           md == early.call[c].result
           t == linphone_core_update_streams(early, c, md)
<1>1. k \in CallRecords BY StateFields
<1>2. Touches(s, early, c) /\ early.call[c] = j
  <2>1. "IncomingEarlyMedia" \in Live BY DEF Live, Incoming
  <2>2. s.call[c].state \notin Ended BY DEF Ended
  <2> QED BY <2>1, <2>2, SetStateTouches
<1> HIDE DEF early
<1>3. j \in CallRecords /\ j.state = "IncomingEarlyMedia"
  BY <1>1 DEF CallRecords, CallStates, Live, Incoming
<1> HIDE DEF j
<1>4. md \in Descriptions /\ early \in States BY <1>2, <1>3 DEF CallRecords, Touches
<1>5. /\ Touches(early, t, c) /\ t.ring = FALSE
      /\ t.call[c] = WithStreams(early.call[c], md)
  BY <1>4, UpdateStreamsTouches
<1>6. WithStreams(j, md).state = j.state BY <1>3, <1>4, WithStreamsRecord
<1> HIDE DEF t, md
<1>7. Touches(s, t, c) /\ t.call[c].state # "OutgoingInit"
  BY <1>2, <1>3, <1>5, <1>6, TouchesTwice
<1>8. Subsides(s, t) BY <1>5, <1>7, MuteSubsides
<1>9. t \in States BY <1>7 DEF Touches
<1> QED BY <1>8, <1>9 DEF t, md, early

LEMMA WantedTone ==
  ASSUME NEW s \in States, NEW c \in Calls, s.call[c].state = "IncomingReceived",
         s.call[c].op, s.call[c].did, CallInv(s.call[c], s.ctx[c]), NEW q, Fine(s, q, c),
         NEW reaction \in {"none", "accept", "terminate"}
  PROVE  LET received == Notified(s, c, reaction)
             early == linphone_call_set_state(received, c, "IncomingEarlyMedia")
             heard == linphone_core_update_streams(early, c, early.call[c].result) IN
         /\ Subsides(s, received)
         /\ received.call[c].state = "IncomingReceived" => Subsides(s, heard)
<1> DEFINE received == Notified(s, c, reaction)
           early == linphone_call_set_state(received, c, "IncomingEarlyMedia")
           heard == linphone_core_update_streams(early, c, early.call[c].result)
           accepted == linphone_core_accept_call(s, c)
           ended == linphone_core_terminate_call(s, c)
<1>1. received \in States /\ Subsides(s, received)
  <2>1. CASE reaction = "accept"
    <3>1. received = accepted BY <2>1 DEF Notified
    <3>2. accepted \in States /\ Subsides(s, accepted) BY AcceptTone DEF Incoming
    <3> HIDE DEF accepted, received
    <3> QED BY <3>1, <3>2
  <2>2. CASE reaction = "terminate"
    <3>1. received = ended BY <2>2 DEF Notified
    <3>2. ended \in States /\ Subsides(s, ended) BY TerminateTone DEF Ended
    <3> HIDE DEF ended, received
    <3> QED BY <3>1, <3>2
  <2>3. CASE reaction = "none"
    <3>1. received = s BY <2>3 DEF Notified
    <3> QED BY <3>1, SameSubsides
  <2> QED BY <2>1, <2>2, <2>3
<1> HIDE DEF received
<1>2. ASSUME received.call[c].state = "IncomingReceived" PROVE Subsides(s, heard)
  <2>1. Subsides(received, heard) BY <1>1, <1>2, HeardTone
  <2> HIDE DEF heard
  <2> QED BY <1>1, <2>1, SubsidesTwice
<1> QED BY <1>1, <1>2 DEF received

LEMMA ReceivedTone ==
  ASSUME NEW s \in States, Toned(s), NEW c \in Calls, NEW p, NEW q,
         Arrives(s, p, q, c, "INVITE"), s.call[c].state = "Idle", c \notin s.calls,
         s.ctx[c].stage \in {"incoming", "refused", "failed", "released"},
         NEW md \in Descriptions, NEW refuse \in {"no", "moved", "busy"},
         NEW reaction \in {"none", "accept", "terminate"}
  PROVE  Toned(call_received(s, c, md, refuse, reaction))
<1> DEFINE x == s.ctx[c]
           made == linphone_call_new_incoming(s, c, md)
           k == made.call[c]
           declined == Signal(s, c, eXosip_call_refuse(s.ctx[c]))
           refused == Signal(made, c, eXosip_call_refuse(made.ctx[c]))
           unwanted == Store(refused, c, NewCall)
           only == s.calls = {}
           added == [made EXCEPT !.calls = @ \cup {c},
                                 !.current = IF only THEN c ELSE @,
                                 !.ring = @ \/ only]
           ringing == linphone_call_set_state(added, c, "IncomingReceived")
           received == Notified(ringing, c, reaction)
           early == linphone_call_set_state(received, c, "IncomingEarlyMedia")
           heard == linphone_core_update_streams(early, c, early.call[c].result)
           t == call_received(s, c, md, refuse, reaction)
           wanted == linphone_core_can_we_add_call(s) /\ ~already_a_call_pending(s)
           sounding == received.call[c].state = "IncomingReceived" /\ "earlymedia" \in Features
<1>1. t = CASE refuse = "moved" -> s
            [] refuse = "busy" -> declined
            [] refuse = "no" /\ ~wanted -> declined
            [] refuse = "no" /\ wanted ->
                 IF made.call[c].result = "Empty" THEN unwanted
                 ELSE IF sounding THEN heard ELSE received
  BY DEF call_received
<1>2. Fine(s, q, c) BY IgnoredTalk
<1>3. Toned(declined)
  <2> DEFINE y == eXosip_call_refuse(s.ctx[c])
  <2>1. y \in Contexts BY StateFields, EndingContext
  <2> HIDE DEF y
  <2>2. /\ Touches(s, declined, c) /\ declined.call = s.call /\ declined.calls = s.calls
        /\ declined.current = s.current /\ declined.ring = s.ring
    BY <2>1, SignalTouches DEF y
  <2> HIDE DEF declined
  <2> QED BY <2>2, SameSubsides, SubsidesToned
<1>4. /\ Touches(s, made, c) /\ made \in States /\ made.ctx = s.ctx
      /\ made.calls = s.calls /\ made.current = s.current /\ made.ring = s.ring
      /\ k \in CallRecords /\ k.state = "Idle" /\ k.op /\ ~k.terminated /\ k.did /\ ~k.srtp
      /\ k.local = "SendRecv" /\ (k.result = "None" => k.remote = "None")
      /\ k.media = "none"
  BY NewIncomingTalk
<1> HIDE DEF declined, made
<1>5. Toned(unwanted)
  <2> DEFINE y == eXosip_call_refuse(made.ctx[c])
  <2>1. y \in Contexts BY <1>4, StateFields, EndingContext
  <2> HIDE DEF y
  <2>2. /\ Touches(made, refused, c) /\ refused.call = made.call /\ refused.calls = made.calls
        /\ refused.current = made.current /\ refused.ring = made.ring
    BY <1>4, <2>1, SignalTouches DEF y
  <2> HIDE DEF refused
  <2>3. refused \in States /\ NewCall.state = "Idle" BY <2>2 DEF Touches, NewCall
  <2>4. /\ Touches(refused, unwanted, c) /\ unwanted.call[c] = NewCall
        /\ unwanted.calls = refused.calls /\ unwanted.current = refused.current
        /\ unwanted.ring = refused.ring
    BY <2>3, NewCallTyped, StoreTouches
  <2> HIDE DEF unwanted
  <2>5. Touches(s, unwanted, c) BY <1>4, <2>2, <2>4, TouchesTwice
  <2> QED BY <1>4, <2>2, <2>3, <2>4, <2>5, TouchSubsides, SubsidesToned
<1>6. ASSUME k.result # "Empty"
      PROVE  Toned(received) /\ (received.call[c].state = "IncomingReceived" => Toned(heard))
  <2> DEFINE n == IF only THEN c ELSE made.current
             b == made.ring \/ only
             a == made.calls \cup {c}
             l == [k EXCEPT !.state = "IncomingReceived"]
  <2>1. added = [made EXCEPT !.calls = a, !.current = n, !.ring = b] OBVIOUS
  <2>2. /\ made.ring \in BOOLEAN /\ made.current \in Calls \cup {NoCall}
        /\ made.calls \in SUBSET Calls
    BY <1>4, StateFields
  <2>3. /\ n \in Calls \cup {NoCall} /\ b \in BOOLEAN /\ a \in SUBSET Calls
        /\ n = (IF only THEN c ELSE s.current) /\ a = s.calls \cup {c}
        /\ b => s.ring \/ only
    BY <1>4, <2>2
  <2> HIDE DEF n, b, a
  <2>4. /\ added \in States /\ added.call = made.call /\ added.ctx = made.ctx
        /\ added.calls = a /\ added.current = n /\ added.ring = b
    BY <1>4, <2>1, <2>3 DEF States
  <2> HIDE DEF added
  <2>5. /\ Touches(added, ringing, c) /\ ringing.ctx = added.ctx /\ ringing.call[c] = l
        /\ ringing.calls = a /\ ringing.current = n /\ ringing.ring = b
    <3>1. "IncomingReceived" \in Live BY DEF Live, Incoming
    <3>2. added.call[c].state \notin Ended BY <1>4, <2>4 DEF Ended
    <3> QED BY <2>4, <3>1, <3>2, SetStateTouches
  <2> HIDE DEF ringing
  <2>6. ringing \in States BY <2>5 DEF Touches
  <2>7. ringing.call[c] = l /\ ringing.ctx[c] = x
    BY <1>4, <2>4, <2>5
  <2>8. /\ l.state = "IncomingReceived" /\ l.did /\ l.op /\ ~l.terminated /\ ~l.srtp
        /\ l.local = "SendRecv" /\ l.result = k.result /\ l.remote = k.remote
    <3> HIDE DEF k
    <3> QED BY <1>4 DEF CallRecords
  <2>9. x.stage \in {"incoming", "refused", "failed", "released"} /\ TalkOf(s.call[c], x, q, c)
    BY <1>2 DEF Fine
  <2>10. TalkOf(l, x, q, c) /\ CallInv(l, x)
    <3>1. k.result # "Empty" /\ (k.result = "None" => k.remote = "None") BY <1>4, <1>6
    <3>2. l.result # "Empty" /\ (l.result = "None" => l.remote = "None") BY <2>8, <3>1
    <3>3. s.call[c].state = "Idle" OBVIOUS
    <3> HIDE DEF l, x
    <3>4. TalkOf(l, x, q, c) BY <2>8, <2>9, <3>2, <3>3, IncomingRecord DEF Incoming
    <3>5. CallInv(l, x) BY <2>8, <2>9 DEF CallInv, Live, Incoming, Ended
    <3> QED BY <3>4, <3>5
  <2>11. \A d \in Calls : d # c => ringing.call[d].state = s.call[d].state
    BY <1>4, <2>4, <2>5 DEF Touches
  <2>12. Toned(ringing)
    <3>1. c \in ringing.calls /\ ringing.call[c].state \in Waiting
      BY <2>3, <2>5, <2>8 DEF Waiting
    <3>2. Rings(ringing) BY <3>1 DEF Rings
    <3>3. Undialled(s) BY DEF Toned
    <3>4. ringing.call[c].state # "OutgoingInit" BY <2>7, <2>8
    <3>5. Undialled(ringing) BY <2>11, <3>3, <3>4 DEF Undialled
    <3> QED BY <3>2, <3>5 DEF Toned
  <2>13. /\ ringing.call[c].state = "IncomingReceived" /\ ringing.call[c].op
         /\ ringing.call[c].did /\ CallInv(ringing.call[c], ringing.ctx[c])
         /\ Fine(ringing, q, c)
    BY <2>7, <2>8, <2>10 DEF Fine
  <2>14. /\ Subsides(ringing, received)
         /\ received.call[c].state = "IncomingReceived" => Subsides(ringing, heard)
    <3> HIDE DEF x, l
    <3> QED BY <2>6, <2>13, WantedTone
  <2> HIDE DEF received, heard
  <2> QED BY <2>6, <2>12, <2>14, SubsidesToned
<1> HIDE DEF t, received, heard, wanted, unwanted
<1> QED
  <2>1. CASE refuse = "no" /\ wanted BY <1>1, <1>5, <1>6, <2>1 DEF k, sounding, t
  <2>2. CASE refuse = "no" /\ ~wanted BY <1>1, <1>3, <2>2 DEF t
  <2>3. CASE refuse = "moved" BY <1>1, <2>3 DEF t
  <2>4. CASE refuse = "busy" BY <1>1, <1>3, <2>4 DEF t
  <2> QED BY <2>1, <2>2, <2>3, <2>4

\* The INVITE of a call is declined with a redirection.
LEMMA RedirectTone ==
  ASSUME NEW s \in States, NEW c \in Calls
  PROVE  LET declined == Quiet(Signal(s, c, eXosip_call_refuse(s.ctx[c])))
             t == linphone_call_set_state(linphone_call_stop_media_streams(declined, c), c, "End")
         IN Subsides(s, t)
<1> DEFINE y == eXosip_call_refuse(s.ctx[c])
           a == Signal(s, c, y)
           d == Quiet(a)
           u == linphone_call_stop_media_streams(d, c)
           t == linphone_call_set_state(u, c, "End")
<1>1. y \in Contexts BY StateFields, EndingContext
<1> HIDE DEF y
<1>2. a \in States /\ Touches(s, a, c) /\ a.call = s.call BY <1>1, SignalTouches DEF Touches
<1> HIDE DEF a
<1>3. d \in States /\ d.call = s.call /\ d.ring = FALSE BY <1>2, QuietTouches
<1> HIDE DEF d
<1>4. /\ Touches(d, u, c) /\ u.call[c] = [d.call[c] EXCEPT !.media = "none"] /\ u.ring = FALSE
  BY <1>3, StopMediaTouches
<1> HIDE DEF u
<1>5. u \in States /\ d.call[c] \in CallRecords BY <1>3, <1>4, StateFields DEF Touches
<1>6. u.call[c].state = d.call[c].state BY <1>4, <1>5 DEF CallRecords
<1>7. Subsides(d, u) BY <1>4, <1>6, MuteSubsides
<1>8. Subsides(s, d) BY <1>3 DEF Subsides
<1>9. Subsides(u, t)
  <2>1. "End" \in Ended BY DEF Ended
  <2> QED BY <1>4, <1>5, <2>1, EndSubsides
<1> HIDE DEF t
<1> QED BY <1>7, <1>8, <1>9, SubsidesTwice DEF t, u, d, a, y

-----------------------------------------------------------------------------
(***************************************************************************)
(* The steps.  An INVITE that cannot be sent ends its call without a word  *)
(* about the tone.  When it is sent at once, that call is new and the tone *)
(* is not its; after a ping it may be the one that the tone played for.    *)
(***************************************************************************)

LEMMA ApplicationTone ==
  ASSUME ~({"ping", "sendfailure"} \subseteq Features), IndInv, TalkInv, Toned(Now),
         NEW c \in Calls, Application(c)
  PROVE  Toned(Now')
<1>1. /\ Now \in States
      /\ Now.call = call /\ Now.calls = calls /\ Now.ctx = ctx /\ Now.evq = evq
  BY CountedNow DEF Counted, Now
<1>2. /\ CallInv(call[c], ctx[c])
      /\ c \in calls => call[c].op /\ call[c].state \in Live
  BY TypedNow
<1>3. Fine(Now, evq, c) BY <1>1 DEF TalkInv, Fine
<1>4. ASSUME NEW t, Becomes(t), Toned(t) PROVE Toned(Now')
  BY <1>4, BecomesTone
<1>5. ASSUME NEW t, Becomes(t), Subsides(Now, t) PROVE Toned(Now')
  BY <1>1, <1>4, <1>5, SubsidesToned
<1>6. CASE PingOver(c)
  <2>1. PICK sent \in BOOLEAN : /\ ~sent => "sendfailure" \in Features
                                /\ Becomes(linphone_core_start_invite(Now, c, sent))
    BY <1>6 DEF PingOver
  <2> DEFINE t == linphone_core_start_invite(Now, c, sent)
  <2>2. call[c].state = "OutgoingInit" BY <1>6 DEF PingOver
  <2>3. Becomes(t) BY <2>1
  <2>4. sent BY <1>1, <2>1, <2>2 DEF Toned, Undialled
  <2>5. /\ t.call[c].state = "OutgoingProgress" /\ t.calls = Now.calls
        /\ t.current = Now.current /\ t.ring = Now.ring
        /\ \A d \in Calls : d # c => t.call[d].state = Now.call[d].state
    <3> DEFINE s == Now
    <3>1. s \in States /\ s.call[c].state = "OutgoingInit" BY <1>1, <2>2
    <3> HIDE DEF s
    <3>2. linphone_core_start_invite(s, c, sent).ring = s.ring BY <3>1, StartInviteTalk
    <3>3. /\ linphone_core_start_invite(s, c, sent).call[c].state = "OutgoingProgress"
          /\ linphone_core_start_invite(s, c, sent).calls = s.calls
          /\ linphone_core_start_invite(s, c, sent).current = s.current
      BY <2>4, <3>1, StartInviteTalk
    <3>4. \A d \in Calls : d # c =>
            linphone_core_start_invite(s, c, sent).call[d].state = s.call[d].state
      BY <3>1, StartInviteTalk
    <3> QED BY <3>2, <3>3, <3>4 DEF s
  <2> HIDE DEF t
  <2>6. Subsides(Now, t) BY <1>1, <2>2, <2>5 DEF Subsides, Waiting
  <2> QED BY <1>5, <2>3, <2>6
<1>7. CASE Accept(c)
  <2> DEFINE t == linphone_core_accept_call(Now, c)
  <2>1. Becomes(t) /\ call[c].state \in Incoming BY <1>7 DEF Accept
  <2>2. Subsides(Now, t) BY <1>1, <1>2, <1>3, <2>1, AcceptTone
  <2> HIDE DEF t
  <2> QED BY <1>5, <2>1, <2>2
<1>8. CASE Terminate(c)
  <2> DEFINE t == linphone_core_terminate_call(Now, c)
  <2>1. Becomes(t) /\ c \in calls BY <1>8 DEF Terminate
  <2>2. call[c].state \in Live /\ call[c].op BY <1>2, <2>1
  <2>3. call[c].state \notin Ended BY <2>2 DEF Live, Outgoing, Incoming, Ended
  <2>4. Subsides(Now, t) BY <1>1, <2>2, <2>3, TerminateTone
  <2> HIDE DEF t
  <2> QED BY <1>5, <2>1, <2>4
<1>9. CASE linphone_core_redirect_call(c)
  <2> DEFINE declined == Quiet(Signal(Now, c, eXosip_call_refuse(Now.ctx[c])))
             t == linphone_call_set_state(linphone_call_stop_media_streams(declined, c),
                                          c, "End")
  <2>1. Becomes(t) BY <1>1, <1>9 DEF linphone_core_redirect_call
  <2>2. Subsides(Now, t) BY <1>1, RedirectTone
  <2> HIDE DEF t
  <2> QED BY <1>5, <2>1, <2>2
<1>10. CASE Pause(c)
  <2> DEFINE t == linphone_core_pause_call(Now, c)
  <2>1. Becomes(t) BY <1>10 DEF Pause
  <2>2. Pauses(Now, t, c) BY <1>1, PauseSpares
  <2> HIDE DEF t
  <2> QED BY <1>5, <2>1, <2>2, PausesSubside
<1>11. CASE Resume(c)
  <2> DEFINE t == linphone_core_resume_call(Now, c)
  <2>1. Becomes(t) BY <1>11 DEF Resume
  <2>2. Subsides(Now, t) BY <1>1, ResumeSubsides
  <2> HIDE DEF t
  <2> QED BY <1>5, <2>1, <2>2
<1>12. CASE Update(c)
  <2> DEFINE local == SetLocal(Now, c, "SendRecv")
             t == sal_call_update(local, c)
  <2>1. Becomes(t) BY <1>12 DEF Update
  <2>2. "SendRecv" \in Dirs BY DEF Dirs
  <2>3. /\ Touches(Now, local, c)
        /\ local.call[c] = [Now.call[c] EXCEPT !.local = "SendRecv"]
        /\ local.calls = Now.calls /\ local.current = Now.current /\ local.ring = Now.ring
    BY <1>1, <2>2, SetLocalTouches
  <2>4. local \in States BY <2>3 DEF Touches
  <2> HIDE DEF local
  <2>5. /\ t.call = local.call
        /\ t.calls = local.calls /\ t.current = local.current /\ t.ring = local.ring
    BY <2>4, CallUpdateTouches
  <2> HIDE DEF t
  <2>6. Now.call[c] \in CallRecords BY <1>1, StateFields
  <2>7. local.call[c].state = Now.call[c].state BY <2>3, <2>6 DEF CallRecords
  <2>8. Subsides(Now, local) BY <2>3, <2>7, TouchSubsides
  <2>9. Subsides(local, t) BY <2>5, SameSubsides
  <2> QED BY <1>5, <2>1, <2>8, <2>9, SubsidesTwice
<1>13. CASE AcceptUpdate(c)
  <2> DEFINE t == linphone_core_accept_call_update(Now, c)
  <2>1. Becomes(t) BY <1>13 DEF AcceptUpdate
  <2>2. Follows(Now, t, c) BY <1>1, AcceptCallUpdateFollows
  <2> HIDE DEF t
  <2> QED BY <1>5, <2>1, <2>2, FollowsSubsides
<1> QED BY <1>6, <1>7, <1>8, <1>9, <1>10, <1>11, <1>12, <1>13 DEF Application

LEMMA InviteStepTone ==
  ASSUME ~({"ping", "sendfailure"} \subseteq Features), IndInv, Toned(Now), Invite
  PROVE  Toned(Now')
<1>1. Now \in States /\ Now.calls = calls /\ Now.call = call BY TypedNow DEF Now
<1>2. NextCall \in Calls /\ Fresh(Now, NextCall) BY NextCallFresh DEF Invite
<1>3. PICK ping \in BOOLEAN, sent \in BOOLEAN :
        /\ ping => "ping" \in Features
        /\ Becomes(linphone_core_invite_address_with_params(Now, NextCall, NoCall, ping, sent))
  BY DEF Invite
<1> DEFINE n == NextCall
           r == NoCall
           s == Now
           t == linphone_core_invite_address_with_params(s, n, r, ping, sent)
<1>4. /\ r \in Calls \cup {NoCall} /\ r # n /\ n \in Calls /\ s \in States /\ Toned(s)
  BY <1>1, <1>2, NoCallIsNone
<1>5. n \notin s.calls
  <2>1. call[n].state = "Idle" BY <1>1, <1>2 DEF Fresh
  <2>2. "Idle" \notin Live BY DEF Live, Outgoing, Incoming
  <2> QED BY <1>1, <1>2, <2>1, <2>2, TypedNow
<1>6. Becomes(t) BY <1>3
<1> HIDE DEF n, r, s
<1>7. Toned(t) BY <1>3, <1>4, <1>5, InviteTone
<1> HIDE DEF t
<1> QED BY <1>6, <1>7, BecomesTone

LEMMA IterateTone ==
  ASSUME "srtp" \notin Features, IndInv, TalkInv, Toned(Now), Iterate
  PROVE  Toned(Now')
<1> DEFINE e == Head(evq)
           c == e.cid
           n == NextCall
           q == Tail(evq)
<1>1. evq # << >> BY DEF Iterate, HandleInvite, HandleProceeding, HandleRinging,
        HandleAnswered, HandleFailure, HandleClosed, HandleReinvite, HandleAck,
        HandleRefer, HandleReleased, Next1
<1>2. /\ Popped \in States /\ Popped.call = call /\ Popped.ctx = ctx /\ Popped.calls = calls
      /\ Popped.current = current /\ Popped.ring = ring
  BY <1>1, CountedNow DEF Counted, Popped, Now
<1>3. Toned(Popped) BY <1>2 DEF Toned, Rings, Undialled, Now
<1>4. /\ e \in Events /\ c \in Calls /\ EventInv(e, call[c], ctx[c])
  BY <1>1, HeadInd
<1>5. e.type # "FAILURE" => e.arg \in Descriptions BY <1>4 DEF Events
<1>6. \A d \in Calls : d \in calls <=> call[d].state \in Live BY TypedNow
<1>7. n \in Calls \cup {NoCall} /\ (n # NoCall => n # c /\ n \notin Popped.calls)
  <2>1. n \in Calls \cup {NoCall} /\ (n # NoCall => Fresh(Popped, n)) BY NextCallFresh
  <2>2. "Idle" \notin Live BY DEF Live, Outgoing, Incoming
  <2>3. ctx[c].stage # "none" BY <1>1, HeadInd
  <2> HIDE DEF n, c
  <2> QED BY <1>2, <1>6, <2>1, <2>2, <2>3 DEF Fresh
<1>8. Arrives(Popped, evq, q, c, e.type) BY <1>1, HeadArrives
<1>9. CallInv(call[c], ctx[c]) BY <1>4, TypedNow
<1> HIDE DEF n, e, c, q
<1>20. ASSUME NEW t, Becomes(t), Toned(t) PROVE Toned(Now') BY <1>20, BecomesTone
<1>21. ASSUME NEW t, Becomes(t), Subsides(Popped, t) PROVE Toned(Now')
  BY <1>2, <1>3, <1>20, <1>21, SubsidesToned
<1>10. CASE HandleInvite
  <2>1. e.type = "INVITE" BY <1>10 DEF HandleInvite, Next1, e
  <2>2. PICK refuse \in {"no", "moved", "busy"}, reaction \in {"none", "accept", "terminate"} :
          Becomes(call_received(Popped, c, e.arg, refuse, reaction))
    BY <1>10 DEF HandleInvite, e, c
  <2> DEFINE t == call_received(Popped, c, e.arg, refuse, reaction)
  <2>3. Becomes(t) BY <2>2
  <2>4. /\ Popped.call[c].state = "Idle" /\ c \notin Popped.calls
        /\ Popped.ctx[c].stage \in {"incoming", "refused", "failed", "released"}
    <3>1. "Idle" \notin Live BY DEF Live, Outgoing, Incoming
    <3> QED BY <1>2, <1>4, <1>6, <2>1, <3>1 DEF EventInv
  <2>5. Toned(t) BY <1>2, <1>3, <1>4, <1>5, <1>8, <2>1, <2>4, ReceivedTone
  <2> HIDE DEF t
  <2> QED BY <1>20, <2>3, <2>5
<1>11. CASE HandleProceeding
  <2> DEFINE t == sal_call_proceeding(Popped, c)
  <2>1. Becomes(t) BY <1>11 DEF HandleProceeding, e, c
  <2>2. Subsides(Popped, Popped) BY SameSubsides
  <2>3. Subsides(Popped, t) BY <1>2, <1>4, <2>2, HangupTone DEF sal_call_proceeding
  <2> HIDE DEF t
  <2> QED BY <1>21, <2>1, <2>3
<1>12. CASE HandleRinging
  <2>1. e.type = "RINGING" BY <1>12 DEF HandleRinging, Next1, e
  <2> DEFINE t == sal_call_ringing(Popped, c, e.arg)
  <2>2. Becomes(t) BY <1>12 DEF HandleRinging, e, c
  <2>3. Toned(t) BY <1>2, <1>3, <1>4, <1>5, <1>6, <1>8, <2>1, RingingTone
  <2> HIDE DEF t
  <2> QED BY <1>20, <2>2, <2>3
<1>13. CASE HandleAnswered
  <2>1. e.type = "ANSWERED" BY <1>13 DEF HandleAnswered, Next1, e
  <2> DEFINE t == sal_call_accepted(Popped, c, e.arg, n)
  <2>2. Becomes(t) BY <1>13 DEF HandleAnswered, e, c, n
  <2>3. Toned(t) BY <1>2, <1>3, <1>4, <1>5, <1>7, <1>8, <2>1, AcceptedTone
  <2> HIDE DEF t
  <2> QED BY <1>20, <2>2, <2>3
<1>14. CASE HandleFailure
  <2> DEFINE t == sal_call_failure(Popped, c, e.arg)
  <2>1. Becomes(t) BY <1>14 DEF HandleFailure, e, c
  <2>2. Subsides(Popped, t) BY <1>2, <1>4, <1>9, FailureTone
  <2> HIDE DEF t
  <2> QED BY <1>21, <2>1, <2>2
<1>15. CASE HandleClosed
  <2> DEFINE t == sal_call_terminated(Popped, c)
  <2>1. Becomes(t) BY <1>15 DEF HandleClosed, e, c
  <2>2. Toned(t) BY <1>2, <1>3, <1>4, TerminatedTone
  <2> HIDE DEF t
  <2> QED BY <1>20, <2>1, <2>2
<1>16. CASE HandleReinvite
  <2>1. e.type = "REINVITE" BY <1>16 DEF HandleReinvite, Next1, e
  <2>2. PICK reaction \in {"accept", "defer"} :
          Becomes(handle_reinvite(Popped, c, e.arg, reaction))
    BY <1>16 DEF HandleReinvite, e, c
  <2> DEFINE t == handle_reinvite(Popped, c, e.arg, reaction)
  <2>3. Becomes(t) BY <2>2
  <2>4. Follows(Popped, t, c)
    BY <1>2, <1>4, <1>5, <1>8, <2>1, ReinvitedCallTalk DEF EventInv
  <2> HIDE DEF t
  <2> QED BY <1>21, <2>3, <2>4, FollowsSubsides
<1>17. CASE HandleAck
  <2>1. e.type = "ACK" BY <1>17 DEF HandleAck, Next1, e
  <2> DEFINE t == handle_ack(Popped, c, e.arg)
  <2>2. Becomes(t) BY <1>17 DEF HandleAck, e, c
  <2>3. Subsides(Popped, t) BY <1>2, <1>4, <1>5, <1>8, <2>1, AckTone
  <2> HIDE DEF t
  <2> QED BY <1>21, <2>2, <2>3
<1>18. CASE HandleRefer
  <2> DEFINE t == refer_received(Popped, c, n)
  <2>1. Becomes(t) BY <1>18 DEF HandleRefer, e, c, n
  <2>2. Toned(t) BY <1>2, <1>3, <1>4, <1>7, ReferTone
  <2> HIDE DEF t
  <2> QED BY <1>20, <2>1, <2>2
<1>19. CASE HandleReleased
  <2>1. e.type = "RELEASED" BY <1>19 DEF HandleReleased, Next1, e
  <2> DEFINE t == call_released(Popped, c)
  <2>2. Becomes(t) BY <1>19 DEF HandleReleased, e, c
  <2>3. Subsides(Popped, t) BY <1>2, <1>4, <1>8, <2>1, ReleasedTone
  <2> HIDE DEF t
  <2> QED BY <1>21, <2>2, <2>3
<1> QED BY <1>10, <1>11, <1>12, <1>13, <1>14, <1>15, <1>16, <1>17, <1>18, <1>19 DEF Iterate

\* The eXosip thread touches neither the calls nor the tone.
LEMMA NextTone ==
  ASSUME "srtp" \notin Features, ~({"ping", "sendfailure"} \subseteq Features),
         IndInv, TalkInv, Toned(Now), [Next]_vars
  PROVE  Toned(Now')
<1>1. CASE Invite BY <1>1, InviteStepTone
<1>2. CASE Iterate BY <1>2, IterateTone
<1>3. ASSUME UNCHANGED <<calls, current, ring, call>> PROVE Toned(Now')
  BY <1>3 DEF Toned, Rings, Undialled, Now
<1>4. CASE \E md \in Offers : PeerInvite(md) BY <1>3, <1>4 DEF PeerInvite, Report
<1>5. ASSUME NEW c \in Calls,
             Application(c) \/ Peer(c) \/ RefusalSent(c) \/ NoAnswer(c) \/ Release(c)
      PROVE  Toned(Now')
  <2>1. CASE Application(c) BY <2>1, ApplicationTone
  <2>2. CASE RefusalSent(c) \/ NoAnswer(c) \/ Release(c)
    BY <1>3, <2>2 DEF RefusalSent, NoAnswer, Release, Report, Move
  <2>3. CASE Peer(c)
    BY <1>3, <2>3 DEF Peer, PeerTrying, PeerRinging, PeerAnswer, PeerRefuse, PeerCancel,
       PeerBye, PeerReinvite, PeerAcceptReinvite, PeerRefuseReinvite, PeerAck, PeerRefer,
       Report, Move
  <2> QED BY <1>5, <2>1, <2>2, <2>3
<1>6. CASE UNCHANGED vars BY <1>3, <1>6 DEF vars
<1> QED BY <1>1, <1>2, <1>4, <1>5, <1>6 DEF Next

\* The tone that all calls share is never left on: while it plays there are
\* calls, and if one is current some call waits for its answer.  With pings and
\* sends that fail together this is false for three calls.
THEOREM ToneIsForSomeone ==
  ASSUME "srtp" \notin Features, ~({"ping", "sendfailure"} \subseteq Features)
  PROVE  Spec => []RingIsForSomeone
<1>1. Init => Toned(Now)
  BY DEF Init, Toned, Rings, Undialled, Now, NewCall
<1>2. IndInv /\ TalkInv /\ Toned(Now) /\ [Next]_vars => Toned(Now)'
  <2>1. IndInv /\ TalkInv /\ Toned(Now) /\ [Next]_vars => Toned(Now') BY NextTone
  <2> QED BY <2>1
<1>3. Toned(Now) => RingIsForSomeone
  BY DEF Toned, Rings, Waiting, Now, RingIsForSomeone
<1> QED BY <1>1, <1>2, <1>3, WholeInvariance, TalkInvariance, PTL DEF Spec
=============================================================================
