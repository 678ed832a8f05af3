------------------------- MODULE CallControlProofs -------------------------
(***************************************************************************)
(* The theorems about CallControl: the invariant of the calls' life, the   *)
(* properties that follow from it, and the refinement of CallLife.         *)
(*                                                                         *)
(* The lemmas first go through the operators.  Most only "ease" a state    *)
(* record: no call is opened or ended, the queue is left alone, and what   *)
(* changes in a single call cannot break the invariant.  Easing is         *)
(* transitive, so an operator that is a chain of such changes needs no     *)
(* further thought; what remains is proved once per way in which a call is *)
(* opened, answered, ended or released (WholeStep).                        *)
(*                                                                         *)
(* Each event handler keeps the invariant, and opens, ends or releases at  *)
(* most one call; then so does each action.                                *)
(*                                                                         *)
(* SRTP must be off for all but the typing lemmas: a call that is refused  *)
(* for its media after it rang stays in the list when it is released.      *)
(***************************************************************************)
EXTENDS CallControl, FiniteSetTheorems, TLAPS

\* LifeInv, of a state record.
Whole(s) ==
  /\ s \in States /\ ListInv(s) /\ QueueInv(s)
  /\ \A c \in Calls : CallInv(s.call[c], s.ctx[c])

\* The states whose calls the invariant says nothing more about.
Settled == Live \ (Incoming \cup {"OutgoingInit"})

\* The stage of a context goes from x to y; "free" says that its call is settled.
StageStep(x, y, free) ==
  \/ y = x
  \/ x = "incoming" /\ y = "refused"
  \/ x = "conf" /\ y = "closed"
  \/ free /\ x = "incoming" /\ y \in {"conf", "closed"}

\* The call d may move among the settled states and lose its SalOp.
Eased(s, t, d) ==
  /\ \/ t.call[d].state = s.call[d].state
     \/ t.call[d].state \in Settled /\ s.call[d].state \in Settled
  /\ t.call[d].op => s.call[d].op
  /\ t.call[d].terminated = s.call[d].terminated
  /\ t.call[d].srtp = s.call[d].srtp
  /\ StageStep(s.ctx[d].stage, t.ctx[d].stage, s.call[d].state \in Settled)

\* No call but c is affected beyond easing.
Near(s, t, c) ==
  /\ t \in States
  /\ t.evq = s.evq /\ t.calls = s.calls
  /\ t.current \in s.calls \cup {s.current, NoCall}
  /\ \A d \in Calls : d # c => Eased(s, t, d)

Eases(s, t) == Near(s, t, NoCall)

\* The call c is the only one that is opened, ended or released.
Moves(s, t, c) ==
  /\ \A d \in Calls : d # c => Eased(s, t, d)
  /\ \/ s.call[c].state = "Idle" /\ t.call[c].state = "Idle"
     \/ s.call[c].state = "Idle" /\ t.call[c].state \in Live \cup Ended
          /\ Cardinality(s.calls) < MaxCalls
     \/ s.call[c].state \in Live /\ t.call[c].state \in Live \cup Ended \cup {"Released"}
     \/ s.call[c].state \in Ended /\ t.call[c].state \in {s.call[c].state, "Released"}
     \/ s.call[c].state = "Released" /\ t.call[c].state = "Released"

\* What has to be shown of every handler and every API function.
Keeps(s, t) == Whole(t) /\ (Eases(s, t) \/ \E c \in Calls : Moves(s, t, c))

-----------------------------------------------------------------------------
(***************************************************************************)
(* Records                                                                 *)
(***************************************************************************)

\* The fields of a well-typed state record have their types.
LEMMA StateFields ==
  ASSUME NEW s \in States
  PROVE  /\ s.calls \subseteq Calls /\ s.current \in Calls \cup {NoCall}
         /\ s.ring \in BOOLEAN /\ s.friends \in {"presence_mode", "OnThePhone"}
         /\ s.call \in [Calls -> CallRecords] /\ s.ctx \in [Calls -> Contexts]
         /\ s.evq \in Seq(Events)
         /\ \A c \in Calls : s.call[c] \in CallRecords /\ s.ctx[c] \in Contexts
  BY DEF States

\* NULL is no call.
LEMMA NoCallIsNone == NoCall \notin Calls
  BY ConstantsAssumption DEF NoCall, Calls

\* Store changes the record of one call and nothing else.
LEMMA StoreTyped ==
  ASSUME NEW s \in States, NEW c \in Calls, NEW k \in CallRecords
  PROVE  /\ Store(s, c, k) \in States
         /\ Store(s, c, k).call[c] = k
         /\ \A d \in Calls : d # c => Store(s, c, k).call[d] = s.call[d]
         /\ Store(s, c, k).calls = s.calls /\ Store(s, c, k).current = s.current
         /\ Store(s, c, k).ctx = s.ctx /\ Store(s, c, k).evq = s.evq
  BY DEF States, Store

\* Signal changes the context of one call and nothing else.
LEMMA SignalTyped ==
  ASSUME NEW s \in States, NEW c \in Calls, NEW x \in Contexts
  PROVE  /\ Signal(s, c, x) \in States
         /\ Signal(s, c, x).ctx[c] = x
         /\ \A d \in Calls : d # c => Signal(s, c, x).ctx[d] = s.ctx[d]
         /\ Signal(s, c, x).calls = s.calls /\ Signal(s, c, x).current = s.current
         /\ Signal(s, c, x).call = s.call /\ Signal(s, c, x).evq = s.evq
  BY DEF States, Signal

-----------------------------------------------------------------------------
(***************************************************************************)
(* Easing                                                                  *)
(***************************************************************************)

LEMMA EasedTwice ==
  ASSUME NEW s, NEW t, NEW u, NEW d, Eased(s, t, d), Eased(t, u, d)
  PROVE  Eased(s, u, d)
  BY DEF Eased, StageStep

LEMMA NearTwice ==
  ASSUME NEW s, NEW t, NEW u, NEW c, Near(s, t, c), Near(t, u, c)
  PROVE  Near(s, u, c)
<1>1. \A d \in Calls : d # c => Eased(s, u, d) BY EasedTwice DEF Near
<1> QED BY <1>1 DEF Near

LEMMA NearSelf ==
  ASSUME NEW s \in States, NEW c
  PROVE  Near(s, s, c)
  BY DEF Near, Eased, StageStep

\* Easing is nearness to every call, and nearness with c eased is easing.
LEMMA EasesNear ==
  ASSUME NEW s, NEW t, Eases(s, t)
  PROVE  /\ \A c \in Calls : Near(s, t, c)
         /\ \A d \in Calls : Eased(s, t, d)
  BY NoCallIsNone DEF Eases, Near

LEMMA NearEases ==
  ASSUME NEW s, NEW t, NEW c \in Calls, Near(s, t, c), Eased(s, t, c)
  PROVE  Eases(s, t)
  BY DEF Eases, Near

LEMMA EasesTwice ==
  ASSUME NEW s, NEW t, NEW u, Eases(s, t), Eases(t, u)
  PROVE  Eases(s, u)
  BY NearTwice DEF Eases

LEMMA EasesSelf ==
  ASSUME NEW s \in States
  PROVE  Eases(s, s)
  BY NearSelf DEF Eases

\* A new record for one call.
LEMMA StoreNear ==
  ASSUME NEW s \in States, NEW c \in Calls, NEW k \in CallRecords
  PROVE  Near(s, Store(s, c, k), c)
<1>1. \A d \in Calls : d # c => Eased(s, Store(s, c, k), d)
  BY StoreTyped DEF Eased, StageStep
<1> QED BY <1>1, StoreTyped DEF Near

LEMMA StoreEases ==
  ASSUME NEW s \in States, NEW c \in Calls, NEW k \in CallRecords,
         k.state = s.call[c].state \/ (k.state \in Settled /\ s.call[c].state \in Settled),
         k.op => s.call[c].op,
         k.terminated = s.call[c].terminated, k.srtp = s.call[c].srtp
  PROVE  Eases(s, Store(s, c, k))
<1>1. Eased(s, Store(s, c, k), c) BY StoreTyped DEF Eased, StageStep
<1> QED BY <1>1, StoreNear, NearEases

\* A new context for one call.
LEMMA SignalNear ==
  ASSUME NEW s \in States, NEW c \in Calls, NEW x \in Contexts
  PROVE  Near(s, Signal(s, c, x), c)
<1>1. \A d \in Calls : d # c => Eased(s, Signal(s, c, x), d)
  BY SignalTyped DEF Eased, StageStep
<1> QED BY <1>1, SignalTyped DEF Near

LEMMA SignalEases ==
  ASSUME NEW s \in States, NEW c \in Calls, NEW x \in Contexts,
         StageStep(s.ctx[c].stage, x.stage, s.call[c].state \in Settled)
  PROVE  Eases(s, Signal(s, c, x))
<1>1. Eased(s, Signal(s, c, x), c) BY SignalTyped DEF Eased, StageStep
<1> QED BY <1>1, SignalNear, NearEases

\* The current call changes to a listed one or to none.
LEMMA CurrentEases ==
  ASSUME NEW s \in States, NEW n \in s.calls \cup {NoCall}
  PROVE  Eases(s, [s EXCEPT !.current = n])
<1> DEFINE t == [s EXCEPT !.current = n]
<1>1. /\ t \in States /\ t.evq = s.evq /\ t.calls = s.calls /\ t.current = n
      /\ t.call = s.call /\ t.ctx = s.ctx
  BY DEF States
<1> HIDE DEF t
<1>2. \A d \in Calls : Eased(s, t, d) BY <1>1 DEF Eased, StageStep
<1>3. Near(s, t, NoCall) BY <1>1, <1>2 DEF Near
<1> QED BY <1>3 DEF Eases, t

\* The tone starts or stops.
LEMMA RingEases ==
  ASSUME NEW s \in States, NEW b \in BOOLEAN
  PROVE  Eases(s, [s EXCEPT !.ring = b])
<1> DEFINE t == [s EXCEPT !.ring = b]
<1>1. /\ t \in States /\ t.evq = s.evq /\ t.calls = s.calls /\ t.current = s.current
      /\ t.call = s.call /\ t.ctx = s.ctx
  BY DEF States
<1> HIDE DEF t
<1>2. \A d \in Calls : Eased(s, t, d) BY <1>1 DEF Eased, StageStep
<1>3. Near(s, t, NoCall) BY <1>1, <1>2 DEF Near
<1> QED BY <1>3 DEF Eases, t

LEMMA QuietEases ==
  ASSUME NEW s \in States
  PROVE  Eases(s, Quiet(s))
  BY RingEases DEF Quiet

-----------------------------------------------------------------------------
(***************************************************************************)
(* The invariant                                                           *)
(***************************************************************************)

LEMMA ListedCardinality ==
  ASSUME NEW S, S \subseteq Calls, NEW c \in Calls
  PROVE  /\ Cardinality(S) \in Nat /\ Cardinality(S \ {c}) \in Nat
         /\ Cardinality(S \cup {c}) \in Nat
         /\ Cardinality(S \ {c}) <= Cardinality(S)
         /\ Cardinality(S \cup {c}) <= Cardinality(S) + 1
<1>1. IsFiniteSet(Calls) BY FS_Interval, ConstantsAssumption DEF Calls
<1>2. IsFiniteSet(S) BY <1>1, FS_Subset
<1>3. Cardinality(S) \in Nat BY <1>2, FS_CardinalityType
<1>4. Cardinality(S \ {c}) = IF c \in S THEN Cardinality(S) - 1 ELSE Cardinality(S)
  BY <1>2, FS_RemoveElement
<1>5. Cardinality(S \cup {c}) = IF c \in S THEN Cardinality(S) ELSE Cardinality(S) + 1
  BY <1>2, FS_AddElement
<1>6. Cardinality(S \ {c}) \in Nat /\ Cardinality(S \cup {c}) \in Nat
  BY <1>1, FS_Subset, FS_CardinalityType
<1> QED BY <1>3, <1>4, <1>5, <1>6

LEMMA EventCid ==
  ASSUME NEW s \in States, NEW i \in 1 .. Len(s.evq)
  PROVE  s.evq[i].cid \in Calls /\ s.evq[i] \in Events
  BY StateFields DEF Events

\* An eased call keeps what the invariant says of it and of its events.
LEMMA EasedInv ==
  ASSUME NEW s, NEW t, NEW d \in Calls, Eased(s, t, d)
  PROVE  /\ CallInv(s.call[d], s.ctx[d]) => CallInv(t.call[d], t.ctx[d])
         /\ \A e \in Events : EventInv(e, s.call[d], s.ctx[d]) => EventInv(e, t.call[d], t.ctx[d])
         /\ s.call[d].state \in Live <=> t.call[d].state \in Live
<1> USE DEF Eased, StageStep, Settled, Live, Ended, Incoming, Outgoing
<1>1. CallInv(s.call[d], s.ctx[d]) => CallInv(t.call[d], t.ctx[d]) BY DEF CallInv
<1>2. \A e \in Events : EventInv(e, s.call[d], s.ctx[d]) => EventInv(e, t.call[d], t.ctx[d])
  BY DEF EventInv
<1>3. s.call[d].state \in Live <=> t.call[d].state \in Live OBVIOUS
<1> QED BY <1>1, <1>2, <1>3

\* Every change of the invariant's state: all calls but c are eased.
LEMMA WholeStep ==
  ASSUME NEW s, Whole(s), NEW t \in States, NEW c \in Calls, t.evq = s.evq,
         \A d \in Calls : d # c => Eased(s, t, d),
         t.calls = IF t.call[c].state \in Live THEN s.calls \cup {c} ELSE s.calls \ {c},
         t.current \in t.calls \cup {NoCall},
         s.call[c].state \in Live \/ Cardinality(s.calls) < MaxCalls
           \/ t.call[c].state \notin Live,
         CallInv(t.call[c], t.ctx[c]),
         \A i \in 1 .. Len(s.evq) : s.evq[i].cid = c => EventInv(s.evq[i], t.call[c], t.ctx[c])
  PROVE  Whole(t)
<1>1. \A d \in Calls : CallInv(t.call[d], t.ctx[d]) BY EasedInv DEF Whole
<1>2. QueueInv(t)
  <2>1. \A i \in 1 .. Len(s.evq) : EventInv(s.evq[i], t.call[s.evq[i].cid], t.ctx[s.evq[i].cid])
    BY EasedInv, EventCid DEF Whole, QueueInv
  <2> QED BY <2>1 DEF Whole, QueueInv
<1>3. \A d \in Calls : d \in t.calls <=> t.call[d].state \in Live
  BY EasedInv DEF Whole, ListInv
<1>4. Cardinality(t.calls) <= MaxCalls
  <2>1. s.calls \subseteq Calls BY StateFields DEF Whole
  <2> DEFINE n == Cardinality(s.calls)
  <2>2. /\ n \in Nat /\ Cardinality(s.calls \ {c}) <= n
        /\ Cardinality(s.calls \cup {c}) <= n + 1
        /\ Cardinality(s.calls \ {c}) \in Nat /\ Cardinality(s.calls \cup {c}) \in Nat
    BY <2>1, ListedCardinality
  <2>3. c \in s.calls => Cardinality(s.calls \cup {c}) = n
    <3>1. c \in s.calls => s.calls \cup {c} = s.calls OBVIOUS
    <3> QED BY <3>1
  <2>4. n <= MaxCalls /\ MaxCalls \in Nat BY ConstantsAssumption DEF Whole, ListInv
  <2>5. c \in s.calls \/ n < MaxCalls \/ t.call[c].state \notin Live
    BY DEF Whole, ListInv
  <2> HIDE DEF n
  <2>6. CASE t.call[c].state \in Live
    <3>1. t.calls = s.calls \cup {c} BY <2>6
    <3> QED BY <2>2, <2>3, <2>4, <2>5, <2>6, <3>1
  <2>7. CASE t.call[c].state \notin Live
    <3>1. t.calls = s.calls \ {c} BY <2>7
    <3> QED BY <2>2, <2>4, <3>1
  <2> QED BY <2>6, <2>7
<1> QED BY <1>1, <1>2, <1>3, <1>4 DEF Whole, ListInv

LEMMA EasesWhole ==
  ASSUME NEW s, Whole(s), NEW t, Eases(s, t)
  PROVE  Whole(t) /\ Keeps(s, t)
<1>1. \A d \in Calls : Eased(s, t, d) BY EasesNear
<1>2. \A d \in Calls : CallInv(t.call[d], t.ctx[d]) BY <1>1, EasedInv DEF Whole
<1>3. QueueInv(t)
  <2>1. \A i \in 1 .. Len(s.evq) : EventInv(s.evq[i], t.call[s.evq[i].cid], t.ctx[s.evq[i].cid])
    BY <1>1, EasedInv, EventCid DEF Whole, QueueInv
  <2> QED BY <2>1 DEF Whole, QueueInv, Eases, Near
<1>4. ListInv(t) BY <1>1, EasedInv DEF Whole, ListInv, Eases, Near
<1> QED BY <1>2, <1>3, <1>4 DEF Whole, Eases, Near, Keeps

-----------------------------------------------------------------------------
(***************************************************************************)
(* The media and signalling operators                                      *)
(***************************************************************************)

\* Easing neither settles a call nor unsettles it.
LEMMA EasesState ==
  ASSUME NEW s, NEW t, Eases(s, t), NEW c \in Calls
  PROVE  /\ t \in States
         /\ t.call[c].state \in Settled <=> s.call[c].state \in Settled
         /\ s.call[c].state \notin Settled => t.call[c].state = s.call[c].state
<1>1. Eased(s, t, c) /\ Near(s, t, c) BY EasesNear
<1> QED BY <1>1 DEF Eased, Near

LEMMA StopMediaEases ==
  ASSUME NEW s \in States, NEW c \in Calls
  PROVE  Eases(s, linphone_call_stop_media_streams(s, c))
<1> DEFINE k == [s.call[c] EXCEPT !.media = "none"]
<1>1. s.call[c] \in CallRecords BY StateFields
<1>2. /\ k \in CallRecords /\ k.state = s.call[c].state /\ k.op = s.call[c].op
      /\ k.terminated = s.call[c].terminated /\ k.srtp = s.call[c].srtp
  BY <1>1 DEF CallRecords
<1> HIDE DEF k
<1>3. Eases(s, Store(s, c, k)) BY <1>2, StoreEases
<1> QED BY <1>3 DEF linphone_call_stop_media_streams, k

LEMMA UpdateStreamsEases ==
  ASSUME NEW s \in States, NEW c \in Calls, NEW md \in Descriptions
  PROVE  Eases(s, linphone_core_update_streams(s, c, md))
<1> DEFINE k == WithStreams(s.call[c], md)
<1>1. s.call[c] \in CallRecords BY StateFields
<1>2. k \in CallRecords
  BY <1>1 DEF CallRecords, WithStreams, linphone_call_start_media_streams
<1>3. /\ k.state = s.call[c].state /\ k.op = s.call[c].op
      /\ k.terminated = s.call[c].terminated /\ k.srtp = s.call[c].srtp
  BY <1>1 DEF CallRecords, WithStreams
<1> HIDE DEF k
<1>4. Eases(s, Store(s, c, k)) /\ Store(s, c, k) \in States
  BY <1>2, <1>3, StoreEases, StoreTyped
<1>5. Eases(s, Quiet(Store(s, c, k))) BY <1>4, QuietEases, EasesTwice
<1> QED BY <1>5 DEF linphone_core_update_streams, k

\* The results of an offer/answer are descriptions.
LEMMA AnswerTyped ==
  ASSUME NEW local \in Dirs, NEW md \in Descriptions
  PROVE  /\ offer_answer_initiate_incoming(local, md) \in Descriptions
         /\ offer_answer_initiate_outgoing(local, md) \in Descriptions
  BY DEF offer_answer_initiate_incoming, offer_answer_initiate_outgoing,
         compute_dir_incoming, compute_dir_outgoing, CanSend, CanReceive,
         Dirs, Descriptions

LEMMA FinalDescriptionEases ==
  ASSUME NEW s \in States, NEW c \in Calls
  PROVE  Eases(s, sal_call_get_final_media_description(s, c))
<1> DEFINE md == offer_answer_initiate_incoming(s.call[c].local, s.call[c].remote)
           k == [s.call[c] EXCEPT !.result = md]
<1>1. s.call[c] \in CallRecords BY StateFields
<1>2. md \in Descriptions BY <1>1, AnswerTyped DEF CallRecords
<1> HIDE DEF md
<1>3. /\ k \in CallRecords /\ k.state = s.call[c].state /\ k.op = s.call[c].op
      /\ k.terminated = s.call[c].terminated /\ k.srtp = s.call[c].srtp
  BY <1>1, <1>2 DEF CallRecords
<1> HIDE DEF k
<1>4. Eases(s, Store(s, c, k)) BY <1>3, StoreEases
<1>5. sal_call_get_final_media_description(s, c) \in {s, Store(s, c, k)}
  BY DEF sal_call_get_final_media_description, k, md
<1> QED BY <1>4, <1>5, EasesSelf

LEMMA SetLocalEases ==
  ASSUME NEW s \in States, NEW c \in Calls, NEW dir \in Dirs
  PROVE  Eases(s, SetLocal(s, c, dir))
<1> DEFINE k == [s.call[c] EXCEPT !.local = dir]
<1>1. s.call[c] \in CallRecords BY StateFields
<1>2. /\ k \in CallRecords /\ k.state = s.call[c].state /\ k.op = s.call[c].op
      /\ k.terminated = s.call[c].terminated /\ k.srtp = s.call[c].srtp
  BY <1>1 DEF CallRecords
<1> HIDE DEF k
<1>3. Eases(s, Store(s, c, k)) BY <1>2, StoreEases
<1> QED BY <1>3 DEF SetLocal, k

LEMMA SetDialogEases ==
  ASSUME NEW s \in States, NEW c \in Calls
  PROVE  Eases(s, SetDialog(s, c))
<1> DEFINE k == [s.call[c] EXCEPT !.did = TRUE]
<1>1. s.call[c] \in CallRecords BY StateFields
<1>2. /\ k \in CallRecords /\ k.state = s.call[c].state /\ k.op = s.call[c].op
      /\ k.terminated = s.call[c].terminated /\ k.srtp = s.call[c].srtp
  BY <1>1 DEF CallRecords
<1> HIDE DEF k
<1>3. Eases(s, Store(s, c, k)) BY <1>2, StoreEases
<1> QED BY <1>3 DEF SetDialog, k

LEMMA SetAnswerEases ==
  ASSUME NEW s \in States, NEW c \in Calls, NEW md \in Descriptions
  PROVE  Eases(s, SetAnswer(s, c, md))
<1> DEFINE result == offer_answer_initiate_outgoing(s.call[c].local, md)
           k == [s.call[c] EXCEPT !.remote = md, !.result = result]
<1>1. s.call[c] \in CallRecords BY StateFields
<1>2. result \in Descriptions BY <1>1, AnswerTyped DEF CallRecords
<1> HIDE DEF result
<1>3. /\ k \in CallRecords /\ k.state = s.call[c].state /\ k.op = s.call[c].op
      /\ k.terminated = s.call[c].terminated /\ k.srtp = s.call[c].srtp
  BY <1>1, <1>2 DEF CallRecords
<1> HIDE DEF k
<1>4. Eases(s, Store(s, c, k)) BY <1>3, StoreEases
<1> QED BY <1>4 DEF SetAnswer, k, result

\* What the eXosip calls that end a dialog make of a context.
LEMMA EndingContext ==
  ASSUME NEW x \in Contexts, NEW b \in BOOLEAN, NEW free
  PROVE  /\ eXosip_call_refuse(x) \in Contexts
         /\ StageStep(x.stage, eXosip_call_refuse(x).stage, free)
         /\ eXosip_call_terminate(x, b) \in Contexts
         /\ StageStep(x.stage, eXosip_call_terminate(x, b).stage, free)
<1>1. eXosip_call_refuse(x) \in Contexts
      /\ StageStep(x.stage, eXosip_call_refuse(x).stage, free)
  BY DEF Contexts, eXosip_call_refuse, StageStep, Stages
<1>2. CASE b /\ x.stage = "conf"
  <2> DEFINE re == IF x.re = "in" THEN "none" ELSE x.re
             y == [x EXCEPT !.stage = "closed", !.ack = FALSE, !.re = re]
  <2>1. re \in {"none", "out", "in"} BY DEF Contexts
  <2>2. eXosip_call_terminate(x, b) = y BY <1>2 DEF eXosip_call_terminate
  <2> HIDE DEF re
  <2>3. y \in Contexts /\ y.stage = "closed" BY <2>1 DEF Contexts, Stages
  <2> QED BY <1>1, <1>2, <2>2, <2>3 DEF StageStep
<1>3. CASE ~(b /\ x.stage = "conf")
  BY <1>1, <1>3 DEF eXosip_call_terminate, StageStep
<1> QED BY <1>2, <1>3

\* What the eXosip calls that offer and answer make of a context.
LEMMA OfferingContext ==
  ASSUME NEW x \in Contexts, NEW dir \in Dirs, NEW md \in Descriptions
  PROVE  /\ eXosip_call_send_request(x, dir) \in Contexts
         /\ eXosip_call_send_request(x, dir).stage = x.stage
         /\ eXosip_call_send_200(x, md, dir) \in Contexts
         /\ eXosip_call_send_200(x, md, dir).stage =
              (IF x.stage = "incoming" THEN "conf" ELSE x.stage)
<1>1. eXosip_call_send_request(x, dir) \in Contexts
      /\ eXosip_call_send_request(x, dir).stage = x.stage
  BY DEF Contexts, eXosip_call_send_request
<1>2. CASE CanAnswer(x)
  <2> DEFINE told == IF md = "None" THEN dir ELSE md
             ack == md = "None"
             y == [x EXCEPT !.stage = "conf", !.re = "none", !.ack = ack, !.told = told]
  <2>1. told \in Descriptions /\ ack \in BOOLEAN BY DEF Descriptions
  <2>2. eXosip_call_send_200(x, md, dir) = y BY <1>2 DEF eXosip_call_send_200
  <2> HIDE DEF told, ack
  <2>3. y \in Contexts /\ y.stage = "conf" BY <2>1 DEF Contexts, Stages
  <2> QED BY <1>1, <1>2, <2>2, <2>3 DEF CanAnswer
<1>3. CASE ~CanAnswer(x) BY <1>1, <1>3 DEF eXosip_call_send_200, CanAnswer
<1> QED BY <1>2, <1>3

LEMMA CallUpdateEases ==
  ASSUME NEW s \in States, NEW c \in Calls
  PROVE  Eases(s, sal_call_update(s, c))
<1> DEFINE x == eXosip_call_send_request(s.ctx[c], s.call[c].local)
<1>1. s.call[c].local \in Dirs /\ s.ctx[c] \in Contexts BY StateFields DEF CallRecords
<1>2. x \in Contexts /\ x.stage = s.ctx[c].stage
  BY <1>1, OfferingContext DEF Descriptions
<1> HIDE DEF x
<1>3. Eases(s, Signal(s, c, x)) BY <1>2, SignalEases DEF StageStep
<1>4. sal_call_update(s, c) \in {s, Signal(s, c, x)} BY DEF sal_call_update, x
<1> QED BY <1>3, <1>4, EasesSelf

LEMMA HangupEases ==
  ASSUME NEW s \in States, NEW c \in Calls
  PROVE  Eases(s, Hangup(s, c))
<1> DEFINE x == eXosip_call_terminate(s.ctx[c], TRUE)
<1>1. s.ctx[c] \in Contexts BY StateFields
<1>2. x \in Contexts /\ StageStep(s.ctx[c].stage, x.stage, s.call[c].state \in Settled)
  BY <1>1, EndingContext
<1> HIDE DEF x
<1>3. Eases(s, Signal(s, c, x)) BY <1>2, SignalEases
<1> QED BY <1>3 DEF Hangup, x

LEMMA RefuseEases ==
  ASSUME NEW s \in States, NEW c \in Calls
  PROVE  Eases(s, Signal(s, c, eXosip_call_refuse(s.ctx[c])))
<1> DEFINE x == eXosip_call_refuse(s.ctx[c])
<1>1. s.ctx[c] \in Contexts BY StateFields
<1>2. x \in Contexts /\ StageStep(s.ctx[c].stage, x.stage, s.call[c].state \in Settled)
  BY <1>1, EndingContext
<1> HIDE DEF x
<1>3. Eases(s, Signal(s, c, x)) BY <1>2, SignalEases
<1> QED BY <1>3 DEF x

\* A 200 OK: to anything but an unanswered initial INVITE of an unsettled call
\* it only eases, to that INVITE it confirms the dialog.
LEMMA CallAcceptNear ==
  ASSUME NEW s \in States, NEW c \in Calls
  PROVE  /\ Near(s, sal_call_accept(s, c), c)
         /\ s.call[c].state \in Settled \/ s.ctx[c].stage # "incoming" =>
              Eases(s, sal_call_accept(s, c))
         /\ LET t == sal_call_accept(s, c) IN
            /\ t.call[c].state = s.call[c].state \/ s.call[c].state \in Settled
            /\ t.call[c].state \in Settled <=> s.call[c].state \in Settled
            /\ t.call[c].op => s.call[c].op
            /\ t.call[c].terminated = s.call[c].terminated
            /\ t.call[c].srtp = s.call[c].srtp
            /\ t.ctx[c].stage = (IF s.ctx[c].stage = "incoming" THEN "conf" ELSE s.ctx[c].stage)
<1> DEFINE t == sal_call_get_final_media_description(s, c)
           x == eXosip_call_send_200(s.ctx[c], t.call[c].result, t.call[c].local)
           u == Signal(t, c, x)
<1>1. Eases(s, t) /\ t \in States BY FinalDescriptionEases, EasesState
<1>2. t.call[c].result \in Descriptions /\ t.call[c].local \in Dirs
  BY <1>1, StateFields DEF CallRecords
<1>3. t.ctx[c] = s.ctx[c] /\ s.ctx[c] \in Contexts
  BY StateFields DEF sal_call_get_final_media_description, Store
<1>4. Eased(s, t, c) /\ Near(s, t, c) BY <1>1, EasesNear
<1> HIDE DEF t
<1>5. x \in Contexts /\ x.stage = (IF s.ctx[c].stage = "incoming" THEN "conf" ELSE s.ctx[c].stage)
  BY <1>2, <1>3, OfferingContext
<1> HIDE DEF x
<1>6. CASE CanAnswer(s.ctx[c])
  <2>1. sal_call_accept(s, c) = u BY <1>6 DEF sal_call_accept, t, x
  <2>2. Near(s, u, c) BY <1>1, <1>4, <1>5, SignalNear, NearTwice
  <2>3. u.call = t.call /\ u.ctx[c] = x BY <1>1, <1>5, SignalTyped
  <2> HIDE DEF u
  <2>4. s.call[c].state \in Settled \/ s.ctx[c].stage # "incoming" => Eased(s, u, c)
    BY <1>4, <1>5, <1>3, <2>3 DEF Eased, StageStep
  <2>5. t.call[c].state = s.call[c].state \/ (t.call[c].state \in Settled /\ s.call[c].state \in Settled)
    BY <1>4 DEF Eased
  <2> QED BY <1>4, <1>5, <2>1, <2>2, <2>3, <2>4, <2>5, NearEases DEF Eased
<1>7. CASE ~CanAnswer(s.ctx[c])
  BY <1>7, EasesSelf, NearSelf DEF sal_call_accept, CanAnswer
<1> QED BY <1>6, <1>7

-----------------------------------------------------------------------------
(***************************************************************************)
(* References and the change of state                                      *)
(***************************************************************************)

LEMMA UnrefEases ==
  ASSUME NEW s \in States, NEW c \in Calls
  PROVE  Eases(s, linphone_call_unref(s, c))
<1> DEFINE n == s.call[c].refcnt - 1
           b == s.call[c].op /\ s.call[c].refcnt # 1
           k == [s.call[c] EXCEPT !.refcnt = n, !.op = b]
<1>1. s.call[c] \in CallRecords BY StateFields
<1>2. n \in Int BY <1>1 DEF CallRecords
<1>3. b \in BOOLEAN /\ (b => s.call[c].op) OBVIOUS
<1>4. linphone_call_unref(s, c) = Store(s, c, k) BY DEF linphone_call_unref
<1> HIDE DEF n, b
<1>5. /\ k \in CallRecords /\ k.state = s.call[c].state /\ k.op = b
      /\ k.terminated = s.call[c].terminated /\ k.srtp = s.call[c].srtp
  BY <1>1, <1>2, <1>3 DEF CallRecords
<1> HIDE DEF k
<1> QED BY <1>3, <1>4, <1>5, StoreEases

LEMMA ReleaseRefererEases ==
  ASSUME NEW s \in States, NEW c \in Calls
  PROVE  Eases(s, ReleaseReferer(s, c))
<1> DEFINE k == [s.call[c] EXCEPT !.referer = NoCall]
           r == s.call[c].referer
<1>1. s.call[c] \in CallRecords BY StateFields
<1>2. r \in Calls \cup {NoCall} BY <1>1 DEF CallRecords
<1>3. /\ k \in CallRecords /\ k.state = s.call[c].state /\ k.op = s.call[c].op
      /\ k.terminated = s.call[c].terminated /\ k.srtp = s.call[c].srtp
  BY <1>1 DEF CallRecords
<1>4. ReleaseReferer(s, c) = IF r = NoCall THEN s ELSE linphone_call_unref(Store(s, c, k), r)
  BY DEF ReleaseReferer
<1> HIDE DEF k, r
<1>5. Eases(s, Store(s, c, k)) /\ Store(s, c, k) \in States BY <1>3, StoreEases, StoreTyped
<1>6. CASE r = NoCall BY <1>4, <1>6, EasesSelf
<1>7. CASE r \in Calls BY <1>4, <1>5, <1>7, NoCallIsNone, UnrefEases, EasesTwice
<1> QED BY <1>2, <1>6, <1>7

\* Among the settled states, and out of an ended one, a state change only eases.
LEMMA SetStateEases ==
  ASSUME NEW s \in States, NEW c \in Calls, NEW cstate \in Settled,
         s.call[c].state \in Settled \cup Ended
  PROVE  Eases(s, linphone_call_set_state(s, c, cstate))
<1> DEFINE k == [s.call[c] EXCEPT !.state = cstate]
<1>1. s.call[c] \in CallRecords BY StateFields
<1>2. cstate \in CallStates /\ cstate \notin Ended /\ cstate # "Released"
  BY DEF Settled, CallStates, Live, Ended, Outgoing, Incoming
<1>3. /\ k \in CallRecords /\ k.state = cstate /\ k.op = s.call[c].op
      /\ k.terminated = s.call[c].terminated /\ k.srtp = s.call[c].srtp
  BY <1>1, <1>2 DEF CallRecords
<1>4. linphone_call_set_state(s, c, cstate) =
        IF s.call[c].state = cstate \/ s.call[c].state \in Ended THEN s ELSE Store(s, c, k)
  BY <1>2 DEF linphone_call_set_state
<1> HIDE DEF k
<1>5. CASE s.call[c].state = cstate \/ s.call[c].state \in Ended BY <1>4, <1>5, EasesSelf
<1>6. CASE s.call[c].state # cstate /\ s.call[c].state \notin Ended
  BY <1>3, <1>4, <1>6, StoreEases
<1> QED BY <1>5, <1>6

\* Any other change to a state of a live call only changes that state.
LEMMA SetStateLive ==
  ASSUME NEW s \in States, NEW c \in Calls, NEW cstate \in Live,
         s.call[c].state \notin Ended
  PROVE  LET t == linphone_call_set_state(s, c, cstate) IN
         /\ Near(s, t, c) /\ t.ctx = s.ctx /\ t.current = s.current
         /\ t.call[c].state = cstate /\ t.call[c].op = s.call[c].op
         /\ t.call[c].terminated = s.call[c].terminated
         /\ t.call[c].srtp = s.call[c].srtp
         /\ t.call[c].result = s.call[c].result
<1> DEFINE k == [s.call[c] EXCEPT !.state = cstate]
<1>1. s.call[c] \in CallRecords BY StateFields
<1>2. cstate \in CallStates /\ cstate \notin Ended /\ cstate # "Released"
  BY DEF CallStates, Live, Ended, Outgoing, Incoming
<1>3. /\ k \in CallRecords /\ k.state = cstate /\ k.op = s.call[c].op
      /\ k.terminated = s.call[c].terminated /\ k.srtp = s.call[c].srtp
      /\ k.result = s.call[c].result
  BY <1>1, <1>2 DEF CallRecords
<1>4. linphone_call_set_state(s, c, cstate) =
        IF s.call[c].state = cstate THEN s ELSE Store(s, c, k)
  BY <1>2 DEF linphone_call_set_state
<1> HIDE DEF k
<1>5. CASE s.call[c].state = cstate BY <1>4, <1>5, NearSelf
<1>6. CASE s.call[c].state # cstate BY <1>3, <1>4, <1>6, StoreNear, StoreTyped
<1> QED BY <1>5, <1>6

\* t is s with the call c taken out of the list; all other calls are eased.
Ends(s, t, c) ==
  /\ t \in States
  /\ t.evq = s.evq /\ t.calls = s.calls \ {c}
  /\ t.current \in (s.calls \cup {s.current, NoCall}) \ {c}
  /\ \A d \in Calls : d # c => Eased(s, t, d)

\* The end of a call takes it out of the list and of the current call.
LEMMA SetStateEnded ==
  ASSUME NEW s \in States, NEW c \in Calls, NEW cstate \in Ended,
         s.call[c].state \notin Ended
  PROVE  LET t == linphone_call_set_state(s, c, cstate) IN
         /\ Ends(s, t, c)
         /\ t.call[c].state = cstate /\ (t.call[c].op => s.call[c].op)
         /\ t.call[c].terminated = s.call[c].terminated
         /\ t.call[c].srtp = s.call[c].srtp
         /\ t.ctx[c] = s.ctx[c]
<1> DEFINE k == [s.call[c] EXCEPT !.state = cstate]
           m == Store(s, c, k)
           n == IF m.current = c THEN NoCall ELSE m.current
           f == IF m.calls \subseteq {c} THEN "presence_mode" ELSE m.friends
           u == [m EXCEPT !.calls = @ \ {c}, !.current = n, !.friends = f]
           t == ReleaseReferer(u, c)
<1>1. s.call[c] \in CallRecords BY StateFields
<1>2. cstate \in CallStates /\ cstate # "Released" BY DEF CallStates, Ended
<1>3. /\ k \in CallRecords /\ k.state = cstate /\ k.op = s.call[c].op
      /\ k.terminated = s.call[c].terminated /\ k.srtp = s.call[c].srtp
  BY <1>1, <1>2 DEF CallRecords
<1>4. linphone_call_set_state(s, c, cstate) = t
  BY <1>2 DEF linphone_call_set_state, linphone_call_set_terminated
<1> HIDE DEF k
<1>5. /\ m \in States /\ m.calls = s.calls /\ m.current = s.current /\ m.evq = s.evq
      /\ m.ctx = s.ctx /\ m.call[c] = k
      /\ \A d \in Calls : d # c => m.call[d] = s.call[d]
  BY <1>3, StoreTyped
<1> HIDE DEF m
<1>6. /\ n \in Calls \cup {NoCall} /\ n \in {s.current, NoCall} \ {c}
      /\ f \in {"presence_mode", "OnThePhone"}
  BY <1>5, StateFields, NoCallIsNone
<1> HIDE DEF n, f
<1>7. /\ u \in States /\ u.calls = s.calls \ {c} /\ u.current = n /\ u.evq = s.evq
      /\ u.ctx = s.ctx /\ u.call = m.call
  BY <1>5, <1>6 DEF States
<1> HIDE DEF u
<1>8. Eases(u, t) /\ t \in States BY <1>7, ReleaseRefererEases, EasesState
<1>9. t.ctx = u.ctx BY DEF ReleaseReferer, linphone_call_unref, Store
<1> HIDE DEF t
<1>10. \A d \in Calls : Eased(u, t, d) BY <1>8, EasesNear
<1>11. Ends(s, t, c)
  <2>1. \A d \in Calls : d # c => Eased(s, t, d)
    BY <1>5, <1>7, <1>10 DEF Eased, StageStep
  <2>2. t.current \in (s.calls \cup {s.current, NoCall}) \ {c}
    BY <1>6, <1>7, <1>8, NoCallIsNone DEF Eases, Near
  <2> QED BY <1>7, <1>8, <2>1, <2>2 DEF Ends, Eases, Near
<1>12. Eased(u, t, c) /\ u.call[c] = k BY <1>5, <1>7, <1>10
<1>13. cstate \notin Settled BY DEF Settled, Live, Ended, Outgoing, Incoming
<1> QED BY <1>3, <1>4, <1>7, <1>9, <1>11, <1>12, <1>13 DEF Eased

-----------------------------------------------------------------------------
(***************************************************************************)
(* Functions that only ease                                                *)
(***************************************************************************)

LEMMA PauseEases ==
  ASSUME NEW s \in States, NEW c \in Calls
  PROVE  Eases(s, linphone_core_pause_call(s, c))
<1> DEFINE local == SetLocal(s, c, "SendOnly")
           asked == sal_call_update(local, c)
           alone == [asked EXCEPT !.current = NoCall]
           paused == linphone_call_set_state(alone, c, "Pausing")
           t == linphone_call_stop_media_streams(paused, c)
<1>1. CASE s.call[c].state \in {"StreamsRunning", "PausedByRemote"}
  <2>1. s.call[c].state \in Settled /\ "Pausing" \in Settled
    BY <1>1 DEF Settled, Live, Outgoing, Incoming
  <2>2. Eases(s, local) /\ local \in States
    BY SetLocalEases, EasesState DEF Dirs
  <2> HIDE DEF local
  <2>3. Eases(s, asked) /\ asked \in States
    BY <2>2, CallUpdateEases, EasesState, EasesTwice
  <2> HIDE DEF asked
  <2>4. Eases(s, alone) /\ alone \in States
    BY <2>3, CurrentEases, EasesState, EasesTwice
  <2> HIDE DEF alone
  <2>5. Eases(s, paused) /\ paused \in States
    BY <2>1, <2>4, SetStateEases, EasesState, EasesTwice
  <2> HIDE DEF paused
  <2>6. Eases(s, t) BY <2>5, StopMediaEases, EasesTwice
  <2>7. linphone_core_pause_call(s, c) \in {s, t}
    BY DEF linphone_core_pause_call, local, asked, alone, paused
  <2> QED BY <2>6, <2>7, EasesSelf
<1>2. CASE s.call[c].state \notin {"StreamsRunning", "PausedByRemote"}
  BY <1>2, EasesSelf DEF linphone_core_pause_call
<1> QED BY <1>1, <1>2

LEMMA PreemptEases ==
  ASSUME NEW s \in States
  PROVE  /\ Eases(s, linphone_core_preempt_sound_resources(s))
         /\ linphone_core_preempt_sound_resources(s) \in States
<1>1. s.current \in Calls \cup {NoCall} BY StateFields
<1>2. Eases(s, linphone_core_preempt_sound_resources(s))
  BY <1>1, PauseEases, EasesSelf DEF linphone_core_preempt_sound_resources
<1> QED BY <1>2 DEF Eases, Near

LEMMA ResumeEases ==
  ASSUME NEW s \in States, NEW c \in Calls
  PROVE  Eases(s, linphone_core_resume_call(s, c))
<1> DEFINE freed == linphone_core_preempt_sound_resources(s)
           fresh == SetLocal(freed, c, "SendRecv")
           asked == sal_call_update(fresh, c)
           t == linphone_call_set_state(asked, c, "Resuming")
<1>1. CASE s.call[c].state = "Paused"
  <2>1. s.call[c].state \in Settled /\ "Resuming" \in Settled
    BY <1>1 DEF Settled, Live, Outgoing, Incoming
  <2>2. Eases(s, freed) /\ freed \in States BY PreemptEases
  <2> HIDE DEF freed
  <2>3. Eases(s, fresh) /\ fresh \in States
    BY <2>2, SetLocalEases, EasesState, EasesTwice DEF Dirs
  <2> HIDE DEF fresh
  <2>4. Eases(s, asked) /\ asked \in States
    BY <2>3, CallUpdateEases, EasesState, EasesTwice
  <2> HIDE DEF asked
  <2>5. Eases(s, t) BY <2>1, <2>4, SetStateEases, EasesState, EasesTwice
  <2>6. linphone_core_resume_call(s, c) \in {s, fresh, t}
    BY DEF linphone_core_resume_call, freed, fresh, asked
  <2> QED BY <2>3, <2>5, <2>6, EasesSelf
<1>2. CASE s.call[c].state # "Paused"
  BY <1>2, EasesSelf DEF linphone_core_resume_call
<1> QED BY <1>1, <1>2

\* Answering a re-INVITE.
LEMMA AcceptUpdateEases ==
  ASSUME NEW s \in States, NEW c \in Calls,
         s.call[c].state \in Settled \/ s.ctx[c].stage # "incoming"
  PROVE  Eases(s, call_accept_update(s, c))
<1> DEFINE a == sal_call_accept(s, c)
           t == sal_call_get_final_media_description(a, c)
           md == t.call[c].result
<1>1. Eases(s, a) /\ a \in States BY CallAcceptNear, EasesState
<1> HIDE DEF a
<1>2. Eases(s, t) /\ t \in States BY <1>1, FinalDescriptionEases, EasesState, EasesTwice
<1> HIDE DEF t
<1>3. md \in Descriptions BY <1>2, StateFields DEF CallRecords
<1>4. Eases(s, linphone_core_update_streams(t, c, md))
  BY <1>2, <1>3, UpdateStreamsEases, EasesTwice
<1>5. call_accept_update(s, c) \in {t, linphone_core_update_streams(t, c, md)}
  BY DEF call_accept_update, t, a
<1> QED BY <1>2, <1>4, <1>5

LEMMA AcceptCallUpdateEases ==
  ASSUME NEW s \in States, NEW c \in Calls
  PROVE  Eases(s, linphone_core_accept_call_update(s, c))
<1> DEFINE local == SetLocal(s, c, "SendRecv")
           a == call_accept_update(local, c)
           t == linphone_call_set_state(a, c, "StreamsRunning")
<1>1. CASE s.call[c].state = "UpdatedByRemote"
  <2>1. s.call[c].state \in Settled /\ "StreamsRunning" \in Settled
    BY <1>1 DEF Settled, Live, Outgoing, Incoming
  <2>2. Eases(s, local) /\ local \in States /\ local.call[c].state \in Settled
    BY <2>1, SetLocalEases, EasesState DEF Dirs
  <2> HIDE DEF local
  <2>3. Eases(s, a) /\ a \in States /\ a.call[c].state \in Settled
    BY <2>1, <2>2, AcceptUpdateEases, EasesState, EasesTwice
  <2> HIDE DEF a
  <2>4. Eases(s, t) BY <2>1, <2>3, SetStateEases, EasesTwice
  <2> QED BY <1>1, <2>4 DEF linphone_core_accept_call_update, local, a
<1>2. CASE s.call[c].state # "UpdatedByRemote"
  BY <1>2, EasesSelf DEF linphone_core_accept_call_update
<1> QED BY <1>1, <1>2

-----------------------------------------------------------------------------
(***************************************************************************)
(* The ways in which one call goes on, ends or is released                 *)
(***************************************************************************)

\* What the call c keeps on the way to its next state.
Core(s, t, c) ==
  /\ t.call[c].op => s.call[c].op
  /\ t.call[c].srtp = s.call[c].srtp
  /\ StageStep(s.ctx[c].stage, t.ctx[c].stage, TRUE)

LEMMA EasesCore ==
  ASSUME NEW s, NEW t, NEW c \in Calls, Eases(s, t)
  PROVE  /\ Core(s, t, c) /\ t.call[c].terminated = s.call[c].terminated
         /\ s.call[c].state \notin Settled =>
              /\ t.call[c].state = s.call[c].state
              /\ StageStep(s.ctx[c].stage, t.ctx[c].stage, FALSE)
         /\ s.call[c].state \in Settled => t.call[c].state \in Settled
  BY EasesNear DEF Core, Eased, StageStep

LEMMA CoreTwice ==
  ASSUME NEW s, NEW t, NEW u, NEW c, Core(s, t, c), Core(t, u, c)
  PROVE  Core(s, u, c)
  BY DEF Core, StageStep

LEMMA NearOnward ==
  ASSUME NEW s, NEW u, NEW t, NEW c \in Calls,
         Near(s, u, c) /\ Core(s, u, c), Near(u, t, c) /\ Core(u, t, c)
  PROVE  Near(s, t, c) /\ Core(s, t, c) /\ t \in States
<1>1. Near(s, t, c) BY NearTwice
<1> QED BY <1>1, CoreTwice DEF Near

LEMMA EasesOnward ==
  ASSUME NEW s, NEW u, NEW c \in Calls, Eases(s, u)
  PROVE  Near(s, u, c) /\ Core(s, u, c) /\ u \in States
  BY EasesNear, EasesCore, EasesState

\* A live call stays live.
LEMMA LiveWhole ==
  ASSUME NEW s, Whole(s), NEW c \in Calls, s.call[c].state \in Live,
         NEW t, Near(s, t, c), Core(s, t, c),
         t.call[c].terminated = s.call[c].terminated,
         \/ t.call[c].state \in Settled
         \/ /\ t.call[c].state \in Incoming
            /\ t.ctx[c].stage \in {"incoming", "refused", "failed", "released"}
  PROVE  Whole(t) /\ Moves(s, t, c)
<1> USE DEF Settled, Live, Ended, Incoming, Outgoing
<1>1. CallInv(s.call[c], s.ctx[c]) BY DEF Whole
<1>2. CallInv(t.call[c], t.ctx[c]) BY <1>1 DEF CallInv, Core
<1>3. \A i \in 1 .. Len(s.evq) : s.evq[i].cid = c => EventInv(s.evq[i], t.call[c], t.ctx[c])
  BY DEF Whole, QueueInv, EventInv, Core, StageStep
<1>4. c \in s.calls BY DEF Whole, ListInv
<1>5. t.calls = s.calls \cup {c} /\ t.current \in t.calls \cup {NoCall}
  BY <1>4 DEF Near, Whole, ListInv
<1>6. Whole(t) BY <1>2, <1>3, <1>5, WholeStep DEF Near
<1> QED BY <1>6 DEF Moves, Near

\* A call is over: it is out of the list and its SalOp will not be asked again.
LEMMA EndsWhole ==
  ASSUME NEW s, Whole(s), NEW c \in Calls, s.call[c].state \in Live \cup Ended,
         NEW t, Ends(s, t, c), Core(s, t, c),
         \/ t.call[c].state = "Released"
         \/ t.call[c].state \in Ended /\ s.call[c].state \in {t.call[c].state} \cup Live,
         t.call[c].op =>
           /\ t.call[c].state # "Released"
           /\ \/ t.call[c].terminated
              \/ t.ctx[c].stage \notin {"calling", "early", "incoming", "conf"}
  PROVE  Whole(t) /\ Moves(s, t, c)
<1> USE DEF Settled, Live, Ended, Incoming, Outgoing
<1>1. CallInv(s.call[c], s.ctx[c]) BY DEF Whole
<1>2. CallInv(t.call[c], t.ctx[c]) BY <1>1 DEF CallInv, Core
<1>3. \A i \in 1 .. Len(s.evq) : s.evq[i].cid = c => EventInv(s.evq[i], t.call[c], t.ctx[c])
  BY DEF Whole, QueueInv, EventInv, Core, StageStep
<1>4. t.calls = s.calls \ {c} /\ t.current \in t.calls \cup {NoCall}
  BY DEF Ends, Whole, ListInv
<1>5. Whole(t) BY <1>2, <1>3, <1>4, WholeStep DEF Ends
<1> QED BY <1>5 DEF Moves, Ends

LEMMA NearEnds ==
  ASSUME NEW s, NEW u, NEW t, NEW c \in Calls, Near(s, u, c), Ends(u, t, c)
  PROVE  Ends(s, t, c)
<1>1. \A d \in Calls : d # c => Eased(s, t, d) BY EasedTwice DEF Near, Ends
<1> QED BY <1>1 DEF Near, Ends

LEMMA EndsNear ==
  ASSUME NEW s, NEW u, NEW t, NEW c \in Calls, Ends(s, u, c), Near(u, t, c)
  PROVE  Ends(s, t, c)
<1>1. \A d \in Calls : d # c => Eased(s, t, d) BY EasedTwice DEF Near, Ends
<1> QED BY <1>1, NoCallIsNone DEF Near, Ends

\* A call that is no longer live is not in the list.
LEMMA NearOver ==
  ASSUME NEW s, Whole(s), NEW c \in Calls, s.call[c].state \notin Live,
         NEW t, Near(s, t, c)
  PROVE  Ends(s, t, c)
<1>1. c \notin s.calls /\ s.current # c BY NoCallIsNone DEF Whole, ListInv
<1> QED BY <1>1, NoCallIsNone DEF Near, Ends

\* The state change that ends a call, wherever the call stands.
LEMMA SetStateOver ==
  ASSUME NEW s, Whole(s), NEW c \in Calls, s.call[c].state \in Live \cup Ended,
         NEW u, Near(s, u, c), Core(s, u, c), NEW cstate \in Ended,
         \/ s.call[c].state \in Live /\ u.call[c].state \in Live
         \/ u.call[c].state = s.call[c].state
  PROVE  LET t == linphone_call_set_state(u, c, cstate) IN
         /\ Ends(s, t, c) /\ Core(s, t, c)
         /\ t.call[c].state \in Ended
         /\ s.call[c].state \in {t.call[c].state} \cup Live
         /\ t.call[c].terminated = u.call[c].terminated
         /\ t.ctx[c] = u.ctx[c]
<1> DEFINE t == linphone_call_set_state(u, c, cstate)
<1>1. u \in States BY DEF Near
<1>2. \A x \in Live : x \notin Ended /\ x # "Released"
  BY DEF Live, Ended, Outgoing, Incoming
<1>3. CASE u.call[c].state \in Ended
  <2>1. t = u BY <1>3 DEF linphone_call_set_state, Ended
  <2>2. Ends(s, u, c) BY <1>2, <1>3, NearOver
  <2>3. s.call[c].state = u.call[c].state BY <1>2, <1>3
  <2> QED BY <1>3, <2>1, <2>2, <2>3
<1>4. CASE u.call[c].state \notin Ended
  <2>1. s.call[c].state \in Live BY <1>4
  <2>2. /\ Ends(u, t, c) /\ t.call[c].state = cstate /\ (t.call[c].op => u.call[c].op)
        /\ t.call[c].terminated = u.call[c].terminated
        /\ t.call[c].srtp = u.call[c].srtp /\ t.ctx[c] = u.ctx[c]
    BY <1>1, <1>4, SetStateEnded
  <2> HIDE DEF t
  <2>3. Ends(s, t, c) BY <2>2, NearEnds
  <2>4. Core(s, t, c) BY <2>2 DEF Core, StageStep
  <2> QED BY <2>1, <2>2, <2>3, <2>4 DEF t
<1> QED BY <1>3, <1>4

-----------------------------------------------------------------------------
(***************************************************************************)
(* Chains                                                                  *)
(***************************************************************************)

LEMMA KeepsMoves ==
  ASSUME NEW s, NEW t, NEW c \in Calls, Whole(t), Moves(s, t, c)
  PROVE  Keeps(s, t)
  BY DEF Keeps

\* The calls before and after easing are in the same part of their life.
LEMMA EasesMoves ==
  ASSUME NEW s, NEW u, NEW t, NEW c \in Calls, Eases(s, u), Moves(u, t, c)
  PROVE  Moves(s, t, c)
<1>1. \A d \in Calls : Eased(s, u, d) BY EasesNear
<1>2. \A d \in Calls : d # c => Eased(s, t, d) BY <1>1, EasedTwice DEF Moves
<1>3. u.calls = s.calls BY DEF Eases, Near
<1> QED BY <1>1, <1>2, <1>3
    DEF Moves, Eased, Settled, Live, Ended, Incoming, Outgoing

LEMMA MovesEases ==
  ASSUME NEW s, NEW u, NEW t, NEW c \in Calls, Moves(s, u, c), Eases(u, t)
  PROVE  Moves(s, t, c)
<1>1. \A d \in Calls : Eased(u, t, d) BY EasesNear
<1>2. \A d \in Calls : d # c => Eased(s, t, d) BY <1>1, EasedTwice DEF Moves
<1> QED BY <1>1, <1>2
    DEF Moves, Eased, Settled, Live, Ended, Incoming, Outgoing

LEMMA EasesKeeps ==
  ASSUME NEW s, NEW u, NEW t, Eases(s, u), Keeps(u, t)
  PROVE  Keeps(s, t)
  BY EasesMoves, EasesTwice DEF Keeps

LEMMA KeepsEases ==
  ASSUME NEW s, NEW u, NEW t, Keeps(s, u), Eases(u, t)
  PROVE  Keeps(s, t)
<1>1. Whole(t) BY EasesWhole DEF Keeps
<1> QED BY <1>1, MovesEases, EasesTwice DEF Keeps

\* A call that was just opened goes on or ends in the same step.
LEMMA MovesMoves ==
  ASSUME NEW s, NEW u, NEW t, NEW c \in Calls, Moves(s, u, c), Moves(u, t, c),
         u.call[c].state \in Live, t.call[c].state \in Live \cup Ended
  PROVE  Moves(s, t, c)
<1>1. \A d \in Calls : d # c => Eased(s, t, d) BY EasedTwice DEF Moves
<1> QED BY <1>1 DEF Moves, Live, Ended, Incoming, Outgoing

\* A call that has not ended reaches a settled state; one that has ended stays.
LEMMA ToSettled ==
  ASSUME NEW s, Whole(s), NEW c \in Calls, s.call[c].state \in Live \cup Ended,
         NEW u, Eases(s, u), NEW cstate \in Settled
  PROVE  LET t == linphone_call_set_state(u, c, cstate) IN
         /\ Whole(t) /\ Keeps(s, t)
         /\ s.call[c].state \in Live => Moves(s, t, c) /\ t.call[c].state = cstate
<1> DEFINE t == linphone_call_set_state(u, c, cstate)
<1>1. u \in States /\ Whole(u) /\ cstate \in Live
  BY EasesState, EasesWhole DEF Settled
<1>2. CASE s.call[c].state \in Ended
  <2>1. s.call[c].state \notin Live /\ s.call[c].state \notin Settled
    BY <1>2 DEF Settled, Live, Ended, Incoming, Outgoing
  <2>2. u.call[c].state = s.call[c].state BY <2>1, EasesState
  <2>3. t = u
    BY <1>2, <2>2 DEF linphone_call_set_state, Settled, Live, Ended, Outgoing, Incoming
  <2> QED BY <1>1, <2>1, <2>3, EasesWhole
<1>3. CASE s.call[c].state \in Live
  <2>1. u.call[c].state \in Live /\ u.call[c].state \notin Ended
    BY <1>3, EasesState DEF Settled, Live, Ended, Incoming, Outgoing
  <2>2. /\ Near(u, t, c) /\ t.ctx = u.ctx /\ t.call[c].state = cstate
        /\ t.call[c].op = u.call[c].op /\ t.call[c].terminated = u.call[c].terminated
        /\ t.call[c].srtp = u.call[c].srtp
    BY <1>1, <2>1, SetStateLive
  <2> HIDE DEF t
  <2>3. Core(u, t, c) BY <2>2 DEF Core, StageStep
  <2>4. Whole(t) /\ Moves(u, t, c) BY <1>1, <2>1, <2>2, <2>3, LiveWhole
  <2> QED BY <2>2, <2>4, EasesMoves, KeepsMoves DEF t
<1> QED BY <1>2, <1>3

-----------------------------------------------------------------------------
(***************************************************************************)
(* API functions that answer and end calls                                 *)
(***************************************************************************)

\* The operation of the call is marked terminated.
LEMMA MarkNear ==
  ASSUME NEW s \in States, NEW c \in Calls, NEW b \in BOOLEAN
  PROVE  LET t == Store(s, c, [s.call[c] EXCEPT !.terminated = b]) IN
         /\ Near(s, t, c) /\ Core(s, t, c) /\ t.ctx = s.ctx
         /\ t.call[c].state = s.call[c].state
         /\ t.call[c].op = s.call[c].op /\ t.call[c].terminated = b
<1> DEFINE k == [s.call[c] EXCEPT !.terminated = b]
<1>1. s.call[c] \in CallRecords BY StateFields
<1>2. /\ k \in CallRecords /\ k.state = s.call[c].state /\ k.op = s.call[c].op
      /\ k.terminated = b /\ k.srtp = s.call[c].srtp
  BY <1>1 DEF CallRecords
<1> HIDE DEF k
<1>3. Near(s, Store(s, c, k), c) /\ Core(s, Store(s, c, k), c)
  BY <1>2, StoreNear, StoreTyped DEF Core, StageStep
<1> QED BY <1>2, <1>3, StoreTyped DEF k

LEMMA CallTerminateNear ==
  ASSUME NEW s \in States, NEW c \in Calls
  PROVE  LET t == sal_call_terminate(s, c) IN
         /\ Near(s, t, c) /\ Core(s, t, c)
         /\ t.call[c].state = s.call[c].state
         /\ t.call[c].op = s.call[c].op
         /\ t.call[c].op => t.call[c].terminated
<1> DEFINE x == eXosip_call_terminate(s.ctx[c], s.call[c].did)
           u == Signal(s, c, x)
           t == sal_call_terminate(s, c)
<1>1. CASE ~s.call[c].op
  BY <1>1, NearSelf DEF sal_call_terminate, Core, StageStep
<1>2. CASE s.call[c].op
  <2>1. s.call[c].did \in BOOLEAN /\ s.ctx[c] \in Contexts BY StateFields DEF CallRecords
  <2>2. x \in Contexts /\ StageStep(s.ctx[c].stage, x.stage, TRUE)
    BY <2>1, EndingContext
  <2>3. t = Store(u, c, [s.call[c] EXCEPT !.terminated = TRUE])
    BY <1>2 DEF sal_call_terminate
  <2> HIDE DEF x
  <2>4. /\ Near(s, u, c) /\ u \in States /\ u.call = s.call /\ u.ctx[c] = x
    BY <2>2, SignalNear, SignalTyped
  <2> HIDE DEF u
  <2>5. t = Store(u, c, [u.call[c] EXCEPT !.terminated = TRUE]) BY <2>3, <2>4
  <2> HIDE DEF t
  <2>6. /\ Near(u, t, c) /\ Core(u, t, c) /\ t.ctx = u.ctx
        /\ t.call[c].state = u.call[c].state
        /\ t.call[c].op = u.call[c].op /\ t.call[c].terminated = TRUE
    BY <2>4, <2>5, MarkNear
  <2>7. Core(s, u, c) BY <2>2, <2>4 DEF Core
  <2> QED BY <2>4, <2>6, <2>7, NearTwice, CoreTwice DEF t
<1> QED BY <1>1, <1>2

\* linphone_core_terminate_call and linphone_core_abort_call.
LEMMA EndKeeps ==
  ASSUME NEW s, Whole(s), NEW c \in Calls, s.call[c].state \in Live \cup Ended,
         NEW cstate \in Ended,
         NEW t, t = linphone_call_set_state(
           linphone_call_stop_media_streams(Quiet(sal_call_terminate(s, c)), c), c, cstate)
  PROVE  Whole(t) /\ Moves(s, t, c) /\ t.call[c].state \in Ended
<1> DEFINE u == sal_call_terminate(s, c)
           q == Quiet(u)
           m == linphone_call_stop_media_streams(q, c)
<1>1. s \in States BY DEF Whole
<1>2. /\ Near(s, u, c) /\ Core(s, u, c) /\ u.call[c].state = s.call[c].state
      /\ u.call[c].op = s.call[c].op /\ (u.call[c].op => u.call[c].terminated)
  BY <1>1, CallTerminateNear
<1> HIDE DEF u
<1>3. u \in States BY <1>2 DEF Near
<1>4. Eases(u, q) /\ q \in States BY <1>3, QuietEases, EasesState
<1> HIDE DEF q
<1>5. Eases(u, m) BY <1>4, StopMediaEases, EasesTwice
<1>6. t = linphone_call_set_state(m, c, cstate) BY DEF m, q, u
<1> HIDE DEF m
<1>7. /\ Near(s, m, c) /\ Core(s, m, c)
  BY <1>2, <1>5, EasesNear, NearTwice, EasesCore, CoreTwice
<1>8. /\ m.call[c].terminated = u.call[c].terminated /\ (m.call[c].op => u.call[c].op)
  BY <1>5, EasesCore DEF Core
<1>9. \/ s.call[c].state \in Live /\ m.call[c].state \in Live
      \/ m.call[c].state = s.call[c].state
  BY <1>2, <1>5, EasesState DEF Settled
<1>10. /\ Ends(s, t, c) /\ Core(s, t, c) /\ t.call[c].state \in Ended
       /\ s.call[c].state \in {t.call[c].state} \cup Live
       /\ t.call[c].terminated = m.call[c].terminated
  BY <1>6, <1>7, <1>9, SetStateOver
<1>11. t.call[c].op => t.call[c].terminated BY <1>2, <1>8, <1>10 DEF Core
<1>12. t.call[c].state # "Released" BY <1>10 DEF Ended
<1> QED BY <1>10, <1>11, <1>12, EndsWhole

\* A call of the list is ended.
LEMMA TerminateKeeps ==
  ASSUME NEW s, Whole(s), NEW c \in Calls, s.call[c].state \in Live \cup Ended
  PROVE  LET t == linphone_core_terminate_call(s, c) IN
         Whole(t) /\ Moves(s, t, c) /\ t.call[c].state \in Ended
<1>1. "End" \in Ended BY DEF Ended
<1> QED BY <1>1, EndKeeps DEF linphone_core_terminate_call

LEMMA AbortKeeps ==
  ASSUME NEW s, Whole(s), NEW c \in Calls, s.call[c].state \in Live \cup Ended
  PROVE  Keeps(s, linphone_core_abort_call(s, c))
<1> DEFINE t == linphone_core_abort_call(s, c)
<1>1. "Error" \in Ended BY DEF Ended
<1>2. Whole(t) /\ Moves(s, t, c) BY <1>1, EndKeeps DEF linphone_core_abort_call
<1> HIDE DEF t
<1>3. Keeps(s, t) BY <1>2, KeepsMoves
<1> QED BY <1>3 DEF t

\* An incoming call is answered (a call in any other state is left as it is
\* or answered again, as the code does not look).
LEMMA AcceptKeeps ==
  ASSUME NEW s, Whole(s), NEW c \in Calls, s.call[c].state \in Live
  PROVE  LET t == linphone_core_accept_call(s, c) IN
         Whole(t) /\ Moves(s, t, c) /\ t.call[c].state \in Live
<1> DEFINE freed == IF s.current = c THEN s ELSE linphone_core_preempt_sound_resources(s)
           media == IF freed.call[c].media = "none" THEN "init" ELSE freed.call[c].media
           k == [freed.call[c] EXCEPT !.media = media]
           made == Store(freed, c, k)
           ready == Quiet(made)
           asked == sal_call_accept(ready, c)
           taken == [asked EXCEPT !.current = c]
           up == linphone_call_set_state(taken, c, "Connected")
           connected == sal_call_get_final_media_description(up, c)
           md == connected.call[c].result
           running == linphone_core_update_streams(connected, c, md)
           t == linphone_core_accept_call(s, c)
<1>1. CASE s.call[c].state = "Connected"
  <2>1. s \in States /\ t = s BY <1>1 DEF Whole, linphone_core_accept_call
  <2>2. Moves(s, s, c) BY <2>1 DEF Moves, Eased, StageStep, Live
  <2> QED BY <2>1, <2>2
<1>2. CASE s.call[c].state # "Connected"
  <2>1. s \in States /\ c \in s.calls /\ s.call[c].state \notin Ended
    BY DEF Whole, ListInv, Live, Ended, Incoming, Outgoing
  <2>2. "Connected" \in Settled /\ "StreamsRunning" \in Settled /\ Settled \subseteq Live
    BY DEF Settled, Live, Incoming, Outgoing
  <2>3. t = IF md = "None" THEN running ELSE linphone_call_set_state(running, c, "StreamsRunning")
    BY <1>2 DEF linphone_core_accept_call
  <2>4. Eases(s, freed) /\ freed \in States BY <2>1, PreemptEases, EasesSelf
  <2> HIDE DEF freed
  <2>5. freed.call[c] \in CallRecords BY <2>4, StateFields
  <2>6. media \in {"none", "init", "on"} BY <2>5 DEF CallRecords
  <2> HIDE DEF media
  <2>7. /\ k \in CallRecords /\ k.state = freed.call[c].state /\ k.op = freed.call[c].op
        /\ k.terminated = freed.call[c].terminated /\ k.srtp = freed.call[c].srtp
    BY <2>5, <2>6 DEF CallRecords
  <2> HIDE DEF k
  <2>8. Eases(s, made) /\ made \in States
    BY <2>4, <2>7, StoreEases, EasesTwice, EasesState
  <2> HIDE DEF made
  <2>9. Eases(s, ready) /\ ready \in States BY <2>8, QuietEases, EasesTwice, EasesState
  <2> HIDE DEF ready
  <2>10. /\ Near(ready, asked, c)
         /\ asked.call[c].state = ready.call[c].state \/ ready.call[c].state \in Settled
         /\ asked.call[c].state \in Settled <=> ready.call[c].state \in Settled
         /\ asked.call[c].terminated = ready.call[c].terminated
         /\ Core(ready, asked, c)
    BY <2>9, CallAcceptNear DEF Core, StageStep
  <2> HIDE DEF asked
  <2>11. Near(s, asked, c) /\ Core(s, asked, c) /\ asked \in States
    BY <2>9, <2>10, EasesOnward, NearOnward
  <2>12. Eases(asked, taken) /\ taken \in States
    BY <2>1, <2>11, CurrentEases, EasesState DEF Near
  <2>13. taken.call = asked.call BY <2>11 DEF States
  <2> HIDE DEF taken
  <2>14. taken.call[c].state \notin Ended
    BY <2>1, <2>9, <2>10, <2>13, EasesState DEF Settled, Live, Ended, Incoming, Outgoing
  <2>15. /\ Near(taken, up, c) /\ up.ctx = taken.ctx /\ up.call[c].state = "Connected"
         /\ up.call[c].op = taken.call[c].op /\ up.call[c].srtp = taken.call[c].srtp
         /\ up.call[c].terminated = taken.call[c].terminated
    BY <2>2, <2>12, <2>14, SetStateLive
  <2> HIDE DEF up
  <2>16. Core(taken, up, c) BY <2>15 DEF Core, StageStep
  <2>17. /\ Near(s, up, c) /\ Core(s, up, c) /\ up \in States
         /\ up.call[c].terminated = s.call[c].terminated
    <3>1. Near(s, taken, c) /\ Core(s, taken, c)
      BY <2>11, <2>12, EasesOnward, NearOnward
    <3>2. Near(s, up, c) /\ Core(s, up, c) /\ up \in States
      BY <2>15, <2>16, <3>1, NearOnward
    <3>3. ready.call[c].terminated = s.call[c].terminated BY <2>9, EasesCore
    <3> QED BY <2>10, <2>13, <2>15, <3>2, <3>3
  <2>18. Whole(up) /\ Moves(s, up, c) BY <2>2, <2>15, <2>17, LiveWhole
  <2>19. Eases(up, connected) /\ connected \in States
    BY <2>17, FinalDescriptionEases, EasesState
  <2> HIDE DEF connected
  <2>20. md \in Descriptions BY <2>19, StateFields DEF CallRecords
  <2>21. Eases(up, running) /\ running \in States
    BY <2>19, <2>20, UpdateStreamsEases, EasesTwice, EasesState
  <2> HIDE DEF running, md
  <2>22. running.call[c].state \in Settled BY <2>2, <2>15, <2>21, EasesState
  <2>23. Eases(up, t)
    BY <2>2, <2>3, <2>21, <2>22, SetStateEases, EasesTwice
  <2> HIDE DEF t
  <2>24. t.call[c].state \in Settled BY <2>2, <2>15, <2>23, EasesState
  <2> QED BY <2>2, <2>18, <2>23, <2>24, EasesWhole, MovesEases DEF t
<1> QED BY <1>1, <1>2

-----------------------------------------------------------------------------
(***************************************************************************)
(* API functions that open calls                                           *)
(***************************************************************************)

\* The INVITE of a call in OutgoingInit is sent, or cannot be.
LEMMA StartInviteKeeps ==
  ASSUME NEW s, Whole(s), NEW c \in Calls, s.call[c].state = "OutgoingInit",
         NEW sent \in BOOLEAN
  PROVE  LET t == linphone_core_start_invite(s, c, sent) IN
         Whole(t) /\ Moves(s, t, c) /\ t.call[c].state \in Live \cup Ended
<1> DEFINE k == [s.call[c] EXCEPT !.media = "init", !.media_pending = TRUE]
           ready == Store(s, c, k)
           marked == Store(ready, c, [ready.call[c] EXCEPT !.terminated = FALSE])
           x == IF sent THEN eXosip_call_send_initial_invite(ready.call[c].local) ELSE NoContext
           called == Signal(marked, c, x)
           stopped == linphone_call_stop_media_streams(called, c)
           t == linphone_core_start_invite(s, c, sent)
<1>1. s \in States /\ s.call[c] \in CallRecords /\ s.ctx[c].stage = "none"
      /\ c \in s.calls /\ s.call[c].srtp = s.call[c].srtp
  BY StateFields DEF Whole, CallInv, ListInv, Live
<1>2. /\ k \in CallRecords /\ k.state = "OutgoingInit" /\ k.op = s.call[c].op
      /\ k.terminated = s.call[c].terminated /\ k.srtp = s.call[c].srtp
  BY <1>1 DEF CallRecords
<1>3. /\ t = IF sent THEN linphone_call_set_state(called, c, "OutgoingProgress")
             ELSE linphone_call_set_state(stopped, c, "Error")
  BY DEF linphone_core_start_invite, sal_call
<1> HIDE DEF k
<1>4. Eases(s, ready) /\ ready \in States /\ ready.call[c] = k
  BY <1>1, <1>2, StoreEases, StoreTyped
<1> HIDE DEF ready
<1>5. /\ Near(ready, marked, c) /\ marked.call[c].state = "OutgoingInit"
      /\ marked.call[c].op = k.op /\ marked.call[c].terminated = FALSE
      /\ marked.call[c].srtp = k.srtp /\ marked \in States
  BY <1>2, <1>4, MarkNear DEF Near, Core
<1> HIDE DEF marked
<1>6. x \in Contexts
  <2>1. ready.call[c].local \in Dirs BY <1>4, StateFields DEF CallRecords
  <2> QED BY <2>1 DEF eXosip_call_send_initial_invite, NoContext, Contexts, Stages,
                      Dirs, Descriptions
<1>7. x.stage \in {"none", "calling"} /\ (~sent => x.stage = "none")
  BY DEF eXosip_call_send_initial_invite, NoContext
<1> HIDE DEF x
<1>8. /\ Near(marked, called, c) /\ called \in States
      /\ called.call = marked.call /\ called.ctx[c] = x
  BY <1>5, <1>6, SignalNear, SignalTyped
<1> HIDE DEF called
<1>9. Near(s, called, c) BY <1>4, <1>5, <1>8, EasesNear, NearTwice
<1>10. /\ called.call[c].state = "OutgoingInit" /\ ~called.call[c].terminated
       /\ called.call[c].srtp = s.call[c].srtp /\ (called.call[c].op => s.call[c].op)
  BY <1>2, <1>5, <1>8
<1>11. \A i \in 1 .. Len(s.evq) : s.evq[i].cid = c =>
         s.evq[i].type # "INVITE" /\ s.evq[i].type # "REINVITE"
  BY <1>1 DEF Whole, QueueInv, EventInv
<1>12. CallInv(s.call[c], s.ctx[c]) BY DEF Whole
<1>13. CASE sent
  <2>1. "OutgoingProgress" \in Live /\ "OutgoingInit" \notin Ended
        /\ "OutgoingProgress" \notin Ended /\ "OutgoingProgress" \notin Incoming
    BY DEF Live, Ended, Outgoing, Incoming
  <2>2. /\ Near(called, t, c) /\ t.ctx = called.ctx
        /\ t.call[c].state = "OutgoingProgress" /\ t.call[c].op = called.call[c].op
        /\ t.call[c].terminated = called.call[c].terminated
        /\ t.call[c].srtp = called.call[c].srtp
    BY <1>3, <1>8, <1>10, <1>13, <2>1, SetStateLive
  <2> HIDE DEF t
  <2>3. Near(s, t, c) BY <1>9, <2>2, NearTwice
  <2>4. CallInv(t.call[c], t.ctx[c])
    BY <1>10, <1>12, <2>1, <2>2 DEF CallInv, Live
  <2>5. t.calls = s.calls \cup {c} /\ t.current \in t.calls \cup {NoCall}
    BY <1>1, <2>3 DEF Near, Whole, ListInv
  <2>6. Whole(t)
    BY <1>1, <1>11, <2>1, <2>2, <2>3, <2>4, <2>5, WholeStep DEF Near, EventInv, Live
  <2> QED BY <2>1, <2>2, <2>3, <2>6 DEF Moves, Near, Live, t
<1>14. CASE ~sent
  <2>1. Eases(called, stopped) /\ stopped \in States
    BY <1>8, StopMediaEases, EasesState
  <2>2. stopped.ctx = called.ctx
    BY DEF linphone_call_stop_media_streams, Store
  <2> HIDE DEF stopped
  <2>3. /\ Near(called, stopped, c) /\ stopped.call[c].state = "OutgoingInit"
        /\ (stopped.call[c].op => called.call[c].op)
        /\ ~stopped.call[c].terminated /\ stopped.call[c].srtp = called.call[c].srtp
    <3>1. called.call[c].state \notin Settled BY <1>10 DEF Settled
    <3>2. Core(called, stopped, c) /\ Near(called, stopped, c)
      BY <2>1, EasesOnward
    <3>3. /\ stopped.call[c].state = called.call[c].state
          /\ stopped.call[c].terminated = called.call[c].terminated
      BY <2>1, <3>1, EasesCore
    <3> QED BY <1>10, <3>2, <3>3 DEF Core
  <2>4. "Error" \in Ended /\ "OutgoingInit" \notin Ended /\ "Error" \notin Live
    BY DEF Live, Ended, Outgoing, Incoming
  <2>5. /\ Ends(stopped, t, c) /\ t.call[c].state = "Error"
        /\ (t.call[c].op => stopped.call[c].op)
        /\ t.call[c].terminated = stopped.call[c].terminated
        /\ t.call[c].srtp = stopped.call[c].srtp
        /\ t.ctx[c] = stopped.ctx[c]
    BY <1>3, <1>14, <2>1, <2>3, <2>4, SetStateEnded
  <2> HIDE DEF t
  <2>6. Ends(s, t, c) BY <1>9, <2>3, <2>5, NearTwice, NearEnds
  <2>7. Core(s, t, c)
    BY <1>1, <1>7, <1>8, <1>10, <1>14, <2>2, <2>3, <2>5 DEF Core, StageStep
  <2>8. Whole(t) /\ Moves(s, t, c)
    BY <1>7, <1>8, <1>14, <2>2, <2>4, <2>5, <2>6, <2>7, EndsWhole DEF Live
  <2> QED BY <2>4, <2>5, <2>8 DEF t
<1> QED BY <1>13, <1>14

\* A state in which the object c and its context are still unused.
Fresh(s, c) == s.call[c].state = "Idle" /\ s.ctx[c].stage = "none"

LEMMA NewCallTyped == NewCall \in CallRecords
  BY DEF NewCall, CallRecords, CallStates, Dirs, Descriptions

LEMMA OutgoingTyped ==
  ASSUME NEW referer \in Calls \cup {NoCall}, NEW srtp \in BOOLEAN,
         NEW k, k = [NewCall EXCEPT !.refcnt = 1, !.op = TRUE, !.referer = referer,
                                    !.srtp = srtp]
  PROVE  /\ k \in CallRecords
         /\ k.state = "Idle" /\ k.terminated = FALSE /\ k.srtp = srtp
<1> DEFINE n == 1
           m == NewCall
<1>1. n \in Int /\ m \in CallRecords BY NewCallTyped
<1>2. k = [m EXCEPT !.refcnt = n, !.op = TRUE, !.referer = referer, !.srtp = srtp] OBVIOUS
<1> HIDE DEF n, m
<1>3. k \in CallRecords BY <1>1, <1>2 DEF CallRecords
<1> QED BY <1>2, <1>3 DEF NewCall, m

LEMMA IncomingTyped ==
  ASSUME NEW md \in Descriptions,
         NEW k, k = [NewCall EXCEPT !.refcnt = 1, !.op = TRUE, !.did = TRUE, !.remote = md]
  PROVE  /\ k \in CallRecords
         /\ k.state = "Idle" /\ k.terminated = FALSE /\ k.srtp = FALSE
<1> DEFINE n == 1
           m == NewCall
<1>1. n \in Int /\ m \in CallRecords BY NewCallTyped
<1>2. k = [m EXCEPT !.refcnt = n, !.op = TRUE, !.did = TRUE, !.remote = md] OBVIOUS
<1> HIDE DEF n, m
<1>3. k \in CallRecords BY <1>1, <1>2 DEF CallRecords
<1> QED BY <1>2, <1>3 DEF NewCall, m

\* The object of an outgoing call is made, and keeps its referer.
LEMMA NewOutgoingNear ==
  ASSUME NEW s \in States, NEW c \in Calls, NEW referer \in Calls \cup {NoCall},
         referer # c
  PROVE  LET t == linphone_call_new_outgoing(s, c, referer) IN
         /\ Near(s, t, c) /\ t.ctx = s.ctx /\ t.current = s.current
         /\ t.call[c].state = "Idle" /\ ~t.call[c].terminated
         /\ (t.call[c].srtp => "srtp" \in Features)
<1> DEFINE b == "srtp" \in Features
           k == [NewCall EXCEPT !.refcnt = 1, !.op = TRUE, !.referer = referer, !.srtp = b]
           m == Store(s, c, k)
           made == [m EXCEPT !.friends = "OnThePhone"]
           n == s.call[referer].refcnt + 1
           r == [s.call[referer] EXCEPT !.refcnt = n]
           t == linphone_call_new_outgoing(s, c, referer)
<1>3. t = IF referer = NoCall THEN made ELSE Store(made, referer, r)
  BY DEF linphone_call_new_outgoing
<1>0. b \in BOOLEAN /\ (b => "srtp" \in Features) OBVIOUS
<1> HIDE DEF b
<1>1. /\ k \in CallRecords
      /\ k.state = "Idle" /\ k.terminated = FALSE /\ k.srtp = b
  BY <1>0, OutgoingTyped
<1> HIDE DEF k
<1>4. /\ m \in States /\ Near(s, m, c) /\ m.call[c] = k /\ m.ctx = s.ctx
      /\ m.current = s.current /\ m.calls = s.calls
      /\ \A d \in Calls : d # c => m.call[d] = s.call[d]
  BY <1>1, StoreNear, StoreTyped
<1> HIDE DEF m
<1>5. /\ made \in States /\ made.call = m.call /\ made.ctx = m.ctx
      /\ made.calls = m.calls /\ made.current = m.current /\ made.evq = m.evq
  BY <1>4 DEF States
<1> HIDE DEF made
<1>6. Near(s, made, c) BY <1>4, <1>5 DEF Near, Eased
<1>7. CASE referer = NoCall BY <1>0, <1>1, <1>3, <1>4, <1>5, <1>6, <1>7
<1>8. CASE referer \in Calls
  <2>1. s.call[referer] \in CallRecords /\ made.call[referer] = s.call[referer]
    BY <1>4, <1>5, <1>8, StateFields
  <2>2. n \in Int BY <2>1 DEF CallRecords
  <2> HIDE DEF n
  <2>3. /\ r \in CallRecords /\ r.state = s.call[referer].state
        /\ r.op = s.call[referer].op /\ r.terminated = s.call[referer].terminated
        /\ r.srtp = s.call[referer].srtp
    BY <2>1, <2>2 DEF CallRecords
  <2> HIDE DEF r
  <2>4. Eases(made, Store(made, referer, r))
    <3>1. /\ r.state = made.call[referer].state /\ r.op = made.call[referer].op
          /\ r.terminated = made.call[referer].terminated
          /\ r.srtp = made.call[referer].srtp
      BY <2>1, <2>3
    <3> QED BY <1>5, <1>8, <2>3, <3>1, StoreEases
  <2>5. /\ Store(made, referer, r).call[c] = made.call[c]
        /\ Store(made, referer, r).ctx = made.ctx
        /\ Store(made, referer, r).current = made.current
    BY <1>5, <1>8, <2>3, StoreTyped
  <2>6. t = Store(made, referer, r) BY <1>3, <1>8, NoCallIsNone
  <2>7. Near(s, t, c) BY <1>6, <2>4, <2>6, EasesNear, NearTwice
  <2> QED BY <1>0, <1>1, <1>4, <1>5, <2>5, <2>6, <2>7
<1> QED BY <1>7, <1>8

\* A new call enters the list.
LEMMA InviteKeeps ==
  ASSUME NEW s, Whole(s), NEW c \in Calls, Fresh(s, c),
         NEW referer \in Calls \cup {NoCall}, referer # c,
         NEW ping \in BOOLEAN, NEW sent \in BOOLEAN
  PROVE  Keeps(s, linphone_core_invite_address_with_params(s, c, referer, ping, sent))
<1> DEFINE freed == linphone_core_preempt_sound_resources(s)
           made == linphone_call_new_outgoing(freed, c, referer)
           added == [made EXCEPT !.calls = @ \cup {c}, !.current = c]
           started == linphone_call_set_state(added, c, "OutgoingInit")
           t == linphone_core_invite_address_with_params(s, c, referer, ping, sent)
<1>1. s \in States BY DEF Whole
<1>2. Eases(s, freed) /\ freed \in States BY <1>1, PreemptEases
<1>3. t = IF ~linphone_core_can_we_add_call(freed) THEN freed
          ELSE IF ping THEN started ELSE linphone_core_start_invite(started, c, sent)
  BY DEF linphone_core_invite_address_with_params
<1> HIDE DEF freed
<1>4. Whole(freed) /\ Keeps(s, freed) BY <1>2, EasesWhole
<1>5. Fresh(freed, c)
  BY <1>2, EasesCore DEF Fresh, Settled, Live, Outgoing, Incoming, StageStep
<1>6. CASE linphone_core_can_we_add_call(freed)
  <2>1. /\ Near(freed, made, c) /\ made.ctx = freed.ctx /\ made.current = freed.current
        /\ made.call[c].state = "Idle" /\ ~made.call[c].terminated
        /\ (made.call[c].srtp => "srtp" \in Features)
    BY <1>2, NewOutgoingNear
  <2> HIDE DEF made
  <2>2. /\ added \in States /\ added.calls = freed.calls \cup {c} /\ added.current = c
        /\ added.call = made.call /\ added.ctx = freed.ctx /\ added.evq = freed.evq
    BY <2>1 DEF Near, States
  <2> HIDE DEF added
  <2>3. "OutgoingInit" \in Live /\ "OutgoingInit" \notin Ended /\ "OutgoingInit" \notin Incoming
        /\ "Idle" \notin Ended /\ "Idle" \notin Live
    BY DEF Live, Ended, Outgoing, Incoming
  <2>4. /\ Near(added, started, c) /\ started.ctx = added.ctx
        /\ started.current = added.current
        /\ started.call[c].state = "OutgoingInit"
        /\ started.call[c].terminated = added.call[c].terminated
        /\ started.call[c].srtp = added.call[c].srtp
    BY <2>1, <2>2, <2>3, SetStateLive
  <2> HIDE DEF started
  <2>5. \A d \in Calls : d # c => Eased(freed, started, d)
    <3>1. \A d \in Calls : d # c => Eased(freed, added, d)
      BY <2>1, <2>2 DEF Near, Eased
    <3> QED BY <2>4, <3>1, EasedTwice DEF Near
  <2>6. /\ started \in States /\ started.evq = freed.evq
        /\ started.calls = freed.calls \cup {c} /\ started.current = c
    BY <2>2, <2>4 DEF Near
  <2>7. CallInv(started.call[c], started.ctx[c])
    BY <1>5, <2>1, <2>2, <2>3, <2>4 DEF CallInv, Fresh
  <2>8. \A i \in 1 .. Len(freed.evq) : freed.evq[i].cid = c =>
          freed.evq[i].type # "INVITE" /\ freed.evq[i].type # "REINVITE"
    BY <1>4, <1>5 DEF Whole, QueueInv, EventInv, Fresh
  <2>9. Cardinality(freed.calls) < MaxCalls BY <1>6 DEF linphone_core_can_we_add_call
  <2>10. Whole(started)
    BY <1>4, <2>3, <2>4, <2>5, <2>6, <2>7, <2>8, <2>9, WholeStep DEF EventInv
  <2>11. Moves(freed, started, c)
    BY <1>5, <2>3, <2>4, <2>5, <2>9 DEF Moves, Fresh
  <2>12. /\ Whole(linphone_core_start_invite(started, c, sent))
         /\ Moves(started, linphone_core_start_invite(started, c, sent), c)
         /\ linphone_core_start_invite(started, c, sent).call[c].state \in Live \cup Ended
    BY <2>4, <2>10, StartInviteKeeps
  <2>13. Moves(freed, linphone_core_start_invite(started, c, sent), c)
    BY <2>3, <2>4, <2>11, <2>12, MovesMoves
  <2>14. Whole(t) /\ Moves(freed, t, c)
    BY <1>3, <1>6, <2>10, <2>11, <2>12, <2>13
  <2> HIDE DEF t
  <2>15. Keeps(s, t) BY <1>2, <2>14, EasesMoves, KeepsMoves
  <2> QED BY <2>15 DEF t
<1>7. CASE ~linphone_core_can_we_add_call(freed) BY <1>3, <1>4, <1>7
<1> QED BY <1>6, <1>7

\* A transfer starts its call when one is asked for and can be made.
LEMMA StartReferedKeeps ==
  ASSUME NEW s, Whole(s), NEW c \in Calls, NEW n \in Calls \cup {NoCall},
         n # c, n # NoCall => Fresh(s, n)
  PROVE  Keeps(s, linphone_core_start_refered_call(s, c, n))
<1> DEFINE k == [s.call[c] EXCEPT !.refer_pending = FALSE]
           taken == Store(s, c, k)
           t == linphone_core_start_refered_call(s, c, n)
<1>1. s \in States /\ s.call[c] \in CallRecords BY StateFields DEF Whole
<1>2. /\ k \in CallRecords /\ k.state = s.call[c].state /\ k.op = s.call[c].op
      /\ k.terminated = s.call[c].terminated /\ k.srtp = s.call[c].srtp
  BY <1>1 DEF CallRecords
<1>3. t = IF ~s.call[c].refer_pending THEN s
          ELSE IF n = NoCall THEN taken
          ELSE linphone_core_invite_address_with_params(taken, n, c, FALSE, TRUE)
  BY DEF linphone_core_start_refered_call
<1> HIDE DEF k
<1>4. /\ Eases(s, taken) /\ taken.ctx = s.ctx
      /\ \A d \in Calls : d # c => taken.call[d] = s.call[d]
  BY <1>1, <1>2, StoreEases, StoreTyped
<1> HIDE DEF taken
<1>5. Whole(taken) /\ Keeps(s, taken) BY <1>4, EasesWhole
<1>6. Keeps(s, s) BY <1>1, EasesSelf, EasesWhole
<1>7. CASE n # NoCall
  <2>1. n \in Calls /\ Fresh(taken, n) BY <1>4, <1>7 DEF Fresh
  <2>2. Keeps(taken, linphone_core_invite_address_with_params(taken, n, c, FALSE, TRUE))
    BY <1>5, <2>1, InviteKeeps
  <2>3. Keeps(s, linphone_core_invite_address_with_params(taken, n, c, FALSE, TRUE))
    BY <1>4, <2>2, EasesKeeps
  <2> QED BY <1>3, <1>5, <1>6, <2>3
<1>8. CASE n = NoCall BY <1>3, <1>5, <1>6, <1>8
<1> QED BY <1>7, <1>8

-----------------------------------------------------------------------------
(***************************************************************************)
(* The handlers of the events                                              *)
(***************************************************************************)

\* A SalOp belongs to a call that is live or has ended.
LEMMA OpState ==
  ASSUME NEW s, Whole(s), NEW c \in Calls, s.call[c].op
  PROVE  /\ s \in States /\ s.call[c].state \in Live \cup Ended
         /\ s.call[c].terminated => s.call[c].state \in Ended
  BY DEF Whole, CallInv

LEMMA WholeSelf ==
  ASSUME NEW s, Whole(s)
  PROVE  s \in States /\ Eases(s, s) /\ Keeps(s, s)
<1>1. s \in States BY DEF Whole
<1> QED BY <1>1, EasesSelf, EasesWhole

-----------------------------------------------------------------------------
(***************************************************************************)
(* Responses to our INVITE                                                 *)
(***************************************************************************)

LEMMA ProceedingKeeps ==
  ASSUME NEW s, Whole(s), NEW c \in Calls
  PROVE  Keeps(s, sal_call_proceeding(s, c))
<1>1. Eases(s, sal_call_proceeding(s, c))
  BY WholeSelf, HangupEases DEF sal_call_proceeding
<1> QED BY <1>1, EasesWhole

LEMMA CallRingingKeeps ==
  ASSUME NEW s, Whole(s), NEW c \in Calls, s.call[c].state \in Live \cup Ended
  PROVE  Keeps(s, call_ringing(s, c))
<1> DEFINE md == s.call[c].result
           early == linphone_call_set_state(s, c, "OutgoingEarlyMedia")
           heard == linphone_core_update_streams(early, c, md)
           tone == [s EXCEPT !.ring = TRUE]
           ringing == linphone_call_set_state(tone, c, "OutgoingRinging")
<1>1. s \in States /\ Eases(s, s) /\ Keeps(s, s) BY WholeSelf
<1>2. "OutgoingEarlyMedia" \in Settled /\ "OutgoingRinging" \in Settled
  BY DEF Settled, Live, Outgoing, Incoming
<1>3. call_ringing(s, c) \in {s, ringing, heard}
  BY DEF call_ringing
<1>4. md \in Descriptions BY <1>1, StateFields DEF CallRecords
<1> HIDE DEF md
<1>5. Eases(s, tone) BY <1>1, RingEases
<1> HIDE DEF tone
<1>6. Keeps(s, ringing) BY <1>2, <1>5, ToSettled
<1>7. Keeps(s, early) /\ early \in States BY <1>1, <1>2, ToSettled DEF Whole
<1> HIDE DEF early
<1>8. Keeps(s, heard) BY <1>4, <1>7, UpdateStreamsEases, KeepsEases
<1> QED BY <1>1, <1>3, <1>6, <1>8

LEMMA RingingKeeps ==
  ASSUME NEW s, Whole(s), NEW c \in Calls, NEW md \in Descriptions
  PROVE  Keeps(s, sal_call_ringing(s, c, md))
<1> DEFINE known == SetDialog(s, c)
           answered == SetAnswer(known, c, md)
<1>1. s \in States BY DEF Whole
<1>2. CASE ~s.call[c].op \/ s.call[c].terminated
  BY <1>1, <1>2, HangupEases, EasesWhole DEF sal_call_ringing
<1>3. CASE s.call[c].op /\ ~s.call[c].terminated
  <2>1. s.call[c].state \in Live \cup Ended BY <1>3, OpState
  <2>2. sal_call_ringing(s, c, md) \in {call_ringing(known, c), call_ringing(answered, c)}
    BY <1>3 DEF sal_call_ringing
  <2>3. Eases(s, known) /\ known \in States BY <1>1, SetDialogEases, EasesState
  <2> HIDE DEF known
  <2>4. Eases(s, answered) BY <2>3, SetAnswerEases, EasesTwice
  <2> HIDE DEF answered
  <2>5. \A u \in {known, answered} : Keeps(s, call_ringing(u, c))
    <3> SUFFICES ASSUME NEW u \in {known, answered} PROVE Keeps(s, call_ringing(u, c))
      OBVIOUS
    <3>1. Eases(s, u) /\ Whole(u) BY <2>3, <2>4, EasesWhole
    <3>2. u.call[c].state \in Live \cup Ended
      BY <2>1, <3>1, EasesState DEF Settled, Ended
    <3>3. Keeps(u, call_ringing(u, c)) BY <3>1, <3>2, CallRingingKeeps
    <3> QED BY <3>1, <3>3, EasesKeeps
  <2> QED BY <2>2, <2>5
<1> QED BY <1>2, <1>3

LEMMA CallAcceptedKeeps ==
  ASSUME NEW s, Whole(s), NEW c \in Calls, s.call[c].state \in Settled,
         NEW n \in Calls \cup {NoCall}, n # c, n # NoCall => Fresh(s, n)
  PROVE  Keeps(s, call_accepted(s, c, n))
<1> DEFINE md == s.call[c].result
           connected == IF s.call[c].state \in Outgoing
                        THEN linphone_call_set_state(s, c, "Connected") ELSE s
           streams == linphone_core_update_streams(connected, c, md)
           paused == linphone_call_set_state(streams, c, "Paused")
           running == [streams EXCEPT !.current = c]
           held == linphone_call_set_state(streams, c, "PausedByRemote")
           going == linphone_call_set_state(running, c, "StreamsRunning")
           t == call_accepted(s, c, n)
<1>1. s \in States /\ Eases(s, s) BY WholeSelf
<1>2. c \in s.calls BY DEF Whole, ListInv, Settled
<1>3. {"Connected", "Paused", "PausedByRemote", "StreamsRunning"} \subseteq Settled
      /\ Settled \subseteq Live
  BY DEF Settled, Live, Outgoing, Incoming
<1>4. md \in Descriptions BY <1>1, StateFields DEF CallRecords
<1>5. t \in {linphone_core_abort_call(connected, c), held, going,
             linphone_core_start_refered_call(paused, c, n)}
  <2>1. CASE ~Usable(md) BY <2>1 DEF call_accepted
  <2>2. CASE Usable(md)
    <3>1. md \in Dirs
      BY <1>4, <2>2 DEF Usable, sal_media_description_empty, Descriptions
    <3> HIDE DEF md
    <3>2. t = CASE ~Usable(md) -> linphone_core_abort_call(connected, c)
                [] md \in {"SendOnly", "Inactive"} ->
                     linphone_core_start_refered_call(paused, c, n)
                [] md = "RecvOnly" -> held
                [] md = "SendRecv" -> going
      BY DEF call_accepted, md
    <3> HIDE DEF t, connected, streams, paused, running, held, going
    <3> QED BY <2>2, <3>1, <3>2 DEF Dirs
  <2> QED BY <2>1, <2>2
<1> HIDE DEF t, md
<1>6. Eases(s, connected) /\ connected \in States
  BY <1>1, <1>3, SetStateEases, EasesState
<1> HIDE DEF connected
<1>7. Keeps(s, linphone_core_abort_call(connected, c))
  <2>1. Whole(connected) /\ connected.call[c].state \in Live \cup Ended
    BY <1>3, <1>6, EasesWhole, EasesState
  <2> QED BY <1>6, <2>1, AbortKeeps, EasesKeeps
<1>8. Eases(s, streams) /\ streams \in States
  BY <1>4, <1>6, UpdateStreamsEases, EasesTwice, EasesState
<1>9. streams.calls = s.calls BY <1>8 DEF Eases, Near
<1> HIDE DEF streams
<1>10. streams.call[c].state \in Settled BY <1>8, EasesState
<1>11. Keeps(s, held)
  BY <1>3, <1>8, <1>10, SetStateEases, EasesTwice, EasesWhole
<1>12. Eases(s, running) /\ running \in States
  BY <1>2, <1>8, <1>9, CurrentEases, EasesTwice, EasesState
<1> HIDE DEF running
<1>13. running.call[c].state \in Settled BY <1>12, EasesState
<1>14. Keeps(s, going)
  BY <1>3, <1>12, <1>13, SetStateEases, EasesTwice, EasesWhole
<1>15. Eases(s, paused) BY <1>3, <1>8, <1>10, SetStateEases, EasesTwice
<1> HIDE DEF paused
<1>16. n # NoCall => Fresh(paused, n)
  BY <1>15, EasesCore DEF Fresh, Settled, Live, Outgoing, Incoming, StageStep
<1>17. Whole(paused) BY <1>15, EasesWhole
<1>18. Keeps(s, linphone_core_start_refered_call(paused, c, n))
  BY <1>15, <1>16, <1>17, StartReferedKeeps, EasesKeeps
<1> QED BY <1>5, <1>7, <1>11, <1>14, <1>18 DEF t

\* An answer is only taken by a call whose dialog is confirmed; such a call
\* has not ended, is not incoming and has sent its INVITE.
LEMMA AcceptedKeeps ==
  ASSUME NEW s, Whole(s), NEW c \in Calls, NEW md \in Descriptions,
         NEW n \in Calls \cup {NoCall}, n # NoCall => Fresh(s, n)
  PROVE  Keeps(s, sal_call_accepted(s, c, md, n))
<1> DEFINE known == SetDialog(s, c)
           answered == SetAnswer(known, c, md)
<1>1. s \in States BY DEF Whole
<1>2. Eases(s, known) /\ known \in States BY <1>1, SetDialogEases, EasesState
<1>3. sal_call_accepted(s, c, md, n) =
        IF ~s.call[c].op \/ s.call[c].terminated THEN Hangup(s, c)
        ELSE IF s.ctx[c].stage # "conf" THEN Hangup(answered, c)
        ELSE call_accepted(answered, c, n)
  BY DEF sal_call_accepted
<1> HIDE DEF known
<1>4. Eases(s, answered) /\ answered \in States
  BY <1>2, SetAnswerEases, EasesTwice, EasesState
<1> HIDE DEF answered
<1>5. CASE ~s.call[c].op \/ s.call[c].terminated
  BY <1>1, <1>3, <1>5, HangupEases, EasesWhole
<1>6. CASE s.call[c].op /\ ~s.call[c].terminated /\ s.ctx[c].stage # "conf"
  BY <1>3, <1>4, <1>6, HangupEases, EasesTwice, EasesWhole
<1>7. CASE s.call[c].op /\ ~s.call[c].terminated /\ s.ctx[c].stage = "conf"
  <2>1. s.call[c].state \in Settled
    BY <1>7, OpState DEF Whole, CallInv, Settled
  <2>2. Whole(answered) /\ answered.call[c].state \in Settled
    BY <1>4, <2>1, EasesWhole, EasesState
  <2>3. n # NoCall => Fresh(answered, n)
    BY <1>4, EasesCore DEF Fresh, Settled, Live, Outgoing, Incoming, StageStep
  <2>4. n # c
    BY <2>1, NoCallIsNone DEF Fresh, Settled, Live, Outgoing, Incoming
  <2>5. Keeps(answered, call_accepted(answered, c, n))
    BY <2>2, <2>3, <2>4, CallAcceptedKeeps
  <2> QED BY <1>3, <1>4, <1>7, <2>5, EasesKeeps
<1> QED BY <1>5, <1>6, <1>7

-----------------------------------------------------------------------------
(***************************************************************************)
(* The end and the release of a call                                       *)
(***************************************************************************)

\* A failed call is over and its operation is marked terminated.  This is
\* where SRTP must be off: its second attempt leaves the call as it is.
LEMMA FailureOver ==
  ASSUME "srtp" \notin Features,
         NEW s, Whole(s), NEW c \in Calls, s.call[c].op, NEW failure
  PROVE  LET t == sal_call_failure(s, c, failure) IN
         /\ Ends(s, t, c) /\ Core(s, t, c) /\ t.call[c].state \in Ended
         /\ s.call[c].state \in {t.call[c].state} \cup Live
         /\ t.call[c].terminated
<1> DEFINE u == SetTerminated(s, c)
           q == Quiet(u)
           silent == linphone_call_stop_media_streams(q, c)
           referer == u.call[c].referer
           resumed == linphone_core_resume_call(silent, referer)
           back == IF referer # NoCall /\ u.call[referer].state = "Paused"
                      /\ u.call[referer].was_automatically_paused
                   THEN resumed ELSE silent
           cstate == IF failure = "Declined" THEN "End" ELSE "Error"
           t == sal_call_failure(s, c, failure)
<1>1. s \in States /\ s.call[c].state \in Live \cup Ended BY OpState
<1>2. /\ Near(s, u, c) /\ Core(s, u, c) /\ u.call[c].state = s.call[c].state
      /\ u.call[c].terminated = TRUE
  BY <1>1, MarkNear DEF SetTerminated
<1>3. ~u.call[c].srtp BY <1>2 DEF Core, Whole, CallInv
<1>4. t = linphone_call_set_state(back, c, cstate)
  BY <1>3 DEF sal_call_failure, call_failure
<1>5. cstate \in Ended BY DEF Ended
<1> HIDE DEF u, cstate
<1>6. u \in States BY <1>2 DEF Near
<1>7. referer \in Calls \cup {NoCall} BY <1>6, StateFields DEF CallRecords
<1>8. Eases(u, q) /\ q \in States BY <1>6, QuietEases, EasesState
<1> HIDE DEF q
<1>9. Eases(u, silent) /\ silent \in States
  BY <1>8, StopMediaEases, EasesTwice, EasesState
<1> HIDE DEF silent, referer
<1>10. Eases(u, back) BY <1>7, <1>9, ResumeEases, EasesTwice
<1> HIDE DEF back
<1>11. /\ Near(s, back, c) /\ Core(s, back, c)
  BY <1>2, <1>10, EasesOnward, NearOnward
<1>12. back.call[c].terminated = TRUE BY <1>2, <1>10, EasesCore
<1>13. \/ s.call[c].state \in Live /\ back.call[c].state \in Live
       \/ back.call[c].state = s.call[c].state
  BY <1>2, <1>10, EasesState DEF Settled
<1> QED BY <1>1, <1>4, <1>5, <1>11, <1>12, <1>13, SetStateOver

LEMMA FailureKeeps ==
  ASSUME "srtp" \notin Features,
         NEW s, Whole(s), NEW c \in Calls, NEW failure
  PROVE  Keeps(s, sal_call_failure(s, c, failure))
<1> DEFINE t == sal_call_failure(s, c, failure)
<1>1. CASE s.call[c].op
  <2>1. /\ Ends(s, t, c) /\ Core(s, t, c) /\ t.call[c].state \in Ended
        /\ s.call[c].state \in {t.call[c].state} \cup Live
        /\ t.call[c].terminated
    BY <1>1, FailureOver
  <2>2. s.call[c].state \in Live \cup Ended BY <1>1, OpState
  <2> HIDE DEF t
  <2>3. t.call[c].state # "Released" BY <2>1 DEF Ended
  <2>4. Whole(t) /\ Moves(s, t, c) BY <2>1, <2>2, <2>3, EndsWhole
  <2> QED BY <2>4, KeepsMoves DEF t
<1>2. CASE ~s.call[c].op BY <1>2, WholeSelf DEF sal_call_failure
<1> QED BY <1>1, <1>2

\* The operation is marked terminated after the callback has ended the call.
LEMMA TerminatedKeeps ==
  ASSUME NEW s, Whole(s), NEW c \in Calls
  PROVE  Keeps(s, sal_call_terminated(s, c))
<1> DEFINE b == s.ring /\ Cardinality(s.calls) # 1 /\ s.current = NoCall
           q == [s EXCEPT !.ring = b]
           m == linphone_call_stop_media_streams(q, c)
           over == linphone_call_set_state(m, c, "End")
           u == call_terminated(s, c)
           t == SetTerminated(u, c)
<1>1. CASE s.call[c].op
  <2>1. s \in States /\ s.call[c].state \in Live \cup Ended BY <1>1, OpState
  <2>2. u = IF s.call[c].state \in Ended THEN s ELSE over
    BY DEF call_terminated
  <2>3. s.ring \in BOOLEAN BY <2>1, StateFields
  <2>4. b \in BOOLEAN BY <2>3
  <2> HIDE DEF b
  <2>5. Eases(s, q) /\ q \in States BY <2>1, <2>4, RingEases, EasesState
  <2> HIDE DEF q
  <2>6. Eases(s, m) BY <2>5, StopMediaEases, EasesTwice
  <2> HIDE DEF m, u
  <2>7. /\ Ends(s, u, c) /\ Core(s, u, c)
        /\ u.call[c].state \in Ended
        /\ s.call[c].state \in {u.call[c].state} \cup Live
    <3>1. CASE s.call[c].state \in Ended
      <4>1. Near(s, s, c) /\ Core(s, s, c) BY <2>1, EasesSelf, EasesOnward
      <4>2. s.call[c].state \notin Live
        BY <3>1 DEF Live, Ended, Outgoing, Incoming
      <4> QED BY <2>2, <3>1, <4>1, <4>2, NearOver
    <3>2. CASE s.call[c].state \notin Ended
      <4>1. Near(s, m, c) /\ Core(s, m, c) BY <2>6, EasesOnward
      <4>2. "End" \in Ended BY DEF Ended
      <4>3. s.call[c].state \in Live /\ m.call[c].state \in Live
        BY <2>1, <2>6, <3>2, EasesState DEF Settled
      <4> QED BY <2>1, <2>2, <3>2, <4>1, <4>2, <4>3, SetStateOver
    <3> QED BY <3>1, <3>2
  <2>8. u \in States BY <2>7 DEF Ends
  <2>9. /\ Near(u, t, c) /\ Core(u, t, c) /\ t.call[c].state = u.call[c].state
        /\ t.call[c].terminated = TRUE
    BY <2>8, MarkNear DEF SetTerminated
  <2> HIDE DEF t
  <2>10. Ends(s, t, c) /\ Core(s, t, c) BY <2>7, <2>9, EndsNear, CoreTwice
  <2>11. t.call[c].state # "Released" BY <2>7, <2>9 DEF Ended
  <2>12. Whole(t) /\ Moves(s, t, c)
    BY <2>1, <2>7, <2>9, <2>10, <2>11, EndsWhole
  <2>13. sal_call_terminated(s, c) = t BY <1>1 DEF sal_call_terminated, t, u
  <2> QED BY <2>12, <2>13, KeepsMoves
<1>2. CASE ~s.call[c].op BY <1>2, WholeSelf DEF sal_call_terminated
<1> QED BY <1>1, <1>2

\* A released call has lost its SalOp.
LEMMA SetStateReleased ==
  ASSUME NEW s \in States, NEW c \in Calls, s.call[c].state \in Ended
  PROVE  LET t == linphone_call_set_state(s, c, "Released") IN
         /\ Near(s, t, c) /\ Core(s, t, c)
         /\ t.call[c].state = "Released" /\ ~t.call[c].op
<1> DEFINE k == [s.call[c] EXCEPT !.state = "Released", !.op = FALSE]
           closed == Store(s, c, k)
           t == linphone_call_unref(closed, c)
<1>1. s.call[c] \in CallRecords BY StateFields
<1>2. /\ k \in CallRecords /\ k.state = "Released" /\ k.op = FALSE
      /\ k.srtp = s.call[c].srtp
  BY <1>1 DEF CallRecords, CallStates
<1>3. linphone_call_set_state(s, c, "Released") = t
  BY DEF linphone_call_set_state, Ended
<1> HIDE DEF k
<1>4. /\ Near(s, closed, c) /\ closed \in States /\ closed.call[c] = k
      /\ Core(s, closed, c)
  BY <1>2, StoreNear, StoreTyped DEF Core, StageStep
<1> HIDE DEF closed
<1>5. Eases(closed, t) BY <1>4, UnrefEases
<1> HIDE DEF t
<1>6. "Released" \notin Settled BY DEF Settled, Live, Outgoing, Incoming
<1>7. t.call[c].state = "Released" BY <1>2, <1>4, <1>5, <1>6, EasesState
<1>8. Near(s, t, c) /\ Core(s, t, c) BY <1>4, <1>5, EasesOnward, NearOnward
<1>9. ~t.call[c].op BY <1>2, <1>4, <1>5, EasesCore DEF Core
<1> QED BY <1>3, <1>7, <1>8, <1>9

LEMMA ReleasedKeeps ==
  ASSUME "srtp" \notin Features, NEW s, Whole(s), NEW c \in Calls
  PROVE  Keeps(s, call_released(s, c))
<1> DEFINE u == IF s.call[c].terminated THEN s ELSE sal_call_failure(s, c, "NoResponse")
           t == linphone_call_set_state(u, c, "Released")
<1>1. CASE s.call[c].op
  <2>1. s \in States /\ s.call[c].state \in Live \cup Ended BY <1>1, OpState
  <2>2. Ends(s, u, c) /\ Core(s, u, c) /\ u.call[c].state \in Ended
    <3>1. CASE s.call[c].terminated
      <4>1. s.call[c].state \in Ended /\ s.call[c].state \notin Live
        BY <1>1, <3>1, OpState DEF Live, Ended, Outgoing, Incoming
      <4>2. Near(s, s, c) /\ Core(s, s, c) BY <2>1, EasesSelf, EasesOnward
      <4> QED BY <3>1, <4>1, <4>2, NearOver
    <3>2. CASE ~s.call[c].terminated BY <1>1, <3>2, FailureOver
    <3> QED BY <3>1, <3>2
  <2>3. call_released(s, c) = t BY <1>1 DEF call_released
  <2> HIDE DEF u
  <2>4. u \in States BY <2>2 DEF Ends
  <2>5. /\ Near(u, t, c) /\ Core(u, t, c)
        /\ t.call[c].state = "Released" /\ ~t.call[c].op
    BY <2>2, <2>4, SetStateReleased
  <2> HIDE DEF t
  <2>6. Ends(s, t, c) /\ Core(s, t, c) BY <2>2, <2>5, EndsNear, CoreTwice
  <2>7. Whole(t) /\ Moves(s, t, c) BY <2>1, <2>5, <2>6, EndsWhole
  <2> QED BY <2>3, <2>7, KeepsMoves
<1>2. CASE ~s.call[c].op BY <1>2, WholeSelf DEF call_released
<1> QED BY <1>1, <1>2

-----------------------------------------------------------------------------
(***************************************************************************)
(* Requests of the peer within the dialog                                  *)
(***************************************************************************)

LEMMA UpdatedByRemoteEases ==
  ASSUME NEW s \in States, NEW c \in Calls, s.call[c].state \in Settled, NEW reaction
  PROVE  Eases(s, call_updated_by_remote(s, c, reaction))
<1> DEFINE updated == linphone_call_set_state(s, c, "UpdatedByRemote")
<1>1. "UpdatedByRemote" \in Settled BY DEF Settled, Live, Outgoing, Incoming
<1>2. Eases(s, updated) /\ updated \in States BY <1>1, SetStateEases, EasesState
<1>3. call_updated_by_remote(s, c, reaction) \in
        {updated, linphone_core_accept_call_update(updated, c)}
  BY DEF call_updated_by_remote
<1> HIDE DEF updated
<1> QED BY <1>2, <1>3, AcceptCallUpdateEases, EasesTwice

LEMMA UpdatingEases ==
  ASSUME NEW s \in States, NEW c \in Calls, s.ctx[c].stage # "incoming",
         NEW reaction
  PROVE  Eases(s, call_updating(s, c, reaction))
<1> DEFINE md == s.call[c].remote
           state == s.call[c].state
           accepted == call_accept_update(s, c)
           awaited == Store(accepted, c, [accepted.call[c] EXCEPT !.media_pending = TRUE])
           running == linphone_call_set_state(accepted, c, "StreamsRunning")
           held == linphone_call_set_state(accepted, c, "PausedByRemote")
           updated == call_updated_by_remote(s, c, reaction)
           t == call_updating(s, c, reaction)
           asksBack == sal_media_description_has_dir(md, "SendRecv")
                       \/ sal_media_description_has_dir(md, "RecvOnly")
           holds == sal_media_description_has_dir(md, "SendOnly")
                    \/ sal_media_description_has_dir(md, "Inactive")
<1>1. {"StreamsRunning", "PausedByRemote", "Connected"} \subseteq Settled
  BY DEF Settled, Live, Outgoing, Incoming
<1>2. Eases(s, accepted) /\ accepted \in States BY AcceptUpdateEases, EasesState
<1>3. t = IF md = "None" THEN awaited
          ELSE CASE state = "PausedByRemote" /\ asksBack -> running
                 [] state = "PausedByRemote" /\ ~asksBack -> accepted
                 [] state \in {"StreamsRunning", "Connected"} /\ holds -> held
                 [] state \in {"StreamsRunning", "Connected"} /\ ~holds -> updated
                 [] OTHER -> accepted
  BY DEF call_updating
<1> HIDE DEF accepted, asksBack, holds, updated, t
<1>4. Eases(s, awaited)
  <2> DEFINE k == [accepted.call[c] EXCEPT !.media_pending = TRUE]
  <2>1. accepted.call[c] \in CallRecords BY <1>2, StateFields
  <2>2. /\ k \in CallRecords /\ k.state = accepted.call[c].state
        /\ k.op = accepted.call[c].op /\ k.terminated = accepted.call[c].terminated
        /\ k.srtp = accepted.call[c].srtp
    BY <2>1 DEF CallRecords
  <2> HIDE DEF k
  <2>3. Eases(s, Store(accepted, c, k)) BY <1>2, <2>2, StoreEases, EasesTwice
  <2> QED BY <2>3 DEF k
<1>5. state \in Settled => Eases(s, running) /\ Eases(s, held) /\ Eases(s, updated)
  <2> SUFFICES ASSUME state \in Settled
               PROVE  Eases(s, running) /\ Eases(s, held) /\ Eases(s, updated)
    OBVIOUS
  <2>1. accepted.call[c].state \in Settled BY <1>2, EasesState
  <2>2. Eases(accepted, running) /\ Eases(accepted, held)
    BY <1>1, <1>2, <2>1, SetStateEases
  <2>3. Eases(s, updated) BY UpdatedByRemoteEases DEF updated
  <2> QED BY <1>2, <2>2, <2>3, EasesTwice
<1> HIDE DEF awaited, running, held, state, md
<1>6. Eases(s, t)
  <2>1. CASE md = "None" BY <1>3, <1>4, <2>1
  <2>2. CASE md # "None" /\ state = "PausedByRemote" BY <1>1, <1>2, <1>3, <1>5, <2>2
  <2>3. CASE md # "None" /\ state \in {"StreamsRunning", "Connected"}
    BY <1>1, <1>2, <1>3, <1>5, <2>3
  <2>4. CASE md # "None" /\ state \notin {"PausedByRemote", "StreamsRunning", "Connected"}
    BY <1>2, <1>3, <2>4
  <2> QED BY <2>1, <2>2, <2>3, <2>4
<1> QED BY <1>6 DEF t

LEMMA ReinviteKeeps ==
  ASSUME NEW s, Whole(s), NEW c \in Calls, NEW md \in Descriptions, NEW reaction,
         s.ctx[c].stage \in {"conf", "closed", "released"}
  PROVE  Keeps(s, handle_reinvite(s, c, md, reaction))
<1> DEFINE k == [s.call[c] EXCEPT !.remote = md, !.result = "None"]
           asked == Store(s, c, k)
<1>1. s \in States /\ s.call[c] \in CallRecords BY StateFields DEF Whole
<1>2. /\ k \in CallRecords /\ k.state = s.call[c].state /\ k.op = s.call[c].op
      /\ k.terminated = s.call[c].terminated /\ k.srtp = s.call[c].srtp
  BY <1>1 DEF CallRecords, Descriptions
<1>3. handle_reinvite(s, c, md, reaction) \in {s, call_updating(asked, c, reaction)}
  BY DEF handle_reinvite
<1> HIDE DEF k
<1>4. Eases(s, asked) /\ asked \in States /\ asked.ctx = s.ctx
  BY <1>1, <1>2, StoreEases, StoreTyped
<1> HIDE DEF asked
<1>5. Eases(s, call_updating(asked, c, reaction))
  BY <1>4, UpdatingEases, EasesTwice
<1> QED BY <1>3, <1>5, WholeSelf, EasesWhole

LEMMA AckKeeps ==
  ASSUME NEW s, Whole(s), NEW c \in Calls, NEW md \in Descriptions
  PROVE  Keeps(s, handle_ack(s, c, md))
<1> DEFINE u == SetAnswer(s, c, md)
           result == u.call[c].result
           streams == linphone_core_update_streams(u, c, result)
           running == linphone_call_set_state(streams, c, "StreamsRunning")
<1>1. CASE s.call[c].op /\ ~s.call[c].terminated
  <2>1. s \in States /\ s.call[c].state \in Live \cup Ended BY <1>1, OpState
  <2>2. Eases(s, u) /\ u \in States BY <2>1, SetAnswerEases, EasesState
  <2>3. handle_ack(s, c, md) \in {u, running, linphone_core_abort_call(u, c)}
    BY <1>1 DEF handle_ack, call_ack
  <2> HIDE DEF u
  <2>4. Whole(u) /\ Keeps(s, u) BY <2>2, EasesWhole
  <2>5. u.call[c].state \in Live \cup Ended BY <2>1, <2>2, EasesState DEF Settled
  <2>6. Keeps(s, linphone_core_abort_call(u, c))
    BY <2>2, <2>4, <2>5, AbortKeeps, EasesKeeps
  <2>7. result \in Descriptions BY <2>2, StateFields DEF CallRecords
  <2> HIDE DEF result
  <2>8. Eases(s, streams) BY <2>2, <2>7, UpdateStreamsEases, EasesTwice
  <2> HIDE DEF streams
  <2>9. "StreamsRunning" \in Settled BY DEF Settled, Live, Outgoing, Incoming
  <2>10. Keeps(s, running) BY <2>1, <2>8, <2>9, ToSettled
  <2> QED BY <2>3, <2>4, <2>6, <2>10
<1>2. CASE ~s.call[c].op \/ s.call[c].terminated BY <1>2, WholeSelf DEF handle_ack
<1> QED BY <1>1, <1>2

LEMMA ReferKeeps ==
  ASSUME NEW s, Whole(s), NEW c \in Calls,
         NEW n \in Calls \cup {NoCall}, n # NoCall => Fresh(s, n)
  PROVE  Keeps(s, refer_received(s, c, n))
<1> DEFINE k == [s.call[c] EXCEPT !.refer_pending = TRUE]
           asked == Store(s, c, k)
           paused == linphone_core_pause_call(asked, c)
           j == [paused.call[c] EXCEPT !.was_automatically_paused = TRUE]
           t == Store(paused, c, j)
<1>1. CASE s.call[c].op
  <2>1. s \in States /\ s.call[c] \in CallRecords /\ s.call[c].state \in Live \cup Ended
    BY <1>1, OpState, StateFields
  <2>2. /\ k \in CallRecords /\ k.state = s.call[c].state /\ k.op = s.call[c].op
        /\ k.terminated = s.call[c].terminated /\ k.srtp = s.call[c].srtp
    BY <2>1 DEF CallRecords
  <2>3. refer_received(s, c, n) \in {linphone_core_start_refered_call(asked, c, n), t}
    BY <1>1 DEF refer_received
  <2> HIDE DEF k
  <2>4. Eases(s, asked) /\ asked \in States BY <2>1, <2>2, StoreEases, StoreTyped
  <2> HIDE DEF asked
  <2>5. Eases(s, paused) /\ paused \in States BY <2>4, PauseEases, EasesTwice, EasesState
  <2> HIDE DEF paused
  <2>6. paused.call[c] \in CallRecords BY <2>5, StateFields
  <2>7. /\ j \in CallRecords /\ j.state = paused.call[c].state /\ j.op = paused.call[c].op
        /\ j.terminated = paused.call[c].terminated /\ j.srtp = paused.call[c].srtp
    BY <2>6 DEF CallRecords
  <2> HIDE DEF j
  <2>8. Keeps(s, t) BY <2>5, <2>7, StoreEases, EasesTwice, EasesWhole
  <2>9. n # NoCall => Fresh(asked, n)
    BY <2>4, EasesCore DEF Fresh, Settled, Live, Outgoing, Incoming, StageStep
  <2>10. n # c
    BY <2>1, NoCallIsNone DEF Fresh, Live, Ended, Outgoing, Incoming
  <2>11. Keeps(s, linphone_core_start_refered_call(asked, c, n))
    BY <2>4, <2>9, <2>10, StartReferedKeeps, EasesKeeps, EasesWhole
  <2> QED BY <2>3, <2>8, <2>11
<1>2. CASE ~s.call[c].op BY <1>2, WholeSelf DEF refer_received
<1> QED BY <1>1, <1>2

-----------------------------------------------------------------------------
(***************************************************************************)
(* An incoming call                                                        *)
(***************************************************************************)

\* The INVITE of c is taken off the queue: c is unused, no other INVITE of it
\* is queued.
Announced(s, c) ==
  /\ s.call[c].state = "Idle"
  /\ s.ctx[c].stage \in {"incoming", "refused", "failed", "released"}
  /\ \A i \in 1 .. Len(s.evq) : s.evq[i].cid = c => s.evq[i].type # "INVITE"

LEMMA NewIncomingNear ==
  ASSUME NEW s \in States, NEW c \in Calls, s.call[c].state = "Idle",
         NEW md \in Descriptions
  PROVE  LET t == linphone_call_new_incoming(s, c, md) IN
         /\ Near(s, t, c) /\ t.ctx = s.ctx /\ t.current = s.current
         /\ t.call[c].state = "Idle" /\ ~t.call[c].terminated /\ ~t.call[c].srtp
<1> DEFINE k == [NewCall EXCEPT !.refcnt = 1, !.op = TRUE, !.did = TRUE, !.remote = md]
           m == Store(s, c, k)
           u == [m EXCEPT !.friends = "OnThePhone"]
           t == sal_call_get_final_media_description(u, c)
<1>1. /\ k \in CallRecords
      /\ k.state = "Idle" /\ k.terminated = FALSE /\ k.srtp = FALSE
  BY IncomingTyped
<1>2. linphone_call_new_incoming(s, c, md) = t BY DEF linphone_call_new_incoming
<1> HIDE DEF k
<1>3. /\ m \in States /\ Near(s, m, c) /\ m.call[c] = k /\ m.ctx = s.ctx
      /\ m.current = s.current
  BY <1>1, StoreNear, StoreTyped
<1> HIDE DEF m
<1>4. /\ u \in States /\ u.call = m.call /\ u.ctx = m.ctx /\ u.calls = m.calls
      /\ u.current = m.current /\ u.evq = m.evq
  BY <1>3 DEF States
<1> HIDE DEF u
<1>5. Near(s, u, c) BY <1>3, <1>4 DEF Near, Eased
<1>6. Eases(u, t) BY <1>4, FinalDescriptionEases
<1>7. t.ctx = u.ctx /\ t.current = u.current
  BY DEF sal_call_get_final_media_description, Store
<1> HIDE DEF t
<1>8. Near(s, t, c) BY <1>5, <1>6, EasesNear, NearTwice
<1>9. "Idle" \notin Settled BY DEF Settled, Live, Outgoing, Incoming
<1>10. /\ t.call[c].state = "Idle" /\ ~t.call[c].terminated /\ ~t.call[c].srtp
  <2>1. u.call[c] = k BY <1>3, <1>4
  <2>2. u.call[c].state \notin Settled BY <1>1, <1>9, <2>1
  <2>3. /\ Core(u, t, c)
        /\ t.call[c].terminated = u.call[c].terminated
        /\ t.call[c].state = u.call[c].state
    BY <1>6, <2>2, EasesCore, ZenonT(30)
  <2> QED BY <1>1, <2>1, <2>3 DEF Core
<1> QED BY <1>2, <1>3, <1>4, <1>7, <1>8, <1>10

\* A call that shares no codec with us is declined and forgotten.
LEMMA UnwantedKeeps ==
  ASSUME NEW s, Whole(s), NEW c \in Calls, Announced(s, c), NEW md \in Descriptions
  PROVE  LET made == linphone_call_new_incoming(s, c, md)
             declined == Signal(made, c, eXosip_call_refuse(made.ctx[c]))
         IN Keeps(s, Store(declined, c, NewCall))
<1> DEFINE made == linphone_call_new_incoming(s, c, md)
           declined == Signal(made, c, eXosip_call_refuse(made.ctx[c]))
           t == Store(declined, c, NewCall)
<1>1. s \in States /\ c \notin s.calls /\ "Idle" \notin Live
  BY DEF Whole, ListInv, Announced, Live, Outgoing, Incoming
<1>2. Near(s, made, c) /\ made.ctx = s.ctx BY <1>1, NewIncomingNear DEF Announced
<1> HIDE DEF made
<1>3. made \in States BY <1>2 DEF Near
<1>4. Eases(made, declined) /\ declined \in States BY <1>3, RefuseEases, EasesState
<1> HIDE DEF declined
<1>5. /\ Near(declined, t, c) /\ t.call[c] = NewCall /\ t.ctx = declined.ctx
      /\ t \in States
  BY <1>4, NewCallTyped, StoreNear, StoreTyped
<1> HIDE DEF t
<1>6. Near(s, t, c) BY <1>2, <1>4, <1>5, EasesNear, NearTwice
<1>7. t.call[c].state = "Idle" /\ ~t.call[c].op /\ ~t.call[c].srtp BY <1>5 DEF NewCall
<1>8. StageStep(s.ctx[c].stage, t.ctx[c].stage, TRUE)
  <2>1. Core(made, declined, c) BY <1>4, EasesCore
  <2> QED BY <1>2, <1>5, <2>1 DEF Core
<1>9. CallInv(t.call[c], t.ctx[c]) BY <1>7 DEF CallInv, Incoming
<1>10. \A i \in 1 .. Len(s.evq) : s.evq[i].cid = c => EventInv(s.evq[i], t.call[c], t.ctx[c])
  BY <1>8 DEF Announced, Whole, QueueInv, EventInv, StageStep
<1>11. t.calls = s.calls \ {c} /\ t.current \in t.calls \cup {NoCall}
  BY <1>1, <1>6 DEF Near, Whole, ListInv
<1>12. Whole(t) BY <1>1, <1>5, <1>6, <1>7, <1>9, <1>10, <1>11, WholeStep DEF Near
<1>13. Moves(s, t, c) BY <1>6, <1>7 DEF Moves, Near, Announced
<1>14. Keeps(s, t) BY <1>12, <1>13, KeepsMoves
<1> QED BY <1>14 DEF t, declined, made

\* A wanted call enters the list, and may be answered or ended at once.
LEMMA WantedKeeps ==
  ASSUME NEW s, Whole(s), NEW c \in Calls, Announced(s, c),
         linphone_core_can_we_add_call(s),
         NEW made, Near(s, made, c), made.call[c].state = "Idle",
         ~made.call[c].terminated, ~made.call[c].srtp,
         NEW added \in States, added.calls = s.calls \cup {c},
         added.current \in {c, s.current}, added.call = made.call, added.ctx = s.ctx,
         added.evq = s.evq,
         NEW reaction \in {"none", "accept", "terminate"},
         NEW received,
         received = Notified(linphone_call_set_state(added, c, "IncomingReceived"), c, reaction)
  PROVE  /\ Keeps(s, received)
         /\ received.call[c].state = "IncomingReceived" =>
              Keeps(s, linphone_core_update_streams(
                         linphone_call_set_state(received, c, "IncomingEarlyMedia"), c,
                         linphone_call_set_state(received, c, "IncomingEarlyMedia").call[c].result))
<1> DEFINE r == linphone_call_set_state(added, c, "IncomingReceived")
           early == linphone_call_set_state(received, c, "IncomingEarlyMedia")
           heard == linphone_core_update_streams(early, c, early.call[c].result)
<1>6. /\ "IncomingReceived" \in Live /\ "IncomingReceived" \in Incoming
      /\ "IncomingEarlyMedia" \in Live /\ "IncomingEarlyMedia" \in Incoming
      /\ "Idle" \notin Ended /\ "Idle" \notin Live /\ "IncomingReceived" \notin Ended
  BY DEF Live, Ended, Outgoing, Incoming
<1>7. /\ Near(added, r, c) /\ r.ctx = added.ctx /\ r.current = added.current
      /\ r.call[c].state = "IncomingReceived"
      /\ r.call[c].terminated = added.call[c].terminated
      /\ r.call[c].srtp = added.call[c].srtp
  <2>1. added.call[c].state \notin Ended BY <1>6
  <2> QED BY <1>6, <2>1, SetStateLive
<1>8. received = Notified(r, c, reaction) OBVIOUS
<1> HIDE DEF r
<1>9. Whole(r) /\ Moves(s, r, c)
  <2>1. \A d \in Calls : d # c => Eased(s, added, d) BY DEF Near, Eased, StageStep
  <2>2. \A d \in Calls : d # c => Eased(s, r, d)
    BY <1>7, <2>1, EasedTwice DEF Near
  <2>3. CallInv(r.call[c], r.ctx[c])
    BY <1>6, <1>7 DEF CallInv, Announced, Live
  <2>4. \A i \in 1 .. Len(s.evq) : s.evq[i].cid = c => EventInv(s.evq[i], r.call[c], r.ctx[c])
    BY <1>7 DEF Announced, Whole, QueueInv, EventInv
  <2>5. /\ r \in States /\ r.evq = s.evq /\ r.calls = s.calls \cup {c}
        /\ r.current \in r.calls \cup {NoCall}
    BY <1>7 DEF Near, Whole, ListInv
  <2>6. Cardinality(s.calls) < MaxCalls BY DEF linphone_core_can_we_add_call
  <2>7. Whole(r) BY <1>6, <1>7, <2>2, <2>3, <2>4, <2>5, <2>6, WholeStep
  <2> QED BY <1>6, <1>7, <2>2, <2>6, <2>7 DEF Moves, Announced
<1>10. Whole(received) /\ Moves(s, received, c)
  <2>1. CASE reaction = "none" BY <1>8, <1>9, <2>1 DEF Notified
  <2>2. CASE reaction = "accept"
    <3>1. received = linphone_core_accept_call(r, c) BY <1>8, <2>2 DEF Notified
    <3>2. Whole(received) /\ Moves(r, received, c) /\ received.call[c].state \in Live
      BY <1>6, <1>7, <1>9, <3>1, AcceptKeeps
    <3> QED BY <1>6, <1>7, <1>9, <3>2, MovesMoves
  <2>3. CASE reaction = "terminate"
    <3>1. received = linphone_core_terminate_call(r, c) BY <1>8, <2>3 DEF Notified
    <3>2. Whole(received) /\ Moves(r, received, c) /\ received.call[c].state \in Ended
      BY <1>6, <1>7, <1>9, <3>1, TerminateKeeps
    <3> QED BY <1>6, <1>7, <1>9, <3>2, MovesMoves
  <2> QED BY <2>1, <2>2, <2>3
<1>11. ASSUME received.call[c].state = "IncomingReceived" PROVE Keeps(s, heard)
  <2>1. received \in States /\ CallInv(received.call[c], received.ctx[c]) BY <1>10 DEF Whole
  <2>2. /\ Near(received, early, c) /\ early.ctx = received.ctx
        /\ early.call[c].state = "IncomingEarlyMedia"
        /\ early.call[c].op = received.call[c].op
        /\ early.call[c].terminated = received.call[c].terminated
        /\ early.call[c].srtp = received.call[c].srtp
    BY <1>6, <1>11, <2>1, SetStateLive
  <2> HIDE DEF early
  <2>3. Core(received, early, c) BY <2>2 DEF Core, StageStep
  <2>4. early.ctx[c].stage \in {"incoming", "refused", "failed", "released"}
    BY <1>6, <1>11, <2>1, <2>2 DEF CallInv
  <2>5. Whole(early) /\ Moves(received, early, c)
    BY <1>6, <1>10, <1>11, <2>2, <2>3, <2>4, LiveWhole
  <2>6. Moves(s, early, c) BY <1>6, <1>10, <1>11, <2>2, <2>5, MovesMoves
  <2>7. early \in States BY <2>2 DEF Near
  <2>8. early.call[c].result \in Descriptions BY <2>7, StateFields DEF CallRecords
  <2>9. Eases(early, heard) BY <2>7, <2>8, UpdateStreamsEases
  <2> QED BY <2>5, <2>6, <2>9, KeepsMoves, KeepsEases
<1> QED BY <1>10, <1>11, KeepsMoves

LEMMA ReceivedKeeps ==
  ASSUME NEW s, Whole(s), NEW c \in Calls, Announced(s, c), NEW md \in Descriptions,
         NEW refuse \in {"no", "moved", "busy"},
         NEW reaction \in {"none", "accept", "terminate"}
  PROVE  Keeps(s, call_received(s, c, md, refuse, reaction))
<1> DEFINE made == linphone_call_new_incoming(s, c, md)
           declined == Signal(s, c, eXosip_call_refuse(s.ctx[c]))
           unwanted == Store(Signal(made, c, eXosip_call_refuse(made.ctx[c])), c, NewCall)
           only == s.calls = {}
           added == [made EXCEPT !.calls = @ \cup {c},
                                 !.current = IF only THEN c ELSE @,
                                 !.ring = @ \/ only]
           received == Notified(linphone_call_set_state(added, c, "IncomingReceived"),
                                c, reaction)
           early == linphone_call_set_state(received, c, "IncomingEarlyMedia")
           heard == linphone_core_update_streams(early, c, early.call[c].result)
           t == call_received(s, c, md, refuse, reaction)
           wanted == linphone_core_can_we_add_call(s) /\ ~already_a_call_pending(s)
           sounding == received.call[c].state = "IncomingReceived" /\ "earlymedia" \in Features
<1>1. s \in States BY DEF Whole
<1>2. t = CASE refuse = "moved" -> s
            [] refuse = "busy" -> declined
            [] refuse = "no" /\ ~wanted -> declined
            [] refuse = "no" /\ wanted ->
                 IF made.call[c].result = "Empty" THEN unwanted
                 ELSE IF sounding THEN heard ELSE received
  BY DEF call_received
<1>3. Keeps(s, declined) BY <1>1, RefuseEases, EasesWhole
<1>4. Keeps(s, unwanted) BY UnwantedKeeps
<1>5. Keeps(s, s) BY WholeSelf
<1>6. /\ Near(s, made, c) /\ made.ctx = s.ctx /\ made.current = s.current
      /\ made.call[c].state = "Idle" /\ ~made.call[c].terminated /\ ~made.call[c].srtp
  BY <1>1, NewIncomingNear DEF Announced
<1> HIDE DEF declined, unwanted, made
<1>7. wanted => Keeps(s, received) /\ (sounding => Keeps(s, heard))
  <2> SUFFICES ASSUME wanted PROVE Keeps(s, received) /\ (sounding => Keeps(s, heard))
    OBVIOUS
  <2> DEFINE n == IF only THEN c ELSE made.current
             b == made.ring \/ only
  <2>1. added = [made EXCEPT !.calls = @ \cup {c}, !.current = n, !.ring = b] OBVIOUS
  <2>2. made \in States /\ made.ring \in BOOLEAN /\ made.current \in Calls \cup {NoCall}
    BY <1>6, StateFields DEF Near
  <2>3. n \in {c, s.current} /\ n \in Calls \cup {NoCall} /\ b \in BOOLEAN BY <1>6, <2>2
  <2> HIDE DEF n, b
  <2>4. /\ added \in States /\ added.calls = s.calls \cup {c}
        /\ added.current \in {c, s.current} /\ added.call = made.call
        /\ added.ctx = s.ctx /\ added.evq = s.evq
    BY <1>6, <2>1, <2>2, <2>3 DEF Near, States
  <2> HIDE DEF added
  <2>5. /\ Keeps(s, received)
        /\ received.call[c].state = "IncomingReceived" => Keeps(s, heard)
    BY <1>6, <2>4, WantedKeeps
  <2> QED BY <2>5
<1> HIDE DEF t, received, heard, wanted, sounding
<1>8. Keeps(s, t)
  <2>1. CASE refuse = "no" /\ wanted BY <1>2, <1>4, <1>7, <2>1
  <2>2. CASE refuse = "no" /\ ~wanted BY <1>2, <1>3, <2>2
  <2>3. CASE refuse = "moved" BY <1>2, <1>5, <2>3
  <2>4. CASE refuse = "busy" BY <1>2, <1>3, <2>4
  <2> QED BY <2>1, <2>2, <2>3, <2>4
<1> QED BY <1>8 DEF t
\* The states of the calls have changed as a call's life allows.
Onward(s, t) ==
  \/ \A d \in Calls : \/ t.call[d].state = s.call[d].state
                      \/ t.call[d].state \in Settled /\ s.call[d].state \in Settled
  \/ \E c \in Calls : Moves(s, t, c)

\* The invariant, of the current state.
LEMMA WholeNow == LifeInv <=> Whole(Now)
  BY DEF LifeInv, Whole, TypeOK, Now

LEMMA InitWhole == Init => LifeInv
<1> SUFFICES ASSUME Init PROVE LifeInv OBVIOUS
<1> USE DEF Init
<1>1. NewCall \in CallRecords BY NewCallTyped
<1>2. NoContext \in Contexts BY DEF NoContext, Contexts, Stages, Dirs, Descriptions
<1>3. TypeOK
  <2>1. call \in [Calls -> CallRecords] /\ ctx \in [Calls -> Contexts] BY <1>1, <1>2
  <2>2. evq \in Seq(Events) OBVIOUS
  <2> QED BY <2>1, <2>2 DEF TypeOK, Now, States
<1>4. \A c \in Calls : call[c] = NewCall /\ ctx[c] = NoContext OBVIOUS
<1>5. \A c \in Calls : CallInv(call[c], ctx[c])
  BY <1>4 DEF CallInv, NewCall, NoContext, Incoming
<1>6. ListInv(Now)
  <2>1. Cardinality(calls) <= MaxCalls BY FS_EmptySet, ConstantsAssumption
  <2>2. \A c \in Calls : call[c].state \notin Live
    BY <1>4 DEF NewCall, Live, Outgoing, Incoming
  <2> QED BY <2>1, <2>2 DEF ListInv, Now
<1>7. QueueInv(Now) BY DEF QueueInv, Now
<1> QED BY <1>3, <1>5, <1>6, <1>7 DEF LifeInv

\* A record of the right type is what the variables become.
LEMMA BecomesNow ==
  ASSUME NEW t \in States, Becomes(t)
  PROVE  Now' = t
  BY DEF States, Becomes, Now

\* What a handler or an API function keeps, the step keeps.
LEMMA StepKeeps ==
  ASSUME NEW t, Keeps(Now, t), Becomes(t)
  PROVE  LifeInv' /\ Onward(Now, Now')
<1>1. t \in States BY DEF Keeps, Whole
<1>2. Now' = t BY <1>1, BecomesNow
<1>3. LifeInv' <=> Whole(Now') BY DEF LifeInv, Whole, TypeOK, Now
<1>4. Onward(Now, t) BY EasesNear DEF Keeps, Onward, Eased
<1> QED BY <1>2, <1>3, <1>4 DEF Keeps

-----------------------------------------------------------------------------
(***************************************************************************)
(* The event queue                                                         *)
(***************************************************************************)

\* Taking an event off the queue keeps the invariant, which says of the event
\* that it fits its call.
LEMMA PoppedWhole ==
  ASSUME LifeInv, evq # << >>
  PROVE  /\ Whole(Popped)
         /\ Head(evq) \in Events /\ Head(evq).cid \in Calls
         /\ EventInv(Head(evq), call[Head(evq).cid], ctx[Head(evq).cid])
         /\ Head(evq).type = "INVITE" =>
              \A i \in 1 .. Len(Tail(evq)) :
                Tail(evq)[i].cid = Head(evq).cid => Tail(evq)[i].type # "INVITE"
<1>1. Whole(Now) BY WholeNow
<1>2. Now \in States /\ evq \in Seq(Events) BY <1>1, StateFields DEF Whole, Now
<1>3. /\ Head(evq) = evq[1] /\ 1 \in 1 .. Len(evq) /\ Head(evq) \in Events
      /\ Tail(evq) \in Seq(Events) /\ Len(Tail(evq)) = Len(evq) - 1 /\ Len(evq) \in Nat
      /\ \A i \in 1 .. Len(Tail(evq)) : Tail(evq)[i] = evq[i + 1]
  BY <1>2
<1>4. /\ Popped \in States /\ Popped.evq = Tail(evq) /\ Popped.calls = calls
      /\ Popped.current = current /\ Popped.call = call /\ Popped.ctx = ctx
  BY <1>2, <1>3 DEF Popped, Now, States
<1>5. \A i \in 1 .. Len(evq) : EventInv(evq[i], call[evq[i].cid], ctx[evq[i].cid])
  BY <1>1 DEF Whole, QueueInv, Now
<1>6. \A i, j \in 1 .. Len(evq) :
        evq[i].type = "INVITE" /\ evq[j].type = "INVITE" /\ evq[i].cid = evq[j].cid => i = j
  BY <1>1 DEF Whole, QueueInv, Now
<1>7. QueueInv(Popped)
  <2>1. \A i \in 1 .. Len(Tail(evq)) :
          EventInv(Tail(evq)[i], call[Tail(evq)[i].cid], ctx[Tail(evq)[i].cid])
    BY <1>3, <1>5
  <2>2. \A i, j \in 1 .. Len(Tail(evq)) :
          Tail(evq)[i].type = "INVITE" /\ Tail(evq)[j].type = "INVITE"
            /\ Tail(evq)[i].cid = Tail(evq)[j].cid => i = j
    BY <1>3, <1>6
  <2> QED BY <1>4, <2>1, <2>2 DEF QueueInv
<1>8. ListInv(Popped) BY <1>1, <1>4 DEF Whole, ListInv, Now
<1>9. \A c \in Calls : CallInv(Popped.call[c], Popped.ctx[c])
  BY <1>1, <1>4 DEF Whole, Now
<1>10. Head(evq).cid \in Calls BY <1>3 DEF Events
<1>11. Head(evq).type = "INVITE" =>
         \A i \in 1 .. Len(Tail(evq)) :
           Tail(evq)[i].cid = Head(evq).cid => Tail(evq)[i].type # "INVITE"
  BY <1>3, <1>6
<1> QED BY <1>3, <1>4, <1>5, <1>7, <1>8, <1>9, <1>10, <1>11 DEF Whole

LEMMA HandlerKeeps ==
  ASSUME LifeInv, NEW t, Keeps(Popped, t), Becomes(t)
  PROVE  LifeInv' /\ Onward(Now, Now')
<1>1. t \in States BY DEF Keeps, Whole
<1>2. Now' = t BY <1>1, BecomesNow
<1>3. LifeInv' <=> Whole(Now') BY DEF LifeInv, Whole, TypeOK, Now
<1>4. Popped.call = Now.call /\ Popped.ctx = Now.ctx /\ Popped.calls = Now.calls
  BY DEF Popped, Now
<1>5. Onward(Popped, t) BY EasesNear DEF Keeps, Onward, Eased
<1>6. Onward(Now, t)
  <2>1. \A d \in Calls : Eased(Popped, t, d) => Eased(Now, t, d)
    BY <1>4 DEF Eased
  <2>2. \A c \in Calls : Moves(Popped, t, c) => Moves(Now, t, c)
    BY <1>4, <2>1 DEF Moves
  <2> QED BY <1>4, <1>5, <2>2 DEF Onward
<1> QED BY <1>2, <1>3, <1>6 DEF Keeps

LEMMA NextCallFresh ==
  /\ NextCall \in Calls \cup {NoCall}
  /\ NextCall # NoCall => Fresh(Now, NextCall) /\ Fresh(Popped, NextCall)
<1> DEFINE free == {c \in Calls : call[c].state = "Idle" /\ ctx[c].stage = "none"}
<1>1. NextCall = IF free = {} THEN NoCall ELSE CHOOSE c \in free : TRUE
  BY DEF NextCall
<1>2. free # {} => (CHOOSE c \in free : TRUE) \in free OBVIOUS
<1> QED BY <1>1, <1>2 DEF Fresh, Now, Popped

-----------------------------------------------------------------------------
(***************************************************************************)
(* The steps                                                               *)
(***************************************************************************)

LEMMA IterateKeeps ==
  ASSUME "srtp" \notin Features, LifeInv, Iterate
  PROVE  LifeInv' /\ Onward(Now, Now')
<1> DEFINE e == Head(evq)
           n == NextCall
<1>1. evq # << >> BY DEF Iterate, HandleInvite, HandleProceeding, HandleRinging,
        HandleAnswered, HandleFailure, HandleClosed, HandleReinvite, HandleAck,
        HandleRefer, HandleReleased, Next1
<1>2. /\ Whole(Popped) /\ e \in Events /\ e.cid \in Calls
      /\ EventInv(e, call[e.cid], ctx[e.cid])
      /\ e.type = "INVITE" =>
           \A i \in 1 .. Len(Tail(evq)) : Tail(evq)[i].cid = e.cid => Tail(evq)[i].type # "INVITE"
  BY <1>1, PoppedWhole
<1>3. e.type # "FAILURE" => e.arg \in Descriptions BY <1>2 DEF Events
<1>4. Popped.call = call /\ Popped.ctx = ctx /\ Popped.evq = Tail(evq)
  BY DEF Popped, Now
<1>5. n \in Calls \cup {NoCall} /\ (n # NoCall => Fresh(Popped, n)) BY NextCallFresh
<1> HIDE DEF n
<1>6. CASE HandleInvite
  <2>1. e.type = "INVITE" BY <1>6 DEF HandleInvite, Next1
  <2>2. Announced(Popped, e.cid) BY <1>2, <1>4, <2>1 DEF Announced, EventInv
  <2>3. PICK refuse \in {"no", "moved", "busy"}, reaction \in {"none", "accept", "terminate"} :
          Becomes(call_received(Popped, e.cid, e.arg, refuse, reaction))
    BY <1>6 DEF HandleInvite
  <2>4. Keeps(Popped, call_received(Popped, e.cid, e.arg, refuse, reaction))
    BY <1>2, <1>3, <2>1, <2>2, ReceivedKeeps
  <2> QED BY <2>3, <2>4, HandlerKeeps
<1>7. CASE HandleProceeding
  <2>1. Keeps(Popped, sal_call_proceeding(Popped, e.cid)) BY <1>2, ProceedingKeeps
  <2> QED BY <1>7, <2>1, HandlerKeeps DEF HandleProceeding
<1>8. CASE HandleRinging
  <2>1. e.arg \in Descriptions BY <1>3, <1>8 DEF HandleRinging, Next1
  <2>2. Keeps(Popped, sal_call_ringing(Popped, e.cid, e.arg)) BY <1>2, <2>1, RingingKeeps
  <2> QED BY <1>8, <2>2, HandlerKeeps DEF HandleRinging
<1>9. CASE HandleAnswered
  <2>1. e.arg \in Descriptions BY <1>3, <1>9 DEF HandleAnswered, Next1
  <2>2. Keeps(Popped, sal_call_accepted(Popped, e.cid, e.arg, n))
    BY <1>2, <1>5, <2>1, AcceptedKeeps
  <2> QED BY <1>9, <2>2, HandlerKeeps DEF HandleAnswered, n
<1>10. CASE HandleFailure
  <2>1. Keeps(Popped, sal_call_failure(Popped, e.cid, e.arg)) BY <1>2, FailureKeeps
  <2> QED BY <1>10, <2>1, HandlerKeeps DEF HandleFailure
<1>11. CASE HandleClosed
  <2>1. Keeps(Popped, sal_call_terminated(Popped, e.cid)) BY <1>2, TerminatedKeeps
  <2> QED BY <1>11, <2>1, HandlerKeeps DEF HandleClosed
<1>12. CASE HandleReinvite
  <2>1. e.type = "REINVITE" BY <1>12 DEF HandleReinvite, Next1
  <2>2. Popped.ctx[e.cid].stage \in {"conf", "closed", "released"}
    BY <1>2, <1>4, <2>1 DEF EventInv
  <2>3. PICK reaction \in {"accept", "defer"} :
          Becomes(handle_reinvite(Popped, e.cid, e.arg, reaction))
    BY <1>12 DEF HandleReinvite
  <2>4. Keeps(Popped, handle_reinvite(Popped, e.cid, e.arg, reaction))
    BY <1>2, <1>3, <2>1, <2>2, ReinviteKeeps
  <2> QED BY <2>3, <2>4, HandlerKeeps
<1>13. CASE HandleAck
  <2>1. e.arg \in Descriptions BY <1>3, <1>13 DEF HandleAck, Next1
  <2>2. Keeps(Popped, handle_ack(Popped, e.cid, e.arg)) BY <1>2, <2>1, AckKeeps
  <2> QED BY <1>13, <2>2, HandlerKeeps DEF HandleAck
<1>14. CASE HandleRefer
  <2>1. Keeps(Popped, refer_received(Popped, e.cid, n)) BY <1>2, <1>5, ReferKeeps
  <2> QED BY <1>14, <2>1, HandlerKeeps DEF HandleRefer, n
<1>15. CASE HandleReleased
  <2>1. Keeps(Popped, call_released(Popped, e.cid)) BY <1>2, ReleasedKeeps
  <2> QED BY <1>15, <2>1, HandlerKeeps DEF HandleReleased
<1> QED BY <1>6, <1>7, <1>8, <1>9, <1>10, <1>11, <1>12, <1>13, <1>14, <1>15 DEF Iterate

LEMMA InviteStep ==
  ASSUME LifeInv, Invite
  PROVE  LifeInv' /\ Onward(Now, Now')
<1>1. Whole(Now) BY WholeNow
<1>2. NextCall \in Calls /\ Fresh(Now, NextCall) BY NextCallFresh DEF Invite
<1>3. PICK ping \in BOOLEAN, sent \in BOOLEAN :
        Becomes(linphone_core_invite_address_with_params(Now, NextCall, NoCall, ping, sent))
  BY DEF Invite
<1>4. Keeps(Now, linphone_core_invite_address_with_params(Now, NextCall, NoCall, ping, sent))
  BY <1>1, <1>2, NoCallIsNone, InviteKeeps
<1> QED BY <1>3, <1>4, StepKeeps

\* A redirected call is not marked terminated, but its INVITE is refused.
LEMMA RedirectStep ==
  ASSUME LifeInv, NEW c \in Calls, linphone_core_redirect_call(c)
  PROVE  LifeInv' /\ Onward(Now, Now')
<1> DEFINE x == eXosip_call_refuse(ctx[c])
           d == Signal(Now, c, x)
           q == Quiet(d)
           m == linphone_call_stop_media_streams(q, c)
           t == linphone_call_set_state(m, c, "End")
<1>1. Whole(Now) /\ Now \in States /\ Now.ctx = ctx /\ Now.call = call
  BY WholeNow DEF Whole, Now
<1>2. call[c].state = "IncomingReceived" BY DEF linphone_core_redirect_call
<1>3. /\ "IncomingReceived" \in Live /\ "IncomingReceived" \in Incoming /\ "End" \in Ended
      /\ "IncomingReceived" \notin Settled /\ "Released" \notin Ended
  BY DEF Settled, Live, Ended, Outgoing, Incoming
<1>4. x.stage \in {"refused", "failed", "released"}
  <2>1. ctx[c].stage \in {"incoming", "refused", "failed", "released"}
    BY <1>1, <1>2, <1>3 DEF Whole, CallInv
  <2>2. ctx[c] \in Contexts BY <1>1, StateFields
  <2> QED BY <2>1, <2>2 DEF eXosip_call_refuse, Contexts
<1>5. Eases(Now, d) /\ d \in States BY <1>1, RefuseEases, EasesState
<1>6. d.ctx[c] = x
  BY <1>1 DEF Signal, States
<1> HIDE DEF d, x
<1>7. Eases(Now, q) /\ q \in States /\ q.ctx = d.ctx
  <2>1. q.ctx = d.ctx BY DEF Quiet
  <2> QED BY <1>5, <2>1, QuietEases, EasesTwice, EasesState
<1> HIDE DEF q
<1>8. Eases(Now, m) /\ m.ctx = q.ctx
  <2>1. m.ctx = q.ctx BY DEF linphone_call_stop_media_streams, Store
  <2> QED BY <1>7, <2>1, StopMediaEases, EasesTwice
<1> HIDE DEF m
<1>9. m.call[c].state = "IncomingReceived" BY <1>1, <1>2, <1>3, <1>8, EasesState
<1>10. Near(Now, m, c) /\ Core(Now, m, c) BY <1>8, EasesOnward
<1>11. /\ Ends(Now, t, c) /\ Core(Now, t, c) /\ t.call[c].state \in Ended
       /\ t.ctx[c] = m.ctx[c]
  BY <1>1, <1>2, <1>3, <1>9, <1>10, SetStateOver
<1>12. Becomes(t) BY DEF linphone_core_redirect_call, t, m, q, d, x
<1> HIDE DEF t
<1>13. Whole(t) /\ Moves(Now, t, c)
  BY <1>1, <1>2, <1>3, <1>4, <1>6, <1>7, <1>8, <1>11, EndsWhole
<1> QED BY <1>12, <1>13, KeepsMoves, StepKeeps

LEMMA ApplicationStep ==
  ASSUME LifeInv, NEW c \in Calls, Application(c)
  PROVE  LifeInv' /\ Onward(Now, Now')
<1>1. Whole(Now) /\ Now \in States /\ Now.call = call /\ Now.calls = calls
  BY WholeNow DEF Whole, Now
<1>2. CASE PingOver(c)
  <2>1. PICK sent \in BOOLEAN : Becomes(linphone_core_start_invite(Now, c, sent))
    BY <1>2 DEF PingOver
  <2>2. Keeps(Now, linphone_core_start_invite(Now, c, sent))
    <3>1. call[c].state = "OutgoingInit" BY <1>2 DEF PingOver
    <3> QED BY <1>1, <3>1, StartInviteKeeps, KeepsMoves
  <2> QED BY <2>1, <2>2, StepKeeps
<1>3. CASE Accept(c)
  <2>1. call[c].state \in Live BY <1>3 DEF Accept, Live, Incoming
  <2>2. Keeps(Now, linphone_core_accept_call(Now, c)) BY <1>1, <2>1, AcceptKeeps, KeepsMoves
  <2> QED BY <1>3, <2>2, StepKeeps DEF Accept
<1>4. CASE Terminate(c)
  <2>1. call[c].state \in Live BY <1>1, <1>4 DEF Terminate, Whole, ListInv
  <2>2. Keeps(Now, linphone_core_terminate_call(Now, c))
    BY <1>1, <2>1, TerminateKeeps, KeepsMoves
  <2> QED BY <1>4, <2>2, StepKeeps DEF Terminate
<1>5. CASE linphone_core_redirect_call(c) BY <1>5, RedirectStep
<1>6. CASE Pause(c)
  <2>1. Keeps(Now, linphone_core_pause_call(Now, c)) BY <1>1, PauseEases, EasesWhole
  <2> QED BY <1>6, <2>1, StepKeeps DEF Pause
<1>7. CASE Resume(c)
  <2>1. Keeps(Now, linphone_core_resume_call(Now, c)) BY <1>1, ResumeEases, EasesWhole
  <2> QED BY <1>7, <2>1, StepKeeps DEF Resume
<1>8. CASE Update(c)
  <2> DEFINE local == SetLocal(Now, c, "SendRecv")
  <2>1. Eases(Now, local) /\ local \in States BY <1>1, SetLocalEases, EasesState DEF Dirs
  <2>2. Becomes(sal_call_update(local, c)) BY <1>8 DEF Update
  <2> HIDE DEF local
  <2>3. Keeps(Now, sal_call_update(local, c))
    BY <1>1, <2>1, CallUpdateEases, EasesTwice, EasesWhole
  <2> QED BY <2>2, <2>3, StepKeeps
<1>9. CASE AcceptUpdate(c)
  <2>1. Keeps(Now, linphone_core_accept_call_update(Now, c))
    BY <1>1, AcceptCallUpdateEases, EasesWhole
  <2> QED BY <1>9, <2>1, StepKeeps DEF AcceptUpdate
<1> QED BY <1>2, <1>3, <1>4, <1>5, <1>6, <1>7, <1>8, <1>9 DEF Application

-----------------------------------------------------------------------------
(***************************************************************************)
(* The eXosip thread                                                       *)
(***************************************************************************)

\* The stage of a context whose call's record is k goes from x to y.
NetStep(k, x, y) ==
  \/ y = x
  \/ x \in {"calling", "early"} /\ y \in {"early", "conf", "failed"}
  \/ x = "incoming" /\ y \in {"refused", "failed"}
  \/ x = "conf" /\ y = "closed"
  \/ x = "refused" /\ y = "failed"
  \/ x \in {"failed", "closed"} /\ y = "released"
  \/ x = "none" /\ y = "incoming" /\ k.state = "Idle"

\* Such a step breaks nothing of what the invariant says of a call.
LEMMA NetStepInv ==
  ASSUME NEW k \in CallRecords, NEW x, NEW y, CallInv(k, x), NetStep(k, x.stage, y.stage)
  PROVE  /\ CallInv(k, y)
         /\ \A e \in Events : EventInv(e, k, x) => EventInv(e, k, y)
<1>1. "Idle" \notin Live \cup Ended /\ "Idle" \notin Incoming
  BY DEF Live, Ended, Outgoing, Incoming
<1>2. CallInv(k, y) BY <1>1 DEF CallInv, NetStep
<1>3. \A e \in Events : EventInv(e, k, x) => EventInv(e, k, y) BY DEF EventInv, NetStep
<1> QED BY <1>2, <1>3

LEMMA MoveKeeps ==
  ASSUME LifeInv, NEW c \in Calls, NEW x \in Contexts,
         NetStep(call[c], ctx[c].stage, x.stage), Move(c, x)
  PROVE  LifeInv' /\ Onward(Now, Now')
<1> DEFINE t == Signal(Now, c, x)
<1>1. Whole(Now) /\ Now \in States /\ Now.ctx = ctx /\ Now.call = call
      /\ Now.calls = calls /\ Now.current = current /\ Now.evq = evq
  BY WholeNow DEF Whole, Now
<1>2. Becomes(t) BY DEF Becomes, Move, Signal, Now
<1>3. /\ t \in States /\ t.ctx[c] = x /\ t.calls = calls /\ t.current = current
      /\ t.call = call /\ t.evq = evq
      /\ \A d \in Calls : d # c => t.ctx[d] = ctx[d]
  BY <1>1, SignalTyped
<1> HIDE DEF t
<1>4. Now' = t BY <1>2, <1>3, BecomesNow
<1>5. call[c] \in CallRecords BY <1>1, StateFields
<1>6. CallInv(call[c], ctx[c]) BY <1>1 DEF Whole
<1>7. /\ CallInv(call[c], x)
      /\ \A e \in Events : EventInv(e, call[c], ctx[c]) => EventInv(e, call[c], x)
  BY <1>5, <1>6, NetStepInv
<1>8. \A d \in Calls : CallInv(t.call[d], t.ctx[d]) BY <1>1, <1>3, <1>7 DEF Whole
<1>9. QueueInv(t)
  <2>1. \A i \in 1 .. Len(evq) : evq[i] \in Events /\ evq[i].cid \in Calls
    BY <1>1, EventCid
  <2>2. \A i \in 1 .. Len(evq) : EventInv(evq[i], call[evq[i].cid], t.ctx[evq[i].cid])
    BY <1>1, <1>3, <1>7, <2>1 DEF Whole, QueueInv
  <2> QED BY <1>1, <1>3, <2>2 DEF Whole, QueueInv
<1>10. Whole(t) BY <1>1, <1>3, <1>8, <1>9 DEF Whole, ListInv
<1>11. LifeInv' <=> Whole(Now') BY DEF LifeInv, Whole, TypeOK, Now
<1> QED BY <1>1, <1>3, <1>4, <1>10, <1>11 DEF Onward

LEMMA ReportKeeps ==
  ASSUME LifeInv, NEW c \in Calls, NEW x \in Contexts,
         NetStep(call[c], ctx[c].stage, x.stage),
         NEW type, NEW arg, Event(type, c, arg) \in Events,
         EventInv(Event(type, c, arg), call[c], x),
         type = "INVITE" => ctx[c].stage = "none",
         Report(c, x, type, arg)
  PROVE  LifeInv' /\ Onward(Now, Now')
<1> DEFINE u == Signal(Now, c, x)
           e == Event(type, c, arg)
           q == Append(evq, e)
           t == [u EXCEPT !.evq = q]
<1>1. Whole(Now) /\ Now \in States /\ Now.ctx = ctx /\ Now.call = call
      /\ Now.calls = calls /\ Now.current = current /\ Now.evq = evq
  BY WholeNow DEF Whole, Now
<1>2. Becomes(t) BY DEF Becomes, Report, Signal, Now
<1>3. /\ u \in States /\ u.ctx[c] = x /\ u.calls = calls /\ u.current = current
      /\ u.call = call /\ u.evq = evq
      /\ \A d \in Calls : d # c => u.ctx[d] = ctx[d]
  BY <1>1, SignalTyped
<1>4. e \in Events /\ e.type = type /\ e.cid = c /\ evq \in Seq(Events)
  BY <1>1, StateFields DEF Event
<1>5. EventInv(e, call[c], x) OBVIOUS
<1> HIDE DEF u, e
<1>6. /\ q \in Seq(Events) /\ Len(q) = Len(evq) + 1 /\ Len(evq) \in Nat
      /\ q[Len(evq) + 1] = e /\ \A i \in 1 .. Len(evq) : q[i] = evq[i]
  BY <1>4
<1> HIDE DEF q
<1>7. /\ t \in States /\ t.ctx = u.ctx /\ t.calls = calls /\ t.current = current
      /\ t.call = call /\ t.evq = q
  BY <1>3, <1>6 DEF States
<1> HIDE DEF t
<1>8. Now' = t BY <1>2, <1>7, BecomesNow
<1>9. call[c] \in CallRecords BY <1>1, StateFields
<1>10. CallInv(call[c], ctx[c]) BY <1>1 DEF Whole
<1>11. /\ CallInv(call[c], x)
       /\ \A f \in Events : EventInv(f, call[c], ctx[c]) => EventInv(f, call[c], x)
  BY <1>9, <1>10, NetStepInv
<1>12. \A d \in Calls : CallInv(t.call[d], t.ctx[d]) BY <1>1, <1>3, <1>7, <1>11 DEF Whole
<1>13. \A i \in 1 .. Len(evq) : evq[i] \in Events /\ evq[i].cid \in Calls
  BY <1>1, EventCid
<1>14. QueueInv(t)
  <2>1. \A i \in 1 .. Len(evq) : EventInv(evq[i], call[evq[i].cid], u.ctx[evq[i].cid])
    BY <1>1, <1>3, <1>11, <1>13 DEF Whole, QueueInv
  <2>2. \A i \in 1 .. Len(q) : EventInv(q[i], call[q[i].cid], u.ctx[q[i].cid])
    BY <1>3, <1>4, <1>5, <1>6, <2>1
  <2>3. type = "INVITE" => \A i \in 1 .. Len(evq) : evq[i].type = "INVITE" => evq[i].cid # c
    BY <1>1 DEF Whole, QueueInv, EventInv
  <2>4. \A i, j \in 1 .. Len(evq) :
          evq[i].type = "INVITE" /\ evq[j].type = "INVITE" /\ evq[i].cid = evq[j].cid => i = j
    BY <1>1 DEF Whole, QueueInv
  <2>5. \A i, j \in 1 .. Len(q) :
          q[i].type = "INVITE" /\ q[j].type = "INVITE" /\ q[i].cid = q[j].cid => i = j
    BY <1>4, <1>6, <2>3, <2>4
  <2> QED BY <1>7, <2>2, <2>5 DEF QueueInv
<1>15. Whole(t) BY <1>1, <1>7, <1>12, <1>14 DEF Whole, ListInv
<1>16. LifeInv' <=> Whole(Now') BY DEF LifeInv, Whole, TypeOK, Now
<1> QED BY <1>1, <1>7, <1>8, <1>15, <1>16 DEF Onward

\* A context with the same stage is a context.
LEMMA SameStageTyped ==
  ASSUME NEW x \in Contexts, NEW y,
         \/ y = [x EXCEPT !.re = "in"]
         \/ y = [x EXCEPT !.re = "none"]
         \/ y = [x EXCEPT !.re = "none", !.told = x.offer]
         \/ y = [x EXCEPT !.ack = FALSE]
  PROVE  y \in Contexts /\ y.stage = x.stage
<1>1. x.offer \in Descriptions BY DEF Contexts, Descriptions
<1> QED BY <1>1 DEF Contexts

\* An event other than a failure carries a description.
LEMMA EventTyped ==
  ASSUME NEW c \in Calls, NEW type \in EventTypes, NEW arg,
         IF type = "FAILURE" THEN arg \in Failures ELSE arg \in Descriptions
  PROVE  /\ Event(type, c, arg) \in Events
         /\ \A k, x : type \notin {"INVITE", "REINVITE"} => EventInv(Event(type, c, arg), k, x)
         /\ \A k, x : type = "REINVITE" /\ x.stage = "conf" => EventInv(Event(type, c, arg), k, x)
         /\ \A k, x : type = "INVITE" /\ x.stage = "incoming" /\ k.state = "Idle" =>
                        EventInv(Event(type, c, arg), k, x)
  BY DEF Event, Events, EventInv

\* The messages within a dialog, and the cancelling of an INVITE.
LEMMA DialogStep ==
  ASSUME LifeInv, NEW c \in Calls,
         \/ PeerCancel(c) \/ PeerBye(c) \/ PeerRefuseReinvite(c) \/ PeerRefer(c)
         \/ \E md \in Answers : PeerAcceptReinvite(c, md) \/ PeerAck(c, md)
         \/ \E md \in Offers : PeerReinvite(c, md)
  PROVE  LifeInv' /\ Onward(Now, Now')
<1> DEFINE x == ctx[c]
<1>1. Now \in States /\ Now.ctx = ctx BY WholeNow DEF Whole, Now
<1>2. x \in Contexts BY <1>1, StateFields
<1>3. Answers \subseteq Descriptions /\ Offers \subseteq Descriptions /\ "None" \in Descriptions
  BY ConstantsAssumption DEF Descriptions
<1>4. {"CLOSED", "FAILURE", "REFER", "ANSWERED", "ACK", "REINVITE"} \subseteq EventTypes
      /\ "Other" \in Failures
  BY DEF EventTypes, Failures
<1>5. /\ eXosip_call_refuse(x) \in Contexts
      /\ StageStep(x.stage, eXosip_call_refuse(x).stage, FALSE)
      /\ eXosip_call_terminate(x, TRUE) \in Contexts
      /\ StageStep(x.stage, eXosip_call_terminate(x, TRUE).stage, FALSE)
  BY <1>2, EndingContext
<1>6. \A y : StageStep(x.stage, y, FALSE) => NetStep(call[c], x.stage, y)
  BY DEF StageStep, NetStep
<1>7. CASE PeerCancel(c) BY <1>5, <1>6, <1>7, MoveKeeps DEF PeerCancel
<1>8. CASE PeerBye(c)
  <2>1. Report(c, eXosip_call_terminate(x, TRUE), "CLOSED", "None") BY <1>8 DEF PeerBye
  <2>2. /\ Event("CLOSED", c, "None") \in Events
        /\ EventInv(Event("CLOSED", c, "None"), call[c], eXosip_call_terminate(x, TRUE))
    BY <1>3, <1>4, EventTyped
  <2> QED BY <1>5, <1>6, <2>1, <2>2, ReportKeeps
<1>9. CASE PeerRefuseReinvite(c)
  <2> DEFINE y == [x EXCEPT !.re = "none"]
  <2>1. Report(c, y, "FAILURE", "Other") BY <1>9 DEF PeerRefuseReinvite
  <2>2. y \in Contexts /\ y.stage = x.stage BY <1>2, SameStageTyped
  <2> HIDE DEF y
  <2>3. Event("FAILURE", c, "Other") \in Events
        /\ EventInv(Event("FAILURE", c, "Other"), call[c], y)
    BY <1>4, EventTyped
  <2> QED BY <2>1, <2>2, <2>3, ReportKeeps DEF NetStep
<1>10. CASE PeerRefer(c)
  <2>1. Report(c, x, "REFER", "None") BY <1>10 DEF PeerRefer
  <2>2. Event("REFER", c, "None") \in Events
        /\ EventInv(Event("REFER", c, "None"), call[c], x)
    BY <1>3, <1>4, EventTyped
  <2> QED BY <1>2, <2>1, <2>2, ReportKeeps DEF NetStep
<1>11. ASSUME NEW md \in Answers, PeerAcceptReinvite(c, md)
       PROVE  LifeInv' /\ Onward(Now, Now')
  <2> DEFINE y == [x EXCEPT !.re = "none", !.told = x.offer]
  <2>1. Report(c, y, "ANSWERED", md) BY <1>11 DEF PeerAcceptReinvite
  <2>2. y \in Contexts /\ y.stage = x.stage BY <1>2, SameStageTyped
  <2> HIDE DEF y
  <2>3. Event("ANSWERED", c, md) \in Events
        /\ EventInv(Event("ANSWERED", c, md), call[c], y)
    BY <1>3, <1>4, EventTyped
  <2> QED BY <2>1, <2>2, <2>3, ReportKeeps DEF NetStep
<1>12. ASSUME NEW md \in Answers, PeerAck(c, md)
       PROVE  LifeInv' /\ Onward(Now, Now')
  <2> DEFINE y == [x EXCEPT !.ack = FALSE]
  <2>1. Report(c, y, "ACK", md) BY <1>12 DEF PeerAck
  <2>2. y \in Contexts /\ y.stage = x.stage BY <1>2, SameStageTyped
  <2> HIDE DEF y
  <2>3. Event("ACK", c, md) \in Events /\ EventInv(Event("ACK", c, md), call[c], y)
    BY <1>3, <1>4, EventTyped
  <2> QED BY <2>1, <2>2, <2>3, ReportKeeps DEF NetStep
<1>13. ASSUME NEW md \in Offers, PeerReinvite(c, md)
       PROVE  LifeInv' /\ Onward(Now, Now')
  <2> DEFINE y == [x EXCEPT !.re = "in"]
  <2>1. Report(c, y, "REINVITE", md) /\ x.stage = "conf"
    BY <1>13 DEF PeerReinvite, CanReinvite
  <2>2. y \in Contexts /\ y.stage = x.stage BY <1>2, SameStageTyped
  <2> HIDE DEF y
  <2>3. Event("REINVITE", c, md) \in Events
        /\ EventInv(Event("REINVITE", c, md), call[c], y)
    BY <1>3, <1>4, <2>1, <2>2, EventTyped
  <2> QED BY <2>1, <2>2, <2>3, ReportKeeps DEF NetStep
<1> QED BY <1>7, <1>8, <1>9, <1>10, <1>11, <1>12, <1>13

\* The responses to the initial INVITE of either side, and the clean-up of
\* contexts: all of them change the stage of one context.
LEMMA StagesStep ==
  ASSUME LifeInv, NEW c \in Calls,
         \/ PeerTrying(c)
         \/ \E md \in Answers \cup {"None"} : PeerRinging(c, md)
         \/ \E md \in Answers : PeerAnswer(c, md)
         \/ \E failure \in Failures \ {"NoResponse"} : PeerRefuse(c, failure)
         \/ RefusalSent(c) \/ NoAnswer(c) \/ Release(c)
  PROVE  LifeInv' /\ Onward(Now, Now')
<1> DEFINE x == ctx[c]
<1>1. Now \in States /\ Now.ctx = ctx BY WholeNow DEF Whole, Now
<1>2. x \in Contexts BY <1>1, StateFields
<1>3. Answers \subseteq Descriptions /\ "None" \in Descriptions
  BY ConstantsAssumption DEF Descriptions
<1>4. ASSUME NEW y \in Contexts, NetStep(call[c], x.stage, y.stage),
             NEW type \in EventTypes \ {"INVITE", "REINVITE"}, NEW arg,
             IF type = "FAILURE" THEN arg \in Failures ELSE arg \in Descriptions,
             Report(c, y, type, arg)
      PROVE  LifeInv' /\ Onward(Now, Now')
  <2>1. Event(type, c, arg) \in Events /\ EventInv(Event(type, c, arg), call[c], y)
    BY <1>4, EventTyped
  <2> QED BY <1>4, <2>1, ReportKeeps
<1>5. /\ {"PROCEEDING", "RINGING", "ANSWERED", "FAILURE", "CLOSED", "RELEASED"}
           \subseteq EventTypes \ {"INVITE", "REINVITE"}
      /\ "NoResponse" \in Failures
  BY DEF EventTypes, Failures
<1>6. CASE PeerTrying(c)
  <2> DEFINE y == [x EXCEPT !.stage = "early"]
  <2>1. y \in Contexts /\ y.stage = "early" BY <1>2 DEF Contexts, Stages, Descriptions
  <2>2. Report(c, y, "PROCEEDING", "None") /\ x.stage = "calling" BY <1>6 DEF PeerTrying
  <2> HIDE DEF y, x
  <2>3. NetStep(call[c], x.stage, y.stage) BY <2>1, <2>2 DEF NetStep
  <2> QED BY <1>3, <1>4, <1>5, <2>1, <2>2, <2>3
<1>7. ASSUME NEW md \in Answers \cup {"None"}, PeerRinging(c, md)
      PROVE  LifeInv' /\ Onward(Now, Now')
  <2> DEFINE y == [x EXCEPT !.stage = "early"]
  <2>1. y \in Contexts /\ y.stage = "early" BY <1>2 DEF Contexts, Stages, Descriptions
  <2>2. Report(c, y, "RINGING", md) /\ x.stage \in {"calling", "early"}
    BY <1>7 DEF PeerRinging
  <2> HIDE DEF y, x
  <2>3. NetStep(call[c], x.stage, y.stage) BY <2>1, <2>2 DEF NetStep
  <2> QED BY <1>3, <1>4, <1>5, <2>1, <2>2, <2>3
<1>8. ASSUME NEW md \in Answers, PeerAnswer(c, md)
      PROVE  LifeInv' /\ Onward(Now, Now')
  <2> DEFINE y == [x EXCEPT !.stage = "conf", !.told = x.offer]
  <2>1. y \in Contexts /\ y.stage = "conf" BY <1>2 DEF Contexts, Stages, Descriptions
  <2>2. Report(c, y, "ANSWERED", md) /\ x.stage \in {"calling", "early"}
    BY <1>8 DEF PeerAnswer
  <2> HIDE DEF y, x
  <2>3. NetStep(call[c], x.stage, y.stage) BY <2>1, <2>2 DEF NetStep
  <2> QED BY <1>3, <1>4, <1>5, <2>1, <2>2, <2>3
<1>9. ASSUME NEW failure \in Failures \ {"NoResponse"}, PeerRefuse(c, failure)
      PROVE  LifeInv' /\ Onward(Now, Now')
  <2> DEFINE y == [x EXCEPT !.stage = "failed"]
  <2>1. y \in Contexts /\ y.stage = "failed" BY <1>2 DEF Contexts, Stages, Descriptions
  <2>2. Report(c, y, "FAILURE", failure) /\ x.stage \in {"calling", "early"}
    BY <1>9 DEF PeerRefuse
  <2> HIDE DEF y, x
  <2>3. NetStep(call[c], x.stage, y.stage) BY <2>1, <2>2 DEF NetStep
  <2> QED BY <1>4, <1>5, <2>1, <2>2, <2>3
<1>10. CASE RefusalSent(c)
  <2> DEFINE y == [x EXCEPT !.stage = "failed"]
  <2>1. y \in Contexts /\ y.stage = "failed" BY <1>2 DEF Contexts, Stages, Descriptions
  <2>2. Report(c, y, "CLOSED", "None") /\ x.stage = "refused" BY <1>10 DEF RefusalSent
  <2> HIDE DEF y, x
  <2>3. NetStep(call[c], x.stage, y.stage) BY <2>1, <2>2 DEF NetStep
  <2> QED BY <1>3, <1>4, <1>5, <2>1, <2>2, <2>3
<1>11. CASE NoAnswer(c)
  <2> DEFINE y == [x EXCEPT !.stage = "failed"]
  <2>1. y \in Contexts /\ y.stage = "failed" BY <1>2 DEF Contexts, Stages, Descriptions
  <2>2. /\ Move(c, y) \/ Report(c, y, "FAILURE", "NoResponse")
        /\ x.stage \in {"calling", "early", "incoming"}
    BY <1>11 DEF NoAnswer
  <2> HIDE DEF y
  <2>3. NetStep(call[c], x.stage, y.stage) BY <2>1, <2>2 DEF NetStep
  <2>4. CASE Move(c, y) BY <2>1, <2>3, <2>4, MoveKeeps
  <2>5. CASE Report(c, y, "FAILURE", "NoResponse") BY <1>4, <1>5, <2>1, <2>3, <2>5
  <2> QED BY <2>2, <2>4, <2>5
<1>12. CASE Release(c)
  <2> DEFINE y == [x EXCEPT !.stage = "released", !.re = "none"]
  <2>1. y \in Contexts /\ y.stage = "released" BY <1>2 DEF Contexts, Stages, Descriptions
  <2>2. Report(c, y, "RELEASED", "None") /\ x.stage \in {"failed", "closed"}
    BY <1>12 DEF Release
  <2> HIDE DEF y, x
  <2>3. NetStep(call[c], x.stage, y.stage) BY <2>1, <2>2 DEF NetStep
  <2> QED BY <1>3, <1>4, <1>5, <2>1, <2>2, <2>3
<1> QED BY <1>6, <1>7, <1>8, <1>9, <1>10, <1>11, <1>12

LEMMA PeerInviteStep ==
  ASSUME LifeInv, NEW md \in Offers, PeerInvite(md)
  PROVE  LifeInv' /\ Onward(Now, Now')
<1> DEFINE c == NextCall
           y == [NoContext EXCEPT !.stage = "incoming"]
<1>1. c \in Calls /\ Fresh(Now, c) BY NextCallFresh DEF PeerInvite
<1>2. call[c].state = "Idle" /\ ctx[c].stage = "none" BY <1>1 DEF Fresh, Now
<1>3. Report(c, y, "INVITE", md) BY DEF PeerInvite
<1>4. y \in Contexts /\ y.stage = "incoming"
  BY DEF NoContext, Contexts, Stages, Dirs, Descriptions
<1> HIDE DEF y, c
<1>5. NetStep(call[c], ctx[c].stage, y.stage) BY <1>2, <1>4 DEF NetStep
<1>6. md \in Descriptions /\ "INVITE" \in EventTypes BY ConstantsAssumption DEF EventTypes
<1>7. Event("INVITE", c, md) \in Events /\ EventInv(Event("INVITE", c, md), call[c], y)
  BY <1>1, <1>2, <1>4, <1>6, EventTyped
<1> QED BY <1>1, <1>2, <1>3, <1>4, <1>5, <1>7, ReportKeeps

\* Every step keeps the invariant, and moves the calls as their life allows.
LEMMA NextKeeps ==
  ASSUME "srtp" \notin Features, LifeInv, [Next]_vars
  PROVE  LifeInv' /\ Onward(Now, Now')
<1>1. CASE Invite BY <1>1, InviteStep
<1>2. CASE Iterate BY <1>2, IterateKeeps
<1>3. CASE \E md \in Offers : PeerInvite(md) BY <1>3, PeerInviteStep
<1>4. ASSUME NEW c \in Calls,
             Application(c) \/ Peer(c) \/ RefusalSent(c) \/ NoAnswer(c) \/ Release(c)
      PROVE  LifeInv' /\ Onward(Now, Now')
  <2>1. CASE Application(c) BY <2>1, ApplicationStep
  <2>2. CASE RefusalSent(c) \/ NoAnswer(c) \/ Release(c) BY <2>2, StagesStep
  <2>3. CASE Peer(c)
    <3>1. CASE \/ PeerCancel(c) \/ PeerBye(c) \/ PeerRefuseReinvite(c) \/ PeerRefer(c)
               \/ \E md \in Answers : PeerAcceptReinvite(c, md) \/ PeerAck(c, md)
               \/ \E md \in Offers : PeerReinvite(c, md)
      BY <3>1, DialogStep
    <3>2. CASE \/ PeerTrying(c)
               \/ \E md \in Answers \cup {"None"} : PeerRinging(c, md)
               \/ \E md \in Answers : PeerAnswer(c, md)
               \/ \E failure \in Failures \ {"NoResponse"} : PeerRefuse(c, failure)
      BY <3>2, StagesStep
    <3> QED BY <2>3, <3>1, <3>2 DEF Peer
  <2> QED BY <1>4, <2>1, <2>2, <2>3
<1>5. CASE UNCHANGED vars
  <2>1. Now' = Now BY <1>5 DEF vars, Now
  <2>2. LifeInv' <=> Whole(Now') BY DEF LifeInv, Whole, TypeOK, Now
  <2> QED BY <2>1, <2>2, WholeNow DEF Onward
<1> QED BY <1>1, <1>2, <1>3, <1>4, <1>5 DEF Next

-----------------------------------------------------------------------------
(***************************************************************************)
(* Theorems                                                                *)
(***************************************************************************)

\* The invariant of the core, for any number of calls, any bound on the calls
\* and on the queue, and any SDP: each call fits its eXosip context, the list
\* and the current call fit the states, and each queued event fits its call.
THEOREM Invariance ==
  ASSUME "srtp" \notin Features
  PROVE  Spec => []LifeInv
<1>1. Init => LifeInv BY InitWhole
<1>2. LifeInv /\ [Next]_vars => LifeInv' BY NextKeeps
<1> QED BY <1>1, <1>2, PTL DEF Spec

\* The variables keep their types: in particular, no handler writes the record
\* of a call that does not exist, and every event is for a known context.
THEOREM TypeCorrectness ==
  ASSUME "srtp" \notin Features
  PROVE  Spec => []TypeOK
<1>1. LifeInv => TypeOK BY DEF LifeInv
<1> QED BY <1>1, Invariance, PTL

\* lc->calls is exactly the set of the calls announced and not yet ended.
THEOREM ListIsExact ==
  ASSUME "srtp" \notin Features
  PROVE  Spec => []ListedIffLive
<1>1. LifeInv => ListedIffLive BY DEF LifeInv, ListInv, ListedIffLive, Now
<1> QED BY <1>1, Invariance, PTL

\* lc->current_call is NULL or a call of the list, so that neither the pause
\* before a new call nor the API's "current call" reaches a call that is over.
THEOREM CurrentIsSafe ==
  ASSUME "srtp" \notin Features
  PROVE  Spec => []CurrentIsListed
<1>1. LifeInv => CurrentIsListed BY DEF LifeInv, ListInv, CurrentIsListed, Now
<1> QED BY <1>1, Invariance, PTL

\* There are never more than lc->max_calls calls, also when a transfer or a
\* deferred INVITE adds one from within a callback.
THEOREM CallsAreBounded ==
  ASSUME "srtp" \notin Features
  PROVE  Spec => []WithinMaxCalls
<1>1. LifeInv => WithinMaxCalls BY DEF LifeInv, ListInv, WithinMaxCalls, Now
<1> QED BY <1>1, Invariance, PTL

\* Whatever response, re-INVITE, ACK or REFER is handled after the end of a
\* call, the call stays as it ended until it is released.
THEOREM EndStaysFinal ==
  ASSUME "srtp" \notin Features
  PROVE  Spec => EndIsFinal
<1>1. LifeInv /\ [Next]_vars =>
        [\A c \in Calls : call[c].state \in Ended =>
           call'[c].state \in {call[c].state, "Released"}]_vars
  <2> SUFFICES ASSUME LifeInv, [Next]_vars, NEW c \in Calls, call[c].state \in Ended
               PROVE  call'[c].state \in {call[c].state, "Released"}
    OBVIOUS
  <2>1. Onward(Now, Now') BY NextKeeps
  <2>2. Now.call = call /\ Now'.call = call' BY DEF Now
  <2>3. call[c].state \notin Settled /\ call[c].state \notin Live \cup {"Idle", "Released"}
    BY DEF Settled, Live, Ended, Outgoing, Incoming
  <2> QED BY <2>1, <2>2, <2>3 DEF Onward, Moves, Eased
<1> QED BY <1>1, Invariance, PTL DEF Spec, EndIsFinal

-----------------------------------------------------------------------------
(***************************************************************************)
(* Refinement: the core implements CallLife                                *)
(***************************************************************************)

\* The states of a call and the stages of its life.
LEMMA LifeIs ==
  ASSUME NEW k
  PROVE  /\ k.state = "Idle" => LifeOf(k) = "new"
         /\ k.state \in Live => LifeOf(k) = "open"
         /\ k.state \in Ended => LifeOf(k) = "ended"
         /\ k.state = "Released" => LifeOf(k) = "released"
         /\ k.state \in Settled => k.state \in Live
         /\ k.state \in CallStates => (LifeOf(k) = "open" <=> k.state \in Live)
<1>1. /\ Live \cap Ended = {} /\ {"Idle", "Released"} \cap (Live \cup Ended) = {}
      /\ Settled \subseteq Live
  BY DEF Live, Ended, Outgoing, Incoming, Settled
<1>2. k.state = "Idle" => LifeOf(k) = "new" BY <1>1 DEF LifeOf
<1>3. k.state \in Live => LifeOf(k) = "open" BY <1>1 DEF LifeOf
<1>4. k.state \in Ended => LifeOf(k) = "ended" BY <1>1 DEF LifeOf
<1>5. k.state = "Released" => LifeOf(k) = "released" BY <1>1 DEF LifeOf
<1> QED BY <1>1, <1>2, <1>3, <1>4, <1>5 DEF CallStates

\* The calls of the core live as the abstract specification says: each opens at
\* most once, within max_calls, and ends and is released at most once.
THEOREM Refinement ==
  ASSUME "srtp" \notin Features
  PROVE  Spec => CallsLiveOnce
<1>1. Init => CallLife!LifeInit
  <2> SUFFICES ASSUME Init PROVE CallLife!LifeInit OBVIOUS
  <2>1. \A c \in Calls : LifeOf(call[c]) = "new" BY LifeIs DEF Init, NewCall
  <2> QED BY <2>1 DEF Init, life, CallLife!LifeInit
<1>2. LifeInv /\ LifeInv' /\ Onward(Now, Now') => CallLife!LifeNext
  <2> SUFFICES ASSUME LifeInv, LifeInv', Onward(Now, Now') PROVE CallLife!LifeNext
    OBVIOUS
  <2>1. /\ call \in [Calls -> CallRecords] /\ call' \in [Calls -> CallRecords]
        /\ calls \subseteq Calls /\ calls' \subseteq Calls
    BY DEF LifeInv, TypeOK, Now, States
  <2>2. \A c \in Calls : call[c].state \in CallStates /\ call'[c].state \in CallStates
    BY <2>1 DEF CallRecords
  <2>3. \A c \in Calls : (c \in calls <=> call[c].state \in Live)
                        /\ (c \in calls' <=> call'[c].state \in Live)
    BY DEF LifeInv, ListInv, Now
  <2>4. current' \in calls' \cup {NoCall} BY DEF LifeInv, ListInv, Now
  <2>5. /\ life = [c \in Calls |-> life[c]] /\ life' = [c \in Calls |-> life'[c]]
        /\ \A c \in Calls : life[c] = LifeOf(call[c]) /\ life'[c] = LifeOf(call'[c])
    BY DEF life
  <2>6. ASSUME NEW c \in Calls
        PROVE  (life[c] = "open" <=> c \in calls) /\ (life'[c] = "open" <=> c \in calls')
    <3>1. LifeOf(call[c]) = "open" <=> call[c].state \in Live BY <2>2, LifeIs
    <3>2. LifeOf(call'[c]) = "open" <=> call'[c].state \in Live BY <2>2, LifeIs
    <3>3. life[c] = LifeOf(call[c]) /\ life'[c] = LifeOf(call'[c]) BY <2>5
    <3>4. c \in calls <=> call[c].state \in Live BY <2>3
    <3>5. c \in calls' <=> call'[c].state \in Live BY <2>3
    <3> QED BY <3>1, <3>2, <3>3, <3>4, <3>5
  <2>7. CallLife!OpenCalls(life) = calls /\ CallLife!OpenCalls(life') = calls'
    <3>1. calls = {c \in Calls : life[c] = "open"} BY <2>1, <2>6
    <3>2. calls' = {c \in Calls : life'[c] = "open"} BY <2>1, <2>6
    <3> QED BY <3>1, <3>2 DEF CallLife!OpenCalls
  <2> DEFINE Steady(d) == \/ call'[d].state = call[d].state
                          \/ call'[d].state \in Settled /\ call[d].state \in Settled
  <2>8. \A d \in Calls : Steady(d) => life'[d] = life[d]
    BY <2>2, <2>5, LifeIs DEF CallStates
  <2>9. Now.call = call /\ Now'.call = call' /\ Now.calls = calls BY DEF Now
  <2>10. ASSUME \A d \in Calls : Steady(d)
         PROVE  UNCHANGED life
    BY <2>5, <2>8, <2>10
  <2>11. ASSUME NEW c \in Calls, Moves(Now, Now', c)
         PROVE  CallLife!Open(c) \/ CallLife!End(c) \/ CallLife!Release(c) \/ UNCHANGED life
    <3> HIDE DEF life
    <3>1. \A d \in Calls : d # c => life'[d] = life[d]
      <4> SUFFICES ASSUME NEW d \in Calls, d # c PROVE life'[d] = life[d] OBVIOUS
      <4>1. Eased(Now, Now', d) BY <2>11 DEF Moves
      <4>2. Steady(d) BY <2>9, <4>1 DEF Eased
      <4> QED BY <2>8, <4>2
    <3>2. life' = [life EXCEPT ![c] = life'[c]] BY <2>5, <3>1
    <3>3. \/ life'[c] = life[c]
          \/ life[c] = "new" /\ life'[c] \in {"open", "ended"} /\ Cardinality(calls) < MaxCalls
          \/ life[c] = "open" /\ life'[c] \in {"ended", "released"}
          \/ life[c] = "ended" /\ life'[c] = "released"
      BY <2>5, <2>9, <2>11, LifeIs DEF Moves
    <3>4. CASE life'[c] = life[c] BY <2>5, <3>2, <3>4
    <3>5. CASE life[c] = "new" /\ life'[c] \in {"open", "ended"} /\ Cardinality(calls) < MaxCalls
      <4>1. CallLife!Cardinality(calls) = Cardinality(calls)
        BY DEF CallLife!Cardinality, Cardinality
      <4> QED BY <2>7, <3>2, <3>5, <4>1 DEF CallLife!Open
    <3>6. CASE life[c] = "open" /\ life'[c] = "ended" BY <3>2, <3>6 DEF CallLife!End
    <3>7. CASE life[c] \in {"open", "ended"} /\ life'[c] = "released"
      BY <3>2, <3>7 DEF CallLife!Release
    <3> QED BY <3>3, <3>4, <3>5, <3>6, <3>7
  <2>12. (\E c \in Calls : CallLife!Open(c) \/ CallLife!End(c) \/ CallLife!Release(c))
           \/ UNCHANGED life
    <3>1. CASE \E c \in Calls : Moves(Now, Now', c) BY <2>11, <3>1
    <3>2. CASE \A d \in Calls :
                 \/ Now'.call[d].state = Now.call[d].state
                 \/ Now'.call[d].state \in Settled /\ Now.call[d].state \in Settled
      <4>1. \A d \in Calls : Steady(d) BY <2>9, <3>2
      <4>2. UNCHANGED life BY <2>10, <4>1
      <4> QED BY <4>2
    <3> QED BY <3>1, <3>2 DEF Onward
  <2> QED BY <2>4, <2>7, <2>12 DEF CallLife!LifeNext
<1>3. LifeInv /\ [Next]_vars => [CallLife!LifeNext]_CallLife!lifeVars
  BY <1>2, NextKeeps
<1> QED BY <1>1, <1>3, Invariance, PTL DEF Spec, CallsLiveOnce, CallLife!LifeSpec
=============================================================================
