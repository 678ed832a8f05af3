----------------------- MODULE CallControlInvariants -----------------------
(***************************************************************************)
(* The theorems about CallControl that need more than the calls' life: who *)
(* holds a reference on a call, what the friends were told, which event is *)
(* still queued for a call whose dialog is gone, and that a call which was *)
(* answered never rings again.                                             *)
(*                                                                         *)
(* They rest on IndInv.  Of a state record it is divided in two: "Counted" *)
(* is what every operator keeps, and "Goes" is what an operator does to    *)
(* the calls and contexts, from which the order of the queued events       *)
(* follows for each event that is handled.                                 *)
(***************************************************************************)
EXTENDS CallControlProofs

\* Live and past ringing.
Answered == Settled \ Outgoing

\* Answered once, or over.
After == Answered \cup Ended \cup {"Released"}

\* Where a call of ours is as long as provisional responses may come.
Dialled == Outgoing \cup Ended \cup {"Released"}

\* What every operator keeps: the list and the reference counts are exact, a
\* paused call waits for no transfer, and a context that waits for the answer
\* to our INVITE belongs to a call that is going out, or over.
Counted(s) ==
  /\ s \in States
  /\ \A c \in Calls : c \in s.calls <=> s.call[c].state \in Live
  /\ ReferenceInv(s)
  /\ \A c \in Calls : s.call[c].state = "Paused" => ~s.call[c].refer_pending
  /\ \A c \in Calls : s.ctx[c].stage \in {"calling", "early"} => s.call[c].state \in Dialled
  /\ \A c \in Calls : AckInv(s.ctx[c])

\* The references on d and its SalOp are untouched.
Held(s, t, d) ==
  /\ t.call[d].refcnt = s.call[d].refcnt
  /\ t.call[d].referer = s.call[d].referer
  /\ t.call[d].op = s.call[d].op

\* An INVITE of the peer is answered, or the stage stays.
Ebbs(x, y) ==
  /\ y.stage = x.stage \/ (x.stage = "incoming" /\ y.stage \in {"conf", "refused"})
  /\ AckInv(x) => AckInv(y)

\* An answered call may move, but is not paused; no dialog ends.
Calm(s, t, d) ==
  /\ \/ t.call[d].state = s.call[d].state
     \/ /\ s.call[d].state \in Answered
        /\ t.call[d].state \in Answered \ {"Paused"}
  /\ t.call[d].refer_pending => s.call[d].refer_pending
  /\ Ebbs(s.ctx[d], t.ctx[d])

\* No reference changes, and nothing but c moves.
Steady(s, t, c) ==
  /\ t \in States
  /\ t.evq = s.evq /\ t.calls = s.calls /\ t.friends = s.friends
  /\ \A d \in Calls : Held(s, t, d)
  /\ \A d \in Calls : d # c => Calm(s, t, d)

Still(s, t) == Steady(s, t, NoCall)

\* How any step moves a call and its context: an answered call does not ring
\* again, a call that lives on in a closed dialog was in it before, a dialog is
\* only opened from none, and a context that was opened stays.
Forth(s, t, d) ==
  /\ s.call[d].state \in After => t.call[d].state \in After
  /\ t.call[d].state \in Live /\ t.ctx[d].stage \in {"closed", "released"} =>
       s.call[d].state \in Live /\ s.ctx[d].stage = t.ctx[d].stage
  /\ t.ctx[d].stage = "released" => s.ctx[d].stage = "released"
  /\ t.ctx[d].stage \in {"calling", "early"} => s.ctx[d].stage \in {"none", t.ctx[d].stage}
  /\ t.ctx[d].stage = "none" => s.ctx[d].stage = "none"

\* All calls go forth, and all but c stay where provisional responses may come.
Goes(s, t, c) ==
  /\ t \in States /\ t.evq = s.evq
  /\ \A d \in Calls : Forth(s, t, d)
  /\ \A d \in Calls : d # c /\ s.call[d].state \in Dialled => t.call[d].state \in Dialled

-----------------------------------------------------------------------------
(***************************************************************************)
(* Steady and still steps                                                  *)
(***************************************************************************)

LEMMA CalmTwice ==
  ASSUME NEW s, NEW t, NEW u, NEW d, Calm(s, t, d), Calm(t, u, d)
  PROVE  Calm(s, u, d)
  BY DEF Calm, Ebbs

LEMMA SteadyTwice ==
  ASSUME NEW s, NEW t, NEW u, NEW c, Steady(s, t, c), Steady(t, u, c)
  PROVE  Steady(s, u, c)
<1>1. \A d \in Calls : d # c => Calm(s, u, d) BY CalmTwice DEF Steady
<1>2. \A d \in Calls : Held(s, u, d) BY DEF Steady, Held
<1> QED BY <1>1, <1>2 DEF Steady

LEMMA StillTwice ==
  ASSUME NEW s, NEW t, NEW u, Still(s, t), Still(t, u)
  PROVE  Still(s, u)
  BY SteadyTwice DEF Still

LEMMA StillSelf ==
  ASSUME NEW s \in States
  PROVE  Still(s, s)
  BY DEF Still, Steady, Held, Calm, Ebbs

\* A still step is steady for every call, and typed.
LEMMA StillSteady ==
  ASSUME NEW s, NEW t, Still(s, t)
  PROVE  /\ t \in States /\ t.calls = s.calls /\ t.evq = s.evq /\ t.friends = s.friends
         /\ \A c \in Calls : Steady(s, t, c) /\ Calm(s, t, c) /\ Held(s, t, c)
  BY NoCallIsNone DEF Still, Steady

LEMMA SteadyStill ==
  ASSUME NEW s, NEW t, NEW c \in Calls, Steady(s, t, c), Calm(s, t, c)
  PROVE  Still(s, t)
  BY DEF Still, Steady

\* A calm call goes forth.
LEMMA CalmForth ==
  ASSUME NEW s, NEW t, NEW d, Calm(s, t, d)
  PROVE  /\ Forth(s, t, d)
         /\ s.call[d].state \in Dialled <=> t.call[d].state \in Dialled
         /\ s.call[d].state \in Live <=> t.call[d].state \in Live
         /\ s.call[d].state \in {"Idle", "Released"} <=> t.call[d].state \in {"Idle", "Released"}
         /\ s.call[d].state = "Idle" <=> t.call[d].state = "Idle"
         /\ t.call[d].state = "Paused" => s.call[d].state = "Paused"
         /\ t.ctx[d].stage \in {"calling", "early"} => s.ctx[d].stage = t.ctx[d].stage
  BY DEF Calm, Ebbs, Forth, After, Dialled, Answered, Settled, Live, Outgoing, Incoming, Ended

\* Who is a target of whom does not change in a steady step.
LEMMA SteadyTargets ==
  ASSUME NEW s, NEW t, NEW c, Steady(s, t, c), s.calls \subseteq Calls
  PROVE  \A b : Targets(t, b) = Targets(s, b)
  BY DEF Steady, Held, Targets

\* The step of c in a steady step: what is asked of it to keep the counts.
LEMMA SteadyCounted ==
  ASSUME NEW s, Counted(s), NEW t, NEW c \in Calls, Steady(s, t, c),
         s.call[c].state \in {"Idle", "Released"} <=> t.call[c].state \in {"Idle", "Released"},
         t.call[c].state = "Idle" => s.call[c].state = "Idle",
         t.call[c].state \in Live <=> s.call[c].state \in Live,
         t.call[c].state = "Paused" => ~t.call[c].refer_pending,
         t.ctx[c].stage \in {"calling", "early"} => t.call[c].state \in Dialled,
         AckInv(t.ctx[c])
  PROVE  Counted(t)
<1>1. \A d \in Calls : d # c => Calm(s, t, d) BY DEF Steady
<1>2. s.calls \subseteq Calls /\ t \in States BY StateFields DEF Counted, Steady
<1>3. \A b : Targets(t, b) = Targets(s, b) BY <1>2, SteadyTargets
<1>4. \A d \in Calls :
        /\ s.call[d].state \in {"Idle", "Released"} <=> t.call[d].state \in {"Idle", "Released"}
        /\ t.call[d].state = "Idle" => s.call[d].state = "Idle"
        /\ t.call[d].state \in Live <=> s.call[d].state \in Live
        /\ t.call[d].state = "Paused" => ~t.call[d].refer_pending
        /\ t.ctx[d].stage \in {"calling", "early"} => t.call[d].state \in Dialled
  <2> SUFFICES ASSUME NEW d \in Calls, d # c
               PROVE  /\ s.call[d].state \in {"Idle", "Released"}
                           <=> t.call[d].state \in {"Idle", "Released"}
                      /\ t.call[d].state = "Idle" => s.call[d].state = "Idle"
                      /\ t.call[d].state \in Live <=> s.call[d].state \in Live
                      /\ t.call[d].state = "Paused" => ~t.call[d].refer_pending
                      /\ t.ctx[d].stage \in {"calling", "early"} => t.call[d].state \in Dialled
    OBVIOUS
  <2>1. Calm(s, t, d) BY <1>1
  <2>2. t.call[d].refer_pending => s.call[d].refer_pending BY <2>1 DEF Calm
  <2> QED BY <2>1, <2>2, CalmForth DEF Counted
<1>5. ReferenceInv(t)
  <2>1. \A d \in t.calls : t.call[d].op BY <1>2 DEF Steady, Held, Counted, ReferenceInv
  <2>2. \A d \in Calls :
          t.call[d].refcnt = (IF t.call[d].state \in {"Idle", "Released"} THEN 0 ELSE 1)
                             + Cardinality(Targets(t, d))
    BY <1>3, <1>4 DEF Steady, Held, Counted, ReferenceInv
  <2>3. \A d \in Calls : t.call[d].state = "Idle" => t.call[d].refcnt = 0
    BY <1>4 DEF Steady, Held, Counted, ReferenceInv
  <2>4. t.calls # {} => t.friends = "OnThePhone" BY DEF Steady, Counted, ReferenceInv
  <2> QED BY <2>1, <2>2, <2>3, <2>4 DEF ReferenceInv
<1>6. \A d \in Calls : d \in t.calls <=> t.call[d].state \in Live
  BY <1>4 DEF Steady, Counted
<1>7. \A d \in Calls : AckInv(t.ctx[d]) BY <1>1 DEF Calm, Ebbs, Counted
<1> QED BY <1>2, <1>4, <1>5, <1>6, <1>7 DEF Counted

LEMMA SteadyGoes ==
  ASSUME NEW s, NEW t, NEW c \in Calls, Steady(s, t, c), Forth(s, t, c)
  PROVE  /\ Goes(s, t, c)
         /\ (s.call[c].state \in Dialled => t.call[c].state \in Dialled) => Goes(s, t, NoCall)
<1>1. \A d \in Calls : d # c =>
        Forth(s, t, d) /\ (s.call[d].state \in Dialled => t.call[d].state \in Dialled)
  BY CalmForth DEF Steady
<1> QED BY <1>1 DEF Goes, Steady

\* A still step keeps everything.
LEMMA StillCounted ==
  ASSUME NEW s, Counted(s), NEW t, Still(s, t)
  PROVE  Counted(t) /\ \A c : Goes(s, t, c)
<1>1. \A d \in Calls : Steady(s, t, d) /\ Calm(s, t, d) BY StillSteady
<1>2. \A c : Goes(s, t, c) BY <1>1, CalmForth, StillSteady DEF Goes
<1>3. Counted(t)
  <2>1. CASE Calls = {}
    <3>1. t \in States /\ t.calls = s.calls BY StillSteady
    <3>2. t.calls = {} BY <2>1, <3>1, StateFields
    <3> QED BY <2>1, <3>1, <3>2 DEF Counted, ReferenceInv
  <2>2. CASE Calls # {}
    <3>1. PICK c \in Calls : TRUE BY <2>2
    <3>2. t.call[c].refer_pending => s.call[c].refer_pending BY <1>1, <3>1 DEF Calm
    <3>3. t.call[c].state = "Paused" => ~t.call[c].refer_pending
      BY <1>1, <3>1, <3>2, CalmForth DEF Counted
    <3>4. t.ctx[c].stage \in {"calling", "early"} => t.call[c].state \in Dialled
      BY <1>1, <3>1, CalmForth DEF Counted
    <3>5. AckInv(t.ctx[c]) BY <1>1, <3>1 DEF Calm, Ebbs, Counted
    <3> QED BY <1>1, <3>1, <3>3, <3>4, <3>5, CalmForth, SteadyCounted
  <2> QED BY <2>1, <2>2
<1> QED BY <1>2, <1>3

LEMMA GoesTwice ==
  ASSUME NEW s, NEW t, NEW u, NEW c, Goes(s, t, c), Goes(t, u, c)
  PROVE  Goes(s, u, c)
<1>1. \A d \in Calls : Forth(s, u, d) BY DEF Goes, Forth
<1> QED BY <1>1 DEF Goes

LEMMA GoesAny ==
  ASSUME NEW s, NEW t, NEW c, Goes(s, t, NoCall)
  PROVE  Goes(s, t, c)
  BY NoCallIsNone DEF Goes

\* What a still step says of the state of a call.
LEMMA StillState ==
  ASSUME NEW s, NEW t, Still(s, t), NEW c \in Calls
  PROVE  /\ t \in States
         /\ s.call[c].state \in Answered <=> t.call[c].state \in Answered
         /\ s.call[c].state \notin Answered => t.call[c].state = s.call[c].state
         /\ t.call[c].state = "Paused" => s.call[c].state = "Paused"
         /\ t.call[c].refer_pending => s.call[c].refer_pending
         /\ s.ctx[c].stage # "incoming" => t.ctx[c].stage = s.ctx[c].stage
         /\ t.call[c].op = s.call[c].op
<1>1. Calm(s, t, c) /\ Held(s, t, c) /\ t \in States BY StillSteady
<1>2. t.call[c].refer_pending => s.call[c].refer_pending BY <1>1 DEF Calm
<1> QED BY <1>1, <1>2 DEF Calm, Held, Ebbs

-----------------------------------------------------------------------------
(***************************************************************************)
(* The media and signalling operators                                      *)
(***************************************************************************)

LEMMA StoreSteady ==
  ASSUME NEW s \in States, NEW c \in Calls, NEW k \in CallRecords,
         k.refcnt = s.call[c].refcnt, k.referer = s.call[c].referer, k.op = s.call[c].op
  PROVE  /\ Steady(s, Store(s, c, k), c)
         /\ k.state = s.call[c].state /\ (k.refer_pending => s.call[c].refer_pending) =>
              Still(s, Store(s, c, k))
<1> DEFINE t == Store(s, c, k)
<1>1. /\ t \in States /\ t.call[c] = k /\ t.calls = s.calls /\ t.ctx = s.ctx /\ t.evq = s.evq
      /\ \A d \in Calls : d # c => t.call[d] = s.call[d]
  BY StoreTyped
<1>2. t.friends = s.friends BY DEF States, Store
<1> HIDE DEF t
<1>3. \A d \in Calls : d # c => Calm(s, t, d) BY <1>1 DEF Calm, Ebbs
<1>4. \A d \in Calls : Held(s, t, d) BY <1>1 DEF Held
<1>5. Steady(s, t, c) BY <1>1, <1>2, <1>3, <1>4 DEF Steady
<1>6. ASSUME k.state = s.call[c].state, k.refer_pending => s.call[c].refer_pending
      PROVE  Still(s, t)
  <2>1. Calm(s, t, c) BY <1>1, <1>6 DEF Calm, Ebbs
  <2> QED BY <1>5, <2>1, SteadyStill
<1> QED BY <1>5, <1>6 DEF t

LEMMA SignalSteady ==
  ASSUME NEW s \in States, NEW c \in Calls, NEW x \in Contexts
  PROVE  /\ Steady(s, Signal(s, c, x), c)
         /\ Ebbs(s.ctx[c], x) => Still(s, Signal(s, c, x))
<1> DEFINE t == Signal(s, c, x)
<1>1. /\ t \in States /\ t.ctx[c] = x /\ t.calls = s.calls /\ t.call = s.call /\ t.evq = s.evq
      /\ \A d \in Calls : d # c => t.ctx[d] = s.ctx[d]
  BY SignalTyped
<1>2. t.friends = s.friends BY DEF States, Signal
<1> HIDE DEF t
<1>3. \A d \in Calls : d # c => Calm(s, t, d) BY <1>1 DEF Calm, Ebbs
<1>4. \A d \in Calls : Held(s, t, d) BY <1>1 DEF Held
<1>5. Steady(s, t, c) BY <1>1, <1>2, <1>3, <1>4 DEF Steady
<1>6. ASSUME Ebbs(s.ctx[c], x) PROVE Still(s, t)
  <2>1. Calm(s, t, c) BY <1>1, <1>6 DEF Calm
  <2> QED BY <1>5, <2>1, SteadyStill
<1> QED BY <1>5, <1>6 DEF t

LEMMA CurrentStill ==
  ASSUME NEW s \in States, NEW n \in Calls \cup {NoCall}
  PROVE  Still(s, [s EXCEPT !.current = n])
<1> DEFINE t == [s EXCEPT !.current = n]
<1>1. /\ t \in States /\ t.evq = s.evq /\ t.calls = s.calls /\ t.friends = s.friends
      /\ t.call = s.call /\ t.ctx = s.ctx
  BY DEF States
<1> HIDE DEF t
<1>2. \A d \in Calls : Calm(s, t, d) /\ Held(s, t, d) BY <1>1 DEF Calm, Ebbs, Held
<1>3. Still(s, t) BY <1>1, <1>2 DEF Still, Steady
<1> QED BY <1>3 DEF t

LEMMA RingStill ==
  ASSUME NEW s \in States, NEW b \in BOOLEAN
  PROVE  Still(s, [s EXCEPT !.ring = b])
<1> DEFINE t == [s EXCEPT !.ring = b]
<1>1. /\ t \in States /\ t.evq = s.evq /\ t.calls = s.calls /\ t.friends = s.friends
      /\ t.call = s.call /\ t.ctx = s.ctx
  BY DEF States
<1> HIDE DEF t
<1>2. \A d \in Calls : Calm(s, t, d) /\ Held(s, t, d) BY <1>1 DEF Calm, Ebbs, Held
<1>3. Still(s, t) BY <1>1, <1>2 DEF Still, Steady
<1> QED BY <1>3 DEF t

LEMMA QuietStill ==
  ASSUME NEW s \in States
  PROVE  Still(s, Quiet(s))
  BY RingStill DEF Quiet

LEMMA StopMediaStill ==
  ASSUME NEW s \in States, NEW c \in Calls
  PROVE  Still(s, linphone_call_stop_media_streams(s, c))
<1> DEFINE k == [s.call[c] EXCEPT !.media = "none"]
<1>1. s.call[c] \in CallRecords BY StateFields
<1>2. /\ k \in CallRecords /\ k.state = s.call[c].state /\ k.op = s.call[c].op
      /\ k.refcnt = s.call[c].refcnt /\ k.referer = s.call[c].referer
      /\ k.refer_pending = s.call[c].refer_pending
  BY <1>1 DEF CallRecords
<1> HIDE DEF k
<1>3. Still(s, Store(s, c, k)) BY <1>2, StoreSteady
<1> QED BY <1>3 DEF linphone_call_stop_media_streams, k

LEMMA UpdateStreamsStill ==
  ASSUME NEW s \in States, NEW c \in Calls, NEW md \in Descriptions
  PROVE  Still(s, linphone_core_update_streams(s, c, md))
<1> DEFINE k == WithStreams(s.call[c], md)
<1>1. s.call[c] \in CallRecords BY StateFields
<1>2. k \in CallRecords
  BY <1>1 DEF CallRecords, WithStreams, linphone_call_start_media_streams
<1>3. /\ k.state = s.call[c].state /\ k.op = s.call[c].op
      /\ k.refcnt = s.call[c].refcnt /\ k.referer = s.call[c].referer
      /\ k.refer_pending = s.call[c].refer_pending
  BY <1>1 DEF CallRecords, WithStreams
<1> HIDE DEF k
<1>4. Still(s, Store(s, c, k)) /\ Store(s, c, k) \in States
  BY <1>2, <1>3, StoreSteady, StoreTyped
<1>5. Still(s, Quiet(Store(s, c, k))) BY <1>4, QuietStill, StillTwice
<1> QED BY <1>5 DEF linphone_core_update_streams, k

LEMMA FinalDescriptionStill ==
  ASSUME NEW s \in States, NEW c \in Calls
  PROVE  Still(s, sal_call_get_final_media_description(s, c))
<1> DEFINE md == offer_answer_initiate_incoming(s.call[c].local, s.call[c].remote)
           k == [s.call[c] EXCEPT !.result = md]
<1>1. s.call[c] \in CallRecords BY StateFields
<1>2. md \in Descriptions BY <1>1, AnswerTyped DEF CallRecords
<1> HIDE DEF md
<1>3. /\ k \in CallRecords /\ k.state = s.call[c].state /\ k.op = s.call[c].op
      /\ k.refcnt = s.call[c].refcnt /\ k.referer = s.call[c].referer
      /\ k.refer_pending = s.call[c].refer_pending
  BY <1>1, <1>2 DEF CallRecords
<1> HIDE DEF k
<1>4. Still(s, Store(s, c, k)) BY <1>3, StoreSteady
<1>5. sal_call_get_final_media_description(s, c) \in {s, Store(s, c, k)}
  BY DEF sal_call_get_final_media_description, k, md
<1> QED BY <1>4, <1>5, StillSelf

LEMMA SetLocalStill ==
  ASSUME NEW s \in States, NEW c \in Calls, NEW dir \in Dirs
  PROVE  Still(s, SetLocal(s, c, dir))
<1> DEFINE k == [s.call[c] EXCEPT !.local = dir]
<1>1. s.call[c] \in CallRecords BY StateFields
<1>2. /\ k \in CallRecords /\ k.state = s.call[c].state /\ k.op = s.call[c].op
      /\ k.refcnt = s.call[c].refcnt /\ k.referer = s.call[c].referer
      /\ k.refer_pending = s.call[c].refer_pending
  BY <1>1 DEF CallRecords
<1> HIDE DEF k
<1>3. Still(s, Store(s, c, k)) BY <1>2, StoreSteady
<1> QED BY <1>3 DEF SetLocal, k

LEMMA SetDialogStill ==
  ASSUME NEW s \in States, NEW c \in Calls
  PROVE  Still(s, SetDialog(s, c))
<1> DEFINE k == [s.call[c] EXCEPT !.did = TRUE]
<1>1. s.call[c] \in CallRecords BY StateFields
<1>2. /\ k \in CallRecords /\ k.state = s.call[c].state /\ k.op = s.call[c].op
      /\ k.refcnt = s.call[c].refcnt /\ k.referer = s.call[c].referer
      /\ k.refer_pending = s.call[c].refer_pending
  BY <1>1 DEF CallRecords
<1> HIDE DEF k
<1>3. Still(s, Store(s, c, k)) BY <1>2, StoreSteady
<1> QED BY <1>3 DEF SetDialog, k

LEMMA SetAnswerStill ==
  ASSUME NEW s \in States, NEW c \in Calls, NEW md \in Descriptions
  PROVE  Still(s, SetAnswer(s, c, md))
<1> DEFINE result == offer_answer_initiate_outgoing(s.call[c].local, md)
           k == [s.call[c] EXCEPT !.remote = md, !.result = result]
<1>1. s.call[c] \in CallRecords BY StateFields
<1>2. result \in Descriptions BY <1>1, AnswerTyped DEF CallRecords
<1> HIDE DEF result
<1>3. /\ k \in CallRecords /\ k.state = s.call[c].state /\ k.op = s.call[c].op
      /\ k.refcnt = s.call[c].refcnt /\ k.referer = s.call[c].referer
      /\ k.refer_pending = s.call[c].refer_pending
  BY <1>1, <1>2 DEF CallRecords
<1> HIDE DEF k
<1>4. Still(s, Store(s, c, k)) BY <1>3, StoreSteady
<1> QED BY <1>4 DEF SetAnswer, k, result

\* The operation is marked terminated, or no longer so.
LEMMA MarkStill ==
  ASSUME NEW s \in States, NEW c \in Calls, NEW b \in BOOLEAN
  PROVE  Still(s, Store(s, c, [s.call[c] EXCEPT !.terminated = b]))
<1> DEFINE k == [s.call[c] EXCEPT !.terminated = b]
<1>1. s.call[c] \in CallRecords BY StateFields
<1>2. /\ k \in CallRecords /\ k.state = s.call[c].state /\ k.op = s.call[c].op
      /\ k.refcnt = s.call[c].refcnt /\ k.referer = s.call[c].referer
      /\ k.refer_pending = s.call[c].refer_pending
  BY <1>1 DEF CallRecords
<1> HIDE DEF k
<1>3. Still(s, Store(s, c, k)) BY <1>2, StoreSteady
<1> QED BY <1>3 DEF k

\* What the core asks of a context never makes it await an ACK out of a dialog.
LEMMA AskedContext ==
  ASSUME NEW x \in Contexts, AckInv(x), NEW b, NEW answer, NEW local
  PROVE  /\ AckInv(eXosip_call_refuse(x)) /\ AckInv(eXosip_call_terminate(x, b))
         /\ AckInv(eXosip_call_send_request(x, local))
         /\ AckInv(eXosip_call_send_200(x, answer, local))
<1>1. AckInv(eXosip_call_refuse(x)) BY DEF AckInv, eXosip_call_refuse, Contexts
<1>2. AckInv(eXosip_call_terminate(x, b))
  BY <1>1 DEF AckInv, eXosip_call_terminate, Contexts
<1>3. AckInv(eXosip_call_send_request(x, local))
  BY DEF AckInv, eXosip_call_send_request, Contexts
<1>4. AckInv(eXosip_call_send_200(x, answer, local))
  BY DEF AckInv, eXosip_call_send_200, Contexts
<1> QED BY <1>1, <1>2, <1>3, <1>4

LEMMA CallUpdateStill ==
  ASSUME NEW s \in States, NEW c \in Calls
  PROVE  Still(s, sal_call_update(s, c))
<1> DEFINE x == eXosip_call_send_request(s.ctx[c], s.call[c].local)
<1>1. s.call[c].local \in Dirs /\ s.ctx[c] \in Contexts BY StateFields DEF CallRecords
<1>2. x \in Contexts /\ x.stage = s.ctx[c].stage
  BY <1>1, OfferingContext DEF Descriptions
<1>5. AckInv(s.ctx[c]) => AckInv(x) BY <1>1, AskedContext
<1> HIDE DEF x
<1>3. Still(s, Signal(s, c, x)) BY <1>2, <1>5, SignalSteady DEF Ebbs
<1>4. sal_call_update(s, c) \in {s, Signal(s, c, x)} BY DEF sal_call_update, x
<1> QED BY <1>3, <1>4, StillSelf

LEMMA RefuseStill ==
  ASSUME NEW s \in States, NEW c \in Calls
  PROVE  Still(s, Signal(s, c, eXosip_call_refuse(s.ctx[c])))
<1> DEFINE x == eXosip_call_refuse(s.ctx[c])
<1>1. s.ctx[c] \in Contexts BY StateFields
<1>2. x \in Contexts BY <1>1, EndingContext
<1>5. x.stage = s.ctx[c].stage \/ (s.ctx[c].stage = "incoming" /\ x.stage = "refused")
  BY <1>1 DEF eXosip_call_refuse, Contexts
<1>6. AckInv(s.ctx[c]) => AckInv(x) BY <1>1, AskedContext
<1>3. Ebbs(s.ctx[c], x) BY <1>5, <1>6 DEF Ebbs
<1> HIDE DEF x
<1>4. Still(s, Signal(s, c, x)) BY <1>2, <1>3, SignalSteady
<1> QED BY <1>4 DEF x

LEMMA CallAcceptStill ==
  ASSUME NEW s \in States, NEW c \in Calls
  PROVE  Still(s, sal_call_accept(s, c))
<1> DEFINE t == sal_call_get_final_media_description(s, c)
           x == eXosip_call_send_200(s.ctx[c], t.call[c].result, t.call[c].local)
<1>1. Still(s, t) /\ t \in States BY FinalDescriptionStill, StillSteady
<1>2. t.call[c].result \in Descriptions /\ t.call[c].local \in Dirs
  BY <1>1, StateFields DEF CallRecords
<1>3. t.ctx[c] = s.ctx[c] /\ s.ctx[c] \in Contexts
  BY StateFields DEF sal_call_get_final_media_description, Store
<1> HIDE DEF t
<1>4. x \in Contexts /\ x.stage = (IF s.ctx[c].stage = "incoming" THEN "conf" ELSE s.ctx[c].stage)
  BY <1>2, <1>3, OfferingContext
<1>7. AckInv(s.ctx[c]) => AckInv(x) BY <1>3, AskedContext
<1> HIDE DEF x
<1>5. Still(t, Signal(t, c, x)) BY <1>1, <1>3, <1>4, <1>7, SignalSteady DEF Ebbs
<1>6. sal_call_accept(s, c) \in {s, Signal(t, c, x)} BY DEF sal_call_accept, t, x
<1> QED BY <1>1, <1>5, <1>6, StillSelf, StillTwice

-----------------------------------------------------------------------------
(***************************************************************************)
(* Changes of state                                                        *)
(***************************************************************************)

\* An answered call that moves on, but is not paused, disturbs nothing; one
\* that has ended does not move.
LEMMA SetStateStill ==
  ASSUME NEW s \in States, NEW c \in Calls, NEW cstate \in Answered \ {"Paused"},
         s.call[c].state \in Answered \cup Ended
  PROVE  Still(s, linphone_call_set_state(s, c, cstate))
<1> DEFINE k == [s.call[c] EXCEPT !.state = cstate]
<1>1. s.call[c] \in CallRecords BY StateFields
<1>2. cstate \in CallStates /\ cstate \notin Ended /\ cstate # "Released"
  BY DEF Answered, Settled, CallStates, Live, Ended, Outgoing, Incoming
<1>3. /\ k \in CallRecords /\ k.state = cstate /\ k.op = s.call[c].op
      /\ k.refcnt = s.call[c].refcnt /\ k.referer = s.call[c].referer
      /\ k.refer_pending = s.call[c].refer_pending
  BY <1>1, <1>2 DEF CallRecords
<1>4. linphone_call_set_state(s, c, cstate) =
        IF s.call[c].state = cstate \/ s.call[c].state \in Ended THEN s ELSE Store(s, c, k)
  BY <1>2 DEF linphone_call_set_state
<1> HIDE DEF k
<1>5. CASE s.call[c].state = cstate \/ s.call[c].state \in Ended BY <1>4, <1>5, StillSelf
<1>6. CASE s.call[c].state # cstate /\ s.call[c].state \notin Ended
  <2> DEFINE t == Store(s, c, k)
  <2>1. Steady(s, t, c) BY <1>3, StoreSteady
  <2>2. t.call[c] = k /\ t.ctx = s.ctx BY <1>3, StoreTyped
  <2> HIDE DEF t
  <2>3. Calm(s, t, c) BY <1>3, <1>6, <2>2 DEF Calm, Ebbs
  <2>4. Still(s, t) BY <2>1, <2>3, SteadyStill
  <2> QED BY <1>4, <1>6, <2>4 DEF t
<1> QED BY <1>5, <1>6

\* Any other change between live states: an answered call must not ring again,
\* nor one that waits for an answer leave the outgoing states.
LEMMA SetStateCounted ==
  ASSUME NEW s, Counted(s), NEW c \in Calls, s.call[c].state \in Live, NEW cstate \in Live,
         cstate = "Paused" => ~s.call[c].refer_pending,
         s.ctx[c].stage \in {"calling", "early"} => cstate \in Outgoing,
         s.call[c].state \in Answered => cstate \in Answered
  PROVE  LET t == linphone_call_set_state(s, c, cstate) IN
         /\ Counted(t) /\ Goes(s, t, c)
         /\ (s.call[c].state \in Outgoing => cstate \in Outgoing) => Goes(s, t, NoCall)
         /\ t.call[c].state = cstate /\ t.call[c].result = s.call[c].result
         /\ t.call[c].op = s.call[c].op /\ t.ctx = s.ctx
<1> DEFINE k == [s.call[c] EXCEPT !.state = cstate]
           t == linphone_call_set_state(s, c, cstate)
<1>0. s \in States BY DEF Counted
<1>1. s.call[c] \in CallRecords BY <1>0, StateFields
<1>2. cstate \in CallStates /\ cstate \notin Ended \cup {"Released", "Idle"}
  BY DEF CallStates, Live, Ended, Outgoing, Incoming
<1>3. /\ k \in CallRecords /\ k.state = cstate /\ k.op = s.call[c].op
      /\ k.refcnt = s.call[c].refcnt /\ k.referer = s.call[c].referer
      /\ k.refer_pending = s.call[c].refer_pending /\ k.result = s.call[c].result
  BY <1>1, <1>2 DEF CallRecords
<1>4. s.call[c].state \notin Ended \cup {"Released", "Idle"}
  BY DEF Live, Ended, Outgoing, Incoming
<1>5. t = IF s.call[c].state = cstate THEN s ELSE Store(s, c, k)
  BY <1>2, <1>4 DEF linphone_call_set_state
<1>6. s.call[c].state = cstate => s.call[c] = k BY <1>1 DEF CallRecords
<1> HIDE DEF k
<1>7. Store(s, c, k).call[c] = k /\ Store(s, c, k).ctx = s.ctx BY <1>0, <1>3, StoreTyped
<1>8. Steady(s, s, c) BY <1>0, StillSelf, StillSteady
<1>9. Steady(s, t, c) /\ t.call[c] = k /\ t.ctx = s.ctx
  BY <1>0, <1>3, <1>5, <1>6, <1>7, <1>8, StoreSteady
<1> HIDE DEF t
<1>10. Forth(s, t, c)
  BY <1>3, <1>9 DEF Forth, After, Ended, Answered, Settled, Live, Outgoing, Incoming
<1>11. s.call[c].state \in Dialled => s.call[c].state \in Outgoing BY <1>4 DEF Dialled
<1>12. t.ctx[c].stage \in {"calling", "early"} => t.call[c].state \in Dialled
  BY <1>3, <1>9 DEF Dialled
<1>13. t.call[c].state = "Paused" => ~t.call[c].refer_pending BY <1>3, <1>9
<1>16. AckInv(t.ctx[c]) BY <1>9 DEF Counted
<1>14. Counted(t) BY <1>2, <1>3, <1>4, <1>9, <1>12, <1>13, <1>16, SteadyCounted
<1>15. Goes(s, t, c) /\
       ((s.call[c].state \in Outgoing => cstate \in Outgoing) => Goes(s, t, NoCall))
  BY <1>3, <1>9, <1>10, <1>11, SteadyGoes DEF Dialled
<1> QED BY <1>3, <1>9, <1>14, <1>15 DEF t, k

LEMMA PauseStill ==
  ASSUME NEW s \in States, NEW c \in Calls
  PROVE  Still(s, linphone_core_pause_call(s, c))
<1> DEFINE local == SetLocal(s, c, "SendOnly")
           asked == sal_call_update(local, c)
           alone == [asked EXCEPT !.current = NoCall]
           paused == linphone_call_set_state(alone, c, "Pausing")
           t == linphone_call_stop_media_streams(paused, c)
<1>1. CASE s.call[c].state \in {"StreamsRunning", "PausedByRemote"}
  <2>1. s.call[c].state \in Answered /\ "Pausing" \in Answered \ {"Paused"}
    BY <1>1 DEF Answered, Settled, Live, Outgoing, Incoming
  <2>2. Still(s, local) /\ local \in States BY SetLocalStill, StillSteady DEF Dirs
  <2> HIDE DEF local
  <2>3. Still(s, asked) /\ asked \in States
    BY <2>2, CallUpdateStill, StillSteady, StillTwice
  <2> HIDE DEF asked
  <2>4. Still(s, alone) /\ alone \in States
    BY <2>3, CurrentStill, StillSteady, StillTwice
  <2> HIDE DEF alone
  <2>5. alone.call[c].state \in Answered BY <2>1, <2>4, StillState
  <2>6. Still(s, paused) /\ paused \in States
    BY <2>1, <2>4, <2>5, SetStateStill, StillSteady, StillTwice
  <2> HIDE DEF paused
  <2>7. Still(s, t) BY <2>6, StopMediaStill, StillTwice
  <2>8. linphone_core_pause_call(s, c) \in {s, t}
    BY DEF linphone_core_pause_call, local, asked, alone, paused
  <2> QED BY <2>7, <2>8, StillSelf
<1>2. CASE s.call[c].state \notin {"StreamsRunning", "PausedByRemote"}
  BY <1>2, StillSelf DEF linphone_core_pause_call
<1> QED BY <1>1, <1>2

LEMMA PreemptStill ==
  ASSUME NEW s \in States
  PROVE  /\ Still(s, linphone_core_preempt_sound_resources(s))
         /\ linphone_core_preempt_sound_resources(s) \in States
<1>1. s.current \in Calls \cup {NoCall} BY StateFields
<1>2. Still(s, linphone_core_preempt_sound_resources(s))
  BY <1>1, PauseStill, StillSelf DEF linphone_core_preempt_sound_resources
<1> QED BY <1>2, StillSteady

LEMMA ResumeStill ==
  ASSUME NEW s \in States, NEW c \in Calls
  PROVE  Still(s, linphone_core_resume_call(s, c))
<1> DEFINE freed == linphone_core_preempt_sound_resources(s)
           fresh == SetLocal(freed, c, "SendRecv")
           asked == sal_call_update(fresh, c)
           t == linphone_call_set_state(asked, c, "Resuming")
<1>1. CASE s.call[c].state = "Paused"
  <2>1. s.call[c].state \in Answered /\ "Resuming" \in Answered \ {"Paused"}
    BY <1>1 DEF Answered, Settled, Live, Outgoing, Incoming
  <2>2. Still(s, freed) /\ freed \in States BY PreemptStill
  <2> HIDE DEF freed
  <2>3. Still(s, fresh) /\ fresh \in States
    BY <2>2, SetLocalStill, StillSteady, StillTwice DEF Dirs
  <2> HIDE DEF fresh
  <2>4. Still(s, asked) /\ asked \in States
    BY <2>3, CallUpdateStill, StillSteady, StillTwice
  <2> HIDE DEF asked
  <2>5. asked.call[c].state \in Answered BY <2>1, <2>4, StillState
  <2>6. Still(s, t) BY <2>1, <2>4, <2>5, SetStateStill, StillSteady, StillTwice
  <2>7. linphone_core_resume_call(s, c) \in {s, fresh, t}
    BY DEF linphone_core_resume_call, freed, fresh, asked
  <2> QED BY <2>3, <2>6, <2>7, StillSelf
<1>2. CASE s.call[c].state # "Paused"
  BY <1>2, StillSelf DEF linphone_core_resume_call
<1> QED BY <1>1, <1>2

LEMMA AcceptUpdateStill ==
  ASSUME NEW s \in States, NEW c \in Calls
  PROVE  Still(s, call_accept_update(s, c))
<1> DEFINE u == sal_call_accept(s, c)
           t == sal_call_get_final_media_description(u, c)
           md == t.call[c].result
           v == linphone_core_update_streams(t, c, md)
<1>1. Still(s, u) /\ u \in States BY CallAcceptStill, StillSteady
<1> HIDE DEF u
<1>2. Still(s, t) /\ t \in States BY <1>1, FinalDescriptionStill, StillSteady, StillTwice
<1> HIDE DEF t
<1>3. md \in Descriptions BY <1>2, StateFields DEF CallRecords
<1> HIDE DEF md
<1>4. Still(s, v) BY <1>2, <1>3, UpdateStreamsStill, StillTwice
<1>5. call_accept_update(s, c) \in {t, v} BY DEF call_accept_update, u, t, md
<1> QED BY <1>2, <1>4, <1>5

LEMMA AcceptCallUpdateStill ==
  ASSUME NEW s \in States, NEW c \in Calls
  PROVE  Still(s, linphone_core_accept_call_update(s, c))
<1> DEFINE local == SetLocal(s, c, "SendRecv")
           u == call_accept_update(local, c)
           t == linphone_call_set_state(u, c, "StreamsRunning")
<1>1. CASE s.call[c].state = "UpdatedByRemote"
  <2>1. s.call[c].state \in Answered /\ "StreamsRunning" \in Answered \ {"Paused"}
    BY <1>1 DEF Answered, Settled, Live, Outgoing, Incoming
  <2>2. Still(s, local) /\ local \in States BY SetLocalStill, StillSteady DEF Dirs
  <2> HIDE DEF local
  <2>3. Still(s, u) /\ u \in States BY <2>2, AcceptUpdateStill, StillSteady, StillTwice
  <2> HIDE DEF u
  <2>4. u.call[c].state \in Answered BY <2>1, <2>3, StillState
  <2>5. Still(s, t) BY <2>1, <2>3, <2>4, SetStateStill, StillTwice
  <2>6. linphone_core_accept_call_update(s, c) = t
    BY <1>1 DEF linphone_core_accept_call_update, local, u
  <2> QED BY <2>5, <2>6
<1>2. CASE s.call[c].state # "UpdatedByRemote"
  BY <1>2, StillSelf DEF linphone_core_accept_call_update
<1> QED BY <1>1, <1>2

LEMMA UpdatedByRemoteStill ==
  ASSUME NEW s \in States, NEW c \in Calls, s.call[c].state \in Answered, NEW reaction
  PROVE  Still(s, call_updated_by_remote(s, c, reaction))
<1> DEFINE u == linphone_call_set_state(s, c, "UpdatedByRemote")
<1>1. "UpdatedByRemote" \in Answered \ {"Paused"}
  BY DEF Answered, Settled, Live, Outgoing, Incoming
<1>2. Still(s, u) /\ u \in States BY <1>1, SetStateStill, StillSteady
<1> HIDE DEF u
<1>3. Still(s, linphone_core_accept_call_update(u, c))
  BY <1>2, AcceptCallUpdateStill, StillTwice
<1>4. call_updated_by_remote(s, c, reaction) \in {u, linphone_core_accept_call_update(u, c)}
  BY DEF call_updated_by_remote, u
<1> QED BY <1>2, <1>3, <1>4

\* The handler of a re-INVITE: it never takes a call to another end of its life.
LEMMA ReinviteStill ==
  ASSUME NEW s \in States, NEW c \in Calls, NEW md \in Descriptions, NEW reaction
  PROVE  Still(s, handle_reinvite(s, c, md, reaction))
<1> DEFINE k == [s.call[c] EXCEPT !.remote = md, !.result = "None"]
           u == Store(s, c, k)
           accepted == call_accept_update(u, c)
           j == [accepted.call[c] EXCEPT !.media_pending = TRUE]
           state == u.call[c].state
           running == linphone_call_set_state(accepted, c, "StreamsRunning")
           held == linphone_call_set_state(accepted, c, "PausedByRemote")
           asked == call_updated_by_remote(u, c, reaction)
<1>1. s.call[c] \in CallRecords BY StateFields
<1>2. /\ k \in CallRecords /\ k.state = s.call[c].state /\ k.op = s.call[c].op
      /\ k.refcnt = s.call[c].refcnt /\ k.referer = s.call[c].referer
      /\ k.refer_pending = s.call[c].refer_pending
  BY <1>1 DEF CallRecords, Descriptions
<1> HIDE DEF k
<1>3. Still(s, u) /\ u \in States BY <1>2, StoreSteady, StoreTyped
<1> HIDE DEF u
<1>4. Still(u, accepted) /\ Still(s, accepted) /\ accepted \in States
  BY <1>3, AcceptUpdateStill, StillSteady, StillTwice
<1> HIDE DEF accepted
<1>5. accepted.call[c] \in CallRecords BY <1>4, StateFields
<1>6. /\ j \in CallRecords /\ j.state = accepted.call[c].state
      /\ j.op = accepted.call[c].op /\ j.refcnt = accepted.call[c].refcnt
      /\ j.referer = accepted.call[c].referer
      /\ j.refer_pending = accepted.call[c].refer_pending
  BY <1>5 DEF CallRecords
<1> HIDE DEF j
<1>7. Still(s, Store(accepted, c, j)) BY <1>4, <1>6, StoreSteady, StillTwice
<1>8. {"StreamsRunning", "PausedByRemote"} \subseteq Answered \ {"Paused"}
      /\ "Connected" \in Answered
  BY DEF Answered, Settled, Live, Outgoing, Incoming
<1>9. state \in {"PausedByRemote", "StreamsRunning", "Connected"} =>
        Still(s, running) /\ Still(s, held) /\ Still(s, asked)
  <2> SUFFICES ASSUME state \in {"PausedByRemote", "StreamsRunning", "Connected"}
               PROVE  Still(s, running) /\ Still(s, held) /\ Still(s, asked)
    OBVIOUS
  <2>1. state \in Answered BY <1>8
  <2>2. accepted.call[c].state \in Answered BY <1>4, <2>1, StillState
  <2>3. Still(s, running) /\ Still(s, held)
    BY <1>4, <1>8, <2>2, SetStateStill, StillTwice
  <2>4. Still(s, asked) BY <1>3, <2>1, UpdatedByRemoteStill, StillTwice
  <2> QED BY <2>3, <2>4
<1>10. \/ call_updating(u, c, reaction) \in {accepted, Store(accepted, c, j)}
       \/ /\ state \in {"PausedByRemote", "StreamsRunning", "Connected"}
          /\ call_updating(u, c, reaction) \in {running, held, asked}
  BY DEF call_updating, accepted, j
<1>11. Still(s, call_updating(u, c, reaction)) BY <1>4, <1>7, <1>9, <1>10
<1>12. handle_reinvite(s, c, md, reaction) \in {s, call_updating(u, c, reaction)}
  BY DEF handle_reinvite, u, k
<1> QED BY <1>11, <1>12, StillSelf

-----------------------------------------------------------------------------
(***************************************************************************)
(* The end of a call                                                       *)
(***************************************************************************)

\* How many targets there are when one call leaves or joins the list.
LEMMA TargetsCount ==
  ASSUME NEW s, s.calls \subseteq Calls, NEW b, NEW c \in Calls
  PROVE  /\ Targets(s, b) \subseteq Calls
         /\ Cardinality(Targets(s, b)) \in Nat
         /\ Cardinality(Targets(s, b)) = 0 <=> Targets(s, b) = {}
         /\ c \in Targets(s, b) =>
              Cardinality(Targets(s, b) \ {c}) = Cardinality(Targets(s, b)) - 1
         /\ c \notin Targets(s, b) =>
              Cardinality(Targets(s, b) \cup {c}) = Cardinality(Targets(s, b)) + 1
<1>1. IsFiniteSet(Calls) BY FS_Interval, ConstantsAssumption DEF Calls
<1>2. Targets(s, b) \subseteq Calls BY DEF Targets
<1> DEFINE T == Targets(s, b)
<1>3. IsFiniteSet(T) BY <1>1, <1>2, FS_Subset
<1> HIDE DEF T
<1>4. Cardinality(T) \in Nat BY <1>3, FS_CardinalityType
<1>5. Cardinality(T) = 0 <=> T = {} BY <1>3, FS_EmptySet
<1>6. Cardinality(T \ {c}) = IF c \in T THEN Cardinality(T) - 1 ELSE Cardinality(T)
  BY <1>3, FS_RemoveElement
<1>7. Cardinality(T \cup {c}) = IF c \in T THEN Cardinality(T) ELSE Cardinality(T) + 1
  BY <1>3, FS_AddElement
<1> QED BY <1>2, <1>4, <1>5, <1>6, <1>7 DEF T

\* What linphone_call_set_state leaves of a listed call that ends.
LEMMA SetStateEnds ==
  ASSUME NEW s \in States, NEW c \in Calls, s.call[c].state \in Live, NEW cstate \in Ended
  PROVE  LET t == linphone_call_set_state(s, c, cstate)
             r == s.call[c].referer
         IN /\ t \in States /\ t.evq = s.evq /\ t.ctx = s.ctx /\ t.calls = s.calls \ {c}
            /\ t.friends = (IF s.calls \subseteq {c} THEN "presence_mode" ELSE s.friends)
            /\ t.call[c].state = cstate /\ (r # NoCall => t.call[c].referer = NoCall)
            /\ \A d \in Calls :
                 /\ t.call[d].refcnt = (IF d = r THEN s.call[d].refcnt - 1 ELSE s.call[d].refcnt)
                 /\ t.call[d].op <=> s.call[d].op /\ (d = r => s.call[d].refcnt # 1)
                 /\ d # c => /\ t.call[d].state = s.call[d].state
                             /\ t.call[d].referer = s.call[d].referer
                             /\ t.call[d].refer_pending = s.call[d].refer_pending
<1> DEFINE r == s.call[c].referer
           k == [s.call[c] EXCEPT !.state = cstate]
           m == Store(s, c, k)
           n == IF m.current = c THEN NoCall ELSE m.current
           f == IF m.calls \subseteq {c} THEN "presence_mode" ELSE m.friends
           u == [m EXCEPT !.calls = @ \ {c}, !.current = n, !.friends = f]
           t == ReleaseReferer(u, c)
<1>1. s.call[c] \in CallRecords /\ r \in Calls \cup {NoCall} BY StateFields DEF CallRecords
<1>2. cstate \in CallStates /\ cstate # "Released" /\ s.call[c].state \notin Ended \cup {cstate}
  BY DEF CallStates, Ended, Live, Outgoing, Incoming
<1>3. /\ k \in CallRecords /\ k.state = cstate /\ k.op = s.call[c].op
      /\ k.refcnt = s.call[c].refcnt /\ k.referer = r
  BY <1>1, <1>2 DEF CallRecords
<1>4. linphone_call_set_state(s, c, cstate) = t
  BY <1>2 DEF linphone_call_set_state, linphone_call_set_terminated
<1> HIDE DEF k, r
<1>5. /\ m \in States /\ m.calls = s.calls /\ m.current = s.current /\ m.evq = s.evq
      /\ m.ctx = s.ctx /\ m.call[c] = k
      /\ \A d \in Calls : d # c => m.call[d] = s.call[d]
  BY <1>3, StoreTyped
<1>6. m.friends = s.friends BY DEF States, Store
<1> HIDE DEF m
<1>7. n \in Calls \cup {NoCall} /\ f \in {"presence_mode", "OnThePhone"}
  BY <1>5, StateFields, NoCallIsNone
<1>8. f = (IF s.calls \subseteq {c} THEN "presence_mode" ELSE s.friends) BY <1>5, <1>6
<1> HIDE DEF n, f
<1>9. /\ u \in States /\ u.calls = s.calls \ {c} /\ u.friends = f /\ u.evq = s.evq
      /\ u.ctx = s.ctx /\ u.call = m.call
  BY <1>5, <1>7 DEF States
<1> HIDE DEF u
<1>10. CASE r = NoCall
  <2>1. t = u BY <1>3, <1>5, <1>9, <1>10 DEF ReleaseReferer
  <2> HIDE DEF t
  <2>2. \A d \in Calls : d # r BY <1>10, NoCallIsNone
  <2>3. \A d \in Calls : /\ t.call[d].refcnt = s.call[d].refcnt
                          /\ t.call[d].op = s.call[d].op
    BY <1>3, <1>5, <1>9, <2>1
  <2>4. \A d \in Calls : d # c => t.call[d] = s.call[d] BY <1>5, <1>9, <2>1
  <2>5. t.call[c] = k BY <1>5, <1>9, <2>1
  <2> QED BY <1>3, <1>4, <1>8, <1>9, <1>10, <2>1, <2>2, <2>3, <2>4, <2>5 DEF r
<1>11. CASE r # NoCall
  <2> DEFINE j == [u.call[c] EXCEPT !.referer = NoCall]
             v == Store(u, c, j)
             o == v.call[r].op /\ v.call[r].refcnt # 1
             less == v.call[r].refcnt - 1
             l == [v.call[r] EXCEPT !.refcnt = less, !.op = o]
  <2>1. r \in Calls /\ u.call[c] = k BY <1>1, <1>5, <1>9, <1>11
  <2>2. t = Store(v, r, l) BY <1>3, <1>11, <2>1 DEF ReleaseReferer, linphone_call_unref
  <2>3. j \in CallRecords /\ j.referer = NoCall /\ j.state = cstate /\ j.op = k.op
        /\ j.refcnt = k.refcnt /\ j.refer_pending = k.refer_pending
    BY <1>3, <2>1 DEF CallRecords
  <2> HIDE DEF j
  <2>4. /\ v \in States /\ v.calls = u.calls /\ v.evq = u.evq /\ v.ctx = u.ctx
        /\ v.call[c] = j /\ \A d \in Calls : d # c => v.call[d] = u.call[d]
    BY <1>9, <2>3, StoreTyped
  <2>5. v.friends = u.friends BY <1>9 DEF States, Store
  <2> HIDE DEF v
  <2>6. v.call[r] \in CallRecords /\ o \in BOOLEAN BY <2>1, <2>4, StateFields
  <2> HIDE DEF o
  <2>15. less \in Int BY <2>6 DEF CallRecords
  <2> HIDE DEF less
  <2>7. /\ l \in CallRecords /\ l.refcnt = less
        /\ l.op = o
        /\ l.state = v.call[r].state /\ l.referer = v.call[r].referer
        /\ l.refer_pending = v.call[r].refer_pending
    BY <2>6, <2>15 DEF CallRecords
  <2> HIDE DEF l
  <2> DEFINE w == Store(v, r, l)
  <2>8. /\ w \in States /\ w.calls = v.calls /\ w.evq = v.evq /\ w.ctx = v.ctx
        /\ w.call[r] = l /\ \A d \in Calls : d # r => w.call[d] = v.call[d]
    BY <2>1, <2>4, <2>7, StoreTyped
  <2>9. w.friends = v.friends BY <2>4 DEF States, Store
  <2> HIDE DEF w
  <2>10. w.call[c].state = cstate /\ w.call[c].referer = NoCall
    BY <2>3, <2>4, <2>7, <2>8
  <2>11. \A d \in Calls :
           /\ w.call[d].refcnt = (IF d = r THEN s.call[d].refcnt - 1 ELSE s.call[d].refcnt)
           /\ w.call[d].op <=> s.call[d].op /\ (d = r => s.call[d].refcnt # 1)
    <3> SUFFICES ASSUME NEW d \in Calls
                 PROVE  /\ w.call[d].refcnt =
                             (IF d = r THEN s.call[d].refcnt - 1 ELSE s.call[d].refcnt)
                        /\ w.call[d].op <=> s.call[d].op /\ (d = r => s.call[d].refcnt # 1)
      OBVIOUS
    <3>1. v.call[d].refcnt = s.call[d].refcnt /\ v.call[d].op = s.call[d].op
      BY <1>3, <1>5, <1>9, <2>3, <2>4
    <3>2. d = r => (o <=> s.call[d].op /\ s.call[d].refcnt # 1) BY <3>1 DEF o
    <3> QED BY <2>7, <2>8, <3>1, <3>2 DEF less
  <2>12. \A d \in Calls : d # c =>
           /\ w.call[d].state = s.call[d].state
           /\ w.call[d].referer = s.call[d].referer
           /\ w.call[d].refer_pending = s.call[d].refer_pending
    BY <1>5, <1>9, <2>4, <2>7, <2>8
  <2>13. w.evq = s.evq /\ w.ctx = s.ctx /\ w.calls = s.calls \ {c} /\ w.friends = f
    BY <1>9, <2>4, <2>5, <2>8, <2>9
  <2>14. t = w BY <2>2 DEF w
  <2> HIDE DEF t
  <2> QED BY <1>4, <1>8, <2>8, <2>10, <2>11, <2>12, <2>13, <2>14 DEF r
<1> QED BY <1>10, <1>11

\* The end of a listed call gives back the reference on its referer.
LEMMA EndsCounted ==
  ASSUME NEW s, Counted(s), NEW c \in Calls, s.call[c].state \in Live, NEW cstate \in Ended
  PROVE  LET t == linphone_call_set_state(s, c, cstate) IN
         /\ Counted(t) /\ t.evq = s.evq /\ t.ctx = s.ctx /\ t.call[c].state = cstate
         /\ \A d \in Calls : d # c => Calm(s, t, d)
<1> DEFINE t == linphone_call_set_state(s, c, cstate)
           r == s.call[c].referer
<1>1. s \in States /\ c \in s.calls /\ s.calls \subseteq Calls /\ r \in Calls \cup {NoCall}
  BY StateFields DEF Counted, CallRecords
<1>2. /\ t \in States /\ t.evq = s.evq /\ t.ctx = s.ctx /\ t.calls = s.calls \ {c}
      /\ t.friends = (IF s.calls \subseteq {c} THEN "presence_mode" ELSE s.friends)
      /\ t.call[c].state = cstate /\ (r # NoCall => t.call[c].referer = NoCall)
      /\ \A d \in Calls :
           /\ t.call[d].refcnt = (IF d = r THEN s.call[d].refcnt - 1 ELSE s.call[d].refcnt)
           /\ t.call[d].op <=> s.call[d].op /\ (d = r => s.call[d].refcnt # 1)
           /\ d # c => /\ t.call[d].state = s.call[d].state
                       /\ t.call[d].referer = s.call[d].referer
                       /\ t.call[d].refer_pending = s.call[d].refer_pending
  BY <1>1, SetStateEnds
<1> HIDE DEF t
<1>3. \A d \in Calls : d # c => Calm(s, t, d) BY <1>2 DEF Calm, Ebbs
<1>4. \A d \in Calls : d # r => Targets(t, d) = Targets(s, d)
  <2> SUFFICES ASSUME NEW d \in Calls, d # r PROVE Targets(t, d) = Targets(s, d)
    OBVIOUS
  <2>1. c \notin Targets(s, d) BY DEF Targets
  <2>2. Targets(t, d) = Targets(s, d) \ {c}
    BY <1>1, <1>2 DEF Targets
  <2> QED BY <2>1, <2>2
<1>5. r \in Calls => c \in Targets(s, r) /\ Targets(t, r) = Targets(s, r) \ {c}
  BY <1>1, <1>2, NoCallIsNone DEF Targets
<1> DEFINE base(u, d) == IF u.call[d].state \in {"Idle", "Released"} THEN 0 ELSE 1
<1>6. \A d \in Calls : base(t, d) = base(s, d)
  BY <1>2 DEF Live, Ended, Outgoing, Incoming
<1>7. \A d \in Calls : s.call[d].refcnt = base(s, d) + Cardinality(Targets(s, d))
  BY DEF Counted, ReferenceInv
<1>8. \A d \in Calls : base(s, d) \in {0, 1} /\ (s.call[d].state \in Live => base(s, d) = 1)
  BY DEF Live, Outgoing, Incoming
<1> HIDE DEF base
<1>9. \A d \in Calls : t.call[d].refcnt = base(t, d) + Cardinality(Targets(t, d))
  <2> SUFFICES ASSUME NEW d \in Calls
               PROVE  t.call[d].refcnt = base(t, d) + Cardinality(Targets(t, d))
    OBVIOUS
  <2>1. CASE d # r BY <1>2, <1>4, <1>6, <1>7, <2>1
  <2>2. CASE d = r
    <3>1. Cardinality(Targets(t, d)) = Cardinality(Targets(s, d)) - 1
          /\ Cardinality(Targets(s, d)) \in Nat
      BY <1>1, <1>5, <2>2, TargetsCount, ZenonT(30)
    <3> QED BY <1>2, <1>6, <1>7, <1>8, <2>2, <3>1
  <2> QED BY <2>1, <2>2
<1>10. r \in Calls => Cardinality(Targets(s, r)) \in Nat \ {0}
  <2> SUFFICES ASSUME r \in Calls PROVE Cardinality(Targets(s, r)) \in Nat \ {0}
    OBVIOUS
  <2>1. Targets(s, r) # {} BY <1>5
  <2> QED BY <1>1, <2>1, TargetsCount
<1>11. \A d \in t.calls : t.call[d].op
  <2> SUFFICES ASSUME NEW d \in t.calls PROVE t.call[d].op
    OBVIOUS
  <2>1. d \in Calls /\ s.call[d].op /\ s.call[d].state \in Live
    BY <1>1, <1>2 DEF Counted, ReferenceInv
  <2>2. d = r => s.call[d].refcnt # 1 BY <1>7, <1>8, <1>10, <2>1
  <2> QED BY <1>2, <2>1, <2>2
<1>12. \A d \in Calls : t.call[d].state = "Idle" => t.call[d].refcnt = 0
  <2> SUFFICES ASSUME NEW d \in Calls, t.call[d].state = "Idle" PROVE t.call[d].refcnt = 0
    OBVIOUS
  <2>1. d # c BY <1>2 DEF Ended
  <2>2. s.call[d].state = "Idle" /\ s.call[d].refcnt = 0
    BY <1>2, <2>1 DEF Counted, ReferenceInv
  <2>3. d # r BY <1>7, <1>8, <1>10, <2>2
  <2> QED BY <1>2, <2>2, <2>3
<1>13. t.calls # {} => t.friends = "OnThePhone"
  BY <1>1, <1>2 DEF Counted, ReferenceInv
<1>14. ReferenceInv(t) BY <1>9, <1>11, <1>12, <1>13 DEF ReferenceInv, base
<1>15. \A d \in Calls : d \in t.calls <=> t.call[d].state \in Live
  BY <1>2 DEF Counted, Ended, Live, Outgoing, Incoming
<1>16. \A d \in Calls : t.call[d].state = "Paused" => ~t.call[d].refer_pending
  BY <1>2 DEF Counted, Ended
<1>17. \A d \in Calls : t.ctx[d].stage \in {"calling", "early"} => t.call[d].state \in Dialled
  BY <1>2 DEF Counted, Dialled
<1>18. Counted(t) BY <1>2, <1>14, <1>15, <1>16, <1>17 DEF Counted
<1> QED BY <1>2, <1>3, <1>18 DEF t

\* The call c may be told that it is over: its dialog may be closed, but its
\* state does not follow yet.
Winds(s, u, c) ==
  /\ Steady(s, u, c)
  /\ \/ u.call[c].state = s.call[c].state
     \/ s.call[c].state \in Answered /\ u.call[c].state \in Answered \ {"Paused"}
  /\ u.call[c].refer_pending => s.call[c].refer_pending
  /\ StageStep(s.ctx[c].stage, u.ctx[c].stage, TRUE)
  /\ AckInv(s.ctx[c]) => AckInv(u.ctx[c])

LEMMA WindsTwice ==
  ASSUME NEW s, NEW t, NEW u, NEW c, Winds(s, t, c), Winds(t, u, c)
  PROVE  Winds(s, u, c)
<1>1. Steady(s, u, c) BY SteadyTwice DEF Winds
<1>2. u.call[c].refer_pending => s.call[c].refer_pending BY DEF Winds
<1> QED BY <1>1, <1>2 DEF Winds, StageStep

LEMMA StillWinds ==
  ASSUME NEW s, NEW u, NEW c \in Calls, Still(s, u)
  PROVE  Winds(s, u, c)
<1>1. Steady(s, u, c) /\ Calm(s, u, c) BY StillSteady
<1>2. u.call[c].refer_pending => s.call[c].refer_pending BY <1>1 DEF Calm
<1> QED BY <1>1, <1>2 DEF Winds, Calm, Ebbs, StageStep

\* What a call that winds down keeps.
LEMMA WindsCounted ==
  ASSUME NEW s, Counted(s), NEW c \in Calls, NEW u, Winds(s, u, c)
  PROVE  /\ Counted(u) /\ u.evq = s.evq
         /\ s.call[c].state \notin Live => Goes(s, u, NoCall)
<1>1. u.ctx[c].stage \in {"calling", "early"} => u.call[c].state \in Dialled
  BY DEF Winds, StageStep, Counted, Dialled, Answered, Settled, Live, Ended, Outgoing,
         Incoming
<1>2. u.call[c].state = "Paused" => ~u.call[c].refer_pending BY DEF Winds, Counted
<1>3. Counted(u)
  <2> USE DEF Answered, Settled, Live, Ended, Outgoing, Incoming
  <2>1. s.call[c].state \in {"Idle", "Released"} <=> u.call[c].state \in {"Idle", "Released"}
    BY DEF Winds
  <2>2. u.call[c].state = "Idle" => s.call[c].state = "Idle" BY DEF Winds
  <2>3. u.call[c].state \in Live <=> s.call[c].state \in Live BY DEF Winds
  <2>4. Steady(s, u, c) BY DEF Winds
  <2>5. AckInv(u.ctx[c]) BY DEF Winds, Counted
  <2> QED BY <1>1, <1>2, <2>1, <2>2, <2>3, <2>4, <2>5, SteadyCounted
<1>4. ASSUME s.call[c].state \notin Live PROVE Goes(s, u, NoCall)
  <2>1. u.call[c].state = s.call[c].state BY <1>4 DEF Winds, Answered, Settled
  <2>2. Forth(s, u, c) BY <1>4, <2>1 DEF Forth, Winds, StageStep
  <2> QED BY <2>1, <2>2, SteadyGoes DEF Winds
<1> QED BY <1>3, <1>4 DEF Winds, Steady

\* A call is told to be over, and its state follows; "u" is the state in which
\* linphone_call_set_state is called.
LEMMA OverCounted ==
  ASSUME NEW s, Counted(s), NEW c \in Calls, s.call[c].state \in Live \cup Ended,
         NEW u, Winds(s, u, c), NEW cstate \in Ended
  PROVE  LET t == linphone_call_set_state(u, c, cstate) IN
         Counted(t) /\ Goes(s, t, NoCall) /\ t.call[c].state \in Ended /\ t.ctx[c] = u.ctx[c]
<1> DEFINE t == linphone_call_set_state(u, c, cstate)
<1>1. Counted(u) /\ u.evq = s.evq BY WindsCounted
<1>2. CASE s.call[c].state \in Ended
  <2>1. u.call[c].state \in Ended /\ s.call[c].state \notin Live
    BY <1>2 DEF Winds, Answered, Settled, Live, Ended, Outgoing, Incoming
  <2>2. t = u BY <2>1 DEF linphone_call_set_state, Ended
  <2>3. Goes(s, u, NoCall) BY <2>1, WindsCounted
  <2> QED BY <1>1, <2>1, <2>2, <2>3
<1>3. CASE s.call[c].state \in Live
  <2>1. u.call[c].state \in Live BY <1>3 DEF Winds, Answered, Settled
  <2>2. /\ Counted(t) /\ t.evq = u.evq /\ t.ctx = u.ctx /\ t.call[c].state = cstate
        /\ \A d \in Calls : d # c => Calm(u, t, d)
    BY <1>1, <2>1, EndsCounted
  <2> HIDE DEF t
  <2>3. \A d \in Calls : d # c => Calm(s, t, d) BY <2>2, CalmTwice DEF Winds, Steady
  <2>4. Forth(s, t, c)
    BY <2>2 DEF Forth, Winds, StageStep, After, Ended, Live, Outgoing, Incoming
  <2>5. \A d \in Calls : Forth(s, t, d) BY <2>3, <2>4, CalmForth
  <2>6. \A d \in Calls : s.call[d].state \in Dialled => t.call[d].state \in Dialled
    BY <2>2, <2>3, CalmForth DEF Dialled
  <2>7. t \in States /\ t.evq = s.evq BY <1>1, <2>2 DEF Counted
  <2> QED BY <2>2, <2>5, <2>6, <2>7 DEF Goes, t
<1> QED BY <1>2, <1>3

LEMMA HangupWinds ==
  ASSUME NEW s \in States, NEW c \in Calls
  PROVE  Winds(s, Hangup(s, c), c)
<1> DEFINE x == eXosip_call_terminate(s.ctx[c], TRUE)
           t == Signal(s, c, x)
<1>1. s.ctx[c] \in Contexts BY StateFields
<1>2. x \in Contexts /\ StageStep(s.ctx[c].stage, x.stage, TRUE) BY <1>1, EndingContext
<1>8. AckInv(s.ctx[c]) => AckInv(x) BY <1>1, AskedContext
<1> HIDE DEF x
<1>3. Steady(s, t, c) /\ t.ctx[c] = x /\ t.call = s.call
  BY <1>2, SignalSteady, SignalTyped
<1> HIDE DEF t
<1>4. Winds(s, t, c) BY <1>2, <1>3, <1>8 DEF Winds
<1> QED BY <1>4 DEF Hangup, t, x

LEMMA CallTerminateWinds ==
  ASSUME NEW s \in States, NEW c \in Calls
  PROVE  Winds(s, sal_call_terminate(s, c), c)
<1> DEFINE x == eXosip_call_terminate(s.ctx[c], s.call[c].did)
           u == Signal(s, c, x)
           t == Store(u, c, [u.call[c] EXCEPT !.terminated = TRUE])
<1>1. s.call[c].did \in BOOLEAN /\ s.ctx[c] \in Contexts BY StateFields DEF CallRecords
<1>2. x \in Contexts /\ StageStep(s.ctx[c].stage, x.stage, TRUE) BY <1>1, EndingContext
<1>8. AckInv(s.ctx[c]) => AckInv(x) BY <1>1, AskedContext
<1> HIDE DEF x
<1>3. Steady(s, u, c) /\ u.ctx[c] = x /\ u.call = s.call /\ u \in States
  BY <1>2, SignalSteady, SignalTyped
<1> HIDE DEF u
<1>4. Winds(s, u, c) BY <1>2, <1>3, <1>8 DEF Winds
<1>5. Winds(u, t, c) BY <1>3, MarkStill, StillWinds
<1>6. sal_call_terminate(s, c) \in {s, t} BY <1>3 DEF sal_call_terminate, u, x
<1>7. Winds(s, s, c) BY StillSelf, StillWinds
<1> QED BY <1>4, <1>5, <1>6, <1>7, WindsTwice

\* linphone_core_terminate_call and linphone_core_abort_call.
LEMMA EndCounted ==
  ASSUME NEW s, Counted(s), NEW c \in Calls, s.call[c].state \in Live \cup Ended
  PROVE  /\ LET t == linphone_core_terminate_call(s, c) IN
            Counted(t) /\ Goes(s, t, NoCall) /\ t.call[c].state \in Ended
         /\ LET t == linphone_core_abort_call(s, c) IN
            Counted(t) /\ Goes(s, t, NoCall) /\ t.call[c].state \in Ended
<1> DEFINE u == sal_call_terminate(s, c)
           q == Quiet(u)
           m == linphone_call_stop_media_streams(q, c)
<1>1. s \in States BY DEF Counted
<1>2. Winds(s, u, c) /\ u \in States BY <1>1, CallTerminateWinds DEF Winds, Steady
<1> HIDE DEF u
<1>3. Still(u, q) /\ q \in States BY <1>2, QuietStill, StillSteady
<1> HIDE DEF q
<1>4. Still(u, m) BY <1>3, StopMediaStill, StillTwice
<1> HIDE DEF m
<1>5. Winds(s, m, c) BY <1>2, <1>4, StillWinds, WindsTwice
<1>6. "End" \in Ended /\ "Error" \in Ended BY DEF Ended
<1>7. \A e \in Ended : LET t == linphone_call_set_state(m, c, e) IN
        Counted(t) /\ Goes(s, t, NoCall) /\ t.call[c].state \in Ended
  BY <1>5, OverCounted
<1> QED BY <1>6, <1>7 DEF linphone_core_terminate_call, linphone_core_abort_call, m, q, u

LEMMA FailureCounted ==
  ASSUME "srtp" \notin Features,
         NEW s, Whole(s), Counted(s), NEW c \in Calls, NEW failure
  PROVE  LET t == sal_call_failure(s, c, failure) IN
         /\ Counted(t) /\ Goes(s, t, NoCall)
         /\ s.call[c].op => t.call[c].state \in Ended
<1> DEFINE u == SetTerminated(s, c)
           q == Quiet(u)
           silent == linphone_call_stop_media_streams(q, c)
           referer == u.call[c].referer
           resumed == linphone_core_resume_call(silent, referer)
           back == IF referer # NoCall /\ u.call[referer].state = "Paused"
                      /\ u.call[referer].was_automatically_paused
                   THEN resumed ELSE silent
           cstate == IF failure = "Declined" THEN "End" ELSE "Error"
           t == sal_call_failure(s, c, failure)
<1>1. s \in States BY DEF Counted
<1>2. CASE ~s.call[c].op
  BY <1>1, <1>2, StillSelf, StillCounted DEF sal_call_failure
<1>3. CASE s.call[c].op
  <2>1. s.call[c].state \in Live \cup Ended BY <1>3, OpState
  <2>2. Still(s, u) /\ u \in States BY <1>1, MarkStill, StillSteady DEF SetTerminated
  <2>3. ~u.call[c].srtp BY <1>1, MarkNear DEF SetTerminated, Core, Whole, CallInv
  <2>4. t = linphone_call_set_state(back, c, cstate)
    BY <1>3, <2>3 DEF sal_call_failure, call_failure
  <2>5. cstate \in Ended BY DEF Ended
  <2> HIDE DEF u, cstate
  <2>6. referer \in Calls \cup {NoCall} BY <2>2, StateFields DEF CallRecords
  <2>7. Still(s, q) /\ q \in States BY <2>2, QuietStill, StillTwice, StillSteady
  <2> HIDE DEF q
  <2>8. Still(s, silent) /\ silent \in States
    BY <2>7, StopMediaStill, StillTwice, StillSteady
  <2> HIDE DEF silent, referer
  <2>9. Still(s, back) BY <2>6, <2>8, ResumeStill, StillTwice
  <2> HIDE DEF back, t
  <2>10. Winds(s, back, c) BY <2>9, StillWinds
  <2> QED BY <2>1, <2>4, <2>5, <2>10, OverCounted DEF t
<1> QED BY <1>2, <1>3

LEMMA TerminatedCounted ==
  ASSUME NEW s, Whole(s), Counted(s), NEW c \in Calls
  PROVE  LET t == sal_call_terminated(s, c) IN
         /\ Counted(t) /\ Goes(s, t, NoCall)
         /\ s.call[c].op => t.call[c].state \in Ended
<1> DEFINE b == s.ring /\ Cardinality(s.calls) # 1 /\ s.current = NoCall
           q == [s EXCEPT !.ring = b]
           m == linphone_call_stop_media_streams(q, c)
           over == linphone_call_set_state(m, c, "End")
           u == call_terminated(s, c)
           t == SetTerminated(u, c)
<1>1. s \in States BY DEF Counted
<1>2. CASE ~s.call[c].op
  BY <1>1, <1>2, StillSelf, StillCounted DEF sal_call_terminated
<1>3. CASE s.call[c].op
  <2>1. s.call[c].state \in Live \cup Ended BY <1>3, OpState
  <2>2. u = IF s.call[c].state \in Ended THEN s ELSE over
    BY DEF call_terminated
  <2>3. s.ring \in BOOLEAN BY <1>1, StateFields
  <2>4. b \in BOOLEAN BY <2>3
  <2> HIDE DEF b
  <2>5. Still(s, q) /\ q \in States BY <1>1, <2>4, RingStill, StillSteady
  <2> HIDE DEF q
  <2>6. Still(s, m) BY <2>5, StopMediaStill, StillTwice
  <2> HIDE DEF m, u
  <2>7. Winds(s, m, c) BY <2>6, StillWinds
  <2>8. "End" \in Ended BY DEF Ended
  <2>9. Counted(over) /\ Goes(s, over, NoCall) /\ over.call[c].state \in Ended
    BY <2>1, <2>7, <2>8, OverCounted
  <2> HIDE DEF over
  <2>10. Goes(s, s, NoCall) BY <1>1, StillSelf, StillCounted
  <2>11. Counted(u) /\ Goes(s, u, NoCall) /\ u.call[c].state \in Ended
    BY <2>2, <2>9, <2>10
  <2>12. u \in States BY <2>11 DEF Counted
  <2>13. Still(u, t) BY <2>12, MarkStill DEF SetTerminated
  <2> HIDE DEF t
  <2>14. Counted(t) /\ Goes(s, t, NoCall) BY <2>11, <2>13, StillCounted, GoesTwice
  <2>15. t.call[c].state \in Ended
    BY <2>11, <2>13, StillState DEF Answered, Settled, Live, Ended, Outgoing, Incoming
  <2>16. sal_call_terminated(s, c) = t BY <1>3 DEF sal_call_terminated, t, u
  <2> QED BY <2>14, <2>15, <2>16
<1> QED BY <1>2, <1>3

\* The release gives back the reference a call was created with.
LEMMA ReleasesCounted ==
  ASSUME NEW s, Counted(s), NEW c \in Calls, s.call[c].state \in Ended
  PROVE  LET t == linphone_call_set_state(s, c, "Released") IN
         Counted(t) /\ Goes(s, t, NoCall) /\ t.call[c].state = "Released"
<1> DEFINE k == [s.call[c] EXCEPT !.state = "Released", !.op = FALSE]
           closed == Store(s, c, k)
           n == k.refcnt - 1
           l == [k EXCEPT !.refcnt = n, !.op = FALSE]
           t == Store(closed, c, l)
<1>0. s \in States /\ s.calls \subseteq Calls BY StateFields DEF Counted
<1>1. s.call[c] \in CallRecords BY <1>0, StateFields
<1>2. /\ k \in CallRecords /\ k.state = "Released" /\ k.op = FALSE
      /\ k.refcnt = s.call[c].refcnt /\ k.referer = s.call[c].referer
  BY <1>1 DEF CallRecords, CallStates
<1>3. n \in Int BY <1>1, <1>2 DEF CallRecords
<1> HIDE DEF k
<1>4. /\ closed \in States /\ closed.call[c] = k /\ closed.calls = s.calls
      /\ closed.evq = s.evq /\ closed.ctx = s.ctx
      /\ \A d \in Calls : d # c => closed.call[d] = s.call[d]
  BY <1>0, <1>2, StoreTyped
<1>5. closed.friends = s.friends BY <1>0 DEF States, Store
<1>6. linphone_call_set_state(s, c, "Released") = t
  <2>1. linphone_call_set_state(s, c, "Released") = linphone_call_unref(closed, c)
    BY DEF linphone_call_set_state, Ended, k
  <2> HIDE DEF closed
  <2>2. linphone_call_unref(closed, c) = t
    BY <1>2, <1>4 DEF linphone_call_unref
  <2> QED BY <2>1, <2>2
<1>7. /\ l \in CallRecords /\ l.state = "Released" /\ l.op = FALSE
      /\ l.referer = s.call[c].referer
  BY <1>2, <1>3 DEF CallRecords
<1>15. l.refcnt = s.call[c].refcnt - 1 BY <1>2
<1> HIDE DEF n, l, closed
<1>8. /\ t \in States /\ t.call[c] = l /\ t.calls = s.calls
      /\ t.evq = s.evq /\ t.ctx = s.ctx
      /\ \A d \in Calls : d # c => t.call[d] = s.call[d]
  BY <1>4, <1>7, StoreTyped
<1>9. t.friends = s.friends BY <1>4, <1>5 DEF States, Store
<1> HIDE DEF t
<1>10. \A b : Targets(t, b) = Targets(s, b)
  BY <1>0, <1>7, <1>8 DEF Targets
<1>11. c \notin s.calls BY DEF Counted, Live, Ended, Outgoing, Incoming
<1>12. ReferenceInv(t)
  <2>1. \A d \in t.calls : t.call[d].op BY <1>0, <1>8, <1>11 DEF Counted, ReferenceInv
  <2>2. t.call[c].refcnt = 0 + Cardinality(Targets(t, c))
    <3>1. s.call[c].refcnt = 1 + Cardinality(Targets(s, c))
      BY DEF Counted, ReferenceInv, Ended
    <3>2. Cardinality(Targets(s, c)) \in Nat BY <1>0, TargetsCount
    <3> QED BY <1>8, <1>10, <1>15, <3>1, <3>2
  <2>3. \A d \in Calls :
          t.call[d].refcnt = (IF t.call[d].state \in {"Idle", "Released"} THEN 0 ELSE 1)
                             + Cardinality(Targets(t, d))
    BY <1>7, <1>8, <1>10, <2>2 DEF Counted, ReferenceInv
  <2>4. \A d \in Calls : t.call[d].state = "Idle" => t.call[d].refcnt = 0
    BY <1>7, <1>8 DEF Counted, ReferenceInv
  <2>5. t.calls # {} => t.friends = "OnThePhone" BY <1>8, <1>9 DEF Counted, ReferenceInv
  <2> QED BY <2>1, <2>3, <2>4, <2>5 DEF ReferenceInv
<1>13. Counted(t)
  <2>1. \A d \in Calls : d \in t.calls <=> t.call[d].state \in Live
    BY <1>7, <1>8, <1>11 DEF Counted, Live, Outgoing, Incoming
  <2>2. \A d \in Calls : t.call[d].state = "Paused" => ~t.call[d].refer_pending
    BY <1>7, <1>8 DEF Counted
  <2>3. \A d \in Calls : t.ctx[d].stage \in {"calling", "early"} => t.call[d].state \in Dialled
    BY <1>7, <1>8 DEF Counted, Dialled
  <2> QED BY <1>8, <1>12, <2>1, <2>2, <2>3 DEF Counted
<1>14. Goes(s, t, NoCall)
  <2>1. \A d \in Calls : Forth(s, t, d)
    BY <1>7, <1>8 DEF Forth, After, Live, Outgoing, Incoming
  <2>2. \A d \in Calls : s.call[d].state \in Dialled => t.call[d].state \in Dialled
    BY <1>7, <1>8 DEF Dialled
  <2> QED BY <1>8, <2>1, <2>2 DEF Goes
<1> QED BY <1>6, <1>7, <1>8, <1>13, <1>14 DEF t

LEMMA ReleasedCounted ==
  ASSUME "srtp" \notin Features, NEW s, Whole(s), Counted(s), NEW c \in Calls
  PROVE  LET t == call_released(s, c) IN
         /\ Counted(t) /\ Goes(s, t, NoCall)
         /\ s.call[c].op => t.call[c].state = "Released"
<1> DEFINE u == IF s.call[c].terminated THEN s ELSE sal_call_failure(s, c, "NoResponse")
           t == linphone_call_set_state(u, c, "Released")
<1>1. s \in States BY DEF Counted
<1>2. Counted(s) /\ Goes(s, s, NoCall) BY <1>1, StillSelf, StillCounted
<1>3. CASE ~s.call[c].op BY <1>2, <1>3 DEF call_released
<1>4. CASE s.call[c].op
  <2>1. Counted(u) /\ Goes(s, u, NoCall) /\ u.call[c].state \in Ended
    BY <1>2, <1>4, OpState, FailureCounted
  <2>2. call_released(s, c) = t BY <1>4 DEF call_released
  <2> HIDE DEF u
  <2>3. Counted(t) /\ Goes(u, t, NoCall) /\ t.call[c].state = "Released"
    BY <2>1, ReleasesCounted
  <2> HIDE DEF t
  <2> QED BY <2>1, <2>2, <2>3, GoesTwice
<1> QED BY <1>3, <1>4

-----------------------------------------------------------------------------
(***************************************************************************)
(* The handlers of responses, requests and the end                         *)
(***************************************************************************)

\* A dialog whose call is over is closed.
LEMMA HangupCounted ==
  ASSUME NEW s, Whole(s), Counted(s), NEW c \in Calls, ~s.call[c].op \/ s.call[c].terminated
  PROVE  Counted(Hangup(s, c)) /\ Goes(s, Hangup(s, c), NoCall)
<1>1. s \in States BY DEF Counted
<1>2. s.call[c].state \notin Live
  <2>1. s.call[c].op => s.call[c].state \in Ended BY OpState
  <2>2. ~s.call[c].op => c \notin s.calls BY DEF Counted, ReferenceInv
  <2> QED BY <2>1, <2>2 DEF Counted, Live, Ended, Outgoing, Incoming
<1>3. Winds(s, Hangup(s, c), c) BY <1>1, HangupWinds
<1> QED BY <1>2, <1>3, WindsCounted

LEMMA ProceedingCounted ==
  ASSUME NEW s, Whole(s), Counted(s), NEW c \in Calls
  PROVE  LET t == sal_call_proceeding(s, c) IN Counted(t) /\ Goes(s, t, NoCall)
<1>1. s \in States BY DEF Counted
<1>2. Counted(s) /\ Goes(s, s, NoCall) BY <1>1, StillSelf, StillCounted
<1> QED BY <1>2, HangupCounted DEF sal_call_proceeding

LEMMA CallRingingCounted ==
  ASSUME NEW s, Counted(s), NEW c \in Calls, s.call[c].state \in Outgoing \cup Ended
  PROVE  LET t == call_ringing(s, c) IN Counted(t) /\ Goes(s, t, NoCall)
<1> DEFINE md == s.call[c].result
           early == linphone_call_set_state(s, c, "OutgoingEarlyMedia")
           heard == linphone_core_update_streams(early, c, md)
           tone == [s EXCEPT !.ring = TRUE]
           ringing == linphone_call_set_state(tone, c, "OutgoingRinging")
<1>1. s \in States BY DEF Counted
<1>2. Counted(s) /\ Goes(s, s, NoCall) BY <1>1, StillSelf, StillCounted
<1>3. call_ringing(s, c) \in {s, ringing, heard} BY DEF call_ringing
<1>4. md \in Descriptions BY <1>1, StateFields DEF CallRecords
<1> HIDE DEF md
<1>5. /\ "OutgoingEarlyMedia" \in Outgoing /\ "OutgoingRinging" \in Outgoing
      /\ Outgoing \subseteq Live /\ "Paused" \notin Outgoing
      /\ Outgoing \cap Answered = {}
      /\ {"OutgoingEarlyMedia", "OutgoingRinging"} \cap (Ended \cup {"Released"}) = {}
  BY DEF Outgoing, Live, Answered, Ended
<1>6. \A u, x : Counted(u) /\ u.call[c].state \in Outgoing \cup Ended
                /\ x \in {"OutgoingEarlyMedia", "OutgoingRinging"} =>
        LET t == linphone_call_set_state(u, c, x) IN Counted(t) /\ Goes(u, t, NoCall)
  <2> SUFFICES ASSUME NEW u, Counted(u), u.call[c].state \in Outgoing \cup Ended,
                      NEW x \in {"OutgoingEarlyMedia", "OutgoingRinging"}
               PROVE  LET t == linphone_call_set_state(u, c, x)
                      IN Counted(t) /\ Goes(u, t, NoCall)
    OBVIOUS
  <2>1. CASE u.call[c].state \in Ended
    <3>1. linphone_call_set_state(u, c, x) = u
      BY <1>5, <2>1 DEF linphone_call_set_state
    <3>2. u \in States BY DEF Counted
    <3> QED BY <3>1, <3>2, StillSelf, StillCounted
  <2>2. CASE u.call[c].state \in Outgoing
    <3>1. u.call[c].state \in Live /\ u.call[c].state \notin Answered /\ x \in Live
          /\ x \in Outgoing /\ x # "Paused"
      BY <1>5, <2>2
    <3> QED BY <3>1, SetStateCounted
  <2> QED BY <2>1, <2>2
<1>7. Still(s, tone) BY <1>1, RingStill
<1> HIDE DEF tone
<1>8. Counted(tone) /\ Goes(s, tone, NoCall) /\ tone.call[c].state \in Outgoing \cup Ended
  BY <1>7, StillCounted, StillState DEF Answered, Settled, Live, Ended, Outgoing, Incoming
<1>9. Counted(ringing) /\ Goes(s, ringing, NoCall) BY <1>6, <1>8, GoesTwice
<1>10. Counted(early) /\ Goes(s, early, NoCall) BY <1>6
<1> HIDE DEF early
<1>11. Still(early, heard) BY <1>4, <1>10, UpdateStreamsStill DEF Counted
<1> HIDE DEF heard, ringing
<1>12. Counted(heard) /\ Goes(s, heard, NoCall) BY <1>10, <1>11, StillCounted, GoesTwice
<1> QED BY <1>2, <1>3, <1>9, <1>12

\* A ringing response finds a call that still goes out, or is over.
LEMMA RingingCounted ==
  ASSUME NEW s, Whole(s), Counted(s), NEW c \in Calls, NEW md \in Descriptions,
         s.call[c].state \in Dialled
  PROVE  LET t == sal_call_ringing(s, c, md) IN Counted(t) /\ Goes(s, t, NoCall)
<1> DEFINE known == SetDialog(s, c)
           answered == SetAnswer(known, c, md)
<1>1. s \in States BY DEF Counted
<1>2. CASE ~s.call[c].op \/ s.call[c].terminated
  BY <1>2, HangupCounted DEF sal_call_ringing
<1>3. CASE s.call[c].op /\ ~s.call[c].terminated
  <2>1. s.call[c].state \in Outgoing \cup Ended
    BY <1>3, OpState DEF Dialled, Live, Ended, Outgoing, Incoming
  <2>2. sal_call_ringing(s, c, md) \in {call_ringing(known, c), call_ringing(answered, c)}
    BY <1>3 DEF sal_call_ringing
  <2>3. Still(s, known) /\ known \in States BY <1>1, SetDialogStill, StillSteady
  <2> HIDE DEF known
  <2>4. Still(s, answered) BY <2>3, SetAnswerStill, StillTwice
  <2> HIDE DEF answered
  <2>5. \A u \in {known, answered} :
          LET t == call_ringing(u, c) IN Counted(t) /\ Goes(s, t, NoCall)
    <3> SUFFICES ASSUME NEW u \in {known, answered}
                 PROVE  LET t == call_ringing(u, c) IN Counted(t) /\ Goes(s, t, NoCall)
      OBVIOUS
    <3>1. Still(s, u) BY <2>3, <2>4
    <3>2. Counted(u) /\ Goes(s, u, NoCall) BY <3>1, StillCounted
    <3>3. u.call[c].state \in Outgoing \cup Ended
      BY <2>1, <3>1, StillState DEF Answered, Settled, Live, Ended, Outgoing, Incoming
    <3>4. LET t == call_ringing(u, c) IN Counted(t) /\ Goes(u, t, NoCall)
      BY <3>2, <3>3, CallRingingCounted
    <3> QED BY <3>2, <3>4, GoesTwice
  <2> QED BY <2>2, <2>5
<1> QED BY <1>2, <1>3

\* The SDP of the ACK, which comes once the dialog is confirmed.
LEMMA AckCounted ==
  ASSUME NEW s, Whole(s), Counted(s), NEW c \in Calls, NEW md \in Descriptions,
         s.ctx[c].stage \notin {"calling", "early"}
  PROVE  LET t == handle_ack(s, c, md) IN Counted(t) /\ Goes(s, t, c)
<1> DEFINE u == SetAnswer(s, c, md)
           d == u.call[c].result
           streams == linphone_core_update_streams(u, c, d)
           running == linphone_call_set_state(streams, c, "StreamsRunning")
           over == linphone_core_abort_call(u, c)
<1>1. s \in States BY DEF Counted
<1>2. Counted(s) /\ Goes(s, s, c) BY <1>1, StillSelf, StillCounted
<1>3. CASE ~s.call[c].op \/ s.call[c].terminated BY <1>2, <1>3 DEF handle_ack
<1>4. CASE s.call[c].op /\ ~s.call[c].terminated
  <2>1. s.call[c].state \in Live \cup Ended BY <1>4, OpState
  <2>2. Still(s, u) /\ u \in States BY <1>1, SetAnswerStill, StillSteady
  <2>3. handle_ack(s, c, md) \in {u, running, over} BY <1>4 DEF handle_ack, call_ack
  <2> HIDE DEF u
  <2>4. Counted(u) /\ Goes(s, u, c) BY <2>2, StillCounted
  <2>5. u.call[c].state \in Live \cup Ended
    BY <2>1, <2>2, StillState DEF Answered, Settled
  <2>6. Counted(over) /\ Goes(s, over, c) BY <2>4, <2>5, EndCounted, GoesAny, GoesTwice
  <2>7. d \in Descriptions BY <2>2, StateFields DEF CallRecords
  <2> HIDE DEF d, over
  <2>8. Still(u, streams) /\ streams \in States BY <2>2, <2>7, UpdateStreamsStill, StillSteady
  <2> HIDE DEF streams
  <2>9. Counted(streams) /\ Goes(s, streams, c) BY <2>4, <2>8, StillCounted, GoesTwice
  <2>10. streams.ctx[c].stage \notin {"calling", "early"}
    BY <2>2, <2>8, StillSteady DEF Calm, Ebbs
  <2>11. streams.call[c].state \in Live \cup Ended
    BY <2>5, <2>8, StillState DEF Answered, Settled
  <2>12. Counted(running) /\ Goes(s, running, c)
    <3>1. CASE streams.call[c].state \in Ended
      <4>1. running = streams BY <3>1 DEF linphone_call_set_state
      <4> QED BY <2>9, <4>1
    <3>2. CASE streams.call[c].state \in Live
      <4>1. "StreamsRunning" \in Live /\ "StreamsRunning" \in Answered
        BY DEF Answered, Settled, Live, Outgoing, Incoming
      <4>2. Counted(running) /\ Goes(streams, running, c)
        BY <2>9, <2>10, <3>2, <4>1, SetStateCounted
      <4> QED BY <2>9, <4>2, GoesTwice
    <3> QED BY <2>11, <3>1, <3>2
  <2> QED BY <2>3, <2>4, <2>6, <2>12
<1> QED BY <1>3, <1>4

-----------------------------------------------------------------------------
(***************************************************************************)
(* New calls                                                               *)
(***************************************************************************)

\* A call that enters the list is referenced by its creator, and its referer
\* gains one reference.
LEMMA OpensCounted ==
  ASSUME NEW s, Counted(s), NEW c \in Calls, s.call[c].state = "Idle",
         s.ctx[c].stage \notin {"calling", "early"},
         NEW r \in Calls \cup {NoCall}, r # c, r \in Calls => s.call[r].state # "Idle",
         NEW t \in States, t.evq = s.evq, t.ctx = s.ctx, t.calls = s.calls \cup {c},
         t.friends = "OnThePhone",
         t.call[c].state \in Live \ {"Paused"}, t.call[c].refcnt = 1, t.call[c].op,
         t.call[c].referer = r,
         \A d \in Calls : d # c =>
           /\ t.call[d].refcnt = (IF d = r THEN s.call[d].refcnt + 1 ELSE s.call[d].refcnt)
           /\ t.call[d].op = s.call[d].op /\ t.call[d].state = s.call[d].state
           /\ t.call[d].referer = s.call[d].referer
           /\ t.call[d].refer_pending = s.call[d].refer_pending
  PROVE  /\ Counted(t)
         /\ \A d \in Calls : d # c => Calm(s, t, d)
         /\ s.ctx[c].stage \notin {"closed", "released"} => Goes(s, t, NoCall)
<1>1. s \in States /\ s.calls \subseteq Calls BY StateFields DEF Counted
<1>2. c \notin s.calls BY DEF Counted, Live, Outgoing, Incoming
<1>3. \A d \in Calls : d # c => Calm(s, t, d) BY DEF Calm, Ebbs
<1>4. \A d \in Calls : d # r => Targets(t, d) = Targets(s, d)
  BY <1>1, <1>2 DEF Targets
<1>5. r \in Calls => c \notin Targets(s, r) /\ Targets(t, r) = Targets(s, r) \cup {c}
  BY <1>1, <1>2 DEF Targets
<1> DEFINE base(u, d) == IF u.call[d].state \in {"Idle", "Released"} THEN 0 ELSE 1
<1>6. \A d \in Calls : d # c => base(t, d) = base(s, d) OBVIOUS
<1>7. base(s, c) = 0 /\ base(t, c) = 1 BY DEF Live, Outgoing, Incoming
<1>8. \A d \in Calls : s.call[d].refcnt = base(s, d) + Cardinality(Targets(s, d))
  BY DEF Counted, ReferenceInv
<1>9. \A d \in Calls : base(s, d) \in {0, 1} OBVIOUS
<1> HIDE DEF base
<1>10. \A d \in Calls : t.call[d].refcnt = base(t, d) + Cardinality(Targets(t, d))
  <2> SUFFICES ASSUME NEW d \in Calls
               PROVE  t.call[d].refcnt = base(t, d) + Cardinality(Targets(t, d))
    OBVIOUS
  <2>1. CASE d = c
    <3>1. s.call[c].refcnt = 0 BY DEF Counted, ReferenceInv
    <3>2. Cardinality(Targets(s, c)) \in Nat BY <1>1, TargetsCount
    <3> QED BY <1>4, <1>7, <1>8, <2>1, <3>1, <3>2
  <2>2. CASE d # c /\ d # r BY <1>4, <1>6, <1>8, <2>2
  <2>3. CASE d = r
    <3>1. Cardinality(Targets(t, d)) = Cardinality(Targets(s, d)) + 1
          /\ Cardinality(Targets(s, d)) \in Nat
      BY <1>1, <1>5, <2>3, TargetsCount
    <3> QED BY <1>6, <1>8, <1>9, <2>3, <3>1
  <2> QED BY <2>1, <2>2, <2>3
<1>11. \A d \in t.calls : t.call[d].op BY <1>1 DEF Counted, ReferenceInv
<1>12. \A d \in Calls : t.call[d].state = "Idle" => t.call[d].refcnt = 0
  BY DEF Counted, ReferenceInv, Live, Outgoing, Incoming
<1>13. ReferenceInv(t) BY <1>10, <1>11, <1>12 DEF ReferenceInv, base
<1>14. \A d \in Calls : d \in t.calls <=> t.call[d].state \in Live BY DEF Counted
<1>15. \A d \in Calls : t.call[d].state = "Paused" => ~t.call[d].refer_pending
  BY DEF Counted
<1>16. \A d \in Calls : t.ctx[d].stage \in {"calling", "early"} => t.call[d].state \in Dialled
  BY DEF Counted
<1>17. Counted(t) BY <1>13, <1>14, <1>15, <1>16 DEF Counted
<1>18. ASSUME s.ctx[c].stage \notin {"closed", "released"} PROVE Goes(s, t, NoCall)
  <2>1. Forth(s, t, c) BY <1>18 DEF Forth, After, Answered, Settled, Live, Ended, Outgoing, Incoming
  <2>2. "Idle" \notin Dialled BY DEF Dialled, Outgoing, Ended
  <2> QED BY <1>3, <2>1, <2>2, CalmForth DEF Goes
<1> QED BY <1>3, <1>17, <1>18

\* The INVITE is sent, or cannot be and the call is over.
LEMMA StartInviteCounted ==
  ASSUME NEW s, Counted(s), NEW c \in Calls, s.call[c].state = "OutgoingInit",
         s.ctx[c].stage = "none", NEW sent \in BOOLEAN
  PROVE  LET t == linphone_core_start_invite(s, c, sent) IN Counted(t) /\ Goes(s, t, NoCall)
<1> DEFINE k == [s.call[c] EXCEPT !.media = "init", !.media_pending = TRUE]
           ready == Store(s, c, k)
           marked == Store(ready, c, [ready.call[c] EXCEPT !.terminated = FALSE])
           x == IF sent THEN eXosip_call_send_initial_invite(ready.call[c].local) ELSE NoContext
           called == Signal(marked, c, x)
           going == linphone_call_set_state(called, c, "OutgoingProgress")
           stopped == linphone_call_stop_media_streams(called, c)
           over == linphone_call_set_state(stopped, c, "Error")
           t == linphone_core_start_invite(s, c, sent)
<1>1. s \in States BY DEF Counted
<1>2. s.call[c] \in CallRecords BY <1>1, StateFields
<1>3. /\ k \in CallRecords /\ k.state = s.call[c].state /\ k.op = s.call[c].op
      /\ k.refcnt = s.call[c].refcnt /\ k.referer = s.call[c].referer
      /\ k.refer_pending = s.call[c].refer_pending
  BY <1>2 DEF CallRecords
<1>4. t = IF sent THEN going ELSE over BY DEF linphone_core_start_invite, sal_call
<1> HIDE DEF k
<1>5. Still(s, ready) /\ ready \in States BY <1>1, <1>3, StoreSteady, StoreTyped
<1> HIDE DEF ready
<1>6. x \in Contexts /\ x.stage = (IF sent THEN "calling" ELSE "none") /\ AckInv(x)
  <2>1. ready.call[c].local \in Dirs BY <1>5, StateFields DEF CallRecords
  <2>2. NoContext \in Contexts /\ NoContext.stage = "none" /\ ~NoContext.ack
    BY DEF NoContext, Contexts, Stages, Dirs, Descriptions
  <2>3. \A local \in Dirs : /\ eXosip_call_send_initial_invite(local) \in Contexts
                            /\ eXosip_call_send_initial_invite(local).stage = "calling"
                            /\ ~eXosip_call_send_initial_invite(local).ack
    BY <2>2 DEF eXosip_call_send_initial_invite, Contexts, Stages
  <2> QED BY <2>1, <2>2, <2>3 DEF AckInv
<1> HIDE DEF x
<1>7. Still(s, marked) /\ marked \in States BY <1>5, MarkStill, StillTwice, StillSteady
<1> HIDE DEF marked
<1>8. /\ Steady(marked, called, c) /\ called.ctx[c] = x /\ called.call = marked.call
      /\ called \in States
  BY <1>6, <1>7, SignalSteady, SignalTyped
<1> HIDE DEF called
<1>9. Steady(s, called, c) BY <1>7, <1>8, StillSteady, SteadyTwice
<1>10. marked.call[c].state = "OutgoingInit" /\ marked.ctx[c].stage = "none"
       /\ (marked.call[c].refer_pending => s.call[c].refer_pending)
  BY <1>7, StillState DEF Answered, Settled
<1>11. CASE sent
  <2> DEFINE j == [called.call[c] EXCEPT !.state = "OutgoingProgress"]
  <2>1. called.call[c] \in CallRecords BY <1>8, StateFields
  <2>2. /\ j \in CallRecords /\ j.state = "OutgoingProgress" /\ j.op = called.call[c].op
        /\ j.refcnt = called.call[c].refcnt /\ j.referer = called.call[c].referer
    BY <2>1 DEF CallRecords, CallStates, Live, Outgoing
  <2>3. going = Store(called, c, j)
    BY <1>8, <1>10 DEF linphone_call_set_state, Ended
  <2> HIDE DEF j
  <2>4. Steady(called, going, c) /\ going.call[c] = j /\ going.ctx = called.ctx
    BY <1>8, <2>2, <2>3, StoreSteady, StoreTyped
  <2> HIDE DEF going
  <2>5. Steady(s, going, c) BY <1>9, <2>4, SteadyTwice
  <2>6. going.call[c].state = "OutgoingProgress" /\ going.ctx[c].stage = "calling"
    BY <1>6, <1>8, <1>11, <2>2, <2>4
  <2>10. AckInv(going.ctx[c]) BY <1>6, <1>8, <2>4
  <2>7. Counted(going) BY <2>5, <2>6, <2>10, SteadyCounted DEF Dialled, Live, Outgoing
  <2>8. Forth(s, going, c)
    BY <2>6 DEF Forth, After, Answered, Settled, Ended
  <2>9. Goes(s, going, NoCall) BY <2>5, <2>6, <2>8, SteadyGoes DEF Dialled, Outgoing
  <2> QED BY <1>4, <1>11, <2>7, <2>9
<1>12. CASE ~sent
  <2>1. Winds(s, called, c)
    BY <1>6, <1>8, <1>9, <1>10, <1>12 DEF Winds, StageStep
  <2>2. Still(called, stopped) BY <1>8, StopMediaStill
  <2> HIDE DEF stopped
  <2>3. Winds(s, stopped, c) BY <2>1, <2>2, StillWinds, WindsTwice
  <2>4. "Error" \in Ended /\ s.call[c].state \in Live BY DEF Live, Ended
  <2> QED BY <1>4, <1>12, <2>3, <2>4, OverCounted
<1> QED BY <1>11, <1>12

\* What linphone_call_new_outgoing and the insertion into the list leave.
Opened(s, c, r) ==
  linphone_call_set_state(
    [linphone_call_new_outgoing(s, c, r) EXCEPT !.calls = @ \cup {c}, !.current = c],
    c, "OutgoingInit")

LEMMA NewOutgoingOpens ==
  ASSUME NEW s \in States, NEW c \in Calls, s.call[c].state = "Idle",
         NEW r \in Calls \cup {NoCall}, r # c,
         NEW t, t = Opened(s, c, r)
  PROVE  /\ t \in States /\ t.evq = s.evq /\ t.ctx = s.ctx /\ t.calls = s.calls \cup {c}
         /\ t.friends = "OnThePhone" /\ t.call[c].state = "OutgoingInit"
         /\ t.call[c].refcnt = 1 /\ t.call[c].op /\ t.call[c].referer = r
         /\ \A d \in Calls : d # c =>
              /\ t.call[d].refcnt = (IF d = r THEN s.call[d].refcnt + 1 ELSE s.call[d].refcnt)
              /\ t.call[d].op = s.call[d].op /\ t.call[d].state = s.call[d].state
              /\ t.call[d].referer = s.call[d].referer
              /\ t.call[d].refer_pending = s.call[d].refer_pending
<1> DEFINE b == "srtp" \in Features
           k == [NewCall EXCEPT !.refcnt = 1, !.op = TRUE, !.referer = r, !.srtp = b]
           m == Store(s, c, k)
           open == [m EXCEPT !.friends = "OnThePhone"]
           n == s.call[r].refcnt + 1
           l == [s.call[r] EXCEPT !.refcnt = n]
           made == linphone_call_new_outgoing(s, c, r)
           added == [made EXCEPT !.calls = @ \cup {c}, !.current = c]
           j == [added.call[c] EXCEPT !.state = "OutgoingInit"]
<1>1. made = IF r = NoCall THEN open ELSE Store(open, r, l)
  BY DEF linphone_call_new_outgoing
<1>2. k.refcnt = 1 /\ k.op = TRUE /\ k.referer = r
  <2>1. DOMAIN NewCall = {"state", "refcnt", "op", "terminated", "did", "media", "local",
          "remote", "result", "desc", "media_pending", "refer_pending",
          "was_automatically_paused", "referer", "srtp"}
    BY DEF NewCall
  <2> QED BY <2>1
<1>0. b \in BOOLEAN OBVIOUS
<1> HIDE DEF b
<1>3. k \in CallRecords /\ k.state = "Idle" BY <1>0, OutgoingTyped
<1> HIDE DEF k
<1>4. /\ m \in States /\ m.call[c] = k /\ m.ctx = s.ctx /\ m.calls = s.calls /\ m.evq = s.evq
      /\ \A d \in Calls : d # c => m.call[d] = s.call[d]
  BY <1>3, StoreTyped
<1> HIDE DEF m
<1>5. /\ open \in States /\ open.call = m.call /\ open.ctx = m.ctx
      /\ open.calls = m.calls /\ open.evq = m.evq /\ open.friends = "OnThePhone"
  BY <1>4 DEF States
<1> HIDE DEF open
<1>6. /\ made \in States /\ made.ctx = s.ctx /\ made.calls = s.calls /\ made.evq = s.evq
      /\ made.friends = "OnThePhone" /\ made.call[c] = k
      /\ \A d \in Calls : d # c =>
           /\ made.call[d].refcnt = (IF d = r THEN s.call[d].refcnt + 1 ELSE s.call[d].refcnt)
           /\ made.call[d].op = s.call[d].op /\ made.call[d].state = s.call[d].state
           /\ made.call[d].referer = s.call[d].referer
           /\ made.call[d].refer_pending = s.call[d].refer_pending
  <2>1. CASE r = NoCall BY <1>1, <1>4, <1>5, <2>1, NoCallIsNone
  <2>2. CASE r \in Calls
    <3>1. s.call[r] \in CallRecords BY <2>2, StateFields
    <3>2. n \in Int BY <3>1 DEF CallRecords
    <3> HIDE DEF n
    <3>3. /\ l \in CallRecords /\ l.state = s.call[r].state /\ l.refcnt = n
          /\ l.op = s.call[r].op /\ l.referer = s.call[r].referer
          /\ l.refer_pending = s.call[r].refer_pending
      BY <3>1, <3>2 DEF CallRecords
    <3> HIDE DEF l
    <3> DEFINE w == Store(open, r, l)
    <3>4. /\ w \in States /\ w.ctx = open.ctx /\ w.calls = open.calls /\ w.evq = open.evq
          /\ w.call[r] = l /\ \A d \in Calls : d # r => w.call[d] = open.call[d]
      BY <1>5, <2>2, <3>3, StoreTyped
    <3>5. w.friends = open.friends BY <1>5 DEF States, Store
    <3>6. made = w BY <1>1, <2>2, NoCallIsNone
    <3> HIDE DEF w
    <3> QED BY <1>4, <1>5, <2>2, <3>3, <3>4, <3>5, <3>6 DEF n
  <2> QED BY <2>1, <2>2
<1>13. t = linphone_call_set_state(added, c, "OutgoingInit") BY DEF Opened
<1> HIDE DEF made
<1>7. /\ added \in States /\ added.calls = s.calls \cup {c} /\ added.call = made.call
      /\ added.ctx = s.ctx /\ added.evq = s.evq /\ added.friends = "OnThePhone"
  BY <1>6 DEF States
<1> HIDE DEF added
<1>8. /\ j \in CallRecords /\ j.state = "OutgoingInit" /\ j.refcnt = 1 /\ j.op /\ j.referer = r
  BY <1>2, <1>3, <1>6, <1>7 DEF CallRecords, CallStates, Live
<1>9. t = Store(added, c, j)
  BY <1>3, <1>6, <1>7, <1>13 DEF linphone_call_set_state, Ended
<1> HIDE DEF j
<1>10. /\ t \in States /\ t.call[c] = j /\ t.ctx = added.ctx /\ t.calls = added.calls
       /\ t.evq = added.evq /\ \A d \in Calls : d # c => t.call[d] = added.call[d]
  <2>1. /\ Store(added, c, j) \in States /\ Store(added, c, j).call[c] = j
        /\ Store(added, c, j).ctx = added.ctx /\ Store(added, c, j).calls = added.calls
        /\ Store(added, c, j).evq = added.evq
        /\ \A d \in Calls : d # c => Store(added, c, j).call[d] = added.call[d]
    BY <1>7, <1>8, StoreTyped
  <2> QED BY <1>9, <2>1
<1>11. t.friends = added.friends BY <1>7, <1>9 DEF States, Store
<1>12. t.friends = "OnThePhone" /\ t.calls = s.calls \cup {c} /\ t.evq = s.evq /\ t.ctx = s.ctx
  BY <1>7, <1>10, <1>11
<1> QED BY <1>6, <1>7, <1>8, <1>10, <1>12

LEMMA InviteCounted ==
  ASSUME NEW s, Counted(s), NEW c \in Calls, Fresh(s, c),
         NEW r \in Calls \cup {NoCall}, r # c, r \in Calls => s.call[r].state # "Idle",
         NEW ping \in BOOLEAN, NEW sent \in BOOLEAN
  PROVE  LET t == linphone_core_invite_address_with_params(s, c, r, ping, sent)
         IN Counted(t) /\ Goes(s, t, NoCall)
<1> DEFINE freed == linphone_core_preempt_sound_resources(s)
           started == Opened(freed, c, r)
           t == linphone_core_invite_address_with_params(s, c, r, ping, sent)
<1>1. s \in States BY DEF Counted
<1>2. Still(s, freed) /\ freed \in States BY <1>1, PreemptStill
<1>3. t = IF ~linphone_core_can_we_add_call(freed) THEN freed
          ELSE IF ping THEN started ELSE linphone_core_start_invite(started, c, sent)
  BY DEF linphone_core_invite_address_with_params, Opened
<1> HIDE DEF freed
<1>4. Counted(freed) /\ Goes(s, freed, NoCall) BY <1>2, StillCounted
<1>5. freed.call[c].state = "Idle" /\ freed.ctx[c].stage = "none"
  BY <1>2, StillState DEF Fresh, Answered, Settled, Live, Outgoing, Incoming
<1>6. r \in Calls => freed.call[r].state # "Idle"
  BY <1>2, StillSteady, CalmForth
<1>7. /\ started \in States /\ started.evq = freed.evq /\ started.ctx = freed.ctx
      /\ started.calls = freed.calls \cup {c}
      /\ started.friends = "OnThePhone" /\ started.call[c].state = "OutgoingInit"
      /\ started.call[c].refcnt = 1 /\ started.call[c].op /\ started.call[c].referer = r
      /\ \A d \in Calls : d # c =>
           /\ started.call[d].refcnt =
                (IF d = r THEN freed.call[d].refcnt + 1 ELSE freed.call[d].refcnt)
           /\ started.call[d].op = freed.call[d].op
           /\ started.call[d].state = freed.call[d].state
           /\ started.call[d].referer = freed.call[d].referer
           /\ started.call[d].refer_pending = freed.call[d].refer_pending
  BY <1>2, <1>5, NewOutgoingOpens
<1> HIDE DEF started
<1>8. "OutgoingInit" \in Live \ {"Paused"} BY DEF Live
<1>9. Counted(started) /\ Goes(freed, started, NoCall)
  BY <1>4, <1>5, <1>6, <1>7, <1>8, OpensCounted
<1>10. LET u == linphone_core_start_invite(started, c, sent)
       IN Counted(u) /\ Goes(started, u, NoCall)
  BY <1>5, <1>7, <1>9, StartInviteCounted
<1> HIDE DEF t
<1> QED BY <1>3, <1>4, <1>9, <1>10, GoesTwice DEF t


\* A paused call starts the transfer that waited for the pause.  "p" is the
\* state in which it is paused, with the transfer still to start.
LEMMA StartReferedCounted ==
  ASSUME NEW s, Counted(s), NEW c \in Calls, s.call[c].state \in Live,
         s.ctx[c].stage \notin {"calling", "early"},
         NEW p, Steady(s, p, c), p.call[c].state = "Paused", p.ctx[c] = s.ctx[c],
         NEW n \in Calls \cup {NoCall}, n # c, n # NoCall => Fresh(s, n)
  PROVE  LET t == linphone_core_start_refered_call(p, c, n) IN Counted(t) /\ Goes(s, t, c)
<1> DEFINE k == [p.call[c] EXCEPT !.refer_pending = FALSE]
           taken == Store(p, c, k)
           called == linphone_core_invite_address_with_params(taken, n, c, FALSE, TRUE)
           t == linphone_core_start_refered_call(p, c, n)
<1>1. p \in States /\ p.call[c] \in CallRecords BY StateFields DEF Steady
<1>2. /\ "Paused" \in Live /\ "Paused" \in After /\ "Paused" \notin {"Idle", "Released"}
      /\ Live \cap {"Idle", "Released"} = {}
  BY DEF Live, After, Answered, Settled, Outgoing, Incoming
<1>3. t = IF ~p.call[c].refer_pending THEN p ELSE IF n = NoCall THEN taken ELSE called
  BY DEF linphone_core_start_refered_call
<1>4. \A u : Steady(s, u, c) /\ u.call[c].state = "Paused" /\ u.ctx[c] = s.ctx[c]
             /\ ~u.call[c].refer_pending => Counted(u) /\ Goes(s, u, c)
  <2> SUFFICES ASSUME NEW u, Steady(s, u, c), u.call[c].state = "Paused",
                      u.ctx[c] = s.ctx[c], ~u.call[c].refer_pending
               PROVE  Counted(u) /\ Goes(s, u, c)
    OBVIOUS
  <2>1. s.call[c].state \notin {"Idle", "Released"} BY <1>2
  <2>4. AckInv(u.ctx[c]) BY DEF Counted
  <2>2. Counted(u) BY <1>2, <2>1, <2>4, SteadyCounted
  <2>3. Forth(s, u, c) BY <1>2, <2>1 DEF Forth
  <2> QED BY <2>2, <2>3, SteadyGoes
<1>5. /\ k \in CallRecords /\ k.state = p.call[c].state /\ k.op = p.call[c].op
      /\ k.refcnt = p.call[c].refcnt /\ k.referer = p.call[c].referer
      /\ ~k.refer_pending
  BY <1>1 DEF CallRecords
<1> HIDE DEF k
<1>6. Steady(p, taken, c) /\ taken.call[c] = k /\ taken.ctx = p.ctx
  BY <1>1, <1>5, StoreSteady, StoreTyped
<1> HIDE DEF taken
<1>7. Steady(s, taken, c) BY <1>6, SteadyTwice
<1>8. Counted(taken) /\ Goes(s, taken, c) BY <1>4, <1>5, <1>6, <1>7
<1>9. CASE ~p.call[c].refer_pending BY <1>3, <1>4, <1>9
<1>10. CASE p.call[c].refer_pending /\ n = NoCall BY <1>3, <1>8, <1>10
<1>11. CASE p.call[c].refer_pending /\ n # NoCall
  <2>1. n \in Calls /\ Fresh(s, n) BY <1>11
  <2>2. Calm(s, taken, n) BY <1>7, <2>1 DEF Steady
  <2>3. "Idle" \notin Answered BY DEF Answered, Settled, Live, Outgoing, Incoming
  <2>4. Fresh(taken, n) BY <2>1, <2>2, <2>3 DEF Fresh, Calm, Ebbs
  <2>5. taken.call[c].state # "Idle" BY <1>2, <1>5, <1>6
  <2>6. Counted(called) /\ Goes(taken, called, NoCall)
    BY <1>8, <2>1, <2>4, <2>5, InviteCounted
  <2> HIDE DEF called
  <2>7. Goes(s, called, c) BY <1>8, <2>6, GoesAny, GoesTwice
  <2> QED BY <1>3, <1>11, <2>6, <2>7
<1> QED BY <1>9, <1>10, <1>11 DEF t

\* A call may become Paused with a transfer to start.
LEMMA PausesSteady ==
  ASSUME NEW s \in States, NEW c \in Calls, s.call[c].state \in Live
  PROVE  LET t == linphone_call_set_state(s, c, "Paused") IN
         Steady(s, t, c) /\ t.call[c].state = "Paused" /\ t.ctx = s.ctx
<1> DEFINE k == [s.call[c] EXCEPT !.state = "Paused"]
<1>1. s.call[c] \in CallRecords BY StateFields
<1>2. /\ k \in CallRecords /\ k.state = "Paused" /\ k.op = s.call[c].op
      /\ k.refcnt = s.call[c].refcnt /\ k.referer = s.call[c].referer
  BY <1>1 DEF CallRecords, CallStates, Live
<1>3. /\ "Paused" \notin Ended /\ "Paused" # "Released" /\ s.call[c].state \notin Ended
  BY DEF Ended, Live, Outgoing, Incoming
<1>4. linphone_call_set_state(s, c, "Paused") =
        IF s.call[c].state = "Paused" THEN s ELSE Store(s, c, k)
  BY <1>3 DEF linphone_call_set_state
<1> HIDE DEF k
<1>5. /\ Steady(s, Store(s, c, k), c)
      /\ Store(s, c, k).call[c] = k /\ Store(s, c, k).ctx = s.ctx
  BY <1>2, StoreSteady, StoreTyped
<1>6. Steady(s, s, c) BY StillSelf, StillSteady
<1> QED BY <1>2, <1>4, <1>5, <1>6

-----------------------------------------------------------------------------
(***************************************************************************)
(* The answer to our INVITE, and the transfer                              *)
(***************************************************************************)

LEMMA CallAcceptedCounted ==
  ASSUME NEW s, Counted(s), NEW c \in Calls, s.call[c].state \in Settled,
         s.ctx[c].stage = "conf",
         NEW n \in Calls \cup {NoCall}, n # c, n # NoCall => Fresh(s, n)
  PROVE  LET t == call_accepted(s, c, n) IN Counted(t) /\ Goes(s, t, c)
<1> DEFINE md == s.call[c].result
           connected == IF s.call[c].state \in Outgoing
                        THEN linphone_call_set_state(s, c, "Connected") ELSE s
           streams == linphone_core_update_streams(connected, c, md)
           paused == linphone_call_set_state(streams, c, "Paused")
           running == [streams EXCEPT !.current = c]
           held == linphone_call_set_state(streams, c, "PausedByRemote")
           going == linphone_call_set_state(running, c, "StreamsRunning")
           t == call_accepted(s, c, n)
<1>1. s \in States BY DEF Counted
<1>2. /\ {"Connected", "Paused", "PausedByRemote", "StreamsRunning"} \subseteq Answered
      /\ Answered \subseteq Live /\ Settled \subseteq Live
      /\ Settled \ Outgoing = Answered
  BY DEF Answered, Settled, Live, Outgoing, Incoming
<1>3. md \in Descriptions BY <1>1, StateFields DEF CallRecords
<1>4. t \in {linphone_core_abort_call(connected, c), held, going,
             linphone_core_start_refered_call(paused, c, n)}
  <2>1. CASE ~Usable(md) BY <2>1 DEF call_accepted
  <2>2. CASE Usable(md)
    <3>1. md \in Dirs
      BY <1>3, <2>2 DEF Usable, sal_media_description_empty, Descriptions
    <3> HIDE DEF md
    <3>2. t = CASE ~Usable(md) -> linphone_core_abort_call(connected, c)
                [] md \in {"SendOnly", "Inactive"} ->
                     linphone_core_start_refered_call(paused, c, n)
                [] md = "RecvOnly" -> held
                [] md = "SendRecv" -> going
      BY DEF call_accepted, md
    <3> HIDE DEF t, connected, streams, paused, running, held, going
    <3> QED BY <2>2, <3>1, <3>2 DEF Dirs
  <2> QED BY <2>1, <2>2
<1> HIDE DEF t, md
<1>5. /\ Counted(connected) /\ Goes(s, connected, c) /\ connected.ctx = s.ctx
      /\ connected.call[c].state \in Answered
      /\ n # NoCall => Fresh(connected, n)
  <2>1. CASE s.call[c].state \in Outgoing
    <3>1. connected = linphone_call_set_state(s, c, "Connected") BY <2>1
    <3>2. s.call[c].state \in Live /\ s.call[c].state \notin Answered
          /\ "Connected" \in Live /\ "Connected" # "Paused"
      BY <1>2, <2>1 DEF Answered
    <3>3. /\ Counted(connected) /\ Goes(s, connected, c) /\ connected.ctx = s.ctx
          /\ connected.call[c].state = "Connected"
      BY <3>1, <3>2, SetStateCounted
    <3>4. s.call[c].state \notin Ended BY <1>2 DEF Live, Ended, Outgoing, Incoming
    <3>5. Near(s, connected, c) BY <1>1, <3>1, <3>2, <3>4, SetStateLive
    <3>6. "Idle" \notin Settled BY DEF Settled, Live, Outgoing, Incoming
    <3>7. n # NoCall => connected.call[n].state = "Idle"
      BY <3>5, <3>6 DEF Near, Eased, Fresh
    <3> QED BY <1>2, <3>3, <3>7 DEF Fresh
  <2>2. CASE s.call[c].state \notin Outgoing
    <3>1. connected = s BY <2>2
    <3>2. Goes(s, s, c) BY <1>1, StillSelf, StillCounted
    <3> QED BY <1>2, <2>2, <3>1, <3>2
  <2> QED BY <2>1, <2>2
<1>6. connected \in States BY <1>5 DEF Counted
<1> HIDE DEF connected
<1>7. LET over == linphone_core_abort_call(connected, c) IN Counted(over) /\ Goes(s, over, c)
  BY <1>2, <1>5, EndCounted, GoesAny, GoesTwice
<1>8. Still(connected, streams) /\ streams \in States
  BY <1>3, <1>6, UpdateStreamsStill, StillSteady
<1> HIDE DEF streams
<1>9. Counted(streams) /\ Goes(s, streams, c) /\ streams.call[c].state \in Answered
      /\ streams.ctx[c].stage = "conf" /\ (n # NoCall => Fresh(streams, n))
  <2>1. Counted(streams) /\ Goes(s, streams, c) BY <1>5, <1>8, StillCounted, GoesTwice
  <2>2. streams.call[c].state \in Answered /\ streams.ctx[c].stage = "conf"
    BY <1>5, <1>8, StillState
  <2>3. "Idle" \notin Answered BY DEF Answered, Settled, Live, Outgoing, Incoming
  <2>4. n # NoCall => Fresh(streams, n) BY <1>5, <1>8, <2>3, StillState DEF Fresh
  <2> QED BY <2>1, <2>2, <2>4
<1>10. Counted(held) /\ Goes(s, held, c)
  <2>1. Still(streams, held) BY <1>2, <1>8, <1>9, SetStateStill
  <2> QED BY <1>9, <2>1, StillCounted, GoesTwice
<1>11. Counted(going) /\ Goes(s, going, c)
  <2>1. Still(streams, running) /\ running \in States BY <1>8, CurrentStill, StillSteady
  <2> HIDE DEF running
  <2>2. running.call[c].state \in Answered BY <1>9, <2>1, StillState
  <2>3. Still(running, going) BY <1>2, <2>1, <2>2, SetStateStill
  <2> HIDE DEF going
  <2> QED BY <1>9, <2>1, <2>3, StillTwice, StillCounted, GoesTwice
<1>12. LET u == linphone_core_start_refered_call(paused, c, n) IN Counted(u) /\ Goes(s, u, c)
  <2>1. Steady(streams, paused, c) /\ paused.call[c].state = "Paused" /\ paused.ctx = streams.ctx
    BY <1>2, <1>8, <1>9, PausesSteady
  <2> HIDE DEF paused
  <2>2. LET u == linphone_core_start_refered_call(paused, c, n)
        IN Counted(u) /\ Goes(streams, u, c)
    BY <1>2, <1>9, <2>1, StartReferedCounted
  <2> QED BY <1>9, <2>2, GoesTwice
<1> HIDE DEF held, going, paused
<1> QED BY <1>4, <1>7, <1>10, <1>11, <1>12 DEF t


\* An answer is only taken by a call whose dialog is confirmed: such a call has
\* not ended, is not incoming and has sent its INVITE.
LEMMA AcceptedCounted ==
  ASSUME NEW s, Whole(s), Counted(s), NEW c \in Calls, NEW md \in Descriptions,
         NEW n \in Calls \cup {NoCall}, n # NoCall => Fresh(s, n)
  PROVE  LET t == sal_call_accepted(s, c, md, n) IN Counted(t) /\ Goes(s, t, c)
<1> DEFINE known == SetDialog(s, c)
           answered == SetAnswer(known, c, md)
           t == sal_call_accepted(s, c, md, n)
<1>1. s \in States BY DEF Counted
<1>2. t = IF ~s.call[c].op \/ s.call[c].terminated THEN Hangup(s, c)
          ELSE IF s.ctx[c].stage # "conf" THEN Hangup(answered, c)
          ELSE call_accepted(answered, c, n)
  BY DEF sal_call_accepted
<1>3. Still(s, known) /\ known \in States BY <1>1, SetDialogStill, StillSteady
<1> HIDE DEF known
<1>4. Still(s, answered) /\ answered \in States
  BY <1>3, SetAnswerStill, StillTwice, StillSteady
<1>5. answered.ctx = s.ctx BY <1>3 DEF known, SetDialog, SetAnswer, Store
<1> HIDE DEF answered, t
<1>6. Counted(answered) /\ Goes(s, answered, c) BY <1>4, StillCounted
<1>7. CASE ~s.call[c].op \/ s.call[c].terminated
  BY <1>2, <1>7, HangupCounted, GoesAny DEF t
<1>8. CASE s.call[c].op /\ ~s.call[c].terminated /\ s.ctx[c].stage # "conf"
  <2>1. t = Signal(answered, c, eXosip_call_refuse(answered.ctx[c]))
    BY <1>2, <1>5, <1>8 DEF Hangup, eXosip_call_terminate
  <2>2. Still(answered, t) BY <1>4, <2>1, RefuseStill
  <2> QED BY <1>6, <2>2, StillCounted, GoesTwice DEF t
<1>9. CASE s.call[c].op /\ ~s.call[c].terminated /\ s.ctx[c].stage = "conf"
  <2>1. s.call[c].state \in Settled BY <1>9, OpState DEF Whole, CallInv, Settled
  <2>2. answered.call[c].state \in Settled
    BY <1>4, <2>1, StillState DEF Answered, Settled
  <2>3. /\ "Idle" \notin Settled /\ "Idle" \notin Answered
    BY DEF Answered, Settled, Live, Outgoing, Incoming
  <2>4. n # NoCall => Fresh(answered, n) BY <1>4, <1>5, <2>3, StillState DEF Fresh
  <2>5. n # c BY <2>1, <2>3, NoCallIsNone DEF Fresh
  <2>6. Counted(t) /\ Goes(answered, t, c)
    BY <1>2, <1>5, <1>6, <1>9, <2>2, <2>4, <2>5, CallAcceptedCounted
  <2> QED BY <1>6, <2>6, GoesTwice DEF t
<1> QED BY <1>7, <1>8, <1>9

\* A transfer starts at once if the call is paused, else it pauses the call.
LEMMA ReferCounted ==
  ASSUME NEW s, Whole(s), Counted(s), NEW c \in Calls,
         NEW n \in Calls \cup {NoCall}, n # NoCall => Fresh(s, n)
  PROVE  LET t == refer_received(s, c, n) IN Counted(t) /\ Goes(s, t, c)
<1> DEFINE k == [s.call[c] EXCEPT !.refer_pending = TRUE]
           asked == Store(s, c, k)
           paused == linphone_core_pause_call(asked, c)
           j == [paused.call[c] EXCEPT !.was_automatically_paused = TRUE]
           t == Store(paused, c, j)
           called == linphone_core_start_refered_call(asked, c, n)
<1>1. s \in States BY DEF Counted
<1>2. CASE ~s.call[c].op
  BY <1>1, <1>2, StillSelf, StillCounted DEF refer_received
<1>3. CASE s.call[c].op
  <2>1. s.call[c] \in CallRecords /\ s.call[c].state \in Live \cup Ended
    BY <1>1, <1>3, OpState, StateFields
  <2>2. /\ k \in CallRecords /\ k.state = s.call[c].state /\ k.op = s.call[c].op
        /\ k.refcnt = s.call[c].refcnt /\ k.referer = s.call[c].referer
    BY <2>1 DEF CallRecords
  <2>3. refer_received(s, c, n) = IF s.call[c].state = "Paused" THEN called ELSE t
    BY <1>3 DEF refer_received
  <2> HIDE DEF k
  <2>4. /\ Steady(s, asked, c) /\ asked \in States /\ asked.call[c] = k
        /\ asked.ctx = s.ctx
    BY <1>1, <2>2, StoreSteady, StoreTyped
  <2> HIDE DEF asked
  <2>5. CASE s.call[c].state = "Paused"
    <3>1. "Paused" \in Live /\ "Paused" \notin Dialled /\ "Paused" # "Idle"
      BY DEF Live, Dialled, Outgoing, Ended
    <3>2. s.ctx[c].stage \notin {"calling", "early"} BY <2>5, <3>1 DEF Counted
    <3>3. n # c BY <2>5, NoCallIsNone DEF Fresh
    <3>4. Counted(called) /\ Goes(s, called, c)
      BY <2>2, <2>4, <2>5, <3>1, <3>2, <3>3, StartReferedCounted
    <3> QED BY <2>3, <2>5, <3>4
  <2>6. CASE s.call[c].state # "Paused"
    <3>1. Still(asked, paused) /\ paused \in States BY <2>4, PauseStill, StillSteady
    <3> HIDE DEF paused
    <3>2. paused.call[c] \in CallRecords BY <3>1, StateFields
    <3>3. /\ j \in CallRecords /\ j.state = paused.call[c].state /\ j.op = paused.call[c].op
          /\ j.refcnt = paused.call[c].refcnt /\ j.referer = paused.call[c].referer
          /\ j.refer_pending = paused.call[c].refer_pending
      BY <3>2 DEF CallRecords
    <3> HIDE DEF j
    <3>4. Still(paused, t) BY <3>1, <3>3, StoreSteady
    <3> HIDE DEF t
    <3>5. Still(asked, t) BY <3>1, <3>4, StillTwice
    <3>6. Calm(asked, t, c) /\ Steady(s, t, c) BY <2>4, <3>5, StillSteady, SteadyTwice
    <3>7. /\ asked.call[c].state = s.call[c].state /\ asked.ctx[c] = s.ctx[c]
          /\ Forth(asked, t, c)
          /\ s.call[c].state \in Dialled <=> t.call[c].state \in Dialled
          /\ s.call[c].state \in Live <=> t.call[c].state \in Live
          /\ s.call[c].state \in {"Idle", "Released"} <=> t.call[c].state \in {"Idle", "Released"}
          /\ s.call[c].state = "Idle" <=> t.call[c].state = "Idle"
          /\ t.call[c].state # "Paused"
          /\ t.ctx[c].stage \in {"calling", "early"} => s.ctx[c].stage = t.ctx[c].stage
      BY <2>2, <2>4, <2>6, <3>6, CalmForth
    <3>10. AckInv(t.ctx[c]) BY <3>6, <3>7 DEF Calm, Ebbs, Counted
    <3>8. Counted(t) BY <3>6, <3>7, <3>10, SteadyCounted DEF Counted
    <3>9. Forth(s, t, c) BY <3>7 DEF Forth
    <3> QED BY <2>3, <2>6, <3>6, <3>8, <3>9, SteadyGoes
  <2> QED BY <2>5, <2>6
<1> QED BY <1>2, <1>3

-----------------------------------------------------------------------------
(***************************************************************************)
(* An incoming call                                                        *)
(***************************************************************************)

\* The object of an incoming call is made, and owned by nobody yet.
LEMMA NewIncomingOpens ==
  ASSUME NEW s \in States, NEW c \in Calls, NEW md \in Descriptions
  PROVE  LET t == linphone_call_new_incoming(s, c, md) IN
         /\ t \in States /\ t.evq = s.evq /\ t.ctx = s.ctx /\ t.calls = s.calls
         /\ t.friends = "OnThePhone" /\ t.current = s.current
         /\ t.call[c].state = "Idle" /\ t.call[c].refcnt = 1 /\ t.call[c].op
         /\ t.call[c].referer = NoCall
         /\ \A d \in Calls : d # c => t.call[d] = s.call[d]
<1> DEFINE k == [NewCall EXCEPT !.refcnt = 1, !.op = TRUE, !.did = TRUE, !.remote = md]
           m == Store(s, c, k)
           u == [m EXCEPT !.friends = "OnThePhone"]
           t == sal_call_get_final_media_description(u, c)
<1>1. k \in CallRecords /\ k.state = "Idle" BY IncomingTyped
<1>2. k.refcnt = 1 /\ k.op = TRUE /\ k.referer = NoCall
  <2>1. DOMAIN NewCall = {"state", "refcnt", "op", "terminated", "did", "media", "local",
          "remote", "result", "desc", "media_pending", "refer_pending",
          "was_automatically_paused", "referer", "srtp"}
    BY DEF NewCall
  <2>2. NewCall.referer = NoCall BY DEF NewCall
  <2> QED BY <2>1, <2>2
<1>3. linphone_call_new_incoming(s, c, md) = t BY DEF linphone_call_new_incoming
<1> HIDE DEF k
<1>4. /\ m \in States /\ m.call[c] = k /\ m.ctx = s.ctx /\ m.calls = s.calls
      /\ m.evq = s.evq /\ m.current = s.current
      /\ \A d \in Calls : d # c => m.call[d] = s.call[d]
  BY <1>1, StoreTyped
<1> HIDE DEF m
<1>5. /\ u \in States /\ u.call = m.call /\ u.ctx = m.ctx /\ u.calls = m.calls
      /\ u.evq = m.evq /\ u.current = m.current /\ u.friends = "OnThePhone"
  BY <1>4 DEF States
<1> HIDE DEF u
<1>6. Still(u, t) BY <1>5, FinalDescriptionStill
<1>7. /\ t.ctx = u.ctx /\ t.current = u.current
      /\ \A d \in Calls : d # c => t.call[d] = u.call[d]
  <2> DEFINE e == [u.call[c] EXCEPT !.result =
                     offer_answer_initiate_incoming(u.call[c].local, u.call[c].remote)]
  <2>1. t \in {u, Store(u, c, e)} BY DEF sal_call_get_final_media_description
  <2> HIDE DEF e, t
  <2>2. CASE t = u BY <2>2
  <2>3. CASE t = Store(u, c, e) BY <1>5, <2>3 DEF Store, States
  <2> QED BY <2>1, <2>2, <2>3
<1> HIDE DEF t
<1>8. "Idle" \notin Answered BY DEF Answered, Settled, Live, Outgoing, Incoming
<1>9. Held(u, t, c) /\ t.call[c].state = "Idle"
  BY <1>1, <1>4, <1>5, <1>6, <1>8, StillState, StillSteady
<1>10. t \in States /\ t.evq = u.evq /\ t.calls = u.calls /\ t.friends = u.friends
  BY <1>6, StillSteady
<1> QED BY <1>2, <1>3, <1>4, <1>5, <1>7, <1>9, <1>10 DEF Held


\* The call c of an INVITE is taken into the list, or not: the others go forth,
\* and its context was there already.
Enters(s, t, c) ==
  /\ t \in States /\ t.evq = s.evq
  /\ \A d \in Calls : d # c =>
       Forth(s, t, d) /\ (s.call[d].state \in Dialled => t.call[d].state \in Dialled)
  /\ t.call[c].state \in Live /\ t.ctx[c].stage \in {"closed", "released"} =>
       s.ctx[c].stage = t.ctx[c].stage
  /\ t.ctx[c].stage \notin {"none", "calling", "early"}

LEMMA EntersGoes ==
  ASSUME NEW s, NEW t, NEW u, NEW c \in Calls, Enters(s, t, c), Goes(t, u, NoCall)
  PROVE  Enters(s, u, c)
<1>1. \A d \in Calls : d # c => Forth(s, u, d) BY DEF Enters, Goes, Forth
<1>2. \A d \in Calls : d # c /\ s.call[d].state \in Dialled => u.call[d].state \in Dialled
  BY NoCallIsNone DEF Enters, Goes
<1>3. /\ u.call[c].state \in Live /\ u.ctx[c].stage \in {"closed", "released"} =>
           s.ctx[c].stage = u.ctx[c].stage
      /\ u.ctx[c].stage \notin {"none", "calling", "early"}
  BY DEF Enters, Goes, Forth
<1> QED BY <1>1, <1>2, <1>3 DEF Enters, Goes

LEMMA GoesEnters ==
  ASSUME NEW s, NEW t, NEW c \in Calls, Goes(s, t, NoCall),
         s.ctx[c].stage \notin {"none", "calling", "early"}
  PROVE  Enters(s, t, c)
  BY NoCallIsNone DEF Enters, Goes, Forth

\* An incoming call is answered.
LEMMA AcceptCounted ==
  ASSUME NEW s, Counted(s), NEW c \in Calls, s.call[c].state \in Incoming
  PROVE  LET t == linphone_core_accept_call(s, c) IN Counted(t) /\ Goes(s, t, NoCall)
<1> DEFINE freed == IF s.current = c THEN s ELSE linphone_core_preempt_sound_resources(s)
           m == IF freed.call[c].media = "none" THEN "init" ELSE freed.call[c].media
           k == [freed.call[c] EXCEPT !.media = m]
           stored == Store(freed, c, k)
           ready == Quiet(stored)
           answered == sal_call_accept(ready, c)
           taken == [answered EXCEPT !.current = c]
           moved == linphone_call_set_state(taken, c, "Connected")
           connected == sal_call_get_final_media_description(moved, c)
           md == connected.call[c].result
           running == linphone_core_update_streams(connected, c, md)
           going == linphone_call_set_state(running, c, "StreamsRunning")
<1>1. s \in States BY DEF Counted
<1>2. /\ {"Connected", "StreamsRunning"} \subseteq Answered \ {"Paused"}
      /\ Answered \subseteq Live /\ Incoming \subseteq Live
      /\ Incoming \cap (Answered \cup Dialled) = {} /\ "Connected" \notin Incoming
  BY DEF Answered, Settled, Dialled, Live, Ended, Outgoing, Incoming
<1>3. linphone_core_accept_call(s, c) \in {running, going}
  BY <1>2 DEF linphone_core_accept_call
<1>4. Still(s, freed) /\ freed \in States BY <1>1, PreemptStill, StillSelf
<1> HIDE DEF freed
<1>5. freed.call[c] \in CallRecords BY <1>4, StateFields
<1>6. m \in {"none", "init", "on"} BY <1>5 DEF CallRecords
<1> HIDE DEF m
<1>7. /\ k \in CallRecords /\ k.state = freed.call[c].state /\ k.op = freed.call[c].op
      /\ k.refcnt = freed.call[c].refcnt /\ k.referer = freed.call[c].referer
      /\ k.refer_pending = freed.call[c].refer_pending
  BY <1>5, <1>6 DEF CallRecords
<1> HIDE DEF k
<1>8. Still(s, stored) /\ stored \in States
  BY <1>4, <1>7, StoreSteady, StoreTyped, StillTwice
<1> HIDE DEF stored
<1>9. Still(s, ready) /\ ready \in States BY <1>8, QuietStill, StillTwice, StillSteady
<1> HIDE DEF ready
<1>10. Still(s, answered) /\ answered \in States
  BY <1>9, CallAcceptStill, StillTwice, StillSteady
<1> HIDE DEF answered
<1>11. Still(s, taken) BY <1>10, CurrentStill, StillTwice
<1> HIDE DEF taken
<1>12. Counted(taken) /\ Goes(s, taken, NoCall) BY <1>11, StillCounted
<1>13. taken.call[c].state \in Incoming BY <1>2, <1>11, StillState
<1>14. taken.ctx[c].stage \notin {"calling", "early"} BY <1>2, <1>12, <1>13 DEF Counted
<1>15. Counted(moved) /\ Goes(taken, moved, NoCall) /\ moved.call[c].state = "Connected"
  <2>1. taken.call[c].state \in Live /\ taken.call[c].state \notin Answered
        /\ taken.call[c].state \notin Outgoing /\ "Connected" \in Live /\ "Connected" # "Paused"
    BY <1>2, <1>13 DEF Dialled
  <2> QED BY <1>12, <1>14, <2>1, SetStateCounted
<1> HIDE DEF moved
<1>16. Counted(moved) /\ Goes(s, moved, NoCall) BY <1>12, <1>15, GoesTwice
<1>17. Still(moved, connected) /\ connected \in States
  BY <1>15, FinalDescriptionStill, StillSteady DEF Counted
<1> HIDE DEF connected
<1>18. md \in Descriptions BY <1>17, StateFields DEF CallRecords
<1> HIDE DEF md
<1>19. Still(moved, running) /\ running \in States
  BY <1>17, <1>18, UpdateStreamsStill, StillTwice, StillSteady
<1> HIDE DEF running
<1>20. running.call[c].state \in Answered BY <1>2, <1>15, <1>19, StillState
<1>21. Still(moved, going) BY <1>2, <1>19, <1>20, SetStateStill, StillTwice
<1> HIDE DEF going
<1>22. /\ Counted(running) /\ Goes(s, running, NoCall)
       /\ Counted(going) /\ Goes(s, going, NoCall)
  BY <1>16, <1>19, <1>21, StillCounted, GoesTwice
<1> QED BY <1>3, <1>22

\* A call that shares no codec with us is declined and forgotten.
LEMMA UnwantedCounted ==
  ASSUME NEW s, Whole(s), Counted(s), NEW c \in Calls, Announced(s, c), NEW md \in Descriptions
  PROVE  LET made == linphone_call_new_incoming(s, c, md)
             t == Store(Signal(made, c, eXosip_call_refuse(made.ctx[c])), c, NewCall)
         IN Counted(t) /\ Enters(s, t, c)
<1> DEFINE made == linphone_call_new_incoming(s, c, md)
           x == eXosip_call_refuse(made.ctx[c])
           declined == Signal(made, c, x)
           t == Store(declined, c, NewCall)
<1>1. s \in States /\ s.calls \subseteq Calls /\ c \notin s.calls
  BY StateFields DEF Counted, Announced, Live, Outgoing, Incoming
<1>2. /\ made \in States /\ made.evq = s.evq /\ made.ctx = s.ctx /\ made.calls = s.calls
      /\ made.friends = "OnThePhone"
      /\ \A d \in Calls : d # c => made.call[d] = s.call[d]
  BY <1>1, NewIncomingOpens
<1> HIDE DEF made
<1>3. made.ctx[c] \in Contexts BY <1>2, StateFields
<1>4. x \in Contexts /\ x.stage \in {"refused", "failed", "released"}
  <2>1. made.ctx[c].stage \in {"incoming", "refused", "failed", "released"}
    BY <1>2 DEF Announced
  <2> QED BY <1>3, <2>1 DEF eXosip_call_refuse, Contexts, Stages
<1>16. AckInv(x) BY <1>2, <1>3, AskedContext DEF Counted
<1>5. x.stage = "released" => s.ctx[c].stage = "released"
  <2>1. x.stage \in {"refused", made.ctx[c].stage}
    BY <1>3 DEF eXosip_call_refuse, Contexts, Stages
  <2> QED BY <1>2, <2>1
<1> HIDE DEF x
<1>6. /\ declined \in States /\ declined.ctx[c] = x /\ declined.call = made.call
      /\ declined.calls = s.calls /\ declined.evq = s.evq
      /\ \A d \in Calls : d # c => declined.ctx[d] = s.ctx[d]
  BY <1>2, <1>4, SignalTyped
<1>7. declined.friends = "OnThePhone" BY <1>2 DEF States, Signal
<1> HIDE DEF declined
<1>8. /\ t \in States /\ t.call[c] = NewCall /\ t.ctx = declined.ctx
      /\ t.calls = s.calls /\ t.evq = s.evq
      /\ \A d \in Calls : d # c => t.call[d] = s.call[d]
  BY <1>2, <1>6, NewCallTyped, StoreTyped
<1>9. t.friends = "OnThePhone" BY <1>6, <1>7 DEF States, Store
<1> HIDE DEF t
<1>10. NewCall.state = "Idle" /\ NewCall.refcnt = 0 BY DEF NewCall
<1>11. s.call[c].state = "Idle" BY DEF Announced
<1>12. \A b : Targets(t, b) = Targets(s, b) BY <1>1, <1>8 DEF Targets
<1>13. ReferenceInv(t)
  <2>1. \A d \in t.calls : t.call[d].op BY <1>1, <1>8 DEF Counted, ReferenceInv
  <2>2. \A d \in Calls : /\ t.call[d].state = s.call[d].state
                          /\ t.call[d].refcnt = s.call[d].refcnt
    BY <1>8, <1>10, <1>11 DEF Counted, ReferenceInv
  <2>3. \A d \in Calls :
          t.call[d].refcnt = (IF t.call[d].state \in {"Idle", "Released"} THEN 0 ELSE 1)
                             + Cardinality(Targets(t, d))
    BY <1>12, <2>2 DEF Counted, ReferenceInv
  <2>4. \A d \in Calls : t.call[d].state = "Idle" => t.call[d].refcnt = 0
    BY <2>2 DEF Counted, ReferenceInv
  <2> QED BY <1>9, <2>1, <2>3, <2>4 DEF ReferenceInv
<1>14. Counted(t)
  <2>1. \A d \in Calls : d \in t.calls <=> t.call[d].state \in Live
    BY <1>8, <1>10, <1>11 DEF Counted
  <2>2. \A d \in Calls : t.call[d].state = "Paused" => ~t.call[d].refer_pending
    BY <1>8, <1>10 DEF Counted
  <2>3. \A d \in Calls : t.ctx[d].stage \in {"calling", "early"} => t.call[d].state \in Dialled
    BY <1>4, <1>6, <1>8 DEF Counted
  <2>4. \A d \in Calls : AckInv(t.ctx[d]) BY <1>6, <1>8, <1>16 DEF Counted
  <2> QED BY <1>8, <1>13, <2>1, <2>2, <2>3, <2>4 DEF Counted
<1>15. Enters(s, t, c)
  <2>1. \A d \in Calls : d # c => Calm(s, t, d) BY <1>6, <1>8 DEF Calm, Ebbs
  <2> QED BY <1>4, <1>5, <1>6, <1>8, <2>1, CalmForth DEF Enters
<1> QED BY <1>14, <1>15 DEF t, declined, x, made


\* A wanted call enters the list, and may be answered or ended at once.
LEMMA WantedCounted ==
  ASSUME NEW s, Counted(s), NEW c \in Calls, Announced(s, c),
         NEW added \in States, added.evq = s.evq, added.ctx = s.ctx,
         added.calls = s.calls \cup {c}, added.friends = "OnThePhone",
         added.call[c].state = "Idle", added.call[c].refcnt = 1, added.call[c].op,
         added.call[c].referer = NoCall,
         \A d \in Calls : d # c => added.call[d] = s.call[d],
         NEW reaction \in {"none", "accept", "terminate"},
         NEW received,
         received = Notified(linphone_call_set_state(added, c, "IncomingReceived"), c, reaction)
  PROVE  /\ Counted(received) /\ Enters(s, received, c)
         /\ received.call[c].state = "IncomingReceived" =>
              LET early == linphone_call_set_state(received, c, "IncomingEarlyMedia")
                  heard == linphone_core_update_streams(early, c, early.call[c].result)
              IN Counted(heard) /\ Enters(s, heard, c)
<1> DEFINE k == [added.call[c] EXCEPT !.state = "IncomingReceived"]
           r == linphone_call_set_state(added, c, "IncomingReceived")
           early == linphone_call_set_state(received, c, "IncomingEarlyMedia")
           md == early.call[c].result
           heard == linphone_core_update_streams(early, c, md)
<1>1. /\ {"IncomingReceived", "IncomingEarlyMedia"} \subseteq Live \ {"Paused"}
      /\ {"IncomingReceived", "IncomingEarlyMedia"} \subseteq Incoming
      /\ {"IncomingReceived", "IncomingEarlyMedia"} \cap (Answered \cup Dialled) = {}
      /\ Outgoing \subseteq Dialled /\ "Idle" \notin Ended
      /\ {"IncomingReceived", "IncomingEarlyMedia"} \cap Ended = {}
  BY DEF Live, Answered, Settled, Dialled, Ended, Outgoing, Incoming
<1>2. added.call[c] \in CallRecords BY StateFields
<1>3. /\ k \in CallRecords /\ k.state = "IncomingReceived" /\ k.refcnt = 1 /\ k.op
      /\ k.referer = NoCall
  BY <1>2 DEF CallRecords, CallStates, Live, Incoming
<1>4. r = Store(added, c, k) BY <1>1 DEF linphone_call_set_state
<1> HIDE DEF k
<1>5. /\ r \in States /\ r.call[c] = k /\ r.ctx = s.ctx /\ r.evq = s.evq
      /\ r.calls = s.calls \cup {c}
      /\ \A d \in Calls : d # c => r.call[d] = s.call[d]
  BY <1>3, <1>4, StoreTyped
<1>6. r.friends = "OnThePhone" BY <1>4 DEF States, Store
<1>7. received = Notified(r, c, reaction) OBVIOUS
<1> HIDE DEF r
<1>8. Counted(r) /\ Enters(s, r, c)
  <2>1. /\ s.call[c].state = "Idle"
        /\ s.ctx[c].stage \in {"incoming", "refused", "failed", "released"}
    BY DEF Announced
  <2>2. NoCall # c /\ NoCall \notin Calls BY NoCallIsNone
  <2>3. Counted(r) /\ \A d \in Calls : d # c => Calm(s, r, d)
    <3>1. \A d \in Calls : d # c =>
            /\ r.call[d].refcnt =
                 (IF d = NoCall THEN s.call[d].refcnt + 1 ELSE s.call[d].refcnt)
            /\ r.call[d].op = s.call[d].op /\ r.call[d].state = s.call[d].state
            /\ r.call[d].referer = s.call[d].referer
            /\ r.call[d].refer_pending = s.call[d].refer_pending
      BY <1>5, <2>2
    <3> DEFINE n == NoCall
    <3>2. n \in Calls \cup {NoCall} /\ n # c /\ n \notin Calls BY <2>2
    <3>3. r.call[c].referer = n BY <1>3, <1>5
    <3>4. \A d \in Calls : d # c =>
            /\ r.call[d].refcnt = (IF d = n THEN s.call[d].refcnt + 1 ELSE s.call[d].refcnt)
            /\ r.call[d].op = s.call[d].op /\ r.call[d].state = s.call[d].state
            /\ r.call[d].referer = s.call[d].referer
            /\ r.call[d].refer_pending = s.call[d].refer_pending
      BY <3>1
    <3> HIDE DEF n
    <3> QED BY <1>1, <1>3, <1>5, <1>6, <2>1, <3>2, <3>3, <3>4, OpensCounted
  <2> QED BY <1>5, <2>1, <2>3, CalmForth DEF Enters
<1>9. Counted(received) /\ Goes(r, received, NoCall)
  <2>1. r.call[c].state \in Incoming /\ r.call[c].state \in Live BY <1>1, <1>3, <1>5
  <2>2. r \in States BY <1>5
  <2>3. CASE reaction = "none" BY <1>7, <1>8, <2>2, <2>3, StillSelf, StillCounted DEF Notified
  <2>4. CASE reaction = "accept"
    <3>1. received = linphone_core_accept_call(r, c) BY <1>7, <2>4 DEF Notified
    <3> QED BY <1>8, <2>1, <3>1, AcceptCounted
  <2>5. CASE reaction = "terminate"
    <3>1. received = linphone_core_terminate_call(r, c) BY <1>7, <2>5 DEF Notified
    <3> QED BY <1>8, <2>1, <3>1, EndCounted
  <2> QED BY <2>3, <2>4, <2>5
<1>10. Enters(s, received, c) BY <1>8, <1>9, EntersGoes
<1>11. ASSUME received.call[c].state = "IncomingReceived"
       PROVE  Counted(heard) /\ Enters(s, heard, c)
  <2>1. received.ctx[c].stage \notin {"calling", "early"} BY <1>1, <1>9, <1>11 DEF Counted
  <2>2. Counted(early) /\ Goes(received, early, NoCall)
    <3>1. /\ received.call[c].state \in Live /\ received.call[c].state \notin Answered
          /\ received.call[c].state \notin Outgoing
          /\ "IncomingEarlyMedia" \in Live /\ "IncomingEarlyMedia" # "Paused"
      BY <1>1, <1>11
    <3> QED BY <1>9, <2>1, <3>1, SetStateCounted
  <2>3. early \in States BY <2>2 DEF Counted
  <2> HIDE DEF early
  <2>4. md \in Descriptions BY <2>3, StateFields DEF CallRecords
  <2> HIDE DEF md
  <2>5. Still(early, heard) BY <2>3, <2>4, UpdateStreamsStill
  <2> HIDE DEF heard
  <2>6. Counted(heard) /\ Goes(received, heard, NoCall)
    BY <2>2, <2>5, StillCounted, GoesTwice
  <2> QED BY <1>10, <2>6, EntersGoes
<1> QED BY <1>9, <1>10, <1>11

LEMMA ReceivedCounted ==
  ASSUME NEW s, Whole(s), Counted(s), NEW c \in Calls, Announced(s, c), NEW md \in Descriptions,
         NEW refuse \in {"no", "moved", "busy"},
         NEW reaction \in {"none", "accept", "terminate"}
  PROVE  LET t == call_received(s, c, md, refuse, reaction) IN Counted(t) /\ Enters(s, t, c)
<1> DEFINE made == linphone_call_new_incoming(s, c, md)
           declined == Signal(s, c, eXosip_call_refuse(s.ctx[c]))
           unwanted == Store(Signal(made, c, eXosip_call_refuse(made.ctx[c])), c, NewCall)
           only == s.calls = {}
           added == [made EXCEPT !.calls = @ \cup {c},
                                 !.current = IF only THEN c ELSE @,
                                 !.ring = @ \/ only]
           received == Notified(linphone_call_set_state(added, c, "IncomingReceived"),
                                c, reaction)
           early == linphone_call_set_state(received, c, "IncomingEarlyMedia")
           heard == linphone_core_update_streams(early, c, early.call[c].result)
           t == call_received(s, c, md, refuse, reaction)
           wanted == linphone_core_can_we_add_call(s) /\ ~already_a_call_pending(s)
           sounding == received.call[c].state = "IncomingReceived" /\ "earlymedia" \in Features
           Fits(u) == Counted(u) /\ Enters(s, u, c)
<1>1. s \in States /\ s.ctx[c].stage \notin {"none", "calling", "early"}
  BY DEF Counted, Announced
<1>2. t = CASE refuse = "moved" -> s
            [] refuse = "busy" -> declined
            [] refuse = "no" /\ ~wanted -> declined
            [] refuse = "no" /\ wanted ->
                 IF made.call[c].result = "Empty" THEN unwanted
                 ELSE IF sounding THEN heard ELSE received
  BY DEF call_received
<1>3. Fits(declined) /\ Fits(s)
  BY <1>1, RefuseStill, StillSelf, StillCounted, GoesEnters
<1>4. Fits(unwanted) BY UnwantedCounted
<1>5. /\ made \in States /\ made.evq = s.evq /\ made.ctx = s.ctx /\ made.calls = s.calls
      /\ made.friends = "OnThePhone"
      /\ made.call[c].state = "Idle" /\ made.call[c].refcnt = 1 /\ made.call[c].op
      /\ made.call[c].referer = NoCall
      /\ \A d \in Calls : d # c => made.call[d] = s.call[d]
  BY <1>1, NewIncomingOpens
<1> HIDE DEF declined, unwanted, made
<1>6. Fits(received) /\ (sounding => Fits(heard))
  <2> DEFINE n == IF only THEN c ELSE made.current
             b == made.ring \/ only
  <2>1. added = [made EXCEPT !.calls = @ \cup {c}, !.current = n, !.ring = b] OBVIOUS
  <2>2. made.ring \in BOOLEAN /\ made.current \in Calls \cup {NoCall} BY <1>5, StateFields
  <2>3. n \in Calls \cup {NoCall} /\ b \in BOOLEAN BY <2>2
  <2> HIDE DEF n, b
  <2>4. /\ added \in States /\ added.calls = s.calls \cup {c} /\ added.call = made.call
        /\ added.ctx = s.ctx /\ added.evq = s.evq /\ added.friends = "OnThePhone"
    BY <1>5, <2>1, <2>3 DEF States
  <2> HIDE DEF added
  <2>5. Counted(received) /\ Enters(s, received, c) BY <1>5, <2>4, WantedCounted
  <2>6. received.call[c].state = "IncomingReceived" => Counted(heard) /\ Enters(s, heard, c)
    BY <1>5, <2>4, WantedCounted
  <2> QED BY <2>5, <2>6
<1> HIDE DEF t, received, heard, wanted, sounding, Fits
<1>7. Fits(t)
  <2>1. CASE refuse = "no" /\ wanted BY <1>2, <1>4, <1>6, <2>1
  <2>2. CASE refuse = "no" /\ ~wanted BY <1>2, <1>3, <2>2
  <2>3. CASE refuse = "moved" BY <1>2, <1>3, <2>3
  <2>4. CASE refuse = "busy" BY <1>2, <1>3, <2>4
  <2> QED BY <2>1, <2>2, <2>3, <2>4
<1> QED BY <1>7 DEF Fits, t

\* A redirected call: its INVITE is refused, it ends.
LEMMA RedirectCounted ==
  ASSUME NEW s, Counted(s), NEW c \in Calls, s.call[c].state \in Incoming
  PROVE  LET declined == Quiet(Signal(s, c, eXosip_call_refuse(s.ctx[c])))
             t == linphone_call_set_state(linphone_call_stop_media_streams(declined, c), c, "End")
         IN Counted(t) /\ Goes(s, t, NoCall)
<1> DEFINE d == Signal(s, c, eXosip_call_refuse(s.ctx[c]))
           q == Quiet(d)
           m == linphone_call_stop_media_streams(q, c)
<1>1. s \in States BY DEF Counted
<1>2. Still(s, d) /\ d \in States BY <1>1, RefuseStill, StillSteady
<1> HIDE DEF d
<1>3. Still(s, q) /\ q \in States BY <1>2, QuietStill, StillTwice, StillSteady
<1> HIDE DEF q
<1>4. Still(s, m) BY <1>3, StopMediaStill, StillTwice
<1> HIDE DEF m
<1>5. Winds(s, m, c) BY <1>4, StillWinds
<1>6. s.call[c].state \in Live \cup Ended /\ "End" \in Ended BY DEF Live, Ended
<1>7. LET t == linphone_call_set_state(m, c, "End") IN Counted(t) /\ Goes(s, t, NoCall)
  BY <1>5, <1>6, OverCounted
<1> QED BY <1>7 DEF m, q, d


-----------------------------------------------------------------------------
(***************************************************************************)
(* The event queue                                                         *)
(***************************************************************************)

\* What the invariant says of the state as a record, before and after the next
\* event is taken off the queue.
LEMMA CountedNow ==
  ASSUME IndInv
  PROVE  /\ Whole(Now) /\ Counted(Now)
         /\ evq # << >> => Whole(Popped) /\ Counted(Popped)
<1>1. LifeInv /\ Whole(Now) /\ Now \in States BY WholeNow DEF IndInv, Whole
<1>2. /\ ReferenceInv(Now) /\ Now.calls = calls /\ Now.call = call /\ Now.ctx = ctx
      /\ \A c \in Calls : WaitInv(call[c], ctx[c], evq, c)
  BY DEF IndInv, Now
<1>3. \A c \in Calls :
        /\ call[c].state = "Paused" => ~call[c].refer_pending
        /\ ctx[c].stage \in {"calling", "early"} => call[c].state \in Dialled
        /\ AckInv(ctx[c])
  BY <1>2 DEF WaitInv, Dialled
<1>4. \A c \in Calls : c \in calls <=> call[c].state \in Live BY <1>1, <1>2 DEF Whole, ListInv
<1>5. Counted(Now) BY <1>1, <1>2, <1>3, <1>4 DEF Counted
<1>6. ASSUME evq # << >> PROVE Whole(Popped) /\ Counted(Popped)
  <2>1. Whole(Popped) /\ Popped \in States BY <1>1, <1>6, PoppedWhole DEF Whole
  <2>2. /\ Popped.calls = calls /\ Popped.call = call /\ Popped.ctx = ctx
        /\ Popped.friends = Now.friends
    BY DEF Popped, Now
  <2>3. \A c : Targets(Popped, c) = Targets(Now, c) BY <1>2, <2>2 DEF Targets
  <2>4. ReferenceInv(Popped) BY <1>2, <2>2, <2>3 DEF ReferenceInv
  <2> QED BY <1>2, <1>3, <1>4, <2>1, <2>2, <2>4 DEF Counted
<1> QED BY <1>1, <1>5, <1>6

LEMMA HeadOrTail ==
  ASSUME NEW q \in Seq(Events), q # << >>
  PROVE  /\ Tail(q) \in Seq(Events) /\ Head(q) \in Events /\ Head(q).cid \in Calls
         /\ Head(q) = q[1] /\ 1 \in 1 .. Len(q) /\ Len(q) \in Nat
         /\ Len(Tail(q)) = Len(q) - 1
         /\ \A i \in 1 .. Len(Tail(q)) : Tail(q)[i] = q[i + 1]
         /\ \A type, c : InQueue(q, type, c) <=>
              (Head(q).type = type /\ Head(q).cid = c) \/ InQueue(Tail(q), type, c)
<1>1. /\ Tail(q) \in Seq(Events) /\ Head(q) \in Events
      /\ Head(q) = q[1] /\ 1 \in 1 .. Len(q) /\ Len(q) \in Nat
      /\ Len(Tail(q)) = Len(q) - 1
      /\ \A i \in 1 .. Len(Tail(q)) : Tail(q)[i] = q[i + 1]
  OBVIOUS
<1>2. Head(q).cid \in Calls BY <1>1 DEF Events
<1>3. ASSUME NEW type, NEW c, InQueue(q, type, c), ~InQueue(Tail(q), type, c)
      PROVE  Head(q).type = type /\ Head(q).cid = c
  <2>1. PICK i \in 1 .. Len(q) : q[i].type = type /\ q[i].cid = c BY <1>3 DEF InQueue
  <2>2. CASE i = 1 BY <1>1, <2>1, <2>2
  <2>3. CASE i # 1
    <3>1. i - 1 \in 1 .. Len(Tail(q)) /\ Tail(q)[i - 1] = q[i] BY <1>1, <2>3
    <3> QED BY <1>3, <2>1, <3>1 DEF InQueue
  <2> QED BY <2>2, <2>3
<1>4. ASSUME NEW type, NEW c, InQueue(Tail(q), type, c) PROVE InQueue(q, type, c)
  <2>1. PICK i \in 1 .. Len(Tail(q)) : Tail(q)[i].type = type /\ Tail(q)[i].cid = c
    BY <1>4 DEF InQueue
  <2>2. i + 1 \in 1 .. Len(q) /\ q[i + 1] = Tail(q)[i] BY <1>1
  <2> QED BY <2>1, <2>2 DEF InQueue
<1>5. \A type, c : Head(q).type = type /\ Head(q).cid = c => InQueue(q, type, c)
  BY <1>1 DEF InQueue
<1> QED BY <1>1, <1>2, <1>3, <1>4, <1>5

\* What is in the right order is so without its head, and nothing of what the
\* head's type precludes is behind it.
LEMMA OrderPopped ==
  ASSUME NEW q \in Seq(Events), q # << >>, NEW x, NEW y, OrderInv(q, x),
         \A d \in Calls : x[d].stage # "none" => y[d].stage # "none",
         \A d \in Calls : x[d].stage # "none" /\ y[d].stage \in {"calling", "early"} =>
           x[d].stage \in {"calling", "early"}
  PROVE  /\ OrderInv(Tail(q), y)
         /\ ~InQueue(Tail(q), "INVITE", Head(q).cid)
         /\ Head(q).type \notin Provisional => ~InQueue(Tail(q), "RINGING", Head(q).cid)
<1>1. /\ Head(q) = q[1] /\ 1 \in 1 .. Len(q) /\ Len(q) \in Nat
      /\ Len(Tail(q)) = Len(q) - 1
      /\ \A i \in 1 .. Len(Tail(q)) : Tail(q)[i] = q[i + 1] /\ i + 1 \in 1 .. Len(q) /\ 1 < i + 1
  BY HeadOrTail
<1>2. \A i \in 1 .. Len(q) :
        /\ q[i].cid \in Calls /\ x[q[i].cid].stage # "none"
        /\ x[q[i].cid].stage \in {"calling", "early"} => q[i].type \in Provisional
  BY DEF OrderInv, Events
<1>3. \A i, j \in 1 .. Len(q) : q[i].cid = q[j].cid /\ i < j =>
        q[j].type # "INVITE" /\ (q[j].type = "RINGING" => q[i].type \in Provisional)
  BY DEF OrderInv
<1>4. \A i \in 1 .. Len(Tail(q)) :
        /\ y[Tail(q)[i].cid].stage # "none"
        /\ y[Tail(q)[i].cid].stage \in {"calling", "early"} => Tail(q)[i].type \in Provisional
  BY <1>1, <1>2
<1>5. \A i, j \in 1 .. Len(Tail(q)) : Tail(q)[i].cid = Tail(q)[j].cid /\ i < j =>
        /\ Tail(q)[j].type # "INVITE"
        /\ Tail(q)[j].type = "RINGING" => Tail(q)[i].type \in Provisional
  <2> SUFFICES ASSUME NEW i \in 1 .. Len(Tail(q)), NEW j \in 1 .. Len(Tail(q)),
                      Tail(q)[i].cid = Tail(q)[j].cid, i < j
               PROVE  /\ Tail(q)[j].type # "INVITE"
                      /\ Tail(q)[j].type = "RINGING" => Tail(q)[i].type \in Provisional
    OBVIOUS
  <2>1. i + 1 < j + 1 OBVIOUS
  <2> QED BY <1>1, <1>3, <2>1
<1>6. OrderInv(Tail(q), y) BY <1>4, <1>5 DEF OrderInv
<1>7. ~InQueue(Tail(q), "INVITE", Head(q).cid) BY <1>1, <1>3 DEF InQueue
<1>8. Head(q).type \notin Provisional => ~InQueue(Tail(q), "RINGING", Head(q).cid)
  BY <1>1, <1>3 DEF InQueue
<1> QED BY <1>6, <1>7, <1>8


\* A context whose INVITE is still queued was never in a dialog.
LEMMA InviteStage ==
  ASSUME LifeInv'
  PROVE  \A d : InQueue(evq', "INVITE", d) =>
           ctx'[d].stage \in {"incoming", "refused", "failed", "released"}
<1>1. \A i \in 1 .. Len(evq') : EventInv(evq'[i], call'[evq'[i].cid], ctx'[evq'[i].cid])
  BY DEF LifeInv, QueueInv, Now, EventInv
<1> QED BY <1>1 DEF InQueue, EventInv


\* The invariant after a step, of the state record the variables become.
LEMMA BecomesInd ==
  ASSUME LifeInv', NEW t, Counted(t), Becomes(t), OrderInv(t.evq, t.ctx),
         \A d \in Calls :
           /\ /\ t.call[d].state \in Live \/ InQueue(t.evq, "INVITE", d)
              /\ t.ctx[d].stage \in {"closed", "released"}
              => InQueue(t.evq, "CLOSED", d) \/ InQueue(t.evq, "RELEASED", d)
           /\ InQueue(t.evq, "RINGING", d) => t.call[d].state \in Dialled
  PROVE  IndInv'
<1>1. t \in States BY DEF Counted
<1>2. Now' = t BY <1>1, BecomesNow
<1>3. /\ call' = t.call /\ ctx' = t.ctx /\ evq' = t.evq BY DEF Becomes
<1>4. \A d \in Calls : WaitInv(t.call[d], t.ctx[d], t.evq, d) BY DEF WaitInv, Counted, Dialled
<1>5. ReferenceInv(Now') BY <1>2 DEF Counted
<1>6. OrderInv(evq', ctx') BY <1>3
<1>7. \A d \in Calls : WaitInv(call'[d], ctx'[d], evq', d) BY <1>3, <1>4
<1>8. ReferenceInv(Now)' BY <1>5 DEF ReferenceInv, Targets, Now
<1>9. OrderInv(evq, ctx)' BY <1>6 DEF OrderInv
<1>10. (\A d \in Calls : WaitInv(call[d], ctx[d], evq, d))'
  BY <1>7 DEF WaitInv, InQueue, AckInv
<1> QED BY <1>8, <1>9, <1>10 DEF IndInv

\* What was answered or is over stays so.
Settles == \A d \in Calls : call[d].state \in After => call'[d].state \in After

\* A step of the user: the queue stays, and all calls go forth.
LEMMA ApiInd ==
  ASSUME IndInv, LifeInv', NEW t, Counted(t), Goes(Now, t, NoCall), Becomes(t)
  PROVE  IndInv' /\ Settles
<1>1. Now.call = call /\ Now.ctx = ctx /\ Now.evq = evq BY DEF Now
<1>2. t.evq = evq /\ call' = t.call BY <1>1 DEF Goes, Becomes
<1>3. \A d \in Calls : Forth(Now, t, d) BY DEF Goes
<1>4. evq \in Seq(Events) BY CountedNow, StateFields, <1>1 DEF Counted
<1>5. \A i \in 1 .. Len(evq) : evq[i].cid \in Calls BY <1>4 DEF Events
<1>6. \A c \in Calls : WaitInv(call[c], ctx[c], evq, c) BY DEF IndInv
<1>7. OrderInv(evq, t.ctx)
  <2>1. OrderInv(evq, ctx) BY DEF IndInv
  <2> QED BY <1>1, <1>3, <1>5, <2>1 DEF OrderInv, Forth
<1>8. ASSUME NEW d \in Calls
      PROVE  /\ /\ t.call[d].state \in Live \/ InQueue(t.evq, "INVITE", d)
                /\ t.ctx[d].stage \in {"closed", "released"}
                => InQueue(t.evq, "CLOSED", d) \/ InQueue(t.evq, "RELEASED", d)
             /\ InQueue(t.evq, "RINGING", d) => t.call[d].state \in Dialled
  <2>1. Forth(Now, t, d) /\ WaitInv(call[d], ctx[d], evq, d) BY <1>3, <1>6
  <2>2. InQueue(evq, "RINGING", d) => t.call[d].state \in Dialled
    BY <1>1, <2>1, NoCallIsNone DEF WaitInv, Goes, Dialled
  <2>3. InQueue(evq, "INVITE", d) => t.ctx[d].stage # "closed"
    BY <1>2, InviteStage DEF Becomes
  <2>4. ASSUME t.call[d].state \in Live \/ InQueue(evq, "INVITE", d),
               t.ctx[d].stage \in {"closed", "released"}
        PROVE  InQueue(evq, "CLOSED", d) \/ InQueue(evq, "RELEASED", d)
    BY <1>1, <2>1, <2>3, <2>4 DEF Forth, WaitInv
  <2> QED BY <1>2, <2>2, <2>4
<1>9. IndInv' BY <1>2, <1>7, <1>8, BecomesInd
<1>10. Settles BY <1>1, <1>2, <1>3 DEF Settles, Forth
<1> QED BY <1>9, <1>10


\* The handler of the head of the queue, whose event is for c: the other calls
\* go forth; a provisional response leaves c where such responses may come; and
\* c lives on in a closed dialog only if the event was not the end of it, and
\* it was there before or is added now.
LEMMA HandlerInd ==
  ASSUME IndInv, LifeInv', evq # << >>, NEW t, Counted(t), Becomes(t), t.evq = Popped.evq,
         NEW c, c = Head(evq).cid, NEW type, type = Head(evq).type,
         \A d \in Calls : d # c =>
           Forth(Popped, t, d) /\ (call[d].state \in Dialled => t.call[d].state \in Dialled),
         call[c].state \in After => t.call[c].state \in After,
         type \in Provisional /\ call[c].state \in Dialled => t.call[c].state \in Dialled,
         ctx[c].stage # "none" => t.ctx[c].stage # "none",
         ctx[c].stage # "none" /\ t.ctx[c].stage \in {"calling", "early"} =>
           ctx[c].stage \in {"calling", "early"},
         t.call[c].state \in Live /\ t.ctx[c].stage \in {"closed", "released"} =>
           /\ type \notin {"CLOSED", "RELEASED"}
           /\ ctx[c].stage = t.ctx[c].stage
           /\ call[c].state \in Live \/ type = "INVITE"
  PROVE  IndInv' /\ Settles
<1>1. Popped.call = call /\ Popped.ctx = ctx /\ Popped.evq = Tail(evq) BY DEF Popped, Now
<1>2. /\ t.evq = Tail(evq) /\ evq' = Tail(evq) /\ call' = t.call /\ ctx' = t.ctx
  BY <1>1 DEF Becomes
<1>3. evq \in Seq(Events) BY CountedNow, StateFields DEF Counted, Now
<1>4. \A d \in Calls : WaitInv(call[d], ctx[d], evq, d) BY DEF IndInv
<1>5. \A ty, d : InQueue(evq, ty, d) <=> (type = ty /\ c = d) \/ InQueue(Tail(evq), ty, d)
  BY <1>3, HeadOrTail
<1>6. /\ \A d \in Calls : ctx[d].stage # "none" => t.ctx[d].stage # "none"
      /\ \A d \in Calls : ctx[d].stage # "none" /\ t.ctx[d].stage \in {"calling", "early"} =>
           ctx[d].stage \in {"calling", "early"}
  BY <1>1 DEF Forth
<1>7. /\ OrderInv(Tail(evq), t.ctx)
      /\ ~InQueue(Tail(evq), "INVITE", c)
      /\ type \notin Provisional => ~InQueue(Tail(evq), "RINGING", c)
  BY <1>3, <1>6, OrderPopped DEF IndInv
<1>8. \A d : InQueue(Tail(evq), "INVITE", d) => t.ctx[d].stage # "closed"
  BY <1>2, InviteStage
<1>9. ASSUME NEW d \in Calls
      PROVE  /\ /\ t.call[d].state \in Live \/ InQueue(t.evq, "INVITE", d)
                /\ t.ctx[d].stage \in {"closed", "released"}
                => InQueue(t.evq, "CLOSED", d) \/ InQueue(t.evq, "RELEASED", d)
             /\ InQueue(t.evq, "RINGING", d) => t.call[d].state \in Dialled
  <2>1. WaitInv(call[d], ctx[d], evq, d) BY <1>4
  <2>2. CASE d = c
    <3>1. ASSUME t.call[c].state \in Live, t.ctx[c].stage \in {"closed", "released"}
          PROVE  InQueue(Tail(evq), "CLOSED", c) \/ InQueue(Tail(evq), "RELEASED", c)
      <4>1. call[c].state \in Live \/ InQueue(evq, "INVITE", c) BY <1>5, <3>1
      <4>2. InQueue(evq, "CLOSED", c) \/ InQueue(evq, "RELEASED", c)
        BY <2>1, <2>2, <3>1, <4>1 DEF WaitInv
      <4> QED BY <1>5, <3>1, <4>2
    <3>2. ASSUME InQueue(Tail(evq), "RINGING", c) PROVE t.call[c].state \in Dialled
      <4>1. type \in Provisional /\ InQueue(evq, "RINGING", c) BY <1>5, <1>7, <3>2
      <4>2. call[c].state \in Dialled BY <2>1, <2>2, <4>1 DEF WaitInv, Dialled
      <4> QED BY <4>1, <4>2
    <3> QED BY <1>2, <1>7, <2>2, <3>1, <3>2
  <2>3. CASE d # c
    <3>1. \A ty : InQueue(evq, ty, d) <=> InQueue(Tail(evq), ty, d) BY <1>5, <2>3
    <3>2. Forth(Popped, t, d) /\ (call[d].state \in Dialled => t.call[d].state \in Dialled)
      BY <2>3
    <3>3. ASSUME t.call[d].state \in Live \/ InQueue(Tail(evq), "INVITE", d),
                 t.ctx[d].stage \in {"closed", "released"}
          PROVE  InQueue(Tail(evq), "CLOSED", d) \/ InQueue(Tail(evq), "RELEASED", d)
      BY <1>1, <1>8, <2>1, <3>1, <3>2, <3>3 DEF Forth, WaitInv
    <3>4. InQueue(Tail(evq), "RINGING", d) => t.call[d].state \in Dialled
      BY <2>1, <3>1, <3>2 DEF WaitInv, Dialled
    <3> QED BY <1>2, <3>3, <3>4
  <2> QED BY <2>2, <2>3
<1>10. IndInv' BY <1>2, <1>7, <1>9, BecomesInd
<1>11. Settles BY <1>1, <1>2 DEF Settles, Forth
<1> QED BY <1>10, <1>11

\* The handlers of all events but the INVITE.
LEMMA GoesInd ==
  ASSUME IndInv, LifeInv', evq # << >>, NEW t, Counted(t), Becomes(t),
         NEW c \in Calls, c = Head(evq).cid, NEW type, type = Head(evq).type,
         Goes(Popped, t, c), type \in Provisional => Goes(Popped, t, NoCall),
         type \in {"CLOSED", "RELEASED"} => t.call[c].state \notin Live
  PROVE  IndInv' /\ Settles
<1>1. Popped.call = call /\ Popped.ctx = ctx /\ NoCall \notin Calls
  BY NoCallIsNone DEF Popped, Now
<1>2. /\ t.evq = Popped.evq /\ \A d \in Calls : Forth(Popped, t, d)
      /\ \A d \in Calls : d # c /\ call[d].state \in Dialled => t.call[d].state \in Dialled
  BY <1>1 DEF Goes
<1>3. type \in Provisional /\ call[c].state \in Dialled => t.call[c].state \in Dialled
  BY <1>1 DEF Goes
<1>4. /\ call[c].state \in After => t.call[c].state \in After
      /\ ctx[c].stage # "none" => t.ctx[c].stage # "none"
      /\ ctx[c].stage # "none" /\ t.ctx[c].stage \in {"calling", "early"} =>
           ctx[c].stage \in {"calling", "early"}
      /\ t.call[c].state \in Live /\ t.ctx[c].stage \in {"closed", "released"} =>
           call[c].state \in Live /\ ctx[c].stage = t.ctx[c].stage
  BY <1>1, <1>2 DEF Forth
<1> QED BY <1>2, <1>3, <1>4, HandlerInd


-----------------------------------------------------------------------------
(***************************************************************************)
(* The steps                                                               *)
(***************************************************************************)

\* What the head of the queue says of its context and its call.
LEMMA HeadInd ==
  ASSUME IndInv, evq # << >>, NEW e, e = Head(evq)
  PROVE  /\ e \in Events /\ e.cid \in Calls
         /\ EventInv(e, call[e.cid], ctx[e.cid])
         /\ e.type = "INVITE" =>
              \A i \in 1 .. Len(Tail(evq)) : Tail(evq)[i].cid = e.cid => Tail(evq)[i].type # "INVITE"
         /\ ctx[e.cid].stage # "none"
         /\ ctx[e.cid].stage \in {"calling", "early"} => e.type \in Provisional
         /\ e.type = "RINGING" => call[e.cid].state \in Dialled
<1>1. evq \in Seq(Events) BY CountedNow, StateFields DEF Counted, Now
<1>2. /\ e \in Events /\ e.cid \in Calls /\ e = evq[1] /\ 1 \in 1 .. Len(evq)
      /\ e.type = "RINGING" => InQueue(evq, "RINGING", e.cid)
  BY <1>1, HeadOrTail
<1>3. /\ EventInv(e, call[e.cid], ctx[e.cid])
      /\ e.type = "INVITE" =>
           \A i \in 1 .. Len(Tail(evq)) : Tail(evq)[i].cid = e.cid => Tail(evq)[i].type # "INVITE"
  BY PoppedWhole DEF IndInv
<1>4. /\ ctx[e.cid].stage # "none"
      /\ ctx[e.cid].stage \in {"calling", "early"} => e.type \in Provisional
  BY <1>2 DEF IndInv, OrderInv
<1>5. e.type = "RINGING" => call[e.cid].state \in Dialled
  BY <1>2 DEF IndInv, WaitInv, Dialled
<1> QED BY <1>2, <1>3, <1>4, <1>5

LEMMA IterateInd ==
  ASSUME "srtp" \notin Features, IndInv, LifeInv', Iterate
  PROVE  IndInv' /\ Settles
<1> DEFINE e == Head(evq)
           c == e.cid
           n == NextCall
<1>1. evq # << >> BY DEF Iterate, HandleInvite, HandleProceeding, HandleRinging,
        HandleAnswered, HandleFailure, HandleClosed, HandleReinvite, HandleAck,
        HandleRefer, HandleReleased, Next1
<1>2. Whole(Popped) /\ Counted(Popped) /\ Popped \in States
  BY <1>1, CountedNow DEF Counted
<1>3. /\ e \in Events /\ c \in Calls /\ EventInv(e, call[c], ctx[c])
      /\ e.type = "INVITE" =>
           \A i \in 1 .. Len(Tail(evq)) : Tail(evq)[i].cid = c => Tail(evq)[i].type # "INVITE"
      /\ ctx[c].stage # "none"
      /\ ctx[c].stage \in {"calling", "early"} => e.type \in Provisional
      /\ e.type = "RINGING" => call[c].state \in Dialled
  BY <1>1, HeadInd
<1>4. e.type # "FAILURE" => e.arg \in Descriptions BY <1>3 DEF Events
<1>5. Popped.call = call /\ Popped.ctx = ctx /\ Popped.evq = Tail(evq)
  BY DEF Popped, Now
<1>6. n \in Calls \cup {NoCall} /\ (n # NoCall => Fresh(Popped, n)) BY NextCallFresh
<1>7. ASSUME NEW t, Counted(t), Becomes(t), Goes(Popped, t, c), e.type \notin Provisional,
             e.type \in {"CLOSED", "RELEASED"} => t.call[c].state \notin Live
      PROVE  IndInv' /\ Settles
  BY <1>1, <1>3, <1>7, GoesInd
<1>8. ASSUME NEW t, Counted(t), Becomes(t), Goes(Popped, t, NoCall),
             e.type \in {"CLOSED", "RELEASED"} => t.call[c].state \notin Live
      PROVE  IndInv' /\ Settles
  BY <1>1, <1>3, <1>8, GoesInd, GoesAny
<1> HIDE DEF n, e, c
<1>10. CASE HandleInvite
  <2>1. e.type = "INVITE" BY <1>10 DEF HandleInvite, Next1, e
  <2>2. Announced(Popped, c) BY <1>3, <1>5, <2>1 DEF Announced, EventInv, c
  <2>3. PICK refuse \in {"no", "moved", "busy"}, reaction \in {"none", "accept", "terminate"} :
          Becomes(call_received(Popped, c, e.arg, refuse, reaction))
    BY <1>10 DEF HandleInvite, e, c
  <2> DEFINE t == call_received(Popped, c, e.arg, refuse, reaction)
  <2>4. Counted(t) /\ Enters(Popped, t, c)
    BY <1>2, <1>3, <1>4, <2>1, <2>2, ReceivedCounted
  <2>5. Becomes(t) BY <2>3
  <2> HIDE DEF t
  <2>6. call[c].state = "Idle" /\ "Idle" \notin After /\ "INVITE" \notin Provisional
    BY <1>5, <2>2 DEF Announced, After, Answered, Settled, Live, Ended, Outgoing, Incoming,
                      Provisional
  <2> QED BY <1>1, <1>5, <2>1, <2>4, <2>5, <2>6, HandlerInd DEF Enters, e, c
<1>11. CASE HandleProceeding
  <2>1. e.type = "PROCEEDING" BY <1>11 DEF HandleProceeding, Next1, e
  <2> DEFINE t == sal_call_proceeding(Popped, c)
  <2>2. Counted(t) /\ Goes(Popped, t, NoCall) BY <1>2, <1>3, ProceedingCounted
  <2>3. Becomes(t) BY <1>11 DEF HandleProceeding, e, c
  <2> HIDE DEF t
  <2> QED BY <1>8, <2>1, <2>2, <2>3
<1>12. CASE HandleRinging
  <2>1. e.type = "RINGING" BY <1>12 DEF HandleRinging, Next1, e
  <2> DEFINE t == sal_call_ringing(Popped, c, e.arg)
  <2>2. Counted(t) /\ Goes(Popped, t, NoCall)
    BY <1>2, <1>3, <1>4, <1>5, <2>1, RingingCounted
  <2>3. Becomes(t) BY <1>12 DEF HandleRinging, e, c
  <2> HIDE DEF t
  <2> QED BY <1>8, <2>1, <2>2, <2>3
<1>13. CASE HandleAnswered
  <2>1. e.type = "ANSWERED" BY <1>13 DEF HandleAnswered, Next1, e
  <2> DEFINE t == sal_call_accepted(Popped, c, e.arg, n)
  <2>2. Counted(t) /\ Goes(Popped, t, c)
    BY <1>2, <1>3, <1>4, <1>6, <2>1, AcceptedCounted
  <2>3. Becomes(t) BY <1>13 DEF HandleAnswered, e, c, n
  <2> HIDE DEF t
  <2> QED BY <1>7, <2>1, <2>2, <2>3 DEF Provisional
<1>14. CASE HandleFailure
  <2>1. e.type = "FAILURE" BY <1>14 DEF HandleFailure, Next1, e
  <2> DEFINE t == sal_call_failure(Popped, c, e.arg)
  <2>2. Counted(t) /\ Goes(Popped, t, NoCall) BY <1>2, <1>3, FailureCounted
  <2>3. Becomes(t) BY <1>14 DEF HandleFailure, e, c
  <2> HIDE DEF t
  <2> QED BY <1>8, <2>1, <2>2, <2>3
<1>15. CASE HandleClosed
  <2> DEFINE t == sal_call_terminated(Popped, c)
  <2>1. /\ Counted(t) /\ Goes(Popped, t, NoCall)
        /\ Popped.call[c].op => t.call[c].state \in Ended
    BY <1>2, <1>3, TerminatedCounted
  <2>2. Becomes(t) BY <1>15 DEF HandleClosed, e, c
  <2>3. ~Popped.call[c].op => t = Popped BY DEF sal_call_terminated
  <2> HIDE DEF t
  <2>4. t.call[c].state \notin Live
    <3>1. Live \cap Ended = {} BY DEF Live, Ended, Outgoing, Incoming
    <3>2. Popped.call[c].op \/ Popped.call[c].state \notin Live
      BY <1>2, <1>3 DEF Counted, ReferenceInv
    <3> QED BY <2>1, <2>3, <3>1, <3>2
  <2> QED BY <1>8, <2>1, <2>2, <2>4
<1>16. CASE HandleReinvite
  <2>1. e.type = "REINVITE" BY <1>16 DEF HandleReinvite, Next1, e
  <2>2. PICK reaction \in {"accept", "defer"} :
          Becomes(handle_reinvite(Popped, c, e.arg, reaction))
    BY <1>16 DEF HandleReinvite, e, c
  <2> DEFINE t == handle_reinvite(Popped, c, e.arg, reaction)
  <2>3. Still(Popped, t) BY <1>2, <1>3, <1>4, <2>1, ReinviteStill
  <2>4. Becomes(t) BY <2>2
  <2> HIDE DEF t
  <2>5. Counted(t) /\ Goes(Popped, t, NoCall) BY <1>2, <2>3, StillCounted
  <2> QED BY <1>8, <2>1, <2>4, <2>5
<1>17. CASE HandleAck
  <2>1. e.type = "ACK" BY <1>17 DEF HandleAck, Next1, e
  <2> DEFINE t == handle_ack(Popped, c, e.arg)
  <2>2. Popped.ctx[c].stage \notin {"calling", "early"} BY <1>3, <1>5, <2>1 DEF Provisional
  <2>3. Counted(t) /\ Goes(Popped, t, c) BY <1>2, <1>3, <1>4, <2>1, <2>2, AckCounted
  <2>4. Becomes(t) BY <1>17 DEF HandleAck, e, c
  <2> HIDE DEF t
  <2> QED BY <1>7, <2>1, <2>3, <2>4 DEF Provisional
<1>18. CASE HandleRefer
  <2>1. e.type = "REFER" BY <1>18 DEF HandleRefer, Next1, e
  <2> DEFINE t == refer_received(Popped, c, n)
  <2>2. Counted(t) /\ Goes(Popped, t, c) BY <1>2, <1>3, <1>6, ReferCounted
  <2>3. Becomes(t) BY <1>18 DEF HandleRefer, e, c, n
  <2> HIDE DEF t
  <2> QED BY <1>7, <2>1, <2>2, <2>3 DEF Provisional
<1>19. CASE HandleReleased
  <2> DEFINE t == call_released(Popped, c)
  <2>1. /\ Counted(t) /\ Goes(Popped, t, NoCall)
        /\ Popped.call[c].op => t.call[c].state = "Released"
    BY <1>2, <1>3, ReleasedCounted
  <2>2. Becomes(t) BY <1>19 DEF HandleReleased, e, c
  <2>3. ~Popped.call[c].op => t = Popped BY DEF call_released
  <2> HIDE DEF t
  <2>4. t.call[c].state \notin Live
    <3>1. "Released" \notin Live BY DEF Live, Outgoing, Incoming
    <3>2. Popped.call[c].op \/ Popped.call[c].state \notin Live
      BY <1>2, <1>3 DEF Counted, ReferenceInv
    <3> QED BY <2>1, <2>3, <3>1, <3>2
  <2> QED BY <1>8, <2>1, <2>2, <2>4
<1> QED BY <1>10, <1>11, <1>12, <1>13, <1>14, <1>15, <1>16, <1>17, <1>18, <1>19 DEF Iterate


LEMMA InviteInd ==
  ASSUME IndInv, LifeInv', Invite
  PROVE  IndInv' /\ Settles
<1>1. Counted(Now) BY CountedNow
<1>2. NextCall \in Calls /\ Fresh(Now, NextCall) BY NextCallFresh DEF Invite
<1>3. PICK ping \in BOOLEAN, sent \in BOOLEAN :
        Becomes(linphone_core_invite_address_with_params(Now, NextCall, NoCall, ping, sent))
  BY DEF Invite
<1> DEFINE n == NextCall
           r == NoCall
           t == linphone_core_invite_address_with_params(Now, n, r, ping, sent)
<1>4. /\ r \in Calls \cup {NoCall} /\ r \notin Calls /\ r # n /\ n \in Calls /\ Fresh(Now, n)
  BY <1>2, NoCallIsNone
<1>5. Becomes(t) BY <1>3
<1> HIDE DEF n, r
<1>6. Counted(t) /\ Goes(Now, t, NoCall) BY <1>1, <1>4, InviteCounted
<1> HIDE DEF t
<1> QED BY <1>5, <1>6, ApiInd

LEMMA ApplicationInd ==
  ASSUME IndInv, LifeInv', NEW c \in Calls, Application(c)
  PROVE  IndInv' /\ Settles
<1>1. /\ Whole(Now) /\ Counted(Now) /\ Now \in States
      /\ Now.call = call /\ Now.calls = calls /\ Now.ctx = ctx
  BY CountedNow DEF Counted, Now
<1>2. ASSUME NEW t, Still(Now, t), Becomes(t) PROVE IndInv' /\ Settles
  BY <1>1, <1>2, StillCounted, ApiInd
<1>3. CASE PingOver(c)
  <2>1. PICK sent \in BOOLEAN : Becomes(linphone_core_start_invite(Now, c, sent))
    BY <1>3 DEF PingOver
  <2> DEFINE t == linphone_core_start_invite(Now, c, sent)
  <2>2. call[c].state = "OutgoingInit" /\ ctx[c].stage = "none"
    BY <1>1, <1>3 DEF PingOver, Whole, CallInv
  <2>3. Counted(t) /\ Goes(Now, t, NoCall) BY <1>1, <2>2, StartInviteCounted
  <2>4. Becomes(t) BY <2>1
  <2> HIDE DEF t
  <2> QED BY <2>3, <2>4, ApiInd
<1>4. CASE Accept(c)
  <2> DEFINE t == linphone_core_accept_call(Now, c)
  <2>1. Counted(t) /\ Goes(Now, t, NoCall) BY <1>1, <1>4, AcceptCounted DEF Accept
  <2>2. Becomes(t) BY <1>4 DEF Accept
  <2> HIDE DEF t
  <2> QED BY <2>1, <2>2, ApiInd
<1>5. CASE Terminate(c)
  <2> DEFINE t == linphone_core_terminate_call(Now, c)
  <2>1. call[c].state \in Live BY <1>1, <1>5 DEF Terminate, Counted
  <2>2. Counted(t) /\ Goes(Now, t, NoCall) BY <1>1, <2>1, EndCounted
  <2>3. Becomes(t) BY <1>5 DEF Terminate
  <2> HIDE DEF t
  <2> QED BY <2>2, <2>3, ApiInd
<1>6. CASE linphone_core_redirect_call(c)
  <2> DEFINE declined == Quiet(Signal(Now, c, eXosip_call_refuse(Now.ctx[c])))
             t == linphone_call_set_state(linphone_call_stop_media_streams(declined, c),
                                          c, "End")
  <2>1. call[c].state \in Incoming BY <1>6 DEF linphone_core_redirect_call, Incoming
  <2>2. Counted(t) /\ Goes(Now, t, NoCall) BY <1>1, <2>1, RedirectCounted
  <2>3. Becomes(t) BY <1>1, <1>6 DEF linphone_core_redirect_call
  <2> HIDE DEF t
  <2> QED BY <2>2, <2>3, ApiInd
<1>7. CASE Pause(c)
  <2>1. Still(Now, linphone_core_pause_call(Now, c)) BY <1>1, PauseStill
  <2> QED BY <1>2, <1>7, <2>1 DEF Pause
<1>8. CASE Resume(c)
  <2>1. Still(Now, linphone_core_resume_call(Now, c)) BY <1>1, ResumeStill
  <2> QED BY <1>2, <1>8, <2>1 DEF Resume
<1>9. CASE Update(c)
  <2> DEFINE local == SetLocal(Now, c, "SendRecv")
  <2>1. Still(Now, local) /\ local \in States BY <1>1, SetLocalStill, StillSteady DEF Dirs
  <2>2. Becomes(sal_call_update(local, c)) BY <1>9 DEF Update
  <2> HIDE DEF local
  <2>3. Still(Now, sal_call_update(local, c)) BY <2>1, CallUpdateStill, StillTwice
  <2> QED BY <1>2, <2>2, <2>3
<1>10. CASE AcceptUpdate(c)
  <2>1. Still(Now, linphone_core_accept_call_update(Now, c)) BY <1>1, AcceptCallUpdateStill
  <2> QED BY <1>2, <1>10, <2>1 DEF AcceptUpdate
<1> QED BY <1>3, <1>4, <1>5, <1>6, <1>7, <1>8, <1>9, <1>10 DEF Application


\* The eXosip thread moves the context of c: the calls are as they were.
LEMMA NetCounted ==
  ASSUME IndInv, LifeInv', NEW c \in Calls, NEW x \in Contexts, AckInv(x),
         x.stage \in {"calling", "early"} => ctx[c].stage \in {"calling", "early"},
         ctx' = [ctx EXCEPT ![c] = x], UNCHANGED <<calls, current, ring, friends, call>>
  PROVE  /\ Counted(Now') /\ Becomes(Now')
         /\ Now'.evq = evq' /\ Now'.call = call /\ Now'.ctx = ctx'
         /\ ctx'[c] = x /\ \A d \in Calls : d # c => ctx'[d] = ctx[d]
<1> DEFINE t == Now'
<1>1. /\ t.calls = calls /\ t.call = call /\ t.ctx = ctx' /\ t.evq = evq'
      /\ t.friends = friends /\ Becomes(t)
  BY DEF Now, Becomes
<1>2. t \in States BY DEF LifeInv, TypeOK
<1> HIDE DEF t
<1>3. /\ Counted(Now) /\ Now.calls = calls /\ Now.call = call /\ Now.ctx = ctx
      /\ Now.friends = friends
  BY CountedNow DEF Now
<1>4. ctx'[c] = x /\ \A d \in Calls : d # c => ctx'[d] = ctx[d]
  BY <1>3, StateFields DEF Counted
<1>5. \A d \in Calls : t.ctx[d].stage \in {"calling", "early"} => t.call[d].state \in Dialled
  BY <1>1, <1>3, <1>4 DEF Counted
<1>6. \A d \in Calls : AckInv(t.ctx[d]) BY <1>1, <1>3, <1>4 DEF Counted
<1>7. \A d : Targets(t, d) = Targets(Now, d) BY <1>1, <1>3 DEF Targets
<1>8. ReferenceInv(t) BY <1>1, <1>3, <1>7 DEF ReferenceInv, Counted
<1>9. Counted(t) BY <1>1, <1>2, <1>3, <1>5, <1>6, <1>8 DEF Counted
<1> QED BY <1>1, <1>4, <1>9 DEF t

LEMMA MoveInd ==
  ASSUME IndInv, LifeInv', NEW c \in Calls, NEW x \in Contexts, AckInv(x),
         x.stage \notin {"none", "calling", "early", "closed", "released"}, Move(c, x)
  PROVE  IndInv' /\ Settles
<1> DEFINE t == Now'
<1>1. /\ ctx' = [ctx EXCEPT ![c] = x] /\ evq' = evq
      /\ UNCHANGED <<calls, current, ring, friends, call>>
  BY DEF Move
<1>2. /\ Counted(t) /\ Becomes(t) /\ t.evq = evq /\ t.call = call /\ t.ctx = ctx'
      /\ ctx'[c] = x /\ \A d \in Calls : d # c => ctx'[d] = ctx[d]
  BY <1>1, NetCounted
<1> HIDE DEF t
<1>3. evq \in Seq(Events) BY CountedNow, StateFields DEF Counted, Now
<1>4. \A i \in 1 .. Len(evq) : evq[i].cid \in Calls BY <1>3 DEF Events
<1>5. \A d \in Calls : WaitInv(call[d], ctx[d], evq, d) BY DEF IndInv
<1>6. OrderInv(evq, ctx') BY <1>2, <1>4 DEF IndInv, OrderInv
<1>7. \A d \in Calls :
        /\ /\ t.call[d].state \in Live \/ InQueue(t.evq, "INVITE", d)
           /\ t.ctx[d].stage \in {"closed", "released"}
           => InQueue(t.evq, "CLOSED", d) \/ InQueue(t.evq, "RELEASED", d)
        /\ InQueue(t.evq, "RINGING", d) => t.call[d].state \in Dialled
  BY <1>2, <1>5 DEF WaitInv, Dialled
<1>8. IndInv' BY <1>2, <1>6, <1>7, BecomesInd
<1> QED BY <1>1, <1>8 DEF Settles

\* The new event is the last of its context: a provisional response only before
\* the final one, an INVITE only of a new context, and the end of a dialog is
\* reported when it happens.
LEMMA ReportInd ==
  ASSUME IndInv, LifeInv', NEW c \in Calls, NEW x \in Contexts, AckInv(x),
         NEW type, NEW arg, Event(type, c, arg) \in Events, Report(c, x, type, arg),
         x.stage # "none",
         x.stage \in {"calling", "early"} =>
           ctx[c].stage \in {"calling", "early"} /\ type \in Provisional,
         x.stage \in {"closed", "released"} =>
           ctx[c].stage \in {"closed", "released"} \/ type \in {"CLOSED", "RELEASED"},
         type = "RINGING" => ctx[c].stage \in {"calling", "early"},
         type = "INVITE" => ctx[c].stage = "none"
  PROVE  IndInv' /\ Settles
<1> DEFINE t == Now'
           e == Event(type, c, arg)
           q == Append(evq, e)
<1>1. /\ ctx' = [ctx EXCEPT ![c] = x] /\ evq' = q
      /\ UNCHANGED <<calls, current, ring, friends, call>>
  BY DEF Report
<1>2. /\ Counted(t) /\ Becomes(t) /\ t.evq = q /\ t.call = call /\ t.ctx = ctx'
      /\ ctx'[c] = x /\ \A d \in Calls : d # c => ctx'[d] = ctx[d]
  BY <1>1, NetCounted
<1>3. evq \in Seq(Events) BY CountedNow, StateFields DEF Counted, Now
<1>4. e \in Events /\ e.type = type /\ e.cid = c BY DEF Event
<1> HIDE DEF t, e
<1>5. /\ Len(q) = Len(evq) + 1 /\ Len(evq) \in Nat
      /\ q[Len(evq) + 1] = e /\ \A i \in 1 .. Len(evq) : q[i] = evq[i]
  BY <1>3, <1>4
<1> HIDE DEF q
<1>6. \A i \in 1 .. Len(evq) : evq[i].cid \in Calls BY <1>3 DEF Events
<1>7. \A d \in Calls : WaitInv(call[d], ctx[d], evq, d) BY DEF IndInv
<1>8. \A ty, d : InQueue(q, ty, d) <=> InQueue(evq, ty, d) \/ (ty = type /\ d = c)
  <2>1. ASSUME NEW ty, NEW d, InQueue(q, ty, d), ~InQueue(evq, ty, d)
        PROVE  ty = type /\ d = c
    <3>1. PICK i \in 1 .. Len(q) : q[i].type = ty /\ q[i].cid = d BY <2>1 DEF InQueue
    <3>2. i \notin 1 .. Len(evq) BY <1>5, <2>1, <3>1 DEF InQueue
    <3>3. i = Len(evq) + 1 BY <1>5, <3>2
    <3> QED BY <1>4, <1>5, <3>1, <3>3
  <2>2. ASSUME NEW ty, NEW d, InQueue(evq, ty, d) PROVE InQueue(q, ty, d)
    <3>1. PICK i \in 1 .. Len(evq) : evq[i].type = ty /\ evq[i].cid = d BY <2>2 DEF InQueue
    <3>2. i \in 1 .. Len(q) /\ q[i] = evq[i] BY <1>5
    <3> QED BY <3>1, <3>2 DEF InQueue
  <2>3. InQueue(q, type, c)
    <3>1. Len(evq) + 1 \in 1 .. Len(q) BY <1>5
    <3> QED BY <1>4, <1>5, <3>1 DEF InQueue
  <2> QED BY <2>1, <2>2, <2>3
<1>9. OrderInv(q, ctx')
  <2>1. /\ \A i \in 1 .. Len(evq) :
             /\ ctx[evq[i].cid].stage # "none"
             /\ ctx[evq[i].cid].stage \in {"calling", "early"} => evq[i].type \in Provisional
        /\ \A i, j \in 1 .. Len(evq) : evq[i].cid = evq[j].cid /\ i < j =>
             evq[j].type # "INVITE" /\ (evq[j].type = "RINGING" => evq[i].type \in Provisional)
    BY DEF IndInv, OrderInv
  <2>2. \A i \in 1 .. Len(evq) :
          /\ ctx'[evq[i].cid].stage # "none"
          /\ ctx'[evq[i].cid].stage \in {"calling", "early"} => evq[i].type \in Provisional
    BY <1>2, <1>6, <2>1
  <2>3. \A i \in 1 .. Len(q) :
          /\ ctx'[q[i].cid].stage # "none"
          /\ ctx'[q[i].cid].stage \in {"calling", "early"} => q[i].type \in Provisional
    <3>1. \A i \in 1 .. Len(q) : i \in 1 .. Len(evq) \/ i = Len(evq) + 1 BY <1>5
    <3> QED BY <1>2, <1>4, <1>5, <2>2, <3>1
  <2>4. ASSUME NEW i \in 1 .. Len(q), NEW j \in 1 .. Len(q), q[i].cid = q[j].cid, i < j
        PROVE  /\ q[j].type # "INVITE"
               /\ q[j].type = "RINGING" => q[i].type \in Provisional
    <3>1. i \in 1 .. Len(evq) /\ q[i] = evq[i] BY <1>5, <2>4
    <3>2. CASE j \in 1 .. Len(evq) BY <1>5, <2>1, <2>4, <3>1, <3>2
    <3>3. CASE j \notin 1 .. Len(evq)
      <4>1. q[j] = e BY <1>5, <3>3
      <4> QED BY <1>4, <2>1, <2>4, <3>1, <4>1
    <3> QED BY <3>2, <3>3
  <2> QED BY <2>3, <2>4 DEF OrderInv
<1>10. ASSUME NEW d \in Calls
       PROVE  /\ /\ t.call[d].state \in Live \/ InQueue(q, "INVITE", d)
                 /\ t.ctx[d].stage \in {"closed", "released"}
                 => InQueue(q, "CLOSED", d) \/ InQueue(q, "RELEASED", d)
              /\ InQueue(q, "RINGING", d) => t.call[d].state \in Dialled
  <2>1. WaitInv(call[d], ctx[d], evq, d) BY <1>7
  <2>2. CASE d # c BY <1>2, <1>8, <2>1, <2>2 DEF WaitInv, Dialled
  <2>3. CASE d = c
    <3>1. ASSUME call[c].state \in Live \/ InQueue(q, "INVITE", c),
                 x.stage \in {"closed", "released"}
          PROVE  InQueue(q, "CLOSED", c) \/ InQueue(q, "RELEASED", c)
      BY <1>8, <2>1, <2>3, <3>1 DEF WaitInv
    <3>2. InQueue(q, "RINGING", c) => call[c].state \in Dialled
      BY <1>8, <2>1, <2>3 DEF WaitInv, Dialled
    <3> QED BY <1>2, <2>3, <3>1, <3>2
  <2> QED BY <2>2, <2>3
<1>11. IndInv' BY <1>2, <1>9, <1>10, BecomesInd
<1> QED BY <1>1, <1>11 DEF Settles


\* A report of the eXosip thread that does not move a context back.
LEMMA NetInd ==
  ASSUME IndInv, LifeInv', NEW c \in Calls, NEW y \in Contexts, AckInv(y),
         NEW type \in EventTypes \ {"INVITE", "RINGING"}, NEW arg,
         IF type = "FAILURE" THEN arg \in Failures ELSE arg \in Descriptions,
         y.stage \notin {"none", "calling", "early"}
           \/ (type = "PROCEEDING" /\ y.stage = "early" /\ ctx[c].stage = "calling"),
         y.stage \in {"closed", "released"} =>
           ctx[c].stage = y.stage \/ type \in {"CLOSED", "RELEASED"},
         Report(c, y, type, arg)
  PROVE  IndInv' /\ Settles
<1>1. Event(type, c, arg) \in Events BY EventTyped
<1>2. y.stage # "none" OBVIOUS
<1>3. y.stage \in {"calling", "early"} =>
        ctx[c].stage \in {"calling", "early"} /\ type \in Provisional
  BY DEF Provisional
<1> QED BY <1>1, <1>2, <1>3, ReportInd

\* The messages within a dialog, and the cancelling of an INVITE.
LEMMA DialogInd ==
  ASSUME IndInv, LifeInv', NEW c \in Calls,
         \/ PeerCancel(c) \/ PeerBye(c) \/ PeerRefuseReinvite(c) \/ PeerRefer(c)
         \/ \E md \in Answers : PeerAcceptReinvite(c, md) \/ PeerAck(c, md)
         \/ \E md \in Offers : PeerReinvite(c, md)
  PROVE  IndInv' /\ Settles
<1> DEFINE x == ctx[c]
<1>1. x \in Contexts /\ AckInv(x)
  BY CountedNow, StateFields DEF Counted, Now
<1>2. Answers \subseteq Descriptions /\ Offers \subseteq Descriptions /\ "None" \in Descriptions
  BY ConstantsAssumption DEF Descriptions
<1>3. /\ {"CLOSED", "FAILURE", "REFER", "ANSWERED", "ACK", "REINVITE"}
           \subseteq EventTypes \ {"INVITE", "RINGING"}
      /\ "Other" \in Failures
  BY DEF EventTypes, Failures
<1>4. CASE PeerCancel(c)
  <2> DEFINE y == eXosip_call_refuse(x)
  <2>1. y \in Contexts /\ AckInv(y)
    BY <1>1, EndingContext DEF Contexts, AckInv, eXosip_call_refuse
  <2>2. y.stage = "refused" BY <1>1, <1>4 DEF PeerCancel, eXosip_call_refuse, Contexts
  <2>3. Move(c, y) BY <1>4 DEF PeerCancel
  <2> HIDE DEF y
  <2> QED BY <2>1, <2>2, <2>3, MoveInd
<1>5. CASE PeerBye(c)
  <2> DEFINE y == eXosip_call_terminate(x, TRUE)
  <2>1. y \in Contexts BY <1>1, EndingContext
  <2>2. Report(c, y, "CLOSED", "None") /\ x.stage = "conf" BY <1>5 DEF PeerBye
  <2>3. y.stage = "closed" /\ y.ack = FALSE
    BY <1>1, <2>2 DEF eXosip_call_terminate, Contexts
  <2> HIDE DEF y, x
  <2>4. AckInv(y) BY <2>3 DEF AckInv
  <2> QED BY <1>2, <1>3, <2>1, <2>2, <2>3, <2>4, NetInd
<1>6. CASE PeerRefuseReinvite(c)
  <2> DEFINE y == [x EXCEPT !.re = "none"]
  <2>1. y \in Contexts /\ AckInv(y) BY <1>1 DEF Contexts, Stages, Descriptions, AckInv
  <2>2. y.stage = x.stage /\ x.stage \in {"conf", "closed"}
    BY <1>1, <1>6 DEF PeerRefuseReinvite, Contexts
  <2>3. Report(c, y, "FAILURE", "Other") BY <1>6 DEF PeerRefuseReinvite
  <2> HIDE DEF y
  <2> QED BY <1>3, <2>1, <2>2, <2>3, NetInd
<1>7. CASE PeerRefer(c)
  <2>1. Report(c, x, "REFER", "None") /\ x.stage = "conf" BY <1>7 DEF PeerRefer
  <2> QED BY <1>1, <1>2, <1>3, <2>1, NetInd
<1>8. ASSUME NEW md \in Answers, PeerAcceptReinvite(c, md)
      PROVE  IndInv' /\ Settles
  <2> DEFINE y == [x EXCEPT !.re = "none", !.told = x.offer]
  <2>1. y \in Contexts /\ AckInv(y) BY <1>1 DEF Contexts, Stages, Descriptions, AckInv
  <2>2. y.stage = "conf" BY <1>1, <1>8 DEF PeerAcceptReinvite, Contexts
  <2>3. Report(c, y, "ANSWERED", md) BY <1>8 DEF PeerAcceptReinvite
  <2> HIDE DEF y
  <2> QED BY <1>2, <1>3, <2>1, <2>2, <2>3, NetInd
<1>9. ASSUME NEW md \in Answers, PeerAck(c, md)
      PROVE  IndInv' /\ Settles
  <2> DEFINE y == [x EXCEPT !.ack = FALSE]
  <2>1. y \in Contexts /\ AckInv(y) BY <1>1 DEF Contexts, Stages, Descriptions, AckInv
  <2>2. y.stage = x.stage /\ x.stage \notin {"none", "calling", "early"}
    BY <1>1, <1>9 DEF PeerAck, Contexts, AckInv
  <2>3. Report(c, y, "ACK", md) BY <1>9 DEF PeerAck
  <2> HIDE DEF y
  <2> QED BY <1>2, <1>3, <2>1, <2>2, <2>3, NetInd
<1>10. ASSUME NEW md \in Offers, PeerReinvite(c, md)
       PROVE  IndInv' /\ Settles
  <2> DEFINE y == [x EXCEPT !.re = "in"]
  <2>1. y \in Contexts /\ AckInv(y) BY <1>1 DEF Contexts, Stages, Descriptions, AckInv
  <2>2. y.stage = "conf" BY <1>1, <1>10 DEF PeerReinvite, CanReinvite, Contexts
  <2>3. Report(c, y, "REINVITE", md) BY <1>10 DEF PeerReinvite
  <2> HIDE DEF y
  <2> QED BY <1>2, <1>3, <2>1, <2>2, <2>3, NetInd
<1> QED BY <1>4, <1>5, <1>6, <1>7, <1>8, <1>9, <1>10

\* The responses to the initial INVITE of either side, and the clean-up of
\* contexts.
LEMMA StagesInd ==
  ASSUME IndInv, LifeInv', NEW c \in Calls,
         \/ PeerTrying(c)
         \/ \E md \in Answers \cup {"None"} : PeerRinging(c, md)
         \/ \E md \in Answers : PeerAnswer(c, md)
         \/ \E failure \in Failures \ {"NoResponse"} : PeerRefuse(c, failure)
         \/ RefusalSent(c) \/ NoAnswer(c) \/ Release(c)
  PROVE  IndInv' /\ Settles
<1> DEFINE x == ctx[c]
<1>1. x \in Contexts /\ AckInv(x)
  BY CountedNow, StateFields DEF Counted, Now
<1>2. Answers \subseteq Descriptions /\ "None" \in Descriptions
  BY ConstantsAssumption DEF Descriptions
<1>3. /\ {"PROCEEDING", "ANSWERED", "FAILURE", "CLOSED", "RELEASED"}
           \subseteq EventTypes \ {"INVITE", "RINGING"}
      /\ "NoResponse" \in Failures /\ "RINGING" \in EventTypes
  BY DEF EventTypes, Failures
<1>4. CASE PeerTrying(c)
  <2> DEFINE y == [x EXCEPT !.stage = "early"]
  <2>1. x.stage = "calling" /\ Report(c, y, "PROCEEDING", "None") BY <1>4 DEF PeerTrying
  <2>2. y \in Contexts /\ AckInv(y)
    BY <1>1, <2>1 DEF Contexts, Stages, Descriptions, AckInv
  <2>3. y.stage = "early" BY <1>1 DEF Contexts
  <2> HIDE DEF y
  <2> QED BY <1>2, <1>3, <2>1, <2>2, <2>3, NetInd
<1>5. ASSUME NEW md \in Answers \cup {"None"}, PeerRinging(c, md)
      PROVE  IndInv' /\ Settles
  <2> DEFINE y == [x EXCEPT !.stage = "early"]
  <2>1. x.stage \in {"calling", "early"} /\ Report(c, y, "RINGING", md)
    BY <1>5 DEF PeerRinging
  <2>2. y \in Contexts /\ AckInv(y)
    BY <1>1, <2>1 DEF Contexts, Stages, Descriptions, AckInv
  <2>3. y.stage = "early" BY <1>1 DEF Contexts
  <2>4. Event("RINGING", c, md) \in Events BY <1>2, <1>3, EventTyped
  <2> HIDE DEF y
  <2> QED BY <2>1, <2>2, <2>3, <2>4, ReportInd DEF Provisional
<1>6. ASSUME NEW md \in Answers, PeerAnswer(c, md)
      PROVE  IndInv' /\ Settles
  <2> DEFINE y == [x EXCEPT !.stage = "conf", !.told = x.offer]
  <2>1. Report(c, y, "ANSWERED", md) BY <1>6 DEF PeerAnswer
  <2>2. y \in Contexts /\ AckInv(y) BY <1>1 DEF Contexts, Stages, Descriptions, AckInv
  <2>3. y.stage = "conf" BY <1>1 DEF Contexts
  <2> HIDE DEF y
  <2> QED BY <1>2, <1>3, <2>1, <2>2, <2>3, NetInd
<1>7. ASSUME NEW failure \in Failures \ {"NoResponse"}, PeerRefuse(c, failure)
      PROVE  IndInv' /\ Settles
  <2> DEFINE y == [x EXCEPT !.stage = "failed"]
  <2>1. Report(c, y, "FAILURE", failure) BY <1>7 DEF PeerRefuse
  <2>2. y \in Contexts /\ AckInv(y) BY <1>1 DEF Contexts, Stages, Descriptions, AckInv
  <2>3. y.stage = "failed" BY <1>1 DEF Contexts
  <2> HIDE DEF y
  <2> QED BY <1>3, <2>1, <2>2, <2>3, NetInd
<1>8. CASE RefusalSent(c)
  <2> DEFINE y == [x EXCEPT !.stage = "failed"]
  <2>1. Report(c, y, "CLOSED", "None") BY <1>8 DEF RefusalSent
  <2>2. y \in Contexts /\ AckInv(y) BY <1>1 DEF Contexts, Stages, Descriptions, AckInv
  <2>3. y.stage = "failed" BY <1>1 DEF Contexts
  <2> HIDE DEF y
  <2> QED BY <1>2, <1>3, <2>1, <2>2, <2>3, NetInd
<1>9. CASE NoAnswer(c)
  <2> DEFINE y == [x EXCEPT !.stage = "failed"]
  <2>1. Move(c, y) \/ Report(c, y, "FAILURE", "NoResponse") BY <1>9 DEF NoAnswer
  <2>2. y \in Contexts /\ AckInv(y) BY <1>1 DEF Contexts, Stages, Descriptions, AckInv
  <2>3. y.stage = "failed" BY <1>1 DEF Contexts
  <2> HIDE DEF y
  <2>4. CASE Move(c, y) BY <2>2, <2>3, <2>4, MoveInd
  <2>5. CASE Report(c, y, "FAILURE", "NoResponse") BY <1>3, <2>2, <2>3, <2>5, NetInd
  <2> QED BY <2>1, <2>4, <2>5
<1>10. CASE Release(c)
  <2> DEFINE y == [x EXCEPT !.stage = "released", !.re = "none"]
  <2>1. Report(c, y, "RELEASED", "None") BY <1>10 DEF Release
  <2>2. y \in Contexts /\ AckInv(y) BY <1>1 DEF Contexts, Stages, Descriptions, AckInv
  <2>3. y.stage = "released" BY <1>1 DEF Contexts
  <2> HIDE DEF y
  <2> QED BY <1>2, <1>3, <2>1, <2>2, <2>3, NetInd
<1> QED BY <1>4, <1>5, <1>6, <1>7, <1>8, <1>9, <1>10

LEMMA PeerInviteInd ==
  ASSUME IndInv, LifeInv', NEW md \in Offers, PeerInvite(md)
  PROVE  IndInv' /\ Settles
<1> DEFINE c == NextCall
           y == [NoContext EXCEPT !.stage = "incoming"]
<1>1. c \in Calls /\ Fresh(Now, c) BY NextCallFresh DEF PeerInvite
<1>2. ctx[c].stage = "none" BY <1>1 DEF Fresh, Now
<1>3. Report(c, y, "INVITE", md) BY DEF PeerInvite
<1>4. y \in Contexts /\ y.stage = "incoming" /\ AckInv(y)
  BY DEF NoContext, Contexts, Stages, Dirs, Descriptions, AckInv
<1> HIDE DEF y, c
<1>5. md \in Descriptions /\ "INVITE" \in EventTypes BY ConstantsAssumption DEF EventTypes
<1>6. Event("INVITE", c, md) \in Events BY <1>1, <1>5, EventTyped
<1> QED BY <1>1, <1>2, <1>3, <1>4, <1>6, ReportInd


\* Every step keeps the invariant, and what was answered or is over stays so.
LEMMA NextInd ==
  ASSUME "srtp" \notin Features, IndInv, [Next]_vars
  PROVE  IndInv' /\ Settles
<1>1. LifeInv' BY NextKeeps DEF IndInv
<1>2. CASE Invite BY <1>1, <1>2, InviteInd
<1>3. CASE Iterate BY <1>1, <1>3, IterateInd
<1>4. CASE \E md \in Offers : PeerInvite(md) BY <1>1, <1>4, PeerInviteInd
<1>5. ASSUME NEW c \in Calls,
             Application(c) \/ Peer(c) \/ RefusalSent(c) \/ NoAnswer(c) \/ Release(c)
      PROVE  IndInv' /\ Settles
  <2>1. CASE Application(c) BY <1>1, <2>1, ApplicationInd
  <2>2. CASE RefusalSent(c) \/ NoAnswer(c) \/ Release(c) BY <1>1, <2>2, StagesInd
  <2>3. CASE Peer(c)
    <3>1. CASE \/ PeerCancel(c) \/ PeerBye(c) \/ PeerRefuseReinvite(c) \/ PeerRefer(c)
               \/ \E md \in Answers : PeerAcceptReinvite(c, md) \/ PeerAck(c, md)
               \/ \E md \in Offers : PeerReinvite(c, md)
      BY <1>1, <3>1, DialogInd
    <3>2. CASE \/ PeerTrying(c)
               \/ \E md \in Answers \cup {"None"} : PeerRinging(c, md)
               \/ \E md \in Answers : PeerAnswer(c, md)
               \/ \E failure \in Failures \ {"NoResponse"} : PeerRefuse(c, failure)
      BY <1>1, <3>2, StagesInd
    <3> QED BY <2>3, <3>1, <3>2 DEF Peer
  <2> QED BY <1>5, <2>1, <2>2, <2>3
<1>6. CASE UNCHANGED vars
  <2>1. /\ calls' = calls /\ current' = current /\ ring' = ring /\ friends' = friends
        /\ call' = call /\ ctx' = ctx /\ evq' = evq
    BY <1>6 DEF vars
  <2> DEFINE t == Now
  <2>2. /\ Counted(t) /\ Becomes(t) /\ t.evq = evq /\ t.call = call /\ t.ctx = ctx
    BY <2>1, CountedNow DEF Becomes, Now
  <2> HIDE DEF t
  <2>3. /\ OrderInv(t.evq, t.ctx)
        /\ \A d \in Calls : WaitInv(t.call[d], t.ctx[d], t.evq, d)
    BY <2>2 DEF IndInv
  <2>4. \A d \in Calls :
          /\ /\ t.call[d].state \in Live \/ InQueue(t.evq, "INVITE", d)
             /\ t.ctx[d].stage \in {"closed", "released"}
             => InQueue(t.evq, "CLOSED", d) \/ InQueue(t.evq, "RELEASED", d)
          /\ InQueue(t.evq, "RINGING", d) => t.call[d].state \in Dialled
    BY <2>3 DEF WaitInv, Dialled
  <2>5. IndInv' BY <1>1, <2>2, <2>3, <2>4, BecomesInd
  <2> QED BY <2>1, <2>5 DEF Settles
<1> QED BY <1>2, <1>3, <1>4, <1>5, <1>6 DEF Next

LEMMA InitInd ==
  ASSUME Init
  PROVE  IndInv
<1>1. LifeInv BY InitWhole
<1>2. /\ calls = {} /\ evq = << >>
      /\ \A c \in Calls : call[c] = NewCall /\ ctx[c] = NoContext
  BY DEF Init
<1>3. /\ NewCall.state = "Idle" /\ NewCall.refcnt = 0 /\ NoContext.stage = "none"
      /\ NoContext.ack = FALSE
  BY DEF NewCall, NoContext
<1>4. ReferenceInv(Now)
  <2>1. Now.calls = {} /\ Now.call = call BY <1>2 DEF Now
  <2>2. \A c : Targets(Now, c) = {} BY <2>1 DEF Targets
  <2> HIDE DEF Now
  <2>3. \A c : Cardinality(Targets(Now, c)) = 0 BY <2>2, FS_EmptySet
  <2> QED BY <1>2, <1>3, <2>1, <2>3 DEF ReferenceInv
<1>5. OrderInv(evq, ctx) BY <1>2 DEF OrderInv
<1>6. \A c \in Calls : WaitInv(call[c], ctx[c], evq, c)
  BY <1>2, <1>3 DEF WaitInv, InQueue, AckInv, Live, Outgoing, Incoming
<1> QED BY <1>1, <1>4, <1>5, <1>6 DEF IndInv

-----------------------------------------------------------------------------
(***************************************************************************)
(* Theorems                                                                *)
(***************************************************************************)

\* The whole invariant of the core: to the life of the calls it adds the
\* references, the order of the queued events and what they wait for.
THEOREM WholeInvariance ==
  ASSUME "srtp" \notin Features
  PROVE  Spec => []IndInv
<1>1. Init => IndInv BY InitInd
<1>2. IndInv /\ [Next]_vars => IndInv' BY NextInd
<1> QED BY <1>1, <1>2, PTL DEF Spec

\* The reference count of a call is exact: one for its life, from its creation
\* to the release of its context, and one per listed call that a transfer of it
\* started.  Nothing is freed twice and nothing leaks, in whatever order the
\* target of a transfer and its referer end.
THEOREM ReferencesAreExact ==
  ASSUME "srtp" \notin Features
  PROVE  Spec => []ReferencesAreCounted
<1>1. IndInv => ReferencesAreCounted
  BY DEF IndInv, ReferenceInv, ReferencesAreCounted, Targets, Now
<1> QED BY <1>1, WholeInvariance, PTL

\* What the core still points to has not been freed, and a listed call still
\* has its SalOp: no handler dereferences what a release has taken away.
THEOREM NothingRetainedIsLost ==
  ASSUME "srtp" \notin Features
  PROVE  Spec => []NothingRetainedIsFreed
<1>1. IndInv => NothingRetainedIsFreed
  <2> SUFFICES ASSUME IndInv,
                      NEW c \in (calls \cup {call[d].referer : d \in calls} \cup {current})
                                  \ {NoCall}
               PROVE  call[c].refcnt > 0 /\ (c \in calls => call[c].op)
    BY DEF NothingRetainedIsFreed
  <2>1. /\ Counted(Now) /\ Now \in States /\ Now.calls = calls /\ Now.call = call
        /\ current \in calls \cup {NoCall}
    BY CountedNow DEF Counted, Now, IndInv, LifeInv, ListInv
  <2>2. calls \subseteq Calls /\ \A d \in Calls : call[d] \in CallRecords
    BY <2>1, StateFields
  <2>3. \A d \in Calls :
          /\ call[d].refcnt = (IF call[d].state \in {"Idle", "Released"} THEN 0 ELSE 1)
                              + Cardinality(Targets(Now, d))
          /\ d \in calls => call[d].op /\ call[d].state \in Live
    BY <2>1 DEF Counted, ReferenceInv
  <2>4. \A d \in Calls :
          /\ Cardinality(Targets(Now, d)) \in Nat
          /\ Cardinality(Targets(Now, d)) = 0 <=> Targets(Now, d) = {}
    BY <2>1, <2>2, TargetsCount
  <2>5. CASE c \in calls
    <3>1. {"Idle", "Released"} \cap Live = {} BY DEF Live, Outgoing, Incoming
    <3> QED BY <2>2, <2>3, <2>4, <2>5, <3>1
  <2>6. CASE c \notin calls
    <3>1. PICK d \in calls : c = call[d].referer BY <2>1, <2>6
    <3>2. c \in Calls BY <2>2, <3>1 DEF CallRecords
    <3>3. d \in Targets(Now, c) BY <2>1, <3>1 DEF Targets
    <3>4. Cardinality(Targets(Now, c)) # 0 BY <2>4, <3>2, <3>3
    <3> QED BY <2>3, <2>4, <2>6, <3>2, <3>4
  <2> QED BY <2>5, <2>6
<1> QED BY <1>1, WholeInvariance, PTL

\* While a call is listed, the friends were last told OnThePhone: every path
\* that adds a call tells them, and "Online" is only sent with the last one.
THEOREM FriendsAreTold ==
  ASSUME "srtp" \notin Features
  PROVE  Spec => []FriendsKnow
<1>1. IndInv => FriendsKnow BY DEF IndInv, ReferenceInv, FriendsKnow, Now
<1> QED BY <1>1, WholeInvariance, PTL

\* A REFER during a pause starts its transfer when the call becomes Paused: no
\* paused call is left with a transfer to start.
THEOREM TransfersAreStarted ==
  ASSUME "srtp" \notin Features
  PROVE  Spec => []PausedHasNoPendingTransfer
<1>1. IndInv => PausedHasNoPendingTransfer
  BY DEF IndInv, WaitInv, PausedHasNoPendingTransfer
<1> QED BY <1>1, WholeInvariance, PTL

\* The end of a dialog reaches its call: as long as the call is listed, the
\* event that ends it is in the queue.
THEOREM DeadDialogsAreReported ==
  ASSUME "srtp" \notin Features
  PROVE  Spec => []NoCallOnDeadDialog
<1>1. IndInv => NoCallOnDeadDialog
  <2> SUFFICES ASSUME IndInv, NEW c \in calls, ctx[c].stage \in {"closed", "released"}
               PROVE  Queued("CLOSED", c) \/ Queued("RELEASED", c)
    BY DEF NoCallOnDeadDialog
  <2>1. c \in Calls /\ call[c].state \in Live
    BY CountedNow, StateFields DEF Counted, Now
  <2>2. WaitInv(call[c], ctx[c], evq, c) BY <2>1 DEF IndInv
  <2> QED BY <2>1, <2>2 DEF WaitInv, InQueue, Queued
<1> QED BY <1>1, WholeInvariance, PTL

\* A 180 or 183 handled behind the answer, a late 100, or a re-INVITE never
\* takes an answered call back to ringing.
THEOREM AnsweredNeverRings ==
  ASSUME "srtp" \notin Features
  PROVE  Spec => AnsweredStaysAnswered
<1>1. IndInv /\ [Next]_vars =>
        [\A c \in Calls :
           call[c].state \in Live \ (Outgoing \cup Incoming \cup {"OutgoingInit"}) =>
             call'[c].state \notin Outgoing \cup Incoming \cup {"OutgoingInit"}]_vars
  <2> SUFFICES ASSUME IndInv, [Next]_vars, NEW c \in Calls,
                      call[c].state \in Live \ (Outgoing \cup Incoming \cup {"OutgoingInit"})
               PROVE  call'[c].state \notin Outgoing \cup Incoming \cup {"OutgoingInit"}
    OBVIOUS
  <2>1. Settles BY NextInd
  <2>2. call[c].state \in After BY DEF After, Answered, Settled
  <2>3. call'[c].state \in After BY <2>1, <2>2 DEF Settles
  <2>4. After \cap (Outgoing \cup Incoming \cup {"OutgoingInit"}) = {}
    BY DEF After, Answered, Settled, Live, Outgoing, Incoming, Ended
  <2> QED BY <2>3, <2>4
<1> QED BY <1>1, WholeInvariance, PTL DEF Spec, AnsweredStaysAnswered
=============================================================================
