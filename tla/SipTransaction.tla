--------------------------- MODULE SipTransaction ---------------------------
(***************************************************************************)
(* One SIP request from one user agent to another over UDP: the client and *)
(* server transactions of osip2 (ict_fsm.c, ist_fsm.c, nict_fsm.c,         *)
(* nist_fsm.c), what eXosip does above them with an INVITE (the dialog,    *)
(* the 200 OK it repeats until the ACK, the answers outside of any         *)
(* transaction, the release of the calls), and the network between.        *)
(*                                                                         *)
(* Every transaction has a fifo of events: messages received, responses    *)
(* the application sends, timers that are due.  The eXosip thread takes    *)
(* them one at a time and discards those that no transition of the state   *)
(* machine accepts.                                                        *)
(*                                                                         *)
(* The network loses, delays, reorders and duplicates; a message in        *)
(* transit lives less than the timers T4 and 64*T1, so that timers J, H    *)
(* and I, whose lengths are chosen for it, only fire once the request can  *)
(* no longer arrive.                                                       *)
(***************************************************************************)
EXTENDS Naturals, Sequences, FiniteSets

CONSTANTS
  MaxCopies,  \* retransmissions by one timer (A, E, G, or eXosip's of the 200)
  MaxFaults,  \* messages lost or duplicated, and sends that fail
  MaxFifo     \* events waiting in a transaction

ASSUME BoundsAssumption == {MaxCopies, MaxFaults} \subseteq Nat /\ MaxFifo \in Nat \ {0}

Kinds == {"INVITE", "REQUEST"}   \* any method but INVITE, ACK and CANCEL

Provisional == {"100", "1xx"}    \* 100 Trying has no To tag, the others do
Finals == {"2xx", "3xx"}         \* "3xx" stands for 3xx to 6xx
Responses == Provisional \cup Finals

\* "ACK" is the transaction's own for a 3456xx, "ACK2" the caller's for a 2xx.
Messages == Responses \cup {"REQ", "ACK", "ACK2", "BYE of caller", "BYE of callee"}

ClientTimers == {"A", "B", "D", "E", "F", "K"}
ServerTimers == {"G", "H", "I", "J"}

ClientStates == {"PRE", "TRYING", "PROCEEDING", "COMPLETED", "TERMINATED"}
ServerStates == {"NONE", "PRE", "TRYING", "PROCEEDING", "COMPLETED",
                 "CONFIRMED", "TERMINATED"}

VARIABLES
  kind,      \* the method
  cli, srv,  \* the transactions: state, last response, retransmissions, fifo
  uac, uas,  \* the eXosip dialogs of the caller and of the callee
  called,    \* the caller's call context (jc) still exists
  count,     \* the callee's d_count
  net,       \* the messages in transit
  faults,    \* the faults so far
  heard, answers, told, broke,  \* history, see Exchange
  stray      \* the callee's BYE has ended no call: it came before or after it

cvars == <<cli, uac, called, told>>
svars == <<srv, uas, count, heard, answers>>
vars == <<kind, cvars, svars, net, faults, broke, stray>>

TypeOK ==
  /\ kind \in Kinds
  /\ cli \in [state : ClientStates, last : Responses \cup {"none"},
              copies : 0 .. MaxCopies,
              fifo : Seq(Responses \cup ClientTimers \cup {"SND"})]
  /\ srv \in [state : ServerStates, last : Responses \cup {"none"},
              copies : 0 .. MaxCopies,
              fifo : Seq({"REQ", "ACK"} \cup ServerTimers \cup Responses)]
  /\ Len(cli.fifo) <= MaxFifo /\ Len(srv.fifo) <= MaxFifo
  /\ uac \in {"none", "early", "answered", "acked", "closed"}
  /\ uas \in {"none", "early", "waiting", "confirmed", "closed"}
  /\ called \in BOOLEAN /\ count \in 0 .. MaxCopies
  /\ net \subseteq Messages /\ faults \in 0 .. MaxFaults
  /\ heard \in Nat /\ answers \subseteq Finals /\ {broke, stray} \subseteq BOOLEAN
  /\ told \in Seq(Finals \cup {"failure"})

-----------------------------------------------------------------------------
(* The network. *)

\* cb_send_message: a negative result is a fault.  "Pending" (a name being
\* resolved) is a message that is lost.
Send(m, ok) ==
  IF ok THEN net' = net \cup {m} /\ UNCHANGED faults
        ELSE faults < MaxFaults /\ faults' = faults + 1 /\ UNCHANGED net

\* A message is taken from the network; a copy of it may still come.
Take(m) ==
  /\ m \in net
  /\ \/ net' = net \ {m} /\ UNCHANGED faults
     \/ faults < MaxFaults /\ faults' = faults + 1 /\ UNCHANGED net

\* The same, with an answer sent at once outside of any transaction.
TakeAndSend(m, sent) ==
  /\ m \in net
  /\ net' = (net \ {m}) \cup sent
  /\ UNCHANGED faults

\* The callee's BYE is the request of a transaction of its own, which repeats
\* it; the one the caller sends outside of any transaction is not repeated.
Lose(m) ==
  /\ m \in net \ {"BYE of callee"} /\ faults < MaxFaults
  /\ net' = net \ {m} /\ faults' = faults + 1
  /\ UNCHANGED <<kind, cvars, svars, broke, stray>>

\* The request can no longer arrive.
RequestIsOver ==
  "REQ" \notin net /\ cli.state \in {"COMPLETED", "TERMINATED"} \cup
                                    (IF kind = "INVITE" THEN {"PROCEEDING"} ELSE {})

-----------------------------------------------------------------------------
(* The client transaction.  ict_* and nict_* share the states: TRYING is   *)
(* ICT_CALLING for an INVITE.                                              *)

Init ==
  /\ kind \in Kinds
  /\ cli = [state |-> "PRE", last |-> "none", copies |-> 0, fifo |-> <<"SND">>]
  /\ srv = [state |-> "NONE", last |-> "none", copies |-> 0, fifo |-> <<>>]
  /\ uac = "none" /\ uas = "none" /\ called = TRUE /\ count = 0
  /\ net = {} /\ faults = 0
  /\ heard = 0 /\ answers = {} /\ told = <<>> /\ broke = FALSE /\ stray = FALSE

ClientGets(event, states) ==
  cli.fifo # <<>> /\ Head(cli.fifo) = event /\ cli.state \in states

ClientMoves(state, last) ==
  cli' = [cli EXCEPT !.state = state, !.last = last, !.fifo = Tail(@)]

Tell(outcome) == told' = Append(told, outcome)

\* Mutant: the end of a request without any response is not reported.
Kill_Silent(last) == ClientMoves("TERMINATED", last) /\ UNCHANGED told

\* The end of a client transaction (cb_xixt_kill_transaction).  eXosip has no
\* callback for a timeout or a transport error: a NICT is reported as failed
\* when it is killed, if it has received no response at all; an INVITE when
\* its call is released.
Kill(last) ==
  /\ ClientMoves("TERMINATED", last)
  /\ IF kind = "REQUEST" /\ last = "none" THEN Tell("failure") ELSE UNCHANGED told

snd_request(ok) ==
  /\ ClientGets("SND", {"PRE"})
  /\ Send("REQ", ok)
  /\ IF ok THEN ClientMoves("TRYING", "none") /\ UNCHANGED told ELSE Kill("none")
  /\ UNCHANGED <<uac, called>>

\* Timers A and E: the request is sent again.
timeout_retransmit(ok) ==
  /\ \/ ClientGets("A", {"TRYING"}) \/ ClientGets("E", {"TRYING", "PROCEEDING"})
  /\ Send("REQ", ok)
  /\ IF ok THEN /\ cli' = [cli EXCEPT !.fifo = Tail(@), !.copies = @ + 1]
                /\ UNCHANGED told
           ELSE Kill(cli.last)
  /\ UNCHANGED <<uac, called>>

\* Timers B and F: no answer came; D and K: no more answers will.
timeout_kill ==
  /\ \/ ClientGets("B", {"TRYING"}) \/ ClientGets("F", {"TRYING", "PROCEEDING"})
     \/ ClientGets("D", {"COMPLETED"}) \/ ClientGets("K", {"COMPLETED"})
  /\ Kill(cli.last)
  /\ UNCHANGED <<uac, called, net, faults>>

\* A provisional response with a To tag to an INVITE opens an early dialog.
rcv_1xx(r) ==
  /\ ClientGets(r, {"TRYING", "PROCEEDING"})
  /\ ClientMoves("PROCEEDING", r)
  /\ uac' = IF kind = "INVITE" /\ r = "1xx" /\ uac = "none" THEN "early" ELSE uac
  /\ UNCHANGED <<called, told, net, faults>>

nict_rcv_23456xx(r) ==
  /\ kind = "REQUEST"
  /\ ClientGets(r, {"TRYING", "PROCEEDING"})
  /\ ClientMoves("COMPLETED", r)
  /\ Tell(r)
  /\ UNCHANGED <<uac, called, net, faults>>

\* cb_rcv2xx_4invite says nothing of a 2xx that comes after the BYE.
ict_rcv_2xx ==
  /\ kind = "INVITE"
  /\ ClientGets("2xx", {"TRYING", "PROCEEDING"})
  /\ ClientMoves("TERMINATED", "2xx")
  /\ IF uac = "closed" THEN UNCHANGED <<uac, told>>
                       ELSE uac' = "answered" /\ Tell("2xx")
  /\ UNCHANGED <<called, net, faults>>

\* The first 3456xx is acknowledged before it is reported, so that nothing is
\* reported when the ACK cannot be sent.
ict_rcv_3456xx(ok) ==
  /\ kind = "INVITE"
  /\ ClientGets("3xx", {"TRYING", "PROCEEDING"})
  /\ Send("ACK", ok)
  /\ IF ok THEN /\ ClientMoves("COMPLETED", "3xx") /\ Tell("3xx")
                /\ uac' = IF uac = "early" THEN "closed" ELSE uac
           ELSE Kill("3xx") /\ UNCHANGED uac
  /\ UNCHANGED called

ict_retransmit_ack(ok) ==
  /\ kind = "INVITE"
  /\ ClientGets("3xx", {"COMPLETED"})
  /\ Send("ACK", ok)
  /\ IF ok THEN ClientMoves("COMPLETED", "3xx") /\ UNCHANGED told ELSE Kill("3xx")
  /\ UNCHANGED <<uac, called>>

\* osip_transaction_execute: an event without a transition is discarded.
ClientAccepts(event) ==
  \/ event \in {"SND"} /\ cli.state = "PRE"
  \/ event \in Responses /\ cli.state \in {"TRYING", "PROCEEDING"}
  \/ event = "3xx" /\ kind = "INVITE" /\ cli.state = "COMPLETED"
  \/ event \in {"A", "B"} /\ cli.state = "TRYING"
  \/ event \in {"E", "F"} /\ cli.state \in {"TRYING", "PROCEEDING"}
  \/ event \in {"D", "K"} /\ cli.state = "COMPLETED"

client_discards ==
  /\ cli.fifo # <<>> /\ ~ ClientAccepts(Head(cli.fifo))
  /\ cli' = [cli EXCEPT !.fifo = Tail(@)]
  /\ UNCHANGED <<uac, called, told, net, faults>>

ClientExecutes ==
  /\ \/ \E ok \in BOOLEAN : \/ snd_request(ok) \/ timeout_retransmit(ok)
                            \/ ict_rcv_3456xx(ok) \/ ict_retransmit_ack(ok)
     \/ \E r \in Provisional : rcv_1xx(r)
     \/ \E r \in Finals : nict_rcv_23456xx(r)
     \/ ict_rcv_2xx
     \/ timeout_kill
     \/ client_discards
  /\ UNCHANGED <<kind, svars, broke, stray>>

\* The timers that may be due in the client's state.
ClientTimersOf(state) ==
  CASE kind = "INVITE" /\ state = "TRYING" -> {"A", "B"}
    [] kind = "INVITE" /\ state = "COMPLETED" -> {"D"}
    [] kind = "REQUEST" /\ state \in {"TRYING", "PROCEEDING"} -> {"E", "F"}
    [] kind = "REQUEST" /\ state = "COMPLETED" -> {"K"}
    [] OTHER -> {}

Holds(fifo, events) == \E i \in DOMAIN fifo : fifo[i] \in events

\* osip_timers_ict_execute waits for an empty fifo, osip_timers_nict_execute
\* puts the timer behind what it holds.
ClientTimer(t) ==
  /\ t \in ClientTimersOf(cli.state)
  /\ t \in {"A", "E"} => cli.copies < MaxCopies
  /\ kind = "INVITE" => cli.fifo = <<>>
  /\ ~ Holds(cli.fifo, ClientTimers) /\ Len(cli.fifo) < MaxFifo
  /\ cli' = [cli EXCEPT !.fifo = Append(@, t)]
  /\ UNCHANGED <<kind, uac, called, told, svars, net, faults, broke, stray>>

-----------------------------------------------------------------------------
(* The caller's side of eXosip: responses, the ACK of a 2xx, the callee's   *)
(* BYE, the release of the call.                                            *)

ClientAlive == cli.state # "TERMINATED"
HasDialog == uac \in {"early", "answered", "acked"}

\* A response of a transaction that is still there.
ReceiveResponse(r) ==
  /\ ClientAlive /\ Len(cli.fifo) < MaxFifo
  /\ Take(r)
  /\ cli' = [cli EXCEPT !.fifo = Append(@, r)]
  /\ UNCHANGED <<kind, uac, called, told, svars, broke, stray>>

\* Mutant: the responses of the dialog are not told from those of another.
eXosip_process_response_out_of_transaction_Unmatched(r) ==
  /\ ~ ClientAlive
  /\ TakeAndSend(r, IF kind = "INVITE" /\ called /\ uac # "none" /\ r \in {"1xx", "2xx"}
                    THEN {"ACK2", "BYE of caller"} ELSE {})
  /\ UNCHANGED <<kind, cvars, svars, broke, stray>>

\* One that has none any more.  In a dialog we repeat the ACK, if it was sent,
\* whatever the response is.  When the dialog has ended and its call is not yet
\* released, we send an ACK and a BYE, which no transaction repeats; a response
\* without a Contact gives no address to send them to.  All others are
\* discarded: also the 2xx to an INVITE that timed out without any dialog.
eXosip_process_response_out_of_transaction(r) ==
  /\ ~ ClientAlive
  /\ TakeAndSend(r, CASE kind = "INVITE" /\ called /\ uac = "acked" /\ r # "100" -> {"ACK2"}
                      [] kind = "INVITE" /\ called /\ uac = "closed" /\ r \in {"1xx", "2xx"} ->
                           {"ACK2", "BYE of caller"}
                      [] OTHER -> {})
  /\ UNCHANGED <<kind, cvars, svars, broke, stray>>

\* The core acknowledges when the event of the 2xx reaches it (call_accepted).
eXosip_call_send_ack(ok) ==
  /\ uac = "answered" /\ uac' = "acked"
  /\ Send("ACK2", ok)
  /\ UNCHANGED <<kind, cli, called, told, svars, broke, stray>>

\* 481 when there is no dialog.  The BYE is handled as it is read, before the
\* responses that wait in the transaction's fifo.
eXosip_process_bye_of_callee ==
  /\ TakeAndSend("BYE of callee", {})
  /\ IF called /\ HasDialog
       THEN uac' = "closed" /\ UNCHANGED stray
       ELSE stray' = TRUE /\ UNCHANGED uac
  /\ UNCHANGED <<kind, cli, called, told, svars, broke>>

\* A call whose INVITE failed, some seconds later; the caller is told then if
\* it has not been told before.
eXosip_release_call(state) ==
  /\ kind = "INVITE" /\ called /\ cli.state = state
  /\ uac \notin {"answered", "acked"}
  /\ called' = FALSE
  /\ cli' = [cli EXCEPT !.state = "TERMINATED"]
  /\ uac' = IF uac = "closed" THEN uac ELSE "none"
  /\ IF told = <<>> /\ uac # "closed" THEN Tell("failure") ELSE UNCHANGED told
  /\ UNCHANGED <<kind, svars, net, faults, broke, stray>>

\* A call with no final response after 180 s, when nothing is in transit.
eXosip_release_unanswered_call == net = {} /\ eXosip_release_call("PROCEEDING")

-----------------------------------------------------------------------------
(* The server transaction.  ist_* and nist_* share the states but TRYING,  *)
(* which is NIST's.                                                        *)

ServerAlive == srv.state \notin {"NONE", "TERMINATED"}

ServerGets(event, states) ==
  srv.fifo # <<>> /\ Head(srv.fifo) = event /\ srv.state \in states

ServerMoves(state, last) ==
  srv' = [srv EXCEPT !.state = state, !.last = last, !.fifo = Tail(@)]

\* The response is sent; the transaction goes on to state, or ends when it
\* cannot be sent.
Respond(r, state, ok) ==
  /\ Send(r, ok)
  /\ ServerMoves(IF ok THEN state ELSE "TERMINATED", r)
  /\ broke' = (broke \/ ~ ok)

\* The first request of a NIST; that of an IST is part of new_invite.
nist_rcv_request ==
  /\ ServerGets("REQ", {"PRE"})
  /\ ServerMoves("TRYING", "none")
  /\ heard' = heard + 1
  /\ UNCHANGED <<net, faults, broke>>

\* A retransmission is answered with the last response.
rcv_request_again(ok) ==
  /\ ServerGets("REQ", {"PROCEEDING", "COMPLETED"})
  /\ Respond(srv.last, srv.state, ok)
  /\ UNCHANGED heard

snd_1xx(ok) ==
  /\ ServerGets("1xx", {"TRYING", "PROCEEDING"})
  /\ Respond("1xx", "PROCEEDING", ok)
  /\ UNCHANGED heard

snd_final(r, ok) ==
  /\ r \in Finals
  /\ ServerGets(r, {"TRYING", "PROCEEDING"})
  /\ Respond(r, IF kind = "INVITE" /\ r = "2xx" THEN "TERMINATED" ELSE "COMPLETED", ok)
  /\ UNCHANGED heard

ist_rcv_ack ==
  /\ ServerGets("ACK", {"COMPLETED", "CONFIRMED"})
  /\ ServerMoves("CONFIRMED", srv.last)
  /\ UNCHANGED <<heard, net, faults, broke>>

\* The refusal again, until its ACK.
osip_ist_timeout_g_event(ok) ==
  /\ ServerGets("G", {"COMPLETED"})
  /\ Send(srv.last, ok)
  /\ srv' = [srv EXCEPT !.fifo = Tail(@), !.copies = @ + 1,
                        !.state = IF ok THEN @ ELSE "TERMINATED"]
  /\ broke' = (broke \/ ~ ok)
  /\ UNCHANGED heard

\* Timers H, I and J.
timeout_end ==
  /\ \/ ServerGets("H", {"COMPLETED"}) \/ ServerGets("J", {"COMPLETED"})
     \/ ServerGets("I", {"CONFIRMED"})
  /\ ServerMoves("TERMINATED", srv.last)
  /\ UNCHANGED <<heard, net, faults, broke>>

ServerAccepts(event) ==
  \/ event = "REQ" /\ srv.state \in {"PRE", "PROCEEDING", "COMPLETED"}
  \/ event \in Responses /\ srv.state \in {"TRYING", "PROCEEDING"}
  \/ event = "ACK" /\ srv.state \in {"COMPLETED", "CONFIRMED"}
  \/ event \in {"G", "H", "J"} /\ srv.state = "COMPLETED"
  \/ event = "I" /\ srv.state = "CONFIRMED"

server_discards ==
  /\ ~ ServerAccepts(Head(srv.fifo))
  /\ srv' = [srv EXCEPT !.fifo = Tail(@)]
  /\ UNCHANGED <<heard, net, faults, broke>>

ServerExecutes ==
  /\ ServerAlive /\ srv.fifo # <<>>
  /\ \/ \E ok \in BOOLEAN :
          \/ rcv_request_again(ok) \/ snd_1xx(ok) \/ osip_ist_timeout_g_event(ok)
          \/ \E r \in Finals : snd_final(r, ok)
     \/ nist_rcv_request
     \/ ist_rcv_ack
     \/ timeout_end
     \/ server_discards
  /\ UNCHANGED <<kind, cvars, uas, count, answers, stray>>

ServerTimersOf(state) ==
  CASE kind = "INVITE" /\ state = "COMPLETED" -> {"G", "H"}
    [] kind = "INVITE" /\ state = "CONFIRMED" -> {"I"}
    [] kind = "REQUEST" /\ state = "COMPLETED" -> {"J"}
    [] OTHER -> {}

\* The timer goes behind what the fifo holds.
ServerTimer(t) ==
  /\ t \in ServerTimersOf(srv.state)
  /\ IF t = "G" THEN srv.copies < MaxCopies ELSE RequestIsOver
  /\ ~ Holds(srv.fifo, ServerTimers) /\ Len(srv.fifo) < MaxFifo
  /\ srv' = [srv EXCEPT !.fifo = Append(@, t)]
  /\ UNCHANGED <<kind, cvars, uas, count, heard, answers, net, faults, broke, stray>>

-----------------------------------------------------------------------------
(* The callee's side of eXosip: requests, answers, the 200 OK until its     *)
(* ACK, the BYE of either, the release of the call.                         *)

\* A copy of the request, or the ACK of a refusal, for a transaction that is there.
ReceiveInTransaction(m) ==
  /\ m \in {"REQ", "ACK"} /\ ServerAlive /\ Len(srv.fifo) < MaxFifo
  /\ Take(m)
  /\ srv' = [srv EXCEPT !.fifo = Append(@, m)]
  /\ UNCHANGED <<kind, cvars, uas, count, heard, answers, broke, stray>>

\* The first INVITE: 100 Trying and 101 Dialog Establishment at once, the
\* second only when the first could be sent.
eXosip_process_new_invite(ok) ==
  /\ heard = 0
  /\ uas' = "early" /\ count' = 0 /\ heard' = 1
  /\ IF ok
       THEN /\ net' = (net \ {"REQ"}) \cup {"100", "1xx"}
            /\ srv' = [srv EXCEPT !.state = "PROCEEDING", !.last = "1xx"]
            /\ UNCHANGED <<faults, broke>>
       ELSE /\ faults < MaxFaults /\ faults' = faults + 1 /\ broke' = TRUE
            /\ \E sent \in {{}, {"100"}} : net' = (net \ {"REQ"}) \cup sent
            /\ srv' = [srv EXCEPT !.state = "TERMINATED",
                                  !.last = IF "100" \in net' \ net THEN "1xx" ELSE "100"]

\* Mutant: without the test of the CSeq.
ReceiveInviteAgain_NoCSeq ==
  /\ heard > 0
  /\ Take("REQ")
  /\ heard' = heard + 1
  /\ UNCHANGED <<srv, uas, count, broke>>

\* A copy of an INVITE whose transaction has ended has the CSeq of its dialog,
\* and is discarded.  One that finds no dialog is a new call: it rings again,
\* which is counted here and not followed any further.
ReceiveInviteAgain ==
  /\ heard > 0
  /\ Take("REQ")
  /\ heard' = IF uas \in {"early", "waiting", "confirmed"} THEN heard ELSE heard + 1
  /\ UNCHANGED <<srv, uas, count, broke>>

eXosip_process_newrequest ==
  /\ "REQ" \in net /\ ~ ServerAlive
  /\ IF kind = "INVITE"
       THEN (\E ok \in BOOLEAN : eXosip_process_new_invite(ok)) \/ ReceiveInviteAgain
       ELSE /\ Take("REQ")
            /\ srv' = [state |-> "PRE", last |-> "none", copies |-> 0, fifo |-> <<"REQ">>]
            /\ UNCHANGED <<uas, count, heard, broke>>
  /\ UNCHANGED <<kind, cvars, answers, stray>>

\* The application answers once; the 200 OK of an INVITE is repeated from then
\* on, whatever becomes of the transaction.
SendAnswer(r) ==
  /\ srv.state \in {"TRYING", "PROCEEDING"} /\ Len(srv.fifo) < MaxFifo
  /\ kind = "INVITE" => uas = "early"
  /\ ~ Holds(srv.fifo, Responses)
  /\ r \in Finals \cup {"1xx"}
  /\ r = "1xx" => kind = "REQUEST" /\ srv.last = "none"
  /\ srv' = [srv EXCEPT !.fifo = Append(@, r)]
  /\ answers' = answers \cup ({r} \cap Finals)
  /\ IF kind = "INVITE" /\ r = "2xx" THEN uas' = "waiting" /\ count' = 0
                                     ELSE UNCHANGED <<uas, count>>
  /\ UNCHANGED <<kind, cvars, heard, net, faults, broke, stray>>

\* The ACK of a 2xx stops its repetition; it has no effect without a 2xx.
eXosip_process_ack ==
  /\ Take("ACK2")
  /\ uas' = IF uas = "waiting" THEN "confirmed" ELSE uas
  /\ UNCHANGED <<kind, cvars, srv, count, heard, answers, broke, stray>>

\* The ACK of a refusal that comes after its transaction.
ReceiveLateAck ==
  /\ ~ ServerAlive
  /\ Take("ACK")
  /\ UNCHANGED <<kind, cvars, svars, broke, stray>>

\* The call is over, and its dialog is forgotten.
eXosip_process_bye_of_caller ==
  /\ TakeAndSend("BYE of caller", {})
  /\ IF uas \in {"early", "waiting", "confirmed"}
       THEN uas' = "closed" /\ broke' = TRUE
       ELSE UNCHANGED <<uas, broke>>
  /\ UNCHANGED <<kind, cvars, srv, count, heard, answers, stray>>

\* Mutant: one copy more.
eXosip_retransmit_lost200ok_OneMore ==
  /\ uas = "waiting"
  /\ IF count > MaxCopies
       THEN uas' = "closed" /\ broke' = TRUE /\ net' = net \cup {"BYE of callee"} /\ count' = 0
       ELSE count' = count + 1 /\ net' = net \cup {"2xx"} /\ UNCHANGED <<uas, broke>>
  /\ UNCHANGED <<kind, cvars, srv, heard, answers, faults, stray>>

\* Mutant: the call is kept after the last copy.
eXosip_retransmit_lost200ok_Keeps ==
  /\ uas = "waiting" /\ count < MaxCopies
  /\ count' = count + 1 /\ net' = net \cup {"2xx"}
  /\ UNCHANGED <<kind, cvars, srv, uas, heard, answers, faults, broke, stray>>

\* After the last copy of the 200 OK the call is dropped, without waiting.
eXosip_retransmit_lost200ok ==
  /\ uas = "waiting"
  /\ IF count = MaxCopies
       THEN uas' = "closed" /\ broke' = TRUE /\ net' = net \cup {"BYE of callee"} /\ count' = 0
       ELSE count' = count + 1 /\ net' = net \cup {"2xx"} /\ UNCHANGED <<uas, broke>>
  /\ UNCHANGED <<kind, cvars, srv, heard, answers, faults, stray>>

\* A call refused, once its transaction is over, or not answered after 180 s.
eXosip_release_incoming_call ==
  /\ kind = "INVITE" /\ uas \in {"early", "closed"}
  /\ \/ srv.state = "TERMINATED" /\ srv.last = "3xx" /\ UNCHANGED <<srv, broke>>
     \/ /\ srv.state = "PROCEEDING" /\ net = {}
        /\ srv' = [srv EXCEPT !.state = "TERMINATED"]
        /\ broke' = TRUE
  /\ uas' = "none"
  /\ UNCHANGED <<kind, cvars, count, heard, answers, net, faults, stray>>

-----------------------------------------------------------------------------
Receive(m) ==
  \/ m \in Responses /\ (ReceiveResponse(m) \/ eXosip_process_response_out_of_transaction(m))
  \/ ReceiveInTransaction(m)
  \/ m = "REQ" /\ eXosip_process_newrequest
  \/ m = "ACK" /\ ReceiveLateAck
  \/ m = "ACK2" /\ eXosip_process_ack
  \/ m = "BYE of caller" /\ eXosip_process_bye_of_caller
  \/ m = "BYE of callee" /\ eXosip_process_bye_of_callee

Release ==
  \/ eXosip_release_call("TERMINATED")
  \/ eXosip_release_unanswered_call
  \/ eXosip_release_incoming_call

\* What the two programs do by themselves; the rest is for the callee's user and
\* the network to do or not.  In each of its turns the eXosip thread takes events
\* and messages, fires the timers that are due and releases calls; the core
\* acknowledges every 2xx.
Work ==
  \/ ClientExecutes
  \/ ServerExecutes
  \/ \E t \in ClientTimers : ClientTimer(t)
  \/ \E t \in ServerTimers : ServerTimer(t)
  \/ \E m \in Messages : Receive(m)
  \/ \E ok \in BOOLEAN : eXosip_call_send_ack(ok)
  \/ eXosip_retransmit_lost200ok
  \/ Release

Next ==
  \/ Work
  \/ \E m \in Messages : Lose(m)
  \/ \E r \in Responses : SendAnswer(r)

\* Each turn does something while there is anything to do; as copies and faults
\* are bounded, nothing that is due can be passed over for ever.
Spec == Init /\ [][Next]_vars /\ WF_vars(Work)

-----------------------------------------------------------------------------
(* Properties. *)

\* The exchange keeps what a request promises: the callee hears of it once
\* although it is sent again, and the caller is told one outcome, which the
\* callee gave or which is a failure, although answers are repeated and cross
\* the timers.
E == INSTANCE Exchange WITH Failure <- "failure"
Implements == E!Spec

\* Every request ends for its caller: it is told an outcome, or the callee's BYE
\* ends the call.  A request that gets a provisional response and then none is
\* the exception: eXosip has no callback for timer F, and reports the end of a
\* transaction only if it got no response at all.
EveryRequestEnds ==
  <>(\/ told # <<>> \/ uac = "closed"
     \/ kind = "REQUEST" /\ cli.state = "TERMINATED" /\ cli.last \in Provisional)

\* A call that was answered does not wait for its ACK for ever: the ACK comes,
\* or the callee drops the call.
AnswerIsSettled == (uas = "waiting") ~> (uas # "waiting")

\* In the end both sides have the call or neither has, unless a BYE has ended
\* no call: late answers, repeated ones and dropped calls leave none half open.
CallsAgree == <>[](stray \/ (uac = "acked") = (uas = "confirmed"))
=============================================================================
