------------------------ MODULE SipTransactionProofs ------------------------
(***************************************************************************)
(* Proof that SipTransaction implements Exchange, for any number of        *)
(* retransmissions and of faults and for fifos of any length: the callee   *)
(* hears of a request once, and the caller is told one outcome, which the  *)
(* callee gave or which is a failure; and that the variables keep their    *)
(* types and bounds (TransactionTypes).                                    *)
(***************************************************************************)
EXTENDS SipTransaction, TLAPS

\* Only an answer that was given is ever sent, kept or queued.
Given == Provisional \cup answers
ClientEvents ==
  Given \cup {"SND"} \cup (IF kind = "INVITE" THEN {"A", "B", "D"} ELSE {"E", "F", "K"})
ServerEvents == Given \cup {"REQ", "ACK"} \cup ServerTimers

NetInv ==
  net \subseteq Given \cup {"REQ", "ACK", "ACK2", "BYE of caller", "BYE of callee"}

\* The caller is told nothing before its transaction has an answer or ends.
ClientInv ==
  /\ cli \in [state : ClientStates, last : Responses \cup {"none"}, copies : Nat,
              fifo : Seq(ClientEvents)]
  /\ cli.state \in {"PRE", "TRYING", "PROCEEDING"} => told = <<>>
  /\ cli.state = "COMPLETED" => cli.last \in Finals

ServerTypes ==
  /\ srv \in [state : ServerStates, last : Given \cup {"none"}, copies : Nat,
              fifo : Seq(ServerEvents)]
  /\ srv.state \in {"PROCEEDING", "COMPLETED"} => srv.last # "none"
  /\ uas \in {"none", "early", "waiting", "confirmed", "closed"}
  /\ uas = "waiting" => "2xx" \in answers

\* The callee has heard of the request when its transaction is under way, and
\* its transaction starts anew only after the exchange was given up.
HeardInv ==
  /\ heard \in Nat
  /\ srv.state = "NONE" => heard = 0
  /\ srv.state \notin {"NONE", "PRE"} => heard > 0
  /\ srv.state = "PRE" => kind = "REQUEST" /\ (heard = 0 \/ broke)
  /\ heard = 0 => answers = {}

\* The timers that end a transaction find that no request can come any more.
EndInv ==
  /\ \A i \in 1 .. Len(srv.fifo) : srv.fifo[i] \in {"H", "I", "J"} => RequestIsOver
  /\ srv.state = "TERMINATED" /\ ~ (kind = "INVITE" /\ srv.last = "2xx")
       => broke \/ RequestIsOver
  /\ uas = "closed" => broke
  /\ uas = "none" /\ kind = "INVITE" /\ heard > 0 => broke \/ RequestIsOver

\* Before the answer is queued there is none.
AnswerInv ==
  ~ broke /\ srv.state \in {"PRE", "TRYING", "PROCEEDING"} /\ (kind = "INVITE" => uas = "early")
    => answers = {} \/ \E i \in 1 .. Len(srv.fifo) : srv.fifo[i] \in Finals

Inv ==
  /\ kind \in Kinds /\ answers \subseteq Finals /\ broke \in BOOLEAN
  /\ NetInv /\ ClientInv /\ ServerTypes /\ HeardInv /\ EndInv /\ AnswerInv

\* What a step may do to the caller's outcome.
Outcome ==
  \/ UNCHANGED told
  \/ told = <<>> /\ \E o \in answers \cup {"failure"} : told' = <<o>>

\* The callee may hear of the request again only if it gave the exchange up.
Hearing ==
  /\ heard' = heard \/ ((heard = 0 \/ broke) /\ heard' = heard + 1)
  /\ broke' \in {broke, TRUE}

\* The callee answers once, unless it gave the exchange up.
Answering ==
  \/ UNCHANGED answers
  \/ heard > 0 /\ \E f \in Finals : (f \in answers => broke) /\ answers' = answers \cup {f}

-----------------------------------------------------------------------------
(* What stays.                                                             *)

LEMMA SeqGrows ==
  ASSUME NEW S, NEW T, S \subseteq T, NEW q \in Seq(S)
  PROVE  q \in Seq(T)
OBVIOUS

\* A queue without its first event holds no other events.
LEMMA TailOfQueue ==
  ASSUME NEW S, NEW q \in Seq(S), q # <<>>
  PROVE  /\ Head(q) \in S /\ Tail(q) \in Seq(S) /\ Head(q) = q[1]
         /\ Len(q) \in Nat \ {0} /\ Len(Tail(q)) = Len(q) - 1
         /\ \A i \in 1 .. Len(q) - 1 : Tail(q)[i] = q[i + 1]
OBVIOUS

LEMMA ServerStays ==
  ASSUME Inv, UNCHANGED <<kind, svars, broke>>, RequestIsOver => RequestIsOver'
  PROVE  ServerTypes' /\ HeardInv' /\ EndInv' /\ AnswerInv'
<1>1. ServerTypes' /\ HeardInv' /\ AnswerInv'
  BY DEF Inv, svars, ServerTypes, HeardInv, AnswerInv, Given, ServerEvents
<1>2. EndInv'
  BY DEF Inv, svars, EndInv
<1> QED
  BY <1>1, <1>2

LEMMA ClientStays ==
  ASSUME Inv, UNCHANGED <<kind, cli, told>>, answers \subseteq answers'
  PROVE  ClientInv'
<1>1. ClientEvents \subseteq ClientEvents'
  BY DEF ClientEvents, Given
<1>2. cli'.fifo \in Seq(ClientEvents')
  BY <1>1, SeqGrows DEF Inv, ClientInv
<1> QED
  BY <1>2 DEF Inv, ClientInv

LEMMA SendKeepsNet ==
  ASSUME NetInv, UNCHANGED answers, NEW ok \in BOOLEAN,
         NEW m \in Given \cup {"REQ", "ACK", "ACK2"}, Send(m, ok)
  PROVE  NetInv' /\ (m # "REQ" /\ "REQ" \notin net => "REQ" \notin net')
BY DEF NetInv, Send, Given

LEMMA TakeKeepsNet ==
  ASSUME NetInv, UNCHANGED answers, NEW m, Take(m)
  PROVE  NetInv' /\ net' \subseteq net
BY DEF NetInv, Take, Given

-----------------------------------------------------------------------------
(* The client transaction.                                                 *)

LEMMA ClientMovesKeeps ==
  ASSUME Inv, UNCHANGED <<kind, answers>>, cli.fifo # <<>>,
         NEW state \in ClientStates, NEW last \in Responses \cup {"none"},
         ClientMoves(state, last)
  PROVE  /\ cli'.state = state /\ cli'.last = last
         /\ cli' \in [state : ClientStates, last : Responses \cup {"none"}, copies : Nat,
                      fifo : Seq(ClientEvents')]
<1>1. Tail(cli.fifo) \in Seq(ClientEvents) /\ ClientEvents' = ClientEvents
  BY TailOfQueue DEF Inv, ClientInv, ClientEvents, Given
<1>2. cli' = [state |-> state, last |-> last, copies |-> cli.copies, fifo |-> Tail(cli.fifo)]
  BY DEF ClientMoves, Inv, ClientInv
<1> QED
  BY <1>1, <1>2 DEF Inv, ClientInv

LEMMA KillKeeps ==
  ASSUME Inv, UNCHANGED <<kind, answers>>, cli.fifo # <<>>,
         NEW last \in Responses \cup {"none"}, Kill(last), last = "none" => told = <<>>
  PROVE  ClientInv' /\ Outcome /\ cli'.state = "TERMINATED"
<1>1. "TERMINATED" \in ClientStates
  BY DEF ClientStates
<1>2. /\ cli'.state = "TERMINATED"
      /\ cli' \in [state : ClientStates, last : Responses \cup {"none"}, copies : Nat,
                   fifo : Seq(ClientEvents')]
  BY <1>1, ClientMovesKeeps DEF Kill
<1>3. Outcome
  <2>1. CASE told = <<>>
    BY <2>1 DEF Kill, Tell, Outcome
  <2>2. CASE told # <<>>
    BY <2>2 DEF Kill, Outcome
  <2> QED
    BY <2>1, <2>2
<1> QED
  BY <1>2, <1>3 DEF ClientInv

\* What is at the head of the client's queue.
LEMMA HeadOfClient ==
  ASSUME Inv, NEW ev, NEW states, ClientGets(ev, states)
  PROVE  ev \in ClientEvents /\ cli.fifo # <<>> /\ cli.state \in states
BY TailOfQueue DEF ClientGets, Inv, ClientInv

LEMMA ClientStep ==
  ASSUME Inv, ClientExecutes
  PROVE  Inv' /\ Outcome
<1> DEFINE Good == NetInv' /\ ClientInv' /\ Outcome /\ (RequestIsOver => RequestIsOver')
<1>1. UNCHANGED <<kind, svars, broke, answers, heard>>
  BY DEF ClientExecutes, svars
<1>2. NetInv /\ cli.last \in Responses \cup {"none"} /\ kind \in Kinds
  BY DEF Inv, ClientInv
<1>3. ASSUME NEW ok \in BOOLEAN, snd_request(ok) PROVE Good
  <2>1. cli.fifo # <<>> /\ cli.state = "PRE" /\ told = <<>>
    BY <1>3, HeadOfClient DEF snd_request, Inv, ClientInv
  <2>2. NetInv'
    BY <1>1, <1>2, <1>3, SendKeepsNet DEF snd_request
  <2>3. ~ RequestIsOver
    BY <2>1 DEF RequestIsOver
  <2>4. CASE ok
    <3>1. "TRYING" \in ClientStates /\ "none" \in Responses \cup {"none"}
      BY DEF ClientStates
    <3>2. ClientMoves("TRYING", "none") /\ told' = told
      BY <1>3, <2>4 DEF snd_request
    <3>3. ClientInv'
      BY <1>1, <2>1, <3>1, <3>2, ClientMovesKeeps DEF ClientInv
    <3> QED
      BY <2>2, <2>3, <3>2, <3>3 DEF Outcome
  <2>5. CASE ~ ok
    BY <1>1, <1>3, <2>1, <2>2, <2>3, <2>5, KillKeeps DEF snd_request
  <2> QED
    BY <2>4, <2>5
<1>4. ASSUME NEW ok \in BOOLEAN, timeout_retransmit(ok) PROVE Good
  <2>1. /\ cli.fifo # <<>> /\ cli.state \in {"TRYING", "PROCEEDING"} /\ told = <<>>
        /\ ~ RequestIsOver
    <3>1. CASE ClientGets("A", {"TRYING"})
      BY <3>1, HeadOfClient DEF Inv, ClientInv, RequestIsOver
    <3>2. CASE ClientGets("E", {"TRYING", "PROCEEDING"})
      <4>1. cli.fifo # <<>> /\ cli.state \in {"TRYING", "PROCEEDING"} /\ "E" \in ClientEvents
        BY <3>2, HeadOfClient
      <4>2. kind # "INVITE"
        BY <4>1 DEF ClientEvents, Given, Provisional, Finals, Inv
      <4> QED
        BY <4>1, <4>2 DEF Inv, ClientInv, RequestIsOver
    <3> QED
      BY <1>4, <3>1, <3>2 DEF timeout_retransmit
  <2>2. NetInv'
    BY <1>1, <1>2, <1>4, SendKeepsNet DEF timeout_retransmit
  <2>3. CASE ok
    <3>1. cli' = [cli EXCEPT !.fifo = Tail(@), !.copies = @ + 1] /\ told' = told
      BY <1>4, <2>3 DEF timeout_retransmit
    <3>2. Tail(cli.fifo) \in Seq(ClientEvents) /\ ClientEvents' = ClientEvents
      BY <1>1, <2>1, TailOfQueue DEF Inv, ClientInv, ClientEvents, Given
    <3>3. cli' = [state |-> cli.state, last |-> cli.last, copies |-> cli.copies + 1,
                  fifo |-> Tail(cli.fifo)]
      BY <3>1 DEF Inv, ClientInv
    <3>4. ClientInv'
      BY <2>1, <3>1, <3>2, <3>3 DEF Inv, ClientInv
    <3> QED
      BY <2>1, <2>2, <3>1, <3>4 DEF Outcome
  <2>4. CASE ~ ok
    BY <1>1, <1>2, <1>4, <2>1, <2>2, <2>4, KillKeeps DEF timeout_retransmit
  <2> QED
    BY <2>3, <2>4
<1>5. ASSUME timeout_kill PROVE Good
  <2>1. cli.fifo # <<>> /\ (cli.last = "none" => told = <<>>)
    BY <1>5, HeadOfClient DEF timeout_kill, Inv, ClientInv, Finals
  <2>2. ClientInv' /\ Outcome /\ cli'.state = "TERMINATED"
    BY <1>1, <1>2, <1>5, <2>1, KillKeeps DEF timeout_kill
  <2>3. NetInv' /\ net' = net
    BY <1>1, <1>2, <1>5 DEF timeout_kill, NetInv, Given
  <2> QED
    BY <1>1, <2>2, <2>3 DEF RequestIsOver
<1>6. ASSUME NEW r \in Provisional, rcv_1xx(r) PROVE Good
  <2>1. cli.fifo # <<>> /\ cli.state \in {"TRYING", "PROCEEDING"} /\ told = <<>>
    BY <1>6, HeadOfClient DEF rcv_1xx, Inv, ClientInv
  <2>2. "PROCEEDING" \in ClientStates /\ r \in Responses \cup {"none"}
    BY DEF ClientStates, Responses
  <2>3. ClientMoves("PROCEEDING", r) /\ net' = net /\ told' = told
    BY <1>6 DEF rcv_1xx
  <2>4. ClientInv' /\ cli'.state = "PROCEEDING"
    BY <1>1, <2>1, <2>2, <2>3, ClientMovesKeeps DEF ClientInv
  <2> QED
    BY <1>1, <1>2, <2>1, <2>3, <2>4 DEF Outcome, NetInv, Given, RequestIsOver
<1>7. ASSUME NEW r \in Finals, nict_rcv_23456xx(r) PROVE Good
  <2>1. /\ cli.fifo # <<>> /\ cli.state \in {"TRYING", "PROCEEDING"} /\ told = <<>>
        /\ r \in ClientEvents
    BY <1>7, HeadOfClient DEF nict_rcv_23456xx, Inv, ClientInv
  <2>2. r \in answers
    BY <2>1 DEF ClientEvents, Given, Finals, Provisional
  <2>3. "COMPLETED" \in ClientStates /\ r \in Responses \cup {"none"}
    BY DEF ClientStates, Responses
  <2>4. ClientMoves("COMPLETED", r) /\ net' = net /\ told' = Append(told, r)
    BY <1>7 DEF nict_rcv_23456xx, Tell
  <2>5. ClientInv' /\ cli'.state = "COMPLETED"
    BY <1>1, <2>1, <2>3, <2>4, ClientMovesKeeps DEF ClientInv
  <2>6. Outcome
    BY <2>1, <2>2, <2>4 DEF Outcome
  <2> QED
    BY <1>1, <1>2, <2>4, <2>5, <2>6 DEF NetInv, Given, RequestIsOver
<1>8. ASSUME ict_rcv_2xx PROVE Good
  <2>1. /\ cli.fifo # <<>> /\ cli.state \in {"TRYING", "PROCEEDING"} /\ told = <<>>
        /\ "2xx" \in ClientEvents
    BY <1>8, HeadOfClient DEF ict_rcv_2xx, Inv, ClientInv
  <2>2. "2xx" \in answers
    BY <2>1 DEF ClientEvents, Given, Provisional
  <2>3. "TERMINATED" \in ClientStates /\ "2xx" \in Responses \cup {"none"}
    BY DEF ClientStates, Responses, Finals
  <2>4. ClientMoves("TERMINATED", "2xx") /\ net' = net
        /\ (told' = told \/ told' = Append(told, "2xx"))
    BY <1>8 DEF ict_rcv_2xx, Tell
  <2>5. ClientInv' /\ cli'.state = "TERMINATED"
    BY <1>1, <2>1, <2>3, <2>4, ClientMovesKeeps DEF ClientInv
  <2>6. Outcome
    BY <2>1, <2>2, <2>4 DEF Outcome
  <2> QED
    BY <1>1, <1>2, <2>4, <2>5, <2>6 DEF NetInv, Given, RequestIsOver
<1>9. ASSUME NEW ok \in BOOLEAN, ict_rcv_3456xx(ok) PROVE Good
  <2>1. /\ cli.fifo # <<>> /\ cli.state \in {"TRYING", "PROCEEDING"} /\ told = <<>>
        /\ "3xx" \in ClientEvents
    BY <1>9, HeadOfClient DEF ict_rcv_3456xx, Inv, ClientInv
  <2>2. "3xx" \in answers
    BY <2>1 DEF ClientEvents, Given, Provisional
  <2>3. "3xx" \in Responses \cup {"none"} /\ "3xx" \in Finals /\ "COMPLETED" \in ClientStates
    BY DEF ClientStates, Responses, Finals
  <2>4. NetInv' /\ ("REQ" \notin net => "REQ" \notin net')
    BY <1>1, <1>2, <1>9, SendKeepsNet DEF ict_rcv_3456xx
  <2>5. ClientInv' /\ Outcome /\ cli'.state \in {"COMPLETED", "TERMINATED"}
    <3>1. CASE ok
      <4>1. ClientMoves("COMPLETED", "3xx") /\ told' = Append(told, "3xx")
        BY <1>9, <3>1 DEF ict_rcv_3456xx, Tell
      <4>2. ClientInv' /\ cli'.state = "COMPLETED"
        BY <1>1, <2>1, <2>3, <4>1, ClientMovesKeeps DEF ClientInv
      <4> QED
        BY <2>1, <2>2, <4>1, <4>2 DEF Outcome
    <3>2. CASE ~ ok
      BY <1>1, <1>9, <2>1, <2>3, <3>2, KillKeeps DEF ict_rcv_3456xx
    <3> QED
      BY <3>1, <3>2
  <2> QED
    BY <1>1, <2>4, <2>5 DEF RequestIsOver
<1>10. ASSUME NEW ok \in BOOLEAN, ict_retransmit_ack(ok) PROVE Good
  <2>1. cli.fifo # <<>> /\ cli.state = "COMPLETED"
    BY <1>10, HeadOfClient DEF ict_retransmit_ack
  <2>2. "3xx" \in Responses \cup {"none"} /\ "3xx" \in Finals /\ "COMPLETED" \in ClientStates
    BY DEF ClientStates, Responses, Finals
  <2>3. NetInv' /\ ("REQ" \notin net => "REQ" \notin net')
    BY <1>1, <1>2, <1>10, SendKeepsNet DEF ict_retransmit_ack
  <2>4. ClientInv' /\ Outcome /\ cli'.state \in {"COMPLETED", "TERMINATED"}
    <3>1. CASE ok
      <4>1. ClientMoves("COMPLETED", "3xx") /\ told' = told
        BY <1>10, <3>1 DEF ict_retransmit_ack
      <4>2. ClientInv' /\ cli'.state = "COMPLETED"
        BY <1>1, <2>1, <2>2, <4>1, ClientMovesKeeps DEF ClientInv
      <4> QED
        BY <4>1, <4>2 DEF Outcome
    <3>2. CASE ~ ok
      BY <1>1, <1>10, <2>1, <2>2, <3>2, KillKeeps DEF ict_retransmit_ack
    <3> QED
      BY <3>1, <3>2
  <2> QED
    BY <1>1, <2>3, <2>4 DEF RequestIsOver
<1>11. ASSUME client_discards PROVE Good
  <2>1. cli.fifo # <<>> /\ cli' = [cli EXCEPT !.fifo = Tail(@)] /\ told' = told /\ net' = net
    BY <1>11 DEF client_discards
  <2>2. Tail(cli.fifo) \in Seq(ClientEvents) /\ ClientEvents' = ClientEvents
    BY <1>1, <2>1, TailOfQueue DEF Inv, ClientInv, ClientEvents, Given
  <2>3. cli' = [state |-> cli.state, last |-> cli.last, copies |-> cli.copies,
                fifo |-> Tail(cli.fifo)]
    BY <2>1 DEF Inv, ClientInv
  <2>4. ClientInv'
    BY <2>1, <2>2, <2>3 DEF Inv, ClientInv
  <2> QED
    BY <1>1, <1>2, <2>1, <2>3, <2>4 DEF Outcome, NetInv, Given, RequestIsOver
<1>12. Good
  BY <1>3, <1>4, <1>5, <1>6, <1>7, <1>8, <1>9, <1>10, <1>11 DEF ClientExecutes
<1>13. ServerTypes' /\ HeardInv' /\ EndInv' /\ AnswerInv'
  BY <1>1, <1>12, ServerStays
<1> QED
  BY <1>1, <1>12, <1>13 DEF Inv

-----------------------------------------------------------------------------
(* The server transaction.                                                 *)

\* An event is taken from the server's queue and its state changes.
LEMMA ServerTakes ==
  ASSUME Inv, UNCHANGED <<kind, uas, answers, heard>>, broke' \in {broke, TRUE},
         RequestIsOver => RequestIsOver',
         srv.fifo # <<>>, NEW state \in ServerStates, NEW last \in Given \cup {"none"},
         NEW copies \in Nat,
         srv' = [state |-> state, last |-> last, copies |-> copies, fifo |-> Tail(srv.fifo)],
         state = srv.state \/ {state, srv.state} \cap {"NONE", "PRE"} = {},
         state \in {"PROCEEDING", "COMPLETED"} => last # "none",
         state \in {"TRYING", "PROCEEDING"}
           => srv.state \in {"TRYING", "PROCEEDING"} /\ Head(srv.fifo) \notin Finals,
         state = "TERMINATED" /\ ~ (kind = "INVITE" /\ last = "2xx") => broke' \/ RequestIsOver'
  PROVE  ServerTypes' /\ HeardInv' /\ EndInv' /\ AnswerInv'
<1>1. /\ Head(srv.fifo) = srv.fifo[1] /\ Tail(srv.fifo) \in Seq(ServerEvents)
      /\ Len(srv.fifo) \in Nat \ {0} /\ Len(Tail(srv.fifo)) = Len(srv.fifo) - 1
      /\ \A i \in 1 .. Len(srv.fifo) - 1 : Tail(srv.fifo)[i] = srv.fifo[i + 1]
  BY TailOfQueue DEF Inv, ServerTypes
<1>2. /\ srv'.state = state /\ srv'.last = last /\ srv'.fifo = Tail(srv.fifo)
      /\ Given' = Given /\ ServerEvents' = ServerEvents
  BY DEF Given, ServerEvents
<1>3. ServerTypes'
  BY <1>1, <1>2 DEF Inv, ServerTypes
<1>4. HeardInv'
  BY <1>2 DEF Inv, HeardInv
<1>5. EndInv'
  <2>1. \A i \in 1 .. Len(srv'.fifo) : srv'.fifo[i] \in {"H", "I", "J"} => RequestIsOver'
    <3>1. \A i \in 1 .. Len(srv.fifo) - 1 : i + 1 \in 1 .. Len(srv.fifo)
      BY <1>1
    <3> QED
      BY <1>1, <1>2, <3>1 DEF Inv, EndInv
  <2> QED
    BY <1>2, <2>1 DEF Inv, EndInv
<1>6. AnswerInv'
  <2> SUFFICES ASSUME ~ broke', state \in {"PRE", "TRYING", "PROCEEDING"},
                      kind = "INVITE" => uas = "early", answers # {}
               PROVE  \E i \in 1 .. Len(srv'.fifo) : srv'.fifo[i] \in Finals
    BY <1>2 DEF AnswerInv
  <2>1. state # "PRE"
    BY DEF Inv, HeardInv
  <2>2. srv.state \in {"TRYING", "PROCEEDING"} /\ srv.fifo[1] \notin Finals
    BY <1>1, <2>1
  <2>3. PICK i \in 1 .. Len(srv.fifo) : srv.fifo[i] \in Finals
    BY <2>2 DEF Inv, AnswerInv
  <2>4. i - 1 \in 1 .. Len(srv'.fifo) /\ srv'.fifo[i - 1] = srv.fifo[i]
    <3>1. i # 1
      BY <2>2, <2>3
    <3>2. i - 1 \in 1 .. Len(srv.fifo) - 1 /\ (i - 1) + 1 = i
      BY <1>1, <3>1
    <3> QED
      BY <1>1, <1>2, <3>2
  <2> QED
    BY <2>3, <2>4
<1> QED
  BY <1>3, <1>4, <1>5, <1>6

LEMMA HeadOfServer ==
  ASSUME Inv, NEW ev, NEW states, ServerGets(ev, states)
  PROVE  /\ ev \in ServerEvents /\ srv.fifo # <<>> /\ srv.state \in states
         /\ Head(srv.fifo) = ev /\ ev = srv.fifo[1] /\ 1 \in 1 .. Len(srv.fifo)
BY TailOfQueue DEF ServerGets, Inv, ServerTypes

LEMMA ServerMovesTo ==
  ASSUME Inv, NEW state, NEW last, ServerMoves(state, last)
  PROVE  /\ srv.copies \in Nat
         /\ srv' = [state |-> state, last |-> last, copies |-> srv.copies,
                    fifo |-> Tail(srv.fifo)]
BY DEF Inv, ServerTypes, ServerMoves

\* A response is sent, and the transaction goes on or is given up.
LEMMA RespondKeeps ==
  ASSUME Inv, UNCHANGED <<kind, cli, uas, answers, heard>>, NEW ok \in BOOLEAN,
         NEW r \in Given, NEW state \in {"PROCEEDING", "COMPLETED", "TERMINATED"},
         srv.fifo # <<>>, srv.state \in {"TRYING", "PROCEEDING", "COMPLETED"},
         state = "PROCEEDING"
           => srv.state \in {"TRYING", "PROCEEDING"} /\ Head(srv.fifo) \notin Finals,
         state = "TERMINATED" => kind = "INVITE" /\ r = "2xx",
         Respond(r, state, ok)
  PROVE  /\ NetInv' /\ ServerTypes' /\ HeardInv' /\ EndInv' /\ AnswerInv'
         /\ broke' \in {broke, TRUE} /\ (RequestIsOver => RequestIsOver')
<1>1. NetInv' /\ ("REQ" \notin net => "REQ" \notin net')
  <2>1. r # "REQ"
    BY DEF Given, Provisional, Finals, Inv
  <2> QED
    BY <2>1, SendKeepsNet DEF Respond, Inv
<1>2. RequestIsOver => RequestIsOver'
  BY <1>1 DEF RequestIsOver
<1> DEFINE st == IF ok THEN state ELSE "TERMINATED"
<1>3. broke' = (broke \/ ~ ok) /\ broke' \in {broke, TRUE}
  BY DEF Respond, Inv
<1>4. srv.copies \in Nat
      /\ srv' = [state |-> st, last |-> r, copies |-> srv.copies, fifo |-> Tail(srv.fifo)]
  BY ServerMovesTo DEF Respond
<1>5. st \in ServerStates /\ st \notin {"NONE", "PRE", "TRYING"} /\ r # "none"
  BY DEF ServerStates, Given, Provisional, Finals, Inv
<1>6. /\ st = "PROCEEDING" => state = "PROCEEDING"
      /\ st = "TERMINATED" /\ ~ (kind = "INVITE" /\ r = "2xx") => broke'
  BY <1>3
<1> HIDE DEF st
<1> QED
  BY <1>1, <1>2, <1>3, <1>4, <1>5, <1>6, ServerTakes, ZenonT(30)

LEMMA ServerStep ==
  ASSUME Inv, ServerExecutes
  PROVE  Inv' /\ Hearing /\ UNCHANGED <<told, answers>>
<1> DEFINE Good == NetInv' /\ ServerTypes' /\ HeardInv' /\ EndInv' /\ AnswerInv' /\ Hearing
<1>1. UNCHANGED <<kind, cvars, cli, told, uas, answers>> /\ srv.fifo # <<>>
      /\ srv.state \notin {"NONE", "TERMINATED"}
  BY DEF ServerExecutes, cvars, ServerAlive
<1>2. NetInv /\ broke \in BOOLEAN /\ srv.last \in Given \cup {"none"} /\ srv.state \in ServerStates
      /\ heard \in Nat
  BY DEF Inv, ServerTypes, HeardInv
<1>3. ASSUME NEW ok \in BOOLEAN, rcv_request_again(ok) PROVE Good
  <2>1. srv.state \in {"PROCEEDING", "COMPLETED"} /\ Head(srv.fifo) = "REQ" /\ srv.last \in Given
        /\ "REQ" \notin Finals
    BY <1>3, <1>2, HeadOfServer DEF rcv_request_again, Inv, ServerTypes, Finals
  <2> QED
    BY <1>1, <1>3, <2>1, RespondKeeps DEF rcv_request_again, Hearing
<1>4. ASSUME NEW ok \in BOOLEAN, snd_1xx(ok) PROVE Good
  <2>1. srv.state \in {"TRYING", "PROCEEDING"} /\ Head(srv.fifo) = "1xx" /\ "1xx" \in Given
        /\ "1xx" \notin Finals
    BY <1>4, HeadOfServer DEF snd_1xx, Given, Provisional, Finals
  <2> QED
    BY <1>1, <1>4, <2>1, RespondKeeps DEF snd_1xx, Hearing
<1>5. ASSUME NEW ok \in BOOLEAN, NEW r \in Finals, snd_final(r, ok) PROVE Good
  <2>1. srv.state \in {"TRYING", "PROCEEDING"} /\ r \in Given
    BY <1>5, HeadOfServer DEF snd_final, ServerEvents, ServerTimers, Finals
  <2>2. CASE kind = "INVITE" /\ r = "2xx"
    BY <1>1, <1>5, <2>1, <2>2, RespondKeeps DEF snd_final, Hearing
  <2>3. CASE ~ (kind = "INVITE" /\ r = "2xx")
    BY <1>1, <1>5, <2>1, <2>3, RespondKeeps DEF snd_final, Hearing
  <2> QED
    BY <2>2, <2>3
<1>6. ASSUME NEW ok \in BOOLEAN, osip_ist_timeout_g_event(ok) PROVE Good
  <2>1. srv.state = "COMPLETED" /\ srv.last \in Given
    BY <1>6, <1>2, HeadOfServer DEF osip_ist_timeout_g_event, Inv, ServerTypes
  <2>2. srv.last \notin {"REQ", "none"}
    BY <2>1 DEF Given, Provisional, Finals, Inv
  <2>3. NetInv' /\ ("REQ" \notin net => "REQ" \notin net')
    BY <1>1, <1>2, <1>6, <2>1, <2>2, SendKeepsNet DEF osip_ist_timeout_g_event
  <2>4. RequestIsOver => RequestIsOver'
    BY <1>1, <2>3 DEF RequestIsOver
  <2> DEFINE st == IF ok THEN "COMPLETED" ELSE "TERMINATED"
  <2>5. /\ broke' = (broke \/ ~ ok) /\ broke' \in {broke, TRUE} /\ heard' = heard
        /\ srv.copies + 1 \in Nat
        /\ srv' = [state |-> st, last |-> srv.last, copies |-> srv.copies + 1,
                   fifo |-> Tail(srv.fifo)]
    <3>1. srv' = [srv EXCEPT !.fifo = Tail(@), !.copies = @ + 1,
                             !.state = IF ok THEN @ ELSE "TERMINATED"]
      BY <1>6 DEF osip_ist_timeout_g_event
    <3>2. /\ srv.copies + 1 \in Nat
          /\ srv' = [state |-> st, last |-> srv.last, copies |-> srv.copies + 1,
                     fifo |-> Tail(srv.fifo)]
      <4>1. srv = [state |-> srv.state, last |-> srv.last, copies |-> srv.copies,
                   fifo |-> srv.fifo] /\ srv.copies \in Nat
        BY DEF Inv, ServerTypes
      <4>2. srv' = [state |-> IF ok THEN srv.state ELSE "TERMINATED", last |-> srv.last,
                    copies |-> srv.copies + 1, fifo |-> Tail(srv.fifo)]
        BY <3>1, <4>1
      <4> QED
        BY <2>1, <4>1, <4>2
    <3>3. broke' = (broke \/ ~ ok) /\ heard' = heard
      BY <1>6 DEF osip_ist_timeout_g_event
    <3> QED
      BY <1>2, <3>2, <3>3
  <2>6. st \in ServerStates /\ st \in {"COMPLETED", "TERMINATED"} /\ (st = "TERMINATED" => broke')
    BY <2>5 DEF ServerStates
  <2> HIDE DEF st
  <2>7. ServerTypes' /\ HeardInv' /\ EndInv' /\ AnswerInv'
    BY <1>1, <1>2, <2>1, <2>2, <2>4, <2>5, <2>6, ServerTakes
  <2> QED
    BY <2>3, <2>5, <2>7 DEF Hearing
<1>7. ASSUME nist_rcv_request PROVE Good
  <2>1. srv.state = "PRE" /\ Head(srv.fifo) = "REQ"
    BY <1>7, HeadOfServer DEF nist_rcv_request
  <2>2. /\ heard' = heard + 1 /\ net' = net /\ broke' = broke
        /\ srv' = [state |-> "TRYING", last |-> "none", copies |-> srv.copies,
                   fifo |-> Tail(srv.fifo)]
        /\ srv.copies \in Nat
    BY <1>7, ServerMovesTo DEF nist_rcv_request
  <2>3. kind = "REQUEST" /\ (heard = 0 \/ broke) /\ (~ broke => answers = {})
    BY <2>1 DEF Inv, HeardInv
  <2>4. NetInv' /\ (RequestIsOver => RequestIsOver')
    BY <1>1, <1>2, <2>2 DEF NetInv, Given, RequestIsOver
  <2>5. /\ Tail(srv.fifo) \in Seq(ServerEvents) /\ Len(srv.fifo) \in Nat \ {0}
        /\ Len(Tail(srv.fifo)) = Len(srv.fifo) - 1
        /\ \A i \in 1 .. Len(srv.fifo) - 1 : Tail(srv.fifo)[i] = srv.fifo[i + 1]
    BY <1>1, TailOfQueue DEF Inv, ServerTypes
  <2>6. ServerTypes'
    <3>1. "TRYING" \in ServerStates /\ Given' = Given /\ ServerEvents' = ServerEvents
      BY <1>1 DEF ServerStates, Given, ServerEvents
    <3> QED
      BY <1>1, <2>2, <2>5, <3>1 DEF Inv, ServerTypes
  <2>7. HeardInv'
    BY <1>1, <1>2, <2>2, <2>3 DEF Inv, HeardInv
  <2>8. EndInv'
    <3>1. \A i \in 1 .. Len(srv.fifo) - 1 : i + 1 \in 1 .. Len(srv.fifo)
      BY <2>5
    <3>2. \A i \in 1 .. Len(srv'.fifo) : srv'.fifo[i] \in {"H", "I", "J"} => RequestIsOver'
      BY <2>2, <2>4, <2>5, <3>1 DEF Inv, EndInv
    <3> QED
      BY <1>1, <2>2, <2>3, <3>2 DEF Inv, EndInv
  <2>9. AnswerInv'
    BY <1>1, <2>2, <2>3 DEF AnswerInv
  <2> QED
    BY <1>2, <2>2, <2>3, <2>4, <2>6, <2>7, <2>8, <2>9 DEF Hearing
<1>8. ASSUME UNCHANGED <<heard, net, broke>>, NEW state \in ServerStates,
             srv' = [state |-> state, last |-> srv.last, copies |-> srv.copies,
                     fifo |-> Tail(srv.fifo)],
             state = srv.state \/ (state \in {"CONFIRMED", "TERMINATED"} /\ srv.state # "PRE"),
             state \in {"TRYING", "PROCEEDING"} => Head(srv.fifo) \notin Finals,
             state = "TERMINATED" => RequestIsOver
      PROVE  Good
  <2>1. NetInv' /\ (RequestIsOver => RequestIsOver')
    BY <1>1, <1>2, <1>8 DEF NetInv, Given, RequestIsOver
  <2>2. srv.copies \in Nat /\ (state \in {"PROCEEDING", "COMPLETED"} => srv.last # "none")
        /\ broke' \in {broke, TRUE}
    BY <1>2, <1>8 DEF Inv, ServerTypes
  <2>3. ServerTypes' /\ HeardInv' /\ EndInv' /\ AnswerInv'
    BY <1>1, <1>2, <1>8, <2>1, <2>2, ServerTakes
  <2> QED
    BY <1>8, <2>1, <2>2, <2>3 DEF Hearing
<1>9. ASSUME ist_rcv_ack PROVE Good
  <2>1. srv.state \in {"COMPLETED", "CONFIRMED"} /\ "CONFIRMED" \in ServerStates
    BY <1>9, HeadOfServer DEF ist_rcv_ack, ServerStates
  <2>2. srv' = [state |-> "CONFIRMED", last |-> srv.last, copies |-> srv.copies,
                fifo |-> Tail(srv.fifo)]
    BY <1>9, ServerMovesTo DEF ist_rcv_ack
  <2> QED
    BY <1>8, <1>9, <2>1, <2>2 DEF ist_rcv_ack
<1>10. ASSUME timeout_end PROVE Good
  <2>1. srv.state \in {"COMPLETED", "CONFIRMED"} /\ RequestIsOver
    BY <1>10, HeadOfServer DEF timeout_end, Inv, EndInv
  <2>2. srv' = [state |-> "TERMINATED", last |-> srv.last, copies |-> srv.copies,
                fifo |-> Tail(srv.fifo)]
    BY <1>10, ServerMovesTo DEF timeout_end
  <2>3. "TERMINATED" \in ServerStates
    BY DEF ServerStates
  <2> QED
    BY <1>8, <1>10, <2>1, <2>2, <2>3 DEF timeout_end
<1>11. ASSUME server_discards PROVE Good
  <2>1. srv' = [state |-> srv.state, last |-> srv.last, copies |-> srv.copies,
                fifo |-> Tail(srv.fifo)]
    BY <1>11 DEF server_discards, Inv, ServerTypes
  <2>2. srv.state \in {"TRYING", "PROCEEDING"} => Head(srv.fifo) \notin Finals
    BY <1>11 DEF server_discards, ServerAccepts, Responses
  <2> QED
    BY <1>1, <1>2, <1>8, <1>11, <2>1, <2>2 DEF server_discards
<1>12. Good
  BY <1>3, <1>4, <1>5, <1>6, <1>7, <1>9, <1>10, <1>11 DEF ServerExecutes
<1>13. ClientInv'
  BY <1>1, ClientStays
<1> QED
  BY <1>1, <1>2, <1>12, <1>13 DEF Inv, Hearing

-----------------------------------------------------------------------------
(* The caller's eXosip and the network.                                    *)

\* Something is put behind what the client's queue holds.
LEMMA ClientQueues ==
  ASSUME Inv, NEW ev \in ClientEvents, cli' = [cli EXCEPT !.fifo = Append(@, ev)],
         UNCHANGED <<kind, told, svars, broke>>, NetInv', net' \subseteq net
  PROVE  Inv'
<1>1. UNCHANGED answers /\ ClientEvents' = ClientEvents
  BY DEF svars, ClientEvents, Given
<1>2. Append(cli.fifo, ev) \in Seq(ClientEvents)
  BY DEF Inv, ClientInv
<1>3. cli' = [state |-> cli.state, last |-> cli.last, copies |-> cli.copies,
              fifo |-> Append(cli.fifo, ev)]
  BY DEF Inv, ClientInv
<1>4. ClientInv'
  BY <1>1, <1>2, <1>3 DEF Inv, ClientInv
<1>5. RequestIsOver => RequestIsOver'
  BY <1>3 DEF RequestIsOver
<1> QED
  BY <1>1, <1>4, <1>5, ServerStays DEF Inv

LEMMA ClientTimerStep ==
  ASSUME Inv, NEW t \in ClientTimers, ClientTimer(t)
  PROVE  Inv' /\ UNCHANGED <<told, heard, answers, broke>>
<1>1. t \in ClientEvents
  BY DEF ClientTimer, ClientTimersOf, ClientEvents, Inv, Kinds
<1>2. UNCHANGED <<kind, told, svars, broke, net, answers, heard>>
  BY DEF ClientTimer, svars
<1>3. NetInv'
  BY <1>2 DEF Inv, NetInv, Given
<1> QED
  BY <1>1, <1>2, <1>3, ClientQueues DEF ClientTimer

LEMMA ReceiveResponseStep ==
  ASSUME Inv, NEW r \in Responses, ReceiveResponse(r)
  PROVE  Inv' /\ UNCHANGED <<told, heard, answers, broke>>
<1>1. r \in ClientEvents
  BY DEF ReceiveResponse, Take, Inv, NetInv, ClientEvents, Given, Responses, Provisional, Finals
<1>2. UNCHANGED <<kind, told, svars, broke, answers, heard>>
  BY DEF ReceiveResponse, svars
<1>3. NetInv' /\ net' \subseteq net
  BY <1>2, TakeKeepsNet DEF ReceiveResponse, Inv
<1> QED
  BY <1>1, <1>2, <1>3, ClientQueues DEF ReceiveResponse

\* The rest of the caller's side only sends other messages than the request.
LEMMA OthersKeep ==
  ASSUME Inv, UNCHANGED <<kind, cli, told, svars, broke>>,
         NetInv', "REQ" \notin net => "REQ" \notin net'
  PROVE  Inv' /\ UNCHANGED <<told, heard, answers, broke>>
<1>1. UNCHANGED <<heard, answers>>
  BY DEF svars
<1>2. RequestIsOver => RequestIsOver'
  BY DEF RequestIsOver
<1> QED
  BY <1>1, <1>2, ServerStays, ClientStays DEF Inv

LEMMA CallerStep ==
  ASSUME Inv,
         \/ \E r \in Responses : eXosip_process_response_out_of_transaction(r)
         \/ \E ok \in BOOLEAN : eXosip_call_send_ack(ok)
         \/ eXosip_process_bye_of_callee
         \/ ReceiveLateAck
         \/ \E m \in Messages : Lose(m)
  PROVE  Inv' /\ UNCHANGED <<told, heard, answers, broke>>
<1>1. ASSUME NEW r \in Responses, eXosip_process_response_out_of_transaction(r)
      PROVE  /\ NetInv' /\ ("REQ" \notin net => "REQ" \notin net')
             /\ UNCHANGED <<kind, cli, told, svars, broke>>
  <2> DEFINE sent == CASE kind = "INVITE" /\ called /\ uac = "acked" /\ r # "100" -> {"ACK2"}
                      [] kind = "INVITE" /\ called /\ uac = "closed" /\ r \in {"1xx", "2xx"} ->
                           {"ACK2", "BYE of caller"}
                      [] OTHER -> {}
  <2>1. sent \subseteq {"ACK2", "BYE of caller"}
    OBVIOUS
  <2>2. net' = (net \ {r}) \cup sent /\ UNCHANGED <<kind, cli, told, svars, broke>>
    BY <1>1 DEF eXosip_process_response_out_of_transaction, TakeAndSend, cvars
  <2> HIDE DEF sent
  <2> QED
    BY <2>1, <2>2 DEF Inv, NetInv, Given, svars
<1>2. ASSUME NEW ok \in BOOLEAN, eXosip_call_send_ack(ok)
      PROVE  /\ NetInv' /\ ("REQ" \notin net => "REQ" \notin net')
             /\ UNCHANGED <<kind, cli, told, svars, broke>>
  BY <1>2, SendKeepsNet DEF eXosip_call_send_ack, Inv, svars
<1>3. ASSUME eXosip_process_bye_of_callee
      PROVE  /\ NetInv' /\ ("REQ" \notin net => "REQ" \notin net')
             /\ UNCHANGED <<kind, cli, told, svars, broke>>
  BY <1>3 DEF eXosip_process_bye_of_callee, TakeAndSend, Inv, NetInv, Given, svars
<1>4. ASSUME ReceiveLateAck
      PROVE  /\ NetInv' /\ ("REQ" \notin net => "REQ" \notin net')
             /\ UNCHANGED <<kind, cli, told, svars, broke>>
  BY <1>4, TakeKeepsNet DEF ReceiveLateAck, Inv, cvars, svars
<1>5. ASSUME NEW m \in Messages, Lose(m)
      PROVE  /\ NetInv' /\ ("REQ" \notin net => "REQ" \notin net')
             /\ UNCHANGED <<kind, cli, told, svars, broke>>
  BY <1>5 DEF Lose, Inv, NetInv, Given, cvars, svars
<1> QED
  BY <1>1, <1>2, <1>3, <1>4, <1>5, OthersKeep

LEMMA ReleaseCallStep ==
  ASSUME Inv, NEW state \in {"TERMINATED", "PROCEEDING"}, eXosip_release_call(state)
  PROVE  Inv' /\ Outcome /\ UNCHANGED <<heard, answers, broke>>
<1>1. UNCHANGED <<kind, svars, net, broke, heard, answers>> /\ cli.state = state
  BY DEF eXosip_release_call, svars
<1>2. cli' = [state |-> "TERMINATED", last |-> cli.last, copies |-> cli.copies, fifo |-> cli.fifo]
  BY DEF eXosip_release_call, Inv, ClientInv
<1>3. ClientInv'
  BY <1>1, <1>2 DEF Inv, ClientInv, ClientStates, ClientEvents, Given
<1>4. NetInv' /\ (RequestIsOver => RequestIsOver')
  BY <1>1, <1>2 DEF Inv, NetInv, Given, RequestIsOver
<1>5. Outcome
  <2>1. CASE told = <<>> /\ uac # "closed"
    <3>1. told' = Append(told, "failure")
      BY <2>1 DEF eXosip_release_call, Tell
    <3>2. told' = <<"failure">>
      BY <2>1, <3>1
    <3> QED
      BY <2>1, <3>2 DEF Outcome
  <2>2. CASE ~ (told = <<>> /\ uac # "closed")
    BY <2>2 DEF eXosip_release_call, Outcome
  <2> QED
    BY <2>1, <2>2
<1> QED
  BY <1>1, <1>3, <1>4, <1>5, ServerStays DEF Inv

-----------------------------------------------------------------------------
(* The callee's eXosip.                                                    *)

\* Something is put behind what the server's queue holds.
LEMMA ServerQueues ==
  ASSUME Inv, NEW ev \in ServerEvents, srv' = [srv EXCEPT !.fifo = Append(@, ev)],
         UNCHANGED <<kind, uas, answers, heard, broke>>,
         RequestIsOver => RequestIsOver', ev \in {"H", "I", "J"} => RequestIsOver
  PROVE  ServerTypes' /\ HeardInv' /\ EndInv' /\ AnswerInv'
<1> DEFINE n == Len(srv.fifo)
<1>1. /\ n \in Nat /\ Append(srv.fifo, ev) \in Seq(ServerEvents)
      /\ Len(Append(srv.fifo, ev)) = n + 1 /\ Append(srv.fifo, ev)[n + 1] = ev
      /\ \A i \in 1 .. n : Append(srv.fifo, ev)[i] = srv.fifo[i]
  BY DEF Inv, ServerTypes
<1>2. srv' = [state |-> srv.state, last |-> srv.last, copies |-> srv.copies,
              fifo |-> Append(srv.fifo, ev)]
  BY DEF Inv, ServerTypes
<1>3. ServerTypes' /\ HeardInv'
  BY <1>1, <1>2 DEF Inv, ServerTypes, HeardInv, ServerEvents, Given
<1>4. EndInv'
  <2>1. ASSUME NEW i \in 1 .. n + 1, srv'.fifo[i] \in {"H", "I", "J"}
        PROVE  RequestIsOver'
    <3>1. CASE i \in 1 .. n
      BY <1>1, <1>2, <2>1, <3>1 DEF Inv, EndInv
    <3>2. CASE i = n + 1
      BY <1>1, <1>2, <2>1, <3>2
    <3> QED
      BY <1>1, <3>1, <3>2
  <2> QED
    BY <1>1, <1>2, <2>1 DEF Inv, EndInv
<1>5. AnswerInv'
  <2>1. ASSUME NEW i \in 1 .. n, srv.fifo[i] \in Finals
        PROVE  i \in 1 .. n + 1 /\ srv'.fifo[i] \in Finals
    BY <1>1, <1>2, <2>1
  <2> QED
    BY <1>1, <1>2, <2>1 DEF Inv, AnswerInv
<1> QED
  BY <1>3, <1>4, <1>5

LEMMA QueueStep ==
  ASSUME Inv,
         (\E t \in ServerTimers : ServerTimer(t)) \/ (\E m \in Messages : ReceiveInTransaction(m))
  PROVE  Inv' /\ UNCHANGED <<told, heard, answers, broke>>
<1>1. ASSUME NEW t \in ServerTimers, ServerTimer(t)
      PROVE  Inv' /\ UNCHANGED <<told, heard, answers, broke>>
  <2>1. UNCHANGED <<kind, cli, told, uas, answers, heard, broke, net>>
        /\ srv' = [srv EXCEPT !.fifo = Append(@, t)] /\ t \in ServerEvents
        /\ (t \in {"H", "I", "J"} => RequestIsOver)
    BY <1>1 DEF ServerTimer, cvars, ServerEvents
  <2>2. NetInv' /\ (RequestIsOver => RequestIsOver')
    BY <2>1 DEF Inv, NetInv, Given, RequestIsOver
  <2> QED
    BY <2>1, <2>2, ServerQueues, ClientStays DEF Inv
<1>2. ASSUME NEW m \in Messages, ReceiveInTransaction(m)
      PROVE  Inv' /\ UNCHANGED <<told, heard, answers, broke>>
  <2>1. UNCHANGED <<kind, cli, told, uas, answers, heard, broke>> /\ m \in {"REQ", "ACK"}
        /\ srv' = [srv EXCEPT !.fifo = Append(@, m)] /\ m \in ServerEvents
    BY <1>2 DEF ReceiveInTransaction, cvars, ServerEvents
  <2>2. NetInv' /\ net' \subseteq net
    BY <1>2, <2>1, TakeKeepsNet DEF ReceiveInTransaction, Inv
  <2>3. RequestIsOver => RequestIsOver'
    BY <2>1, <2>2 DEF RequestIsOver
  <2> QED
    BY <2>1, <2>2, <2>3, ServerQueues, ClientStays DEF Inv
<1> QED
  BY <1>1, <1>2

LEMMA NewInviteStep ==
  ASSUME Inv, NEW ok \in BOOLEAN, kind = "INVITE", "REQ" \in net, ~ ServerAlive,
         eXosip_process_new_invite(ok), UNCHANGED <<kind, cvars, answers, stray>>
  PROVE  Inv' /\ Hearing /\ UNCHANGED <<told, answers>>
<1>1. UNCHANGED <<kind, cli, told, answers>> /\ Given' = Given /\ ServerEvents' = ServerEvents
      /\ broke \in BOOLEAN
  BY DEF cvars, Given, ServerEvents, Inv
<1>2. heard = 0 /\ heard' = 1 /\ answers = {} /\ uas' = "early" /\ ~ RequestIsOver
  BY DEF eXosip_process_new_invite, Inv, HeardInv, RequestIsOver
<1>3. /\ {"100", "1xx"} \subseteq Given
      /\ {"PROCEEDING", "TERMINATED"} \subseteq ServerStates
  BY DEF Given, Provisional, ServerStates
<1>4. /\ srv'.fifo = srv.fifo /\ broke' \in {broke, TRUE}
      /\ srv' \in [state : {"PROCEEDING", "TERMINATED"}, last : {"100", "1xx"},
                   copies : Nat, fifo : Seq(ServerEvents)]
      /\ srv'.state = "TERMINATED" => broke'
  <2>1. srv = [state |-> srv.state, last |-> srv.last, copies |-> srv.copies, fifo |-> srv.fifo]
        /\ srv.copies \in Nat /\ srv.fifo \in Seq(ServerEvents)
    BY DEF Inv, ServerTypes
  <2>2. CASE ok
    <3>1. srv' = [srv EXCEPT !.state = "PROCEEDING", !.last = "1xx"] /\ broke' = broke
      BY <2>2 DEF eXosip_process_new_invite
    <3> QED
      BY <2>1, <3>1
  <2>3. CASE ~ ok
    <3>1. broke' = TRUE
          /\ srv' = [srv EXCEPT !.state = "TERMINATED",
                                !.last = IF "100" \in net' \ net THEN "1xx" ELSE "100"]
      BY <2>3 DEF eXosip_process_new_invite
    <3>2. PICK x \in {"100", "1xx"} : x = IF "100" \in net' \ net THEN "1xx" ELSE "100"
      OBVIOUS
    <3>3. srv' = [srv EXCEPT !.state = "TERMINATED", !.last = x]
      BY <3>1, <3>2
    <3> QED
      BY <2>1, <3>1, <3>3
  <2> QED
    BY <2>2, <2>3
<1>5. NetInv'
  <2>1. net' \subseteq net \cup {"100", "1xx"}
    BY DEF eXosip_process_new_invite
  <2> QED
    BY <1>1, <1>3, <2>1 DEF Inv, NetInv
<1>6. ServerTypes' /\ HeardInv'
  BY <1>1, <1>2, <1>3, <1>4 DEF ServerTypes, HeardInv
<1>7. EndInv'
  BY <1>1, <1>2, <1>4 DEF Inv, EndInv
<1>8. AnswerInv'
  BY <1>1, <1>2 DEF AnswerInv
<1>9. ClientInv'
  BY <1>1, ClientStays
<1>10. Inv'
  BY <1>1, <1>4, <1>5, <1>6, <1>7, <1>8, <1>9 DEF Inv
<1>11. Hearing
  <2>1. heard' = heard + 1
    BY <1>2
  <2>2. broke' \in {broke, TRUE}
    BY <1>4
  <2> QED
    BY <2>1, <2>2, <1>2 DEF Hearing
<1>12. UNCHANGED <<told, answers>>
  BY <1>1
<1> QED
  BY <1>10, <1>11, <1>12

LEMMA NewRequestStep ==
  ASSUME Inv, eXosip_process_newrequest
  PROVE  Inv' /\ Hearing /\ UNCHANGED <<told, answers>>
<1>1. UNCHANGED <<kind, cli, told, answers>> /\ "REQ" \in net /\ ~ RequestIsOver
      /\ broke \in BOOLEAN /\ heard \in Nat /\ kind \in Kinds /\ ClientInv'
  <2>1. UNCHANGED <<kind, cli, told, answers>>
    BY DEF eXosip_process_newrequest, cvars
  <2> QED
    BY <2>1, ClientStays DEF eXosip_process_newrequest, Inv, HeardInv, RequestIsOver
<1>2. CASE kind = "INVITE" /\ \E ok \in BOOLEAN : eXosip_process_new_invite(ok)
  BY <1>2, NewInviteStep DEF eXosip_process_newrequest
<1>3. CASE kind = "INVITE" /\ ReceiveInviteAgain
  <2>1. heard > 0 /\ heard' \in {heard, heard + 1} /\ UNCHANGED <<srv, uas, broke>>
    BY <1>3 DEF ReceiveInviteAgain
  <2>2. NetInv'
    BY <1>1, <1>3, TakeKeepsNet DEF ReceiveInviteAgain, Inv
  <2>3. heard' = heard \/ (broke /\ heard' = heard + 1)
    BY <1>1, <1>3 DEF ReceiveInviteAgain, Inv, ServerTypes, EndInv
  <2>4. ServerTypes' /\ AnswerInv'
    BY <1>1, <2>1 DEF Inv, ServerTypes, AnswerInv, ServerEvents, Given
  <2>5. HeardInv'
    BY <1>1, <2>1, <2>3 DEF Inv, HeardInv
  <2>6. EndInv'
    BY <1>1, <2>1 DEF Inv, EndInv
  <2> QED
    BY <1>1, <2>1, <2>2, <2>3, <2>4, <2>5, <2>6 DEF Inv, Hearing
<1>4. CASE kind = "REQUEST"
  <2>1. /\ srv' = [state |-> "PRE", last |-> "none", copies |-> 0, fifo |-> <<"REQ">>]
        /\ UNCHANGED <<uas, heard, broke>> /\ Take("REQ") /\ ~ ServerAlive
    BY <1>4 DEF eXosip_process_newrequest
  <2>2. heard = 0 \/ broke
    <3>1. CASE srv.state = "NONE"
      BY <3>1 DEF Inv, HeardInv
    <3>2. CASE srv.state = "TERMINATED"
      BY <1>1, <1>4, <3>2 DEF Inv, EndInv
    <3> QED
      BY <2>1, <3>1, <3>2 DEF ServerAlive
  <2>3. NetInv'
    BY <1>1, <2>1, TakeKeepsNet DEF Inv
  <2>4. ServerTypes'
    <3>1. <<"REQ">> \in Seq(ServerEvents') /\ "PRE" \in ServerStates /\ 0 \in Nat
      BY DEF ServerEvents, ServerStates
    <3> QED
      BY <1>1, <2>1, <3>1 DEF Inv, ServerTypes
  <2>5. HeardInv' /\ AnswerInv'
    BY <1>1, <1>4, <2>1, <2>2 DEF Inv, HeardInv, AnswerInv
  <2>6. EndInv'
    <3>1. \A i \in 1 .. Len(srv'.fifo) : srv'.fifo[i] = "REQ"
      BY <2>1
    <3> QED
      BY <1>1, <1>4, <2>1, <3>1 DEF Inv, EndInv
  <2> QED
    BY <1>1, <2>1, <2>3, <2>4, <2>5, <2>6 DEF Inv, Hearing
<1> QED
  BY <1>1, <1>2, <1>3, <1>4 DEF eXosip_process_newrequest, Kinds

LEMMA SendAnswerStep ==
  ASSUME Inv, NEW r \in Responses, SendAnswer(r)
  PROVE  Inv' /\ Answering /\ UNCHANGED <<told, heard, broke>>
<1> DEFINE n == Len(srv.fifo)
<1>1. /\ UNCHANGED <<kind, cli, told, heard, net, broke>>
      /\ srv.state \in {"TRYING", "PROCEEDING"} /\ (kind = "INVITE" => uas = "early")
      /\ r \in Finals \cup {"1xx"} /\ (r = "1xx" => kind = "REQUEST")
      /\ srv' = [srv EXCEPT !.fifo = Append(@, r)]
      /\ answers' = answers \cup ({r} \cap Finals)
  BY DEF SendAnswer, cvars
<1>2. uas' = uas \/ (uas' = "waiting" /\ r = "2xx" /\ kind = "INVITE")
  BY DEF SendAnswer
<1>3. heard > 0
  BY <1>1 DEF Inv, HeardInv
<1>4. r \in Finals /\ r \in answers => broke
  <2>1. ~ \E i \in 1 .. Len(srv.fifo) : srv.fifo[i] \in Finals
    BY DEF SendAnswer, Holds, Responses, Inv, ServerTypes
  <2> QED
    BY <1>1, <2>1 DEF Inv, AnswerInv
<1>5. Answering
  BY <1>1, <1>3, <1>4 DEF Answering, Finals
<1>6. /\ answers \subseteq answers' /\ answers' \subseteq Finals
      /\ Given \subseteq Given' /\ r \in Given' /\ ServerEvents \subseteq ServerEvents'
      /\ r \in ServerEvents'
  BY <1>1 DEF Given, ServerEvents, Provisional, Inv
<1>7. NetInv'
  BY <1>1, <1>6 DEF Inv, NetInv
<1>8. /\ n \in Nat /\ Append(srv.fifo, r) \in Seq(ServerEvents')
      /\ Len(Append(srv.fifo, r)) = n + 1 /\ Append(srv.fifo, r)[n + 1] = r
      /\ \A i \in 1 .. n : Append(srv.fifo, r)[i] = srv.fifo[i]
  <2>1. srv.fifo \in Seq(ServerEvents')
    BY <1>6, SeqGrows DEF Inv, ServerTypes
  <2> QED
    BY <1>6, <2>1
<1>9. srv' = [state |-> srv.state, last |-> srv.last, copies |-> srv.copies,
              fifo |-> Append(srv.fifo, r)]
  BY <1>1 DEF Inv, ServerTypes
<1>10. ServerTypes'
  BY <1>1, <1>2, <1>6, <1>8, <1>9 DEF Inv, ServerTypes, Finals
<1>11. HeardInv'
  BY <1>1, <1>3, <1>9 DEF Inv, HeardInv
<1>12. EndInv'
  <2>1. \A i \in 1 .. n + 1 : srv'.fifo[i] \in {"H", "I", "J"} => RequestIsOver
    <3>1. r \notin {"H", "I", "J"}
      BY <1>1 DEF Finals
    <3> QED
      BY <1>8, <1>9, <3>1 DEF Inv, EndInv
  <2>2. RequestIsOver' = RequestIsOver
    BY <1>1 DEF RequestIsOver
  <2> QED
    BY <1>1, <1>2, <1>8, <1>9, <2>1, <2>2 DEF Inv, EndInv
<1>13. AnswerInv'
  <2>1. CASE r \in Finals
    <3>1. n + 1 \in 1 .. Len(srv'.fifo) /\ srv'.fifo[n + 1] \in Finals
      BY <1>8, <1>9, <2>1
    <3> QED
      BY <3>1 DEF AnswerInv
  <2>2. CASE r \notin Finals
    <3>1. answers' = answers /\ uas' = uas
      BY <1>1, <1>2, <2>2 DEF Finals
    <3>2. \A i \in 1 .. n : i \in 1 .. n + 1 /\ srv'.fifo[i] = srv.fifo[i]
      BY <1>8, <1>9
    <3> QED
      BY <1>1, <1>8, <1>9, <3>1, <3>2 DEF Inv, AnswerInv
  <2> QED
    BY <2>1, <2>2
<1> QED
  BY <1>1, <1>5, <1>6, <1>7, <1>10, <1>11, <1>12, <1>13, ClientStays DEF Inv

\* The callee's dialog changes, or its call is released.
LEMMA CalleeKeeps ==
  ASSUME Inv, UNCHANGED <<kind, cli, told, heard, answers>>, broke' \in {broke, TRUE},
         NetInv', "REQ" \notin net => "REQ" \notin net',
         \/ UNCHANGED srv
         \/ srv.state = "PROCEEDING" /\ broke' /\ srv' = [srv EXCEPT !.state = "TERMINATED"],
         uas' \in {uas, "none", "confirmed", "closed"},
         uas' = "closed" => uas = "closed" \/ broke',
         uas' = "none" /\ kind = "INVITE" => uas = "none" \/ broke' \/ RequestIsOver
  PROVE  Inv' /\ Hearing /\ UNCHANGED <<told, answers>>
<1>1. RequestIsOver => RequestIsOver'
  BY DEF RequestIsOver
<1>2. /\ srv'.state = srv.state \/ (srv.state = "PROCEEDING" /\ srv'.state = "TERMINATED" /\ broke')
      /\ srv'.last = srv.last /\ srv'.fifo = srv.fifo
      /\ srv' \in [state : ServerStates, last : Given \cup {"none"}, copies : Nat,
                   fifo : Seq(ServerEvents)]
  <2>1. "TERMINATED" \in ServerStates
    BY DEF ServerStates
  <2> QED
    BY <2>1 DEF Inv, ServerTypes
<1>3. Given' = Given /\ ServerEvents' = ServerEvents /\ broke \in BOOLEAN
  BY DEF Given, ServerEvents, Inv
<1>4. ServerTypes' /\ HeardInv'
  BY <1>2, <1>3 DEF Inv, ServerTypes, HeardInv
<1>5. EndInv'
  BY <1>1, <1>2, <1>3 DEF Inv, EndInv
<1>6. AnswerInv'
  BY <1>2, <1>3 DEF Inv, AnswerInv
<1>7. ClientInv'
  BY ClientStays
<1> QED
  BY <1>3, <1>4, <1>5, <1>6, <1>7 DEF Inv, Hearing

LEMMA CalleeStep ==
  ASSUME Inv,
         \/ eXosip_process_ack \/ eXosip_process_bye_of_caller
         \/ eXosip_retransmit_lost200ok \/ eXosip_release_incoming_call
  PROVE  Inv' /\ Hearing /\ UNCHANGED <<told, answers>>
<1>1. broke \in BOOLEAN /\ NetInv
  BY DEF Inv
<1>2. CASE eXosip_process_ack
  <2>1. /\ UNCHANGED <<kind, cli, told, heard, answers, srv, broke>>
        /\ uas' \in {uas, "confirmed"}
    BY <1>2 DEF eXosip_process_ack, cvars
  <2>2. NetInv' /\ net' \subseteq net
    BY <1>1, <1>2, <2>1, TakeKeepsNet DEF eXosip_process_ack
  <2> QED
    BY <1>1, <2>1, <2>2, CalleeKeeps
<1>3. CASE eXosip_process_bye_of_caller
  <2>1. /\ UNCHANGED <<kind, cli, told, heard, answers, srv>>
        /\ (uas' = uas /\ broke' = broke) \/ (uas' = "closed" /\ broke' = TRUE)
        /\ net' \subseteq net
    BY <1>3 DEF eXosip_process_bye_of_caller, TakeAndSend, cvars
  <2>2. NetInv'
    BY <1>1, <2>1 DEF NetInv, Given
  <2> QED
    BY <1>1, <2>1, <2>2, CalleeKeeps
<1>4. CASE eXosip_retransmit_lost200ok
  <2>1. /\ UNCHANGED <<kind, cli, told, heard, answers, srv>> /\ uas = "waiting"
        /\ (uas' = uas /\ broke' = broke) \/ (uas' = "closed" /\ broke' = TRUE)
        /\ net' \subseteq net \cup {"2xx", "BYE of callee"}
    BY <1>4 DEF eXosip_retransmit_lost200ok, cvars
  <2>2. NetInv'
    BY <1>1, <2>1 DEF Inv, ServerTypes, NetInv, Given
  <2> QED
    BY <1>1, <2>1, <2>2, CalleeKeeps
<1>5. CASE eXosip_release_incoming_call
  <2>1. /\ UNCHANGED <<kind, cli, told, heard, answers, net>> /\ kind = "INVITE"
        /\ uas \in {"early", "closed"} /\ uas' = "none"
    BY <1>5 DEF eXosip_release_incoming_call, cvars
  <2>2. NetInv'
    BY <1>1, <2>1 DEF NetInv, Given
  <2>3. CASE srv.state = "TERMINATED" /\ srv.last = "3xx" /\ UNCHANGED <<srv, broke>>
    <3>1. broke \/ RequestIsOver
      BY <2>3 DEF Inv, EndInv
    <3> QED
      BY <1>1, <2>1, <2>2, <2>3, <3>1, CalleeKeeps
  <2>4. CASE /\ srv.state = "PROCEEDING" /\ broke' = TRUE
             /\ srv' = [srv EXCEPT !.state = "TERMINATED"]
    BY <1>1, <2>1, <2>2, <2>4, CalleeKeeps
  <2> QED
    BY <1>5, <2>3, <2>4 DEF eXosip_release_incoming_call
<1> QED
  BY <1>2, <1>3, <1>4, <1>5

-----------------------------------------------------------------------------
(* The theorems.                                                           *)

LEMMA InitIsInv == Init => Inv
<1> SUFFICES ASSUME Init PROVE Inv
  OBVIOUS
<1>1. <<"SND">> \in Seq(ClientEvents) /\ <<>> \in Seq(ServerEvents) /\ Len(<<>>) = 0
  BY DEF ClientEvents, ServerEvents
<1>2. ClientInv
  BY <1>1 DEF Init, ClientInv, ClientStates
<1>3. ServerTypes /\ HeardInv /\ AnswerInv
  BY <1>1 DEF Init, ServerTypes, ServerStates, HeardInv, AnswerInv
<1>4. EndInv
  BY DEF Init, EndInv
<1> QED
  BY <1>2, <1>3, <1>4 DEF Init, Inv, NetInv

\* What a step may be, seen from the exchange.
Seen ==
  \/ Outcome /\ UNCHANGED <<heard, answers, broke>>
  \/ Hearing /\ UNCHANGED <<told, answers>>
  \/ Answering /\ UNCHANGED <<told, heard, broke>>

LEMMA StutterStep == Inv /\ UNCHANGED vars => Inv' /\ Seen
<1> SUFFICES ASSUME Inv, UNCHANGED vars PROVE Inv' /\ Seen
  OBVIOUS
<1>1. UNCHANGED <<kind, cli, told, svars, broke, net, answers, heard>>
  BY DEF vars, cvars, svars
<1>2. NetInv' /\ (RequestIsOver => RequestIsOver')
  BY <1>1 DEF Inv, NetInv, Given, RequestIsOver
<1>3. ClientInv' /\ ServerTypes' /\ HeardInv' /\ EndInv' /\ AnswerInv'
  BY <1>1, <1>2, ClientStays, ServerStays
<1> QED
  BY <1>1, <1>2, <1>3 DEF Inv, Seen, Outcome

LEMMA StepKeepsInv == Inv /\ [Next]_vars => Inv' /\ Seen
<1> SUFFICES ASSUME Inv, Next PROVE Inv' /\ Seen
  BY StutterStep
<1>1. CASE ClientExecutes
  <2>1. UNCHANGED <<heard, answers, broke>>
    BY <1>1 DEF ClientExecutes, svars
  <2> QED
    BY <1>1, <2>1, ClientStep DEF Seen
<1>2. CASE ServerExecutes
  BY <1>2, ServerStep DEF Seen
<1>3. CASE \E t \in ClientTimers : ClientTimer(t)
  BY <1>3, ClientTimerStep DEF Seen, Outcome
<1>4. CASE \E t \in ServerTimers : ServerTimer(t)
  BY <1>4, QueueStep DEF Seen, Outcome
<1>5. ASSUME NEW m \in Messages, Receive(m) PROVE Inv' /\ Seen
  <2>1. CASE m \in Responses /\ ReceiveResponse(m)
    BY <2>1, ReceiveResponseStep DEF Seen, Outcome
  <2>2. CASE (m \in Responses /\ eXosip_process_response_out_of_transaction(m))
             \/ ReceiveLateAck \/ eXosip_process_bye_of_callee
    BY <2>2, CallerStep DEF Seen, Outcome
  <2>3. CASE ReceiveInTransaction(m)
    BY <2>3, QueueStep DEF Seen, Outcome
  <2>4. CASE eXosip_process_newrequest
    BY <2>4, NewRequestStep DEF Seen
  <2>5. CASE eXosip_process_ack \/ eXosip_process_bye_of_caller
    BY <2>5, CalleeStep DEF Seen
  <2> QED
    BY <1>5, <2>1, <2>2, <2>3, <2>4, <2>5 DEF Receive
<1>6. CASE \E ok \in BOOLEAN : eXosip_call_send_ack(ok)
  BY <1>6, CallerStep DEF Seen, Outcome
<1>7. CASE eXosip_retransmit_lost200ok
  BY <1>7, CalleeStep DEF Seen
<1>8. CASE Release
  <2>1. CASE eXosip_release_incoming_call
    BY <2>1, CalleeStep DEF Seen
  <2>2. CASE eXosip_release_call("TERMINATED") \/ eXosip_release_call("PROCEEDING")
    BY <2>2, ReleaseCallStep DEF Seen
  <2> QED
    BY <1>8, <2>1, <2>2 DEF Release, eXosip_release_unanswered_call
<1>9. CASE \E m \in Messages : Lose(m)
  BY <1>9, CallerStep DEF Seen, Outcome
<1>10. CASE \E r \in Responses : SendAnswer(r)
  BY <1>10, SendAnswerStep DEF Seen
<1> QED
  BY <1>1, <1>2, <1>3, <1>4, <1>5, <1>6, <1>7, <1>8, <1>9, <1>10 DEF Next, Work

LEMMA SeenIsExchange ==
  ASSUME Inv, Seen
  PROVE  [E!Next]_(E!vars)
<1>1. CASE Outcome /\ UNCHANGED <<heard, answers, broke>>
  BY <1>1 DEF Inv, Outcome, E!Next, E!Conclude, E!vars
<1>2. CASE Hearing /\ UNCHANGED <<told, answers>>
  BY <1>2 DEF Inv, Hearing, E!Next, E!Hear, E!GiveUp, E!vars
<1>3. CASE Answering /\ UNCHANGED <<told, heard, broke>>
  BY <1>3 DEF Inv, Answering, E!Next, E!Answer, E!vars
<1> QED
  BY <1>1, <1>2, <1>3 DEF Seen

\* Only answers that were given travel; nothing is told before the transaction
\* has an answer or ends; and a transaction that ends its life by a timer leaves
\* no copy of the request behind (ict_fsm.c, nict_fsm.c, ist_fsm.c, nist_fsm.c).
THEOREM TransactionInvariance == Spec => []Inv
<1>1. Inv /\ [Next]_vars => Inv'
  BY StepKeepsInv
<1> QED
  BY <1>1, InitIsInv, PTL DEF Spec

\* The exchange that Exchange describes is what the two transactions and eXosip
\* make of a network that loses, delays, reorders and duplicates: the callee
\* hears of a request once, the caller is told one outcome.
THEOREM ExchangeIsImplemented == Spec => Implements
<1>1. Init => E!Init
  BY DEF Init, E!Init
<1>2. Inv /\ [Next]_vars => [E!Next]_(E!vars)
  BY StepKeepsInv, SeenIsExchange
<1> QED
  BY <1>1, <1>2, TransactionInvariance, PTL DEF Spec, Implements, E!Spec

-----------------------------------------------------------------------------
(* The types: the fifos and the counters keep their bounds.                *)

\* A timer that repeats is queued while a repetition is left, and is alone.
Paced(tr, timers, repeats) ==
  /\ Len(tr.fifo) <= MaxFifo /\ tr.copies <= MaxCopies
  /\ \A i, j \in 1 .. Len(tr.fifo) :
       tr.fifo[i] \in timers /\ tr.fifo[j] \in timers => i = j
  /\ \A i \in 1 .. Len(tr.fifo) : tr.fifo[i] \in repeats => tr.copies < MaxCopies

\* What any step does to the fifo and to the count of a transaction.
Goes(tr, new, timers, repeats) ==
  \/ new.fifo = tr.fifo /\ new.copies = tr.copies
  \/ tr.fifo # <<>> /\ new.fifo = Tail(tr.fifo) /\ new.copies = tr.copies
  \/ /\ tr.fifo # <<>> /\ new.fifo = Tail(tr.fifo)
     /\ Head(tr.fifo) \in repeats /\ new.copies = tr.copies + 1
  \/ /\ Len(tr.fifo) < MaxFifo /\ new.copies = tr.copies
     /\ \E ev : /\ new.fifo = Append(tr.fifo, ev)
                /\ ev \in timers => ~ Holds(tr.fifo, timers)
                /\ ev \in repeats => tr.copies < MaxCopies
  \/ new.fifo = <<"REQ">> /\ new.copies = 0

\* The variables that Inv says nothing of.
RestOK ==
  /\ uac \in {"none", "early", "answered", "acked", "closed"}
  /\ called \in BOOLEAN /\ count \in 0 .. MaxCopies /\ faults \in 0 .. MaxFaults
  /\ stray \in BOOLEAN /\ told \in Seq(Finals \cup {"failure"})

TInv ==
  /\ Inv /\ RestOK
  /\ Paced(cli, ClientTimers, {"A", "E"}) /\ Paced(srv, ServerTimers, {"G"})

LEMMA GoesPaced ==
  ASSUME NEW tr, NEW new, NEW timers, NEW repeats, NEW S, tr.fifo \in Seq(S),
         tr.copies \in Nat, repeats \subseteq timers, "REQ" \notin timers,
         Paced(tr, timers, repeats), Goes(tr, new, timers, repeats)
  PROVE  Paced(new, timers, repeats)
<1>1. MaxCopies \in Nat /\ MaxFifo \in Nat \ {0} /\ Len(tr.fifo) \in Nat
  BY BoundsAssumption
<1> DEFINE n == Len(tr.fifo)
<1>2. CASE new.fifo = tr.fifo /\ new.copies = tr.copies
  BY <1>2 DEF Paced
<1>3. CASE tr.fifo # <<>> /\ new.fifo = Tail(tr.fifo)
           /\ \/ new.copies = tr.copies
              \/ Head(tr.fifo) \in repeats /\ new.copies = tr.copies + 1
  <2>1. /\ n \in Nat \ {0} /\ Len(new.fifo) = n - 1 /\ Head(tr.fifo) = tr.fifo[1]
        /\ \A i \in 1 .. n - 1 : new.fifo[i] = tr.fifo[i + 1]
    BY <1>3, TailOfQueue
  <2>2. \A i \in 1 .. n - 1 : i + 1 \in 1 .. n /\ i + 1 # 1
    BY <2>1
  <2>3. ASSUME NEW i \in 1 .. n - 1, NEW j \in 1 .. n - 1,
               new.fifo[i] \in timers, new.fifo[j] \in timers
        PROVE  i = j
    <3>1. i + 1 = j + 1
      BY <2>1, <2>2, <2>3 DEF Paced
    <3> QED
      BY <3>1
  <2>4. CASE new.copies = tr.copies
    <3>1. \A i \in 1 .. n - 1 : new.fifo[i] \in repeats => new.copies < MaxCopies
      BY <2>1, <2>2, <2>4 DEF Paced
    <3> QED
      BY <1>1, <2>1, <2>3, <2>4, <3>1 DEF Paced
  <2>5. CASE Head(tr.fifo) \in repeats /\ new.copies = tr.copies + 1
    <3>1. 1 \in 1 .. n /\ tr.fifo[1] \in timers /\ tr.copies < MaxCopies
      BY <2>1, <2>5 DEF Paced
    <3>2. \A i \in 1 .. n - 1 : new.fifo[i] \notin timers
      BY <2>1, <2>2, <3>1 DEF Paced
    <3>3. new.copies <= MaxCopies /\ Len(new.fifo) <= MaxFifo
      BY <1>1, <2>1, <2>5, <3>1 DEF Paced
    <3> QED
      BY <2>1, <3>2, <3>3 DEF Paced
  <2> QED
    BY <1>3, <2>4, <2>5
<1>4. ASSUME NEW ev, n < MaxFifo, new.copies = tr.copies, new.fifo = Append(tr.fifo, ev),
             ev \in timers => ~ Holds(tr.fifo, timers), ev \in repeats => tr.copies < MaxCopies
      PROVE  Paced(new, timers, repeats)
  <2>1. /\ Len(new.fifo) = n + 1 /\ new.fifo[n + 1] = ev
        /\ \A i \in 1 .. n : new.fifo[i] = tr.fifo[i]
    BY <1>4
  <2>2. \A i \in 1 .. n + 1 : i \in 1 .. n \/ i = n + 1
    BY <1>1
  <2>3. ev \in timers => \A i \in 1 .. n : tr.fifo[i] \notin timers
    BY <1>4 DEF Holds
  <2>4. ASSUME NEW i \in 1 .. n + 1, NEW j \in 1 .. n + 1,
               new.fifo[i] \in timers, new.fifo[j] \in timers
        PROVE  i = j
    BY <2>1, <2>2, <2>3, <2>4 DEF Paced
  <2>5. \A i \in 1 .. n + 1 : new.fifo[i] \in repeats => new.copies < MaxCopies
    BY <1>4, <2>1, <2>2 DEF Paced
  <2>6. Len(new.fifo) <= MaxFifo /\ new.copies <= MaxCopies
    BY <1>1, <1>4, <2>1 DEF Paced
  <2> QED
    BY <2>1, <2>4, <2>5, <2>6 DEF Paced
<1>5. CASE new.fifo = <<"REQ">> /\ new.copies = 0
  <2>1. Len(new.fifo) = 1 /\ \A i \in 1 .. 1 : new.fifo[i] \notin timers
    BY <1>5
  <2> QED
    BY <1>1, <1>5, <2>1 DEF Paced
<1> QED
  BY <1>2, <1>3, <1>4, <1>5 DEF Goes

\* The transactions that no step touches.
LEMMA GoesNowhere ==
  ASSUME NEW tr, NEW timers, NEW repeats
  PROVE  Goes(tr, tr, timers, repeats)
BY DEF Goes

ClientGoes == Goes(cli, cli', ClientTimers, {"A", "E"})
ServerGoes == Goes(srv, srv', ServerTimers, {"G"})

LEMMA ClientExecutesGoes ==
  ASSUME Inv, ClientExecutes
  PROVE  ClientGoes
<1> DEFINE popped == cli' = [cli EXCEPT !.fifo = Tail(@), !.state = cli'.state,
                                        !.last = cli'.last]
           again == cli' = [cli EXCEPT !.fifo = Tail(@), !.copies = @ + 1]
<1>1. cli \in [state : ClientStates, last : Responses \cup {"none"}, copies : Nat,
               fifo : Seq(ClientEvents)]
  BY DEF Inv, ClientInv
<1>2. cli.fifo # <<>> /\ (popped \/ (Head(cli.fifo) \in {"A", "E"} /\ again))
  <2>1. \A st, last : ClientMoves(st, last) => popped
    BY <1>1 DEF ClientMoves
  <2>2. \A last : Kill(last) => popped
    BY <2>1 DEF Kill
  <2>3. cli' = [cli EXCEPT !.fifo = Tail(@)] => popped
    BY <1>1
  <2> HIDE DEF popped, again
  <2>4. ASSUME NEW ok \in BOOLEAN, timeout_retransmit(ok)
        PROVE  cli.fifo # <<>> /\ (popped \/ (Head(cli.fifo) \in {"A", "E"} /\ again))
    BY <2>2, <2>4 DEF timeout_retransmit, ClientGets, again
  <2>5. ASSUME NEW ok \in BOOLEAN,
               snd_request(ok) \/ ict_rcv_3456xx(ok) \/ ict_retransmit_ack(ok)
        PROVE  cli.fifo # <<>> /\ popped
    BY <2>1, <2>2, <2>5
    DEF snd_request, ict_rcv_3456xx, ict_retransmit_ack, ClientGets
  <2>6. ASSUME NEW r, rcv_1xx(r) \/ nict_rcv_23456xx(r) PROVE cli.fifo # <<>> /\ popped
    BY <2>1, <2>6 DEF rcv_1xx, nict_rcv_23456xx, ClientGets
  <2>7. CASE ict_rcv_2xx \/ timeout_kill \/ client_discards
    BY <2>1, <2>2, <2>3, <2>7 DEF ict_rcv_2xx, timeout_kill, client_discards, ClientGets
  <2> QED
    BY <2>4, <2>5, <2>6, <2>7 DEF ClientExecutes
<1>3. CASE popped
  BY <1>1, <1>2, <1>3 DEF ClientGoes, Goes
<1>4. CASE Head(cli.fifo) \in {"A", "E"} /\ again
  BY <1>1, <1>2, <1>4 DEF ClientGoes, Goes
<1> QED
  BY <1>2, <1>3, <1>4

LEMMA ServerExecutesGoes ==
  ASSUME Inv, ServerExecutes
  PROVE  ServerGoes
<1> DEFINE popped ==
                     srv' = [srv EXCEPT !.fifo = Tail(@), !.state = srv'.state,
                                        !.last = srv'.last]
           again == srv' = [srv EXCEPT !.fifo = Tail(@), !.copies = @ + 1,
                                       !.state = srv'.state]
<1>1. srv \in [state : ServerStates, last : Given \cup {"none"}, copies : Nat,
               fifo : Seq(ServerEvents)] /\ srv.fifo # <<>>
  BY DEF Inv, ServerTypes, ServerExecutes
<1>2. popped \/ (Head(srv.fifo) \in {"G"} /\ again)
  <2>1. \A st, last : ServerMoves(st, last) => popped
    BY <1>1 DEF ServerMoves
  <2>2. \A r, st, ok : Respond(r, st, ok) => popped
    BY <2>1 DEF Respond
  <2>3. srv' = [srv EXCEPT !.fifo = Tail(@)] => popped
    BY <1>1
  <2>4. ASSUME NEW ok \in BOOLEAN, osip_ist_timeout_g_event(ok)
        PROVE  Head(srv.fifo) \in {"G"} /\ again
    BY <1>1, <2>4 DEF osip_ist_timeout_g_event, ServerGets
  <2> HIDE DEF popped, again
  <2>5. ASSUME NEW ok \in BOOLEAN,
               \/ rcv_request_again(ok) \/ snd_1xx(ok)
               \/ \E r \in Finals : snd_final(r, ok)
        PROVE  popped
    BY <2>2, <2>5 DEF rcv_request_again, snd_1xx, snd_final
  <2>6. CASE nist_rcv_request \/ ist_rcv_ack \/ timeout_end \/ server_discards
    BY <2>1, <2>3, <2>6 DEF nist_rcv_request, ist_rcv_ack, timeout_end, server_discards
  <2> QED
    BY <2>4, <2>5, <2>6 DEF ServerExecutes
<1>3. CASE popped
  BY <1>1, <1>3 DEF ServerGoes, Goes
<1>4. CASE Head(srv.fifo) \in {"G"} /\ again
  BY <1>1, <1>4 DEF ServerGoes, Goes
<1> QED
  BY <1>2, <1>3, <1>4

\* Timers, messages and answers are queued behind what the fifo holds; the rest
\* leaves the fifos alone, but for the request that begins a transaction.
LEMMA NextGoes ==
  ASSUME Inv, Next
  PROVE  ClientGoes /\ ServerGoes
<1>1. /\ cli \in [state : ClientStates, last : Responses \cup {"none"}, copies : Nat,
                  fifo : Seq(ClientEvents)]
      /\ srv \in [state : ServerStates, last : Given \cup {"none"}, copies : Nat,
                  fifo : Seq(ServerEvents)]
  BY DEF Inv, ClientInv, ServerTypes
<1>2. (cli' = cli => ClientGoes) /\ (srv' = srv => ServerGoes)
  BY GoesNowhere DEF ClientGoes, ServerGoes
<1>3. ASSUME NEW ev, Len(cli.fifo) < MaxFifo, cli' = [cli EXCEPT !.fifo = Append(@, ev)],
             ev \in ClientTimers => ~ Holds(cli.fifo, ClientTimers),
             ev \in {"A", "E"} => cli.copies < MaxCopies
      PROVE  ClientGoes
  <2>1. cli'.fifo = Append(cli.fifo, ev) /\ cli'.copies = cli.copies
    BY <1>1, <1>3
  <2> QED
    BY <1>3, <2>1 DEF ClientGoes, Goes
<1>4. ASSUME NEW ev, Len(srv.fifo) < MaxFifo, srv' = [srv EXCEPT !.fifo = Append(@, ev)],
             ev \in ServerTimers => ~ Holds(srv.fifo, ServerTimers),
             ev = "G" => srv.copies < MaxCopies
      PROVE  ServerGoes
  <2>1. srv'.fifo = Append(srv.fifo, ev) /\ srv'.copies = srv.copies
    BY <1>1, <1>4
  <2> QED
    BY <1>4, <2>1 DEF ServerGoes, Goes
<1>5. CASE ClientExecutes
  BY <1>2, <1>5, ClientExecutesGoes DEF ClientExecutes, svars
<1>6. CASE ServerExecutes
  BY <1>2, <1>6, ServerExecutesGoes DEF ServerExecutes, cvars
<1>7. ASSUME NEW t \in ClientTimers, ClientTimer(t) PROVE ClientGoes /\ ServerGoes
  BY <1>2, <1>3, <1>7 DEF ClientTimer, svars
<1>8. ASSUME NEW t \in ServerTimers, ServerTimer(t) PROVE ClientGoes /\ ServerGoes
  BY <1>2, <1>4, <1>8 DEF ServerTimer, cvars
<1>9. ASSUME NEW m \in Messages, Receive(m) PROVE ClientGoes /\ ServerGoes
  <2>1. CASE m \in Responses /\ ReceiveResponse(m)
    <3>1. m \notin ClientTimers
      BY <2>1 DEF Responses, Provisional, Finals, ClientTimers
    <3> QED
      BY <1>2, <1>3, <2>1, <3>1 DEF ReceiveResponse, svars, ClientTimers
  <2>2. CASE ReceiveInTransaction(m)
    <3>1. m \notin ServerTimers /\ m # "G"
      BY <2>2 DEF ReceiveInTransaction, ServerTimers
    <3> QED
      BY <1>2, <1>4, <2>2, <3>1 DEF ReceiveInTransaction, cvars
  <2>3. CASE eXosip_process_newrequest
    <3>1. cli' = cli
      BY <2>3 DEF eXosip_process_newrequest, cvars
    <3>2. CASE kind = "INVITE"
      <4>1. srv'.fifo = srv.fifo /\ srv'.copies = srv.copies
        BY <1>1, <2>3, <3>2
        DEF eXosip_process_newrequest, eXosip_process_new_invite, ReceiveInviteAgain
      <4> QED
        BY <1>2, <3>1, <4>1 DEF ServerGoes, Goes
    <3>3. CASE kind # "INVITE"
      <4>1. srv'.fifo = <<"REQ">> /\ srv'.copies = 0
        BY <2>3, <3>3 DEF eXosip_process_newrequest
      <4> QED
        BY <1>2, <3>1, <4>1 DEF ServerGoes, Goes
    <3> QED
      BY <3>2, <3>3
  <2>4. CASE \/ eXosip_process_response_out_of_transaction(m)
             \/ ReceiveLateAck \/ eXosip_process_ack
             \/ eXosip_process_bye_of_caller \/ eXosip_process_bye_of_callee
    BY <1>2, <2>4
    DEF eXosip_process_response_out_of_transaction, ReceiveLateAck, eXosip_process_ack,
        eXosip_process_bye_of_caller, eXosip_process_bye_of_callee, cvars, svars
  <2> QED
    BY <1>9, <2>1, <2>2, <2>3, <2>4 DEF Receive
<1>10. CASE \E ok \in BOOLEAN : eXosip_call_send_ack(ok)
  BY <1>2, <1>10 DEF eXosip_call_send_ack, svars
<1>11. CASE eXosip_retransmit_lost200ok
  BY <1>2, <1>11 DEF eXosip_retransmit_lost200ok, cvars
<1>12. ASSUME NEW state, eXosip_release_call(state) PROVE ClientGoes /\ ServerGoes
  <2>1. cli'.fifo = cli.fifo /\ cli'.copies = cli.copies
    BY <1>1, <1>12 DEF eXosip_release_call
  <2> QED
    BY <1>2, <1>12, <2>1 DEF eXosip_release_call, svars, ClientGoes, Goes
<1>13. CASE eXosip_release_incoming_call
  <2>1. srv'.fifo = srv.fifo /\ srv'.copies = srv.copies
    BY <1>1, <1>13 DEF eXosip_release_incoming_call
  <2> QED
    BY <1>2, <1>13, <2>1 DEF eXosip_release_incoming_call, cvars, ServerGoes, Goes
<1>14. CASE \E m \in Messages : Lose(m)
  BY <1>2, <1>14 DEF Lose, cvars, svars
<1>15. ASSUME NEW r \in Responses, SendAnswer(r) PROVE ClientGoes /\ ServerGoes
  <2>1. r \notin ServerTimers /\ r # "G"
    BY DEF Responses, Provisional, Finals, ServerTimers
  <2> QED
    BY <1>2, <1>4, <1>15, <2>1 DEF SendAnswer, cvars
<1> QED
  BY <1>5, <1>6, <1>7, <1>8, <1>9, <1>10, <1>11, <1>12, <1>13, <1>14, <1>15
  DEF Next, Work, Release, eXosip_release_unanswered_call

\* A fault is counted, and none is left out.
Counted == \/ UNCHANGED faults
           \/ faults < MaxFaults /\ faults' = faults + 1

LEMMA SendCounts ==
  ASSUME NEW m, NEW ok, Send(m, ok)
  PROVE  Counted
BY Zenon DEF Send, Counted

LEMMA TakeCounts ==
  ASSUME NEW m, Take(m)
  PROVE  Counted
BY Zenon DEF Take, Counted

LEMMA ClientCounts ==
  ASSUME ClientExecutes
  PROVE  Counted
<1>1. ASSUME NEW ok \in BOOLEAN,
             \/ snd_request(ok) \/ timeout_retransmit(ok)
             \/ ict_rcv_3456xx(ok) \/ ict_retransmit_ack(ok)
      PROVE  \E m : Send(m, ok)
  BY <1>1, Zenon DEF snd_request, timeout_retransmit, ict_rcv_3456xx, ict_retransmit_ack
<1>2. ASSUME NEW r \in Provisional, rcv_1xx(r) PROVE Counted
  BY <1>2, Zenon DEF rcv_1xx, Counted
<1>3. ASSUME NEW r \in Finals, nict_rcv_23456xx(r) PROVE Counted
  BY <1>3, Zenon DEF nict_rcv_23456xx, Counted
<1>4. CASE ict_rcv_2xx \/ timeout_kill \/ client_discards
  BY <1>4, Zenon DEF ict_rcv_2xx, timeout_kill, client_discards, Counted
<1> QED
  BY <1>1, <1>2, <1>3, <1>4, SendCounts, Zenon DEF ClientExecutes

LEMMA ServerCounts ==
  ASSUME ServerExecutes
  PROVE  Counted
<1>1. ASSUME NEW ok \in BOOLEAN,
             \/ rcv_request_again(ok) \/ snd_1xx(ok) \/ osip_ist_timeout_g_event(ok)
             \/ \E r \in Finals : snd_final(r, ok)
      PROVE  \E m : Send(m, ok)
  BY <1>1, Zenon DEF rcv_request_again, snd_1xx, osip_ist_timeout_g_event, snd_final, Respond
<1>2. CASE nist_rcv_request \/ ist_rcv_ack \/ timeout_end \/ server_discards
  BY <1>2, Zenon DEF nist_rcv_request, ist_rcv_ack, timeout_end, server_discards, Counted
<1> QED
  BY <1>1, <1>2, SendCounts, Zenon DEF ServerExecutes

LEMMA ReceiveCounts ==
  ASSUME NEW m, Receive(m)
  PROVE  Counted
<1>1. CASE eXosip_process_newrequest
  <2>1. CASE kind = "INVITE"
    BY <1>1, <2>1, SendCounts, Zenon
    DEF eXosip_process_newrequest, eXosip_process_new_invite, ReceiveInviteAgain, Counted,
        Take, TakeAndSend
  <2> QED
    BY <1>1, <2>1, TakeCounts, Zenon DEF eXosip_process_newrequest
<1>2. CASE ReceiveResponse(m) \/ ReceiveInTransaction(m)
  BY <1>2, TakeCounts, Zenon DEF ReceiveResponse, ReceiveInTransaction
<1>3. CASE \/ eXosip_process_response_out_of_transaction(m)
           \/ ReceiveLateAck \/ eXosip_process_ack
           \/ eXosip_process_bye_of_caller \/ eXosip_process_bye_of_callee
  BY <1>3, Zenon
  DEF eXosip_process_response_out_of_transaction, ReceiveLateAck, eXosip_process_ack,
      eXosip_process_bye_of_caller, eXosip_process_bye_of_callee, TakeAndSend, Take, Counted
<1> QED
  BY <1>1, <1>2, <1>3, Zenon DEF Receive

LEMMA FaultsBounded ==
  ASSUME RestOK, Next
  PROVE  faults' \in 0 .. MaxFaults
<1>1. ASSUME NEW t \in ClientTimers, ClientTimer(t) PROVE Counted
  BY <1>1, Zenon DEF ClientTimer, Counted
<1>2. ASSUME NEW t \in ServerTimers, ServerTimer(t) PROVE Counted
  BY <1>2, Zenon DEF ServerTimer, Counted
<1>3. ASSUME NEW r \in Responses, SendAnswer(r) PROVE Counted
  BY <1>3, Zenon DEF SendAnswer, Counted
<1>4. ASSUME NEW m \in Messages, Lose(m) PROVE Counted
  BY <1>4, Zenon DEF Lose, Counted
<1>5. ASSUME NEW ok \in BOOLEAN, eXosip_call_send_ack(ok) PROVE Counted
  BY <1>5, SendCounts, Zenon DEF eXosip_call_send_ack
<1>6. ASSUME eXosip_retransmit_lost200ok PROVE Counted
  BY <1>6, Zenon DEF eXosip_retransmit_lost200ok, Counted
<1>7. ASSUME Release PROVE Counted
  BY <1>7, Zenon
  DEF Release, eXosip_release_unanswered_call, eXosip_release_call,
      eXosip_release_incoming_call, Counted
<1>8. Counted
  BY <1>1, <1>2, <1>3, <1>4, <1>5, <1>6, <1>7, ClientCounts, ServerCounts, ReceiveCounts, Zenon
  DEF Next, Work
<1> QED
  BY <1>8, BoundsAssumption DEF RestOK, Counted

\* The dialog of the caller, its call, and the BYE that ended none.
LEMMA CallerBounded ==
  ASSUME RestOK, Next
  PROVE  /\ uac' \in {"none", "early", "answered", "acked", "closed"}
         /\ called' \in BOOLEAN /\ stray' \in BOOLEAN /\ count' \in 0 .. MaxCopies
<1> DEFINE Fine == /\ uac' \in {"none", "early", "answered", "acked", "closed"}
                   /\ called' \in BOOLEAN /\ stray' \in BOOLEAN
                   /\ count' \in 0 .. MaxCopies
<1>0. 0 \in 0 .. MaxCopies
  BY BoundsAssumption
<1>1. UNCHANGED <<uac, called, stray, count>> => Fine
  BY DEF RestOK
<1>2. CASE ClientExecutes
  <2>1. uac' \in {uac, "early", "answered", "closed"} /\ UNCHANGED <<called, stray, count>>
    BY <1>2
    DEF ClientExecutes, snd_request, timeout_retransmit, ict_rcv_3456xx, ict_retransmit_ack,
        rcv_1xx, nict_rcv_23456xx, ict_rcv_2xx, timeout_kill, client_discards, svars
  <2> QED
    BY <2>1 DEF RestOK
<1>3. CASE ServerExecutes
  BY <1>1, <1>3 DEF ServerExecutes, cvars
<1>4. ASSUME NEW m \in Messages, Receive(m) PROVE Fine
  <2>1. CASE eXosip_process_newrequest
    BY <1>0, <1>1, <2>1
    DEF eXosip_process_newrequest, eXosip_process_new_invite, ReceiveInviteAgain, cvars,
        RestOK
  <2>2. CASE \/ ReceiveResponse(m) \/ eXosip_process_response_out_of_transaction(m)
             \/ ReceiveInTransaction(m) \/ ReceiveLateAck \/ eXosip_process_ack
    BY <1>1, <2>2
    DEF ReceiveResponse, eXosip_process_response_out_of_transaction, ReceiveInTransaction,
        ReceiveLateAck, eXosip_process_ack, cvars, svars
  <2>3. CASE eXosip_process_bye_of_caller \/ eXosip_process_bye_of_callee
    BY <1>1, <2>3
    DEF eXosip_process_bye_of_caller, eXosip_process_bye_of_callee, cvars, svars, RestOK
  <2> QED
    BY <1>4, <2>1, <2>2, <2>3 DEF Receive
<1>5. CASE \/ \E t \in ClientTimers : ClientTimer(t)
           \/ \E t \in ServerTimers : ServerTimer(t)
  BY <1>1, <1>5 DEF ClientTimer, ServerTimer, cvars, svars
<1>6. CASE \E m \in Messages : Lose(m)
  BY <1>1, <1>6 DEF Lose, cvars, svars
<1>7. CASE \E r \in Responses : SendAnswer(r)
  <2>1. UNCHANGED <<uac, called, stray>> /\ (count' = count \/ count' = 0)
    BY <1>7 DEF SendAnswer, cvars
  <2> QED
    BY <1>0, <2>1 DEF RestOK
<1>8. CASE \E ok \in BOOLEAN : eXosip_call_send_ack(ok)
  BY <1>8 DEF eXosip_call_send_ack, RestOK, svars
<1>9. CASE eXosip_retransmit_lost200ok
  <2>1. UNCHANGED <<uac, called, stray>>
        /\ (count' = 0 \/ (count # MaxCopies /\ count' = count + 1))
    BY <1>9 DEF eXosip_retransmit_lost200ok, cvars
  <2>2. count' \in 0 .. MaxCopies
    BY <1>0, <2>1, BoundsAssumption DEF RestOK
  <2> QED
    BY <2>1, <2>2 DEF RestOK
<1>10. CASE Release
  <2>1. uac' \in {uac, "none"} /\ called' \in {called, FALSE} /\ UNCHANGED <<stray, count>>
    BY <1>10
    DEF Release, eXosip_release_unanswered_call, eXosip_release_call,
        eXosip_release_incoming_call, cvars, svars
  <2> QED
    BY <2>1 DEF RestOK
<1> QED
  BY <1>2, <1>3, <1>4, <1>5, <1>6, <1>7, <1>8, <1>9, <1>10 DEF Next, Work

LEMMA StepKeepsTypes == TInv /\ [Next]_vars => TInv'
<1> SUFFICES ASSUME TInv, [Next]_vars PROVE TInv'
  OBVIOUS
<1>1. Inv' /\ Seen
  BY StepKeepsInv DEF TInv
<1>2. told' \in Seq(Finals \cup {"failure"})
  <2>1. told \in Seq(Finals \cup {"failure"}) /\ answers \subseteq Finals
    BY DEF TInv, RestOK, Inv
  <2>2. \A o \in Finals \cup {"failure"} : <<o>> \in Seq(Finals \cup {"failure"})
    OBVIOUS
  <2> QED
    BY <1>1, <2>1, <2>2 DEF Seen, Outcome
<1>3. CASE Next
  <2>1. RestOK'
    BY <1>2, <1>3, FaultsBounded, CallerBounded DEF TInv, RestOK
  <2>2. ClientGoes /\ ServerGoes
    BY <1>3, NextGoes DEF TInv
  <2>3. Paced(cli', ClientTimers, {"A", "E"})
    <3>1. cli.fifo \in Seq(ClientEvents) /\ cli.copies \in Nat
      BY DEF TInv, Inv, ClientInv
    <3>2. {"A", "E"} \subseteq ClientTimers /\ "REQ" \notin ClientTimers
      BY DEF ClientTimers
    <3> QED
      BY <2>2, <3>1, <3>2, GoesPaced DEF TInv, ClientGoes
  <2>4. Paced(srv', ServerTimers, {"G"})
    <3>1. srv.fifo \in Seq(ServerEvents) /\ srv.copies \in Nat
      BY DEF TInv, Inv, ServerTypes
    <3>2. {"G"} \subseteq ServerTimers /\ "REQ" \notin ServerTimers
      BY DEF ServerTimers
    <3> QED
      BY <2>2, <3>1, <3>2, GoesPaced DEF TInv, ServerGoes
  <2> QED
    BY <1>1, <2>1, <2>3, <2>4 DEF TInv
<1>4. CASE UNCHANGED vars
  BY <1>1, <1>4 DEF TInv, RestOK, vars, cvars, svars
<1> QED
  BY <1>3, <1>4

LEMMA InitIsTyped == Init => TInv
<1> SUFFICES ASSUME Init PROVE TInv
  OBVIOUS
<1>1. MaxCopies \in Nat /\ MaxFaults \in Nat /\ MaxFifo \in Nat \ {0}
  BY BoundsAssumption
<1>2. RestOK
  <2>1. 0 \in 0 .. MaxCopies /\ 0 \in 0 .. MaxFaults
    BY <1>1
  <2>2. uac = "none" /\ called = TRUE /\ stray = FALSE /\ count = 0 /\ faults = 0
        /\ told = <<>>
    BY Zenon DEF Init
  <2>3. told \in Seq(Finals \cup {"failure"})
    BY <2>2
  <2> QED
    BY <2>1, <2>2, <2>3, Zenon DEF RestOK
<1>3. Paced(cli, ClientTimers, {"A", "E"})
  <2>1. cli.fifo = <<"SND">> /\ cli.copies = 0 /\ Len(<<"SND">>) = 1
    BY DEF Init
  <2>2. \A i \in 1 .. 1 : <<"SND">>[i] \notin ClientTimers \cup {"A", "E"}
    BY DEF ClientTimers
  <2> QED
    BY <1>1, <2>1, <2>2 DEF Paced
<1>4. Paced(srv, ServerTimers, {"G"})
  <2>1. srv.fifo = <<>> /\ srv.copies = 0 /\ Len(<<>>) = 0
    BY DEF Init
  <2> QED
    BY <1>1, <2>1 DEF Paced
<1> QED
  BY <1>2, <1>3, <1>4, InitIsInv DEF TInv

LEMMA InvariantIsTyped == TInv => TypeOK
<1> SUFFICES ASSUME TInv PROVE TypeOK
  OBVIOUS
<1>1. /\ cli \in [state : ClientStates, last : Responses \cup {"none"}, copies : Nat,
                  fifo : Seq(ClientEvents)]
      /\ srv \in [state : ServerStates, last : Given \cup {"none"}, copies : Nat,
                  fifo : Seq(ServerEvents)]
  BY DEF TInv, Inv, ClientInv, ServerTypes
<1>2. answers \subseteq Finals /\ Given \subseteq Responses
  BY DEF TInv, Inv, Given, Responses
<1>3. /\ ClientEvents \subseteq Responses \cup ClientTimers \cup {"SND"}
      /\ ServerEvents \subseteq {"REQ", "ACK"} \cup ServerTimers \cup Responses
  BY <1>2 DEF ClientEvents, ServerEvents, ClientTimers
<1>4. /\ cli.fifo \in Seq(Responses \cup ClientTimers \cup {"SND"})
      /\ srv.fifo \in Seq({"REQ", "ACK"} \cup ServerTimers \cup Responses)
  <2> DEFINE C == Responses \cup ClientTimers \cup {"SND"}
             D == {"REQ", "ACK"} \cup ServerTimers \cup Responses
  <2>1. cli.fifo \in Seq(ClientEvents) /\ srv.fifo \in Seq(ServerEvents)
    BY <1>1
  <2>2. ClientEvents \subseteq C /\ ServerEvents \subseteq D
    BY <1>3
  <2> HIDE DEF C, D
  <2>3. cli.fifo \in Seq(C) /\ srv.fifo \in Seq(D)
    BY <2>1, <2>2, SeqGrows
  <2> QED
    BY <2>3 DEF C, D
<1>5. cli.copies \in 0 .. MaxCopies /\ srv.copies \in 0 .. MaxCopies
      /\ Len(cli.fifo) <= MaxFifo /\ Len(srv.fifo) <= MaxFifo
  BY <1>1, BoundsAssumption DEF TInv, Paced
<1>6. cli \in [state : ClientStates, last : Responses \cup {"none"},
               copies : 0 .. MaxCopies,
               fifo : Seq(Responses \cup ClientTimers \cup {"SND"})]
  BY <1>1, <1>4, <1>5
<1>7. srv \in [state : ServerStates, last : Responses \cup {"none"},
               copies : 0 .. MaxCopies,
               fifo : Seq({"REQ", "ACK"} \cup ServerTimers \cup Responses)]
  BY <1>1, <1>2, <1>4, <1>5
<1>8. net \subseteq Messages
  BY <1>2 DEF TInv, Inv, NetInv, Messages
<1>9. kind \in Kinds /\ heard \in Nat /\ broke \in BOOLEAN
      /\ uas \in {"none", "early", "waiting", "confirmed", "closed"}
  BY DEF TInv, Inv, HeardInv, ServerTypes
<1> QED
  BY <1>2, <1>5, <1>6, <1>7, <1>8, <1>9 DEF TInv, RestOK, TypeOK

\* The types: no fifo outgrows its bound and nothing is sent again more often
\* than its timer allows, since a transaction queues one timer at a time
\* (osip_timers_ict_execute, osip_timers_nict_execute, ...).
THEOREM TransactionTypes == Spec => []TypeOK
<1>1. Spec => []TInv
  BY InitIsTyped, StepKeepsTypes, PTL DEF Spec
<1> QED
  BY <1>1, InvariantIsTyped, PTL
=============================================================================
