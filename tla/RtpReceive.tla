----------------------------- MODULE RtpReceive -----------------------------
(***************************************************************************)
(* The receiving side of an RTP session of oRTP as mediastreamer2 uses it: *)
(* the packets read from the socket (rtp_session_rtp_parse), the jitter    *)
(* buffer's queue (rtp_putq, rtp_getq) and the packets given to the        *)
(* decoder (rtp_session_recvm_with_ts).                                    *)
(*                                                                         *)
(* Sequence numbers and timestamps wrap.  The sender may restart its       *)
(* timestamps or be replaced by another source; the network loses,         *)
(* duplicates and reorders.  Two streams are told apart by their SSRC and, *)
(* for a restart, by nothing: the session guesses from the timestamps.     *)
(*                                                                         *)
(* The averages of the jitter control (jitterctl.c) only decide which      *)
(* timestamp is wanted at a tick: any may be.                              *)
(***************************************************************************)
EXTENDS Integers, Sequences, FiniteSets

CONSTANTS
  SeqMod, TsMod,  \* 2^16 and 2^32
  TsJump,         \* ts_jump: the 5 seconds of rtp_session_set_time_jump_limit
  MaxQueue,       \* max_rq_size
  FirstSeqs, FirstTs,  \* numbers a source begins with
  Jumps,          \* what the sender adds to its timestamp to restart it, modulo
  MaxSent,        \* packets sent
  MaxLines,       \* restarts and changes of the source
  Window,         \* packets older than so many are no longer in transit
  MaxFaults       \* packets lost or duplicated

ASSUME ModuliAssumption ==
  /\ {SeqMod, TsMod, TsJump, MaxQueue, MaxSent, Window} \subseteq Nat \ {0}
  /\ SeqMod % 2 = 0 /\ TsMod % 2 = 0 /\ TsJump < TsMod \div 2
ASSUME SenderAssumption ==
  /\ FirstSeqs \subseteq 0 .. SeqMod - 1 /\ FirstTs \subseteq 0 .. TsMod - 1
  /\ Jumps \subseteq 0 .. TsMod - 1 /\ MaxLines \in Nat /\ MaxFaults \in Nat

\* n counts the packets of the sender; line and time are its own clock, which
\* the receiver does not see.
Packets == [n : 0 .. MaxSent, ssrc : 1 .. MaxLines + 1, line : 0 .. MaxLines,
            time : 0 .. MaxSent, seq : 0 .. SeqMod - 1, ts : 0 .. TsMod - 1]

VARIABLES
  permissive,  \* video: several packets may have one timestamp
  sender,      \* the last packet it has sent
  net,         \* the packets in transit
  session,     \* ssrc (0: not set), last (rcv_last_ts), delivered (the flag
               \* FIRST_PACKET_DELIVERED) and the queue rq
  faults,
  played,      \* history: the packets given since the last resync, the last one
  newest,      \* history: the newest packet received, as the sender counts
  deaf         \* history: how many units of time of it were refused in a row
               \* since a packet was last given

vars == <<permissive, sender, net, session, faults, played, newest, deaf>>

NoPacket == [n |-> 0, ssrc |-> 1, line |-> 0, time |-> 0, seq |-> 0, ts |-> 0]

TypeOK ==
  /\ permissive \in BOOLEAN
  /\ {sender, newest, played} \cup net \subseteq Packets
  /\ session.rq \in Seq(Packets) /\ Len(session.rq) <= MaxQueue
  /\ \A i \in 1 .. Len(session.rq) : session.rq[i].ssrc = session.ssrc
  /\ faults \in 0 .. MaxFaults /\ deaf \in 0 .. MaxSent

Init ==
  /\ permissive \in BOOLEAN
  /\ \E seq \in FirstSeqs, ts \in FirstTs :
       sender = [NoPacket EXCEPT !.seq = (seq - 1) % SeqMod, !.ts = (ts - 1) % TsMod]
  /\ net = {}
  /\ session = [ssrc |-> 0, last |-> 0, delivered |-> FALSE, rq |-> <<>>]
  /\ faults = 0 /\ played = NoPacket /\ newest = NoPacket
  /\ deaf = 0

-----------------------------------------------------------------------------
(* The sender and the network.                                             *)

Emit(p) ==
  /\ sender.n < MaxSent
  /\ sender' = p
  /\ net' = {q \in net : q.n + Window > p.n} \cup {p}
  /\ UNCHANGED <<permissive, session, faults, played, newest, deaf>>

Following == [sender EXCEPT !.n = @ + 1, !.seq = (@ + 1) % SeqMod]

\* The next packet: the next timestamp or, in a video picture, the same.
Send ==
  \E step \in IF permissive /\ sender.n > 0 THEN {0, 1} ELSE {1} :
    Emit([Following EXCEPT !.ts = (@ + step) % TsMod, !.time = @ + step])

\* The same source with other timestamps.
Restart(jump) ==
  /\ sender.n > 0 /\ sender.line < MaxLines
  /\ Emit([Following EXCEPT !.ts = (@ + jump) % TsMod, !.line = @ + 1, !.time = 0])

ChangeSource(seq, ts) ==
  /\ sender.n > 0 /\ sender.line < MaxLines
  /\ Emit([n |-> sender.n + 1, ssrc |-> sender.ssrc + 1, line |-> sender.line + 1,
           time |-> 0, seq |-> seq, ts |-> ts])

Lose(p) ==
  /\ p \in net /\ faults < MaxFaults
  /\ net' = net \ {p} /\ faults' = faults + 1
  /\ UNCHANGED <<permissive, sender, session, played, newest, deaf>>

Arrives(p) ==
  /\ p \in net
  /\ \/ net' = net \ {p} /\ UNCHANGED faults
     \/ faults < MaxFaults /\ faults' = faults + 1 /\ UNCHANGED net

-----------------------------------------------------------------------------
(* The session.                                                            *)

NewerThan(ts1, ts2) == (ts1 - ts2) % TsMod < TsMod \div 2
StrictlyNewerThan(ts1, ts2) == NewerThan(ts1, ts2) /\ ts1 % TsMod # ts2 % TsMod
SeqIsGreater(seq1, seq2) == (seq1 - seq2) % SeqMod < SeqMod \div 2

\* rtp_putq: behind the last packet of the queue that is not newer; a packet
\* that meets itself on the way is a duplicate.
rtp_putq(q, p) ==
  LET below == {i \in 1 .. Len(q) : SeqIsGreater(p.seq, q[i].seq)}
      at == CHOOSE i \in below \cup {0} : \A j \in below : j <= i
  IN IF at > 0 /\ q[at].seq = p.seq THEN q
     ELSE SubSeq(q, 1, at) \o <<p>> \o SubSeq(q, at + 1, Len(q))

\* Mutant: the queue is tested before the packet is put.
queue_packet_TestsFirst(s, p) ==
  LET q == rtp_putq(s.rq, p)
  IN [s EXCEPT !.rq = IF Len(s.rq) > MaxQueue THEN Tail(q) ELSE q]

\* A full queue loses its oldest packet, which may be the new one.
queue_packet(s, p) ==
  LET q == rtp_putq(s.rq, p)
  IN [s EXCEPT !.rq = IF Len(q) > MaxQueue THEN Tail(q) ELSE q]

rtp_session_resync(s) == [s EXCEPT !.rq = <<>>, !.delivered = FALSE]

\* The session follows the source that it hears: the threshold is 0, so that
\* every packet of another source changes it (on_ssrc_changed: a resync).
LockOn(s, p) ==
  CASE s.ssrc = 0 -> [s EXCEPT !.ssrc = p.ssrc]
    [] s.ssrc \notin {0, p.ssrc} ->
         [rtp_session_resync(s) EXCEPT !.ssrc = p.ssrc, !.last = p.ts]
    [] OTHER -> s

\* What the timestamp of a packet is taken for, once a packet was delivered.
JumpsForward(s, p) == s.delivered /\ NewerThan(p.ts, s.last + TsJump)
IsOld(s, p) == s.delivered /\ ~JumpsForward(s, p) /\ StrictlyNewerThan(s.last, p.ts)
JumpsBack(s, p) == IsOld(s, p) /\ StrictlyNewerThan(s.last, p.ts + TsJump)

\* Mutant: an old packet is queued.
Parsed_OldToo(s, p) ==
  CASE JumpsForward(s, p) -> queue_packet(rtp_session_resync(s), p)
    [] JumpsBack(s, p) -> rtp_session_resync(s)
    [] OTHER -> queue_packet(s, p)

\* Mutant: a packet that reveals a jump back changes nothing.
Parsed_NoResync(s, p) ==
  CASE JumpsForward(s, p) -> queue_packet(rtp_session_resync(s), p)
    [] IsOld(s, p) -> s
    [] OTHER -> queue_packet(s, p)

\* on_timestamp_jump is a resync.  An old packet is refused, also the one that
\* reveals a jump back.
Parsed(s, p) ==
  CASE JumpsForward(s, p) -> queue_packet(rtp_session_resync(s), p)
    [] JumpsBack(s, p) -> rtp_session_resync(s)
    [] IsOld(s, p) /\ ~JumpsBack(s, p) -> s
    [] OTHER -> queue_packet(s, p)

\* The packet is read and dealt with; the history follows what became of it.
rtp_session_rtp_parse(p) ==
  LET s == LockOn(session, p)
      resynced == session.ssrc \notin {0, p.ssrc} \/ JumpsForward(s, p) \/ JumpsBack(s, p)
  IN /\ Arrives(p)
     /\ session' = Parsed(s, p)
     /\ played' = IF resynced THEN NoPacket ELSE played
     /\ IF p.n > newest.n
          THEN /\ newest' = p
               /\ deaf' = CASE ~IsOld(s, p) -> 0
                            [] IsOld(s, p) /\ p.line # newest.line -> 1
                            [] OTHER -> IF deaf = 0 \/ p.time > newest.time
                                        THEN deaf + 1 ELSE deaf
          ELSE UNCHANGED <<newest, deaf>>
     /\ UNCHANGED <<permissive, sender>>

\* rtp_getq: the newest packet that is not newer than the one wanted; those
\* before it are discarded.  Of two with one timestamp, the first.
Wanted(q, ts) ==
  {i \in 1 .. Len(q) : \A j \in 1 .. i : NewerThan(ts, q[j].ts)}

rtp_getq(q, ts) ==
  CHOOSE i \in Wanted(q, ts) :
    /\ i + 1 \in Wanted(q, ts) => q[i + 1].ts = q[i].ts
    /\ \A j \in 1 .. i - 1 : q[j + 1].ts # q[j].ts

rtp_getq_permissive(q, ts) == 1

\* A call of rtp_session_recvm_with_ts that finds a packet for the timestamp.
rtp_session_recvm_with_ts(ts) ==
  LET q == session.rq
      i == IF permissive THEN rtp_getq_permissive(q, ts) ELSE rtp_getq(q, ts)
  IN /\ Wanted(q, ts) # {}
     /\ session' = [session EXCEPT !.rq = SubSeq(q, i + 1, Len(q)),
                                   !.last = q[i].ts, !.delivered = TRUE]
     /\ played' = q[i] /\ deaf' = 0
     /\ UNCHANGED <<permissive, sender, net, faults, newest>>

-----------------------------------------------------------------------------
\* What the ticker's thread does not decide.
Outside ==
  \/ Send
  \/ \E jump \in Jumps : Restart(jump)
  \/ \E seq \in FirstSeqs, ts \in FirstTs : ChangeSource(seq, ts)
  \/ \E p \in net : Lose(p)

Playing == \E ts \in 0 .. TsMod - 1 : rtp_session_recvm_with_ts(ts)

Next == Outside \/ Playing \/ \E p \in net : rtp_session_rtp_parse(p)

Spec == Init /\ [][Next]_vars

-----------------------------------------------------------------------------
(* Properties.                                                             *)

\* The decoder is never taken back in time: between two resyncs the packets of
\* one timeline are given in the sender's order, whatever the network and the
\* wraps do.
PlaysForward ==
  [][played.n # 0 /\ played'.n # 0 /\ played'.line = played.line
       => played'.time >= played.time]_vars

\* A sender that restarts its timestamps is not silenced for longer than the
\* limit of a jump: once the packets that were still queued are given, at most
\* that much of it is refused before the session sees a jump and resynchronizes
\* (rtp_session_rtp_parse), or its timestamps have caught up.
NeverDeaf == deaf <= TsJump
=============================================================================
