------------------------------ MODULE RtpReport ------------------------------
(***************************************************************************)
(* The losses that an RTP session reports to its peer in RTCP (rtcp.c),    *)
(* beside the reception of the packets: each packet that is read also      *)
(* counts here, and a report compares how many were read with how far the  *)
(* extended sequence number has gone.                                      *)
(***************************************************************************)
EXTENDS RtpReceive

CONSTANTS WrapZone,   \* 200: how near to the wrap a sequence number must be
          MaxReports

VARIABLES
  count,    \* hwrcv_extseq (lo, hi), hwrcv_since_last_SR, hwrcv_seq_at_last_SR
  lost,     \* packet_loss of the last report
  reports,  \* how many were sent
  got       \* history: the packets received

reportVars == <<count, lost, reports, got>>

InitReport ==
  /\ Init
  /\ count = [lo |-> 0, hi |-> 0, since |-> 0, at |-> 0]
  /\ lost = 0 /\ reports = 0 /\ got = {}

ExtSeq(c) == c.hi * SeqMod + c.lo

\* A packet is counted when it is read, whatever is done with it afterwards.
Count(p) ==
  LET c == [count EXCEPT !.since = @ + 1,
                         !.at = IF session.ssrc = 0 THEN p.seq ELSE @]
  IN /\ got' = got \cup {p.n}
     /\ count' = CASE p.seq > c.lo -> [c EXCEPT !.lo = p.seq]
                   [] p.seq <= c.lo /\ p.seq < WrapZone /\ c.lo > SeqMod - WrapZone ->
                        [c EXCEPT !.lo = p.seq, !.hi = @ + 1]
                   [] OTHER -> c

\* The loss is signed; one that is negative is none.
report_block_init ==
  LET loss == ExtSeq(count) - count.at - count.since
  IN /\ count.since # 0 /\ reports < MaxReports
     /\ reports' = reports + 1
     /\ lost' = IF loss < 0 THEN 0 ELSE loss
     /\ count' = [count EXCEPT !.since = 0, !.at = ExtSeq(count)]
     /\ UNCHANGED <<vars, got>>

NextReport ==
  \/ \E p \in net : rtp_session_rtp_parse(p) /\ Count(p) /\ UNCHANGED <<lost, reports>>
  \/ (Outside \/ Playing) /\ UNCHANGED reportVars
  \/ report_block_init

SpecReport == InitReport /\ [][NextReport]_<<vars, reportVars>>

-----------------------------------------------------------------------------
\* rtcp.h:99 says of fl_cnpl: "fraction lost + cumulative number of packet lost".
\* The packets that a report counts as lost were sent and have not arrived.
LossIsReal ==
  [][reports' # reports => lost' <= sender.n - Cardinality(got)]_<<vars, reportVars>>
=============================================================================
