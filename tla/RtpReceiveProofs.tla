--------------------------- MODULE RtpReceiveProofs ---------------------------
(***************************************************************************)
(* Proofs about the reception of RTP, for any sizes of the queue and of    *)
(* the numbers: the queue keeps its bound and holds packets of one source, *)
(* and, for a stream of less than half a turn of the numbers, the decoder  *)
(* is not taken back in time and a sender that restarts is heard again.    *)
(*                                                                         *)
(* The argument: any two packets of the sender agree on how their numbers  *)
(* and their clocks differ (Kin), so that the comparisons of the session,  *)
(* which only sees remainders, tell the order of sending; the queue is in  *)
(* that order, nothing in it is before the last packet given (PlayInv),    *)
(* and a stream that is refused is behind it by what is left of the jump's *)
(* limit (DeafInv).                                                        *)
(***************************************************************************)
EXTENDS RtpReceive, WellFoundedInduction, TLAPS

-----------------------------------------------------------------------------
(* Least and greatest members, and remainders.                             *)

LEMMA Least ==
  ASSUME NEW S, S \subseteq Nat, S # {}
  PROVE  \E x \in S : \A y \in S : x <= y
<1>1. PICK x \in S : \A y \in S : <<y, x>> \notin OpToRel(<, Nat)
  BY WFMin, NatLessThanWellFounded, Zenon
<1>2. \A y \in Nat : y < x => <<y, x>> \in OpToRel(<, Nat)
  BY DEF OpToRel
<1>3. \A y \in S : ~ (y < x)
  BY <1>1, <1>2, Zenon
<1>4. \A y \in S : x <= y
  BY <1>3
<1> QED
  BY <1>4

LEMMA Greatest ==
  ASSUME NEW n \in Nat, NEW S, S \subseteq 0 .. n, S # {}
  PROVE  \E x \in S : \A y \in S : y <= x
<1> DEFINE U == {n - x : x \in S}
<1>1. U \subseteq Nat
  OBVIOUS
<1>2. PICK z \in S : TRUE
  OBVIOUS
<1>3. n - z \in U
  OBVIOUS
<1>4. PICK u \in U : \A v \in U : u <= v
  <2> HIDE DEF U
  <2> QED
    BY <1>1, <1>3, Least
<1>5. PICK x \in S : u = n - x
  OBVIOUS
<1>6. ASSUME NEW y \in S PROVE y <= x
  <2>1. n - y \in U
    OBVIOUS
  <2> QED
    BY <1>4, <1>5, <2>1
<1> QED
  BY <1>6

LEMMA ModIs ==
  ASSUME NEW m \in Nat \ {0}, NEW a \in Int, NEW k \in Int, NEW r \in 0 .. m - 1,
         a = k * m + r
  PROVE  a % m = r
OBVIOUS

LEMMA ModRange ==
  ASSUME NEW m \in Nat \ {0}, NEW a \in Int
  PROVE  a % m \in 0 .. m - 1 /\ \E k \in Int : a = k * m + (a % m)
<1>1. a % m \in 0 .. m - 1
  OBVIOUS
<1>2. a = (a \div m) * m + (a % m) /\ a \div m \in Int
  OBVIOUS
<1> QED
  BY <1>1, <1>2

\* Numbers that differ by whole turns have one remainder.
LEMMA ModTurns ==
  ASSUME NEW m \in Nat \ {0}, NEW a \in Int, NEW b \in Int, NEW k \in Int, a = b + k * m
  PROVE  a % m = b % m
<1>1. b % m \in 0 .. m - 1
  BY ModRange
<1>2. PICK j \in Int : b = j * m + (b % m)
  BY ModRange
<1> DEFINE r == b % m
<1>3. r \in 0 .. m - 1 /\ b = j * m + r
  BY <1>1, <1>2
<1> HIDE DEF r
<1>4. a = (j + k) * m + r /\ j + k \in Int
  BY <1>3
<1>5. a % m = r
  BY <1>3, <1>4, ModIs
<1> QED
  BY <1>5 DEF r

\* Equal remainders stay equal when the same is added.
LEMMA ModAdd ==
  ASSUME NEW m \in Nat \ {0}, NEW a \in Int, NEW b \in Int, NEW s \in Int, a % m = b % m
  PROVE  (a + s) % m = (b + s) % m
<1>1. PICK k \in Int : a = k * m + (a % m)
  BY ModRange
<1>2. PICK j \in Int : b = j * m + (b % m)
  BY ModRange
<1>3. a + s = (b + s) + (k - j) * m /\ a + s \in Int /\ b + s \in Int /\ k - j \in Int
  <2> DEFINE r == a % m
  <2>1. r \in Int /\ a = k * m + r /\ b = j * m + r
    BY <1>1, <1>2, ModRange
  <2> HIDE DEF r
  <2> QED
    BY <2>1
<1> DEFINE x == a + s  y == b + s  c == k - j
<1>4. x \in Int /\ y \in Int /\ c \in Int /\ x = y + c * m
  BY <1>3
<1>5. \A d, e, f \in Int : d = e + f * m => d % m = e % m
  BY ModTurns
<1> HIDE DEF x, y, c
<1>6. x % m = y % m
  BY <1>4, <1>5, Zenon
<1> QED
  BY <1>6 DEF x, y

\* A remainder taken on the way makes no difference.
LEMMA ModInner ==
  ASSUME NEW m \in Nat \ {0}, NEW a \in Int, NEW s \in Int
  PROVE  ((a % m) + s) % m = (a + s) % m
<1>1. PICK k \in Int : a = k * m + (a % m)
  BY ModRange
<1> DEFINE r == a % m
<1>2. r \in Int /\ a = k * m + r
  BY <1>1, ModRange
<1> HIDE DEF r
<1> DEFINE x == r + s  y == a + s  c == 0 - k
<1>3. x \in Int /\ y \in Int /\ c \in Int /\ x = y + c * m
  BY <1>2
<1> HIDE DEF x, y, c
<1>4. x % m = y % m
  BY <1>3, ModTurns, Zenon
<1> QED
  BY <1>4 DEF r, x, y

\* The remainder of a small number.
LEMMA ModSmall ==
  ASSUME NEW m \in Nat \ {0}, NEW d \in Int
  PROVE  /\ 0 <= d /\ d < m => d % m = d
         /\ d < 0 /\ - m <= d => d % m = d + m
<1>1. ASSUME 0 <= d, d < m PROVE d % m = d
  <2>1. d = 0 * m + d /\ d \in 0 .. m - 1
    BY <1>1
  <2> QED
    BY <2>1, ModIs
<1>2. ASSUME d < 0, - m <= d PROVE d % m = d + m
  <2>1. d = (-1) * m + (d + m) /\ d + m \in 0 .. m - 1
    BY <1>2
  <2> QED
    BY <2>1, ModIs
<1> QED
  BY <1>1, <1>2

\* What is said of two numbers' difference can be said the other way round.
LEMMA ModNegative ==
  ASSUME NEW m \in Nat \ {0}, NEW a \in Int, NEW b \in Int, a % m = b % m
  PROVE  (0 - a) % m = (0 - b) % m
<1>1. PICK k \in Int : a = k * m + (a % m)
  BY ModRange
<1>2. PICK j \in Int : b = j * m + (b % m)
  BY ModRange
<1> DEFINE x == 0 - a  y == 0 - b  c == j - k
<1>3. x \in Int /\ y \in Int /\ c \in Int /\ x = y + c * m
  <2> DEFINE r == a % m
  <2>1. r \in Int /\ a = k * m + r /\ b = j * m + r
    BY <1>1, <1>2, ModRange
  <2> HIDE DEF r
  <2> QED
    BY <2>1
<1> DEFINE Same(d, e) == d % m = e % m
<1>4. \A d, e, f \in Int : d = e + f * m => Same(d, e)
  BY ModTurns
<1> HIDE DEF x, y, c, Same
<1>5. Same(x, y)
  BY <1>3, <1>4
<1> QED
  BY <1>5 DEF x, y, Same

\* Two remainders are equal when their difference has none.
LEMMA ModEqual ==
  ASSUME NEW m \in Nat \ {0}, NEW a \in Int, NEW b \in Int
  PROVE  a % m = b % m <=> (a - b) % m = 0
<1>1. ASSUME a % m = b % m PROVE (a - b) % m = 0
  <2> DEFINE s == 0 - b
  <2>1. s \in Int
    OBVIOUS
  <2> HIDE DEF s
  <2>2. (a + s) % m = (b + s) % m
    BY <1>1, <2>1, ModAdd
  <2>3. a + s = a - b /\ b + s = 0
    BY DEF s
  <2>4. 0 % m = 0
    BY ModSmall
  <2> QED
    BY <2>2, <2>3, <2>4
<1>2. ASSUME (a - b) % m = 0 PROVE a % m = b % m
  <2> DEFINE d == a - b
             zero == 0
  <2>1. d \in Int /\ zero \in Int /\ d + b = a /\ zero + b = b
    OBVIOUS
  <2>2. d % m = zero % m
    BY <1>2, ModSmall
  <2> HIDE DEF d, zero
  <2>3. (d + b) % m = (zero + b) % m
    BY <2>1, <2>2, ModAdd, ZenonT(30)
  <2> QED
    BY <2>1, <2>3
<1> QED
  BY <1>1, <1>2

-----------------------------------------------------------------------------
(* The queue.                                                              *)

Insert(q, at, p) == SubSeq(q, 1, at) \o <<p>> \o SubSeq(q, at + 1, Len(q))

Inserted(d, q, at, p) ==
  /\ Len(d) = Len(q) + 1
  /\ \A i \in 1 .. Len(q) + 1 :
       d[i] = IF i <= at THEN q[i] ELSE IF i = at + 1 THEN p ELSE q[i - 1]

LEMMA InsertIs ==
  ASSUME NEW S, NEW q \in Seq(S), NEW p \in S, NEW at \in 0 .. Len(q)
  PROVE  Insert(q, at, p) \in Seq(S) /\ Inserted(Insert(q, at, p), q, at, p)
<1> DEFINE a == SubSeq(q, 1, at)
           b == SubSeq(q, at + 1, Len(q))
<1>1. /\ a \in Seq(S) /\ Len(a) = at /\ \A i \in 1 .. at : a[i] = q[i]
  OBVIOUS
<1>2. /\ b \in Seq(S) /\ Len(b) = Len(q) - at
      /\ \A i \in 1 .. Len(q) - at : b[i] = q[at + i]
  OBVIOUS
<1>3. Insert(q, at, p) = a \o <<p>> \o b
  BY DEF Insert
<1> HIDE DEF a, b
<1> DEFINE c == a \o <<p>>
<1>4. /\ c \in Seq(S) /\ Len(c) = at + 1
      /\ \A i \in 1 .. at + 1 : c[i] = IF i <= at THEN q[i] ELSE p
  BY <1>1
<1>5. Insert(q, at, p) = c \o b
  BY <1>3
<1> HIDE DEF c
<1> DEFINE d == Insert(q, at, p)
<1>6. d = c \o b /\ Len(q) \in Nat
  BY <1>5
<1> HIDE DEF d
<1>7. d \in Seq(S) /\ Len(d) = Len(q) + 1
  <2>1. d \in Seq(S) /\ Len(d) = Len(c) + Len(b)
    BY <1>2, <1>4, <1>6
  <2> QED
    BY <1>2, <1>4, <1>6, <2>1
<1>8. ASSUME NEW i \in 1 .. Len(q) + 1
      PROVE  d[i] = IF i <= at THEN q[i] ELSE IF i = at + 1 THEN p ELSE q[i - 1]
  <2>1. CASE i <= at + 1
    <3>1. d[i] = c[i]
      BY <1>2, <1>4, <1>6, <2>1
    <3> QED
      BY <1>4, <1>6, <2>1, <3>1
  <2>2. CASE ~ (i <= at + 1)
    <3>1. i - (at + 1) \in 1 .. Len(q) - at
      BY <1>6, <2>2
    <3>2. d[i] = b[i - (at + 1)]
      BY <1>2, <1>4, <1>6, <2>2
    <3>3. b[i - (at + 1)] = q[at + (i - (at + 1))]
      BY <1>2, <3>1, Zenon
    <3>4. at + (i - (at + 1)) = i - 1
      BY <2>2
    <3> QED
      BY <2>2, <3>2, <3>3, <3>4
  <2> QED
    BY <2>1, <2>2
<1> QED
  BY <1>7, <1>8, Zenon DEF d, Inserted

\* rtp_putq keeps the queue or puts the packet where the search ends.
LEMMA PutQueue ==
  ASSUME NEW q \in Seq(Packets), NEW p
  PROVE  \/ rtp_putq(q, p) = q
         \/ \E at \in 0 .. Len(q) :
              /\ rtp_putq(q, p) = Insert(q, at, p)
              /\ at > 0 => SeqIsGreater(p.seq, q[at].seq) /\ q[at].seq # p.seq
              /\ \A j \in at + 1 .. Len(q) : ~ SeqIsGreater(p.seq, q[j].seq)
<1> DEFINE below == {i \in 1 .. Len(q) : SeqIsGreater(p.seq, q[i].seq)}
           at == CHOOSE i \in below \cup {0} : \A j \in below : j <= i
<1>1. Len(q) \in Nat /\ below \subseteq 1 .. Len(q)
  OBVIOUS
<1>2. at \in below \cup {0} /\ \A j \in below : j <= at
  <2> HIDE DEF below
  <2>1. below \cup {0} \subseteq 0 .. Len(q) /\ below \cup {0} # {}
    BY <1>1
  <2>2. \E x \in below \cup {0} : \A y \in below \cup {0} : y <= x
    BY <1>1, <2>1, Greatest
  <2>3. \E x \in below \cup {0} : \A y \in below : y <= x
    BY <2>2, Zenon
  <2> QED
    BY <2>3, Zenon
<1>3. rtp_putq(q, p) = IF at > 0 /\ q[at].seq = p.seq THEN q ELSE Insert(q, at, p)
  BY Zenon DEF rtp_putq, Insert
<1>4. \A i \in below : SeqIsGreater(p.seq, q[i].seq)
  BY Zenon
<1>5. \A j \in 1 .. Len(q) : j \notin below => ~ SeqIsGreater(p.seq, q[j].seq)
  BY Zenon
<1> HIDE DEF below, at
<1>6. at \in 0 .. Len(q)
  BY <1>1, <1>2
<1>7. at > 0 => SeqIsGreater(p.seq, q[at].seq)
  BY <1>2, <1>4, <1>6
<1>8. ASSUME NEW j \in at + 1 .. Len(q) PROVE ~ SeqIsGreater(p.seq, q[j].seq)
  <2>1. j \in 1 .. Len(q) /\ ~ (j <= at)
    BY <1>1, <1>6
  <2> QED
    BY <1>2, <1>5, <2>1, Zenon
<1>9. CASE at > 0 /\ q[at].seq = p.seq
  BY <1>3, <1>9, Zenon
<1>10. CASE ~ (at > 0 /\ q[at].seq = p.seq)
  BY <1>3, <1>6, <1>7, <1>8, <1>10, Zenon
<1> QED
  BY <1>9, <1>10

LEMMA PutMembers ==
  ASSUME NEW q \in Seq(Packets), NEW p \in Packets
  PROVE  /\ rtp_putq(q, p) \in Seq(Packets) /\ Len(rtp_putq(q, p)) <= Len(q) + 1
         /\ \A i \in 1 .. Len(rtp_putq(q, p)) :
              rtp_putq(q, p)[i] = p \/ \E j \in 1 .. Len(q) : rtp_putq(q, p)[i] = q[j]
<1> DEFINE r == rtp_putq(q, p)
           Fine == /\ r \in Seq(Packets) /\ Len(r) <= Len(q) + 1
                   /\ \A i \in 1 .. Len(r) : r[i] = p \/ \E j \in 1 .. Len(q) : r[i] = q[j]
<1>1. r = q \/ \E at \in 0 .. Len(q) : r = Insert(q, at, p)
  BY PutQueue, Zenon
<1> HIDE DEF r
<1>2. r = q => Fine
  OBVIOUS
<1>3. ASSUME NEW at \in 0 .. Len(q), r = Insert(q, at, p) PROVE Fine
  <2>1. r \in Seq(Packets) /\ Inserted(r, q, at, p)
    BY <1>3, InsertIs
  <2> QED
    BY <2>1 DEF Inserted
<1>4. Fine
  BY <1>1, <1>2, <1>3
<1> QED
  BY <1>4 DEF r

Session == [ssrc : 0 .. MaxLines + 1, last : 0 .. TsMod - 1, delivered : BOOLEAN,
            rq : Seq(Packets)]

\* The queue holds packets of the source that the session follows, and no more
\* of them than it may.
SessionOK(s) ==
  /\ s \in Session /\ Len(s.rq) <= MaxQueue
  /\ \A i \in 1 .. Len(s.rq) : s.rq[i].ssrc = s.ssrc

\* t is s with p put into its queue, at most.
Queued(s, p, t) ==
  /\ SessionOK(t) /\ t.ssrc = s.ssrc /\ t.last = s.last /\ t.delivered = s.delivered
  /\ Len(t.rq) <= Len(s.rq) + 1
  /\ \A i \in 1 .. Len(t.rq) : t.rq[i] = p \/ \E j \in 1 .. Len(s.rq) : t.rq[i] = s.rq[j]

LEMMA QueuePacket ==
  ASSUME NEW s, SessionOK(s), NEW p \in Packets, p.ssrc = s.ssrc
  PROVE  Queued(s, p, queue_packet(s, p))
<1> DEFINE q == s.rq
           r == rtp_putq(q, p)
           t == IF Len(r) > MaxQueue THEN Tail(r) ELSE r
<1>1. s \in Session /\ q \in Seq(Packets) /\ Len(q) <= MaxQueue
      /\ \A i \in 1 .. Len(q) : q[i].ssrc = p.ssrc
  BY DEF SessionOK, Session
<1>2. queue_packet(s, p) = [s EXCEPT !.rq = t]
  BY DEF queue_packet
<1>3. MaxQueue \in Nat \ {0}
  BY ModuliAssumption
<1>4. r \in Seq(Packets) /\ Len(r) <= Len(q) + 1
      /\ \A i \in 1 .. Len(r) : r[i] = p \/ \E j \in 1 .. Len(q) : r[i] = q[j]
  <2> HIDE DEF q
  <2> QED
    BY <1>1, PutMembers
<1> HIDE DEF q, r
<1>5. t \in Seq(Packets) /\ Len(t) <= MaxQueue /\ Len(t) <= Len(q) + 1
      /\ \A i \in 1 .. Len(t) : t[i] = p \/ \E j \in 1 .. Len(q) : t[i] = q[j]
  BY <1>1, <1>3, <1>4
<1> HIDE DEF t
<1>6. \A i \in 1 .. Len(t) : t[i].ssrc = s.ssrc
  BY <1>1, <1>5
<1>7. /\ queue_packet(s, p).rq = t /\ queue_packet(s, p).ssrc = s.ssrc
      /\ queue_packet(s, p).last = s.last /\ queue_packet(s, p).delivered = s.delivered
      /\ queue_packet(s, p) \in Session
  BY <1>1, <1>2, <1>5 DEF Session
<1> QED
  BY <1>5, <1>6, <1>7 DEF Queued, SessionOK, q

\* rtp_getq chooses a packet of those that are wanted.
LEMMA GetQueue ==
  ASSUME NEW q \in Seq(Packets), NEW ts, Wanted(q, ts) # {}
  PROVE  rtp_getq(q, ts) \in 1 .. Len(q) /\ 1 \in 1 .. Len(q)
<1> DEFINE W == Wanted(q, ts)
           G == {i \in W : i + 1 \in W => q[i + 1].ts = q[i].ts}
<1>1. Len(q) \in Nat /\ W \subseteq 0 .. Len(q) /\ W \subseteq 1 .. Len(q) /\ W # {}
  BY DEF Wanted
<1>2. \A i, j \in 1 .. Len(q) : i \in W /\ j <= i => j \in W
  BY DEF Wanted
<1>3. \A i \in W : i + 1 \notin W => i \in G
  OBVIOUS
<1>4. \A i \in W : i \notin G => q[i + 1].ts # q[i].ts
  OBVIOUS
<1>5. \A i \in G : i \in W /\ (i + 1 \in W => q[i + 1].ts = q[i].ts)
  OBVIOUS
<1>6. rtp_getq(q, ts) = CHOOSE i \in W : /\ i + 1 \in W => q[i + 1].ts = q[i].ts
                                         /\ \A j \in 1 .. i - 1 : q[j + 1].ts # q[j].ts
  BY Zenon DEF rtp_getq
<1> HIDE DEF W, G
<1>7. PICK k \in W : \A i \in W : i <= k
  BY <1>1, Greatest
<1>8. k + 1 \notin W
  BY <1>1, <1>7
<1>9. G \subseteq Nat /\ G # {}
  <2>1. \A i \in 0 .. Len(q) : i \in Nat
    BY <1>1
  <2>2. \A i \in G : i \in Nat
    BY <1>1, <1>5, <2>1, Zenon
  <2>3. k \in G
    BY <1>3, <1>8, Zenon
  <2> QED
    BY <2>2, <2>3, Zenon
<1>10. PICK x \in G : \A i \in G : x <= i
  BY <1>9, Least
<1>11. x \in W /\ x \in 1 .. Len(q)
  BY <1>1, <1>5, <1>10
<1>12. ASSUME NEW j \in 1 .. x - 1 PROVE q[j + 1].ts # q[j].ts
  <2>1. j \in 1 .. Len(q) /\ j <= x /\ ~ (x <= j)
    BY <1>1, <1>11
  <2>2. j \in W /\ j \notin G
    BY <1>2, <1>10, <1>11, <2>1
  <2> QED
    BY <1>4, <2>2, Zenon
<1>13. \E i \in W : /\ i + 1 \in W => q[i + 1].ts = q[i].ts
                    /\ \A j \in 1 .. i - 1 : q[j + 1].ts # q[j].ts
  BY <1>5, <1>10, <1>11, <1>12, Zenon
<1>14. rtp_getq(q, ts) \in W
  BY <1>6, <1>13, Zenon
<1>15. \A i \in 1 .. Len(q) : 1 \in 1 .. Len(q)
  BY <1>1
<1> QED
  BY <1>1, <1>14, <1>15, Zenon

-----------------------------------------------------------------------------
(* The types.                                                              *)

LEMMA ResyncOK ==
  ASSUME NEW s, SessionOK(s)
  PROVE  /\ SessionOK(rtp_session_resync(s)) /\ rtp_session_resync(s).rq = <<>>
         /\ rtp_session_resync(s).ssrc = s.ssrc /\ rtp_session_resync(s).last = s.last
         /\ rtp_session_resync(s).delivered = FALSE
<1> DEFINE t == rtp_session_resync(s)
<1>1. s \in Session /\ MaxQueue \in Nat
  BY ModuliAssumption DEF SessionOK
<1>2. /\ t \in Session /\ t.rq = <<>> /\ t.ssrc = s.ssrc /\ t.last = s.last
      /\ t.delivered = FALSE
  <2> DEFINE empty == <<>>
  <2>1. empty \in Seq(Packets)
    OBVIOUS
  <2>2. t = [s EXCEPT !.rq = empty, !.delivered = FALSE]
    BY DEF rtp_session_resync
  <2> HIDE DEF empty, t
  <2>3. t \in Session /\ t.rq = empty /\ t.ssrc = s.ssrc /\ t.last = s.last
        /\ t.delivered = FALSE
    BY <1>1, <2>1, <2>2 DEF Session
  <2> QED
    BY <2>3 DEF empty
<1>3. Len(<<>>) = 0
  OBVIOUS
<1> HIDE DEF t
<1>4. SessionOK(t)
  BY <1>1, <1>2, <1>3 DEF SessionOK
<1> QED
  BY <1>2, <1>4 DEF t

\* The session after a packet of it was read: it follows the source of the
\* packet, and has put the packet into its queue or not.
LEMMA LockOnOK ==
  ASSUME NEW s, SessionOK(s), NEW p \in Packets
  PROVE  /\ SessionOK(LockOn(s, p)) /\ LockOn(s, p).ssrc = p.ssrc
         /\ s.ssrc = p.ssrc => LockOn(s, p) = s
         /\ s.ssrc # p.ssrc => LockOn(s, p).rq = <<>>
<1>1. s \in Session /\ Len(s.rq) <= MaxQueue /\ s.rq \in Seq(Packets)
  BY DEF SessionOK, Session
<1>2. /\ p.ssrc \in 1 .. MaxLines + 1 /\ p.ts \in 0 .. TsMod - 1
      /\ MaxLines \in Nat /\ MaxQueue \in Nat \ {0}
  BY ModuliAssumption, SenderAssumption DEF Packets
<1>3. CASE s.ssrc = 0
  <2> DEFINE t == [s EXCEPT !.ssrc = p.ssrc]
  <2>1. LockOn(s, p) = t
    BY <1>3 DEF LockOn
  <2>2. t \in Session /\ t.rq = s.rq /\ t.ssrc = p.ssrc
    BY <1>1, <1>2 DEF Session
  <2>3. Len(s.rq) = 0
    <3>1. \A i \in 1 .. Len(s.rq) : s.rq[i] \in Packets /\ s.rq[i].ssrc = 0
      BY <1>1, <1>3 DEF SessionOK
    <3>2. \A r \in Packets : r.ssrc # 0
      BY DEF Packets
    <3>3. Len(s.rq) \in Nat /\ ~ (1 \in 1 .. Len(s.rq))
      BY <1>1, <3>1, <3>2
    <3> QED
      BY <3>3
  <2>4. s.rq = <<>>
    BY <1>1, <2>3
  <2> QED
    BY <1>1, <1>2, <1>3, <2>1, <2>2, <2>3, <2>4 DEF SessionOK
<1>4. CASE s.ssrc \notin {0, p.ssrc}
  <2> DEFINE t == [rtp_session_resync(s) EXCEPT !.ssrc = p.ssrc, !.last = p.ts]
  <2>1. LockOn(s, p) = t
    BY <1>4 DEF LockOn
  <2>2. t \in Session /\ t.rq = <<>> /\ t.ssrc = p.ssrc
    <3> DEFINE r == rtp_session_resync(s)
    <3>1. r \in Session /\ r.rq = <<>>
      BY ResyncOK DEF SessionOK
    <3> HIDE DEF r
    <3>2. [r EXCEPT !.ssrc = p.ssrc, !.last = p.ts] \in Session
      <4> DEFINE id == p.ssrc  ts == p.ts
      <4>1. id \in 0 .. MaxLines + 1 /\ ts \in 0 .. TsMod - 1
        BY <1>2
      <4> HIDE DEF id, ts
      <4>2. [r EXCEPT !.ssrc = id, !.last = ts] \in Session
        BY <3>1, <4>1 DEF Session
      <4> QED
        BY <4>2 DEF id, ts
    <3>3. /\ [r EXCEPT !.ssrc = p.ssrc, !.last = p.ts].rq = <<>>
          /\ [r EXCEPT !.ssrc = p.ssrc, !.last = p.ts].ssrc = p.ssrc
      BY <3>1 DEF Session
    <3> QED
      BY <3>2, <3>3 DEF r
  <2>3. Len(<<>>) = 0
    OBVIOUS
  <2> HIDE DEF t
  <2> QED
    BY <1>2, <1>4, <2>1, <2>2, <2>3 DEF SessionOK
<1>5. CASE s.ssrc = p.ssrc
  BY <1>2, <1>5 DEF LockOn
<1> QED
  BY <1>3, <1>4, <1>5

\* What is done with a packet of the source that the session follows.
LEMMA ParsedIs ==
  ASSUME NEW s, SessionOK(s), NEW p \in Packets, p.ssrc = s.ssrc
  PROVE  /\ JumpsForward(s, p) => Queued(rtp_session_resync(s), p, Parsed(s, p))
         /\ JumpsBack(s, p) => Parsed(s, p) = rtp_session_resync(s)
         /\ IsOld(s, p) /\ ~ JumpsBack(s, p) => Parsed(s, p) = s
         /\ ~ JumpsForward(s, p) /\ ~ IsOld(s, p)
              => Queued(s, p, Parsed(s, p)) /\ Parsed(s, p) = queue_packet(s, p)
<1>1. JumpsBack(s, p) => IsOld(s, p)
  BY DEF JumpsBack
<1>2. IsOld(s, p) => ~ JumpsForward(s, p)
  BY DEF IsOld
<1>3. CASE JumpsForward(s, p)
  <2>1. Parsed(s, p) = queue_packet(rtp_session_resync(s), p)
    BY <1>1, <1>2, <1>3, Zenon DEF Parsed
  <2> QED
    BY <1>1, <1>2, <1>3, <2>1, ResyncOK, QueuePacket
<1>4. CASE JumpsBack(s, p)
  <2>1. Parsed(s, p) = rtp_session_resync(s)
    BY <1>1, <1>2, <1>4 DEF Parsed
  <2> QED
    BY <1>1, <1>2, <1>4, <2>1
<1>5. CASE IsOld(s, p) /\ ~ JumpsBack(s, p)
  <2>1. Parsed(s, p) = s
    BY <1>1, <1>2, <1>5 DEF Parsed
  <2> QED
    BY <1>1, <1>2, <1>5, <2>1
<1>6. CASE ~ JumpsForward(s, p) /\ ~ IsOld(s, p)
  <2>1. Parsed(s, p) = queue_packet(s, p)
    BY <1>1, <1>6 DEF Parsed
  <2> QED
    BY <1>1, <1>6, <2>1, QueuePacket
<1> QED
  BY <1>3, <1>4, <1>5, <1>6

\* The session and the clocks of the sender, which the types do not bound.
TInv ==
  /\ TypeOK /\ session \in Session
  /\ sender.time <= sender.n /\ sender.ssrc <= sender.line + 1
  /\ deaf <= newest.n

LEMMA SessionIsOK == TInv => SessionOK(session)
BY DEF TInv, TypeOK, SessionOK

LEMMA ConstantTypes ==
  /\ SeqMod \in Nat \ {0} /\ TsMod \in Nat \ {0} /\ TsJump \in Nat \ {0}
  /\ MaxQueue \in Nat \ {0} /\ MaxSent \in Nat \ {0} /\ MaxLines \in Nat /\ MaxFaults \in Nat
BY ModuliAssumption, SenderAssumption

\* Each packet that is sent follows the last one.
Follows(p) ==
  /\ p \in Packets /\ p.n = sender.n + 1 /\ p.time <= p.n /\ p.ssrc <= p.line + 1
  /\ \/ /\ p.ssrc = sender.ssrc /\ p.line = sender.line
        /\ p.seq = (sender.seq + 1) % SeqMod
        /\ \E step \in {0, 1} : /\ p.time = sender.time + step
                                /\ p.ts = (sender.ts + step) % TsMod
     \/ /\ p.ssrc = sender.ssrc /\ p.line = sender.line + 1
        /\ p.seq = (sender.seq + 1) % SeqMod
     \/ p.ssrc = sender.ssrc + 1 /\ p.line = sender.line + 1

LEMMA NextFollows ==
  ASSUME TInv
  PROVE  /\ Send => \E p : Follows(p) /\ Emit(p)
         /\ \A jump \in Jumps : Restart(jump) => \E p : Follows(p) /\ Emit(p)
         /\ \A seq \in FirstSeqs, ts \in FirstTs :
              ChangeSource(seq, ts) => \E p : Follows(p) /\ Emit(p)
<1>1. /\ sender \in Packets /\ sender.time <= sender.n /\ sender.ssrc <= sender.line + 1
  BY DEF TInv, TypeOK
<1>2. /\ sender.n \in 0 .. MaxSent /\ sender.ssrc \in 1 .. MaxLines + 1
      /\ sender.line \in 0 .. MaxLines /\ sender.time \in 0 .. MaxSent
      /\ sender.seq \in 0 .. SeqMod - 1 /\ sender.ts \in 0 .. TsMod - 1
  BY <1>1 DEF Packets
<1>3. \A x \in Int : x % SeqMod \in 0 .. SeqMod - 1 /\ x % TsMod \in 0 .. TsMod - 1
  BY ConstantTypes, ModRange
<1>4. ASSUME NEW step \in {0, 1},
             NEW p, p = [Following EXCEPT !.ts = (@ + step) % TsMod, !.time = @ + step], Emit(p)
      PROVE  Follows(p)
  <2> DEFINE seq == (sender.seq + 1) % SeqMod
             ts == (sender.ts + step) % TsMod
  <2>1. seq \in 0 .. SeqMod - 1 /\ ts \in 0 .. TsMod - 1
    <3>1. sender.seq + 1 \in Int /\ sender.ts + step \in Int
      BY <1>2
    <3> QED
      BY <1>3, <3>1
  <2>2. p = [n |-> sender.n + 1, ssrc |-> sender.ssrc, line |-> sender.line,
             time |-> sender.time + step, seq |-> seq, ts |-> ts]
    BY <1>1, <1>4 DEF Following, Packets
  <2>3. sender.n < MaxSent
    BY <1>4 DEF Emit
  <2>4. ts = (sender.ts + step) % TsMod /\ seq = (sender.seq + 1) % SeqMod
    OBVIOUS
  <2> HIDE DEF seq, ts
  <2>5. p \in Packets
    BY <1>1, <1>2, <2>1, <2>2, <2>3, ConstantTypes DEF Packets
  <2>6. p.time <= p.n /\ p.ssrc <= p.line + 1
    BY <1>1, <1>2, <2>2
  <2> QED
    BY <2>2, <2>4, <2>5, <2>6 DEF Follows
<1>5. ASSUME NEW jump \in Jumps, NEW p,
             p = [Following EXCEPT !.ts = (@ + jump) % TsMod, !.line = @ + 1, !.time = 0],
             Emit(p), sender.line < MaxLines
      PROVE  Follows(p)
  <2> DEFINE seq == (sender.seq + 1) % SeqMod
             ts == (sender.ts + jump) % TsMod
  <2>1. seq \in 0 .. SeqMod - 1 /\ ts \in 0 .. TsMod - 1
    <3>1. sender.seq + 1 \in Int /\ sender.ts + jump \in Int
      BY <1>2, SenderAssumption, ConstantTypes
    <3> QED
      BY <1>3, <3>1
  <2>2. p = [n |-> sender.n + 1, ssrc |-> sender.ssrc, line |-> sender.line + 1,
             time |-> 0, seq |-> seq, ts |-> ts]
    BY <1>1, <1>5 DEF Following, Packets
  <2>3. sender.n < MaxSent
    BY <1>5 DEF Emit
  <2>4. seq = (sender.seq + 1) % SeqMod
    OBVIOUS
  <2> HIDE DEF seq, ts
  <2>5. p \in Packets
    BY <1>1, <1>2, <1>5, <2>1, <2>2, <2>3, ConstantTypes DEF Packets
  <2>6. p.time <= p.n /\ p.ssrc <= p.line + 1
    BY <1>1, <1>2, <2>2
  <2> QED
    BY <2>2, <2>4, <2>5, <2>6 DEF Follows
<1>6. ASSUME NEW seq \in FirstSeqs, NEW ts \in FirstTs, NEW p,
             p = [n |-> sender.n + 1, ssrc |-> sender.ssrc + 1, line |-> sender.line + 1,
                  time |-> 0, seq |-> seq, ts |-> ts],
             Emit(p), sender.line < MaxLines
      PROVE  Follows(p)
  <2>1. seq \in 0 .. SeqMod - 1 /\ ts \in 0 .. TsMod - 1
    BY SenderAssumption
  <2>2. sender.n < MaxSent
    BY <1>6 DEF Emit
  <2>3. p \in Packets
    BY <1>1, <1>2, <1>6, <2>1, <2>2, ConstantTypes DEF Packets
  <2>4. p.time <= p.n /\ p.ssrc <= p.line + 1
    BY <1>1, <1>2, <1>6
  <2> QED
    BY <1>6, <2>3, <2>4 DEF Follows
<1>7. Send => \E p : Follows(p) /\ Emit(p)
  BY <1>4, Zenon DEF Send
<1>8. \A jump \in Jumps : Restart(jump) => \E p : Follows(p) /\ Emit(p)
  BY <1>5, Zenon DEF Restart
<1>9. \A seq \in FirstSeqs, ts \in FirstTs :
        ChangeSource(seq, ts) => \E p : Follows(p) /\ Emit(p)
  BY <1>6, Zenon DEF ChangeSource
<1> QED
  BY <1>7, <1>8, <1>9

LEMMA InitIsTyped == Init => TInv
<1> SUFFICES ASSUME Init PROVE TInv
  OBVIOUS
<1>1. PICK seq \in FirstSeqs, ts \in FirstTs :
        sender = [NoPacket EXCEPT !.seq = (seq - 1) % SeqMod, !.ts = (ts - 1) % TsMod]
  BY DEF Init
<1> DEFINE s == (seq - 1) % SeqMod
           t == (ts - 1) % TsMod
<1>2. s \in 0 .. SeqMod - 1 /\ t \in 0 .. TsMod - 1
  <2>1. seq - 1 \in Int /\ ts - 1 \in Int
    BY SenderAssumption
  <2> QED
    BY <2>1, ConstantTypes, ModRange
<1>3. sender = [n |-> 0, ssrc |-> 1, line |-> 0, time |-> 0, seq |-> s, ts |-> t]
  BY <1>1 DEF NoPacket
<1> HIDE DEF s, t
<1>4. 0 \in 0 .. MaxSent /\ 1 \in 1 .. MaxLines + 1 /\ 0 \in 0 .. MaxLines
      /\ 0 \in 0 .. SeqMod - 1 /\ 0 \in 0 .. TsMod - 1 /\ 0 \in 0 .. MaxFaults
      /\ 0 \in 0 .. MaxLines + 1
  BY ConstantTypes
<1>5. sender \in Packets /\ sender.time <= sender.n /\ sender.ssrc <= sender.line + 1
  BY <1>2, <1>3, <1>4 DEF Packets
<1>6. NoPacket \in Packets
  BY <1>4 DEF NoPacket, Packets
<1> DEFINE empty == <<>>
<1>7. empty \in Seq(Packets) /\ Len(empty) = 0
  OBVIOUS
<1>8. session = [ssrc |-> 0, last |-> 0, delivered |-> FALSE, rq |-> empty]
  BY DEF Init
<1> HIDE DEF empty
<1>9. session \in Session /\ session.rq = empty
  BY <1>4, <1>7, <1>8 DEF Session
<1>10. permissive \in BOOLEAN /\ net = {} /\ faults = 0 /\ played = NoPacket
       /\ newest = NoPacket /\ deaf = 0
  BY DEF Init
<1>11. deaf <= newest.n
  BY <1>10 DEF NoPacket
<1>12. Len(session.rq) <= MaxQueue /\ \A i \in 1 .. Len(session.rq) : FALSE
  BY <1>7, <1>9, ConstantTypes
<1> HIDE DEF NoPacket
<1>13. {sender, newest, played} \cup net \subseteq Packets
  BY <1>5, <1>6, <1>10
<1>14. session.rq \in Seq(Packets)
  BY <1>7, <1>9
<1>15. TypeOK
  BY <1>4, <1>10, <1>12, <1>13, <1>14 DEF TypeOK
<1> QED
  BY <1>5, <1>9, <1>11, <1>15 DEF TInv

\* A packet read leaves a session that is in order.
LEMMA ParsedOK ==
  ASSUME TInv, NEW p \in net, rtp_session_rtp_parse(p)
  PROVE  SessionOK(session')
<1>1. session' = Parsed(LockOn(session, p), p)
  BY DEF rtp_session_rtp_parse
<1>2. p \in Packets
  BY DEF TInv, TypeOK
<1> DEFINE s == LockOn(session, p)
<1>3. SessionOK(s) /\ s.ssrc = p.ssrc
  BY <1>2, LockOnOK, SessionIsOK
<1> HIDE DEF s
<1>4. SessionOK(rtp_session_resync(s)) /\ rtp_session_resync(s).ssrc = p.ssrc
  BY <1>3, ResyncOK
<1>5. CASE JumpsForward(s, p)
  <2>1. Queued(rtp_session_resync(s), p, Parsed(s, p))
    BY <1>2, <1>3, <1>5, ParsedIs
  <2> QED
    BY <1>1, <2>1 DEF Queued, s
<1>6. CASE JumpsBack(s, p)
  <2>1. Parsed(s, p) = rtp_session_resync(s)
    BY <1>2, <1>3, <1>6, ParsedIs
  <2> QED
    BY <1>1, <1>4, <2>1 DEF s
<1>7. CASE IsOld(s, p) /\ ~ JumpsBack(s, p)
  <2>1. Parsed(s, p) = s
    BY <1>2, <1>3, <1>7, ParsedIs
  <2> QED
    BY <1>1, <1>3, <2>1 DEF s
<1>8. CASE ~ JumpsForward(s, p) /\ ~ IsOld(s, p)
  <2>1. Queued(s, p, Parsed(s, p))
    BY <1>2, <1>3, <1>8, ParsedIs
  <2> QED
    BY <1>1, <2>1 DEF Queued, s
<1> QED
  BY <1>5, <1>6, <1>7, <1>8

\* A packet given leaves a queue that is a rest of the one before.
LEMMA GivenIs ==
  ASSUME TInv, NEW ts, rtp_session_recvm_with_ts(ts)
  PROVE  \E i \in 1 .. Len(session.rq) :
           /\ played' = session.rq[i]
           /\ session' = [session EXCEPT !.rq = SubSeq(@, i + 1, Len(@)),
                                         !.last = session.rq[i].ts, !.delivered = TRUE]
<1> DEFINE q == session.rq
           i == IF permissive THEN rtp_getq_permissive(q, ts) ELSE rtp_getq(q, ts)
<1>1. q \in Seq(Packets) /\ Wanted(q, ts) # {}
  BY DEF TInv, TypeOK, rtp_session_recvm_with_ts
<1>2. i \in 1 .. Len(q)
  <2> HIDE DEF q
  <2>1. rtp_getq(q, ts) \in 1 .. Len(q) /\ 1 \in 1 .. Len(q)
    BY <1>1, GetQueue
  <2> QED
    BY <2>1, Zenon DEF rtp_getq_permissive
<1>3. /\ played' = q[i]
      /\ session' = [session EXCEPT !.rq = SubSeq(q, i + 1, Len(q)),
                                    !.last = q[i].ts, !.delivered = TRUE]
  BY DEF rtp_session_recvm_with_ts
<1> HIDE DEF i
<1> QED
  BY <1>2, <1>3

LEMMA GivenOK ==
  ASSUME TInv, NEW ts, rtp_session_recvm_with_ts(ts)
  PROVE  SessionOK(session') /\ played' \in Packets
<1>1. PICK i \in 1 .. Len(session.rq) :
        /\ played' = session.rq[i]
        /\ session' = [session EXCEPT !.rq = SubSeq(@, i + 1, Len(@)),
                                      !.last = session.rq[i].ts, !.delivered = TRUE]
  BY GivenIs
<1>2. session \in Session /\ session.rq \in Seq(Packets) /\ Len(session.rq) <= MaxQueue
      /\ \A k \in 1 .. Len(session.rq) : session.rq[k].ssrc = session.ssrc
  BY DEF TInv, TypeOK
<1> DEFINE r == SubSeq(session.rq, i + 1, Len(session.rq))
           p == session.rq[i]
<1>3. /\ r \in Seq(Packets) /\ Len(r) <= Len(session.rq)
      /\ \A k \in 1 .. Len(r) : r[k] = session.rq[i + k] /\ i + k \in 1 .. Len(session.rq)
  BY <1>2
<1>4. p \in Packets
  BY <1>2
<1>5. session' = [session EXCEPT !.rq = r, !.last = p.ts, !.delivered = TRUE]
  BY <1>1
<1> HIDE DEF r
<1>6. \A k \in 1 .. Len(r) : r[k].ssrc = session.ssrc
  BY <1>2, <1>3
<1>7. Len(r) <= MaxQueue
  BY <1>2, <1>3, ConstantTypes
<1> DEFINE ls == p.ts
<1>8. ls \in 0 .. TsMod - 1
  BY <1>4 DEF Packets
<1>9. session' = [session EXCEPT !.rq = r, !.last = ls, !.delivered = TRUE]
  BY <1>5
<1> HIDE DEF ls
<1>10. session' \in Session /\ session'.rq = r /\ session'.ssrc = session.ssrc
  BY <1>2, <1>3, <1>8, <1>9 DEF Session
<1> QED
  BY <1>1, <1>4, <1>6, <1>7, <1>10 DEF SessionOK

LEMMA StepIsTyped == TInv /\ [Next]_vars => TInv'
<1> SUFFICES ASSUME TInv, [Next]_vars PROVE TInv'
  OBVIOUS
<1>1. /\ permissive \in BOOLEAN /\ sender \in Packets /\ newest \in Packets
      /\ played \in Packets /\ net \subseteq Packets
      /\ faults \in 0 .. MaxFaults /\ deaf \in 0 .. MaxSent
      /\ sender.time <= sender.n /\ sender.ssrc <= sender.line + 1 /\ deaf <= newest.n
  BY DEF TInv, TypeOK
<1>2. SessionOK(session)
  BY SessionIsOK
<1>3. ASSUME /\ permissive' = permissive /\ sender' \in Packets /\ newest' \in Packets
             /\ played' \in Packets /\ net' \subseteq Packets
             /\ faults' \in 0 .. MaxFaults /\ deaf' \in 0 .. MaxSent
             /\ sender'.time <= sender'.n /\ sender'.ssrc <= sender'.line + 1
             /\ deaf' <= newest'.n /\ SessionOK(session')
      PROVE  TInv'
  <2>1. session' \in Session /\ session'.rq \in Seq(Packets) /\ Len(session'.rq) <= MaxQueue
        /\ \A i \in 1 .. Len(session'.rq) : session'.rq[i].ssrc = session'.ssrc
    BY <1>3 DEF SessionOK, Session
  <2>2. TypeOK'
    BY <1>1, <1>3, <2>1 DEF TypeOK
  <2> QED
    BY <1>3, <2>1, <2>2 DEF TInv
<1>4. ASSUME NEW p, Follows(p), Emit(p) PROVE TInv'
  <2>1. p \in Packets /\ p.time <= p.n /\ p.ssrc <= p.line + 1
    BY <1>4 DEF Follows
  <2>2. sender' = p /\ net' \subseteq net \cup {p}
        /\ UNCHANGED <<permissive, session, faults, played, newest, deaf>>
    BY <1>4 DEF Emit
  <2>3. SessionOK(session')
    BY <1>2, <2>2
  <2> QED
    BY <1>1, <1>3, <2>1, <2>2, <2>3
<1>5. ASSUME NEW p \in net, Lose(p) PROVE TInv'
  <2>1. net' \subseteq net /\ faults < MaxFaults /\ faults' = faults + 1
        /\ UNCHANGED <<permissive, sender, session, played, newest, deaf>>
    BY <1>5 DEF Lose
  <2>2. faults' \in 0 .. MaxFaults
    BY <1>1, <2>1, ConstantTypes
  <2>3. SessionOK(session')
    BY <1>2, <2>1
  <2> QED
    BY <1>1, <1>3, <2>1, <2>2, <2>3
<1>6. ASSUME NEW ts, rtp_session_recvm_with_ts(ts) PROVE TInv'
  <2>1. SessionOK(session') /\ played' \in Packets
    BY <1>6, GivenOK
  <2>2. deaf' = 0 /\ UNCHANGED <<permissive, sender, net, faults, newest>>
    BY <1>6 DEF rtp_session_recvm_with_ts
  <2>3. deaf' \in 0 .. MaxSent /\ deaf' <= newest'.n
    BY <1>1, <2>2, ConstantTypes DEF Packets
  <2> QED
    BY <1>1, <1>3, <2>1, <2>2, <2>3
<1>7. ASSUME NEW p \in net, rtp_session_rtp_parse(p) PROVE TInv'
  <2>1. SessionOK(session')
    BY <1>7, ParsedOK
  <2>2. /\ net' \subseteq net
        /\ faults' = faults \/ (faults < MaxFaults /\ faults' = faults + 1)
    BY <1>7 DEF rtp_session_rtp_parse, Arrives
  <2>3. faults' \in 0 .. MaxFaults
    BY <1>1, <2>2, ConstantTypes
  <2>4. UNCHANGED <<permissive, sender>>
    BY <1>7 DEF rtp_session_rtp_parse
  <2>5. played' \in Packets
    <3>1. NoPacket \in Packets
      BY ConstantTypes DEF NoPacket, Packets
    <3>2. played' = NoPacket \/ played' = played
      BY <1>7 DEF rtp_session_rtp_parse
    <3> QED
      BY <1>1, <3>1, <3>2
  <2>6. p \in Packets
    BY <1>1
  <2>7. \/ p.n > newest.n /\ newest' = p /\ deaf' \in {0, 1, deaf, deaf + 1}
        \/ newest' = newest /\ deaf' = deaf
    BY <1>7, Zenon DEF rtp_session_rtp_parse
  <2>8. newest' \in Packets /\ deaf' \in 0 .. MaxSent /\ deaf' <= newest'.n
    BY <1>1, <2>6, <2>7, ConstantTypes DEF Packets
  <2> QED
    BY <1>1, <1>3, <2>1, <2>2, <2>3, <2>4, <2>5, <2>8
<1>8. CASE UNCHANGED vars
  <2>1. SessionOK(session')
    BY <1>2, <1>8 DEF vars
  <2> QED
    BY <1>1, <1>3, <1>8, <2>1 DEF vars
<1> QED
  BY <1>4, <1>5, <1>6, <1>7, <1>8, NextFollows, Zenon DEF Next, Outside, Playing

\* The types: the queue does not outgrow its bound (rtp_session_rtp_parse drops
\* the oldest packet of a full queue), and it holds packets of the source that
\* the session follows only.
THEOREM ReceptionTypes == Spec => []TypeOK
<1>1. Spec => []TInv
  BY InitIsTyped, StepIsTyped, PTL DEF Spec
<1>2. TInv => TypeOK
  BY DEF TInv
<1> QED
  BY <1>1, <1>2, PTL

-----------------------------------------------------------------------------
(* The clocks: sequence numbers and timestamps wrap, but tell the order of *)
(* a stream that is shorter than half of their turn.                       *)

HalfTurn == MaxSent < SeqMod \div 2 /\ MaxSent < TsMod \div 2

\* What any two packets of the sender have in common.
Kin(p, q) ==
  /\ p.line = q.line => p.ssrc = q.ssrc
  /\ p.ssrc = q.ssrc => (p.seq - q.seq) % SeqMod = (p.n - q.n) % SeqMod
  /\ p.line = q.line => /\ (p.ts - q.ts) % TsMod = (p.time - q.time) % TsMod
                        /\ p.n <= q.n => p.time <= q.time
                        /\ q.n <= p.n => q.time <= p.time

LEMMA PacketTypes ==
  ASSUME NEW p \in Packets
  PROVE  /\ p.n \in 0 .. MaxSent /\ p.ssrc \in 1 .. MaxLines + 1 /\ p.line \in 0 .. MaxLines
         /\ p.time \in 0 .. MaxSent /\ p.seq \in 0 .. SeqMod - 1 /\ p.ts \in 0 .. TsMod - 1
         /\ p.n \in Int /\ p.time \in Int /\ p.seq \in Int /\ p.ts \in Int
         /\ p.ssrc \in Int /\ p.line \in Int
BY ConstantTypes DEF Packets

Cong(m, a, b) == a % m = b % m

LEMMA CongAdd ==
  ASSUME NEW m \in Nat \ {0}, NEW a \in Int, NEW b \in Int, NEW s \in Int, Cong(m, a, b)
  PROVE  Cong(m, a + s, b + s)
BY ModAdd DEF Cong

LEMMA ModSwap ==
  ASSUME NEW m \in Nat \ {0}, NEW a \in Int, NEW b \in Int, NEW c \in Int, NEW d \in Int,
         Cong(m, a - b, c - d)
  PROVE  Cong(m, b - a, d - c)
<1> DEFINE x == a - b  y == c - d
<1>1. x \in Int /\ y \in Int /\ x % m = y % m
  BY DEF Cong
<1>2. 0 - x = b - a /\ 0 - y = d - c
  OBVIOUS
<1> HIDE DEF x, y
<1>3. (0 - x) % m = (0 - y) % m
  BY <1>1, ModNegative
<1> QED
  BY <1>2, <1>3 DEF Cong

\* One goes on by s, and its remainder is taken.
LEMMA ModGoesOn ==
  ASSUME NEW m \in Nat \ {0}, NEW a \in Int, NEW b \in Int, NEW c \in Int, NEW d \in Int,
         NEW s \in Int, Cong(m, a - b, c - d)
  PROVE  Cong(m, a - ((b + s) % m), c - (d + s))
<1> DEFINE x == a - b  y == c - d  z == 0 - s
<1>1. (a - b - s) % m = (c - (d + s)) % m
  <2>1. x \in Int /\ y \in Int /\ z \in Int /\ Cong(m, x, y)
    OBVIOUS
  <2>2. x + z = a - b - s /\ y + z = c - (d + s)
    OBVIOUS
  <2> HIDE DEF x, y, z
  <2>3. Cong(m, x + z, y + z)
    BY <2>1, CongAdd
  <2>4. (x + z) % m = (y + z) % m
    BY <2>3 DEF Cong
  <2> QED
    BY <2>2, <2>4
<1>2. (a - ((b + s) % m)) % m = (a - b - s) % m
  <2> DEFINE u == b + s  v == u % m  w == 0 - a
  <2>1. u \in Int /\ w \in Int
    OBVIOUS
  <2>2. v \in Int
    BY <2>1, ModRange
  <2>3. a - v = 0 - (v + w) /\ a - b - s = 0 - (u + w)
    <3> HIDE DEF v
    <3> QED
      BY <2>2
  <2>4. (v + w) % m = (u + w) % m
    <3> HIDE DEF u, w
    <3> QED
      BY <2>1, ModInner
  <2> DEFINE e == v + w  f == u + w
  <2>5. e \in Int /\ f \in Int /\ e % m = f % m /\ a - v = 0 - e /\ a - b - s = 0 - f
    <3> HIDE DEF u, v, w
    <3> QED
      BY <2>1, <2>2, <2>3, <2>4
  <2> HIDE DEF e, f
  <2>6. (0 - e) % m = (0 - f) % m
    BY <2>5, ModNegative
  <2> HIDE DEF u, v, w
  <2>7. (a - v) % m = (a - b - s) % m
    BY <2>5, <2>6
  <2> QED
    BY <2>7 DEF u, v
<1> QED
  BY <1>1, <1>2 DEF Cong

LEMMA KinIsMutual ==
  ASSUME NEW p \in Packets, NEW q \in Packets, Kin(p, q)
  PROVE  Kin(q, p)
<1>1. ASSUME p.ssrc = q.ssrc PROVE (q.seq - p.seq) % SeqMod = (q.n - p.n) % SeqMod
  <2> DEFINE a == p.seq  b == q.seq  c == p.n  d == q.n
  <2>1. /\ a \in Int /\ b \in Int /\ c \in Int /\ d \in Int
        /\ Cong(SeqMod, a - b, c - d) /\ SeqMod \in Nat \ {0}
    BY <1>1, PacketTypes, ConstantTypes DEF Cong, Kin
  <2> HIDE DEF a, b, c, d
  <2>2. Cong(SeqMod, b - a, d - c)
    BY <2>1, ModSwap
  <2> QED
    BY <2>2 DEF Cong, a, b, c, d
<1>2. ASSUME p.line = q.line PROVE (q.ts - p.ts) % TsMod = (q.time - p.time) % TsMod
  <2> DEFINE a == p.ts  b == q.ts  c == p.time  d == q.time
  <2>1. /\ a \in Int /\ b \in Int /\ c \in Int /\ d \in Int
        /\ Cong(TsMod, a - b, c - d) /\ TsMod \in Nat \ {0}
    BY <1>2, PacketTypes, ConstantTypes DEF Cong, Kin
  <2> HIDE DEF a, b, c, d
  <2>2. Cong(TsMod, b - a, d - c)
    BY <2>1, ModSwap
  <2> QED
    BY <2>2 DEF Cong, a, b, c, d
<1> QED
  BY <1>1, <1>2, Zenon DEF Kin

\* A packet that follows the last one is of the same kin as those before.
LEMMA FollowsIsKin ==
  ASSUME sender \in Packets, NEW p, Follows(p),
         NEW q \in Packets, Kin(q, sender),
         q.n <= sender.n, q.line <= sender.line, q.ssrc <= sender.ssrc
  PROVE  Kin(q, p)
<1>1. p \in Packets /\ p.n = sender.n + 1
  BY DEF Follows
<1>2. ASSUME p.ssrc = q.ssrc PROVE (q.seq - p.seq) % SeqMod = (q.n - p.n) % SeqMod
  <2>1. p.ssrc = sender.ssrc /\ p.seq = (sender.seq + 1) % SeqMod
    <3>1. p.ssrc # sender.ssrc + 1
      BY <1>1, <1>2, PacketTypes
    <3> QED
      BY <3>1 DEF Follows
  <2> DEFINE a == q.seq  b == sender.seq  c == q.n  d == sender.n  one == 1
  <2>2. /\ a \in Int /\ b \in Int /\ c \in Int /\ d \in Int /\ one \in Int
        /\ Cong(SeqMod, a - b, c - d) /\ SeqMod \in Nat \ {0}
    BY <1>2, <2>1, PacketTypes, ConstantTypes DEF Cong, Kin
  <2> HIDE DEF a, b, c, d, one
  <2>3. Cong(SeqMod, a - ((b + one) % SeqMod), c - (d + one))
    BY <2>2, ModGoesOn
  <2> QED
    BY <1>1, <2>1, <2>3 DEF Cong, a, b, c, d, one
<1>3. ASSUME p.line = q.line
      PROVE  /\ p.ssrc = q.ssrc /\ q.time <= p.time
             /\ (q.ts - p.ts) % TsMod = (q.time - p.time) % TsMod
  <2>1. p.line # sender.line + 1
    BY <1>1, <1>3, PacketTypes
  <2>2. PICK step \in {0, 1} : /\ p.ssrc = sender.ssrc /\ p.line = sender.line
                               /\ p.time = sender.time + step
                               /\ p.ts = (sender.ts + step) % TsMod
    BY <2>1 DEF Follows
  <2>3. /\ q.ssrc = sender.ssrc /\ q.time <= sender.time
        /\ (q.ts - sender.ts) % TsMod = (q.time - sender.time) % TsMod
    BY <1>3, <2>2 DEF Kin
  <2> DEFINE a == q.ts  b == sender.ts  c == q.time  d == sender.time
  <2>4. /\ a \in Int /\ b \in Int /\ c \in Int /\ d \in Int /\ step \in Int
        /\ Cong(TsMod, a - b, c - d) /\ TsMod \in Nat \ {0}
    BY <2>3, PacketTypes, ConstantTypes DEF Cong
  <2>5. q.time <= p.time
    BY <2>2, <2>3, PacketTypes
  <2> HIDE DEF a, b, c, d
  <2>6. Cong(TsMod, a - ((b + step) % TsMod), c - (d + step))
    BY <2>4, ModGoesOn
  <2> QED
    BY <2>2, <2>3, <2>5, <2>6 DEF Cong, a, b, c, d
<1>4. ~ (p.n <= q.n)
  BY <1>1, PacketTypes
<1> QED
  BY <1>2, <1>3, <1>4 DEF Kin

LEMMA KinOfItself == \A p \in Packets : Kin(p, p)
<1> SUFFICES ASSUME NEW p \in Packets PROVE Kin(p, p)
  OBVIOUS
<1>1. p.seq - p.seq = p.n - p.n /\ p.ts - p.ts = p.time - p.time /\ p.time <= p.time
  BY PacketTypes
<1> QED
  BY <1>1, Zenon DEF Kin

\* A difference of less than half a turn shows in the remainder.
LEMMA HalfOrder ==
  ASSUME NEW m \in Nat \ {0}, m % 2 = 0, NEW d \in Int, - (m \div 2) < d, d < m \div 2
  PROVE  (d % m < m \div 2 <=> 0 <= d) /\ (d % m = 0 <=> d = 0)
<1>1. m = 2 * (m \div 2) /\ m \div 2 \in Int
  OBVIOUS
<1> DEFINE h == m \div 2
<1>2. h \in Int /\ m = 2 * h /\ - h < d /\ d < h
  BY <1>1
<1> DEFINE r == d % m
<1>3. /\ 0 <= d /\ d < m => r = d
      /\ d < 0 /\ - m <= d => r = d + m
  BY ModSmall
<1> HIDE DEF h, r
<1>4. (r < h <=> 0 <= d) /\ (r = 0 <=> d = 0)
  BY <1>2, <1>3
<1> QED
  BY <1>4 DEF h, r

\* The queue's order is the order of sending.
LEMMA SeqOrder ==
  ASSUME HalfTurn, NEW p \in Packets, NEW q \in Packets, Kin(p, q), p.ssrc = q.ssrc
  PROVE  /\ SeqIsGreater(p.seq, q.seq) <=> q.n <= p.n
         /\ p.seq = q.seq <=> p.n = q.n
<1> DEFINE d == p.n - q.n
           e == p.seq - q.seq
           h == SeqMod \div 2
<1>1. e % SeqMod = d % SeqMod
  BY DEF Kin
<1>2. d \in Int /\ e \in Int /\ (q.n <= p.n <=> 0 <= d) /\ (p.n = q.n <=> d = 0)
      /\ (p.seq = q.seq <=> e = 0) /\ - SeqMod < e /\ e < SeqMod
  BY PacketTypes, ConstantTypes
<1>3. SeqMod \in Nat \ {0} /\ SeqMod % 2 = 0
  BY ModuliAssumption
<1>4. - h < d /\ d < h
  <2>1. MaxSent < h /\ h \in Int
    BY ConstantTypes DEF HalfTurn
  <2> HIDE DEF h
  <2> QED
    BY <2>1, PacketTypes, ConstantTypes
<1>5. (d % SeqMod < h <=> 0 <= d) /\ (d % SeqMod = 0 <=> d = 0)
  <2> HIDE DEF d
  <2> QED
    BY <1>2, <1>3, <1>4, HalfOrder
<1>6. e % SeqMod = 0 <=> e = 0
  <2>1. /\ 0 <= e /\ e < SeqMod => e % SeqMod = e
        /\ e < 0 /\ - SeqMod <= e => e % SeqMod = e + SeqMod
    <3> HIDE DEF e
    <3> QED
      BY <1>2, <1>3, ModSmall
  <2> DEFINE r == e % SeqMod
  <2>2. /\ 0 <= e /\ e < SeqMod => r = e
        /\ e < 0 /\ - SeqMod <= e => r = e + SeqMod
    BY <2>1
  <2> HIDE DEF r, e
  <2>3. r = 0 <=> e = 0
    BY <1>2, <1>3, <2>2
  <2> QED
    BY <2>3 DEF r
<1>7. SeqIsGreater(p.seq, q.seq) <=> e % SeqMod < h
  BY DEF SeqIsGreater
<1> HIDE DEF d, e, h
<1> QED
  BY <1>1, <1>2, <1>5, <1>6, <1>7

Sorted(q) == \A i, j \in 1 .. Len(q) : i < j => q[i].n < q[j].n

LEMMA PutSorted ==
  ASSUME NEW q \in Seq(Packets), Sorted(q), NEW p \in Packets,
         \A i \in 1 .. Len(q) : /\ SeqIsGreater(p.seq, q[i].seq) <=> q[i].n <= p.n
                                /\ p.seq = q[i].seq <=> p.n = q[i].n
  PROVE  Sorted(rtp_putq(q, p))
<1>1. ASSUME NEW at \in 0 .. Len(q), rtp_putq(q, p) = Insert(q, at, p),
             at > 0 => SeqIsGreater(p.seq, q[at].seq) /\ q[at].seq # p.seq,
             \A j \in at + 1 .. Len(q) : ~ SeqIsGreater(p.seq, q[j].seq)
      PROVE  Sorted(rtp_putq(q, p))
  <2> DEFINE d == Insert(q, at, p)
  <2>1. d \in Seq(Packets) /\ Inserted(d, q, at, p)
    BY InsertIs
  <2>2. Len(q) \in Nat /\ p.n \in Int /\ \A i \in 1 .. Len(q) : q[i] \in Packets /\ q[i].n \in Int
    BY PacketTypes
  <2>3. \A i \in 1 .. Len(q) : i <= at => q[i].n < p.n
    <3>1. at > 0 => q[at].n < p.n
      <4> SUFFICES ASSUME at > 0 PROVE q[at].n < p.n
        OBVIOUS
      <4>1. at \in 1 .. Len(q)
        BY <2>2
      <4>2. q[at].n <= p.n /\ p.n # q[at].n
        BY <1>1, <4>1
      <4> QED
        BY <2>2, <4>1, <4>2
    <3>2. \A i \in 1 .. Len(q) : i < at => q[i].n < q[at].n
      BY <2>2 DEF Sorted
    <3> QED
      BY <2>2, <3>1, <3>2
  <2>4. \A i \in 1 .. Len(q) : ~ (i <= at) => p.n < q[i].n
    <3>1. \A i \in 1 .. Len(q) : ~ (i <= at) => i \in at + 1 .. Len(q)
      BY <2>2
    <3>2. \A i \in 1 .. Len(q) : ~ (i <= at) => ~ (q[i].n <= p.n)
      BY <1>1, <3>1, Zenon
    <3> QED
      BY <2>2, <3>2
  <2> HIDE DEF d
  <2>5. ASSUME NEW i \in 1 .. Len(q) + 1, NEW j \in 1 .. Len(q) + 1, i < j
        PROVE  d[i].n < d[j].n
    <3>1. d[i] = IF i <= at THEN q[i] ELSE IF i = at + 1 THEN p ELSE q[i - 1]
      BY <2>1, Zenon DEF Inserted
    <3>2. d[j] = IF j <= at THEN q[j] ELSE IF j = at + 1 THEN p ELSE q[j - 1]
      BY <2>1, Zenon DEF Inserted
    <3>3. CASE i <= at
      <4>1. i \in 1 .. Len(q) /\ q[i].n < p.n /\ d[i] = q[i]
        BY <2>2, <2>3, <3>1, <3>3
      <4>2. CASE j <= at
        <5>1. j \in 1 .. Len(q) /\ d[j] = q[j]
          BY <2>2, <3>2, <4>2
        <5> QED
          BY <2>5, <4>1, <5>1 DEF Sorted
      <4>3. CASE j = at + 1
        BY <2>2, <3>2, <4>1, <4>3
      <4>4. CASE ~ (j <= at) /\ j # at + 1
        <5>1. j - 1 \in 1 .. Len(q) /\ ~ (j - 1 <= at) /\ d[j] = q[j - 1]
          BY <2>2, <3>2, <4>4
        <5> QED
          BY <2>2, <2>4, <4>1, <5>1
      <4> QED
        BY <4>2, <4>3, <4>4
    <3>4. CASE i = at + 1
      <4>1. d[i] = p /\ j - 1 \in 1 .. Len(q) /\ ~ (j - 1 <= at) /\ d[j] = q[j - 1]
        BY <2>2, <2>5, <3>1, <3>2, <3>4
      <4> QED
        BY <2>4, <4>1
    <3>5. CASE ~ (i <= at) /\ i # at + 1
      <4>1. /\ d[i] = q[i - 1] /\ d[j] = q[j - 1] /\ i - 1 < j - 1
            /\ i - 1 \in 1 .. Len(q) /\ j - 1 \in 1 .. Len(q)
        BY <2>2, <2>5, <3>1, <3>2, <3>5
      <4> QED
        BY <4>1 DEF Sorted
    <3> QED
      BY <3>3, <3>4, <3>5
  <2>6. Len(d) = Len(q) + 1
    BY <2>1 DEF Inserted
  <2> QED
    BY <1>1, <2>5, <2>6 DEF Sorted, d
<1> QED
  BY <1>1, PutQueue, Zenon

LEMMA QueueSorted ==
  ASSUME NEW s \in Session, Sorted(s.rq), NEW p \in Packets,
         \A i \in 1 .. Len(s.rq) : /\ SeqIsGreater(p.seq, s.rq[i].seq) <=> s.rq[i].n <= p.n
                                   /\ p.seq = s.rq[i].seq <=> p.n = s.rq[i].n
  PROVE  Sorted(queue_packet(s, p).rq)
<1> DEFINE q == s.rq
           r == rtp_putq(q, p)
           t == IF Len(r) > MaxQueue THEN Tail(r) ELSE r
<1>1. q \in Seq(Packets)
  BY DEF Session
<1>2. queue_packet(s, p).rq = t
  BY DEF queue_packet, Session
<1>3. Sorted(r)
  <2> HIDE DEF q
  <2>1. Sorted(q)
    BY DEF q
  <2>2. \A i \in 1 .. Len(q) : /\ SeqIsGreater(p.seq, q[i].seq) <=> q[i].n <= p.n
                               /\ p.seq = q[i].seq <=> p.n = q[i].n
    BY DEF q
  <2> QED
    BY <1>1, <2>1, <2>2, PutSorted
<1>4. r \in Seq(Packets)
  <2> HIDE DEF q
  <2> QED
    BY <1>1, PutMembers
<1> HIDE DEF q, r
<1>5. CASE Len(r) > MaxQueue
  <2>1. r # <<>>
    BY <1>4, <1>5, ConstantTypes
  <2>2. Len(Tail(r)) = Len(r) - 1 /\ \A i \in 1 .. Len(r) - 1 : Tail(r)[i] = r[i + 1]
    BY <1>4, <2>1
  <2> DEFINE u == Tail(r)
  <2>3. Len(u) = Len(r) - 1 /\ \A i \in 1 .. Len(r) - 1 : u[i] = r[i + 1]
    BY <2>2
  <2> HIDE DEF u
  <2>4. Len(r) \in Nat /\ Sorted(u)
    BY <1>3, <1>4, <2>3 DEF Sorted
  <2> QED
    BY <1>2, <1>5, <2>4 DEF u
<1>6. CASE ~ (Len(r) > MaxQueue)
  BY <1>2, <1>3, <1>6
<1> QED
  BY <1>5, <1>6

\* What becomes of the session when a packet is read: it begins anew with the
\* packet, or refuses it, or queues it.
BeginsAnew(p) ==
  /\ ~ session'.delivered /\ Len(session'.rq) <= 1
  /\ \A i \in 1 .. Len(session'.rq) : session'.rq[i] = p
  /\ played' = NoPacket \/ (played' = played /\ session.ssrc = 0)

Refuses(p) ==
  /\ IsOld(session, p) /\ ~ JumpsBack(session, p)
  /\ session' = session /\ played' = played

Queues(p) ==
  /\ ~ IsOld(session, p) /\ ~ JumpsForward(session, p) /\ p.ssrc = session.ssrc
  /\ session' = queue_packet(session, p) /\ Queued(session, p, session') /\ played' = played

LEMMA ReadIs ==
  ASSUME TInv, session.ssrc = 0 => ~ session.delivered,
         NEW p \in net, rtp_session_rtp_parse(p)
  PROVE  /\ SessionOK(session') /\ session'.ssrc = p.ssrc
         /\ BeginsAnew(p) \/ Refuses(p) \/ Queues(p)
<1> DEFINE s == LockOn(session, p)
<1>1. /\ session' = Parsed(s, p)
      /\ played' = IF session.ssrc \notin {0, p.ssrc} \/ JumpsForward(s, p) \/ JumpsBack(s, p)
                   THEN NoPacket ELSE played
  BY DEF rtp_session_rtp_parse
<1>2. p \in Packets /\ p.ssrc # 0
  BY DEF TInv, TypeOK, Packets
<1>3. SessionOK(session) /\ session \in Session
  BY SessionIsOK DEF TInv
<1>4. /\ SessionOK(s) /\ s.ssrc = p.ssrc
      /\ session.ssrc = p.ssrc => s = session
      /\ session.ssrc # p.ssrc => s.rq = <<>>
  BY <1>2, <1>3, LockOnOK
<1>5. session.ssrc # p.ssrc => ~ s.delivered
  BY <1>3 DEF LockOn, rtp_session_resync, Session
<1> DEFINE r == rtp_session_resync(s)
<1>7. SessionOK(r) /\ r.rq = <<>> /\ r.ssrc = p.ssrc /\ r.delivered = FALSE
  BY <1>4, ResyncOK
<1>8. Len(<<>>) = 0
  OBVIOUS
<1>9. /\ JumpsForward(s, p) => Queued(r, p, Parsed(s, p))
      /\ JumpsBack(s, p) => Parsed(s, p) = r
      /\ IsOld(s, p) /\ ~ JumpsBack(s, p) => Parsed(s, p) = s
      /\ ~ JumpsForward(s, p) /\ ~ IsOld(s, p)
           => Queued(s, p, Parsed(s, p)) /\ Parsed(s, p) = queue_packet(s, p)
  BY <1>2, <1>4, ParsedIs
<1>10. ~ s.delivered => ~ JumpsForward(s, p) /\ ~ IsOld(s, p) /\ ~ JumpsBack(s, p)
  BY DEF JumpsForward, IsOld, JumpsBack
<1>11. SessionOK(session')
  BY ParsedOK
<1> HIDE DEF s, r
<1>12. CASE JumpsForward(s, p)
  <2>1. Queued(r, p, session') /\ played' = NoPacket
    BY <1>1, <1>9, <1>12
  <2>2. session'.ssrc = p.ssrc /\ ~ session'.delivered /\ Len(session'.rq) <= 1
        /\ \A i \in 1 .. Len(session'.rq) : session'.rq[i] = p
    BY <1>7, <1>8, <2>1 DEF Queued
  <2> QED
    BY <1>11, <2>1, <2>2 DEF BeginsAnew
<1>13. CASE JumpsBack(s, p)
  <2>1. session' = r /\ played' = NoPacket
    BY <1>1, <1>9, <1>13
  <2> QED
    BY <1>7, <1>8, <1>11, <2>1 DEF BeginsAnew
<1>14. CASE IsOld(s, p) /\ ~ JumpsBack(s, p)
  <2>1. session.ssrc = p.ssrc
    BY <1>5, <1>10, <1>14
  <2>2. ~ JumpsForward(s, p)
    BY <1>14 DEF IsOld
  <2>3. session' = session /\ played' = played
    BY <1>1, <1>4, <1>9, <1>14, <2>1, <2>2
  <2> QED
    BY <1>4, <1>11, <1>14, <2>1, <2>3 DEF Refuses
<1>15. CASE ~ JumpsForward(s, p) /\ ~ IsOld(s, p)
  <2>1. /\ Queued(s, p, session') /\ session' = queue_packet(s, p)
        /\ ~ JumpsBack(s, p)
    BY <1>1, <1>9, <1>15 DEF JumpsBack
  <2>2. session'.ssrc = p.ssrc
    BY <1>4, <2>1 DEF Queued
  <2>3. CASE session.ssrc = p.ssrc
    <3>1. played' = played
      BY <1>1, <1>15, <2>1, <2>3
    <3> QED
      BY <1>4, <1>11, <1>15, <2>1, <2>2, <2>3, <3>1 DEF Queues
  <2>4. CASE session.ssrc # p.ssrc
    <3>1. ~ session'.delivered /\ Len(session'.rq) <= 1
          /\ \A i \in 1 .. Len(session'.rq) : session'.rq[i] = p
      BY <1>4, <1>5, <1>8, <2>1, <2>4 DEF Queued
    <3>2. played' = NoPacket \/ (played' = played /\ session.ssrc = 0)
      BY <1>1, <1>15, <2>1, <2>4
    <3> QED
      BY <1>11, <2>2, <3>1, <3>2 DEF BeginsAnew
  <2> QED
    BY <2>3, <2>4
<1> QED
  BY <1>12, <1>13, <1>14, <1>15

-----------------------------------------------------------------------------
(* What the receiver knows of the sender.                                  *)

InQueue == {session.rq[i] : i \in 1 .. Len(session.rq)}
Known == net \cup InQueue \cup {p \in {newest, played} : p.n # 0}

Sent(p) ==
  /\ 0 < p.n /\ p.n <= sender.n /\ p.line <= sender.line /\ p.ssrc <= sender.ssrc
  /\ Kin(p, sender)

KnownInv ==
  /\ \A p \in Known : Sent(p)
  /\ \A p, q \in Known : Kin(p, q)

\* Of the packets given since the last resync and those that wait, none is
\* before the last one given.
PlayInv ==
  /\ Sorted(session.rq)
  /\ session.delivered <=> played.n # 0
  /\ session.ssrc = 0 => ~ session.delivered
  /\ session.delivered =>
       /\ session.last = played.ts
       /\ \A i \in 1 .. Len(session.rq) :
            session.rq[i].line = played.line => played.time <= session.rq[i].time

\* A sender that is refused is behind the last packet given by less than a jump,
\* and each refusal has brought it nearer.
DeafInv ==
  /\ deaf <= TsJump
  /\ deaf > 0 => newest.n # 0
  /\ deaf > 0 /\ session.delivered =>
       /\ (session.last - newest.ts) % TsMod \in 1 .. TsJump
       /\ deaf + ((session.last - newest.ts) % TsMod) <= TsJump + 1

RInv == TInv /\ KnownInv /\ PlayInv /\ DeafInv

LEMMA KnownTyped == TInv => Known \subseteq Packets
<1> SUFFICES ASSUME TInv PROVE Known \subseteq Packets
  OBVIOUS
<1>1. session.rq \in Seq(Packets) /\ net \subseteq Packets /\ newest \in Packets /\ played \in Packets
  BY DEF TInv, TypeOK
<1>2. InQueue \subseteq Packets
  BY <1>1 DEF InQueue
<1> QED
  BY <1>1, <1>2 DEF Known

LEMMA FewerKnown ==
  ASSUME KnownInv, Known' \subseteq Known, sender' = sender
  PROVE  KnownInv'
BY DEF KnownInv, Sent

\* A packet that is sent becomes known, and is of one kind with the others.
LEMMA EmitKnown ==
  ASSUME TInv, KnownInv, NEW p, Follows(p), Emit(p)
  PROVE  KnownInv'
<1>1. p \in Packets /\ sender \in Packets /\ sender' = p /\ p.n = sender.n + 1
      /\ net' \subseteq net \cup {p} /\ UNCHANGED <<session, played, newest>>
  BY DEF Follows, Emit, TInv, TypeOK
<1>2. Known' \subseteq Known \cup {p}
  BY <1>1, Zenon DEF Known, InQueue
<1>3. Known \subseteq Packets
  BY KnownTyped
<1>4. ASSUME NEW q \in Known PROVE Kin(q, p) /\ Kin(p, q) /\ Sent(q)'
  <2>1. q \in Packets /\ Sent(q)
    BY <1>3, <1>4 DEF KnownInv
  <2>2. Kin(q, p)
    BY <1>1, <2>1, FollowsIsKin DEF Sent
  <2>3. Kin(p, q)
    BY <1>1, <2>1, <2>2, KinIsMutual
  <2>4. p.line \in {sender.line, sender.line + 1} /\ p.ssrc \in {sender.ssrc, sender.ssrc + 1}
    BY DEF Follows
  <2>5. q.n <= p.n /\ q.line <= p.line /\ q.ssrc <= p.ssrc /\ 0 < q.n
    BY <1>1, <2>1, <2>4, PacketTypes DEF Sent
  <2> QED
    BY <1>1, <2>2, <2>3, <2>5 DEF Sent
<1>5. Kin(p, p) /\ Sent(p)'
  <2>1. Kin(p, p)
    BY <1>1, KinOfItself
  <2>2. 0 < p.n /\ p.n <= p.n /\ p.line <= p.line /\ p.ssrc <= p.ssrc
    BY <1>1, PacketTypes
  <2> QED
    BY <1>1, <2>1, <2>2 DEF Sent
<1>6. \A q \in Known' : Sent(q)'
  BY <1>2, <1>4, <1>5
<1>7. \A q, r \in Known' : Kin(q, r)
  <2> SUFFICES ASSUME NEW q \in Known', NEW r \in Known' PROVE Kin(q, r)
    OBVIOUS
  <2>1. q \in Known \cup {p} /\ r \in Known \cup {p}
    BY <1>2
  <2> QED
    BY <1>4, <1>5, <2>1 DEF KnownInv
<1> QED
  BY <1>6, <1>7 DEF KnownInv

\* Reading and giving packets make no other packets known.
LEMMA ReadKnown ==
  ASSUME RInv, NEW p \in net, rtp_session_rtp_parse(p)
  PROVE  KnownInv'
<1>1. /\ net' \subseteq net /\ newest' \in {newest, p} /\ sender' = sender
  BY Zenon DEF rtp_session_rtp_parse, Arrives
<1>2. BeginsAnew(p) \/ Refuses(p) \/ Queues(p)
  BY ReadIs DEF RInv, PlayInv
<1>3. InQueue' \subseteq InQueue \cup {p}
  <2>1. CASE BeginsAnew(p)
    BY <2>1 DEF BeginsAnew, InQueue
  <2>2. CASE Refuses(p)
    BY <2>2 DEF Refuses, InQueue
  <2>3. CASE Queues(p)
    BY <2>3 DEF Queues, Queued, InQueue
  <2> QED
    BY <1>2, <2>1, <2>2, <2>3
<1>4. played' \in {played, NoPacket}
  BY <1>2 DEF BeginsAnew, Refuses, Queues
<1>5. NoPacket.n = 0
  BY DEF NoPacket
<1>6. Known' \subseteq Known
  <2>1. p \in Known
    BY DEF Known
  <2>2. \A q : q \in {newest', played'} /\ q.n # 0 => q \in {newest, played, p} /\ q.n # 0
    BY <1>1, <1>4, <1>5
  <2> QED
    BY <1>1, <1>3, <2>1, <2>2 DEF Known
<1> QED
  BY <1>1, <1>6, FewerKnown DEF RInv

LEMMA GivenKnown ==
  ASSUME RInv, NEW ts, rtp_session_recvm_with_ts(ts)
  PROVE  KnownInv'
<1>1. UNCHANGED <<net, newest, sender>>
  BY DEF rtp_session_recvm_with_ts
<1>2. PICK i \in 1 .. Len(session.rq) :
        /\ played' = session.rq[i]
        /\ session' = [session EXCEPT !.rq = SubSeq(@, i + 1, Len(@)),
                                      !.last = session.rq[i].ts, !.delivered = TRUE]
  BY GivenIs DEF RInv
<1>3. session \in Session /\ session.rq \in Seq(Packets)
  BY DEF RInv, TInv, TypeOK
<1>4. session'.rq = SubSeq(session.rq, i + 1, Len(session.rq))
  BY <1>2, <1>3 DEF Session
<1> DEFINE q == session.rq
           r == SubSeq(q, i + 1, Len(q))
<1>5. InQueue' \subseteq InQueue /\ played' \in InQueue
  <2>1. \A k \in 1 .. Len(r) : r[k] = q[i + k] /\ i + k \in 1 .. Len(q)
    BY <1>3, SMTT(20)
  <2>2. session'.rq = r /\ played' = q[i]
    BY <1>2, <1>4
  <2> HIDE DEF r
  <2>3. InQueue' = {r[k] : k \in 1 .. Len(r)}
    BY <2>2 DEF InQueue
  <2> QED
    BY <2>1, <2>2, <2>3 DEF InQueue
<1>6. Known' \subseteq Known
  BY <1>1, <1>5 DEF Known
<1> QED
  BY <1>1, <1>6, FewerKnown DEF RInv

-----------------------------------------------------------------------------
(* The order in which packets are given.                                   *)

\* A packet that is not taken for an old one is not before the last one given.
LEMMA NotOld ==
  ASSUME HalfTurn, NEW s \in Session, NEW p \in Packets, NEW q \in Packets,
         s.delivered, s.last = q.ts, Kin(q, p), p.line = q.line,
         ~ IsOld(s, p), ~ JumpsForward(s, p)
  PROVE  q.time <= p.time
<1> SUFFICES ASSUME ~ (q.time <= p.time) PROVE FALSE
  OBVIOUS
<1> DEFINE d == q.time - p.time
           h == TsMod \div 2
<1>1. d \in Int /\ 0 < d /\ d <= MaxSent /\ p.ts \in Int /\ q.ts \in Int
  BY PacketTypes, ConstantTypes
<1>2. (q.ts - p.ts) % TsMod = d % TsMod
  BY DEF Kin
<1>3. TsMod \in Nat \ {0} /\ TsMod % 2 = 0 /\ h \in Int /\ MaxSent < h /\ MaxSent \in Nat
  BY ModuliAssumption, ConstantTypes DEF HalfTurn
<1>4. (d % TsMod < h <=> 0 <= d) /\ (d % TsMod = 0 <=> d = 0)
  <2>1. - h < d /\ d < h
    <3> HIDE DEF d, h
    <3> QED
      BY <1>1, <1>3
  <2> HIDE DEF d
  <2> QED
    BY <1>1, <1>3, <2>1, HalfOrder
<1>5. NewerThan(q.ts, p.ts)
  <2>1. d % TsMod < h
    BY <1>1, <1>4
  <2> HIDE DEF d
  <2> QED
    BY <1>2, <2>1 DEF NewerThan
<1>6. q.ts % TsMod # p.ts % TsMod
  <2>1. d % TsMod # 0
    <3> HIDE DEF d
    <3> QED
      BY <1>1, <1>4
  <2>2. q.ts % TsMod = p.ts % TsMod <=> (q.ts - p.ts) % TsMod = 0
    <3> DEFINE a == q.ts  b == p.ts
    <3>1. a \in Int /\ b \in Int
      BY <1>1
    <3> HIDE DEF a, b
    <3>2. a % TsMod = b % TsMod <=> (a - b) % TsMod = 0
      BY <1>3, <3>1, ModEqual
    <3> QED
      BY <3>2 DEF a, b
  <2> HIDE DEF d
  <2> QED
    BY <1>2, <2>1, <2>2
<1>7. StrictlyNewerThan(s.last, p.ts)
  BY <1>5, <1>6 DEF StrictlyNewerThan
<1> QED
  BY <1>7 DEF IsOld

LEMMA SortedShort ==
  ASSUME NEW q, Len(q) <= 1, Len(q) \in Nat
  PROVE  Sorted(q)
BY DEF Sorted

LEMMA ReadPlays ==
  ASSUME HalfTurn, RInv, NEW p \in net, rtp_session_rtp_parse(p)
  PROVE  PlayInv'
<1>1. /\ SessionOK(session') /\ session'.ssrc = p.ssrc
      /\ BeginsAnew(p) \/ Refuses(p) \/ Queues(p)
  BY ReadIs DEF RInv, PlayInv
<1>2. p \in Packets /\ session \in Session /\ played \in Packets /\ session.rq \in Seq(Packets)
  BY DEF RInv, TInv, TypeOK
<1>3. session'.ssrc # 0
  BY <1>1, <1>2, PacketTypes
<1>4. CASE BeginsAnew(p)
  <2>1. Len(session'.rq) \in Nat
    BY <1>1 DEF SessionOK, Session
  <2>2. Sorted(session'.rq)
    BY <1>4, <2>1, SortedShort DEF BeginsAnew
  <2>3. played'.n = 0
    BY <1>4 DEF BeginsAnew, NoPacket, RInv, PlayInv
  <2>4. ~ session'.delivered
    BY <1>4 DEF BeginsAnew
  <2> QED
    BY <1>3, <2>2, <2>3, <2>4 DEF PlayInv
<1>5. CASE Refuses(p)
  BY <1>5 DEF Refuses, RInv, PlayInv
<1>6. CASE Queues(p)
  <2>1. /\ session'.delivered = session.delivered /\ session'.last = session.last
        /\ session'.ssrc = session.ssrc /\ played' = played
        /\ session' = queue_packet(session, p)
        /\ \A i \in 1 .. Len(session'.rq) :
             session'.rq[i] = p \/ \E j \in 1 .. Len(session.rq) : session'.rq[i] = session.rq[j]
    BY <1>6 DEF Queues, Queued
  <2>2. Sorted(session'.rq)
    <3>1. ASSUME NEW i \in 1 .. Len(session.rq)
          PROVE  /\ SeqIsGreater(p.seq, session.rq[i].seq) <=> session.rq[i].n <= p.n
                 /\ p.seq = session.rq[i].seq <=> p.n = session.rq[i].n
      <4>1. session.rq[i] \in Packets /\ session.rq[i].ssrc = p.ssrc
        BY <1>2, <1>6 DEF Queues, RInv, TInv, TypeOK
      <4>2. session.rq[i] \in Known /\ p \in Known
        BY DEF Known, InQueue
      <4>3. Kin(p, session.rq[i])
        BY <4>2 DEF RInv, KnownInv
      <4> QED
        BY <1>2, <4>1, <4>3, SeqOrder
    <3>2. Sorted(session.rq)
      BY DEF RInv, PlayInv
    <3> QED
      BY <1>2, <2>1, <3>1, <3>2, QueueSorted
  <2>3. ASSUME session.delivered, p.line = played.line PROVE played.time <= p.time
    <3>1. played.n # 0 /\ session.last = played.ts
      BY <2>3 DEF RInv, PlayInv
    <3>2. played \in Known /\ p \in Known
      BY <3>1 DEF Known
    <3>3. Kin(played, p)
      BY <3>2 DEF RInv, KnownInv
    <3> QED
      BY <1>2, <1>6, <2>3, <3>1, <3>3, NotOld DEF Queues
  <2>4. ASSUME session'.delivered, NEW i \in 1 .. Len(session'.rq),
               session'.rq[i].line = played'.line
        PROVE  played'.time <= session'.rq[i].time
    BY <2>1, <2>3, <2>4 DEF RInv, PlayInv
  <2> QED
    BY <1>3, <2>1, <2>2, <2>4 DEF RInv, PlayInv
<1> QED
  BY <1>1, <1>4, <1>5, <1>6

LEMMA GivenPlays ==
  ASSUME RInv, NEW ts, rtp_session_recvm_with_ts(ts)
  PROVE  /\ PlayInv'
         /\ played.n # 0 /\ played'.line = played.line => played.time <= played'.time
<1>1. PICK i \in 1 .. Len(session.rq) :
        /\ played' = session.rq[i]
        /\ session' = [session EXCEPT !.rq = SubSeq(@, i + 1, Len(@)),
                                      !.last = session.rq[i].ts, !.delivered = TRUE]
  BY GivenIs DEF RInv
<1> DEFINE q == session.rq
           r == SubSeq(q, i + 1, Len(q))
<1>2. session \in Session /\ q \in Seq(Packets) /\ Sorted(q)
      /\ \A k \in 1 .. Len(q) : q[k].ssrc = session.ssrc
  BY DEF RInv, TInv, TypeOK, PlayInv
<1>3. /\ session'.rq = r /\ session'.last = q[i].ts /\ session'.delivered
      /\ session'.ssrc = session.ssrc /\ played' = q[i]
  BY <1>1, <1>2 DEF Session
<1>4. Len(q) \in Nat /\ i \in 1 .. Len(q)
  BY <1>2
<1>5. \A k \in 1 .. Len(q) : q[k] \in Packets /\ q[k] \in Known
  BY <1>2 DEF Known, InQueue
<1>6. /\ Len(r) = Len(q) - i
      /\ \A k \in 1 .. Len(q) - i : r[k] = q[i + k] /\ i + k \in 1 .. Len(q)
  BY <1>2, <1>4
<1> HIDE DEF r, q
<1>7. Sorted(r)
  <2> SUFFICES ASSUME NEW j \in 1 .. Len(r), NEW k \in 1 .. Len(r), j < k
               PROVE  r[j].n < r[k].n
    BY DEF Sorted
  <2>1. /\ r[j] = q[i + j] /\ r[k] = q[i + k] /\ i + j < i + k
        /\ i + j \in 1 .. Len(q) /\ i + k \in 1 .. Len(q)
    BY <1>4, <1>6
  <2> QED
    BY <1>2, <2>1, Zenon DEF Sorted
<1>8. q[i].n # 0 /\ session.ssrc # 0
  <2>1. Sent(q[i]) /\ q[i] \in Packets
    BY <1>4, <1>5 DEF RInv, KnownInv
  <2> QED
    BY <1>2, <1>4, <2>1, PacketTypes DEF Sent
<1>9. ASSUME NEW k \in 1 .. Len(r), r[k].line = q[i].line PROVE q[i].time <= r[k].time
  <2>1. r[k] = q[i + k] /\ i + k \in 1 .. Len(q) /\ i < i + k
    BY <1>4, <1>6
  <2>2. q[i].n < q[i + k].n
    BY <1>2, <1>4, <2>1 DEF Sorted
  <2>3. Kin(q[i], q[i + k])
    BY <1>4, <1>5, <2>1 DEF RInv, KnownInv
  <2>4. q[i].n <= q[i + k].n
    BY <1>4, <1>5, <2>1, <2>2, PacketTypes
  <2> QED
    BY <1>9, <2>1, <2>3, <2>4 DEF Kin
<1>10. PlayInv'
  BY <1>3, <1>7, <1>8, <1>9 DEF PlayInv
<1>11. played.n # 0 /\ played'.line = played.line => played.time <= played'.time
  BY <1>3, <1>4 DEF q, RInv, PlayInv
<1> QED
  BY <1>10, <1>11

-----------------------------------------------------------------------------
(* How long a restarted sender is refused.                                 *)

\* How far a packet is behind the last one given.
Behind(s, p) == (s.last - p.ts) % TsMod

LEMMA OldIs ==
  ASSUME NEW s \in Session, NEW p \in Packets, IsOld(s, p)
  PROVE  /\ Behind(s, p) \in 1 .. (TsMod \div 2) - 1
         /\ JumpsBack(s, p) <=> Behind(s, p) > TsJump
<1> DEFINE a == s.last  b == p.ts  h == TsMod \div 2  x == a - b
<1>1. a \in Int /\ b \in Int /\ x \in Int /\ TsJump \in Nat \ {0}
  BY PacketTypes, ConstantTypes DEF Session
<1>2. TsMod \in Nat \ {0} /\ TsMod % 2 = 0 /\ h \in Int /\ TsMod = 2 * h /\ TsJump < h
  BY ModuliAssumption
<1>3. x % TsMod < h /\ a % TsMod # b % TsMod
  BY DEF IsOld, StrictlyNewerThan, NewerThan
<1>4. x % TsMod # 0
  <2> HIDE DEF a, b
  <2> QED
    BY <1>1, <1>2, <1>3, ModEqual
<1>5. x % TsMod \in 0 .. TsMod - 1
  <2> HIDE DEF x
  <2> QED
    BY <1>1, <1>2, ModRange
<1> DEFINE d == x % TsMod
<1>6. d \in 1 .. h - 1
  <2> HIDE DEF x
  <2> DEFINE D == d
  <2>1. D \in 0 .. TsMod - 1 /\ D < h /\ D # 0
    BY <1>3, <1>4, <1>5
  <2> HIDE DEF D, h
  <2>2. D \in 1 .. h - 1
    BY <1>2, <2>1
  <2> QED
    BY <2>2 DEF D
<1> DEFINE c == b + TsJump  y == a - c  e == d - TsJump
<1>7. y % TsMod = e % TsMod
  <2> DEFINE z == 0 - TsJump
  <2>1. z \in Int /\ y = x + z /\ e = d + z
    <3> HIDE DEF d
    <3> QED
      BY <1>1, <1>6
  <2>2. ((x % TsMod) + z) % TsMod = (x + z) % TsMod
    <3> HIDE DEF x, z
    <3> QED
      BY <1>1, <1>2, <2>1, ModInner
  <2> HIDE DEF x, y, z, e
  <2> QED
    BY <2>1, <2>2
<1>8. (e % TsMod < h <=> 0 <= e) /\ (e % TsMod = 0 <=> e = 0) /\ e \in Int
  <2>1. e \in Int /\ - h < e /\ e < h
    <3> HIDE DEF d, h
    <3> QED
      BY <1>1, <1>2, <1>6
  <2> HIDE DEF e
  <2> QED
    BY <1>2, <2>1, HalfOrder
<1>9. a % TsMod = c % TsMod <=> y % TsMod = 0
  <2>1. a \in Int /\ c \in Int
    BY <1>1
  <2> HIDE DEF a, c
  <2> QED
    BY <1>2, <2>1, ModEqual
<1>10. JumpsBack(s, p) <=> e > 0
  <2>1. JumpsBack(s, p) <=> y % TsMod < h /\ a % TsMod # c % TsMod
    BY DEF JumpsBack, StrictlyNewerThan, NewerThan
  <2> HIDE DEF a, c, y, h, e
  <2>2. JumpsBack(s, p) <=> 0 <= e /\ e # 0
    BY <1>7, <1>8, <1>9, <2>1
  <2> QED
    BY <1>8, <2>2
<1>11. e > 0 <=> d > TsJump
  <2> HIDE DEF d
  <2> QED
    BY <1>1, <1>6
<1>12. Behind(s, p) = d
  BY DEF Behind
<1> HIDE DEF d, e, h
<1> QED
  BY <1>6, <1>10, <1>11, <1>12 DEF h

\* A stream that is refused comes nearer as its time goes on.
LEMMA ComesNearer ==
  ASSUME HalfTurn, NEW s \in Session, NEW p \in Packets, NEW q \in Packets, Kin(q, p),
         p.line = q.line, q.n <= p.n, IsOld(s, p), Behind(s, q) \in 1 .. TsJump
  PROVE  Behind(s, p) = Behind(s, q) - (p.time - q.time) /\ q.time <= p.time
<1> DEFINE x == s.last - q.ts  z == q.ts - p.ts  w == q.time - p.time  h == TsMod \div 2
           D == x % TsMod
<1>1. x \in Int /\ z \in Int /\ w \in Int /\ s.last - p.ts = x + z
  <2>1. s.last \in Int
    BY ConstantTypes DEF Session
  <2>2. q.ts \in Int /\ p.ts \in Int /\ q.time \in Int /\ p.time \in Int
    BY PacketTypes
  <2> QED
    BY <2>1, <2>2
<1>2. TsMod \in Nat \ {0} /\ TsMod % 2 = 0 /\ h \in Int /\ TsMod = 2 * h /\ TsJump < h
      /\ MaxSent < h /\ MaxSent \in Nat /\ TsJump \in Nat
  BY ModuliAssumption, ConstantTypes DEF HalfTurn
<1>3. D \in 1 .. TsJump /\ Behind(s, q) = D
  BY DEF Behind
<1>4. q.time <= p.time /\ z % TsMod = w % TsMod
  BY DEF Kin
<1>5. - MaxSent <= w /\ w <= 0
  BY <1>4, PacketTypes, ConstantTypes
<1>6. (D + z) % TsMod = (x + z) % TsMod
  <2> HIDE DEF x, z
  <2> QED
    BY <1>1, <1>2, ModInner
<1>7. (z + D) % TsMod = (w + D) % TsMod
  <2>1. D \in Int
    <3> HIDE DEF D
    <3> QED
      BY <1>2, <1>3
  <2>2. Cong(TsMod, z, w) /\ z \in Int /\ w \in Int /\ TsMod \in Nat \ {0}
    BY <1>1, <1>2, <1>4 DEF Cong
  <2> HIDE DEF z, w, D
  <2>3. Cong(TsMod, z + D, w + D)
    BY <2>1, <2>2, CongAdd
  <2> QED
    BY <2>3, Zenon DEF Cong
<1> DEFINE e == w + D
<1>8. Behind(s, p) = e % TsMod
  <2>1. D + z = z + D
    <3> HIDE DEF D, z
    <3> QED
      BY <1>1, <1>2, <1>3
  <2>2. Behind(s, p) = (x + z) % TsMod
    BY <1>1 DEF Behind
  <2> HIDE DEF x, z, D, w
  <2> QED
    BY <1>6, <1>7, <2>1, <2>2
<1>9. e \in Int /\ - h < e /\ e < h /\ - TsMod <= e /\ e < TsMod
  <2> HIDE DEF D, h, w
  <2> QED
    BY <1>1, <1>2, <1>3, <1>5
<1>10. (e % TsMod < h <=> 0 <= e) /\ (e % TsMod = 0 <=> e = 0)
  <2> HIDE DEF e, h
  <2>1. - (TsMod \div 2) < e /\ e < TsMod \div 2
    BY <1>9 DEF h
  <2> QED
    BY <1>2, <1>9, <2>1, HalfOrder DEF h
<1>11. e % TsMod = e
  <2>1. Behind(s, p) \in 1 .. h - 1
    BY OldIs
  <2> HIDE DEF e, h
  <2>2. 0 <= e
    BY <1>2, <1>8, <1>10, <2>1
  <2> QED
    BY <1>2, <1>9, <2>2, ModSmall
<1> HIDE DEF D
<1>12. e = D - (p.time - q.time)
  BY <1>2, <1>3, PacketTypes, ConstantTypes
<1> QED
  BY <1>3, <1>4, <1>8, <1>11, <1>12

LEMMA ReadDeaf ==
  ASSUME HalfTurn, RInv, NEW p \in net, rtp_session_rtp_parse(p)
  PROVE  DeafInv'
<1>1. BeginsAnew(p) \/ Refuses(p) \/ Queues(p)
  BY ReadIs DEF RInv, PlayInv
<1>2. /\ p \in Packets /\ newest \in Packets /\ session \in Session /\ SessionOK(session)
      /\ deaf \in Nat /\ TsJump \in Nat \ {0}
  BY SessionIsOK, ConstantTypes DEF RInv, TInv, TypeOK
<1> DEFINE s == LockOn(session, p)
<1>3. IF p.n > newest.n
        THEN /\ newest' = p
             /\ deaf' = CASE ~IsOld(s, p) -> 0
                          [] IsOld(s, p) /\ p.line # newest.line -> 1
                          [] OTHER -> IF deaf = 0 \/ p.time > newest.time
                                      THEN deaf + 1 ELSE deaf
        ELSE newest' = newest /\ deaf' = deaf
  BY DEF rtp_session_rtp_parse
<1>4. CASE ~ (p.n > newest.n)
  <2>1. newest' = newest /\ deaf' = deaf
    BY <1>3, <1>4
  <2>2. ASSUME session'.delivered PROVE session.delivered /\ session'.last = session.last
    BY <1>1, <2>2 DEF BeginsAnew, Refuses, Queues, Queued
  <2> QED
    BY <2>1, <2>2 DEF RInv, DeafInv
<1>5. CASE p.n > newest.n /\ ~ IsOld(s, p)
  <2>1. deaf' = 0
    BY <1>3, <1>5
  <2> QED
    BY <1>2, <2>1 DEF DeafInv
<1>6. CASE p.n > newest.n /\ IsOld(s, p)
  <2>1. session.ssrc = p.ssrc /\ s = session /\ session.delivered
    <3>1. s.delivered
      BY <1>6 DEF IsOld
    <3>2. session.ssrc # 0 \/ ~ session.delivered
      BY DEF RInv, PlayInv
    <3>3. p.ssrc # 0
      BY <1>2, PacketTypes
    <3>4. session.ssrc = p.ssrc
      BY <1>2, <3>1, <3>2, <3>3 DEF LockOn, rtp_session_resync, Session
    <3>5. s = session
      BY <1>2, <3>4, LockOnOK
    <3> QED
      BY <3>1, <3>4, <3>5
  <2>2. IsOld(session, p) /\ newest' = p
        /\ deaf' = IF p.line # newest.line THEN 1
                   ELSE IF deaf = 0 \/ p.time > newest.time THEN deaf + 1 ELSE deaf
    <3> HIDE DEF s
    <3>1. IsOld(session, p)
      BY <1>6, <2>1
    <3> QED
      BY <1>3, <1>6, <2>1, <3>1
  <2>3. /\ Behind(session, p) \in 1 .. (TsMod \div 2) - 1
        /\ JumpsBack(session, p) <=> Behind(session, p) > TsJump
    BY <1>2, <2>2, OldIs
  <2>4. Behind(session, p) \in Nat
    BY <2>3, ModuliAssumption
  <2>5. session'.delivered => Behind(session, p) <= TsJump /\ session'.last = session.last
    <3>1. ASSUME session'.delivered
          PROVE  ~ JumpsBack(session, p) /\ session'.last = session.last
      BY <1>1, <2>2, <3>1 DEF BeginsAnew, Refuses, Queues
    <3> QED
      BY <1>2, <2>3, <2>4, <3>1
  <2>6. deaf' <= TsJump /\ deaf' > 0
        /\ (Behind(session, p) <= TsJump => deaf' + Behind(session, p) <= TsJump + 1)
    <3>1. CASE p.line # newest.line \/ deaf = 0
      <4>1. deaf' = 1
        BY <2>2, <3>1
      <4> QED
        BY <1>2, <2>4, <4>1
    <3>2. CASE p.line = newest.line /\ deaf # 0
      <4>1. deaf > 0 /\ newest.n # 0
        BY <1>2, <3>2 DEF RInv, DeafInv
      <4>2. Behind(session, newest) \in 1 .. TsJump
            /\ deaf + Behind(session, newest) <= TsJump + 1
        BY <2>1, <4>1 DEF RInv, DeafInv, Behind
      <4>3. Kin(newest, p)
        <5>1. newest \in Known /\ p \in Known
          BY <4>1 DEF Known
        <5> QED
          BY <5>1 DEF RInv, KnownInv
      <4>4. newest.n <= p.n
        BY <1>2, <1>6, PacketTypes
      <4>5. /\ Behind(session, p) = Behind(session, newest) - (p.time - newest.time)
            /\ newest.time <= p.time
        BY <1>2, <2>2, <3>2, <4>2, <4>3, <4>4, ComesNearer
      <4>6. deaf' = IF p.time > newest.time THEN deaf + 1 ELSE deaf
        BY <2>2, <3>2
      <4> DEFINE B == Behind(session, p)  C == Behind(session, newest)
      <4>7. /\ B \in Nat /\ 1 <= B /\ C \in 1 .. TsJump /\ deaf + C <= TsJump + 1
            /\ B = C - (p.time - newest.time)
        BY <2>3, <2>4, <4>2, <4>5
      <4> HIDE DEF B, C
      <4>8. deaf' + B <= TsJump + 1 /\ deaf' > 0 /\ deaf' <= TsJump
        BY <1>2, <4>1, <4>5, <4>6, <4>7, PacketTypes
      <4> QED
        BY <4>8 DEF B
    <3> QED
      BY <3>1, <3>2
  <2>7. ASSUME session'.delivered
        PROVE  (session'.last - newest'.ts) % TsMod = Behind(session, p)
    BY <2>2, <2>5, <2>7 DEF Behind
  <2>8. newest'.n # 0
    BY <1>2, <1>6, <2>2, PacketTypes
  <2>9. ASSUME session'.delivered
        PROVE  Behind(session, p) \in 1 .. TsJump
    BY <1>2, <2>3, <2>4, <2>5, <2>9
  <2> QED
    BY <2>5, <2>6, <2>7, <2>8, <2>9 DEF DeafInv
<1> QED
  BY <1>4, <1>5, <1>6

-----------------------------------------------------------------------------
(* The invariant and the theorems.                                         *)

LEMMA InitIsRight == Init => RInv
<1> SUFFICES ASSUME Init PROVE RInv
  OBVIOUS
<1>1. TInv
  BY InitIsTyped
<1>2. /\ net = {} /\ newest.n = 0 /\ played.n = 0 /\ deaf = 0
      /\ session.rq = <<>> /\ session.delivered = FALSE
  BY DEF Init, NoPacket
<1>3. Len(session.rq) = 0
  BY <1>2
<1>4. Known = {}
  BY <1>2, <1>3 DEF Known, InQueue
<1>5. KnownInv
  BY <1>4 DEF KnownInv
<1>6. PlayInv
  <2>1. Sorted(session.rq)
    BY <1>3, SortedShort
  <2> QED
    BY <1>2, <2>1 DEF PlayInv
<1>7. DeafInv
  BY <1>2, ConstantTypes DEF DeafInv
<1> QED
  BY <1>1, <1>5, <1>6, <1>7 DEF RInv

LEMMA StepIsRight ==
  ASSUME HalfTurn, RInv, [Next]_vars
  PROVE  /\ RInv'
         /\ played.n # 0 /\ played'.n # 0 /\ played'.line = played.line
              => played'.time >= played.time
<1> DEFINE Forward == played.n # 0 /\ played'.n # 0 /\ played'.line = played.line
                        => played'.time >= played.time
<1>1. TInv' /\ TInv
  BY StepIsTyped DEF RInv
<1>2. played \in Packets /\ played' \in Packets
  BY <1>1 DEF TInv, TypeOK
<1>3. played' \in {played, NoPacket} => Forward
  <2>1. played.time >= played.time /\ NoPacket.n = 0
    BY <1>2, PacketTypes DEF NoPacket
  <2> QED
    BY <2>1
<1>4. ASSUME NEW p, Follows(p), Emit(p) PROVE RInv' /\ Forward
  <2>1. UNCHANGED <<session, played, newest, deaf>>
    BY <1>4 DEF Emit
  <2>2. KnownInv'
    BY <1>1, <1>4, EmitKnown DEF RInv
  <2>3. PlayInv' /\ DeafInv'
    BY <2>1 DEF RInv, PlayInv, DeafInv
  <2> QED
    BY <1>1, <1>3, <2>1, <2>2, <2>3 DEF RInv
<1>5. ASSUME NEW p \in net, Lose(p) PROVE RInv' /\ Forward
  <2>1. net' \subseteq net /\ UNCHANGED <<sender, session, played, newest, deaf>>
    BY <1>5 DEF Lose
  <2>2. Known' \subseteq Known
    BY <2>1 DEF Known, InQueue
  <2>3. KnownInv'
    BY <2>1, <2>2, FewerKnown DEF RInv
  <2>4. PlayInv' /\ DeafInv'
    BY <2>1 DEF RInv, PlayInv, DeafInv
  <2> QED
    BY <1>1, <1>3, <2>1, <2>3, <2>4 DEF RInv
<1>6. ASSUME NEW ts, rtp_session_recvm_with_ts(ts) PROVE RInv' /\ Forward
  <2>1. deaf' = 0
    BY <1>6 DEF rtp_session_recvm_with_ts
  <2>2. DeafInv'
    BY <2>1, ConstantTypes DEF DeafInv
  <2>3. Forward
    BY <1>2, <1>6, GivenPlays, PacketTypes
  <2> QED
    BY <1>1, <1>6, <2>2, <2>3, GivenKnown, GivenPlays DEF RInv
<1>7. ASSUME NEW p \in net, rtp_session_rtp_parse(p) PROVE RInv' /\ Forward
  <2>1. played' \in {played, NoPacket}
    BY <1>7 DEF rtp_session_rtp_parse
  <2>2. KnownInv' /\ PlayInv' /\ DeafInv'
    BY <1>7, ReadKnown, ReadPlays, ReadDeaf
  <2> QED
    BY <1>1, <1>3, <2>1, <2>2 DEF RInv
<1>8. ASSUME UNCHANGED vars PROVE RInv' /\ Forward
  <2>1. UNCHANGED <<sender, net, session, played, newest, deaf>>
    BY <1>8 DEF vars
  <2>2. Known' \subseteq Known
    BY <2>1 DEF Known, InQueue
  <2>3. KnownInv' /\ PlayInv' /\ DeafInv'
    BY <2>1, <2>2, FewerKnown DEF RInv, PlayInv, DeafInv
  <2> QED
    BY <1>1, <1>3, <2>1, <2>3 DEF RInv
<1> HIDE DEF Forward
<1>9. RInv' /\ Forward
  BY <1>1, <1>4, <1>5, <1>6, <1>7, <1>8, NextFollows, Zenon DEF Next, Outside, Playing
<1> QED
  BY <1>9 DEF Forward

\* The reception keeps its invariant: the queue is in the order of sending, what
\* was given last is what the session compares with (rcv_last_ts), and a sender
\* that is refused comes nearer with each refusal.
THEOREM ReceptionInvariance ==
  ASSUME HalfTurn
  PROVE  Spec => []RInv
<1>1. RInv /\ [Next]_vars => RInv'
  BY StepIsRight
<1> QED
  BY <1>1, InitIsRight, PTL DEF Spec

\* The decoder is never taken back in time between two resyncs, for a stream of
\* fewer packets than half of the sequence numbers and of the timestamps, which
\* may wrap in it (rtp_putq, rtp_getq, rtp_session_rtp_parse).
THEOREM DecoderGoesForward ==
  ASSUME HalfTurn
  PROVE  Spec => PlaysForward
<1>1. RInv /\ [Next]_vars
        => [played.n # 0 /\ played'.n # 0 /\ played'.line = played.line
              => played'.time >= played.time]_vars
  BY StepIsRight
<1>2. Spec => []RInv
  BY ReceptionInvariance
<1> QED
  BY <1>1, <1>2, PTL DEF Spec, PlaysForward

\* A sender that restarts its timestamps, by any jump and however its packets are
\* lost or reordered, is not silenced for longer than the limit of a jump: the
\* test of ts_jump in rtp_session_rtp_parse misses no jump.
THEOREM RestartIsHeard ==
  ASSUME HalfTurn
  PROVE  Spec => []NeverDeaf
<1>1. RInv => NeverDeaf
  BY DEF RInv, DeafInv, NeverDeaf
<1>2. Spec => []RInv
  BY ReceptionInvariance
<1> QED
  BY <1>1, <1>2, PTL
=============================================================================
