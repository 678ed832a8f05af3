------------------------- MODULE RateControlProofs -------------------------
(***************************************************************************)
(* Proofs about RateControl, for every set of modes, of losses and of      *)
(* delays and every interval: the types, that quality is raised only after *)
(* a calm time, and that trouble never makes the encoder send more.        *)
(***************************************************************************)
EXTENDS RateControl, TLAPS

-----------------------------------------------------------------------------
(* The invariant. *)

Ptime == {p \in AllPtimes : p <= MaxPtime}
Driver == [nom : Int, cur : Nat, ptime : Ptime]
Encoder == [mode : Modes, ptime : Ptime, rate : Nat]
Seen == Reports \cup {NoReport}

\* Where the controller is in its counting.
CountInv ==
  /\ state \in {"Init", "Probing", "Stable", "ProbingUp"}
  /\ stable_count \in 0 .. Interval /\ probing_up_count \in 0 .. 2 /\ calm \in 0 .. Interval
  /\ state = "Init" => stable_count = 0
  /\ state = "Stable" => stable_count <= calm /\ stable_count < Interval
  /\ state = "ProbingUp" => calm = Interval /\ probing_up_count \in 0 .. 1

RateInv ==
  /\ medium \in Media
  /\ cur \in Seen /\ prev \in Seen /\ rt_prop_doubled \in BOOLEAN
  /\ driver \in Driver /\ encoder \in Encoder
  /\ medium = "video" => driver.nom \in Nat
  /\ medium = "fixed" => driver.nom <= 0

Inv == CountInv /\ RateInv

-----------------------------------------------------------------------------
(* Counting. *)

\* A step of the controller keeps the counters, whatever the two reports are.
LEMMA CountStep ==
  ASSUME CountInv, NEW c, NEW p, state_machine(c, p)
  PROVE  CountInv'
<1> DEFINE T == Trouble(c, p)
<1> USE ConstantsAssumption
<1>1. calm' = IF T THEN 0 ELSE IF calm < Interval THEN calm + 1 ELSE calm
  BY DEF state_machine
<1>2. calm' \in 0 .. Interval
  BY <1>1 DEF CountInv
<1>3. CASE InitOrStable(c, p)
  <2>1. state \in {"Init", "Stable"}
        /\ stable_count' = IF state = "Stable" THEN stable_count + 1 ELSE stable_count
    BY <1>3 DEF InitOrStable
  <2>2. stable_count' \in 0 .. Interval
    BY <2>1 DEF CountInv
  <2>3. \/ state' = "Probing" /\ probing_up_count' = probing_up_count
        \/ ~ T /\ stable_count' >= Interval /\ state' = "ProbingUp" /\ probing_up_count' = 0
        \/ ~ T /\ stable_count' < Interval /\ state' = state
              /\ probing_up_count' = probing_up_count
    BY <1>3 DEF InitOrStable, AllIsFine
  <2> HIDE DEF T
  <2> QED
    BY <1>1, <1>2, <2>1, <2>2, <2>3 DEF CountInv
<1>4. CASE Probing(c, p)
  <2>1. stable_count' = 0 /\ probing_up_count' = probing_up_count /\ state' \in {"Stable", "Probing"}
    BY <1>4 DEF Probing, ResetCount, NotImproved
  <2> QED
    BY <1>2, <2>1 DEF CountInv
<1>5. CASE ProbingUp(c, p)
  <2>1. state = "ProbingUp" /\ stable_count' = 0
    BY <1>5 DEF ProbingUp, ResetCount
  <2>2. \/ state' = "Probing" /\ probing_up_count' = probing_up_count + 1
        \/ ~ T /\ state' \in {"Init", "ProbingUp"} /\ probing_up_count' = 0
        \/ ~ T /\ state' = state /\ probing_up_count' = probing_up_count + 1
              /\ probing_up_count + 1 # 2
    BY <1>5 DEF ProbingUp, AllIsFine
  <2> HIDE DEF T
  <2> QED
    BY <1>1, <1>2, <2>1, <2>2 DEF CountInv
<1> QED
  BY <1>3, <1>4, <1>5 DEF state_machine
-----------------------------------------------------------------------------
(* What the encoders send. *)

Octets(ptime) == 8 * (1000 \div ptime)

LEMMA OctetsOfPtimes ==
  Octets(20) = 400 /\ Octets(40) = 200 /\ Octets(60) = 128 /\ Octets(80) = 96 /\ Octets(100) = 80
BY DEF Octets

\* The rate with its headers, with constant divisors.
LEMMA HeadersOfPtimes ==
  ASSUME NEW mode \in Nat
  PROVE  /\ WithHeaders(mode, 20) = ((mode \div 400) + 40) * 400
         /\ WithHeaders(mode, 40) = ((mode \div 200) + 40) * 200
         /\ WithHeaders(mode, 60) = ((mode \div 128) + 40) * 128
         /\ WithHeaders(mode, 80) = ((mode \div 96) + 40) * 96
         /\ WithHeaders(mode, 100) = ((mode \div 80) + 40) * 80
BY OctetsOfPtimes DEF WithHeaders, Octets

LEMMA HeadersType ==
  ASSUME NEW mode \in Nat, NEW ptime \in AllPtimes
  PROVE  WithHeaders(mode, ptime) \in Nat
<1>1. WithHeaders(mode, 20) \in Nat /\ WithHeaders(mode, 40) \in Nat
  BY HeadersOfPtimes, SMTT(20)
<1>2. WithHeaders(mode, 60) \in Nat /\ WithHeaders(mode, 80) \in Nat
  BY HeadersOfPtimes
<1>3. WithHeaders(mode, 100) \in Nat
  BY HeadersOfPtimes
<1> QED
  BY <1>1, <1>2, <1>3 DEF AllPtimes

\* A lower mode sends less, and so does a longer ptime.
LEMMA LowerModeSendsLess ==
  ASSUME NEW low \in Nat, NEW high \in Nat, low <= high, NEW ptime \in AllPtimes
  PROVE  WithHeaders(low, ptime) <= WithHeaders(high, ptime)
<1>1. WithHeaders(low, 20) <= WithHeaders(high, 20)
  BY HeadersOfPtimes
<1>2. WithHeaders(low, 40) <= WithHeaders(high, 40)
  BY HeadersOfPtimes
<1>3. WithHeaders(low, 60) <= WithHeaders(high, 60)
  BY HeadersOfPtimes
<1>4. WithHeaders(low, 80) <= WithHeaders(high, 80)
  BY HeadersOfPtimes
<1>5. WithHeaders(low, 100) <= WithHeaders(high, 100)
  BY HeadersOfPtimes
<1> QED
  BY <1>1, <1>2, <1>3, <1>4, <1>5 DEF AllPtimes

LEMMA LongerPtimeSendsLess ==
  ASSUME NEW mode \in Nat, NEW ptime \in {20, 40, 60, 80}
  PROVE  WithHeaders(mode, ptime + 20) <= WithHeaders(mode, ptime)
<1>1. WithHeaders(mode, 40) <= WithHeaders(mode, 20)
  BY HeadersOfPtimes
<1>2. WithHeaders(mode, 60) <= WithHeaders(mode, 40)
  BY HeadersOfPtimes
<1>3. WithHeaders(mode, 80) <= WithHeaders(mode, 60)
  BY HeadersOfPtimes
<1>4. WithHeaders(mode, 100) <= WithHeaders(mode, 80)
  BY HeadersOfPtimes
<1> QED
  BY <1>1, <1>2, <1>3, <1>4

\* A mode that fits a rate sends no more than the rate.
LEMMA FittingModeFits ==
  ASSUME NEW mode \in Nat, NEW ptime \in AllPtimes, NEW rate \in Int,
         mode <= rate - 40 * 8 * (1000 \div ptime)
  PROVE  WithHeaders(mode, ptime) <= rate
<1>1. mode <= rate - 40 * Octets(ptime)
  BY DEF Octets, AllPtimes
<1>2. ptime = 20 \/ ptime = 40 \/ ptime = 60 \/ ptime = 80 \/ ptime = 100
  BY DEF AllPtimes
<1>3. CASE ptime = 20
  BY <1>1, <1>3, HeadersOfPtimes, OctetsOfPtimes
<1>4. CASE ptime = 40
  BY <1>1, <1>4, HeadersOfPtimes, OctetsOfPtimes
<1>5. CASE ptime = 60
  BY <1>1, <1>5, HeadersOfPtimes, OctetsOfPtimes
<1>6. CASE ptime = 80
  BY <1>1, <1>6, HeadersOfPtimes, OctetsOfPtimes
<1>7. CASE ptime = 100
  BY <1>1, <1>7, HeadersOfPtimes, OctetsOfPtimes
<1> QED
  BY <1>2, <1>3, <1>4, <1>5, <1>6, <1>7

LEMMA ExtremesOfModes ==
  ASSUME NEW S \in SUBSET Modes, S # {}
  PROVE  /\ Max(S) \in S /\ \A m \in S : m <= Max(S)
         /\ Min(S) \in S /\ \A m \in S : Min(S) <= m
<1>1. PICK low \in S, high \in S : \A m \in S : low <= m /\ m <= high
  BY ConstantsAssumption
<1>2. \A m \in S : m \in Nat
  BY ConstantsAssumption
<1>3. \E x \in S : \A y \in S : x >= y
  BY <1>1, <1>2
<1>4. Max(S) \in S /\ \A y \in S : Max(S) >= y
  BY <1>3 DEF Max
<1>5. \E x \in S : \A y \in S : x <= y
  BY <1>1, <1>2
<1>6. Min(S) \in S /\ \A y \in S : Min(S) <= y
  BY <1>5 DEF Min
<1> QED
  BY <1>2, <1>4, <1>6

\* The speex encoder, told a rate that is no greater than what it sends, sends
\* no more than that, and never more than with its lowest mode otherwise.
LEMMA SpeexObeys ==
  ASSUME NEW e \in Encoder, NEW rate \in Int
  PROVE  LET f == apply_max_bitrate(e, rate) IN
         /\ f \in Encoder /\ f.ptime = e.ptime
         /\ \/ f.mode = e.mode
            \/ WithHeaders(f.mode, f.ptime) <= rate
            \/ f.mode <= e.mode
<1> DEFINE codec == rate - 40 * 8 * (1000 \div e.ptime)
           fit == {m \in Modes : m <= codec}
           mode == IF rate <= 0 THEN e.mode ELSE IF fit # {} THEN Max(fit) ELSE Min(Modes)
           f == [e EXCEPT !.mode = mode, !.rate = WithHeaders(mode, e.ptime)]
<1>1. f = apply_max_bitrate(e, rate)
  BY DEF apply_max_bitrate
<1>2. e.mode \in Modes /\ e.ptime \in Ptime /\ e.ptime \in AllPtimes /\ e.mode \in Nat
  BY ConstantsAssumption DEF Encoder, Ptime
<1>3. /\ mode \in Modes
      /\ mode = e.mode \/ (mode \in Modes /\ mode <= codec) \/ mode <= e.mode
  <2>1. CASE rate <= 0
    BY <2>1, <1>2
  <2>2. CASE ~ (rate <= 0) /\ fit # {}
    <3> HIDE DEF codec
    <3>1. Max(fit) \in fit
      BY <2>2, ExtremesOfModes
    <3> QED
      BY <3>1, <2>2
  <2>3. CASE ~ (rate <= 0) /\ fit = {}
    <3>1. Min(Modes) \in Modes /\ Min(Modes) <= e.mode
      BY <1>2, ExtremesOfModes
    <3> QED
      BY <3>1, <2>3
  <2> QED
    BY <2>1, <2>2, <2>3
<1> HIDE DEF mode
<1>4. mode \in Nat
  BY <1>3, ConstantsAssumption
<1>5. WithHeaders(mode, e.ptime) \in Nat
  BY <1>2, <1>4, HeadersType
<1>6. f \in Encoder /\ f.ptime = e.ptime /\ f.mode = mode
  BY <1>2, <1>3, <1>5 DEF Encoder
<1>7. mode <= codec => WithHeaders(mode, e.ptime) <= rate
  BY <1>2, <1>4, FittingModeFits
<1> HIDE DEF f, codec
<1> QED
  BY <1>1, <1>3, <1>6, <1>7

-----------------------------------------------------------------------------
(* The drivers. *)

Actions == [type : {"DecreaseBitrate", "DecreasePacketRate", "IncreaseQuality"}, value : 0 .. 100]

LEMMA Portions ==
  ASSUME NEW rate \in Nat, NEW value \in 0 .. 100
  PROVE  /\ rate - ((rate * value) \div 100) \in Int
         /\ rate - ((rate * value) \div 100) <= rate
         /\ (rate * (100 - value)) \div 100 \in Int
         /\ (rate * (100 - value)) \div 100 <= rate
         /\ (rate * (100 + value)) \div 100 \in Nat
<1>1. rate * value \in Nat
  OBVIOUS
<1>2. (rate * value) \div 100 \in Nat
  BY <1>1
<1>3. rate * (100 - value) = 100 * rate - rate * value
  OBVIOUS
<1>4. rate * (100 + value) = 100 * rate + rate * value
  OBVIOUS
<1>5. /\ (100 * rate - rate * value) \div 100 \in Int
      /\ (100 * rate - rate * value) \div 100 <= rate
  BY <1>1
<1>6. (100 * rate + rate * value) \div 100 \in Nat
  BY <1>1
<1> QED
  BY <1>2, <1>3, <1>4, <1>5, <1>6

LEMMA NominalIsRead ==
  ASSUME RateInv
  PROVE  /\ ReadNominal \in Driver
         /\ ReadNominal.ptime = driver.ptime /\ ReadNominal.cur = driver.cur
         /\ medium = "video" => ReadNominal.nom \in Nat
         /\ medium = "fixed" => ReadNominal.nom <= 0
BY DEF RateInv, ReadNominal, Driver, Encoder

LEMMA PtimeIsLengthened ==
  ASSUME NEW d \in Driver
  PROVE  /\ inc_ptime(d) \in Driver /\ inc_ptime(d).nom = d.nom /\ inc_ptime(d).cur = d.cur
         /\ \/ inc_ptime(d).ptime = d.ptime
            \/ d.ptime \in {20, 40, 60, 80} /\ inc_ptime(d).ptime = d.ptime + 20
<1>1. d.ptime \in AllPtimes /\ d.ptime <= MaxPtime /\ MaxPtime \in AllPtimes
  BY ConstantsAssumption DEF Driver, Ptime
<1>2. CASE d.ptime >= MaxPtime
  BY <1>2 DEF inc_ptime
<1>3. CASE ~ (d.ptime >= MaxPtime)
  <2>1. inc_ptime(d) = [d EXCEPT !.ptime = d.ptime + 20]
    BY <1>3 DEF inc_ptime, min_ptime, Driver
  <2>2. d.ptime \in {20, 40, 60, 80} /\ d.ptime + 20 \in Ptime
    BY <1>1, <1>3 DEF AllPtimes, Ptime
  <2> QED
    BY <2>1, <2>2 DEF Driver
<1> QED
  BY <1>2, <1>3

LEMMA PtimeIsApplied ==
  ASSUME RateInv, NEW d \in Driver
  PROVE  /\ apply_ptime(d) \in Encoder /\ apply_ptime(d).ptime = d.ptime
         /\ apply_ptime(d).mode = encoder.mode
BY DEF RateInv, apply_ptime, Driver, Encoder

\* An audio driver told to decrease the bitrate: a ptime that is not shorter, and
\* then the encoder's own choice under a rate that is not greater.
LEMMA AudioDecrease ==
  ASSUME RateInv, medium # "video", NEW value \in 0 .. 100
  PROVE  LET r == AudioDecreaseBitrate(value)  d == inc_ptime(ReadNominal) IN
         /\ r.driver \in Driver /\ r.encoder \in Encoder /\ r.encoder.ptime = d.ptime
         /\ \/ r.encoder.mode <= encoder.mode
            \/ medium # "fixed" /\ WithHeaders(r.encoder.mode, r.encoder.ptime) <= encoder.rate
<1> DEFINE d == inc_ptime(ReadNominal)
           rate == encoder.rate - ((encoder.rate * value) \div 100)
           e == IF d.nom > 0 THEN enc_set_br(apply_ptime(d), rate) ELSE apply_ptime(d)
           g == IF d.nom > 0 THEN [d EXCEPT !.cur = e.rate] ELSE d
<1>1. AudioDecreaseBitrate(value) = [driver |-> g, encoder |-> e, ret |-> 0]
  BY DEF AudioDecreaseBitrate
<1>2. d \in Driver /\ (medium = "fixed" => d.nom <= 0)
  BY NominalIsRead, PtimeIsLengthened
<1>0. d.nom \in Int
  BY <1>2 DEF Driver
<1> HIDE DEF d
<1>3. apply_ptime(d) \in Encoder /\ apply_ptime(d).ptime = d.ptime
      /\ apply_ptime(d).mode = encoder.mode
  BY <1>2, PtimeIsApplied
<1>4. encoder.rate \in Nat /\ encoder.mode \in Nat
  BY ConstantsAssumption DEF RateInv, Encoder
<1>5. rate \in Int /\ rate <= encoder.rate
  BY <1>4, Portions
<1> HIDE DEF rate
<1>6. e \in Encoder /\ e.ptime = d.ptime
      /\ \/ e.mode <= encoder.mode
         \/ medium # "fixed" /\ WithHeaders(e.mode, e.ptime) <= encoder.rate
  <2>1. CASE d.nom > 0
    <3>1. e = apply_max_bitrate(apply_ptime(d), rate)
      BY <2>1 DEF enc_set_br
    <3>2. /\ e \in Encoder /\ e.ptime = d.ptime
          /\ \/ e.mode = encoder.mode
             \/ WithHeaders(e.mode, e.ptime) <= rate
             \/ e.mode <= encoder.mode
      <4> HIDE DEF e
      <4> QED
        BY <1>3, <1>5, <3>1, SpeexObeys
    <3>3. WithHeaders(e.mode, e.ptime) \in Nat /\ e.mode \in Nat
      <4>1. e.mode \in Nat /\ e.ptime \in AllPtimes
        BY <3>2, ConstantsAssumption DEF Encoder, Ptime
      <4> QED
        BY <4>1, HeadersType
    <3>4. medium # "fixed"
      BY <1>0, <1>2, <2>1
    <3> HIDE DEF e
    <3> QED
      BY <1>4, <1>5, <3>2, <3>3, <3>4
  <2>2. CASE ~ (d.nom > 0)
    BY <1>3, <1>4, <2>2
  <2> QED
    BY <2>1, <2>2
<1> HIDE DEF e
<1>7. g \in Driver
  BY <1>2, <1>6 DEF Driver, Encoder
<1> HIDE DEF g
<1> QED
  BY <1>1, <1>6, <1>7 DEF d

LEMMA AudioPacketRate ==
  ASSUME RateInv
  PROVE  LET r == AudioDecreasePacketRate IN
         /\ r.driver = inc_ptime(ReadNominal) /\ r.driver \in Driver
         /\ r.encoder \in Encoder /\ r.encoder.mode = encoder.mode
         /\ r.encoder.ptime = r.driver.ptime
<1>1. inc_ptime(ReadNominal) \in Driver
  BY NominalIsRead, PtimeIsLengthened
<1> QED
  BY <1>1, PtimeIsApplied DEF AudioDecreasePacketRate

\* What an audio driver sends after a decrease: with what it knows now, less.
LEMMA AudioNeverRaises ==
  ASSUME RateInv, RateIsKnown, medium # "video", NEW e \in Encoder,
         e.ptime = inc_ptime(ReadNominal).ptime,
         \/ e.mode <= encoder.mode
         \/ medium # "fixed" /\ WithHeaders(e.mode, e.ptime) <= encoder.rate
  PROVE  NetRate(e) <= NetRate(encoder)
<1>1. /\ NetRate(e) = WithHeaders(e.mode, e.ptime)
      /\ NetRate(encoder) = WithHeaders(encoder.mode, encoder.ptime)
  BY DEF NetRate
<1>2. encoder.ptime = driver.ptime /\ (medium = "speex" => encoder.rate = NetRate(encoder))
  BY ConstantsAssumption DEF RateInv, RateIsKnown
<1>3. /\ e.mode \in Nat /\ encoder.mode \in Nat
      /\ e.ptime \in AllPtimes /\ encoder.ptime \in AllPtimes
  BY ConstantsAssumption DEF RateInv, Encoder, Ptime
<1>4. \/ e.ptime = encoder.ptime
      \/ encoder.ptime \in {20, 40, 60, 80} /\ e.ptime = encoder.ptime + 20
  BY <1>2, NominalIsRead, PtimeIsLengthened
<1>5. CASE e.mode <= encoder.mode
  <2>1. WithHeaders(e.mode, e.ptime) <= WithHeaders(encoder.mode, e.ptime)
    BY <1>3, <1>5, LowerModeSendsLess
  <2>2. WithHeaders(encoder.mode, e.ptime) <= WithHeaders(encoder.mode, encoder.ptime)
    <3>1. CASE e.ptime = encoder.ptime
      BY <1>3, <3>1, HeadersType
    <3>2. CASE encoder.ptime \in {20, 40, 60, 80} /\ e.ptime = encoder.ptime + 20
      BY <1>3, <3>2, LongerPtimeSendsLess
    <3> QED
      BY <1>4, <3>1, <3>2
  <2>3. /\ WithHeaders(e.mode, e.ptime) \in Nat /\ WithHeaders(encoder.mode, e.ptime) \in Nat
        /\ WithHeaders(encoder.mode, encoder.ptime) \in Nat
    BY <1>3, HeadersType
  <2> QED
    BY <1>1, <2>1, <2>2, <2>3
<1>6. CASE medium # "fixed" /\ WithHeaders(e.mode, e.ptime) <= encoder.rate
  <2>1. medium = "speex"
    BY <1>6, ConstantsAssumption DEF RateInv
  <2> QED
    BY <1>1, <1>2, <1>6, <2>1
<1> QED
  BY <1>5, <1>6

\* Raising the quality keeps the types, whatever it raises.
LEMMA AudioIncrease ==
  ASSUME RateInv, medium # "video"
  PROVE  AudioIncreaseQuality.driver \in Driver /\ AudioIncreaseQuality.encoder \in Encoder
<1> DEFINE d == ReadNominal
           raised == (d.cur * 120) \div 100
           limited == IF raised > d.nom THEN d.nom ELSE raised
           shorter == [d EXCEPT !.ptime = @ - min_ptime]
<1>1. d \in Driver /\ encoder \in Encoder
  BY NominalIsRead DEF RateInv
<1>2. CASE d.nom > 0 /\ d.cur < d.nom
  <2>1. /\ AudioIncreaseQuality.driver = [d EXCEPT !.cur = d.nom]
        /\ AudioIncreaseQuality.encoder = enc_set_br(encoder, limited)
    BY <1>2 DEF AudioIncreaseQuality
  <2> HIDE DEF d
  <2>2. d.nom \in Nat /\ d.cur \in Nat
    BY <1>1, <1>2 DEF Driver
  <2>3. limited \in Int
    BY <2>2
  <2> HIDE DEF limited
  <2>4. enc_set_br(encoder, limited) = apply_max_bitrate(encoder, limited)
    BY DEF enc_set_br
  <2>5. [d EXCEPT !.cur = d.nom] \in Driver
    BY <1>1, <2>2 DEF Driver
  <2> QED
    BY <1>1, <2>1, <2>3, <2>4, <2>5, SpeexObeys
<1>3. CASE ~ (d.nom > 0 /\ d.cur < d.nom) /\ d.ptime > min_ptime
  <2>1. AudioIncreaseQuality.driver = shorter /\ AudioIncreaseQuality.encoder = apply_ptime(shorter)
    BY <1>3 DEF AudioIncreaseQuality
  <2> HIDE DEF d
  <2>2. d.ptime \in AllPtimes /\ d.ptime <= MaxPtime /\ MaxPtime \in AllPtimes
    BY <1>1, ConstantsAssumption DEF Driver, Ptime
  <2>3. d.ptime - 20 \in Ptime
    BY <1>3, <2>2 DEF AllPtimes, Ptime, min_ptime
  <2>4. shorter \in Driver
    BY <1>1, <2>3 DEF Driver, min_ptime
  <2> QED
    BY <2>1, <2>4, PtimeIsApplied
<1>4. CASE ~ (d.nom > 0 /\ d.cur < d.nom) /\ ~ (d.ptime > min_ptime)
  <2>1. AudioIncreaseQuality.driver = d /\ AudioIncreaseQuality.encoder = encoder
    BY <1>4 DEF AudioIncreaseQuality
  <2> QED
    BY <1>1, <2>1
<1> QED
  BY <1>2, <1>3, <1>4

\* The video driver never decreases to more than what was sent.
LEMMA VideoDecrease ==
  ASSUME RateInv, medium = "video", NEW value \in 0 .. 100
  PROVE  LET r == dec_video_bitrate(value) IN
         /\ r.driver \in Driver /\ r.driver.nom = ReadNominal.nom /\ r.encoder \in Encoder
         /\ encoder.rate >= MinVideo => r.encoder.rate <= encoder.rate
<1> DEFINE target == (encoder.rate * (100 - value)) \div 100
           rate == IF target < MinVideo THEN MinVideo ELSE target
<1>1. encoder \in Encoder /\ encoder.rate \in Nat
  BY DEF RateInv, Encoder
<1>2. target \in Int /\ target <= encoder.rate
  BY <1>1, Portions
<1> HIDE DEF target
<1>3. rate \in Nat /\ (encoder.rate >= MinVideo => rate <= encoder.rate)
  BY <1>1, <1>2, ConstantsAssumption
<1>4. /\ dec_video_bitrate(value).driver = [ReadNominal EXCEPT !.cur = rate]
      /\ dec_video_bitrate(value).encoder = [encoder EXCEPT !.rate = rate]
  BY DEF dec_video_bitrate, enc_set_br, target
<1> HIDE DEF rate
<1>5. ReadNominal \in Driver
  BY NominalIsRead
<1> QED
  BY <1>1, <1>3, <1>4, <1>5 DEF Driver, Encoder

LEMMA VideoIncrease ==
  ASSUME RateInv, medium = "video", NEW value \in 0 .. 100
  PROVE  LET r == inc_video_bitrate(value) IN
         r.driver \in Driver /\ r.driver.nom = ReadNominal.nom /\ r.encoder \in Encoder
<1> DEFINE d == ReadNominal
           raised == (d.cur * (100 + value)) \div 100
           rate == IF raised > d.nom THEN d.nom ELSE raised
<1>1. d \in Driver /\ d.nom \in Nat /\ d.cur \in Nat /\ encoder \in Encoder
  BY NominalIsRead DEF RateInv, Driver
<1>2. /\ inc_video_bitrate(value).driver = [d EXCEPT !.cur = rate]
      /\ inc_video_bitrate(value).encoder = [encoder EXCEPT !.rate = rate]
  BY DEF inc_video_bitrate, enc_set_br
<1> HIDE DEF d
<1>3. raised \in Nat
  BY <1>1, Portions
<1> HIDE DEF raised
<1>4. rate \in Nat
  BY <1>1, <1>3
<1> HIDE DEF rate
<1>5. [d EXCEPT !.cur = rate].nom = d.nom
  BY <1>1 DEF Driver
<1> QED
  BY <1>1, <1>2, <1>4, <1>5 DEF Driver, Encoder, d

\* What every action keeps.
LEMMA ActionIsTyped ==
  ASSUME RateInv, NEW a \in Actions
  PROVE  LET r == execute_action(a) IN
         /\ r.driver \in Driver /\ r.encoder \in Encoder
         /\ medium = "video" => r.driver.nom \in Nat
         /\ medium = "fixed" => r.driver.nom <= 0
<1>1. a.type \in {"DecreaseBitrate", "DecreasePacketRate", "IncreaseQuality"} /\ a.value \in 0 .. 100
  BY DEF Actions
<1>2. ReadNominal \in Driver /\ encoder \in Encoder
  BY NominalIsRead DEF RateInv
<1>3. CASE medium = "video"
  <2>1. CASE a.type = "DecreaseBitrate"
    <3>1. execute_action(a) = dec_video_bitrate(a.value)
      BY <1>3, <2>1 DEF execute_action
    <3> QED
      BY <1>1, <1>3, <3>1, VideoDecrease, NominalIsRead
  <2>2. CASE a.type = "DecreasePacketRate"
    <3>1. execute_action(a) = [driver |-> ReadNominal, encoder |-> encoder, ret |-> 0]
      BY <1>3, <2>2 DEF execute_action
    <3> QED
      BY <1>2, <1>3, <3>1, NominalIsRead
  <2>3. CASE a.type = "IncreaseQuality"
    <3>1. execute_action(a) = inc_video_bitrate(a.value)
      BY <1>3, <2>3 DEF execute_action
    <3> QED
      BY <1>1, <1>3, <3>1, VideoIncrease, NominalIsRead
  <2> QED
    BY <1>1, <2>1, <2>2, <2>3
<1>4. CASE medium # "video"
  <2>1. CASE a.type = "DecreaseBitrate"
    <3>1. execute_action(a) = AudioDecreaseBitrate(a.value)
      BY <1>4, <2>1 DEF execute_action
    <3>2. AudioDecreaseBitrate(a.value).driver.nom = inc_ptime(ReadNominal).nom
      <4>1. inc_ptime(ReadNominal) \in Driver
        BY NominalIsRead, PtimeIsLengthened
      <4> QED
        BY <4>1 DEF AudioDecreaseBitrate, Driver
    <3> QED
      BY <1>1, <1>4, <3>1, <3>2, AudioDecrease, NominalIsRead, PtimeIsLengthened
  <2>2. CASE a.type = "DecreasePacketRate"
    <3>1. execute_action(a) = AudioDecreasePacketRate
      BY <1>4, <2>2 DEF execute_action
    <3> QED
      BY <1>4, <3>1, AudioPacketRate, NominalIsRead, PtimeIsLengthened
  <2>3. CASE a.type = "IncreaseQuality"
    <3>1. execute_action(a) = AudioIncreaseQuality
      BY <1>4, <2>3 DEF execute_action
    <3>2. AudioIncreaseQuality.driver.nom = ReadNominal.nom
      BY <1>2 DEF AudioIncreaseQuality, Driver
    <3> QED
      BY <1>4, <3>1, <3>2, AudioIncrease, NominalIsRead
  <2> QED
    BY <1>1, <2>1, <2>2, <2>3
<1> QED
  BY <1>3, <1>4

\* No action but a raise of the quality sends more.
LEMMA DecreaseNeverRaises ==
  ASSUME RateInv, RateIsKnown, NEW a \in Actions, a.type # "IncreaseQuality"
  PROVE  NetRate(execute_action(a).encoder) <= NetRate(encoder)
<1>1. a.type \in {"DecreaseBitrate", "DecreasePacketRate"} /\ a.value \in 0 .. 100
  BY DEF Actions
<1>2. CASE medium = "video"
  <2>1. /\ NetRate(execute_action(a).encoder) = execute_action(a).encoder.rate
        /\ NetRate(encoder) = encoder.rate
    BY <1>2 DEF NetRate
  <2>2. encoder.rate \in Nat /\ encoder.rate >= MinVideo
    BY <1>2 DEF RateInv, Encoder, RateIsKnown
  <2>3. CASE a.type = "DecreaseBitrate"
    <3>1. execute_action(a) = dec_video_bitrate(a.value)
      BY <1>2, <2>3 DEF execute_action
    <3> QED
      BY <1>1, <1>2, <2>1, <2>2, <3>1, VideoDecrease
  <2>4. CASE a.type = "DecreasePacketRate"
    <3>1. execute_action(a) = [driver |-> ReadNominal, encoder |-> encoder, ret |-> 0]
      BY <1>2, <2>4 DEF execute_action
    <3> QED
      BY <2>1, <2>2, <3>1
  <2> QED
    BY <1>1, <2>3, <2>4
<1>3. CASE medium # "video"
  <2>1. CASE a.type = "DecreaseBitrate"
    <3>1. execute_action(a) = AudioDecreaseBitrate(a.value)
      BY <1>3, <2>1 DEF execute_action
    <3> QED
      BY <1>1, <1>3, <3>1, AudioDecrease, AudioNeverRaises
  <2>2. CASE a.type = "DecreasePacketRate"
    <3>1. execute_action(a) = AudioDecreasePacketRate
      BY <1>3, <2>2 DEF execute_action
    <3>2. encoder.mode \in Nat
      BY ConstantsAssumption DEF RateInv, Encoder
    <3> QED
      BY <1>3, <3>1, <3>2, AudioPacketRate, AudioNeverRaises
  <2> QED
    BY <1>1, <2>1, <2>2
<1> QED
  BY <1>2, <1>3

-----------------------------------------------------------------------------
(* The steps. *)

\* What the analyser suggests.
LEMMA SuggestionIsAction ==
  ASSUME NEW c \in Seen, NEW p \in Seen, Trouble(c, p)
  PROVE  suggest_action(c, p) \in Actions /\ suggest_action(c, p).type # "IncreaseQuality"
<1>1. c.lost \in 0 .. 100
  <2>1. CASE c \in Reports
    <3>1. c.lost \in Losses
      BY <2>1 DEF Reports
    <3> QED
      BY <3>1, ConstantsAssumption
  <2>2. CASE c = NoReport
    BY <2>2 DEF NoReport
  <2> QED
    BY <2>1, <2>2 DEF Seen
<1>2. Congested(c) \in BOOLEAN /\ Delayed(c, p) \in BOOLEAN /\ Lossy(c) \in BOOLEAN
  BY DEF Congested, Delayed, Lossy, Seen, Reports, NoReport
<1>3. CASE Congested(c)
  <2>1. ~ Delayed(c, p)
    BY <1>3 DEF Delayed
  <2>2. suggest_action(c, p) =
          [type |-> "DecreaseBitrate", value |-> IF c.lost < 50 THEN c.lost ELSE 50]
    BY <1>3, <2>1 DEF suggest_action
  <2> QED
    BY <1>1, <2>2 DEF Actions
<1>4. CASE ~ Congested(c) /\ Delayed(c, p)
  <2>1. suggest_action(c, p) = [type |-> "DecreaseBitrate", value |-> 20]
    BY <1>4 DEF suggest_action
  <2> QED
    BY <2>1 DEF Actions
<1>5. CASE ~ Congested(c) /\ ~ Delayed(c, p) /\ Lossy(c)
  <2>1. suggest_action(c, p) = [type |-> "DecreasePacketRate", value |-> 0]
    BY <1>5 DEF suggest_action
  <2> QED
    BY <2>1 DEF Actions
<1>6. CASE ~ Congested(c) /\ ~ Delayed(c, p) /\ ~ Lossy(c)
  <2>1. suggest_action(c, p) = [type |-> "DoNothing", value |-> 0]
    BY <1>6 DEF suggest_action
  <2> QED
    BY <2>1 DEF Trouble
<1> QED
  BY <1>3, <1>4, <1>5, <1>6

\* Each step of the controller does nothing, executes what is suggested, or,
\* when nothing is wrong, raises the quality.
LEMMA OneAction ==
  ASSUME NEW c, NEW p, state_machine(c, p)
  PROVE  \/ DoNothing
         \/ Trouble(c, p) /\ Execute(suggest_action(c, p))
         \/ ~ Trouble(c, p) /\ Execute(IncreaseQuality)
BY DEF state_machine, InitOrStable, Probing, ProbingUp, NotImproved, Decrease, AllIsFine

LEMMA RateStep ==
  ASSUME RateInv, NEW c \in Seen, NEW p \in Seen, state_machine(c, p), cur' = c, prev' = p
  PROVE  RateInv' /\ (Trouble(c, p) /\ RateIsKnown => NetRate(encoder') <= NetRate(encoder))
<1>1. medium' = medium
  BY DEF state_machine
<1>2. rt_prop_doubled' \in BOOLEAN
  BY DEF state_machine, InitOrStable, Probing, ProbingUp, NotImproved, Decrease, AllIsFine, RateInv
<1>3. CASE DoNothing
  <2>1. driver' = driver /\ encoder' = encoder
    BY <1>3 DEF DoNothing
  <2>2. NetRate(encoder) \in Int
    <3>1. encoder.rate \in Nat /\ encoder.mode \in Modes /\ encoder.ptime \in Ptime
      BY DEF RateInv, Encoder
    <3>2. encoder.mode \in Nat /\ encoder.ptime \in AllPtimes
      BY <3>1, ConstantsAssumption DEF Ptime
    <3> QED
      BY <3>1, <3>2, HeadersType DEF NetRate
  <2> QED
    BY <1>1, <1>2, <2>1, <2>2 DEF RateInv, NetRate
<1>4. CASE Trouble(c, p) /\ Execute(suggest_action(c, p))
  <2> DEFINE a == suggest_action(c, p)
  <2>1. a \in Actions /\ a.type # "IncreaseQuality"
    BY <1>4, SuggestionIsAction
  <2>2. driver' = execute_action(a).driver /\ encoder' = execute_action(a).encoder
    BY <1>4 DEF Execute
  <2> HIDE DEF a
  <2>3. RateInv'
    BY <1>1, <1>2, <2>1, <2>2, ActionIsTyped DEF RateInv
  <2> QED
    BY <2>1, <2>2, <2>3, DecreaseNeverRaises
<1>5. CASE ~ Trouble(c, p) /\ Execute(IncreaseQuality)
  <2>1. IncreaseQuality \in Actions
    BY DEF IncreaseQuality, Actions
  <2>2. driver' = execute_action(IncreaseQuality).driver
        /\ encoder' = execute_action(IncreaseQuality).encoder
    BY <1>5 DEF Execute
  <2> QED
    BY <1>1, <1>2, <1>5, <2>1, <2>2, ActionIsTyped DEF RateInv
<1> QED
  BY <1>3, <1>4, <1>5, OneAction

LEMMA InitRight ==
  ASSUME Init
  PROVE  Inv
<1>1. CountInv
  BY ConstantsAssumption DEF Init, CountInv
<1>2. medium \in Media /\ cur \in Seen /\ prev \in Seen /\ rt_prop_doubled \in BOOLEAN
  BY DEF Init, Seen
<1>3. driver \in Driver /\ driver.nom = 0
  BY ConstantsAssumption DEF Init, Driver, Ptime, AllPtimes, min_ptime
<1>4. PICK ptime \in (IF medium = "video" THEN {min_ptime} ELSE Ptimes) :
        encoder = [mode |-> AudioMode, ptime |-> ptime,
                   rate |-> IF medium = "video" THEN Nominal ELSE WithHeaders(AudioMode, ptime)]
  BY DEF Init
<1>5. ptime \in Ptime /\ ptime \in AllPtimes
  BY ConstantsAssumption DEF Ptime, AllPtimes, min_ptime
<1>6. AudioMode \in Modes /\ AudioMode \in Nat /\ Nominal \in Nat
  BY ConstantsAssumption
<1>7. WithHeaders(AudioMode, ptime) \in Nat
  BY <1>5, <1>6, HeadersType
<1>8. encoder \in Encoder
  BY <1>4, <1>5, <1>6, <1>7 DEF Encoder
<1> QED
  BY <1>1, <1>2, <1>3, <1>8 DEF Inv, RateInv

LEMMA NextRight ==
  ASSUME Inv, [Next]_vars
  PROVE  Inv' /\ [Trouble(cur', prev') /\ RateIsKnown => NetRate(encoder') <= NetRate(encoder)]_vars
<1> USE DEF Inv
<1>1. ASSUME NEW r \in Reports, Report(r)
      PROVE  Inv' /\ (Trouble(cur', prev') /\ RateIsKnown => NetRate(encoder') <= NetRate(encoder))
  <2>1. cur' = r /\ prev' = cur /\ state_machine(r, cur) /\ r \in Seen /\ cur \in Seen
    BY <1>1 DEF Report, Seen, RateInv
  <2>2. CountInv'
    BY <2>1, CountStep
  <2>3. RateInv' /\ (Trouble(r, cur) /\ RateIsKnown => NetRate(encoder') <= NetRate(encoder))
    BY <2>1, RateStep
  <2> QED
    BY <2>1, <2>2, <2>3
<1>2. ASSUME ReportOnOther
      PROVE  Inv' /\ (Trouble(cur', prev') /\ RateIsKnown => NetRate(encoder') <= NetRate(encoder))
  <2>1. cur' = cur /\ prev' = prev /\ state_machine(cur, prev) /\ cur \in Seen /\ prev \in Seen
    BY <1>2 DEF ReportOnOther, RateInv
  <2>2. CountInv'
    BY <2>1, CountStep
  <2>3. RateInv' /\ (Trouble(cur, prev) /\ RateIsKnown => NetRate(encoder') <= NetRate(encoder))
    BY <2>1, RateStep
  <2> QED
    BY <2>1, <2>2, <2>3
<1>3. CASE UNCHANGED vars
  BY <1>3 DEF vars, control, CountInv, RateInv
<1> QED
  BY <1>1, <1>2, <1>3 DEF Next

-----------------------------------------------------------------------------
(* The theorems. *)

\* The controller's counters fit its state, and the drivers' and the encoders'
\* rates and ptimes keep their ranges (bitratecontrol.c, bitratedriver.c).
THEOREM RateInvariance == Spec => []Inv
<1>1. Init => Inv
  BY InitRight
<1>2. Inv /\ [Next]_vars => Inv'
  BY NextRight
<1> QED
  BY <1>1, <1>2, PTL DEF Spec

\* No count passes its limit and no ptime the maximum, whatever the peer reports
\* (state_machine, inc_ptime).
THEOREM RateTypes == Spec => []TypeOK
<1>1. Inv => TypeOK
  BY DEF Inv, CountInv, RateInv, TypeOK, Seen, Driver, Encoder, Ptime
<1> QED
  BY <1>1, RateInvariance, PTL

\* The quality is raised only after a calm time, for any probing_up_interval.
THEOREM RaiseIsEarned == Spec => []RaiseNeedsCalm
<1>1. Inv => RaiseNeedsCalm
  BY DEF Inv, CountInv, RaiseNeedsCalm
<1> QED
  BY <1>1, RateInvariance, PTL

\* Trouble never makes the encoder send more, for any modes, losses and delays.
THEOREM TroubleRelieves == Spec => TroubleNeverRaises
<1>1. Inv /\ [Next]_vars
        => [Trouble(cur', prev') /\ RateIsKnown => NetRate(encoder') <= NetRate(encoder)]_vars
  BY NextRight
<1> QED
  BY <1>1, RateInvariance, PTL DEF Spec, TroubleNeverRaises
=============================================================================
