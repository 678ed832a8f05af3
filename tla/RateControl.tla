---------------------------- MODULE RateControl ----------------------------
(***************************************************************************)
(* The adaptive rate control of a stream that is sent (mediastreamer2's    *)
(* qosanalyzer.c, bitratecontrol.c, bitratedriver.c), and its encoder      *)
(* (msspeex.c, videoenc.c): each RTCP report of the peer is analysed, and  *)
(* the controller lowers what the encoder sends when there is trouble,     *)
(* waits for an improvement, and probes upwards after a calm time.         *)
(*                                                                         *)
(* Audio rates are in bits per second, losses in percent, ptimes in ms and *)
(* delays (the round trip propagation) in tenths of a second.              *)
(***************************************************************************)
EXTENDS Integers, FiniteSetsExt

CONSTANTS
  Media,     \* the encoders: "speex", "fixed" (no bitrate to set), "video"
  Modes,     \* the rates of the speex encoder
  AudioMode, \* the one it starts with
  Nominal,   \* the rate of the video encoder, in any unit of rate
  MinVideo,  \* min_video_bitrate, in the same unit
  Ptimes,    \* what the peer may ask for
  MaxPtime,  \* max_ptime
  Interval,  \* probing_up_interval
  Losses, Delays  \* what the peer may report

min_ptime == 20
unacceptable_loss_rate == 10
significant_delay == 2

\* The multiples of min_ptime that the encoders and the driver use.
AllPtimes == {20, 40, 60, 80, 100}

\* A set of rates has a highest and a lowest one.
ASSUME ConstantsAssumption ==
  /\ Media \subseteq {"speex", "fixed", "video"}
  /\ Modes \subseteq Nat \ {0} /\ AudioMode \in Modes
  /\ \A S \in (SUBSET Modes) \ {{}} :
       \E low, high \in S : \A m \in S : low <= m /\ m <= high
  /\ MinVideo \in Nat /\ MinVideo >= 10 /\ Nominal \in Nat /\ Nominal >= MinVideo
  /\ MaxPtime \in AllPtimes
  /\ Ptimes \subseteq {p \in AllPtimes : p <= MaxPtime}
  /\ Interval \in Nat \ {0}
  /\ Losses \subseteq 0 .. 100 /\ Delays \subseteq Nat

Reports == [lost : Losses, jitter : BOOLEAN, delay : Delays]  \* jitter: 10 ms or more

VARIABLES
  medium,
  state, stable_count, probing_up_count,  \* the controller
  cur, prev, rt_prop_doubled,             \* the analyser: the last two reports
  driver,                                 \* nominal and current rate, ptime
  encoder,                                \* its mode, ptime and rate (ip_bitrate, maxbr)
  calm      \* history: analyses in a row that found nothing wrong, up to Interval

control == <<state, stable_count, probing_up_count>>
vars == <<medium, control, cur, prev, rt_prop_doubled, driver, encoder, calm>>

NoReport == [lost |-> 0, jitter |-> FALSE, delay |-> 0]

TypeOK ==
  /\ medium \in Media
  /\ state \in {"Init", "Probing", "Stable", "ProbingUp"}
  /\ stable_count \in 0 .. Interval /\ probing_up_count \in 0 .. 2 /\ calm \in 0 .. Interval
  /\ {cur, prev} \subseteq Reports \cup {NoReport} /\ rt_prop_doubled \in BOOLEAN
  /\ driver \in [nom : Int, cur : Nat, ptime : {p \in AllPtimes : p <= MaxPtime}]
  /\ encoder \in [mode : Modes, ptime : {p \in AllPtimes : p <= MaxPtime}, rate : Nat]

-----------------------------------------------------------------------------
(* The encoders. *)

\* The headers of IP, UDP and RTP make 40 octets a packet.
WithHeaders(mode, ptime) ==
  LET octets == 8 * (1000 \div ptime)  \* bits per second of one octet a packet
  IN  ((mode \div octets) + 40) * octets

\* What the encoder sends.
NetRate(e) == IF medium = "video" THEN e.rate ELSE WithHeaders(e.mode, e.ptime)

\* The speex encoder takes its highest mode that fits, or the lowest.  A rate
\* of 0 is none: only the computed rate is refreshed.
apply_max_bitrate(e, rate) ==
  LET codec == rate - 40 * 8 * (1000 \div e.ptime)
      fit == {m \in Modes : m <= codec}
      mode == IF rate <= 0 THEN e.mode ELSE IF fit # {} THEN Max(fit) ELSE Min(Modes)
  IN  [e EXCEPT !.mode = mode, !.rate = WithHeaders(mode, e.ptime)]

\* MS_FILTER_SET_BITRATE.  A video encoder takes any rate.
enc_set_br(e, rate) ==
  IF medium = "video" THEN [e EXCEPT !.rate = rate] ELSE apply_max_bitrate(e, rate)

-----------------------------------------------------------------------------
(* The drivers.  An action gives the driver, the encoder and the result.   *)

\* The nominal rate is read at the first action.  A codec without bitrate has
\* no method for it.
ReadNominal == IF driver.nom # 0 THEN driver
               ELSE [driver EXCEPT !.nom = IF medium = "fixed" THEN -1 ELSE encoder.rate]

\* Mutant: one step beyond the maximum.
inc_ptime_OneMore(d) == IF d.ptime > MaxPtime THEN d ELSE [d EXCEPT !.ptime = @ + min_ptime]

inc_ptime(d) == IF d.ptime >= MaxPtime THEN d ELSE [d EXCEPT !.ptime = @ + min_ptime]

\* The encoder learns the ptime; its computed rate stays that of the old one.
apply_ptime(d) == [encoder EXCEPT !.ptime = d.ptime]

\* Mutant: the reduction is always from the nominal rate.
AudioDecreaseBitrate_FromNominal(value) ==
  LET d == inc_ptime(ReadNominal)
      rate == d.nom - ((d.nom * value) \div 100)
      e == IF d.nom > 0 THEN enc_set_br(apply_ptime(d), rate) ELSE apply_ptime(d)
  IN  [driver |-> IF d.nom > 0 THEN [d EXCEPT !.cur = e.rate] ELSE d, encoder |-> e, ret |-> 0]

AudioDecreaseBitrate(value) ==
  LET d == inc_ptime(ReadNominal)
      rate == encoder.rate - ((encoder.rate * value) \div 100)
      e == IF d.nom > 0 THEN enc_set_br(apply_ptime(d), rate) ELSE apply_ptime(d)
  IN  [driver |-> IF d.nom > 0 THEN [d EXCEPT !.cur = e.rate] ELSE d, encoder |-> e, ret |-> 0]

AudioDecreasePacketRate ==
  LET d == inc_ptime(ReadNominal)
  IN  [driver |-> d, encoder |-> apply_ptime(d), ret |-> 0]

\* When the rate has been raised once, the driver takes it for nominal.
AudioIncreaseQuality ==
  LET d == ReadNominal
      raised == (d.cur * 120) \div 100
      shorter == [d EXCEPT !.ptime = @ - min_ptime]
  IN  IF d.nom > 0 /\ d.cur < d.nom
        THEN [driver |-> [d EXCEPT !.cur = d.nom], ret |-> 0,
              encoder |-> enc_set_br(encoder, IF raised > d.nom THEN d.nom ELSE raised)]
      ELSE IF d.ptime > min_ptime
        THEN [driver |-> shorter, encoder |-> apply_ptime(shorter), ret |-> 0]
      ELSE [driver |-> d, encoder |-> encoder, ret |-> -1]

dec_video_bitrate(value) ==
  LET target == (encoder.rate * (100 - value)) \div 100
      rate == IF target < MinVideo THEN MinVideo ELSE target
  IN  [driver |-> [ReadNominal EXCEPT !.cur = rate], encoder |-> enc_set_br(encoder, rate),
       ret |-> IF rate = MinVideo THEN -1 ELSE 0]

\* From the driver's rate, which is 0 until the first decrease.
inc_video_bitrate(value) ==
  LET d == ReadNominal
      raised == (d.cur * (100 + value)) \div 100
      rate == IF raised > d.nom THEN d.nom ELSE raised
  IN  [driver |-> [d EXCEPT !.cur = rate], encoder |-> enc_set_br(encoder, rate),
       ret |-> IF raised > d.nom THEN -1 ELSE 0]

\* The video stream has no audio driver whose packet rate could be decreased.
execute_action(action) ==
  CASE medium = "video" /\ action.type = "DecreaseBitrate" -> dec_video_bitrate(action.value)
    [] medium = "video" /\ action.type = "DecreasePacketRate" ->
         [driver |-> ReadNominal, encoder |-> encoder, ret |-> 0]
    [] medium = "video" /\ action.type = "IncreaseQuality" -> inc_video_bitrate(action.value)
    [] medium # "video" /\ action.type = "DecreaseBitrate" -> AudioDecreaseBitrate(action.value)
    [] medium # "video" /\ action.type = "DecreasePacketRate" -> AudioDecreasePacketRate
    [] medium # "video" /\ action.type = "IncreaseQuality" -> AudioIncreaseQuality

IncreaseQuality == [type |-> "IncreaseQuality", value |-> 10]

-----------------------------------------------------------------------------
(* The analyser, on the reports c and p. *)

rt_prop_increased(c, p) ==
  c.delay >= significant_delay /\ p.delay > 0 /\ c.delay >= 2 * p.delay

Lossy(c) == c.lost >= unacceptable_loss_rate
Congested(c) == Lossy(c) /\ c.jitter
Delayed(c, p) == rt_prop_increased(c, p) /\ ~ Congested(c)  \* noted in rt_prop_doubled

suggest_action(c, p) ==
  CASE Congested(c) -> [type |-> "DecreaseBitrate", value |-> IF c.lost < 50 THEN c.lost ELSE 50]
    [] Delayed(c, p) -> [type |-> "DecreaseBitrate", value |-> 20]
    [] Lossy(c) /\ ~ Congested(c) /\ ~ Delayed(c, p) -> [type |-> "DecreasePacketRate", value |-> 0]
    [] OTHER -> [type |-> "DoNothing", value |-> 0]

Trouble(c, p) == suggest_action(c, p).type # "DoNothing"

\* Losses decide when there were losses, the delay otherwise.
LossImproved(c, p) == Lossy(p) /\ c.lost < p.lost
DelayImproved(c, p) == ~ Lossy(p) /\ rt_prop_doubled /\ c.delay < p.delay

-----------------------------------------------------------------------------
(* The controller: one disjunct for each state. *)

Execute(action) ==
  /\ driver' = execute_action(action).driver
  /\ encoder' = execute_action(action).encoder

DoNothing == UNCHANGED <<driver, encoder>>

\* What the analyser suggests is executed, and a doubled delay is noted.
Decrease(c, p) ==
  /\ Trouble(c, p)
  /\ Execute(suggest_action(c, p))
  /\ rt_prop_doubled' = (rt_prop_doubled \/ Delayed(c, p))

AllIsFine(c, p) == ~ Trouble(c, p) /\ UNCHANGED rt_prop_doubled

\* "Stable" counts its reports; quality is raised when the count is reached.
InitOrStable(c, p) ==
  LET count == IF state = "Stable" THEN stable_count + 1 ELSE stable_count IN
  /\ state \in {"Init", "Stable"}
  /\ stable_count' = count
  /\ \/ Decrease(c, p) /\ state' = "Probing" /\ UNCHANGED probing_up_count
     \/ /\ AllIsFine(c, p) /\ count >= Interval
        /\ Execute(IncreaseQuality) /\ state' = "ProbingUp" /\ probing_up_count' = 0
     \/ /\ AllIsFine(c, p) /\ count < Interval
        /\ DoNothing /\ UNCHANGED <<state, probing_up_count>>

\* Mutant: what was counted before the trouble still counts.
ResetCount_Never == UNCHANGED stable_count

ResetCount == stable_count' = 0

\* Mutant: no second action before the first has helped.
NotImproved_Waits(c, p) == DoNothing /\ UNCHANGED <<state, rt_prop_doubled>>

NotImproved(c, p) ==
  /\ ~ (LossImproved(c, p) \/ DelayImproved(c, p))
  /\ Decrease(c, p) \/ (AllIsFine(c, p) /\ DoNothing)
  /\ UNCHANGED state

Probing(c, p) ==
  /\ state = "Probing" /\ ResetCount /\ UNCHANGED probing_up_count
  /\ \/ LossImproved(c, p) /\ state' = "Stable" /\ DoNothing /\ UNCHANGED rt_prop_doubled
     \/ DelayImproved(c, p) /\ state' = "Stable" /\ DoNothing /\ rt_prop_doubled' = FALSE
     \/ NotImproved(c, p)

\* Mutant: the ramp ends with its second step.
MaximumReached_Always == TRUE

MaximumReached == execute_action(IncreaseQuality).ret = -1

\* Every second report without trouble is a step of the ramp, until the driver
\* says that the maximum is reached.
ProbingUp(c, p) ==
  LET count == probing_up_count + 1 IN
  /\ state = "ProbingUp" /\ ResetCount
  /\ \/ Decrease(c, p) /\ state' = "Probing" /\ probing_up_count' = count
     \/ /\ AllIsFine(c, p) /\ count = 2
        /\ Execute(IncreaseQuality) /\ probing_up_count' = 0
        /\ state' = IF MaximumReached THEN "Init" ELSE "ProbingUp"
     \/ /\ AllIsFine(c, p) /\ count # 2
        /\ DoNothing /\ UNCHANGED state /\ probing_up_count' = count

state_machine(c, p) ==
  /\ InitOrStable(c, p) \/ Probing(c, p) \/ ProbingUp(c, p)
  /\ calm' = IF Trouble(c, p) THEN 0 ELSE IF calm < Interval THEN calm + 1 ELSE calm
  /\ UNCHANGED medium

-----------------------------------------------------------------------------
\* The encoder has been given the rate of its payload type and the peer's ptime;
\* the driver assumes 20 ms.
Init ==
  /\ medium \in Media
  /\ state = "Init" /\ stable_count = 0 /\ probing_up_count = 0
  /\ cur = NoReport /\ prev = NoReport /\ rt_prop_doubled = FALSE
  /\ driver = [nom |-> 0, cur |-> 0, ptime |-> min_ptime]
  /\ \E ptime \in (IF medium = "video" THEN {min_ptime} ELSE Ptimes) :
       encoder = [mode |-> AudioMode, ptime |-> ptime,
                  rate |-> IF medium = "video" THEN Nominal ELSE WithHeaders(AudioMode, ptime)]
  /\ calm = 0

\* A report on what we send.
Report(r) ==
  /\ cur' = r /\ prev' = cur
  /\ state_machine(r, cur)

\* A report block on another source (the one we had before our stream was
\* started again) changes nothing, and makes the controller run all the same.
ReportOnOther == UNCHANGED <<cur, prev>> /\ state_machine(cur, prev)

Next == (\E r \in Reports : Report(r)) \/ ReportOnOther

\* The peer reports every few seconds.
Spec == Init /\ [][Next]_vars /\ WF_vars(\E r \in Reports : Report(r))

-----------------------------------------------------------------------------
(* Properties. *)

\* The quality is raised only after Interval analyses in a row that found
\* nothing wrong: stable_count (state_machine in bitratecontrol.c) is compared in
\* two states, counted in one and reset in the two others.
RaiseNeedsCalm == state = "ProbingUp" => calm = Interval

\* The driver knows what is sent.  It does not when the peer asked for another
\* ptime than 20 ms; when the ptime changed, as the speex encoder does not compute
\* its rate again then; and when a video rate that it never decreased was
\* "raised" to 0.
RateIsKnown ==
  CASE medium = "video" -> encoder.rate >= MinVideo
    [] medium = "fixed" -> encoder.ptime = driver.ptime
    [] medium = "speex" -> encoder.ptime = driver.ptime /\ encoder.rate = NetRate(encoder)

\* Whatever the analyser found, the action of the driver (bitratedriver.c) and what
\* the encoder makes of it never send more: a longer ptime, a reduction of what
\* the encoder says that it sends, and the mode that the encoder then finds.
TroubleNeverRaises ==
  [][Trouble(cur', prev') /\ RateIsKnown => NetRate(encoder') <= NetRate(encoder)]_vars

Lowest ==
  IF medium = "video" THEN encoder.rate = MinVideo
  ELSE encoder.ptime = MaxPtime /\ (medium = "speex" => encoder.mode = Min(Modes))

\* A network that stays congested is relieved as far as the encoder can: while
\* it is probing, state_machine goes on decreasing with each report that is no better.
CongestionIsRelieved ==
  <>[]Congested(cur) => <>[]Lowest

\* The audio driver believes in the nominal rate, see AudioIncreaseQuality; the
\* video driver does not know its rate if it was never told to decrease it.
Restored ==
  IF medium = "video" THEN encoder.rate = Nominal \/ driver.cur = 0
  ELSE driver.ptime = min_ptime /\ (medium = "speex" => driver.cur = driver.nom)

\* A network that stays good with the shortest delay gets the nominal quality
\* again, whatever went before: state_machine leaves Probing, counts, and ramps up
\* until inc_video_bitrate or the audio driver says that the maximum is reached.
CalmRestores ==
  <>[](cur.lost = 0 /\ cur.delay = Min(Delays)) => <>[]Restored
=============================================================================
