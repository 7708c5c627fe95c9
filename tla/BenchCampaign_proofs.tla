------------------------ MODULE BenchCampaign_proofs ------------------------
(***************************************************************************)
(* Proofs about BenchCampaign, for every number of runs, warm-ups, resets  *)
(* and cut rows: the shape of the serial capture, the classification of    *)
(* its rows, and that the device's counters and sample arrays agree with   *)
(* what the host makes of the capture.                                     *)
(***************************************************************************)
EXTENDS BenchCampaign, SequenceTheorems, FiniteSetTheorems, TLAPS

(* What is known of the lines s a boot has printed: the header is the first and the only one,
   every row has all its columns, and the rows, the successful ones among them, and the slots
   of the latter are what the counters say. *)
RowsOf(s) == {k \in DOMAIN s : s[k].type = "row"}
GoodOf(s) == {k \in DOMAIN s : s[k].type = "row" /\ s[k].success}
Before(s, k) == {j \in GoodOf(s) : j < k}

BootLines(s) ==
    /\ Len(s) > 0 /\ s[1].type = "header"
    /\ \A k \in 2 .. Len(s) : s[k].type # "header"
    /\ \A k \in 1 .. Len(s) : s[k].type = "row" => s[k].fields = RowFields

(* The attempts of this boot that are over. *)
Done == IF warmup THEN 0 ELSE IF pc = "cooldown" THEN i + 1 ELSE i

Counts(s, rows, ok, bad, slots) ==
    /\ Cardinality(RowsOf(s)) = rows /\ ok + bad = rows
    /\ Cardinality(GoodOf(s)) = ok
    /\ \A k \in GoodOf(s) : slots[Cardinality(Before(s, k))] = s[k].run

LastHeader(b) == b \in Boots /\ \A j \in Boots : j <= b

BootInv ==
    pc \in Running =>
        /\ \E b \in Boots : LastHeader(b)
        /\ BootLines(ThisBoot)
        /\ Counts(ThisBoot, Done, successes, failures, samples)

InAttempt == {"connect", "connecting", "mqtt", "close", "closing", "report"}

(* Where main is in its loops, and what the last line is then. *)
LoopInv ==
    /\ pc \in Running \cup {"boot"} => clock
    /\ pc \in {"summary", "done"} => ~warmup /\ i = Iters
    /\ pc \in Running \ {"summary", "done"} /\ ~warmup => i < Iters
    /\ pc \in InAttempt /\ ~warmup =>
          /\ Len(capture) > 0
          /\ capture[Len(capture)].type = "start" /\ capture[Len(capture)].run = i
    /\ pc \in Running /\ warmup => capture[Len(capture)].type = "header"

Classified(ok, stage, error, timeout) ==
    /\ ok <=> stage = "none"
    /\ ok <=> error = "ok"
    /\ timeout <=> error = "timeout"

(* What the attempt's result is at each step: nothing has failed yet, or it is classified. *)
ResultInv ==
    /\ pc \in {"connect", "connecting", "mqtt"} => attempt = Transport!NoFailure /\ ~success
    /\ pc \in {"close", "closing", "report"} =>
          Classified(success, attempt.stage, attempt.error, attempt.timed_out)

IInv == TypeOK /\ LoopInv /\ ResultInv /\ BootInv /\ RowPerAttempt /\ RowClassified

-----------------------------------------------------------------------------
(* A line more. *)
LEMMA OneMore ==
    ASSUME NEW S, NEW c \in Seq(S), NEW x \in S
    PROVE  /\ Append(c, x) \in Seq(S) /\ Len(Append(c, x)) = Len(c) + 1 /\ Len(c) \in Nat
           /\ DOMAIN c = 1 .. Len(c) /\ DOMAIN Append(c, x) = 1 .. Len(c) + 1
           /\ \A k \in 1 .. Len(c) : Append(c, x)[k] = c[k]
           /\ Append(c, x)[Len(c) + 1] = x
  BY AppendProperties, LenProperties

(* The present boot's part of any capture c, and the place b where it begins. *)
Latest(c, b) ==
    /\ b \in DOMAIN c /\ c[b].type = "header"
    /\ \A j \in DOMAIN c : c[j].type = "header" => j <= b

LEMMA LatestIsLast == \A b : LastHeader(b) <=> Latest(capture, b)
  BY DEF LastHeader, Latest, Boots

LEMMA BootBegins ==
    ASSUME capture \in Seq(Line), NEW b, Latest(capture, b)
    PROVE  ThisBoot = SubSeq(capture, b, Len(capture))
  <1> DEFINE last == CHOOSE k \in Boots : \A j \in Boots : j <= k
  <1>1. b \in Boots /\ \A j \in Boots : j <= b
    BY DEF Latest, Boots
  <1>2. last \in Boots /\ \A j \in Boots : j <= last
    BY <1>1
  <1>3. b \in Int /\ last \in Int
    BY <1>1, <1>2, LenProperties DEF Boots
  <1>4. b <= last /\ last <= b
    BY <1>1, <1>2
  <1>5. last = b
    <2> HIDE DEF last
    <2> QED
      BY <1>3, <1>4
  <1> QED
    BY <1>5 DEF ThisBoot

LEMMA BootBeginsNext ==
    ASSUME capture' \in Seq(Line), NEW b, Latest(capture', b)
    PROVE  ThisBoot' = SubSeq(capture', b, Len(capture'))
  <1>1. (capture \in Seq(Line) /\ Latest(capture, b)
           => ThisBoot = SubSeq(capture, b, Len(capture)))'
    BY BootBegins, PTL
  <1> QED
    BY <1>1

LEMMA BootTail ==
    ASSUME NEW c \in Seq(Line), NEW b \in 1 .. Len(c), NEW x \in Line
    PROVE  /\ SubSeq(c, b, Len(c)) \in Seq(Line)
           /\ Len(SubSeq(c, b, Len(c))) = Len(c) - b + 1
           /\ \A k \in 1 .. Len(c) - b + 1 : SubSeq(c, b, Len(c))[k] = c[b + k - 1]
           /\ SubSeq(Append(c, x), b, Len(c) + 1) = Append(SubSeq(c, b, Len(c)), x)
  <1> DEFINE s == SubSeq(c, b, Len(c))
             t == SubSeq(Append(c, x), b, Len(c) + 1)
  <1>1. Len(c) \in Nat /\ b \in Nat /\ 1 <= b /\ b <= Len(c)
    BY LenProperties
  <1>2. /\ s \in Seq(Line) /\ Len(s) = Len(c) - b + 1
        /\ \A k \in 1 .. Len(c) - b + 1 : s[k] = c[b + k - 1]
    BY <1>1, SubSeqProperties
  <1>3. /\ t \in Seq(Line) /\ Len(t) = Len(c) - b + 2
        /\ \A k \in 1 .. Len(c) - b + 2 : t[k] = Append(c, x)[b + k - 1]
    BY <1>1, OneMore, SubSeqProperties
  <1>4. /\ Append(s, x) \in Seq(Line) /\ Len(Append(s, x)) = Len(c) - b + 2
        /\ \A k \in 1 .. Len(c) - b + 1 : Append(s, x)[k] = s[k]
        /\ Append(s, x)[Len(c) - b + 2] = x
    <2> HIDE DEF s
    <2> QED
      BY <1>1, <1>2, OneMore
  <1>5. \A k \in 1 .. Len(c) - b + 2 : t[k] = Append(s, x)[k]
    <2> SUFFICES ASSUME NEW k \in 1 .. Len(c) - b + 2 PROVE t[k] = Append(s, x)[k]
      OBVIOUS
    <2>1. CASE k <= Len(c) - b + 1
      <3>1. b + k - 1 \in 1 .. Len(c) /\ k \in 1 .. Len(c) - b + 1
        BY <1>1, <2>1
      <3> QED
        BY <1>2, <1>3, <1>4, <3>1, OneMore
    <2>2. CASE k = Len(c) - b + 2
      <3>1. b + k - 1 = Len(c) + 1
        BY <1>1, <2>2
      <3> QED
        BY <1>3, <1>4, <2>2, <3>1, OneMore
    <2> QED
      BY <1>1, <2>1, <2>2
  <1>6. t = Append(s, x)
    <2> HIDE DEF s, t
    <2> QED
      BY <1>1, <1>3, <1>4, <1>5, SeqEqual
  <1> QED
    BY <1>2, <1>6

(* A line that is no header goes on with the boot. *)
LEMMA Goes ==
    ASSUME capture \in Seq(Line), \E b \in Boots : LastHeader(b),
           NEW x \in Line, x.type # "header", capture' = Append(capture, x)
    PROVE  /\ (\E b \in Boots : LastHeader(b))'
           /\ ThisBoot \in Seq(Line)
           /\ ThisBoot' = Append(ThisBoot, x)
  <1>1. PICK b : Latest(capture, b)
    BY LatestIsLast
  <1>2. b \in 1 .. Len(capture)
    BY <1>1, LenProperties DEF Latest
  <1>3. Latest(capture', b)
    BY <1>1, <1>2, OneMore DEF Latest
  <1>4. capture' \in Seq(Line) /\ Len(capture') = Len(capture) + 1
    BY OneMore
  <1>5. (ThisBoot = SubSeq(capture, b, Len(capture)))'
    BY <1>3, <1>4, BootBeginsNext
  <1>6. (\E j \in Boots : LastHeader(j))'
    BY <1>3 DEF LastHeader, Boots, Latest
  <1>7. ThisBoot = SubSeq(capture, b, Len(capture))
    BY <1>1, BootBegins
  <1>8. /\ SubSeq(capture, b, Len(capture)) \in Seq(Line)
        /\ SubSeq(capture', b, Len(capture) + 1) = Append(SubSeq(capture, b, Len(capture)), x)
    BY <1>2, BootTail
  <1> QED
    BY <1>4, <1>5, <1>6, <1>7, <1>8

-----------------------------------------------------------------------------
(* Counting the rows of a boot. *)
LEMMA Countable ==
    ASSUME NEW s \in Seq(Line)
    PROVE  /\ IsFiniteSet(RowsOf(s)) /\ IsFiniteSet(GoodOf(s))
           /\ GoodOf(s) \subseteq RowsOf(s) /\ RowsOf(s) \subseteq 1 .. Len(s)
           /\ Cardinality(RowsOf(s)) \in Nat /\ Cardinality(GoodOf(s)) \in Nat
           /\ \A k : Cardinality(Before(s, k)) \in Nat
           /\ \A k \in GoodOf(s) : Cardinality(Before(s, k)) < Cardinality(GoodOf(s))
  <1>1. /\ GoodOf(s) \subseteq RowsOf(s) /\ RowsOf(s) \subseteq 1 .. Len(s)
        /\ \A k : Before(s, k) \subseteq GoodOf(s)
    BY LenProperties DEF RowsOf, GoodOf, Before
  <1>2. IsFiniteSet(1 .. Len(s))
    BY FS_Interval, LenProperties
  <1>3. /\ IsFiniteSet(RowsOf(s)) /\ IsFiniteSet(GoodOf(s))
        /\ \A k : IsFiniteSet(Before(s, k))
    BY <1>1, <1>2, FS_Subset
  <1>4. /\ Cardinality(RowsOf(s)) \in Nat /\ Cardinality(GoodOf(s)) \in Nat
        /\ \A k : Cardinality(Before(s, k)) \in Nat
    BY <1>3, FS_CardinalityType
  <1>5. ASSUME NEW k \in GoodOf(s)
        PROVE  Cardinality(Before(s, k)) < Cardinality(GoodOf(s))
    <2>1. k \in Int /\ k \notin Before(s, k)
      BY <1>1 DEF Before
    <2>2. /\ Cardinality(Before(s, k)) <= Cardinality(GoodOf(s))
          /\ Cardinality(GoodOf(s)) = Cardinality(Before(s, k)) => GoodOf(s) = Before(s, k)
      BY <1>1, <1>3, FS_Subset
    <2> QED
      BY <1>4, <2>1, <2>2
  <1> QED
    BY <1>1, <1>3, <1>4, <1>5

LEMMA CountOther ==
    ASSUME NEW s \in Seq(Line), NEW x \in Line, x.type # "row",
           NEW rows, NEW ok, NEW bad, NEW slots, Counts(s, rows, ok, bad, slots)
    PROVE  Counts(Append(s, x), rows, ok, bad, slots)
  <1>1. RowsOf(Append(s, x)) = RowsOf(s) /\ GoodOf(Append(s, x)) = GoodOf(s)
    BY OneMore DEF RowsOf, GoodOf
  <1>2. \A k : Before(Append(s, x), k) = Before(s, k)
    BY <1>1 DEF Before
  <1>3. \A k \in GoodOf(s) : Append(s, x)[k] = s[k]
    BY OneMore, Countable
  <1> QED
    BY <1>1, <1>2, <1>3 DEF Counts

LEMMA CountFailure ==
    ASSUME NEW s \in Seq(Line), NEW x \in Line, x.type = "row", ~x.success,
           NEW rows \in Nat, NEW ok \in Nat, NEW bad \in Nat, NEW slots,
           Counts(s, rows, ok, bad, slots)
    PROVE  Counts(Append(s, x), rows + 1, ok, bad + 1, slots)
  <1>1. /\ RowsOf(Append(s, x)) = RowsOf(s) \cup {Len(s) + 1}
        /\ GoodOf(Append(s, x)) = GoodOf(s)
    BY OneMore DEF RowsOf, GoodOf
  <1>2. Len(s) + 1 \notin RowsOf(s)
    BY Countable, LenProperties
  <1>3. Cardinality(RowsOf(Append(s, x))) = rows + 1
    <2>1. IsFiniteSet(RowsOf(s)) /\ Cardinality(RowsOf(s)) = rows
      BY Countable DEF Counts
    <2> QED
      BY <1>1, <1>2, <2>1, FS_AddElement
  <1>4. \A k : Before(Append(s, x), k) = Before(s, k)
    BY <1>1 DEF Before
  <1>5. \A k \in GoodOf(s) : Append(s, x)[k] = s[k]
    BY OneMore, Countable
  <1>6. ok + (bad + 1) = rows + 1
    BY DEF Counts
  <1> QED
    BY <1>1, <1>3, <1>4, <1>5, <1>6 DEF Counts

LEMMA CountSuccess ==
    ASSUME NEW s \in Seq(Line), NEW x \in Line, x.type = "row", x.success,
           NEW rows \in Nat, NEW ok \in 0 .. Iters - 1, NEW bad \in Nat,
           NEW slots \in [0 .. Iters - 1 -> Int], Counts(s, rows, ok, bad, slots)
    PROVE  Counts(Append(s, x), rows + 1, ok + 1, bad, [slots EXCEPT ![ok] = x.run])
  <1> DEFINE t == Append(s, x)
  <1>0. Iters \in Nat /\ ok \in Nat
    BY BenchCampaignAssumption
  <1>1. /\ RowsOf(t) = RowsOf(s) \cup {Len(s) + 1}
        /\ GoodOf(t) = GoodOf(s) \cup {Len(s) + 1}
    BY OneMore DEF RowsOf, GoodOf
  <1>2. Len(s) + 1 \notin RowsOf(s) /\ Len(s) + 1 \notin GoodOf(s) /\ Len(s) \in Nat
    BY Countable, LenProperties
  <1>3. Cardinality(RowsOf(t)) = rows + 1 /\ Cardinality(GoodOf(t)) = ok + 1
    <2>1. /\ IsFiniteSet(RowsOf(s)) /\ Cardinality(RowsOf(s)) = rows
          /\ IsFiniteSet(GoodOf(s)) /\ Cardinality(GoodOf(s)) = ok
      BY Countable DEF Counts
    <2>2. Cardinality(RowsOf(s) \cup {Len(s) + 1}) = rows + 1
      BY <1>2, <2>1, FS_AddElement
    <2>3. Cardinality(GoodOf(s) \cup {Len(s) + 1}) = ok + 1
      BY <1>2, <2>1, FS_AddElement
    <2> QED
      BY <1>1, <2>2, <2>3
  <1>4. /\ \A k \in GoodOf(s) : Before(t, k) = Before(s, k)
        /\ Before(t, Len(s) + 1) = GoodOf(s)
    BY <1>1, <1>2, Countable DEF Before
  <1>5. ASSUME NEW k \in GoodOf(t)
        PROVE  [slots EXCEPT ![ok] = x.run][Cardinality(Before(t, k))] = t[k].run
    <2>1. CASE k \in GoodOf(s)
      <3>1. Cardinality(Before(s, k)) \in 0 .. ok - 1
        BY <1>0, <2>1, Countable DEF Counts
      <3>2. t[k] = s[k]
        BY <2>1, OneMore, Countable
      <3> QED
        BY <1>0, <1>4, <2>1, <3>1, <3>2 DEF Counts
    <2>2. CASE k = Len(s) + 1
      <3>1. Cardinality(Before(t, k)) = ok /\ t[k] = x
        BY <1>4, <2>2, OneMore DEF Counts
      <3> QED
        BY <3>1
    <2> QED
      BY <1>1, <2>1, <2>2
  <1>6. (ok + 1) + bad = rows + 1
    BY <1>0 DEF Counts
  <1> QED
    BY <1>3, <1>5, <1>6 DEF Counts

-----------------------------------------------------------------------------
(* Types. *)
Outcome == [stage : StageNames, error : ErrorNames, timed_out : BOOLEAN]

LEMMA Outcomes ==
    /\ Transport!NoFailure \in Outcome
    /\ \A stage \in Stages \cup {"dns"}, error \in Errors \cup {"allocation"} :
          Transport!Failure(stage, error) \in Outcome
    /\ \A error \in MqttErrors, timed_out \in BOOLEAN : MqttFailure(error, timed_out) \in Outcome
  BY DEF Transport!NoFailure, Transport!Failure, MqttFailure, Outcome, StageNames, ErrorNames,
         MqttErrors

Closing == [type |-> "summary", attempted |-> Iters, successful |-> successes, failures |-> failures]

LEMMA Lines ==
    ASSUME TypeOK
    PROVE  /\ Header \in Line /\ Header.type = "header"
           /\ Start \in Line /\ Start.type = "start" /\ Start.run = i /\ Start.dated = clock
           /\ Closing \in Line /\ Closing.type = "summary"
  <1>1. Header \in Line /\ Header.type = "header"
    BY DEF Header, Line
  <1>2. Start \in Line /\ Start.type = "start" /\ Start.run = i /\ Start.dated = clock
    BY DEF Start, Line, TypeOK
  <1>3. Closing \in Line /\ Closing.type = "summary"
    BY DEF Closing, Line, TypeOK
  <1> QED
    BY <1>1, <1>2, <1>3

LEMMA RowLine ==
    ASSUME TypeOK, NEW fields \in 0 .. RowFields
    PROVE  /\ Row(fields) \in Line /\ Row(fields).type = "row" /\ Row(fields).run = i
           /\ Row(fields).dated = clock /\ Row(fields).success = success
           /\ Row(fields).stage = attempt.stage /\ Row(fields).error = attempt.error
           /\ Row(fields).timeout = attempt.timed_out /\ Row(fields).fields = fields
  <1>1. Phases(attempt.stage) \cap {"tcp", "tls", "mqtt"} \in SUBSET {"tcp", "tls", "mqtt"}
    OBVIOUS
  <1>2. Row(fields) \in Line
    BY <1>1 DEF Row, Line, TypeOK
  <1> QED
    BY <1>2 DEF Row

LEMMA TypeInit == Init => TypeOK
  <1> SUFFICES ASSUME Init PROVE TypeOK
    OBVIOUS
  <1>1. [slot \in 0 .. Iters - 1 |-> -1] \in [0 .. Iters - 1 -> Int]
    OBVIOUS
  <1>2. <<>> \in Seq(Line)
    BY EmptySeq
  <1>3. 1 \in 1 .. WifiAttempts
    BY BenchCampaignAssumption
  <1> QED
    BY <1>1, <1>2, <1>3, Outcomes DEF Init, TypeOK, Outcome

LEMMA TypeStep == ASSUME TypeOK, [Next]_vars PROVE TypeOK'
  <1> USE DEF TypeOK
  <1>1. CASE PowerOn \/ WifiStarts \/ WifiWait
    <2>1. WifiAttempts \in Nat \ {0}
      BY BenchCampaignAssumption
    <2>2. CASE PowerOn
      <3>1. clock' \in BOOLEAN /\ sntp_time_set' \in BOOLEAN
        BY <2>2 DEF PowerOn
      <3>2. wifi' \in 1 .. WifiAttempts /\ pc' \in {"wifi", "returned"}
        BY <2>1, <2>2 DEF PowerOn
      <3> QED
        BY <2>2, <3>1, <3>2 DEF PowerOn, campaign, tallies
    <2>3. CASE WifiStarts
      BY <2>1, <2>3 DEF WifiStarts, NextWifiAttempt, campaign, tallies
    <2>4. CASE WifiWait
      BY <2>1, <2>4 DEF WifiWait, NextWifiAttempt, campaign, tallies
    <2> QED
      BY <1>1, <2>2, <2>3, <2>4
  <1>2. CASE SyncStarts \/ SyncReturns \/ SetSystemTime
    BY <1>2 DEF SyncStarts, SyncReturns, SetSystemTime, startup, campaign, tallies, Synced
  <1>3. CASE Boot
    <2>1. Append(capture, Header) \in Seq(Line)
      BY Lines, OneMore
    <2>2. [slot \in 0 .. Iters - 1 |-> -1] \in [0 .. Iters - 1 -> Int]
      OBVIOUS
    <2>3. (Warmup > 0) \in BOOLEAN
      OBVIOUS
    <2> QED
      BY <1>3, <2>1, <2>2, <2>3, Outcomes DEF Boot, Printed, startup, Outcome, Running
  <1>4. CASE Begin
    <2>1. Append(capture, Start) \in Seq(Line)
      BY Lines, OneMore
    <2> QED
      BY <1>4, <2>1, Outcomes DEF Begin, Printed, startup, tallies, Outcome, Running
  <1>5. CASE Connect \/ Connected \/ ConnectFails
    <2>1. attempt' \in Outcome
      <3>1. CASE Connect
        <4>1. Transport!NoFailure \in Outcome /\ Transport!Failure("dns", "allocation") \in Outcome
          BY Outcomes
        <4> QED
          BY <3>1, <4>1 DEF Connect, Transport!Begin, Transport!Refuse
      <3>2. CASE Connected
        BY <3>2 DEF Connected, Outcome, Transport!Establish
      <3>3. CASE ConnectFails
        BY <3>3, Outcomes DEF ConnectFails, Transport!Fail
      <3> QED
        BY <1>5, <3>1, <3>2, <3>3
    <2> QED
      BY <1>5, <2>1 DEF Connect, Connected, ConnectFails, startup, tallies, Outcome, Running,
         Transport!Begin, Transport!Refuse, Transport!Establish, Transport!Fail
  <1>6. CASE MqttSucceeds \/ MqttFails \/ Close \/ Closed \/ Hang
    BY <1>6, Outcomes DEF MqttSucceeds, MqttFails, Close, Closed, Hang, startup, tallies, Outcome,
       Running, Transport!Close, Transport!Return, Transport!Halt
  <1>7. CASE ReportMeasured
    <2>1. Append(capture, Row(RowFields)) \in Seq(Line)
      BY RowLine, OneMore DEF RowFields
    <2> QED
      BY <1>7, <2>1 DEF ReportMeasured, Printed, startup, Running, Tally, Counted
  <1>8. CASE ReportWarmup
    BY <1>8 DEF ReportWarmup, startup, Running
  <1>9. CASE Cooldown
    <2>1. i' \in Nat /\ pc' \in {"summary", "begin"}
      BY <1>9 DEF Cooldown, Following
    <2>2. warmup' \in BOOLEAN
      BY <1>9 DEF Cooldown
    <2> QED
      BY <1>9, <2>1, <2>2 DEF Cooldown, startup, tallies, Running
  <1>10. CASE Summary
    <2>1. Append(capture, Closing) \in Seq(Line)
      BY Lines, OneMore
    <2> QED
      BY <1>10, <2>1 DEF Summary, Printed, Closing, startup, tallies, Running
  <1>11. CASE Reset
    <2>1. ASSUME NEW fields \in Cuts PROVE Append(capture, Row(fields)) \in Seq(Line)
      <3>1. fields \in 0 .. RowFields
        BY BenchCampaignAssumption DEF RowFields
      <3> QED
        BY <3>1, RowLine, OneMore
    <2> QED
      BY <1>11, <2>1 DEF Reset, Printed, startup, tallies
  <1>12. CASE UNCHANGED vars
    BY <1>12 DEF vars, startup, campaign, tallies
  <1> QED
    BY <1>1, <1>2, <1>3, <1>4, <1>5, <1>6, <1>7, <1>8, <1>9, <1>10, <1>11, <1>12 DEF Next, Device

-----------------------------------------------------------------------------
(* The result of the attempt. *)
LEMMA ResultStep == ASSUME TypeOK, ResultInv, [Next]_vars PROVE ResultInv'
  <1>1. CASE Begin
    <2>1. attempt' = Transport!NoFailure /\ success' = FALSE /\ pc' = "connect"
      BY <1>1 DEF Begin
    <2> QED
      BY <2>1 DEF ResultInv, Transport!NoFailure
  <1>2. CASE Connect
    <2>1. attempt = Transport!NoFailure /\ ~success /\ success' = success
      BY <1>2 DEF Connect, ResultInv
    <2>2. CASE attempt' = Transport!NoFailure /\ pc' = "connecting"
      BY <2>1, <2>2 DEF ResultInv, Transport!NoFailure
    <2>3. CASE attempt' = Transport!Failure("dns", "allocation") /\ pc' = "report"
      BY <2>1, <2>3 DEF ResultInv, Classified, Transport!Failure
    <2> QED
      BY <1>2, <2>2, <2>3 DEF Connect, Transport!Begin, Transport!Refuse
  <1>3. CASE Connected
    BY <1>3 DEF Connected, Transport!Establish, Transport!NoFailure, ResultInv
  <1>4. CASE ConnectFails
    <2>1. PICK stage \in Stages, error \in Errors : attempt' = Transport!Failure(stage, error)
      BY <1>4 DEF ConnectFails, Transport!Fail
    <2>2. stage # "none" /\ error # "ok"
      BY BenchCampaignAssumption
    <2>3. ~success' /\ pc' = "closing"
      BY <1>4 DEF ConnectFails, ResultInv
    <2> QED
      BY <2>1, <2>2, <2>3 DEF ResultInv, Classified, Transport!Failure
  <1>5. CASE MqttSucceeds
    BY <1>5 DEF MqttSucceeds, ResultInv, Classified, Transport!NoFailure
  <1>6. CASE MqttFails
    <2>1. PICK error \in MqttErrors, timed_out \in BOOLEAN :
             attempt' = MqttFailure(error, timed_out)
      BY <1>6 DEF MqttFails
    <2>2. error # "ok" /\ error # "timeout"
      BY DEF MqttErrors
    <2>3. ~success' /\ pc' = "close"
      BY <1>6 DEF MqttFails, ResultInv
    <2> QED
      BY <2>1, <2>2, <2>3 DEF ResultInv, Classified, MqttFailure
  <1>7. CASE Close \/ Closed
    BY <1>7 DEF Close, Closed, Transport!Close, Transport!Return, ResultInv, Classified
  <1>8. CASE UNCHANGED vars
    BY <1>8 DEF vars, campaign, ResultInv, Classified, Transport!NoFailure
  <1>9. CASE \/ PowerOn \/ WifiStarts \/ WifiWait \/ SyncStarts \/ SyncReturns \/ SetSystemTime
             \/ Boot \/ ReportMeasured \/ ReportWarmup \/ Cooldown \/ Summary \/ Hang \/ Reset
    <2>1. pc' \notin {"connect", "connecting", "mqtt", "close", "closing", "report"}
      BY <1>9 DEF PowerOn, WifiStarts, WifiWait, NextWifiAttempt, SyncStarts, SyncReturns,
         SetSystemTime, Boot, ReportMeasured, ReportWarmup, Cooldown, Summary, Hang, Reset
    <2> QED
      BY <2>1 DEF ResultInv
  <1> QED
    BY <1>1, <1>2, <1>3, <1>4, <1>5, <1>6, <1>7, <1>8, <1>9 DEF Next, Device

-----------------------------------------------------------------------------
(* Neighbouring lines. *)
AfterAttempt == {"begin", "cooldown", "summary", "done"}

(* RowPerAttempt, of any capture c and any position p of main. *)
Paired(c, p) ==
    \A k \in DOMAIN c :
        /\ c[k].type = "start" =>
              IF k = Len(c)
              THEN p \notin AfterAttempt
              ELSE \/ c[k + 1].type = "row" /\ c[k + 1].run = c[k].run
                   \/ c[k + 1].type = "header"
        /\ c[k].type = "row" =>
              k > 1 /\ c[k - 1].type = "start" /\ c[k - 1].run = c[k].run
        /\ c[k].type \in {"start", "row"} => c[k].dated

LEMMA RowPerAttemptIsPaired ==
    /\ RowPerAttempt <=> Paired(capture, pc)
    /\ RowPerAttempt' <=> Paired(capture', pc')
  BY DEF RowPerAttempt, Paired, AfterAttempt

LEMMA PairedStays ==
    ASSUME NEW c \in Seq(Line), NEW p, NEW q, Paired(c, p),
           q \in AfterAttempt => p \in AfterAttempt \/ Len(c) = 0 \/ c[Len(c)].type # "start"
    PROVE  Paired(c, q)
  BY LenProperties DEF Paired

(* No start is the last line between two attempts. *)
LEMMA NoneOpen ==
    ASSUME NEW c \in Seq(Line), NEW p \in AfterAttempt, Paired(c, p), Len(c) > 0
    PROVE  c[Len(c)].type # "start"
  <1>1. Len(c) \in DOMAIN c
    BY LenProperties
  <1> QED
    BY <1>1 DEF Paired

LEMMA PairedPrints ==
    ASSUME NEW c \in Seq(Line), NEW x \in Line, NEW p, NEW q, Paired(c, p),
           x.type = "start" => q \notin AfterAttempt,
           x.type = "row" => Len(c) > 0 /\ c[Len(c)].type = "start" /\ c[Len(c)].run = x.run,
           x.type \in {"start", "row"} => x.dated,
           Len(c) > 0 /\ c[Len(c)].type = "start" =>
              x.type = "header" \/ (x.type = "row" /\ x.run = c[Len(c)].run)
    PROVE  Paired(Append(c, x), q)
  <1> DEFINE d == Append(c, x)
  <1>1. /\ Len(d) = Len(c) + 1 /\ Len(c) \in Nat /\ DOMAIN d = 1 .. Len(c) + 1
        /\ DOMAIN c = 1 .. Len(c)
        /\ \A k \in 1 .. Len(c) : d[k] = c[k]
        /\ d[Len(c) + 1] = x
    BY OneMore
  <1> HIDE DEF d
  <1>2. ASSUME NEW k \in 1 .. Len(c)
        PROVE  /\ d[k].type = "start" =>
                     IF k = Len(d)
                     THEN q \notin AfterAttempt
                     ELSE \/ d[k + 1].type = "row" /\ d[k + 1].run = d[k].run
                          \/ d[k + 1].type = "header"
               /\ d[k].type = "row" =>
                     k > 1 /\ d[k - 1].type = "start" /\ d[k - 1].run = d[k].run
               /\ d[k].type \in {"start", "row"} => d[k].dated
    <2>1. d[k] = c[k] /\ k # Len(d)
      BY <1>1
    <2>2. k > 1 => d[k - 1] = c[k - 1]
      BY <1>1
    <2>3. k < Len(c) => d[k + 1] = c[k + 1]
      BY <1>1
    <2>4. k = Len(c) => d[k + 1] = x
      BY <1>1
    <2>5. /\ c[k].type = "start" /\ k # Len(c) =>
               \/ c[k + 1].type = "row" /\ c[k + 1].run = c[k].run
               \/ c[k + 1].type = "header"
          /\ c[k].type = "row" => k > 1 /\ c[k - 1].type = "start" /\ c[k - 1].run = c[k].run
          /\ c[k].type \in {"start", "row"} => c[k].dated
      BY <1>1 DEF Paired
    <2>6. c[k].type = "start" =>
               \/ d[k + 1].type = "row" /\ d[k + 1].run = c[k].run
               \/ d[k + 1].type = "header"
      <3>1. CASE k = Len(c)
        BY <1>1, <2>4, <3>1
      <3>2. CASE k # Len(c)
        <4>1. k < Len(c)
          BY <1>1, <3>2
        <4>2. d[k + 1] = c[k + 1]
          BY <2>3, <4>1
        <4> QED
          BY <2>5, <3>2, <4>2
      <3> QED
        BY <3>1, <3>2
    <2>7. c[k].type = "row" => k > 1 /\ d[k - 1].type = "start" /\ d[k - 1].run = c[k].run
      BY <2>2, <2>5
    <2> QED
      BY <2>1, <2>5, <2>6, <2>7
  <1>3. /\ d[Len(d)].type = "start" => q \notin AfterAttempt
        /\ d[Len(d)].type = "row" =>
              Len(d) > 1 /\ d[Len(d) - 1].type = "start" /\ d[Len(d) - 1].run = d[Len(d)].run
        /\ d[Len(d)].type \in {"start", "row"} => d[Len(d)].dated
    BY <1>1
  <1> QED
    <2>1. \A k \in DOMAIN d : k \in 1 .. Len(c) \/ k = Len(d)
      BY <1>1
    <2>2. Paired(d, q)
      BY <1>2, <1>3, <2>1 DEF Paired
    <2> QED
      BY <2>2 DEF d

-----------------------------------------------------------------------------
(* The loops. *)
Startup == \/ PowerOn \/ WifiStarts \/ WifiWait \/ SyncStarts \/ SyncReturns \/ SetSystemTime

LEMMA StartupEnds ==
    ASSUME Startup
    PROVE  /\ UNCHANGED campaign /\ pc' \notin Running
           /\ pc' = "boot" => clock'
           /\ pc' \notin {"connect", "connecting", "mqtt", "close", "closing", "report"}
  BY DEF Startup, PowerOn, WifiStarts, WifiWait, NextWifiAttempt, SyncStarts, SyncReturns, Synced,
     SetSystemTime, startup, Running

(* The steps of an attempt between its start and its row. *)
Inside == Connect \/ Connected \/ ConnectFails \/ MqttSucceeds \/ MqttFails \/ Close \/ Closed

LEMMA InsideIs ==
    ASSUME Inside
    PROVE  /\ pc \in InAttempt \ {"report"} /\ pc' \in InAttempt \ {"connect"}
           /\ UNCHANGED <<startup, i, warmup, tallies, capture, resets>>
  BY DEF Inside, Connect, Connected, ConnectFails, MqttSucceeds, MqttFails, Close, Closed, InAttempt

LEMMA LoopStep == ASSUME TypeOK, LoopInv, [Next]_vars PROVE LoopInv'
  <1>0. Iters \in Nat \ {0}
    BY BenchCampaignAssumption
  <1>1. CASE Startup
    BY <1>1, StartupEnds DEF LoopInv, InAttempt, Running
  <1>2. CASE Boot
    <2>1. /\ Len(capture') = Len(capture) + 1 /\ Len(capture) \in Nat
          /\ capture'[Len(capture')].type = "header"
      BY <1>2, Lines, OneMore DEF Boot, Printed, TypeOK
    <2>2. clock' /\ i' = 0 /\ pc' = "begin"
      BY <1>2 DEF Boot, startup, LoopInv
    <2> QED
      BY <1>0, <2>1, <2>2 DEF LoopInv, InAttempt, Running
  <1>3. CASE Begin
    <2>1. pc = "begin" /\ pc' = "connect" /\ i' = i /\ warmup' = warmup /\ clock' = clock
      BY <1>3 DEF Begin, startup
    <2>2. CASE warmup
      <3>1. capture' = capture
        BY <1>3, <2>2 DEF Begin, PrintsStart
      <3> QED
        BY <2>1, <2>2, <3>1 DEF LoopInv, InAttempt, Running
    <2>3. CASE ~warmup
      <3>1. capture' = Append(capture, Start)
        BY <1>3, <2>3 DEF Begin, PrintsStart, Printed
      <3>2. /\ Len(capture') = Len(capture) + 1 /\ Len(capture) \in Nat
            /\ capture'[Len(capture')].type = "start" /\ capture'[Len(capture')].run = i
        BY <3>1, Lines, OneMore DEF TypeOK
      <3> QED
        BY <2>1, <2>3, <3>2 DEF LoopInv, InAttempt, Running
    <2> QED
      BY <2>2, <2>3
  <1>4. CASE Inside
    BY <1>4, InsideIs DEF LoopInv, InAttempt, Running, startup
  <1>5. CASE ReportMeasured
    BY <1>5 DEF ReportMeasured, LoopInv, InAttempt, Running, startup
  <1>6. CASE ReportWarmup
    BY <1>6 DEF ReportWarmup, LoopInv, InAttempt, Running, startup
  <1>7. CASE Cooldown
    <2>1. /\ pc = "cooldown" /\ clock' = clock /\ capture' = capture
          /\ pc' = IF ~warmup /\ i' = Iters THEN "summary" ELSE "begin"
      BY <1>7 DEF Cooldown, startup
    <2>2. CASE warmup
      <3>1. pc' = "begin" /\ (warmup' \/ (~warmup' /\ i' = 0))
        BY <1>7, <2>1, <2>2 DEF Cooldown
      <3> QED
        BY <1>0, <2>1, <2>2, <3>1 DEF LoopInv, InAttempt, Running
    <2>3. CASE ~warmup
      <3>1. ~warmup' /\ i' = i + 1 /\ i < Iters /\ i \in Nat
        BY <1>7, <2>1, <2>3 DEF Cooldown, Following, LoopInv, Running, TypeOK
      <3> QED
        BY <1>0, <2>1, <2>3, <3>1 DEF LoopInv, InAttempt, Running
    <2> QED
      BY <2>2, <2>3
  <1>8. CASE Summary
    BY <1>8 DEF Summary, LoopInv, InAttempt, Running, startup
  <1>9. CASE Hang \/ Reset
    BY <1>9 DEF Hang, Reset, LoopInv, InAttempt, Running, startup
  <1>10. CASE UNCHANGED vars
    BY <1>10 DEF vars, startup, campaign, LoopInv, InAttempt, Running
  <1> QED
    BY <1>1, <1>2, <1>3, <1>4, <1>5, <1>6, <1>7, <1>8, <1>9, <1>10 DEF Next, Device, Startup, Inside

-----------------------------------------------------------------------------
(* The lines. *)
LEMMA PairsStep == ASSUME TypeOK, LoopInv, RowPerAttempt, [Next]_vars PROVE RowPerAttempt'
  <1> SUFFICES Paired(capture', pc')
    BY RowPerAttemptIsPaired
  <1>0. Paired(capture, pc) /\ capture \in Seq(Line)
    BY RowPerAttemptIsPaired DEF TypeOK
  <1>1. CASE Startup
    BY <1>0, <1>1, StartupEnds, PairedStays DEF campaign, AfterAttempt, Running
  <1>2. CASE Boot
    <2>1. capture' = Append(capture, Header) /\ pc' = "begin"
      BY <1>2 DEF Boot, Printed
    <2> QED
      BY <1>0, <2>1, Lines, PairedPrints
  <1>3. CASE Begin
    <2>1. pc \in AfterAttempt /\ pc' = "connect"
      BY <1>3 DEF Begin, AfterAttempt
    <2>2. CASE capture' = capture
      BY <1>0, <2>1, <2>2, PairedStays
    <2>3. CASE capture' = Append(capture, Start)
      <3>1. Start.dated /\ pc' \notin AfterAttempt
        BY <1>3, <2>1, Lines DEF LoopInv, Begin, Running, AfterAttempt
      <3>2. Len(capture) > 0 => capture[Len(capture)].type # "start"
        BY <1>0, <2>1, NoneOpen
      <3> QED
        BY <1>0, <2>3, <3>1, <3>2, Lines, PairedPrints
    <2> QED
      BY <1>3, <2>2, <2>3 DEF Begin, Printed
  <1>4. CASE Inside
    BY <1>0, <1>4, InsideIs, PairedStays DEF AfterAttempt, InAttempt
  <1>5. ASSUME pc = "report", ~warmup, NEW fields \in 0 .. RowFields,
               capture' = Append(capture, Row(fields))
        PROVE  Paired(capture', pc')
    <2>1. /\ Len(capture) > 0
          /\ capture[Len(capture)].type = "start" /\ capture[Len(capture)].run = i
          /\ clock
      BY <1>5 DEF LoopInv, InAttempt, Running
    <2> QED
      BY <1>0, <1>5, <2>1, RowLine, PairedPrints
  <1>6. CASE ReportMeasured
    BY <1>5, <1>6 DEF ReportMeasured, Printed, RowFields
  <1>7. CASE ReportWarmup
    <2>1. capture[Len(capture)].type = "header" /\ capture' = capture
      BY <1>7 DEF ReportWarmup, LoopInv, Running
    <2> QED
      BY <1>0, <2>1, PairedStays
  <1>8. CASE Cooldown
    BY <1>0, <1>8, PairedStays DEF Cooldown, AfterAttempt
  <1>9. CASE Summary
    <2>1. capture' = Append(capture, Closing) /\ pc \in AfterAttempt
      BY <1>9 DEF Summary, Printed, Closing, AfterAttempt
    <2>2. Len(capture) > 0 => capture[Len(capture)].type # "start"
      BY <1>0, <2>1, NoneOpen
    <2> QED
      BY <1>0, <2>1, <2>2, Lines, PairedPrints
  <1>10. CASE Hang
    BY <1>0, <1>10, PairedStays DEF Hang, AfterAttempt
  <1>11. CASE Reset
    <2>1. CASE capture' = capture
      BY <1>0, <1>11, <2>1, PairedStays DEF Reset, AfterAttempt
    <2>2. CASE pc = "report" /\ ~warmup /\ \E fields \in Cuts : capture' = Append(capture, Row(fields))
      <3>1. Cuts \subseteq 0 .. RowFields
        BY BenchCampaignAssumption DEF RowFields
      <3> QED
        BY <1>5, <2>2, <3>1
    <2> QED
      BY <1>11, <2>1, <2>2 DEF Reset, Printed
  <1>12. CASE UNCHANGED vars
    BY <1>0, <1>12 DEF vars, campaign
  <1> QED
    BY <1>1, <1>2, <1>3, <1>4, <1>6, <1>7, <1>8, <1>9, <1>10, <1>11, <1>12
       DEF Next, Device, Startup, Inside

(* RowClassified, of any capture c. *)
RowsClassified(c) ==
    \A k \in DOMAIN c :
        c[k].type = "row" => Classified(c[k].success, c[k].stage, c[k].error, c[k].timeout)

LEMMA RowClassifiedIs ==
    /\ RowClassified <=> RowsClassified(capture)
    /\ RowClassified' <=> RowsClassified(capture')
  BY DEF RowClassified, RowsClassified, Classified

LEMMA ClassifiedPrints ==
    ASSUME NEW c \in Seq(Line), NEW x \in Line, RowsClassified(c),
           x.type = "row" => Classified(x.success, x.stage, x.error, x.timeout)
    PROVE  RowsClassified(Append(c, x))
  BY OneMore DEF RowsClassified

LEMMA ClassifiedStep == ASSUME TypeOK, ResultInv, RowClassified, [Next]_vars PROVE RowClassified'
  <1> SUFFICES RowsClassified(capture')
    BY RowClassifiedIs
  <1>0. RowsClassified(capture) /\ capture \in Seq(Line)
    BY RowClassifiedIs DEF TypeOK
  <1>1. ASSUME pc = "report", NEW fields \in 0 .. RowFields, capture' = Append(capture, Row(fields))
        PROVE  RowsClassified(capture')
    <2>1. Classified(success, attempt.stage, attempt.error, attempt.timed_out)
      BY <1>1 DEF ResultInv
    <2> QED
      BY <1>0, <1>1, <2>1, RowLine, ClassifiedPrints
  <1>2. CASE Boot \/ Begin \/ Summary
    <2>1. \/ capture' = capture \/ capture' = Append(capture, Header)
          \/ capture' = Append(capture, Start) \/ capture' = Append(capture, Closing)
      BY <1>2 DEF Boot, Begin, Summary, Printed, Closing
    <2> QED
      BY <1>0, <2>1, Lines, ClassifiedPrints
  <1>3. CASE ReportMeasured
    BY <1>1, <1>3 DEF ReportMeasured, Printed, RowFields
  <1>4. CASE Reset
    <2>1. Cuts \subseteq 0 .. RowFields
      BY BenchCampaignAssumption DEF RowFields
    <2> QED
      BY <1>0, <1>1, <1>4, <2>1 DEF Reset, Printed
  <1>5. CASE Startup \/ Inside
    BY <1>0, <1>5, StartupEnds, InsideIs DEF campaign
  <1>6. CASE ReportWarmup \/ Cooldown \/ Hang \/ UNCHANGED vars
    BY <1>0, <1>6 DEF ReportWarmup, Cooldown, Hang, vars, campaign
  <1> QED
    BY <1>2, <1>3, <1>4, <1>5, <1>6 DEF Next, Device, Startup, Inside
-----------------------------------------------------------------------------
(* The boot. *)
LEMMA BootLinesPrints ==
    ASSUME NEW s \in Seq(Line), NEW x \in Line, BootLines(s), x.type # "header",
           x.type = "row" => x.fields = RowFields
    PROVE  BootLines(Append(s, x))
  BY OneMore DEF BootLines

LEMMA SameCapture == capture' = capture => ThisBoot' = ThisBoot /\ Boots' = Boots
  BY DEF ThisBoot, Boots

LEMMA BootUnchanged ==
    ASSUME BootInv, pc \in Running, UNCHANGED <<capture, successes, failures, samples>>, Done' = Done
    PROVE  BootInv'
  BY SameCapture DEF BootInv, LastHeader

LEMMA BootPrints ==
    ASSUME TypeOK, BootInv, pc \in Running, NEW x \in Line, x.type \notin {"header", "row"},
           capture' = Append(capture, x), UNCHANGED <<successes, failures, samples>>, Done' = Done
    PROVE  BootInv'
  <1>1. /\ (\E b \in Boots : LastHeader(b))'
        /\ ThisBoot \in Seq(Line)
        /\ ThisBoot' = Append(ThisBoot, x)
    BY Goes DEF TypeOK, BootInv
  <1>2. BootLines(Append(ThisBoot, x))
    BY <1>1, BootLinesPrints DEF BootInv
  <1>3. Counts(Append(ThisBoot, x), Done, successes, failures, samples)
    BY <1>1, CountOther DEF BootInv
  <1> QED
    BY <1>1, <1>2, <1>3 DEF BootInv

LEMMA BootBoots ==
    ASSUME TypeOK, Boot
    PROVE  BootInv'
  <1> DEFINE b == Len(capture) + 1
  <1>1. /\ capture' = Append(capture, Header) /\ capture' \in Seq(Line)
        /\ Len(capture') = b /\ DOMAIN capture' = 1 .. b /\ b \in Nat \ {0}
        /\ capture'[b] = Header /\ Header.type = "header"
    BY Lines, OneMore DEF Boot, Printed, TypeOK
  <1> HIDE DEF b
  <1>2. Latest(capture', b)
    BY <1>1 DEF Latest
  <1>3. (\E j \in Boots : LastHeader(j))'
    BY <1>2 DEF LastHeader, Boots, Latest
  <1>4. ThisBoot' = SubSeq(capture', b, b)
    BY <1>1, <1>2, BootBeginsNext
  <1>5. ThisBoot' \in Seq(Line) /\ Len(ThisBoot') = 1 /\ ThisBoot'[1] = Header
    BY <1>1, <1>4, SubSeqProperties
  <1>6. BootLines(ThisBoot')
    BY <1>1, <1>5 DEF BootLines
  <1>7. RowsOf(ThisBoot') = {} /\ GoodOf(ThisBoot') = {}
    BY <1>1, <1>5, LenProperties DEF RowsOf, GoodOf
  <1>8. Done' = 0
    BY DEF Boot, Done
  <1>9. Counts(ThisBoot', 0, 0, 0, samples')
    BY <1>7, FS_EmptySet DEF Counts
  <1> QED
    BY <1>3, <1>6, <1>8, <1>9 DEF BootInv, Boot

LEMMA BootRow ==
    ASSUME TypeOK, LoopInv, BootInv, ReportMeasured
    PROVE  BootInv'
  <1> DEFINE x == Row(RowFields)
  <1>1. /\ x \in Line /\ x.type = "row" /\ x.run = i /\ x.success = success
        /\ x.fields = RowFields /\ capture' = Append(capture, x)
    BY RowLine DEF RowFields, ReportMeasured, Printed
  <1>2. /\ pc = "report" /\ pc' = "cooldown" /\ ~warmup /\ ~warmup' /\ i' = i /\ pc \in Running
    BY DEF ReportMeasured, Running
  <1> HIDE DEF x
  <1>3. /\ i \in Nat /\ i < Iters /\ Iters \in Nat /\ success \in BOOLEAN
        /\ successes \in Nat /\ failures \in Nat /\ samples \in [0 .. Iters - 1 -> Int]
    BY <1>2, BenchCampaignAssumption DEF LoopInv, Running, TypeOK
  <1>4. Done = i /\ Done' = i + 1
    BY <1>2 DEF Done
  <1>5. /\ (\E b \in Boots : LastHeader(b))'
        /\ ThisBoot \in Seq(Line)
        /\ ThisBoot' = Append(ThisBoot, x)
    BY <1>1, <1>2, Goes DEF TypeOK, BootInv
  <1>6. BootLines(Append(ThisBoot, x))
    BY <1>1, <1>2, <1>5, BootLinesPrints DEF BootInv
  <1>7. Counts(ThisBoot, i, successes, failures, samples)
    BY <1>2, <1>4 DEF BootInv
  <1>8. CASE success
    <2>1. successes \in 0 .. Iters - 1
      BY <1>3, <1>7 DEF Counts
    <2>2. Counts(Append(ThisBoot, x), i + 1, successes + 1, failures, [samples EXCEPT ![successes] = i])
      BY <1>1, <1>3, <1>5, <1>7, <1>8, <2>1, CountSuccess
    <2>3. /\ successes' = successes + 1 /\ failures' = failures
          /\ samples' = [samples EXCEPT ![successes] = i]
      BY <1>8 DEF ReportMeasured, Tally, Counted, Slot
    <2> QED
      BY <1>4, <1>5, <1>6, <2>2, <2>3 DEF BootInv
  <1>9. CASE ~success
    <2>1. Counts(Append(ThisBoot, x), i + 1, successes, failures + 1, samples)
      BY <1>1, <1>3, <1>5, <1>7, <1>9, CountFailure
    <2>2. successes' = successes /\ failures' = failures + 1 /\ samples' = samples
      BY <1>9 DEF ReportMeasured, Tally, Counted
    <2> QED
      BY <1>4, <1>5, <1>6, <2>1, <2>2 DEF BootInv
  <1> QED
    BY <1>3, <1>8, <1>9

LEMMA BootStep == ASSUME TypeOK, LoopInv, BootInv, [Next]_vars PROVE BootInv'
  <1>1. CASE Startup \/ Hang \/ Reset
    <2>1. pc' \notin Running
      BY <1>1, StartupEnds DEF Hang, Reset, Running
    <2> QED
      BY <2>1 DEF BootInv
  <1>2. CASE Boot
    BY <1>2, BootBoots
  <1>3. CASE Begin
    <2>1. /\ pc \in Running /\ UNCHANGED <<successes, failures, samples>>
          /\ pc = "begin" /\ pc' = "connect" /\ UNCHANGED <<i, warmup>>
          /\ capture' = capture \/ capture' = Append(capture, Start)
      BY <1>3 DEF Begin, Printed, tallies, Running
    <2>2. Done' = Done
      BY <2>1 DEF Done
    <2> QED
      BY <2>1, <2>2, Lines, BootUnchanged, BootPrints
  <1>4. CASE Inside
    <2>1. /\ pc \in Running /\ pc # "cooldown" /\ pc' # "cooldown"
          /\ UNCHANGED <<i, warmup, successes, failures, samples, capture>>
      BY <1>4, InsideIs DEF tallies, Running, InAttempt
    <2>2. Done' = Done
      BY <2>1 DEF Done
    <2> QED
      BY <2>1, <2>2, BootUnchanged
  <1>5. CASE ReportMeasured
    BY <1>5, BootRow
  <1>6. CASE ReportWarmup
    <2>1. /\ pc \in Running /\ UNCHANGED <<successes, failures, samples, capture>>
          /\ warmup /\ warmup'
      BY <1>6 DEF ReportWarmup, Running
    <2>2. Done' = Done
      BY <2>1 DEF Done
    <2> QED
      BY <2>1, <2>2, BootUnchanged
  <1>7. CASE Cooldown
    <2>1. /\ pc = "cooldown" /\ pc \in Running /\ pc' # "cooldown"
          /\ UNCHANGED <<successes, failures, samples, capture>>
      BY <1>7 DEF Cooldown, Running, tallies
    <2>2. Done' = Done
      BY <1>7, <2>1 DEF Cooldown, Following, Done
    <2> QED
      BY <2>1, <2>2, BootUnchanged
  <1>8. CASE Summary
    <2>1. /\ pc \in Running /\ UNCHANGED <<successes, failures, samples>>
          /\ pc = "summary" /\ pc' = "done" /\ UNCHANGED <<i, warmup>>
          /\ capture' = Append(capture, Closing)
      BY <1>8 DEF Summary, Printed, Closing, tallies, Running
    <2>2. Done' = Done
      BY <2>1 DEF Done
    <2> QED
      BY <2>1, <2>2, Lines, BootPrints
  <1>9. CASE UNCHANGED vars
    <2>1. UNCHANGED <<pc, i, warmup, successes, failures, samples, capture>>
      BY <1>9 DEF vars, campaign, tallies
    <2>2. Done' = Done
      BY <2>1 DEF Done
    <2> QED
      BY <2>1, <2>2, BootUnchanged DEF BootInv
  <1> QED
    BY <1>1, <1>2, <1>3, <1>4, <1>5, <1>6, <1>7, <1>8, <1>9 DEF Next, Device, Startup, Inside

-----------------------------------------------------------------------------
(* What the host makes of the lines of a boot. *)
LEMMA SameNumber ==
    ASSUME NEW S, IsFiniteSet(S), NEW T, NEW f, f \in [S -> T],
           \A x, y \in S : f[x] = f[y] => x = y,
           \A z \in T : \E x \in S : f[x] = z
    PROVE  Cardinality(T) = Cardinality(S)
  <1>1. f \in Bijection(S, T)
    BY DEF Bijection, Injection, Surjection, IsInjective
  <1>2. ExistsBijection(S, T)
    BY <1>1 DEF ExistsBijection
  <1> QED
    BY <1>2, FS_Bijection

LEMMA HostReads ==
    ASSUME NEW s \in Seq(Line), BootLines(s)
    PROVE  parse(s) = {CurrentRow(s[k], k) : k \in RowsOf(s)}
  <1>0. DOMAIN s = 1 .. Len(s) /\ Len(s) \in Nat /\ Len(s) > 0
    BY LenProperties DEF BootLines
  <1>1. \A k \in RowsOf(s) : s[k].fields = RowFields /\ s[k].fields # 13 /\ k \in 2 .. Len(s)
    BY <1>0 DEF RowsOf, BootLines, RowFields
  <1>2. \A k \in RowsOf(s) : HeaderSeen(s, k)
    <2> SUFFICES ASSUME NEW k \in RowsOf(s) PROVE \E j \in 1 .. k - 1 : s[j].type = "header"
      BY DEF HeaderSeen
    <2>1. 1 \in 1 .. k - 1 /\ s[1].type = "header"
      BY <1>0, <1>1 DEF BootLines
    <2> QED
      BY <2>1
  <1>3. {j \in RowsOf(s) : s[j].fields = RowFields /\ HeaderSeen(s, j)} = RowsOf(s)
    BY <1>1, <1>2
  <1>4. {j \in RowsOf(s) : s[j].fields = 13} = {}
    BY <1>1
  <1> QED
    BY <1>3, <1>4 DEF parse, RowsOf

LEMMA HostCounts ==
    ASSUME NEW s \in Seq(Line), BootLines(s)
    PROVE  LET host == summarize(s)
           IN  /\ host.attempted = Cardinality(RowsOf(s))
               /\ host.successful = Cardinality(GoodOf(s))
               /\ host.failures = Cardinality(RowsOf(s)) - Cardinality(GoodOf(s))
  <1> DEFINE good == {row \in parse(s) : row.success}
             F(S) == [k \in S |-> CurrentRow(s[k], k)]
  <1>1. parse(s) = {CurrentRow(s[k], k) : k \in RowsOf(s)}
    BY HostReads
  <1>2. GoodOf(s) \subseteq RowsOf(s) /\ \A k \in RowsOf(s) : k \in GoodOf(s) <=> s[k].success
    BY DEF GoodOf, RowsOf
  <1>3. \A k : CurrentRow(s[k], k).at = k /\ CurrentRow(s[k], k).success = s[k].success
    BY DEF CurrentRow
  <1>4. good = {CurrentRow(s[k], k) : k \in GoodOf(s)}
    BY <1>1, <1>2, <1>3
  <1>5. Cardinality(parse(s)) = Cardinality(RowsOf(s))
    <2>1. F(RowsOf(s)) \in [RowsOf(s) -> parse(s)]
      BY <1>1
    <2>2. \A x, y \in RowsOf(s) : F(RowsOf(s))[x] = F(RowsOf(s))[y] => x = y
      BY <1>3
    <2>3. \A z \in parse(s) : \E x \in RowsOf(s) : F(RowsOf(s))[x] = z
      BY <1>1
    <2> HIDE DEF F
    <2> QED
      BY <2>1, <2>2, <2>3, Countable, SameNumber
  <1>6. Cardinality(good) = Cardinality(GoodOf(s))
    <2>1. F(GoodOf(s)) \in [GoodOf(s) -> good]
      BY <1>4
    <2>2. \A x, y \in GoodOf(s) : F(GoodOf(s))[x] = F(GoodOf(s))[y] => x = y
      BY <1>3
    <2>3. \A z \in good : \E x \in GoodOf(s) : F(GoodOf(s))[x] = z
      BY <1>4
    <2> HIDE DEF F, good
    <2> QED
      BY <2>1, <2>2, <2>3, Countable, SameNumber
  <1> QED
    BY <1>5, <1>6 DEF summarize

LEMMA HostMissesNone ==
    ASSUME TypeOK, BootInv, RowPerAttempt, pc = "done"
    PROVE  incomplete_attempts(ThisBoot) = {}
  <1>1. PICK b : Latest(capture, b)
    BY LatestIsLast DEF BootInv, Running
  <1>2. b \in 1 .. Len(capture) /\ capture \in Seq(Line) /\ Len(capture) \in Nat
    BY <1>1, LenProperties DEF Latest, TypeOK
  <1> DEFINE s == ThisBoot
  <1>3. s = SubSeq(capture, b, Len(capture))
    BY <1>1, <1>2, BootBegins
  <1>4. /\ s \in Seq(Line) /\ Len(s) = Len(capture) - b + 1 /\ DOMAIN s = 1 .. Len(s)
        /\ \A k \in 1 .. Len(s) : s[k] = capture[b + k - 1]
    BY <1>2, <1>3, SubSeqProperties, LenProperties
  <1>5. BootLines(s)
    BY DEF BootInv, Running
  <1> HIDE DEF s
  <1>6. ASSUME NEW k \in DOMAIN s, s[k].type = "start"
        PROVE  \E row \in parse(s) : ~row.legacy /\ row.run = s[k].run
    <2> DEFINE j == b + k - 1
    <2>1. j \in 1 .. Len(capture) /\ capture[j] = s[k] /\ k \in 1 .. Len(s)
      BY <1>2, <1>4
    <2>2. /\ j # Len(capture)
          /\ \/ capture[j + 1].type = "row" /\ capture[j + 1].run = capture[j].run
             \/ capture[j + 1].type = "header"
      BY <1>2, <1>6, <2>1, LenProperties DEF RowPerAttempt
    <2>3. j + 1 \in 1 .. Len(capture) /\ j + 1 > b
      BY <1>2, <2>1, <2>2
    <2>4. capture[j + 1].type # "header"
      BY <1>1, <1>2, <2>3, LenProperties DEF Latest
    <2>5. k + 1 \in 1 .. Len(s) /\ s[k + 1] = capture[j + 1]
      BY <1>2, <1>4, <2>1, <2>2
    <2>6. k + 1 \in RowsOf(s) /\ s[k + 1].run = s[k].run
      BY <1>4, <2>1, <2>2, <2>4, <2>5 DEF RowsOf
    <2>7. CurrentRow(s[k + 1], k + 1) \in parse(s)
      BY <1>4, <1>5, <2>6, HostReads
    <2> QED
      BY <2>6, <2>7 DEF CurrentRow
  <1>7. incomplete_attempts(s) = {}
    BY <1>6 DEF incomplete_attempts
  <1> QED
    BY <1>7 DEF s
-----------------------------------------------------------------------------
LEMMA InitInv == Init => IInv
  <1> SUFFICES ASSUME Init PROVE IInv
    OBVIOUS
  <1>1. pc = "off" /\ capture = <<>>
    BY DEF Init
  <1>2. LoopInv /\ ResultInv /\ BootInv
    BY <1>1 DEF LoopInv, ResultInv, BootInv, InAttempt, Running
  <1>3. RowPerAttempt /\ RowClassified
    BY <1>1 DEF RowPerAttempt, RowClassified
  <1> QED
    BY <1>2, <1>3, TypeInit DEF IInv

LEMMA NextInv == IInv /\ [Next]_vars => IInv'
  BY TypeStep, ResultStep, LoopStep, PairsStep, ClassifiedStep, BootStep DEF IInv

LEMMA Inductive == Spec => []IInv
  BY InitInv, NextInv, PTL DEF Spec

(* Every variable has its type; the lines of the capture are of the four kinds. *)
THEOREM TypeCorrect == Spec => []TypeOK
  <1>1. IInv => TypeOK
    BY DEF IInv
  <1> QED
    BY <1>1, Inductive, PTL

(* A start is followed by the row of its run, and a row comes after its start, however the
   attempts end, wherever the board hangs or is reset, and wherever a row is cut. *)
THEOREM RowsPaired == Spec => []RowPerAttempt
  <1>1. IInv => RowPerAttempt
    BY DEF IInv
  <1> QED
    BY <1>1, Inductive, PTL

(* A row says success, an error and a timeout that go with each other. *)
THEOREM RowsClassify == Spec => []RowClassified
  <1>1. IInv => RowClassified
    BY DEF IInv
  <1> QED
    BY <1>1, Inductive, PTL

(* The counts of a boot that got to its end are those the host finds in its lines. *)
THEOREM CountsAgree == Spec => []DeviceAgreesWithHost
  <1>1. ASSUME IInv PROVE DeviceAgreesWithHost
    <2> SUFFICES ASSUME pc = "done"
                 PROVE  LET host == summarize(ThisBoot) IN
                        /\ host.attempted = Iters
                        /\ host.successful = successes /\ host.failures = failures
                        /\ incomplete_attempts(ThisBoot) = {}
      BY DEF DeviceAgreesWithHost
    <2>1. /\ \E b : Latest(capture, b)
          /\ BootLines(ThisBoot) /\ Counts(ThisBoot, Done, successes, failures, samples)
          /\ capture \in Seq(Line) /\ successes \in Nat /\ failures \in Nat
      BY <1>1, LatestIsLast DEF IInv, BootInv, Running, TypeOK
    <2>2. ThisBoot \in Seq(Line)
      <3>1. PICK b : Latest(capture, b)
        BY <2>1
      <3>2. b \in 1 .. Len(capture) /\ Len(capture) \in Nat
        BY <2>1, <3>1, LenProperties DEF Latest
      <3>3. ThisBoot = SubSeq(capture, b, Len(capture))
        BY <2>1, <3>1, BootBegins
      <3>4. SubSeq(capture, b, Len(capture)) \in Seq(Line)
        BY <2>1, <3>2, BootTail, Lines, <1>1 DEF IInv
      <3> QED
        BY <3>3, <3>4
    <2>3. Done = Iters
      BY <1>1 DEF IInv, LoopInv, Done
    <2>4. /\ Cardinality(RowsOf(ThisBoot)) = Iters /\ successes + failures = Iters
          /\ Cardinality(GoodOf(ThisBoot)) = successes
      BY <2>1, <2>3 DEF Counts
    <2>5. Iters - successes = failures
      BY <2>1, <2>4
    <2>6. incomplete_attempts(ThisBoot) = {}
      BY <1>1, HostMissesNone DEF IInv
    <2> QED
      BY <2>1, <2>2, <2>4, <2>5, <2>6, HostCounts
  <1> QED
    BY <1>1, Inductive, PTL

(* The slots of the array the device sums up are those of the successful rows of its boot. *)
THEOREM SamplesMatchRows == Spec => []SamplesAreSuccesses
  <1>1. ASSUME IInv PROVE SamplesAreSuccesses
    <2> SUFFICES ASSUME pc \in AfterAttempt PROVE SamplesAreSuccesses
      BY DEF SamplesAreSuccesses, AfterAttempt
    <2>1. Counts(ThisBoot, Done, successes, failures, samples)
      BY <1>1 DEF IInv, BootInv, Running, AfterAttempt
    <2> QED
      BY <2>1 DEF SamplesAreSuccesses, Counts, GoodOf, Before
  <1> QED
    BY <1>1, Inductive, PTL
=============================================================================
