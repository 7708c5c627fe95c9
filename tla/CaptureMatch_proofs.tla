------------------------- MODULE CaptureMatch_proofs -------------------------
(***************************************************************************)
(* Proofs about CaptureMatch for every campaign, window and clock: attempts *)
(* that are far enough apart get their own streams; and about Statistics:   *)
(* the two ways to interpolate a quantile are one.                          *)
(***************************************************************************)
EXTENDS CaptureMatch, DataFacts

Row == [run : Nat, tcp_start : Int, at : Nat, success : BOOLEAN, total : Nat]
Stream == [start : Nat, own : Nat]

Constants == /\ Iters \in Nat \ {0} /\ Warmup \in Nat
             /\ Second \in Nat \ {0} /\ Window \in Nat /\ Cooldown \in Nat
             /\ Durations \subseteq Nat /\ SynDelays \subseteq Nat /\ MaxSettings \in Nat

LEMMA ConstantsHold == Constants
  BY CampaignAssumption DEF Constants

-----------------------------------------------------------------------------
(* The campaign: the rows have the runs 0, 1, ..., an attempt is stamped at
   most a second early, and a stream is of an attempt that was. *)
Position == /\ now >= Second
            /\ warmup => rows = <<>>
            /\ ~warmup /\ pc \in {"begin", "connecting"} => Len(rows) = i
            /\ ~warmup /\ pc = "cooldown" => Len(rows) = i + 1

Early(stamp, time) == time < stamp + Second /\ stamp <= time

Stamps == /\ \A r \in 1..Len(rows) : /\ rows[r].run = r - 1
                                     /\ rows[r].tcp_start > 0 => Early(rows[r].tcp_start, rows[r].at)
          /\ pc = "connecting" => tcp_start > 0 /\ Early(tcp_start, now)

Owners == /\ \A k \in 1..Len(streams) :
                streams[k].own # 0 => /\ streams[k].own \in 1..Len(rows)
                                      /\ rows[streams[k].own].tcp_start > 0
                                      /\ rows[streams[k].own].at <= streams[k].start
          /\ \A j, k \in 1..Len(streams) :
                streams[j].own # 0 /\ streams[j].own = streams[k].own => j = k

CampaignInv == TypeOK /\ Position /\ Stamps /\ Owners

(* The matching: of streams that are far enough from other attempts, each is
   matched to its own attempt or to none, to none only if it began late, and
   those that are left find their attempts unused. *)
Prompt(k, r) == streams[k].start + Second <= rows[r].at + Window + 1

Found == /\ Len(match) = next - 1 /\ next <= Len(streams) + 1
         /\ unused \subseteq candidates
         /\ Separated =>
               /\ \A k \in 1..Len(match) :
                     \/ match[k] = -1
                     \/ streams[k].own # 0 /\ match[k] = streams[k].own - 1
               /\ \A k \in 1..Len(match) :
                     streams[k].own # 0 /\ Prompt(k, streams[k].own) => match[k] = streams[k].own - 1
               /\ \A k \in next..Len(streams) : streams[k].own # 0 => streams[k].own \in unused

MatchInv == /\ pc \notin {"match", "done"} => next = 1 /\ unused = {} /\ match = <<>>
            /\ pc \in {"match", "done"} => Found
            /\ pc = "done" => next > Len(streams)

IInv == CampaignInv /\ MatchInv

LEMMA InitInv == Init => IInv
  <1> SUFFICES ASSUME Init PROVE IInv
    OBVIOUS
  <1> USE ConstantsHold DEF Init, Constants
  <1>1. TypeOK
    <2>1. /\ samples \in Seq(Nat) /\ rows \in Seq(Row) /\ streams \in Seq(Stream) /\ match \in Seq(Int)
      BY EmptySeq
    <2> QED
      BY <2>1 DEF TypeOK, Row, Stream
  <1>2. Position /\ Stamps /\ Owners
    BY DEF Position, Stamps, Owners
  <1> QED
    BY <1>1, <1>2 DEF IInv, CampaignInv, MatchInv

(* The types of the record's rows and of the capture's streams. *)
LEMMA Types ==
    ASSUME TypeOK
    PROVE  /\ rows \in Seq(Row) /\ Len(rows) \in Nat /\ DOMAIN rows = 1..Len(rows)
           /\ \A r \in 1..Len(rows) : rows[r].tcp_start \in Int /\ rows[r].at \in Nat
           /\ streams \in Seq(Stream) /\ Len(streams) \in Nat /\ DOMAIN streams = 1..Len(streams)
           /\ \A k \in 1..Len(streams) : streams[k].start \in Nat /\ streams[k].own \in Nat
  <1>1. rows \in Seq(Row) /\ streams \in Seq(Stream)
    BY DEF TypeOK, Row, Stream
  <1>2. /\ Len(rows) \in Nat /\ DOMAIN rows = 1..Len(rows)
        /\ Len(streams) \in Nat /\ DOMAIN streams = 1..Len(streams)
    BY <1>1
  <1>3. ASSUME NEW r \in 1..Len(rows) PROVE rows[r].tcp_start \in Int /\ rows[r].at \in Nat
    <2>1. rows[r] \in Row
      BY <1>1, ElementOfSeq
    <2> QED
      BY <2>1 DEF Row
  <1>4. ASSUME NEW k \in 1..Len(streams) PROVE streams[k].start \in Nat /\ streams[k].own \in Nat
    <2>1. streams[k] \in Stream
      BY <1>1, ElementOfSeq
    <2> QED
      BY <2>1 DEF Stream
  <1> QED
    BY <1>1, <1>2, <1>3, <1>4

(* What an attempt's row does to the record. *)
LEMMA RecordStep ==
    ASSUME CampaignInv, pc \in {"begin", "connecting"},
           NEW success \in BOOLEAN, NEW total \in Nat, NEW stamp \in Int,
           Record(success, total, stamp),
           stamp > 0 => Early(stamp, now)
    PROVE  /\ samples' \in Seq(Nat) /\ rows' \in Seq(Row)
           /\ warmup => rows' = rows
           /\ ~warmup => /\ Len(rows') = Len(rows) + 1
                         /\ rows'[Len(rows')].tcp_start = stamp /\ rows'[Len(rows')].at = now
           /\ \A r \in 1..Len(rows) : rows'[r] = rows[r]
           /\ \A r \in 1..Len(rows') :
                 /\ rows'[r].run = r - 1
                 /\ rows'[r].tcp_start > 0 => Early(rows'[r].tcp_start, rows'[r].at)
  <1> DEFINE row == [run |-> i, tcp_start |-> stamp, at |-> now, success |-> success, total |-> total]
  <1>1. rows \in Seq(Row) /\ samples \in Seq(Nat) /\ row \in Row
    BY DEF CampaignInv, TypeOK, Row
  <1>2. CASE warmup
    BY <1>1, <1>2 DEF Record, CampaignInv, Stamps
  <1>3. CASE ~warmup
    <2>a. rows' = Append(rows, row) /\ samples' = IF success THEN Append(samples, total) ELSE samples
      BY <1>3, Zenon DEF Record
    <2>b. samples' \in Seq(Nat)
      BY <1>1, <2>a
    <2>1. rows' = Append(rows, row) /\ samples' \in Seq(Nat)
      BY <2>a, <2>b
    <2> HIDE DEF row
    <2>2. /\ rows' \in Seq(Row) /\ Len(rows') = Len(rows) + 1
          /\ rows'[Len(rows')] = row
          /\ \A r \in 1..Len(rows) : rows'[r] = rows[r]
      BY <1>1, <2>1
    <2>3. row.run = i /\ row.tcp_start = stamp /\ row.at = now
      BY DEF row
    <2>4. Len(rows) = i /\ Len(rows) \in Nat
      BY <1>1, <1>3 DEF CampaignInv, Position
    <2>5. ASSUME NEW r \in 1..Len(rows')
          PROVE  /\ rows'[r].run = r - 1
                 /\ rows'[r].tcp_start > 0 => Early(rows'[r].tcp_start, rows'[r].at)
      <3>1. CASE r = Len(rows')
        BY <2>2, <2>3, <2>4, <3>1
      <3>2. CASE r # Len(rows')
        <4>1. r \in 1..Len(rows) /\ rows'[r] = rows[r]
          BY <2>2, <2>4, <2>5, <3>2
        <4> QED
          BY <4>1 DEF CampaignInv, Stamps
      <3> QED
        BY <3>1, <3>2
    <2> QED
      BY <1>3, <2>1, <2>2, <2>3, <2>5
  <1> QED
    BY <1>2, <1>3

(* The whole seconds of a time are less than a second before it. *)
LEMMA WholeSeconds == ASSUME NEW t \in Nat PROVE - (t % Second) \in - (Second - 1) .. 0
  BY ConstantsHold DEF Constants

(* A record without a stream. *)
LEMMA NoStreamStep ==
    ASSUME IInv, pc = "begin", pc' = "cooldown", NEW stamp \in Int, Record(FALSE, 0, stamp),
           stamp > 0 => Early(stamp, now), tcp_start' = stamp,
           UNCHANGED <<i, warmup, now, summary, streams, clock, host>>
    PROVE  IInv'
  <1> USE DEF clock, host
  <1>1. CampaignInv /\ 0 \in Nat /\ FALSE \in BOOLEAN
    BY DEF IInv
  <1>2. /\ samples' \in Seq(Nat) /\ rows' \in Seq(Row)
        /\ warmup => rows' = rows
        /\ ~warmup => Len(rows') = Len(rows) + 1
        /\ \A r \in 1..Len(rows) : rows'[r] = rows[r]
        /\ \A r \in 1..Len(rows') :
              /\ rows'[r].run = r - 1
              /\ rows'[r].tcp_start > 0 => Early(rows'[r].tcp_start, rows'[r].at)
    BY <1>1, RecordStep
  <1>a. /\ rows \in Seq(Row) /\ Len(rows) \in Nat
        /\ \A k \in 1..Len(streams) : streams[k].own \in Nat
    BY <1>1, Types DEF CampaignInv
  <1>3. Len(rows') \in Nat /\ Len(rows') >= Len(rows)
    BY <1>a, <1>2
  <1>4. TypeOK'
    <2>1. unused = {}
      BY DEF IInv, MatchInv
    <2>2. rows' \in Seq([run : Nat, tcp_start : Int, at : Nat, success : BOOLEAN, total : Nat])
      BY <1>2 DEF Row
    <2> QED
      BY <1>1, <1>2, <2>1, <2>2 DEF CampaignInv, TypeOK
  <1>5. Position' /\ Stamps'
    BY <1>1, <1>2 DEF CampaignInv, Position, Stamps
  <1>6. Owners'
    <2>1. ASSUME NEW k \in 1..Len(streams), streams[k].own # 0
          PROVE  /\ streams[k].own \in 1..Len(rows')
                 /\ rows'[streams[k].own].tcp_start > 0
                 /\ rows'[streams[k].own].at <= streams[k].start
      <3>1. /\ streams[k].own \in 1..Len(rows)
            /\ rows[streams[k].own].tcp_start > 0
            /\ rows[streams[k].own].at <= streams[k].start
        BY <1>1, <2>1 DEF CampaignInv, Owners
      <3> QED
        BY <1>a, <1>2, <1>3, <3>1
    <2> QED
      BY <1>1, <2>1 DEF CampaignInv, Owners
  <1>7. MatchInv'
    BY DEF IInv, MatchInv
  <1> QED
    BY <1>4, <1>5, <1>6, <1>7 DEF IInv, CampaignInv

LEMMA AttemptStep == ASSUME IInv, Attempt PROVE IInv'
  <1> USE DEF clock, host
  <1>1. PICK delay \in SynDelays, duration \in Durations, success \in BOOLEAN :
           /\ Record(success, delay + duration, tcp_start)
           /\ streams' = Append(streams, [start |-> now + delay,
                                          own   |-> IF warmup THEN 0 ELSE Len(rows')])
           /\ now' = now + delay + duration
    BY DEF Attempt
  <1>2. /\ delay \in Nat /\ duration \in Nat /\ delay + duration \in Nat /\ now \in Nat
        /\ tcp_start \in Int /\ tcp_start > 0 /\ Early(tcp_start, now)
        /\ CampaignInv /\ pc = "connecting" /\ pc' = "cooldown"
        /\ UNCHANGED <<i, warmup, tcp_start, summary, offset, settings, next, unused, match>>
    BY ConstantsHold DEF Constants, IInv, CampaignInv, TypeOK, Stamps, Attempt
  <1>3. /\ samples' \in Seq(Nat) /\ rows' \in Seq(Row)
        /\ warmup => rows' = rows
        /\ ~warmup => /\ Len(rows') = Len(rows) + 1
                      /\ rows'[Len(rows')].tcp_start = tcp_start /\ rows'[Len(rows')].at = now
        /\ \A r \in 1..Len(rows) : rows'[r] = rows[r]
        /\ \A r \in 1..Len(rows') :
              /\ rows'[r].run = r - 1
              /\ rows'[r].tcp_start > 0 => Early(rows'[r].tcp_start, rows'[r].at)
    BY <1>1, <1>2, RecordStep
  <1>a. rows \in Seq(Row) /\ Len(rows) \in Nat
    BY <1>2, Types DEF CampaignInv
  <1>4. Len(rows) \in Nat /\ Len(rows') \in Nat /\ Len(rows') >= Len(rows)
    BY <1>a, <1>3
  <1> DEFINE stream == [start |-> now + delay, own |-> IF warmup THEN 0 ELSE Len(rows')]
  <1>5. /\ stream \in Stream /\ stream.start = now + delay
        /\ stream.own = IF warmup THEN 0 ELSE Len(rows')
        /\ streams \in Seq(Stream)
    BY <1>2, <1>4 DEF Stream, CampaignInv, TypeOK
  <1>6. streams' = Append(streams, stream)
    BY <1>1
  <1> HIDE DEF stream
  <1>7. /\ streams' \in Seq(Stream) /\ Len(streams') = Len(streams) + 1 /\ Len(streams) \in Nat
        /\ streams'[Len(streams) + 1] = stream
        /\ \A k \in 1..Len(streams) : streams'[k] = streams[k]
    BY <1>5, <1>6
  <1>8. TypeOK'
    <2>1. unused = {}
      BY <1>2 DEF IInv, MatchInv
    <2>2. /\ rows' \in Seq([run : Nat, tcp_start : Int, at : Nat, success : BOOLEAN, total : Nat])
          /\ streams' \in Seq([start : Nat, own : Nat])
      BY <1>3, <1>7 DEF Row, Stream
    <2> QED
      BY <1>1, <1>2, <1>3, <2>1, <2>2 DEF CampaignInv, TypeOK
  <1>9. Position' /\ Stamps'
    <2>1. Position'
      <3>1. now' \in Nat /\ now' >= now /\ Second \in Nat
        BY <1>1, <1>2, ConstantsHold DEF Constants
      <3> QED
        BY <1>2, <1>3, <3>1 DEF CampaignInv, Position
    <2>2. Stamps'
      BY <1>2, <1>3 DEF Stamps
    <2> QED
      BY <2>1, <2>2
  <1>10. ASSUME NEW k \in 1..Len(streams'), streams'[k].own # 0
         PROVE  /\ streams'[k].own \in 1..Len(rows')
                /\ rows'[streams'[k].own].tcp_start > 0
                /\ rows'[streams'[k].own].at <= streams'[k].start
                /\ k <= Len(streams) => streams'[k].own <= Len(rows)
    <2>1. CASE k = Len(streams) + 1
      <3>1. ~warmup /\ streams'[k].own = Len(rows') /\ streams'[k].start = now + delay
        BY <1>5, <1>7, <1>10, <2>1
      <3> QED
        BY <1>2, <1>3, <1>4, <1>7, <2>1, <3>1
    <2>2. CASE k # Len(streams) + 1
      <3>1. k \in 1..Len(streams) /\ streams'[k] = streams[k]
        BY <1>7, <2>2
      <3>2. /\ streams[k].own \in 1..Len(rows)
            /\ rows[streams[k].own].tcp_start > 0
            /\ rows[streams[k].own].at <= streams[k].start
        BY <1>2, <1>10, <3>1 DEF CampaignInv, Owners
      <3> QED
        BY <1>3, <1>4, <3>1, <3>2
    <2> QED
      BY <2>1, <2>2
  <1>11. ASSUME NEW j \in 1..Len(streams'), NEW k \in 1..Len(streams'),
                streams'[j].own # 0, streams'[j].own = streams'[k].own
         PROVE  j = k
    <2>1. CASE j <= Len(streams) /\ k <= Len(streams)
      <3>1. /\ j \in 1..Len(streams) /\ k \in 1..Len(streams)
            /\ streams'[j] = streams[j] /\ streams'[k] = streams[k]
        BY <1>7, <2>1
      <3> QED
        BY <1>2, <1>11, <3>1 DEF CampaignInv, Owners
    <2>2. CASE j = Len(streams) + 1 /\ k = Len(streams) + 1
      BY <2>2
    <2>3. CASE j <= Len(streams) /\ k = Len(streams) + 1
      <3>1. streams'[j].own <= Len(rows) /\ streams'[k].own # 0
        BY <1>10, <1>11, <2>3
      <3>2. streams'[k].own = Len(rows') /\ Len(rows') = Len(rows) + 1
        BY <1>3, <1>5, <1>7, <2>3, <3>1
      <3> QED
        BY <1>4, <1>11, <3>1, <3>2
    <2>4. CASE k <= Len(streams) /\ j = Len(streams) + 1
      <3>1. streams'[k].own <= Len(rows)
        BY <1>10, <1>11, <2>4
      <3>2. streams'[j].own = Len(rows') /\ Len(rows') = Len(rows) + 1
        BY <1>3, <1>5, <1>7, <1>11, <2>4
      <3> QED
        BY <1>4, <1>11, <3>1, <3>2
    <2> QED
      BY <1>7, <2>1, <2>2, <2>3, <2>4
  <1>12. Owners'
    BY <1>10, <1>11 DEF Owners
  <1>13. MatchInv'
    BY <1>2 DEF IInv, MatchInv
  <1> QED
    BY <1>8, <1>9, <1>12, <1>13 DEF IInv, CampaignInv
-----------------------------------------------------------------------------
LEMMA DeltaType ==
    ASSUME TypeOK, NEW k \in 1..Len(streams), NEW r \in 1..Len(rows)
    PROVE  Delta(k, r) \in Int
  <1>1. streams[k].start \in Int /\ rows[r].tcp_start \in Int
    BY Types
  <1> QED
    BY <1>1 DEF Delta

(* An attempt that a stream is matched to, or would be, is its own. *)
LEMMA NearIsOwn ==
    ASSUME CampaignInv, Separated, NEW k \in 1..Len(streams), NEW r \in candidates,
           Delta(k, r) <= Window
    PROVE  streams[k].own = r
  <1>1. /\ rows[r].tcp_start \in Int /\ rows[r].at \in Nat /\ rows[r].tcp_start > 0
        /\ Early(rows[r].tcp_start, rows[r].at)
    BY Types DEF CampaignInv, Stamps, candidates
  <1>2. streams[k].start \in Nat /\ k \in DOMAIN streams
    BY Types DEF CampaignInv
  <1>3. \/ streams[k].own = r
        \/ streams[k].start > rows[r].at + Window + Second
        \/ rows[r].at > streams[k].start + Window + Second
    BY <1>2 DEF Separated
  <1>4. Second \in Nat \ {0} /\ Window \in Nat
    BY ConstantsHold DEF Constants
  <1>5. CASE streams[k].start > rows[r].at + Window + Second
    BY <1>1, <1>2, <1>4, <1>5 DEF Delta, Early
  <1>6. CASE rows[r].at > streams[k].start + Window + Second
    <2>1. rows[r].tcp_start > streams[k].start + Window
      BY <1>1, <1>2, <1>4, <1>6 DEF Early
    <2> QED
      BY <1>1, <1>2, <1>4, <2>1 DEF Delta
  <1> QED
    BY <1>3, <1>5, <1>6

(* A stream that began in time is within the window of its own attempt. *)
LEMMA PromptIsNear ==
    ASSUME CampaignInv, NEW k \in 1..Len(streams), streams[k].own # 0, Prompt(k, streams[k].own)
    PROVE  streams[k].own \in candidates /\ Delta(k, streams[k].own) <= Window
  <1> DEFINE r == streams[k].own
  <1>1. r \in 1..Len(rows) /\ rows[r].tcp_start > 0 /\ rows[r].at <= streams[k].start
    BY DEF CampaignInv, Owners
  <1>a. r = streams[k].own /\ Prompt(k, r)
    OBVIOUS
  <1> HIDE DEF r
  <1>2. /\ rows[r].tcp_start \in Int /\ rows[r].at \in Nat /\ r \in DOMAIN rows
        /\ Early(rows[r].tcp_start, rows[r].at) /\ streams[k].start \in Nat
    <2>1. /\ rows[r].tcp_start \in Int /\ rows[r].at \in Nat /\ r \in DOMAIN rows
          /\ streams[k].start \in Nat
      BY <1>1, Types DEF CampaignInv
    <2>2. Early(rows[r].tcp_start, rows[r].at)
      BY <1>1 DEF CampaignInv, Stamps
    <2> QED
      BY <2>1, <2>2
  <1>3. Second \in Nat \ {0} /\ Window \in Nat
    BY ConstantsHold DEF Constants
  <1>4. streams[k].start - rows[r].tcp_start <= Window /\ rows[r].tcp_start <= streams[k].start
    <2>1. streams[k].start + Second <= rows[r].at + Window + 1
      BY <1>a DEF Prompt
    <2>2. rows[r].at < rows[r].tcp_start + Second /\ rows[r].tcp_start <= rows[r].at
      BY <1>2 DEF Early
    <2>3. rows[r].at <= streams[k].start
      BY <1>1
    <2>4. \A start, time, stamp, second, window \in Int :
             /\ start + second <= time + window + 1
             /\ time < stamp + second /\ stamp <= time /\ time <= start
             => start - stamp <= window /\ stamp <= start
      OBVIOUS
    <2>5. /\ streams[k].start \in Int /\ rows[r].at \in Int /\ rows[r].tcp_start \in Int
          /\ Second \in Int /\ Window \in Int
      BY <1>2, <1>3
    <2> QED
      BY <2>1, <2>2, <2>3, <2>4, <2>5
  <1> QED
    BY <1>1, <1>2, <1>4, <1>a DEF Delta, candidates

LEMMA MatchedStep == ASSUME IInv, Matched PROVE IInv'
  <1> USE DEF clock, device
  <1>1. PICK r \in unused : /\ Nearest(next, r) /\ Delta(next, r) <= Window
                            /\ match' = Append(match, rows[r].run)
                            /\ unused' = unused \ {r}
    BY DEF Matched
  <1>2. /\ pc = "match" /\ next <= Len(streams) /\ next' = next + 1 /\ next \in Nat \ {0}
        /\ UNCHANGED <<pc, i, warmup, now, tcp_start, samples, summary, rows, streams, offset, settings>>
        /\ CampaignInv /\ TypeOK /\ Found /\ match \in Seq(Int)
    BY DEF Matched, IInv, CampaignInv, MatchInv, TypeOK
  <1>3. /\ r \in candidates /\ r \in 1..Len(rows) /\ rows[r].run = r - 1 /\ r - 1 \in Int
        /\ next \in 1..Len(streams) /\ Len(streams) \in Nat
    BY <1>2, Types DEF CampaignInv, Found, candidates, Stamps
  <1>4. Len(match) = next - 1
    BY <1>2 DEF Found
  <1>5. /\ match' \in Seq(Int) /\ Len(match') = next
        /\ match'[next] = r - 1
        /\ \A k \in 1..Len(match) : match'[k] = match[k]
    BY <1>1, <1>2, <1>3, <1>4
  <1>6. CampaignInv'
    <2>1. unused \subseteq DOMAIN rows
      BY <1>2 DEF TypeOK
    <2>2. unused' \subseteq DOMAIN rows' /\ next' \in Nat \ {0}
      BY <1>1, <1>2, <2>1
    <2>3. TypeOK'
      BY <1>2, <1>5, <2>2 DEF TypeOK
    <2> QED
      BY <1>2, <2>3 DEF CampaignInv, Position, Stamps, Owners
  <1>7. Found'
    <2>1. candidates' = candidates /\ (Separated' <=> Separated)
      BY <1>2 DEF candidates, Separated
    <2>2. ASSUME Separated
          PROVE  /\ \A k \in 1..next : \/ match'[k] = -1
                                       \/ streams[k].own # 0 /\ match'[k] = streams[k].own - 1
                 /\ \A k \in 1..next :
                       streams[k].own # 0 /\ Prompt(k, streams[k].own) => match'[k] = streams[k].own - 1
                 /\ \A k \in next + 1 .. Len(streams) : streams[k].own # 0 => streams[k].own \in unused'
      <3>1. streams[next].own = r
        BY <1>1, <1>2, <1>3, <2>2, NearIsOwn
      <3>2. /\ \A k \in 1..Len(match) : \/ match[k] = -1
                                        \/ streams[k].own # 0 /\ match[k] = streams[k].own - 1
            /\ \A k \in 1..Len(match) :
                  streams[k].own # 0 /\ Prompt(k, streams[k].own) => match[k] = streams[k].own - 1
            /\ \A k \in next..Len(streams) : streams[k].own # 0 => streams[k].own \in unused
        BY <1>2, <2>2 DEF Found
      <3>3. ASSUME NEW k \in 1..next
            PROVE  /\ \/ match'[k] = -1
                      \/ streams[k].own # 0 /\ match'[k] = streams[k].own - 1
                   /\ streams[k].own # 0 /\ Prompt(k, streams[k].own) => match'[k] = streams[k].own - 1
        <4>1. CASE k = next
          BY <1>3, <1>5, <3>1, <4>1
        <4>2. CASE k # next
          <5>1. k \in 1..Len(match) /\ match'[k] = match[k]
            BY <1>2, <1>4, <1>5, <4>2
          <5> QED
            BY <3>2, <5>1
        <4> QED
          BY <4>1, <4>2
      <3>4. ASSUME NEW k \in next + 1 .. Len(streams), streams[k].own # 0
            PROVE  streams[k].own \in unused'
        <4>1. k \in next..Len(streams) /\ k \in 1..Len(streams) /\ k # next
          BY <1>2
        <4>2. streams[k].own \in unused /\ streams[k].own # r
          BY <1>2, <1>3, <3>1, <3>2, <3>4, <4>1 DEF CampaignInv, Owners
        <4> QED
          BY <1>1, <4>2
      <3> QED
        BY <3>3, <3>4
    <2>3. /\ Len(match') = next' - 1 /\ next' <= Len(streams') + 1
          /\ unused' \subseteq candidates'
      BY <1>1, <1>2, <1>3, <1>5, <2>1 DEF Found
    <2> QED
      BY <1>2, <1>5, <2>1, <2>2, <2>3 DEF Found, Prompt
  <1> QED
    BY <1>2, <1>6, <1>7 DEF IInv, MatchInv

LEMMA UnmatchedStep == ASSUME IInv, Unmatched PROVE IInv'
  <1> USE DEF clock, device
  <1>1. \A r \in unused : Nearest(next, r) => Delta(next, r) > Window
    BY DEF Unmatched
  <1>2. /\ pc = "match" /\ next <= Len(streams) /\ next' = next + 1 /\ next \in Nat \ {0}
        /\ match' = Append(match, -1)
        /\ UNCHANGED <<pc, i, warmup, now, tcp_start, samples, summary, rows, streams, offset, settings,
                       unused>>
        /\ CampaignInv /\ TypeOK /\ Found /\ match \in Seq(Int)
    BY DEF Unmatched, IInv, CampaignInv, MatchInv, TypeOK
  <1>3. next \in 1..Len(streams) /\ Len(streams) \in Nat
    BY <1>2, Types
  <1>4. Len(match) = next - 1
    BY <1>2 DEF Found
  <1>5. /\ match' \in Seq(Int) /\ Len(match') = next
        /\ match'[next] = -1
        /\ \A k \in 1..Len(match) : match'[k] = match[k]
    BY <1>2, <1>3, <1>4
  <1>6. CampaignInv'
    <2>1. TypeOK'
      BY <1>2, <1>5 DEF TypeOK
    <2> QED
      BY <1>2, <2>1 DEF CampaignInv, Position, Stamps, Owners
  <1>7. Found'
    <2>1. candidates' = candidates /\ (Separated' <=> Separated)
      BY <1>2 DEF candidates, Separated
    <2>2. ASSUME Separated
          PROVE  /\ \A k \in 1..next : \/ match'[k] = -1
                                       \/ streams[k].own # 0 /\ match'[k] = streams[k].own - 1
                 /\ \A k \in 1..next :
                       streams[k].own # 0 /\ Prompt(k, streams[k].own) => match'[k] = streams[k].own - 1
                 /\ \A k \in next + 1 .. Len(streams) : streams[k].own # 0 => streams[k].own \in unused
      <3>2. /\ \A k \in 1..Len(match) : \/ match[k] = -1
                                        \/ streams[k].own # 0 /\ match[k] = streams[k].own - 1
            /\ \A k \in 1..Len(match) :
                  streams[k].own # 0 /\ Prompt(k, streams[k].own) => match[k] = streams[k].own - 1
            /\ \A k \in next..Len(streams) : streams[k].own # 0 => streams[k].own \in unused
        BY <1>2, <2>2 DEF Found
      <3>1. ~(streams[next].own # 0 /\ Prompt(next, streams[next].own))
        <4> SUFFICES ASSUME streams[next].own # 0, Prompt(next, streams[next].own) PROVE FALSE
          OBVIOUS
        <4> DEFINE r == streams[next].own
        <4>1. r \in candidates /\ r \in unused /\ Delta(next, r) <= Window
          BY <1>2, <1>3, <3>2, PromptIsNear
        <4>2. ~Nearest(next, r)
          <5>1. Delta(next, r) \in Int
            BY <1>2, <1>3, <4>1, Types, DeltaType DEF candidates
          <5> QED
            BY <1>1, <4>1, <5>1, ConstantsHold DEF Constants
        <4>3. PICK other \in unused : ~(\/ Delta(next, r) < Delta(next, other)
                                        \/ Delta(next, r) = Delta(next, other) /\ r <= other)
          BY <4>1, <4>2 DEF Nearest
        <4>4. other \in candidates /\ other \in 1..Len(rows) /\ r \in 1..Len(rows)
          BY <1>2, <4>1, <4>3, Types DEF Found, candidates
        <4>5. Delta(next, other) \in Int /\ Delta(next, r) \in Int /\ Window \in Nat
          BY <1>2, <1>3, <4>4, DeltaType, ConstantsHold DEF Constants
        <4>6. Delta(next, other) <= Window
          BY <4>1, <4>3, <4>5
        <4>7. other = r
          BY <1>2, <1>3, <2>2, <4>4, <4>6, NearIsOwn
        <4> QED
          BY <4>3, <4>4, <4>7
      <3>3. ASSUME NEW k \in 1..next
            PROVE  /\ \/ match'[k] = -1
                      \/ streams[k].own # 0 /\ match'[k] = streams[k].own - 1
                   /\ streams[k].own # 0 /\ Prompt(k, streams[k].own) => match'[k] = streams[k].own - 1
        <4>1. CASE k = next
          BY <1>5, <3>1, <4>1
        <4>2. CASE k # next
          <5>1. k \in 1..Len(match) /\ match'[k] = match[k]
            BY <1>2, <1>4, <1>5, <4>2
          <5> QED
            BY <3>2, <5>1
        <4> QED
          BY <4>1, <4>2
      <3>4. \A k \in next + 1 .. Len(streams) : k \in next..Len(streams)
        BY <1>2
      <3> QED
        BY <3>2, <3>3, <3>4
    <2>3. /\ Len(match') = next' - 1 /\ next' <= Len(streams') + 1
          /\ unused' \subseteq candidates'
      BY <1>2, <1>3, <1>5, <2>1 DEF Found
    <2> QED
      BY <1>2, <1>5, <2>1, <2>2, <2>3 DEF Found, Prompt
  <1> QED
    BY <1>2, <1>6, <1>7 DEF IInv, MatchInv
-----------------------------------------------------------------------------
LEMMA NextInv == ASSUME IInv, [Next]_vars PROVE IInv'
  <1> USE DEF clock, device, host
  <1>1. CASE SetSystemTime
    <2>1. SetTime \in - (Second - 1) .. 0
      BY WholeSeconds DEF SetTime, IInv, CampaignInv, TypeOK
    <2>2. TypeOK'
      BY <1>1, <2>1, ConstantsHold DEF SetSystemTime, IInv, CampaignInv, TypeOK, Constants
    <2>3. /\ UNCHANGED <<pc, i, warmup, now, tcp_start, rows, streams, next, unused, match>>
          /\ pc \notin {"match", "done"}
      BY <1>1 DEF SetSystemTime
    <2>4. Position' /\ Stamps' /\ Owners' /\ MatchInv'
      BY <2>3 DEF IInv, CampaignInv, MatchInv, Position, Stamps, Owners
    <2> QED
      BY <2>2, <2>4 DEF IInv, CampaignInv
  <1>2. CASE NoConnection
    <2>1. 0 \in Int /\ (0 > 0 => Early(0, now))
      OBVIOUS
    <2> QED
      BY <1>2, <2>1, NoStreamStep DEF NoConnection
  <1>3. Stamped \in Int /\ Early(Stamped, now) /\ (pc = "begin" => Stamped > 0)
    BY ConstantsHold DEF Stamped, Early, IInv, CampaignInv, TypeOK, Position, Constants
  <1>4. CASE NoStream
    BY <1>3, <1>4, NoStreamStep DEF NoStream
  <1>5. CASE OpenTcp
    <2>1. TypeOK'
      BY <1>3, <1>5 DEF OpenTcp, IInv, CampaignInv, TypeOK
    <2> QED
      BY <1>3, <1>5, <2>1 DEF OpenTcp, IInv, CampaignInv, MatchInv, Position, Stamps, Owners
  <1>6. CASE Attempt
    BY <1>6, AttemptStep
  <1>7. CASE NextAttempt
    <2>a. /\ now \in Nat /\ i \in Nat /\ warmup \in BOOLEAN /\ Cooldown \in Nat /\ Second \in Nat
      BY ConstantsHold DEF IInv, CampaignInv, TypeOK, Constants
    <2>b. /\ pc = "cooldown" /\ now' = now + Cooldown
          /\ warmup => i' \in {i + 1, 0} /\ (warmup' \/ i' = 0) /\ warmup' \in BOOLEAN
          /\ ~warmup => i' = i + 1 /\ ~warmup' /\ warmup' = warmup
          /\ pc' \in {"begin", "summary"}
          /\ UNCHANGED <<tcp_start, samples, rows, streams, offset, settings, next, unused, match>>
      <3>1. CASE warmup
        <4>1. CASE i + 1 < Warmup
          BY <1>7, <2>a, <3>1, <4>1 DEF NextAttempt
        <4>2. CASE ~(i + 1 < Warmup)
          BY <1>7, <2>a, <3>1, <4>2 DEF NextAttempt
        <4> QED
          BY <4>1, <4>2
      <3>2. CASE ~warmup
        BY <1>7, <2>a, <3>2 DEF NextAttempt
      <3> QED
        BY <3>1, <3>2, <2>a
    <2>1. /\ now' \in Nat /\ now' >= now /\ i' \in Nat /\ warmup' \in BOOLEAN
      BY <2>a, <2>b
    <2>2. TypeOK'
      BY <2>b, <2>1 DEF IInv, CampaignInv, TypeOK
    <2>3. Position'
      <3>1. CASE warmup
        <4>1. rows' = <<>> /\ Len(rows') = 0 /\ (warmup' \/ i' = 0)
          BY <2>b, <3>1 DEF IInv, CampaignInv, Position
        <4>2. now' >= Second
          BY <2>a, <2>1 DEF IInv, CampaignInv, Position
        <4>3. CASE warmup'
          BY <2>b, <4>1, <4>2, <4>3 DEF Position
        <4>4. CASE i' = 0
          BY <2>b, <4>1, <4>2, <4>4 DEF Position
        <4> QED
          BY <4>1, <4>3, <4>4
      <3>2. CASE ~warmup
        BY <2>a, <2>b, <2>1, <3>2 DEF IInv, CampaignInv, Position
      <3> QED
        BY <3>1, <3>2
    <2>4. Stamps' /\ Owners' /\ MatchInv'
      BY <2>b DEF IInv, CampaignInv, MatchInv, Stamps, Owners
    <2> QED
      BY <2>2, <2>3, <2>4 DEF IInv, CampaignInv
  <1>8. CASE Summary
    <2>1. /\ UNCHANGED <<i, warmup, now, tcp_start, samples, rows, streams, next, match, offset, settings>>
          /\ pc = "summary" /\ pc' = "match" /\ unused' = candidates
          /\ CampaignInv /\ TypeOK /\ next = 1 /\ match = <<>>
      BY <1>8 DEF Summary, IInv, CampaignInv, MatchInv
    <2>2. CampaignInv'
      BY <2>1 DEF CampaignInv, TypeOK, Position, Stamps, Owners, candidates
    <2>3. Found'
      <3>1. candidates' = candidates /\ (Separated' <=> Separated)
        BY <2>1 DEF candidates, Separated
      <3>2. Len(match') = 0 /\ next' = 1 /\ Len(streams') \in Nat /\ DOMAIN rows = 1..Len(rows)
        BY <2>1, Types
      <3>3. \A k \in 1..Len(streams) : streams[k].own # 0 => streams[k].own \in candidates
        BY <2>1, <3>2 DEF CampaignInv, Owners, candidates
      <3> QED
        BY <2>1, <3>1, <3>2, <3>3 DEF Found
    <2> QED
      BY <2>1, <2>2, <2>3 DEF IInv, MatchInv
  <1>9. CASE Matched
    BY <1>9, MatchedStep
  <1>10. CASE Unmatched
    BY <1>10, UnmatchedStep
  <1>11. CASE Analyzed
    BY <1>11 DEF Analyzed, IInv, CampaignInv, MatchInv, TypeOK, Position, Stamps, Owners,
                 Found, Prompt, candidates, Separated
  <1>12. CASE UNCHANGED vars
    BY <1>12 DEF vars, IInv, CampaignInv, MatchInv, TypeOK, Position, Stamps, Owners,
                 Found, Prompt, candidates, Separated
  <1> QED
    BY <1>1, <1>2, <1>4, <1>5, <1>6, <1>7, <1>8, <1>9, <1>10, <1>11, <1>12 DEF Next

(* When all is matched, a row's run leads to its own stream and to no other. *)
LEMMA JoinedIsOwn == IInv => OwnStream
  <1> SUFFICES ASSUME IInv, pc = "done", Separated, NEW r \in DOMAIN rows
               PROVE  /\ Joined(rows[r].run) # 0 => streams[Joined(rows[r].run)].own = r
                      /\ \A k \in DOMAIN streams :
                            streams[k].own = r /\ Prompt(k, r) => Joined(rows[r].run) = k
    BY DEF OwnStream, Prompt
  <1>1. /\ CampaignInv /\ TypeOK /\ Found /\ next > Len(streams) /\ match \in Seq(Int) /\ next \in Nat
        /\ r \in 1..Len(rows) /\ rows[r].run = r - 1 /\ r \in Nat \ {0}
        /\ DOMAIN streams = 1..Len(streams) /\ Len(streams) \in Nat
    <2>1. CampaignInv /\ TypeOK /\ Found /\ next > Len(streams)
      BY DEF IInv, CampaignInv, MatchInv
    <2>2. match \in Seq(Int) /\ next \in Nat
      BY <2>1 DEF TypeOK
    <2>3. DOMAIN streams = 1..Len(streams) /\ Len(streams) \in Nat /\ r \in 1..Len(rows) /\ r \in Nat \ {0}
      BY <2>1, Types
    <2>4. rows[r].run = r - 1
      BY <2>1, <2>3 DEF CampaignInv, Stamps
    <2> QED
      BY <2>1, <2>2, <2>3, <2>4
  <1>2. /\ DOMAIN match = 1..Len(streams) /\ Len(match) = Len(streams)
        /\ \A k \in 1..Len(match) : \/ match[k] = -1
                                    \/ streams[k].own # 0 /\ match[k] = streams[k].own - 1
        /\ \A k \in 1..Len(match) :
              streams[k].own # 0 /\ Prompt(k, streams[k].own) => match[k] = streams[k].own - 1
    BY <1>1 DEF Found
  <1> DEFINE ks == {k \in DOMAIN match : match[k] = rows[r].run}
  <1>3. \A k \in ks : k \in 1..Len(streams) /\ streams[k].own = r
    <2> SUFFICES ASSUME NEW k \in ks PROVE k \in 1..Len(streams) /\ streams[k].own = r
      OBVIOUS
    <2>1. k \in 1..Len(streams) /\ match[k] = r - 1 /\ streams[k].own \in Nat
      BY <1>1, <1>2, Types
    <2> QED
      BY <1>1, <1>2, <2>1
  <1>4. \A j, k \in ks : j = k
    BY <1>1, <1>3 DEF CampaignInv, Owners
  <1>5. ks # {} => Joined(rows[r].run) \in ks
    <2> SUFFICES ASSUME NEW k \in ks PROVE Joined(rows[r].run) \in ks
      OBVIOUS
    <2>1. \A j \in ks : j <= k
      BY <1>3, <1>4
    <2>2. (CHOOSE m \in ks : \A j \in ks : j <= m) \in ks
      BY <2>1
    <2> QED
      BY <2>2 DEF Joined
  <1>6. ks = {} => Joined(rows[r].run) = 0
    BY DEF Joined
  <1>7. ASSUME NEW k \in DOMAIN streams, streams[k].own = r, Prompt(k, r)
        PROVE  Joined(rows[r].run) = k
    <2>1. k \in ks
      BY <1>1, <1>2, <1>7
    <2> QED
      BY <1>4, <1>5, <2>1
  <1>8. Joined(rows[r].run) # 0 => streams[Joined(rows[r].run)].own = r
    BY <1>3, <1>5, <1>6
  <1> QED
    BY <1>7, <1>8

LEMMA Inductive == Spec => []IInv
  BY InitInv, NextInv, PTL DEF Spec

\* Every variable has its type in every campaign. (run_handshake_benchmark,
\* match_attempt_runs)
THEOREM TypeCorrect == Spec => []TypeOK
  <1>1. IInv => TypeOK
    BY DEF IInv, CampaignInv
  <1> QED
    BY <1>1, Inductive, PTL

\* Attempts that are far enough apart get their own streams, however many there are and
\* wherever SNTP sets the clock. (match_attempt_runs)
THEOREM Matching == Spec => []OwnStream
  BY JoinedIsOwn, Inductive, PTL

\* Device and host interpolate the quantiles of the same latencies alike.
\* (quantile_sorted, quantile)
THEOREM QuantilesAgree ==
    ASSUME NEW v \in Seq(Nat), Len(v) > 0, NEW p \in 0..100
    PROVE  quantile_sorted(v, p) = quantile(v, p)
  <1> DEFINE pos == p * (Len(v) - 1)
             lo == pos \div 100
             hi == IF lo + 1 < Len(v) THEN lo + 1 ELSE lo
             ceil == (pos + 99) \div 100
  <1>1. CASE Len(v) = 1
    BY <1>1 DEF quantile_sorted, quantile
  <1>2. CASE Len(v) # 1
    <2>1. /\ Len(v) - 1 \in Nat \ {0} /\ pos \in Nat /\ pos <= 100 * (Len(v) - 1)
      BY <1>2
    <2> HIDE DEF pos
    <2>2. /\ lo \in Nat /\ lo <= Len(v) - 1 /\ pos % 100 = pos - 100 * lo
          /\ pos % 100 = 0 <=> ceil = lo
          /\ pos % 100 # 0 => ceil = lo + 1 /\ lo + 1 < Len(v)
      BY <2>1
    <2>3. Between(v, lo, hi, pos % 100) = Between(v, lo, ceil, pos - 100 * lo)
      <3>1. CASE pos % 100 # 0
        BY <2>1, <2>2, <3>1
      <3>2. CASE pos % 100 = 0
        <4>1. /\ v[lo + 1] \in Int /\ v[hi + 1] \in Int /\ v[ceil + 1] \in Int
          BY <2>1, <2>2, <3>2
        <4> QED
          BY <2>1, <2>2, <3>2, <4>1 DEF Between
      <3> QED
        BY <3>1, <3>2
    <2> QED
      BY <1>2, <2>3 DEF quantile_sorted, quantile, pos
  <1> QED
    BY <1>1, <1>2
-----------------------------------------------------------------------------
(* The statistics of the latencies. *)

\* A quantile has enough of the samples on each of its sides.
Sides(s, p, q) ==
    /\ 100 * Cardinality({k \in DOMAIN s : 100 * s[k] <= q}) > p * (Len(s) - 1)
    /\ 100 * Cardinality({k \in DOMAIN s : 100 * s[k] >= q}) > (100 - p) * (Len(s) - 1)

(* A set that has all samples up to the m-th smallest is of m at least, and one that has all
   from there on, of the rest. *)
LEMMA Enough ==
    ASSUME NEW s \in Seq(Int), NEW m \in 1 .. Len(s), NEW L \in SUBSET (1 .. Len(s))
    PROVE  /\ Cardinality(L) \in Nat
           /\ (\A k \in 1 .. Len(s) : s[k] <= Sorted(s)[m] => k \in L) => Cardinality(L) >= m
           /\ (\A k \in 1 .. Len(s) : s[k] >= Sorted(s)[m] => k \in L)
                 => Cardinality(L) >= Len(s) + 1 - m
  <1> DEFINE n == Len(s)
             x == Sorted(s)[m]
             below == {k \in 1 .. n : s[k] < x}
             above == {k \in 1 .. n : s[k] > x}
             rest == (1 .. n) \ L
  <1>1. n \in Nat /\ m \in 1 .. n /\ \A k \in 1 .. n : s[k] \in Int
    BY ElementOfSeq
  <1>2. /\ x \in Int
        /\ IsFiniteSet(below) /\ Cardinality(below) \in Nat /\ Cardinality(below) <= m - 1
        /\ IsFiniteSet(above) /\ Cardinality(above) \in Nat /\ Cardinality(above) <= n - m
    BY Ranks
  <1> HIDE DEF x, n
  <1>3. /\ IsFiniteSet(1 .. n) /\ Cardinality(1 .. n) = n
        /\ IsFiniteSet(L) /\ Cardinality(L) \in Nat
    <2>1. 1 \in Int /\ n \in Int /\ L \in SUBSET (1 .. n)
      BY <1>1 DEF n
    <2>2. IsFiniteSet(1 .. n) /\ Cardinality(1 .. n) = n
      BY <1>1, <2>1, FS_Interval
    <2>3. IsFiniteSet(L)
      BY <2>1, <2>2, FS_Subset
    <2> QED
      BY <2>2, <2>3, FS_CardinalityType
  <1>4. IsFiniteSet(rest) /\ Cardinality(rest) = n - Cardinality(L)
    <2>1. L \in SUBSET (1 .. n)
      BY DEF n
    <2>2. (1 .. n) \cap L = L
      BY <2>1
    <2> DEFINE all == 1 .. n
    <2>3. IsFiniteSet(all)
      BY <1>3
    <2>4. /\ IsFiniteSet(all \ L)
          /\ Cardinality(all \ L) = Cardinality(all) - Cardinality(all \cap L)
      <3> HIDE DEF all
      <3> QED
        BY <2>3, FS_Difference, Zenon
    <2> QED
      BY <1>3, <2>2, <2>4
  <1>5. ASSUME \A k \in 1 .. n : s[k] <= x => k \in L
        PROVE  Cardinality(L) >= m
    <2>1. rest \in SUBSET above
      BY <1>1, <1>2, <1>5
    <2>2. Cardinality(rest) <= Cardinality(above)
      <3> HIDE DEF rest, above
      <3> QED
        BY <1>2, <2>1, FS_Subset
    <2> HIDE DEF rest, above
    <2> QED
      BY <1>1, <1>2, <1>3, <1>4, <2>2
  <1>6. ASSUME \A k \in 1 .. n : s[k] >= x => k \in L
        PROVE  Cardinality(L) >= n + 1 - m
    <2>1. rest \in SUBSET below
      BY <1>1, <1>2, <1>6
    <2>2. Cardinality(rest) <= Cardinality(below)
      <3> HIDE DEF rest, below
      <3> QED
        BY <1>2, <2>1, FS_Subset
    <2> HIDE DEF rest, below
    <2> QED
      BY <1>1, <1>2, <1>3, <1>4, <2>2
  <1> QED
    BY <1>3, <1>5, <1>6 DEF n, x

(* A point between two numbers. *)
LEMMA Interpolated ==
    ASSUME NEW x \in Int, NEW y \in Int, x <= y, NEW percent \in 0 .. 99
    PROVE  /\ 100 * x + percent * (y - x) \in Int
           /\ 100 * x <= 100 * x + percent * (y - x)
           /\ 100 * x + percent * (y - x) <= 100 * y
  <1> DEFINE d == y - x
  <1>1. d \in Nat /\ y = x + d
    OBVIOUS
  <1>2. percent * d \in Nat /\ percent * d <= 100 * d
    BY <1>1
  <1> QED
    BY <1>1, <1>2

\* A hundred times where a quantile is among the sorted samples, from 0, and the samples about it.
Spot(s, p) == p * (Len(s) - 1)
Floor(s, p) == Spot(s, p) \div 100
Ceil(s, p) == (Spot(s, p) + 99) \div 100

(* Where the host's quantile is: between the order statistics its position is between. *)
LEMMA QuantilePlace ==
    ASSUME NEW s \in Seq(Nat), Len(s) > 0, NEW p \in 0 .. 100
    PROVE  /\ Sorted(s) \in Seq(Nat) /\ Len(Sorted(s)) = Len(s)
           /\ Floor(s, p) \in 0 .. Len(s) - 1 /\ Ceil(s, p) \in 0 .. Len(s) - 1
           /\ Spot(s, p) \in Nat
           /\ Spot(s, p) < 100 * (Floor(s, p) + 1) /\ 100 * Ceil(s, p) < Spot(s, p) + 100
           /\ quantile(Sorted(s), p) \in Int
           /\ 100 * Sorted(s)[Floor(s, p) + 1] <= quantile(Sorted(s), p)
           /\ quantile(Sorted(s), p) <= 100 * Sorted(s)[Ceil(s, p) + 1]
  <1> DEFINE n == Len(s)
             v == Sorted(s)
             position == p * (n - 1)
             floor == position \div 100
             ceil == (position + 99) \div 100
  <1>1. n \in Nat /\ n >= 1 /\ s \in Seq(Int) /\ \A k \in 1 .. n : s[k] \in Nat
    BY ElementOfSeq
  <1>2. /\ v \in Seq(Int) /\ Len(v) = n
        /\ \A j, k \in 1 .. n : j <= k => v[j] <= v[k]
        /\ \E q \in [1 .. n -> 1 .. n] : \A k \in 1 .. n : v[k] = s[q[k]]
    BY <1>1, SortedIs
  <1> HIDE DEF v, n
  <1>3. \A k \in 1 .. n : v[k] \in Nat
    BY <1>1, <1>2
  <1>4. v \in Seq(Nat)
    <2>1. v = [k \in 1 .. n |-> v[k]]
      BY <1>1, <1>2
    <2>2. v \in [1 .. n -> Nat]
      BY <1>3, <2>1
    <2> QED
      BY <1>1, <2>2
  <1>5. position \in Nat /\ position <= 100 * (n - 1)
    <2>1. n - 1 \in Nat
      BY <1>1
    <2> QED
      BY <2>1, Interpolated
  <1>6. /\ floor \in 0 .. n - 1 /\ ceil \in 0 .. n - 1 /\ floor <= ceil
        /\ position < 100 * (floor + 1) /\ 100 * ceil < position + 100
        /\ position - 100 * floor \in 0 .. 99
    <2> HIDE DEF position
    <2> QED
      BY <1>1, <1>5
  <1>7. /\ v[floor + 1] \in Int /\ v[ceil + 1] \in Int /\ v[floor + 1] <= v[ceil + 1]
    <2>1. floor + 1 \in 1 .. n /\ ceil + 1 \in 1 .. n /\ floor + 1 <= ceil + 1
      BY <1>1, <1>6
    <2> QED
      BY <1>2, <1>3, <2>1
  <1>8. /\ quantile(v, p) \in Int
        /\ 100 * v[floor + 1] <= quantile(v, p) /\ quantile(v, p) <= 100 * v[ceil + 1]
    <2>1. CASE n = 1
      <3>1. floor = 0 /\ ceil = 0 /\ quantile(v, p) = 100 * v[1]
        BY <1>2, <1>6, <2>1 DEF quantile
      <3> QED
        BY <1>7, <3>1
    <2>2. CASE n # 1
      <3>1. quantile(v, p)
               = 100 * v[floor + 1] + (position - 100 * floor) * (v[ceil + 1] - v[floor + 1])
        BY <1>2, <2>2 DEF quantile, Between
      <3> DEFINE percent == position - 100 * floor
                 x == v[floor + 1]
                 y == v[ceil + 1]
      <3>2. quantile(v, p) = 100 * x + percent * (y - x) /\ percent \in 0 .. 99
            /\ x \in Int /\ y \in Int /\ x <= y
        BY <1>6, <1>7, <3>1
      <3> HIDE DEF percent, x, y
      <3>3. quantile(v, p) \in Int /\ 100 * x <= quantile(v, p) /\ quantile(v, p) <= 100 * y
        BY <3>2, Interpolated
      <3> QED
        BY <3>3 DEF x, y
    <2> QED
      BY <2>1, <2>2
  <1> QED
    BY <1>2, <1>4, <1>5, <1>6, <1>8 DEF n, v, Spot, Floor, Ceil

(* The k for the interval of the median is the first or one of the lower half. *)
LEMMA BestPlace ==
    ASSUME NEW n \in Nat, n >= 1
    PROVE  best_k(n) \in 1 .. n /\ (best_k(n) = 1 \/ 2 * best_k(n) <= n)
  <1> DEFINE ks == {k \in 1 .. n \div 2 : Covers(n, k)}
             IsLast(k) == \A j \in ks : j <= k
  <1>1. CASE ks = {}
    BY <1>1 DEF best_k
  <1>2. CASE ks # {}
    <2> DEFINE T == {n - k : k \in ks}
    <2>1. T \in SUBSET Nat /\ T # {}
      BY <1>2
    <2>2. PICK m \in T : \A t \in T : m <= t
      <3> HIDE DEF T
      <3> QED
        BY <2>1, Least
    <2>3. PICK k \in ks : m = n - k
      OBVIOUS
    <2>4. ASSUME NEW j \in ks PROVE j <= k
      <3>1. n - j \in T /\ j \in Nat /\ k \in Nat
        OBVIOUS
      <3>2. n - k <= n - j
        BY <2>2, <2>3, <3>1
      <3> QED
        BY <3>1, <3>2
    <2>5. IsLast(k)
      BY <2>4
    <2>6. best_k(n) = CHOOSE j \in ks : IsLast(j)
      BY <1>2 DEF best_k
    <2>7. best_k(n) \in ks
      <3> HIDE DEF ks, IsLast
      <3> QED
        BY <2>5, <2>6
    <2>8. best_k(n) \in 1 .. n \div 2
      <3> HIDE DEF T
      <3> QED
        BY <2>7
    <2> QED
      BY <2>8
  <1> QED
    BY <1>1, <1>2

(* The quantile of a percentage has that much of the samples below it and the rest above. *)
LEMMA QuantileSides ==
    ASSUME NEW s \in Seq(Nat), Len(s) > 0, NEW p \in 0 .. 100
    PROVE  Sides(s, p, quantile(Sorted(s), p))
  <1> DEFINE n == Len(s)
             v == Sorted(s)
             position == Spot(s, p)
             floor == Floor(s, p)
             ceil == Ceil(s, p)
             q == quantile(v, p)
             L == {k \in 1 .. n : 100 * s[k] <= q}
             G == {k \in 1 .. n : 100 * s[k] >= q}
  <1>1. /\ v \in Seq(Nat) /\ Len(v) = n
        /\ position \in Nat /\ floor \in 0 .. n - 1 /\ ceil \in 0 .. n - 1
        /\ position < 100 * (floor + 1) /\ 100 * ceil < position + 100
        /\ q \in Int /\ 100 * v[floor + 1] <= q /\ q <= 100 * v[ceil + 1]
    BY QuantilePlace
  <1>2. /\ n \in Nat /\ n >= 1 /\ s \in Seq(Int) /\ DOMAIN s = 1 .. n
        /\ (100 - p) * (n - 1) = 100 * (n - 1) - position
    BY DEF Spot
  <1>a. \A k \in 1 .. n : s[k] \in Nat
    BY ElementOfSeq
  <1> HIDE DEF position, q, v, floor, ceil
  <1>3. /\ floor + 1 \in 1 .. n /\ ceil + 1 \in 1 .. n
        /\ v[floor + 1] \in Int /\ v[ceil + 1] \in Int
    <2>1. floor + 1 \in 1 .. n /\ ceil + 1 \in 1 .. n
      BY <1>1, <1>2
    <2>2. v[floor + 1] \in Nat /\ v[ceil + 1] \in Nat
      BY <1>1, <2>1, ElementOfSeq
    <2> QED
      BY <2>1, <2>2
  <1>4. Cardinality(L) \in Nat /\ Cardinality(L) >= floor + 1
    <2>1. \A k \in 1 .. n : s[k] <= v[floor + 1] => k \in L
      <3> SUFFICES ASSUME NEW k \in 1 .. n, s[k] <= v[floor + 1] PROVE 100 * s[k] <= q
        OBVIOUS
      <3>1. s[k] \in Int /\ v[floor + 1] \in Int /\ q \in Int /\ 100 * v[floor + 1] <= q
        BY <1>1, <1>3, <1>a
      <3> QED
        BY <3>1
    <2>2. L \in SUBSET (1 .. n)
      OBVIOUS
    <2> HIDE DEF L
    <2> QED
      BY <1>2, <1>3, <2>1, <2>2, Enough DEF v
  <1>5. Cardinality(G) \in Nat /\ Cardinality(G) >= n - ceil
    <2>1. \A k \in 1 .. n : s[k] >= v[ceil + 1] => k \in G
      <3> SUFFICES ASSUME NEW k \in 1 .. n, s[k] >= v[ceil + 1] PROVE 100 * s[k] >= q
        OBVIOUS
      <3>1. s[k] \in Int /\ v[ceil + 1] \in Int /\ q \in Int /\ q <= 100 * v[ceil + 1]
        BY <1>1, <1>3, <1>a
      <3> QED
        BY <3>1
    <2>2. G \in SUBSET (1 .. n)
      OBVIOUS
    <2> HIDE DEF G
    <2>3. Cardinality(G) \in Nat /\ Cardinality(G) >= n + 1 - (ceil + 1)
      BY <1>2, <1>3, <2>1, <2>2, Enough DEF v
    <2> QED
      BY <1>1, <1>2, <2>3
  <1>6. 100 * Cardinality(L) > position
    <2> HIDE DEF L
    <2> QED
      BY <1>1, <1>2, <1>4
  <1>7. 100 * Cardinality(G) > (100 - p) * (n - 1)
    <2>1. 100 * Cardinality(G) > 100 * (n - 1) - position
      <3> HIDE DEF G
      <3> QED
        BY <1>1, <1>2, <1>5
    <2> QED
      BY <1>2, <2>1
  <1>8. DOMAIN s = 1 .. n
    BY <1>2
  <1> QED
    BY <1>6, <1>7, <1>8 DEF Sides, Spot, position, q, v

(* The lower half of n, and what is left of the upper. *)
LEMMA Halves ==
    ASSUME NEW n \in Nat, n >= 1, NEW k \in 1 .. n, k = 1 \/ 2 * k <= n
    PROVE  /\ k <= ((50 * (n - 1)) \div 100) + 1
           /\ ((50 * (n - 1) + 99) \div 100) + 1 <= n + 1 - k
  <1>1. k - 1 <= (50 * (n - 1)) \div 100
    <2>1. 100 * (k - 1) <= 50 * (n - 1)
      OBVIOUS
    <2> QED
      BY <2>1
  <1>2. (50 * (n - 1) + 99) \div 100 <= n - k
    <2>1. 50 * (n - 1) <= 100 * (n - k)
      OBVIOUS
    <2> QED
      BY <2>1
  <1> QED
    BY <1>1, <1>2

(* The interval is about the median. *)
LEMMA MedianInside ==
    ASSUME NEW s \in Seq(Nat), Len(s) > 0
    PROVE  LET v == Sorted(s)
               k == best_k(Len(v))
           IN  100 * v[k] <= quantile(v, 50) /\ quantile(v, 50) <= 100 * v[Len(v) + 1 - k]
  <1> DEFINE n == Len(s)
             v == Sorted(s)
             k == best_k(n)
             floor == Floor(s, 50)
             ceil == Ceil(s, 50)
  <1>1. /\ Len(v) = n
        /\ floor \in 0 .. n - 1 /\ ceil \in 0 .. n - 1
        /\ quantile(v, 50) \in Int /\ 100 * v[floor + 1] <= quantile(v, 50)
        /\ quantile(v, 50) <= 100 * v[ceil + 1]
    BY QuantilePlace
  <1>2. n \in Nat /\ n >= 1 /\ s \in Seq(Int)
    OBVIOUS
  <1>3. k \in 1 .. n /\ (k = 1 \/ 2 * k <= n)
    BY <1>2, BestPlace
  <1>4. k <= floor + 1 /\ ceil + 1 <= n + 1 - k
    BY <1>2, <1>3, Halves DEF Floor, Ceil, Spot
  <1>5. \A a, b \in 1 .. n : a <= b => v[a] <= v[b]
    BY <1>2, SortedIs
  <1>6. v \in Seq(Int)
    BY <1>2, SortedIs
  <1>7. \A j \in 1 .. n : v[j] \in Int
    BY <1>1, <1>6, ElementOfSeq
  <1> HIDE DEF v, n, floor, ceil, k
  <1>8. floor + 1 \in 1 .. n /\ ceil + 1 \in 1 .. n /\ n + 1 - k \in 1 .. n /\ k \in 1 .. n
    BY <1>1, <1>2, <1>3
  <1>9. v[k] <= v[floor + 1] /\ v[ceil + 1] <= v[n + 1 - k]
    BY <1>4, <1>5, <1>8
  <1>10. 100 * v[k] <= quantile(v, 50) /\ quantile(v, 50) <= 100 * v[n + 1 - k]
    <2>1. /\ v[k] \in Int /\ v[floor + 1] \in Int /\ v[ceil + 1] \in Int /\ v[n + 1 - k] \in Int
          /\ quantile(v, 50) \in Int
      BY <1>1, <1>7, <1>8
    <2>2. 100 * v[floor + 1] <= quantile(v, 50) /\ quantile(v, 50) <= 100 * v[ceil + 1]
      BY <1>1
    <2> QED
      BY <1>9, <2>1, <2>2
  <1> QED
    BY <1>1, <1>10 DEF k, v

(* What device and host make of the same latencies. *)
LEMMA StatisticsAgree ==
    ASSUME NEW s \in Seq(Nat), Len(s) > 0
    PROVE  LET theirs == robust_stats(s)
               own == print_stat_row(s)
           IN  /\ \A field \in {"n", "min", "max", "median", "p90"} : own[field] = theirs[field]
               /\ Sides(s, 25, theirs.q1) /\ Sides(s, 50, theirs.median) /\ Sides(s, 75, theirs.q3)
               /\ Sides(s, 90, theirs.p90) /\ Sides(s, 99, own.p99)
               /\ 100 * theirs.ci_low <= theirs.median /\ theirs.median <= 100 * theirs.ci_high
  <1> DEFINE v == Sorted(s)
             theirs == robust_stats(s)
             own == print_stat_row(s)
  <1>1. v \in Seq(Nat) /\ Len(v) = Len(s) /\ Len(v) > 0
    <2>1. 50 \in 0 .. 100
      OBVIOUS
    <2>2. v \in Seq(Nat) /\ Len(v) = Len(s)
      BY <2>1, QuantilePlace
    <2> QED
      BY <2>2
  <1> HIDE DEF v
  <1>2. \A p \in 0 .. 100 : quantile_sorted(v, p) = quantile(v, p)
    BY <1>1, QuantilesAgree
  <1>3. \A p \in 0 .. 100 : Sides(s, p, quantile(v, p))
    BY QuantileSides DEF v
  <1>4. /\ theirs.n = Len(v) /\ theirs.min = v[1] /\ theirs.max = v[Len(v)]
        /\ theirs.median = quantile(v, 50) /\ theirs.q1 = quantile(v, 25)
        /\ theirs.q3 = quantile(v, 75) /\ theirs.p90 = quantile(v, 90)
        /\ theirs.ci_low = v[best_k(Len(v))] /\ theirs.ci_high = v[Len(v) + 1 - best_k(Len(v))]
    BY DEF robust_stats, v
  <1>5. /\ own.n = Len(v) /\ own.min = v[1] /\ own.max = v[Len(v)]
        /\ own.median = quantile_sorted(v, 50) /\ own.p90 = quantile_sorted(v, 90)
        /\ own.p99 = quantile_sorted(v, 99)
    BY DEF print_stat_row, v
  <1> HIDE DEF theirs, own
  <1>6. 25 \in 0 .. 100 /\ 50 \in 0 .. 100 /\ 75 \in 0 .. 100 /\ 90 \in 0 .. 100 /\ 99 \in 0 .. 100
    OBVIOUS
  <1>7. \A field \in {"n", "min", "max", "median", "p90"} : own[field] = theirs[field]
    <2>1. own.median = theirs.median /\ own.p90 = theirs.p90
      BY <1>2, <1>4, <1>5, <1>6
    <2> QED
      BY <1>4, <1>5, <2>1
  <1>8. /\ Sides(s, 25, theirs.q1) /\ Sides(s, 50, theirs.median) /\ Sides(s, 75, theirs.q3)
        /\ Sides(s, 90, theirs.p90) /\ Sides(s, 99, own.p99)
    BY <1>2, <1>3, <1>4, <1>5, <1>6
  <1>9. 100 * theirs.ci_low <= theirs.median /\ theirs.median <= 100 * theirs.ci_high
    <2>1. /\ 100 * v[best_k(Len(v))] <= quantile(v, 50)
          /\ quantile(v, 50) <= 100 * v[Len(v) + 1 - best_k(Len(v))]
      BY MedianInside DEF v
    <2> QED
      BY <1>4, <2>1
  <1> QED
    BY <1>7, <1>8, <1>9 DEF theirs, own

-----------------------------------------------------------------------------
(* The latencies of the two: the device appends to its samples what the host
   takes from the rows. *)

\* The loop over a record.
Loop(f, record) ==
    /\ f[0] = <<>>
    /\ \A n \in 1 .. Len(record) :
          f[n] = IF record[n].success THEN Append(f[n - 1], record[n].total) ELSE f[n - 1]

LEMMA TotalsAre ==
    ASSUME NEW record \in Seq(Row)
    PROVE  \E f \in [0 .. Len(record) -> Seq(Nat)] :
              Loop(f, record) /\ totals(record) = f[Len(record)]
  <1> DEFINE N == Len(record)
             X == Seq(Nat)
             Body(x, n) == IF record[n].success THEN Append(x, record[n].total) ELSE x
             step == [n \in 1 .. N |-> [x \in X |-> Body(x, n)]]
             Is(f) == f = [n \in 0 .. N |->
                             IF n = 0 THEN <<>>
                             ELSE IF record[n].success THEN Append(f[n - 1], record[n].total)
                                                       ELSE f[n - 1]]
  <1>0. N \in Nat /\ \A n \in 1 .. N : record[n].total \in Nat
    <2>1. \A n \in 1 .. N : record[n] \in Row
      BY ElementOfSeq
    <2> QED
      BY <2>1 DEF Row
  <1>1. \A n \in 1 .. N : \A x \in X : Body(x, n) \in X
    BY <1>0
  <1>2. <<>> \in X
    OBVIOUS
  <1> HIDE DEF X, N, Body
  <1>3. step \in [1 .. N -> [X -> X]]
    BY <1>1
  <1>4. \A n \in 1 .. N : \A x \in X : step[n][x] = Body(x, n)
    OBVIOUS
  <1> HIDE DEF step
  <1>5. PICK f \in [0 .. N -> X] : Runs(f, N, <<>>, step)
    BY <1>0, <1>2, <1>3, Recursion
  <1>6. f[0] = <<>>
    BY <1>5 DEF Runs
  <1>7. ASSUME NEW n \in 1 .. N PROVE f[n] = Body(f[n - 1], n)
    <2>1. f[n] = step[n][f[n - 1]]
      BY <1>5, Zenon DEF Runs
    <2>2. n - 1 \in 0 .. N
      BY <1>0
    <2>3. f[n - 1] \in X
      BY <1>5, <2>2
    <2> QED
      BY <1>4, <2>1, <2>3
  <1>8. Is(f)
    <2>1. f = [n \in 0 .. N |-> f[n]]
      BY <1>5
    <2>2. \A n \in 0 .. N : n # 0 => n \in 1 .. N
      BY <1>0
    <2> QED
      BY <1>6, <1>7, <2>1, <2>2 DEF Body
  <1> DEFINE g == CHOOSE h : Is(h)
  <1>9. Is(g)
    <2> HIDE DEF Is
    <2> QED
      BY <1>8
  <1>10. totals(record) = g[N]
    BY DEF totals, N
  <1> HIDE DEF g
  <1>11. g[0] = <<>>
    BY <1>0, <1>9
  <1>12. ASSUME NEW n \in 1 .. N PROVE g[n] = Body(g[n - 1], n)
    <2>1. n \in 0 .. N /\ n # 0
      BY <1>0
    <2> QED
      BY <1>9, <2>1, Zenon DEF Body
  <1>13. \A n \in 0 .. N : g[n] = f[n]
    <2> DEFINE T == {n \in 0 .. N : g[n] # f[n]}
    <2>1. SUFFICES ASSUME T # {} PROVE FALSE
      OBVIOUS
    <2>2. PICK m \in T : \A n \in T : m <= n
      <3>1. T \in SUBSET Nat
        BY <1>0
      <3> HIDE DEF T
      <3> QED
        BY <2>1, <3>1, Least
    <2>3. m # 0
      BY <1>6, <1>11
    <2>4. m \in 1 .. N /\ m - 1 \in 0 .. N /\ ~(m <= m - 1)
      BY <1>0, <2>3
    <2>5. g[m - 1] = f[m - 1]
      BY <2>2, <2>4
    <2>6. g[m] = f[m]
      BY <1>7, <1>12, <2>4, <2>5
    <2> QED
      BY <2>6
  <1>14. Loop(f, record)
    BY <1>6, <1>7 DEF Loop, N, Body
  <1>15. totals(record) = f[N]
    BY <1>0, <1>10, <1>13
  <1> QED
    BY <1>5, <1>14, <1>15 DEF N, X

(* One row more. *)
LEMMA TotalsGrow ==
    ASSUME NEW record \in Seq(Row), NEW row \in Row
    PROVE  totals(Append(record, row))
              = IF row.success THEN Append(totals(record), row.total) ELSE totals(record)
  <1> DEFINE N == Len(record)
             longer == Append(record, row)
  <1>1. /\ longer \in Seq(Row) /\ Len(longer) = N + 1 /\ N \in Nat /\ longer[N + 1] = row
        /\ \A n \in 1 .. N : longer[n] = record[n]
    OBVIOUS
  <1> HIDE DEF longer
  <1>2. PICK f \in [0 .. Len(record) -> Seq(Nat)] :
           Loop(f, record) /\ totals(record) = f[Len(record)]
    BY TotalsAre
  <1>3. PICK g \in [0 .. Len(longer) -> Seq(Nat)] :
           Loop(g, longer) /\ totals(longer) = g[Len(longer)]
    BY <1>1, TotalsAre
  <1>4. f[0] = <<>> /\ g[0] = <<>>
    BY <1>2, <1>3 DEF Loop
  <1>5. ASSUME NEW n \in 1 .. N
        PROVE  f[n] = IF record[n].success THEN Append(f[n - 1], record[n].total) ELSE f[n - 1]
    BY <1>2, Zenon DEF Loop
  <1>6. ASSUME NEW n \in 1 .. N + 1
        PROVE  g[n] = IF longer[n].success THEN Append(g[n - 1], longer[n].total) ELSE g[n - 1]
    BY <1>1, <1>3, Zenon DEF Loop
  <1> HIDE DEF N
  <1>7. \A n \in 0 .. N : g[n] = f[n]
    <2> DEFINE T == {n \in 0 .. N : g[n] # f[n]}
    <2>1. SUFFICES ASSUME T # {} PROVE FALSE
      OBVIOUS
    <2>2. PICK m \in T : \A n \in T : m <= n
      <3>1. T \in SUBSET Nat
        BY <1>1
      <3> HIDE DEF T
      <3> QED
        BY <2>1, <3>1, Least
    <2>3. m # 0
      BY <1>4
    <2>4. m \in 1 .. N /\ m \in 1 .. N + 1 /\ m - 1 \in 0 .. N /\ ~(m <= m - 1)
      BY <1>1, <2>3
    <2>5. g[m - 1] = f[m - 1] /\ longer[m] = record[m]
      BY <1>1, <2>2, <2>4
    <2>6. g[m] = f[m]
      BY <1>5, <1>6, <2>4, <2>5
    <2> QED
      BY <2>6
  <1>8. N \in 0 .. N /\ N + 1 \in 1 .. N + 1 /\ (N + 1) - 1 = N
    BY <1>1
  <1>9. g[N + 1] = IF row.success THEN Append(g[N], row.total) ELSE g[N]
    <2>1. g[N + 1] = IF longer[N + 1].success THEN Append(g[(N + 1) - 1], longer[N + 1].total)
                                              ELSE g[(N + 1) - 1]
      BY <1>6, <1>8
    <2> QED
      BY <1>1, <1>8, <2>1
  <1>10. totals(longer) = g[N + 1] /\ totals(record) = f[N] /\ g[N] = f[N]
    BY <1>1, <1>2, <1>3, <1>7, <1>8 DEF N
  <1> QED
    BY <1>9, <1>10 DEF longer

(* The samples are the latencies, and the summary is of them. *)
SummaryInv ==
    /\ samples = Latencies
    /\ pc \in {"match", "done"}
          => summary = IF samples = <<>> THEN <<>> ELSE <<print_stat_row(samples)>>

LEMMA RecordLatencies ==
    ASSUME CampaignInv, samples = Latencies, NEW success \in BOOLEAN, NEW total \in Nat,
           NEW stamp \in Int, Record(success, total, stamp)
    PROVE  samples' = Latencies'
  <1> DEFINE row == [run |-> i, tcp_start |-> stamp, at |-> now, success |-> success, total |-> total]
  <1>1. rows \in Seq(Row) /\ row \in Row /\ row.success = success /\ row.total = total
    BY DEF CampaignInv, TypeOK, Row
  <1>2. CASE warmup
    BY <1>2 DEF Record, Latencies
  <1>3. CASE ~warmup
    <2>1. rows' = Append(rows, row) /\ samples' = IF success THEN Append(samples, total) ELSE samples
      BY <1>3, Zenon DEF Record
    <2> HIDE DEF row
    <2>2. totals(Append(rows, row))
             = IF row.success THEN Append(totals(rows), row.total) ELSE totals(rows)
      BY <1>1, TotalsGrow
    <2>3. Latencies' = totals(rows')
      BY DEF Latencies
    <2>4. totals(rows') = totals(Append(rows, row))
      BY <2>1
    <2> QED
      BY <1>1, <2>1, <2>2, <2>3, <2>4 DEF Latencies
  <1> QED
    BY <1>2, <1>3

LEMMA SummaryInit == Init => SummaryInv
  <1> SUFFICES ASSUME Init PROVE SummaryInv
    OBVIOUS
  <1>1. rows = <<>> /\ samples = <<>> /\ pc = "begin"
    BY DEF Init
  <1>2. totals(rows) = <<>>
    <2>1. rows \in Seq(Row) /\ Len(rows) = 0
      BY <1>1
    <2> QED
      BY <2>1, TotalsAre DEF Loop
  <1> QED
    BY <1>1, <1>2 DEF SummaryInv, Latencies

LEMMA SummaryNext == ASSUME IInv, SummaryInv, [Next]_vars PROVE SummaryInv'
  <1> USE DEF clock, device, host
  <1>0. CampaignInv /\ samples = Latencies /\ 0 \in Nat /\ 0 \in Int
    BY DEF IInv, SummaryInv
  <1>a. TypeOK
    BY <1>0 DEF CampaignInv
  <1>1. ASSUME pc' \notin {"match", "done"}, UNCHANGED <<samples, rows>> PROVE SummaryInv'
    BY <1>0, <1>1 DEF SummaryInv, Latencies
  <1>2. ASSUME pc' = "cooldown", samples' = Latencies' PROVE SummaryInv'
    BY <1>2 DEF SummaryInv
  <1>3. ASSUME pc' \in {"match", "done"} => pc \in {"match", "done"},
               UNCHANGED <<samples, rows, summary>> PROVE SummaryInv'
    BY <1>0, <1>3 DEF SummaryInv, Latencies
  <1>4. CASE SetSystemTime
    BY <1>3, <1>4 DEF SetSystemTime
  <1>5. CASE NoConnection
    BY <1>0, <1>2, <1>5, RecordLatencies DEF NoConnection
  <1>6. CASE NoStream
    <2>1. Stamped \in Int
      BY <1>a, ConstantsHold DEF Stamped, TypeOK, Constants
    <2> QED
      BY <1>0, <1>2, <1>6, <2>1, RecordLatencies DEF NoStream
  <1>7. CASE OpenTcp
    BY <1>1, <1>7 DEF OpenTcp
  <1>8. CASE Attempt
    <2>1. PICK delay \in SynDelays, duration \in Durations, success \in BOOLEAN :
             Record(success, delay + duration, tcp_start)
      BY <1>8 DEF Attempt
    <2>2. delay + duration \in Nat /\ tcp_start \in Int /\ pc' = "cooldown"
      BY <1>8, <1>a, ConstantsHold DEF Attempt, Constants, TypeOK
    <2> QED
      BY <1>0, <1>2, <2>1, <2>2, RecordLatencies
  <1>9. CASE NextAttempt
    <2>1. pc' \in {"summary", "begin"} /\ UNCHANGED <<samples, rows>>
      BY <1>9 DEF NextAttempt
    <2> QED
      BY <1>1, <2>1
  <1>10. CASE Summary
    <2>1. /\ summary' = IF samples = <<>> THEN <<>> ELSE <<print_stat_row(samples)>>
          /\ UNCHANGED <<samples, rows>>
      BY <1>10 DEF Summary
    <2> QED
      BY <1>0, <2>1 DEF SummaryInv, Latencies
  <1>11. CASE Matched
    BY <1>3, <1>11 DEF Matched
  <1>12. CASE Unmatched
    BY <1>3, <1>12 DEF Unmatched
  <1>13. CASE Analyzed
    BY <1>3, <1>13 DEF Analyzed
  <1>14. CASE UNCHANGED vars
    BY <1>3, <1>14 DEF vars
  <1> QED
    BY <1>4, <1>5, <1>6, <1>7, <1>8, <1>9, <1>10, <1>11, <1>12, <1>13, <1>14 DEF Next

\* What the device prints of its samples is what the host makes of the rows, in every
\* campaign and for all latencies: the same quantiles, with enough samples on each of their
\* sides, and an interval that is about the median.
\* (print_stat_row, latency_summary, robust_stats)
THEOREM Summaries == Spec => []SummariesAgree
  <1>1. ASSUME IInv, SummaryInv PROVE SummariesAgree
    <2> SUFFICES ASSUME pc = "done"
                 PROVE  IF Latencies = <<>> THEN summary = <<>>
                        ELSE LET theirs == robust_stats(Latencies)
                                 own == summary[1]
                             IN  /\ \A field \in {"n", "min", "max", "median", "p90"} :
                                       own[field] = theirs[field]
                                 /\ Sides(Latencies, 25, theirs.q1)
                                 /\ Sides(Latencies, 50, theirs.median)
                                 /\ Sides(Latencies, 75, theirs.q3)
                                 /\ Sides(Latencies, 90, theirs.p90)
                                 /\ Sides(Latencies, 99, own.p99)
                                 /\ 100 * theirs.ci_low <= theirs.median
                                 /\ theirs.median <= 100 * theirs.ci_high
      BY Zenon DEF SummariesAgree, Sides
    <2>1. /\ Latencies \in Seq(Nat)
          /\ summary = IF Latencies = <<>> THEN <<>> ELSE <<print_stat_row(Latencies)>>
      BY <1>1 DEF SummaryInv, IInv, CampaignInv, TypeOK
    <2>2. CASE Latencies = <<>>
      BY <2>1, <2>2
    <2>3. CASE Latencies # <<>>
      <3>1. Len(Latencies) > 0
        BY <2>1, <2>3
      <3>2. summary[1] = print_stat_row(Latencies)
        BY <2>1, <2>3
      <3> QED
        BY <2>1, <2>3, <3>1, <3>2, StatisticsAgree
    <2> QED
      BY <2>2, <2>3
  <1>2. Spec => []SummaryInv
    BY SummaryInit, SummaryNext, Inductive, PTL DEF Spec
  <1> QED
    BY <1>1, <1>2, Inductive, PTL
=============================================================================
