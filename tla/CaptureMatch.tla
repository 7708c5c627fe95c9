---------------------------- MODULE CaptureMatch ----------------------------
(***************************************************************************)
(* One campaign of the connection benchmark and the packet capture made of *)
(* it, from the attempts of mqtt_client/main.c to the rows of the host:    *)
(* tools/analyze_tls_pcaps.py looks for the attempt of each TCP stream by  *)
(* the time the device wrote down, tools/summarize_tls_capture_effects.py  *)
(* joins the two, and device and host both sum the latencies up.           *)
(*                                                                         *)
(* Time is in ticks.  The device's clock is `offset' away from that of the *)
(* capture; SNTP sets it to whole seconds, again and again.  Warm-ups have *)
(* streams in the capture and no rows in the record.                       *)
(***************************************************************************)
EXTENDS Statistics

CONSTANTS Iters, Warmup,   \* TLS_BENCH_ITERS, TLS_BENCH_WARMUP
          Cooldown,        \* TLS_BENCH_COOLDOWN_MS
          Second,          \* ticks of a second
          Window,          \* --match-window-ms
          Durations,       \* what an attempt takes once its SYN has arrived
          SynDelays,       \* how late the first SYN that is not lost is sent
          MaxSettings      \* bound: how often SNTP sets the clock again

ASSUME CampaignAssumption == /\ Iters \in Nat \ {0} /\ Warmup \in Nat
                             /\ Second \in Nat \ {0} /\ Window \in Nat /\ Cooldown \in Nat
                             /\ Durations \subseteq Nat /\ SynDelays \subseteq Nat
                             /\ MaxSettings \in Nat

VARIABLES pc, i, warmup,      \* position in run_handshake_benchmark
          now,                \* the time of the capture
          offset, settings,   \* the device's clock minus it; how often it was set again
          tcp_start,          \* tcp_start_epoch_ms of the attempt, 0 until TCP begins
          samples,            \* the array of the latencies
          summary,            \* the row print_stat_row prints
          rows,               \* the host's normalized attempts; `at' is the true time of tcp_start
          streams,            \* the streams of the capture by their SYN; `own' is the row's index
          next,               \* match_attempt_runs: the stream it is at,
          unused,             \* the attempts that have no stream,
          match               \* the runs of the streams before `next'
device == <<i, warmup, now, tcp_start, samples, summary, rows, streams>>
clock == <<offset, settings>>
host == <<next, unused, match>>
vars == <<pc, device, clock, host>>

-----------------------------------------------------------------------------
(* The device. *)

SetTime == - (now % Second)

Init == /\ pc = "begin" /\ i = 0 /\ warmup = (Warmup > 0)
        /\ now \in Second .. 2 * Second - 1
        /\ offset \in - (Second - 1) .. 0 /\ settings = 0
        /\ tcp_start = 0 /\ samples = <<>> /\ summary = <<>>
        /\ rows = <<>> /\ streams = <<>>
        /\ next = 1 /\ unused = {} /\ match = <<>>

\* mqtt_sntp_set_system_time: the whole seconds of the server's time.
SetSystemTime ==
    /\ pc \in {"begin", "connecting", "cooldown"} /\ settings < MaxSettings
    /\ offset' = SetTime
    /\ settings' = settings + 1
    /\ UNCHANGED <<pc, device, host>>

\* The row of an attempt, which has a latency if it succeeded.  Warm-ups leave none.
Record(success, total, stamp) ==
    IF warmup THEN UNCHANGED <<rows, samples>>
    ELSE /\ rows' = Append(rows, [run |-> i, tcp_start |-> stamp, at |-> now,
                                  success |-> success, total |-> total])
         /\ samples' = IF success THEN Append(samples, total) ELSE samples

\* The connection could not be allocated or the name not be resolved.
NoConnection ==
    /\ pc = "begin"
    /\ tcp_start' = 0
    /\ Record(FALSE, 0, 0)
    /\ pc' = "cooldown"
    /\ UNCHANGED <<i, warmup, now, summary, streams, clock, host>>

\* tcp_start_epoch_ms is written, and then TCP has no PCB or no memory for the SYN.
Stamped == now + offset
NoStream ==
    /\ pc = "begin"
    /\ tcp_start' = Stamped
    /\ Record(FALSE, 0, Stamped)
    /\ pc' = "cooldown"
    /\ UNCHANGED <<i, warmup, now, summary, streams, clock, host>>

\* tcp_connect, and what happens until the connection is closed: the capture sees the first
\* SYN that gets through.
OpenTcp ==
    /\ pc = "begin"
    /\ tcp_start' = Stamped
    /\ pc' = "connecting"
    /\ UNCHANGED <<i, warmup, now, samples, summary, rows, streams, clock, host>>

Attempt ==
    /\ pc = "connecting"
    /\ \E delay \in SynDelays, duration \in Durations, success \in BOOLEAN :
          /\ Record(success, delay + duration, tcp_start)
          /\ streams' = Append(streams, [start |-> now + delay,
                                         own   |-> IF warmup THEN 0 ELSE Len(rows')])
          /\ now' = now + delay + duration
    /\ pc' = "cooldown"
    /\ UNCHANGED <<i, warmup, tcp_start, summary, clock, host>>

\* The last sleep of the loop is followed by the summary.
NextAttempt ==
    /\ pc = "cooldown"
    /\ now' = now + Cooldown
    /\ IF warmup
       THEN /\ i' = IF i + 1 < Warmup THEN i + 1 ELSE 0
            /\ warmup' = (i + 1 < Warmup)
       ELSE i' = i + 1 /\ UNCHANGED warmup
    /\ pc' = IF ~warmup' /\ i' = Iters THEN "summary" ELSE "begin"
    /\ UNCHANGED <<tcp_start, samples, summary, rows, streams, clock, host>>

-----------------------------------------------------------------------------
(* The host. *)

\* Rows of attempts that got to TCP.
candidates == {r \in DOMAIN rows : rows[r].tcp_start > 0}

Summary ==
    /\ pc = "summary"
    /\ summary' = IF samples = <<>> THEN <<>> ELSE <<print_stat_row(samples)>>
    /\ unused' = candidates
    /\ pc' = "match"
    /\ UNCHANGED <<i, warmup, now, tcp_start, samples, rows, streams, clock, next, match>>

Delta(k, r) == IF streams[k].start >= rows[r].tcp_start
               THEN streams[k].start - rows[r].tcp_start
               ELSE rows[r].tcp_start - streams[k].start

\* Mutant: the first attempt that is left, whatever its time.
First(k, r) == r \in unused /\ \A other \in unused : r <= other

\* min of the pairs of a difference and an index.
Nearest(k, r) == /\ r \in unused
                 /\ \A other \in unused : \/ Delta(k, r) < Delta(k, other)
                                          \/ Delta(k, r) = Delta(k, other) /\ r <= other

\* An iteration of match_attempt_runs.
Matched ==
    /\ pc = "match" /\ next <= Len(streams)
    /\ \E r \in unused : /\ Nearest(next, r) /\ Delta(next, r) <= Window
                         /\ match' = Append(match, rows[r].run)
                         /\ unused' = unused \ {r}
    /\ next' = next + 1
    /\ UNCHANGED <<pc, device, clock>>

Unmatched ==
    /\ pc = "match" /\ next <= Len(streams)
    /\ \A r \in unused : Nearest(next, r) => Delta(next, r) > Window
    /\ match' = Append(match, -1)
    /\ next' = next + 1
    /\ UNCHANGED <<pc, device, clock, unused>>

Analyzed ==
    /\ pc = "match" /\ next > Len(streams)
    /\ pc' = "done"
    /\ UNCHANGED <<device, clock, host>>

Next == \/ SetSystemTime \/ NoConnection \/ NoStream \/ OpenTcp \/ Attempt \/ NextAttempt
        \/ Summary \/ Matched \/ Unmatched \/ Analyzed

Spec == Init /\ [][Next]_vars

\* The stream the join has for a run, 0 if none: of two rows with the run, the later.
Joined(run) ==
    LET ks == {k \in DOMAIN match : match[k] = run}
    IN  IF ks = {} THEN 0 ELSE CHOOSE k \in ks : \A j \in ks : j <= k

\* latency_summary: the totals of the rows that say success, in the order of the record.
totals(record) ==
    LET upto[n \in 0 .. Len(record)] ==
            IF n = 0 THEN <<>>
            ELSE IF record[n].success THEN Append(upto[n - 1], record[n].total) ELSE upto[n - 1]
    IN  upto[Len(record)]

\* The latencies the host sums up.
Latencies == totals(rows)

-----------------------------------------------------------------------------
(* Properties. *)

\* Every variable has its type.
TypeOK == /\ pc \in {"begin", "connecting", "cooldown", "summary", "match", "done"}
          /\ i \in Nat /\ warmup \in BOOLEAN /\ now \in Nat
          /\ offset \in - (Second - 1) .. 0 /\ settings \in 0 .. MaxSettings
          /\ tcp_start \in Int
          /\ samples \in Seq(Nat)
          /\ rows \in Seq([run : Nat, tcp_start : Int, at : Nat, success : BOOLEAN, total : Nat])
          /\ streams \in Seq([start : Nat, own : Nat])
          /\ next \in Nat \ {0} /\ unused \subseteq DOMAIN rows
          /\ match \in Seq(Int)

\* The first SYN of each stream is more than the window and a second away from the time at
\* which any other attempt, warm-ups included, that has a row began its own.
Separated ==
    \A k \in DOMAIN streams : \A r \in candidates :
        \/ streams[k].own = r
        \/ streams[k].start > rows[r].at + Window + Second
        \/ rows[r].at > streams[k].start + Window + Second

\* Attempts that are far enough apart get their own streams, whatever whole seconds SNTP
\* sets the clock to in between: the row of an attempt is joined to its stream, if its first
\* SYN was in time, and otherwise to none; one with no stream is joined to none, and the
\* streams of the warm-ups go to nobody.  (match_attempt_runs)
OwnStream ==
    pc = "done" /\ Separated =>
        \A r \in DOMAIN rows :
            /\ Joined(rows[r].run) # 0 => streams[Joined(rows[r].run)].own = r
            /\ \A k \in DOMAIN streams :
                  streams[k].own = r /\ streams[k].start + Second <= rows[r].at + Window + 1
                      => Joined(rows[r].run) = k

\* What the device prints of the latencies is what the host makes of the rows: by two ways
\* to interpolate, on each side of a quantile are as many samples as there have to be,
\* and the confidence interval is about the median.
\* (print_stat_row, robust_stats)
SummariesAgree ==
    pc = "done" =>
        IF Latencies = <<>> THEN summary = <<>>
        ELSE LET theirs == robust_stats(Latencies)
                 own == summary[1]
                 Side(p, q) == /\ 100 * Cardinality({k \in DOMAIN Latencies : 100 * Latencies[k] <= q})
                                    > p * (Len(Latencies) - 1)
                               /\ 100 * Cardinality({k \in DOMAIN Latencies : 100 * Latencies[k] >= q})
                                    > (100 - p) * (Len(Latencies) - 1)
             IN  /\ \A field \in {"n", "min", "max", "median", "p90"} : own[field] = theirs[field]
                 /\ Side(25, theirs.q1) /\ Side(50, theirs.median) /\ Side(75, theirs.q3)
                 /\ Side(90, theirs.p90) /\ Side(99, own.p99)
                 /\ 100 * theirs.ci_low <= theirs.median /\ theirs.median <= 100 * theirs.ci_high

\* tools/analyze_tls_pcaps.py: epoch-time matching "remains correct when a DNS/allocation
\* failure produces no TCP stream".
StreamsAreOwn ==
    \A k \in DOMAIN match : match[k] # -1 =>
        streams[k].own # 0 /\ match[k] = rows[streams[k].own].run
=============================================================================
