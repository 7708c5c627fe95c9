---------------------------- MODULE BenchCampaign ----------------------------
(***************************************************************************)
(* The connection benchmark of mqtt_client/main.c and the serial capture   *)
(* it leaves, over the transport's contract TlsAttempt and read back by    *)
(* the host analysis HsAnalysis.                                           *)
(*                                                                         *)
(* pc is the position of main: in its start-up (Wi-Fi, then the clock),    *)
(* in run_handshake_benchmark and, in it, in run_benchmark_attempt.  The   *)
(* board may hang in the transport and may be reset at any point: RAM is   *)
(* lost, the capture goes on, and a row that was being printed is cut.     *)
(* The campaign number is compiled in, so the next boot starts the same    *)
(* runs again.                                                             *)
(***************************************************************************)
EXTENDS HsAnalysis

CONSTANTS Stages, Errors,   \* failures of the transport, see TlsAttempt
          Iters,            \* TLS_BENCH_ITERS
          Warmup,           \* TLS_BENCH_WARMUP
          Cuts,             \* fields a cut line may have
          WifiAttempts,     \* how often wifi_connect tries
          MaxResets         \* bound: resets of the board

ASSUME BenchCampaignAssumption ==
    /\ {Iters, WifiAttempts} \subseteq Nat \ {0} /\ {Warmup, MaxResets} \subseteq Nat
    /\ Cuts \subseteq 0 .. RowFields - 1
    /\ "none" \notin Stages /\ "ok" \notin Errors

VARIABLES
    pc, wifi,               \* position in main, attempt of wifi_connect (1 outside it)
    clock, sntp_time_set,   \* the time is sane, and the flag of the SNTP callback
    i, warmup,              \* position in the loops of run_handshake_benchmark
    phase, attempt,         \* the transport's caller and tls_attempt_result_t
    success,                \* run_benchmark_attempt's result
    successes, failures, warmup_successes,
    samples,                \* the run whose latencies are in each slot of the arrays
    capture,                \* the lines the host has
    resets                  \* history: how often the board was reset

tallies == <<successes, failures, warmup_successes, samples>>
startup == <<wifi, clock, sntp_time_set>>
campaign == <<i, warmup, phase, attempt, success, tallies, capture, resets>>
vars == <<pc, startup, campaign>>

Transport == INSTANCE TlsAttempt WITH result <- attempt

MqttErrors == {"mqtt_packet", "mqtt_send", "refused"}

\* The phases an attempt that failed in a stage went through.
Phases(stage) ==
    CASE stage = "dns" -> {"dns"}
      [] stage = "tcp" -> {"dns", "tcp"}
      [] stage \in {"mqtt", "none"} -> {"dns", "tcp", "tls", "mqtt"}
      [] OTHER -> {"dns", "tcp", "tls"}

Header == [type |-> "header"]
Start  == [type |-> "start", run |-> i, fields |-> StartFields, dated |-> clock]

\* total_ms adds three of the phases.
Row(fields) ==
    [type |-> "row", run |-> i, fields |-> fields, success |-> success,
     dated |-> clock, stage |-> attempt.stage, error |-> attempt.error, timeout |-> attempt.timed_out,
     total |-> Phases(attempt.stage) \cap {"tcp", "tls", "mqtt"}]

Printed(line) == capture' = Append(capture, line)

-----------------------------------------------------------------------------
(* main up to the benchmark. *)

\* The Wi-Fi chip comes up, or main returns.
PowerOn ==
    /\ pc = "off"
    /\ pc' \in {"wifi", "returned"}
    /\ wifi' = 1 /\ clock' = FALSE /\ sntp_time_set' = FALSE
    /\ UNCHANGED campaign

\* sleep_ms, and the head of the loop of wifi_connect.
NextWifiAttempt ==
    IF wifi < WifiAttempts
    THEN pc' = "wifi" /\ wifi' = wifi + 1
    ELSE pc' = "returned" /\ wifi' = 1

WifiStarts ==
    /\ pc = "wifi"
    /\ \/ pc' = "wifi_wait" /\ UNCHANGED wifi
       \/ NextWifiAttempt
    /\ UNCHANGED <<clock, sntp_time_set, campaign>>

\* The link is up with an address; it failed, or the minute of the attempt is over.
WifiWait ==
    /\ pc = "wifi_wait"
    /\ \/ pc' = "time" /\ wifi' = 1
       \/ NextWifiAttempt
    /\ UNCHANGED <<clock, sntp_time_set, campaign>>

SyncStarts ==
    /\ pc = "time"
    /\ IF clock
       THEN pc' = "boot" /\ UNCHANGED sntp_time_set
       ELSE pc' = "sntp_wait" /\ sntp_time_set' = FALSE
    /\ UNCHANGED <<wifi, clock, campaign>>

\* The callback of the SNTP client; what a server says need not be a time after
\* MIN_VALID_UNIX_TIME.  Answers to a client that found the time sane are taken to be sane.
SetSystemTime ==
    /\ pc = "sntp_wait"
    /\ clock' \in BOOLEAN /\ sntp_time_set' = TRUE
    /\ UNCHANGED <<pc, wifi, campaign>>

Synced == sntp_time_set /\ clock

SyncReturns ==
    /\ pc = "sntp_wait"
    /\ \/ Synced /\ pc' = "boot"
       \/ pc' = "returned"
    /\ UNCHANGED <<startup, campaign>>

-----------------------------------------------------------------------------
(* run_benchmark_attempt. *)

PrintsStartAlways == TRUE   \* mutation: warm-ups print a start as well
PrintsStart == ~warmup

Begin ==
    /\ pc = "begin"
    /\ pc' = "connect"
    /\ attempt' = Transport!NoFailure
    /\ success' = FALSE
    /\ IF PrintsStart THEN Printed(Start) ELSE UNCHANGED capture
    /\ UNCHANGED <<startup, i, warmup, phase, tallies, resets>>

Connect ==
    /\ pc = "connect"
    /\ \/ Transport!Begin /\ pc' = "connecting"
       \/ Transport!Refuse /\ pc' = "report"
    /\ UNCHANGED <<startup, i, warmup, success, tallies, capture, resets>>

Connected ==
    /\ pc = "connecting"
    /\ Transport!Establish
    /\ pc' = "mqtt"
    /\ UNCHANGED <<startup, i, warmup, success, tallies, capture, resets>>

ConnectFails ==
    /\ pc = "connecting"
    /\ \E stage \in Stages, error \in Errors : Transport!Fail(stage, error)
    /\ pc' = "closing"
    /\ UNCHANGED <<startup, i, warmup, success, tallies, capture, resets>>

MqttSucceeds ==
    /\ pc = "mqtt"
    /\ success' = TRUE
    /\ pc' = "close"
    /\ UNCHANGED <<startup, i, warmup, phase, attempt, tallies, capture, resets>>

\* Mutation: the error code of a deadline is the packet error.
MqttFailureRaw(error, timed_out) ==
    [stage |-> "mqtt", error |-> error, timed_out |-> timed_out]

\* A deadline takes the place of the packet error it caused.
MqttFailure(error, timed_out) ==
    [stage |-> "mqtt", error |-> IF timed_out THEN "timeout" ELSE error,
     timed_out |-> timed_out]

\* tls_io_timed_out answers for a read, and only CONNACK is read.
MqttFails ==
    /\ pc = "mqtt"
    /\ \E error \in MqttErrors, timed_out \in BOOLEAN :
          /\ timed_out => error = "mqtt_packet"
          /\ attempt' = MqttFailure(error, timed_out)
    /\ pc' = "close"
    /\ UNCHANGED <<startup, i, warmup, phase, success, tallies, capture, resets>>

Close ==
    /\ pc = "close"
    /\ Transport!Close
    /\ pc' = "closing"
    /\ UNCHANGED <<startup, i, warmup, success, tallies, capture, resets>>

Closed ==
    /\ pc = "closing"
    /\ Transport!Return
    /\ pc' = "report"
    /\ UNCHANGED <<startup, i, warmup, success, tallies, capture, resets>>

-----------------------------------------------------------------------------
(* run_handshake_benchmark. *)

SlotOfRun == i   \* mutation: the arrays are indexed by the run
Slot == successes

CountedAlways(ok) == TRUE   \* mutation: a failed attempt counts as a success
Counted(ok) == ok

Tally ==
    IF Counted(success)
    THEN /\ successes' = successes + 1
         /\ samples' = [samples EXCEPT ![Slot] = i]
         /\ UNCHANGED <<failures, warmup_successes>>
    ELSE /\ failures' = failures + 1
         /\ UNCHANGED <<successes, warmup_successes, samples>>

ReportMeasured ==
    /\ pc = "report" /\ ~warmup
    /\ Printed(Row(RowFields))
    /\ Tally
    /\ pc' = "cooldown"
    /\ UNCHANGED <<startup, i, warmup, phase, attempt, success, resets>>

ReportWarmup ==
    /\ pc = "report" /\ warmup
    /\ warmup_successes' = IF success THEN warmup_successes + 1 ELSE warmup_successes
    /\ pc' = "cooldown"
    /\ UNCHANGED <<startup, i, warmup, phase, attempt, success, successes, failures, samples,
                   capture, resets>>

\* Mutation: a failed warm-up is tried again.
FollowingIfOk == IF warmup /\ ~success THEN i ELSE i + 1

Following == i + 1

\* sleep_ms, and the head of the loop of the warm-up or of the measurement.
Cooldown ==
    /\ pc = "cooldown"
    /\ LET next == Following IN
       IF warmup
       THEN IF next < Warmup THEN i' = next /\ UNCHANGED warmup ELSE i' = 0 /\ warmup' = FALSE
       ELSE i' = next /\ UNCHANGED warmup
    /\ pc' = IF ~warmup /\ i' = Iters THEN "summary" ELSE "begin"
    /\ UNCHANGED <<startup, phase, attempt, success, tallies, capture, resets>>

Summary ==
    /\ pc = "summary"
    /\ Printed([type |-> "summary", attempted |-> Iters, successful |-> successes,
                failures |-> failures])
    /\ pc' = "done"
    /\ UNCHANGED <<startup, i, warmup, phase, attempt, success, tallies, resets>>

\* The counters and the arrays are new.
Boot ==
    /\ pc = "boot"
    /\ pc' = "begin"
    /\ Printed(Header)
    /\ i' = 0 /\ warmup' = (Warmup > 0)
    /\ successes' = 0 /\ failures' = 0 /\ warmup_successes' = 0
    /\ samples' = [slot \in 0 .. Iters - 1 |-> -1]
    /\ phase' = "idle" /\ attempt' = Transport!NoFailure /\ success' = FALSE
    /\ UNCHANGED <<startup, resets>>

-----------------------------------------------------------------------------
(* The environment. *)

\* The firmware stops in the transport.
Hang ==
    /\ pc \in {"connecting", "mqtt", "close", "closing"}
    /\ Transport!Halt
    /\ pc' = "hung"
    /\ UNCHANGED <<startup, i, warmup, success, tallies, capture, resets>>

Reset ==
    /\ pc # "off" /\ resets < MaxResets
    /\ pc' = "off"
    /\ resets' = resets + 1
    /\ \/ UNCHANGED capture
       \/ /\ pc = "report" /\ ~warmup
          /\ \E fields \in Cuts : Printed(Row(fields))
    /\ UNCHANGED <<startup, i, warmup, phase, attempt, success, tallies>>

Init ==
    /\ pc = "off" /\ wifi = 1 /\ clock = FALSE /\ sntp_time_set = FALSE
    /\ i = 0 /\ warmup = FALSE
    /\ phase = "idle" /\ attempt = Transport!NoFailure /\ success = FALSE
    /\ successes = 0 /\ failures = 0 /\ warmup_successes = 0
    /\ samples = [slot \in 0 .. Iters - 1 |-> -1]
    /\ capture = <<>> /\ resets = 0

Device ==
    \/ PowerOn \/ WifiStarts \/ WifiWait \/ SyncStarts \/ SyncReturns \/ Boot
    \/ Begin \/ Connect \/ Connected \/ ConnectFails \/ MqttSucceeds \/ MqttFails
    \/ Close \/ Closed \/ ReportMeasured \/ ReportWarmup \/ Cooldown \/ Summary

Next == Device \/ SetSystemTime \/ Hang \/ Reset

\* The main loop runs, and a call of the transport returns; one that does not is a Hang.
Spec == Init /\ [][Next]_vars /\ WF_vars(Device)

-----------------------------------------------------------------------------
(* Properties. *)

Running == {"begin", "connect", "connecting", "mqtt", "close", "closing", "report", "cooldown",
            "summary", "done"}
StageNames == Stages \cup {"none", "dns", "mqtt"}
ErrorNames == Errors \cup MqttErrors \cup {"ok", "allocation", "timeout"}
Line == {Header}
        \cup [type : {"start"}, run : Nat, fields : {StartFields}, dated : BOOLEAN]
        \cup [type : {"row"}, run : Nat, fields : 0 .. RowFields, success : BOOLEAN,
              dated : BOOLEAN, stage : StageNames, error : ErrorNames, timeout : BOOLEAN,
              total : SUBSET {"tcp", "tls", "mqtt"}]
        \cup [type : {"summary"}, attempted : {Iters}, successful : Nat, failures : Nat]

\* Every variable has its type.
TypeOK ==
    /\ pc \in Running \cup {"off", "wifi", "wifi_wait", "time", "sntp_wait", "boot", "returned",
                          "hung"}
    /\ wifi \in 1 .. WifiAttempts /\ clock \in BOOLEAN /\ sntp_time_set \in BOOLEAN
    /\ i \in Nat /\ warmup \in BOOLEAN /\ success \in BOOLEAN
    /\ successes \in Nat /\ failures \in Nat /\ warmup_successes \in Nat /\ resets \in Nat
    /\ phase \in {"idle", "connecting", "ready", "closing", "halted"} 
    /\ attempt \in [stage : StageNames, error : ErrorNames, timed_out : BOOLEAN]
    /\ samples \in [0 .. Iters - 1 -> Int]
    /\ capture \in Seq(Line)

\* What the present boot printed.
Boots == {k \in DOMAIN capture : capture[k].type = "header"}
ThisBoot ==
    LET last == CHOOSE k \in Boots : \A j \in Boots : j <= k
    IN  SubSeq(capture, last, Len(capture))

\* One start and one row per measured attempt, however it ends, and in this order: a start
\* is followed by the row of its run unless the attempt is still going on, hung, or was cut
\* off by a reset; no row comes without its start.  Both carry a synchronized time, by which the
\* host finds the attempt in the packet capture.
RowPerAttempt ==
    \A k \in DOMAIN capture :
        /\ capture[k].type = "start" =>
              IF k = Len(capture)
              THEN pc \notin {"begin", "cooldown", "summary", "done"}
              ELSE \/ capture[k + 1].type = "row" /\ capture[k + 1].run = capture[k].run
                   \/ capture[k + 1].type = "header"
        /\ capture[k].type = "row" =>
              k > 1 /\ capture[k - 1].type = "start" /\ capture[k - 1].run = capture[k].run
        /\ capture[k].type \in {"start", "row"} => capture[k].dated

\* The classification in a row is consistent, whoever filled it in: the transport, or main
\* when the connection was there and MQTT failed.
RowClassified ==
    \A row \in {capture[k] : k \in {j \in DOMAIN capture : capture[j].type = "row"}} :
        /\ row.success <=> row.stage = "none"
        /\ row.success <=> row.error = "ok"
        /\ row.timeout <=> row.error = "timeout"

\* The counts the device prints at the end are those the host finds in the same boot's
\* lines, warm-ups left out, and no run of a boot that got to the end is missing.
DeviceAgreesWithHost ==
    pc = "done" =>
        LET host == summarize(ThisBoot) IN
        /\ host.attempted = Iters
        /\ host.successful = successes /\ host.failures = failures
        /\ incomplete_attempts(ThisBoot) = {}

\* The latencies the device sums up, the first n slots, are those of the successful rows of
\* this boot in their order, and of no failed run: a row's slot is the number of successful
\* rows before it.
SamplesAreSuccesses ==
    pc \in {"begin", "cooldown", "summary", "done"} =>
        LET good == {k \in DOMAIN ThisBoot : ThisBoot[k].type = "row" /\ ThisBoot[k].success}
        IN  /\ Cardinality(good) = successes
            /\ \A k \in good :
                  samples[Cardinality({j \in good : j < k})] = ThisBoot[k].run

\* Once powered the campaign ends, unless main gives up on the network or the time, or the
\* board hangs or is reset: the Wi-Fi is tried so often and no more, failed attempts and
\* failed warm-ups are not tried again.
CampaignEnds == pc = "wifi" ~> pc \in {"done", "returned", "hung", "off"}

\* docs/framework.md: the result parsers preserve failed and incomplete attempts.  A start
\* that has no row of its own, and is not the attempt now going on, is reported.
IncompletePreserved ==
    \A k \in DOMAIN capture :
        capture[k].type = "start" /\ k < Len(capture) /\ capture[k + 1].type = "header"
            => capture[k].run \in incomplete_attempts(capture)

\* The same sentence: a row that was cut is not a successful attempt.
CutRowIsNoSuccess ==
    \A row \in parse(capture) : row.success => capture[row.at].success

\* docs/framework.md: the total is from the start of the attempt to its end.
TotalCoversAttempt ==
    \A k \in DOMAIN capture :
        capture[k].type = "row" => capture[k].total = Phases(capture[k].stage)
=============================================================================
