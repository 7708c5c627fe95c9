----------------------------- MODULE PrimitiveBench -----------------------------
(***************************************************************************)
(* The primitive benchmark: bench_run of bench.c over the cycle counter    *)
(* BenchCycles, and the two programs that call it, benchmark_main.c (signs *)
(* and verifies) and snova_verify_main.c (verifies a stored signature).    *)
(*                                                                         *)
(* A call of the scheme takes any time and gives what its adapter makes of *)
(* its library's answer.  Time passes in the measured calls and in the     *)
(* reads of the counter; what passes elsewhere shows as a later first read.*)
(***************************************************************************)
EXTENDS BenchCycles, SchemeAdapter, Sorting, SequencesExt

CONSTANTS Iters, Warmup, MaxIters,   \* BENCH_ITERS, BENCH_WARMUP, BENCH_MAX_ITERS
          Programs,                  \* of {"sign_verify", "verify_only"}
          SigBuf                     \* SIG_BUF

ASSUME PrimitiveBenchAssumption ==
    {Iters, MaxIters} \subseteq Nat \ {0} /\ {Warmup, SigBuf} \subseteq Nat

VARIABLES
    program, adapter, pc,
    op,             \* the operation bench_run is given
    i, rc,          \* its loop, and what the last call returned
    c0, cyc,        \* its first reading, and the array of the differences
    g_sig, g_siglen, \* the signature, of the verifying program that in g_sm
    log,            \* the lines printed
    entered,        \* history: when the measured call began
    calls,          \* history: the cycles of each measured call, without and with the reads
    returned        \* history: what each call since the beginning of bench_run returned

bench == <<i, rc, c0, cyc>>
history == <<entered, calls, returned>>
signature == <<g_sig, g_siglen>>
main == <<program, adapter, op, log>>
vars == <<counter, reader, pc, bench, history, signature, main>>

iters == IF Iters > MaxIters THEN MaxIters ELSE Iters

Printed(line) == log' = Append(log, line)

MemoryStart == [type |-> "MEMORY_START", op |-> op]
Memory == [type |-> "MEMORY", op |-> op]

Total(s) == FoldSeq(+, 0, s)

\* Twice the median, which may lie between two cycles.
Median(s) ==
    LET sorted == Sorted(s)
        n == Len(s)
    IN  IF n % 2 = 1 THEN 2 * sorted[n \div 2 + 1] ELSE sorted[n \div 2] + sorted[n \div 2 + 1]

Stats ==
    LET s == [k \in 1 .. iters |-> cyc[k - 1]]
    IN  [n |-> iters, min |-> Min(Range(s)), max |-> Max(Range(s)), median |-> Median(s),
         sum |-> Total(s)]

Result == [type |-> "RESULT", op |-> op, sig_bytes |-> g_siglen, stats |-> Stats]

-----------------------------------------------------------------------------
(* The calls of the scheme. *)

sign_iter ==
    \E s \in scheme_do_sign(adapter, g_siglen) :
        /\ rc' = s.rc
        /\ g_sig' = s.sig /\ g_siglen' = s.siglen

\* The stored signed message is opened, and what comes out is compared with the message.
verify_once(sig) ==
    LET r == crypto_sign_open(sig)
    IN  IF r.code # 0 \/ r.len # MsgLen THEN -1 ELSE 0

verify_iter ==
    /\ rc' \in IF program = "verify_only" THEN {verify_once(g_sig)}
                ELSE scheme_do_verify(adapter, g_sig, g_siglen)
    /\ UNCHANGED signature

CallScheme == IF op = "sign" THEN sign_iter ELSE verify_iter

\* One bit of it flipped, a signature is none.
Tampered == 0

-----------------------------------------------------------------------------
(* bench_run. *)

Begin ==
    /\ pc = "begin"
    /\ Printed(MemoryStart)
    /\ i' = 0 /\ calls' = <<>> /\ returned' = <<>>
    /\ pc' = IF Warmup > 0 THEN "warmup" ELSE "c0"
    /\ UNCHANGED <<counter, reader, program, adapter, op, rc, c0, cyc, entered, signature>>

NeverAborts == FALSE   \* mutation: the run goes on after an iteration that failed
Aborts == rc' # 0

WarmupCall ==
    /\ pc = "warmup"
    /\ CallScheme
    /\ returned' = Append(returned, rc')
    /\ IF Aborts
       THEN pc' = "end" /\ UNCHANGED i
       ELSE IF i + 1 < Warmup THEN i' = i + 1 /\ UNCHANGED pc ELSE i' = 0 /\ pc' = "c0"
    /\ UNCHANGED <<counter, reader, main, c0, cyc, entered, calls>>

ReadsOn ==
    /\ pc \in {"c0", "c1"}
    /\ LoadWraps \/ LoadCounter \/ Retries
    /\ UNCHANGED <<pc, bench, history, signature, main>>

FirstReading ==
    /\ pc = "c0"
    /\ Returns
    /\ c0' = cycles'
    /\ entered' = [read |-> taken', call |-> now]
    /\ pc' = "call"
    /\ UNCHANGED <<i, rc, cyc, calls, returned, signature, main>>

CallReturns ==
    /\ pc = "call"
    /\ CallScheme
    /\ returned' = Append(returned, rc')
    /\ calls' = Append(calls, [call |-> now - entered.call, read |-> 0])
    /\ pc' = "c1"
    /\ UNCHANGED <<counter, reader, main, i, c0, cyc, entered>>

SecondReading ==
    /\ pc = "c1"
    /\ Returns
    /\ calls' = [calls EXCEPT ![Len(calls)].read = taken' - entered.read]
    /\ UNCHANGED rc
    /\ IF Aborts
       THEN pc' = "end" /\ UNCHANGED <<i, cyc>>
       ELSE /\ cyc' = [cyc EXCEPT ![i] = cycles' - c0]
            /\ i' = i + 1
            /\ pc' = IF i' = iters THEN "end" ELSE "c0"
    /\ UNCHANGED <<c0, entered, returned, signature, main>>

-----------------------------------------------------------------------------
(* The two mains. *)

\* scheme_init and the size of the signature buffer.
Setup ==
    /\ pc = "setup" /\ program = "sign_verify"
    /\ \E ret \in scheme_init(adapter) :
          IF ret = 0 /\ SigMax <= SigBuf
          THEN pc' = "begin" /\ UNCHANGED log
          ELSE pc' = "halt" /\ Printed([type |-> "FATAL"])
    /\ UNCHANGED <<counter, reader, program, adapter, op, bench, history, signature>>

\* The known answer is verified before anything is measured.
KatVerify ==
    /\ pc = "setup" /\ program = "verify_only"
    /\ rc' = verify_once(g_sig)
    /\ IF rc' = 0 THEN pc' = "begin" /\ UNCHANGED log
                  ELSE pc' = "halt" /\ Printed([type |-> "ERROR"])
    /\ UNCHANGED <<counter, reader, program, adapter, op, i, c0, cyc, history, signature>>

\* bench_run returned: the memory line comes whatever it returned.
RunEnds ==
    /\ pc = "end"
    /\ IF rc # 0
       THEN log' = log \o <<Memory, [type |-> "ERROR"]>> /\ pc' = "halt"
       ELSE /\ log' = log \o <<Memory, Result>>
            /\ pc' = IF op = "sign" THEN "reference" ELSE "sanity"
    /\ UNCHANGED <<counter, reader, program, adapter, op, bench, history, signature>>

\* The signature the verification is measured on is made outside the measurement.
Reference ==
    /\ pc = "reference"
    /\ \E s \in scheme_do_sign(adapter, g_siglen) :
          /\ g_sig' = s.sig /\ g_siglen' = s.siglen
          /\ IF s.rc = 0
             THEN op' = "verify" /\ pc' = "begin" /\ UNCHANGED log
             ELSE pc' = "halt" /\ Printed([type |-> "ERROR"]) /\ UNCHANGED op
    /\ UNCHANGED <<counter, reader, program, adapter, bench, history>>

\* The verdict is printed after the results, and stops nothing.
Sanity ==
    /\ pc = "sanity" /\ program = "sign_verify"
    /\ \E ok \in scheme_do_verify(adapter, g_sig, g_siglen),
          bad \in scheme_do_verify(adapter, Tampered, g_siglen) :
          log' = log \o <<[type |-> "sanity", pass |-> ok = 0 /\ bad # 0], [type |-> "DONE"]>>
    /\ pc' = "halt"
    /\ UNCHANGED <<counter, reader, program, adapter, op, bench, history, signature>>

TamperedKat ==
    /\ pc = "sanity" /\ program = "verify_only"
    /\ rc' = verify_once(Tampered)
    /\ log' = IF rc' = 0 THEN Append(log, [type |-> "ERROR"])
              ELSE log \o <<[type |-> "sanity", pass |-> TRUE], [type |-> "DONE"]>>
    /\ pc' = "halt"
    /\ UNCHANGED <<counter, reader, program, adapter, op, i, c0, cyc, history, signature>>

-----------------------------------------------------------------------------

ClockTicks ==
    /\ pc \in {"c0", "call", "c1"}
    /\ Tick
    /\ UNCHANGED <<pc, bench, history, signature, main>>

WrapCounted == isr_systick /\ UNCHANGED <<pc, bench, history, signature, main>>

Init ==
    /\ bench_init
    /\ program \in Programs /\ pc = "setup"
    /\ adapter \in IF program = "sign_verify" THEN Adapters ELSE {"snova"}
    /\ op = IF program = "sign_verify" THEN "sign" ELSE "verify"
    /\ i = 0 /\ rc = 0 /\ c0 = 0 /\ cyc = [k \in 0 .. MaxIters - 1 |-> 0]
    /\ g_siglen = (IF program = "sign_verify" THEN 0 ELSE SigMax)
    /\ g_sig \in (IF program = "sign_verify" THEN {0} ELSE {0, SigMax})
    /\ log = <<>>
    /\ entered = [read |-> 0, call |-> 0] /\ calls = <<>> /\ returned = <<>>

Next ==
    \/ Begin \/ WarmupCall \/ ReadsOn \/ FirstReading \/ CallReturns \/ SecondReading
    \/ Setup \/ KatVerify \/ RunEnds \/ Reference \/ Sanity \/ TamperedKat
    \/ ClockTicks \/ WrapCounted

Spec == Init /\ [][Next]_vars

-----------------------------------------------------------------------------
(* Properties; ReadingIsExact is in BenchCycles. *)

\* Every variable but the lines has its type; the loop stays within the arrays.
TypeOK ==
    /\ CyclesTypeOK
    /\ program \in Programs /\ op \in {"sign", "verify"}
    /\ adapter \in Adapters \cup {"snova"} /\ {g_sig, g_siglen} \subseteq 0 .. SigMax
    /\ pc \in {"setup", "begin", "warmup", "c0", "call", "c1", "end", "reference", "sanity",
               "halt"}
    /\ i \in Nat /\ rc \in Codes /\ c0 \in Int
    /\ pc \in {"c0", "call", "c1"} => i < MaxIters
    /\ cyc \in [0 .. MaxIters - 1 -> Int]
    /\ entered \in [read : Int, call : Int]
    /\ calls \in Seq([read : Int, call : Int]) /\ returned \in Seq(Codes)

\* Each sample of a bench_run that has not failed is the time that really passed around its
\* own call. (bench_run)
SamplesAreTimes ==
    pc \in {"c0", "call", "c1", "reference", "sanity"} \/ (pc = "end" /\ rc = 0) =>
        \A k \in 0 .. i - 1 : k < Len(calls) /\ cyc[k] = calls[k + 1].read

\* Once a signing run has ended well the buffer holds a signature of the message, of the length
\* that is printed, and the one that is verified from then on stays it: no failure of a library
\* is taken for a success, in whichever way it is told. (sign_iter, scheme_do_sign)
SignatureIsValid ==
    program = "sign_verify" /\ (op = "verify" \/ (pc \in {"c1", "end", "reference"} /\ rc = 0))
        => IsSignature(g_sig, g_siglen)

\* A result is of its own operation: every call of this bench_run, warm-ups included, returned
\* 0, there are as many samples as it says, and the figures are those of the time that
\* really passed around the calls, which is never less than the calls took.
ResultsAreOwn ==
    pc \in {"reference", "sanity"} =>
        LET row == log[Len(log)].stats
            Below(x) == Cardinality({k \in DOMAIN calls : calls[k].read < x})
            Above(x) == Cardinality({k \in DOMAIN calls : calls[k].read > x})
            times == {calls[k].read : k \in DOMAIN calls}
        IN  /\ log[Len(log)].op = op
            /\ log[Len(log)].sig_bytes = g_siglen
            /\ Range(returned) = {0} /\ Len(returned) = Warmup + row.n
            /\ Len(calls) = row.n
            /\ \A k \in DOMAIN calls : calls[k].call <= calls[k].read
            /\ {row.min, row.max} \subseteq times
            /\ Below(row.min) = 0 /\ Above(row.max) = 0
            /\ \E a \in times, b \in times :
                  /\ a <= b /\ row.median = a + b
                  /\ 2 * Below(a) < row.n /\ 2 * Above(a) <= row.n
                  /\ 2 * Below(b) <= row.n /\ 2 * Above(b) < row.n
=============================================================================
