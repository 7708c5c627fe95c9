------------------------------ MODULE BenchCycles ------------------------------
(***************************************************************************)
(* The cycle counter of bench.c: the 24-bit SysTick counter, which counts  *)
(* down from the clock and asks for an exception when it gets to zero, the *)
(* exception handler that counts the periods, and bench_cycles, which puts *)
(* the two together without a lock.                                        *)
(*                                                                         *)
(* What is taken from the processor: the exception has the highest         *)
(* priority and nothing masks it while bench_cycles runs, so at most the   *)
(* instruction that is being executed completes before the handler; the    *)
(* handler's entry takes more than the one cycle in which the counter is   *)
(* zero, and is over long before the next period.  The handler's own       *)
(* instructions are one step, and so is each of bench_cycles' loads.       *)
(***************************************************************************)
EXTENDS Integers

CONSTANTS Reload,   \* SYSTICK_RELOAD
          MaxTime   \* bound: cycles of the processor clock

ASSUME BenchCyclesAssumption == Reload \in Nat \ {0} /\ MaxTime \in Nat

VARIABLES cvr,        \* systick_hw->cvr
          irq,        \* "no" exception pending, "new": one instruction completes, "due"
          g_wraps,
          at, w1, v,  \* bench_cycles: the next load, and its locals
          cycles,     \* what it returned
          now,        \* history: cycles since bench_init,
          loaded,     \* those at the last load of cvr,
          taken       \* and at the load that what was returned is of

reader == <<at, w1, v, loaded, cycles, taken>>
counter == <<cvr, irq, g_wraps, now>>

Period == Reload + 1

-----------------------------------------------------------------------------
(* The hardware. *)

Tick ==
    /\ now < MaxTime \/ cvr = 0
    /\ ~(cvr = 1 /\ irq # "no")
    /\ now' = now + 1
    /\ cvr' = IF cvr = 0 THEN Reload ELSE cvr - 1
    /\ irq' = IF cvr' = 0 THEN "new" ELSE irq
    /\ UNCHANGED <<g_wraps, reader>>

isr_systick ==
    /\ irq # "no" /\ cvr # 0
    /\ irq' = "no"
    /\ g_wraps' = g_wraps + 1
    /\ UNCHANGED <<cvr, now, reader>>

Instruction ==
    /\ irq # "due"
    /\ irq' = IF irq = "new" THEN "due" ELSE irq
    /\ UNCHANGED <<cvr, g_wraps, now>>

-----------------------------------------------------------------------------
(* bench_cycles. *)

LoadWraps ==
    /\ at = "w1"
    /\ Instruction
    /\ w1' = g_wraps /\ at' = "v"
    /\ UNCHANGED <<v, loaded, cycles, taken>>

LoadCounter ==
    /\ at = "v"
    /\ Instruction
    /\ v' = cvr /\ loaded' = now /\ at' = "w2"
    /\ UNCHANGED <<w1, cycles, taken>>

UnchangedAlways == TRUE   \* mutation: no second look at the periods
WrapsUnchanged == g_wraps = w1

\* The second load of g_wraps: the function returns, or begins again.
Returns ==
    /\ at = "w2" /\ WrapsUnchanged
    /\ Instruction
    /\ cycles' = w1 * Period + (Reload - v) /\ taken' = loaded
    /\ at' = "w1"
    /\ UNCHANGED <<w1, v, loaded>>

Retries ==
    /\ at = "w2" /\ ~WrapsUnchanged
    /\ Instruction
    /\ at' = "w1"
    /\ UNCHANGED <<w1, v, loaded, cycles, taken>>

\* bench_init, and the first cycle, which loads the reload value.
bench_init ==
    /\ cvr = Reload /\ irq = "no" /\ g_wraps = 0 /\ now = 0
    /\ at = "w1" /\ w1 = 0 /\ v = Reload /\ loaded = 0 /\ cycles = 0 /\ taken = 0

-----------------------------------------------------------------------------
\* Every variable of the counter and of its reader has its type.
CyclesTypeOK ==
    /\ cvr \in 0 .. Reload /\ irq \in {"no", "new", "due"}
    /\ {g_wraps, now, w1, loaded, taken} \subseteq Nat
    /\ at \in {"w1", "v", "w2"} /\ v \in 0 .. Reload
    /\ cycles \in Int

\* The periods counted, and the one whose exception has not been taken, make up the time.
TimeIsCounted ==
    /\ cvr = 0 => irq # "no"
    /\ now = (IF irq # "no" /\ cvr # 0 THEN g_wraps + 1 ELSE g_wraps) * Period + (Reload - cvr)

\* What has been loaded fits together, or the comparison that follows will fail: either the
\* handler ran since, or it has to run before another instruction does.
LoadsFit ==
    /\ at \in {"v", "w2"} => w1 <= g_wraps
    /\ at = "w2" /\ w1 = g_wraps /\ irq # "due" => loaded = w1 * Period + (Reload - v)

\* bench_cycles returns the time at which it read the counter, never one that is a period
\* short because the wrap was not counted yet or a period long because it was counted after.
ReadingIsExact == cycles = taken
=============================================================================
