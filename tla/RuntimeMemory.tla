--------------------------- MODULE RuntimeMemory ---------------------------
(***************************************************************************)
(* mqtt_client/runtime_memory.c: what one attempt did to the heap and to   *)
(* the stack.                                                              *)
(*                                                                         *)
(* begin and end bracket an attempt; the wrapped allocator and the stage   *)
(* calls of the program come in between, and before and after it as well.  *)
(* All of them run on the main thread (the interrupts allocate from lwIP's *)
(* own pool).  A call of the monitor is one step; a wrapper of the         *)
(* allocator is several, the change of the heap in newlib and what the     *)
(* wrapper observes after it, and a realloc that moves a block runs the    *)
(* wrappers of malloc and free within its own.  Heap sizes are in units,   *)
(* the stack is an array of words numbered from its bottom.                *)
(***************************************************************************)
EXTENDS Integers

CONSTANTS HeapCapacity,  \* heap_capacity()
          Sizes,         \* sizes of requests
          Stages,        \* runtime_mem_stage_t without the idle stage
          StackWords,    \* size of the stack
          PaintGuard,    \* STACK_PAINT_GUARD_BYTES, in words
          LimitGuard,    \* STACK_LIMIT_GUARD_BYTES, in words
          Depths,        \* words of the stack above which begin may be called
          MaxCalls       \* bound: allocator calls counted in one attempt

ASSUME RuntimeMemoryAssumption ==
    /\ HeapCapacity \in Nat /\ Sizes \subseteq Nat /\ MaxCalls \in Nat
    /\ StackWords \in Nat /\ PaintGuard \in Nat /\ LimitGuard \in Nat
    /\ LimitGuard <= StackWords
    /\ Depths \subseteq 0 .. StackWords
    /\ "idle" \notin Stages

VARIABLES
    monitoring, current_stage,
    in_use,                      \* mallinfo().uordblks
    call,                        \* the wrapper in progress: what it does next, and its arguments
    heap_before, heap_peak, free_before_tls, maximum_allocation_request,
    allocation_calls, free_calls, failed_allocations,
    failure,                     \* allocation_failed, _failure_bytes, _failure_stage
    stack,                       \* the words of the stack
    painted, paint_end, guard_end,
    result,                      \* what runtime_memory_end returned
    most,                        \* history: the most the heap held in this attempt
    first,                       \* history: its first failed request
    marked,                      \* history: it reached runtime_memory_mark_tls_start
    written                      \* history: the words of the stack it wrote

counts == <<maximum_allocation_request, allocation_calls, free_calls, failed_allocations>>
paint  == <<painted, paint_end, guard_end>>
memoryVars == <<monitoring, current_stage, in_use, call, heap_before, heap_peak, free_before_tls,
          counts, failure, stack, paint, result, most, first, marked, written>>

Words     == 0 .. StackWords - 1
NoFailure == [failed |-> FALSE, bytes |-> 0, stage |-> "idle"]
NoResult  == [minFree |-> 0, freeBeforeTls |-> 0, peakDelta |-> 0, after |-> 0,
              highWater |-> 0, corrupted |-> FALSE]

NoCall    == [next |-> "none", size |-> 0, null |-> FALSE, old |-> 0]

Greater(a, b)  == IF a > b THEN a ELSE b
Headroom(used) == IF HeapCapacity > used THEN HeapCapacity - used ELSE 0

-----------------------------------------------------------------------------
(* Observation. *)

observe_heap == heap_peak' = IF monitoring THEN Greater(heap_peak, in_use) ELSE heap_peak

Failed(bytes) == [failed |-> TRUE, bytes |-> bytes, stage |-> current_stage]

\* Mutation: the record is not sticky.
note_allocation_failure_last(requested) ==
    IF requested = 0 THEN failure ELSE Failed(requested)

note_allocation_failure(requested) ==
    IF failure.failed \/ requested = 0 THEN failure ELSE Failed(requested)

Counts(requested, null) == null /\ requested # 0

allocation_observed(requested, null) ==
    /\ observe_heap
    /\ IF monitoring
       THEN /\ allocation_calls' = allocation_calls + 1
            /\ maximum_allocation_request' = Greater(maximum_allocation_request, requested)
            /\ IF Counts(requested, null)
               THEN /\ failed_allocations' = failed_allocations + 1
                    /\ failure' = note_allocation_failure(requested)
               ELSE UNCHANGED <<failed_allocations, failure>>
            /\ first' = IF null /\ requested # 0 /\ ~first.failed THEN Failed(requested)
                                                                ELSE first
       ELSE UNCHANGED <<allocation_calls, maximum_allocation_request, failed_allocations, failure,
                        first>>

-----------------------------------------------------------------------------
(* The attempt. *)

\* Mutation: only the first attempt paints.
PaintedOnce(w, guard, end) ==
    IF painted THEN stack[w]
               ELSE IF w < guard THEN "guard" ELSE IF w < end THEN "paint" ELSE stack[w]

\* What begin leaves in a word below the marker's frame.
Painted(w, guard, end) ==
    IF w < guard THEN "guard" ELSE IF w < end THEN "paint" ELSE stack[w]

Guarded(end) == IF LimitGuard > end THEN end ELSE LimitGuard

\* current: the word of begin's marker.  Deep calls leave no room to paint.
PaintStack(current) ==
    LET end   == current - PaintGuard
        guard == Guarded(end)
    IN  IF end >= 0
        THEN /\ painted' = TRUE /\ paint_end' = end /\ guard_end' = guard
             /\ stack' = [w \in Words |-> Painted(w, guard, end)]
        ELSE /\ painted' = FALSE /\ paint_end' = 0 /\ guard_end' = 0 /\ UNCHANGED stack

KeepTlsMark == UNCHANGED free_before_tls   \* mutation: not reset
ResetTlsMark == free_before_tls' = 0

\* The callers pair begin with end.
runtime_memory_begin(current) ==
    /\ ~monitoring /\ call = NoCall
    /\ PaintStack(current)
    /\ current_stage' = "idle"
    /\ failure' = NoFailure /\ ResetTlsMark
    /\ heap_before' = in_use /\ heap_peak' = in_use
    /\ maximum_allocation_request' = 0
    /\ allocation_calls' = 0 /\ free_calls' = 0 /\ failed_allocations' = 0
    /\ monitoring' = TRUE
    /\ result' = NoResult
    /\ most' = in_use /\ first' = NoFailure /\ marked' = FALSE /\ written' = {}
    /\ UNCHANGED <<in_use, call>>

runtime_memory_set_stage(stage) ==
    /\ call = NoCall
    /\ current_stage' = stage
    /\ observe_heap
    /\ UNCHANGED <<monitoring, in_use, call, heap_before, free_before_tls, counts, failure, stack,
                   paint, result, most, first, marked, written>>

runtime_memory_mark_tls_start ==
    /\ call = NoCall
    /\ observe_heap
    /\ free_before_tls' = Headroom(in_use)
    /\ marked' = (marked \/ monitoring)
    /\ UNCHANGED <<monitoring, current_stage, in_use, call, heap_before, counts, failure, stack,
                   paint, result, most, first, written>>

\* The first word from the guard upwards that is not paint any more.
FirstDirty(p) ==
    /\ p \in guard_end .. paint_end
    /\ p < paint_end => stack[p] # "paint"
    /\ \A q \in guard_end .. p - 1 : stack[q] = "paint"

GuardHit == \E w \in 0 .. guard_end - 1 : stack[w] # "guard"

HighWater(p) ==
    IF ~painted THEN 0 ELSE IF GuardHit THEN StackWords ELSE StackWords - p

PeakDelta(peak) == IF peak > heap_before THEN peak - heap_before ELSE 0

runtime_memory_end ==
    /\ monitoring /\ call = NoCall
    /\ observe_heap
    /\ monitoring' = FALSE
    /\ \E p \in 0 .. StackWords :
          /\ FirstDirty(p)
          /\ result' = [minFree       |-> Headroom(heap_peak'),
                        freeBeforeTls |-> free_before_tls,
                        peakDelta     |-> PeakDelta(heap_peak'),
                        after         |-> in_use,
                        highWater     |-> HighWater(p),
                        corrupted     |-> painted /\ GuardHit]
    /\ UNCHANGED <<current_stage, in_use, call, heap_before, free_before_tls, counts, failure,
                   stack, paint, most, first, marked, written>>

-----------------------------------------------------------------------------
(* The program: allocator calls and function calls, in an attempt or out of it. *)

CountBound == monitoring => allocation_calls < MaxCalls /\ free_calls < MaxCalls

\* The heap comes to hold this, whether anybody looks or not.
HeapHolds(used) ==
    /\ in_use' = used
    /\ most' = IF monitoring THEN Greater(most, used) ELSE most

\* newlib's malloc.  It may fail for fragmentation before the heap is full, and answer a
\* request of no bytes with NULL.
real_malloc_r(size, null) ==
    \/ ~null /\ in_use + size <= HeapCapacity /\ HeapHolds(in_use + size)
    \/ null /\ HeapHolds(in_use)

NextIs(next, size, null, old) ==
    call' = [next |-> next, size |-> size, null |-> null, old |-> old]

Unwatched == <<monitoring, current_stage, heap_before, free_before_tls, stack, paint, result,
               marked, written>>

\* The program calls an allocator's wrapper, and newlib runs.
Enters == call = NoCall /\ CountBound /\ UNCHANGED <<heap_peak, counts, failure, first, Unwatched>>

wrap_malloc_r(size) ==
    /\ Enters
    /\ \E null \in BOOLEAN : real_malloc_r(size, null) /\ NextIs("allocated", size, null, 0)

\* A block of old units changes its size where it is.
wrap_realloc_r(old, size) ==
    /\ Enters
    /\ old <= in_use /\ in_use - old + size <= HeapCapacity
    /\ HeapHolds(in_use - old + size)
    /\ NextIs("allocated", size, FALSE, 0)

\* Or is moved: newlib's realloc calls the wrapped malloc, and then the wrapped free.
wrap_realloc_r_moves(old, size) ==
    /\ Enters
    /\ old <= in_use
    /\ \E null \in BOOLEAN : real_malloc_r(size, null) /\ NextIs("moving", size, null, old)

wrap_free_r(old) ==
    /\ Enters
    /\ old <= in_use
    /\ HeapHolds(in_use - old)
    /\ NextIs("freed", 0, FALSE, old)

\* Mutation: a malloc within a realloc is left to the realloc to observe.
LeftToRealloc ==
    UNCHANGED <<heap_peak, allocation_calls, maximum_allocation_request, failed_allocations,
                failure, first>>
ObservedWithin == allocation_observed(call.size, call.null)

\* Of the malloc within realloc: the block is copied, if there is one to copy it to.
MoveObserved ==
    /\ call.next = "moving"
    /\ ObservedWithin
    /\ IF call.null THEN NextIs("allocated", call.size, call.null, 0)
                    ELSE NextIs("copied", call.size, FALSE, call.old)
    /\ UNCHANGED <<in_use, most, free_calls, Unwatched>>

\* And the old one is freed.
MoveFrees ==
    /\ call.next = "copied"
    /\ HeapHolds(in_use - call.old)
    /\ NextIs("old_freed", call.size, FALSE, call.old)
    /\ UNCHANGED <<heap_peak, counts, failure, first, Unwatched>>

\* What the wrapper of free does after newlib's.
FreeObserved ==
    /\ call.next \in {"freed", "old_freed"}
    /\ free_calls' = IF monitoring THEN free_calls + 1 ELSE free_calls
    /\ observe_heap
    /\ IF call.next = "freed" THEN call' = NoCall
                              ELSE NextIs("allocated", call.size, FALSE, 0)
    /\ UNCHANGED <<in_use, most, maximum_allocation_request, allocation_calls, failed_allocations,
                   failure, first, Unwatched>>

\* And those of malloc and realloc.
AllocationObserved ==
    /\ call.next = "allocated"
    /\ allocation_observed(call.size, call.null)
    /\ call' = NoCall
    /\ UNCHANGED <<in_use, most, free_calls, Unwatched>>

\* A call chain writes the words W of the stack and returns: a frame may leave holes.
Call(W) ==
    /\ call = NoCall
    /\ stack' = [w \in Words |-> IF w \in W THEN "used" ELSE stack[w]]
    /\ written' = IF monitoring THEN written \cup W ELSE written
    /\ UNCHANGED <<monitoring, current_stage, in_use, call, heap_before, heap_peak,
                   free_before_tls, counts, failure, paint, result, most, first, marked>>

-----------------------------------------------------------------------------
MemoryInit ==
    /\ monitoring = FALSE /\ current_stage = "idle"
    /\ in_use \in 0 .. HeapCapacity /\ call = NoCall
    /\ heap_before = 0 /\ heap_peak = 0 /\ free_before_tls = 0
    /\ maximum_allocation_request = 0
    /\ allocation_calls = 0 /\ free_calls = 0 /\ failed_allocations = 0
    /\ failure = NoFailure
    /\ stack = [w \in Words |-> "used"]
    /\ painted = FALSE /\ paint_end = 0 /\ guard_end = 0
    /\ result = NoResult
    /\ most = 0 /\ first = NoFailure /\ marked = FALSE /\ written = {}

MemoryNext ==
    \/ \E current \in Depths : runtime_memory_begin(current)
    \/ \E stage \in Stages : runtime_memory_set_stage(stage)
    \/ runtime_memory_mark_tls_start
    \/ runtime_memory_end
    \/ \E size \in Sizes : wrap_malloc_r(size)
    \/ \E old, size \in Sizes : wrap_realloc_r(old, size)
    \/ \E old, size \in Sizes : wrap_realloc_r_moves(old, size)
    \/ \E old \in Sizes : wrap_free_r(old)
    \/ MoveObserved \/ MoveFrees \/ FreeObserved \/ AllocationObserved
    \/ \E W \in SUBSET Words : Call(W)

MemorySpec == MemoryInit /\ [][MemoryNext]_memoryVars

-----------------------------------------------------------------------------
(* Properties. *)

Calls == [next : {"none", "allocated", "moving", "copied", "old_freed", "freed"},
          size : Sizes \cup {0}, null : BOOLEAN, old : Sizes \cup {0}]

\* Every variable has its type.
MemoryTypeOK ==
    /\ monitoring \in BOOLEAN /\ painted \in BOOLEAN /\ marked \in BOOLEAN
    /\ current_stage \in Stages \cup {"idle"}
    /\ in_use \in 0 .. HeapCapacity /\ heap_before \in 0 .. HeapCapacity
    /\ heap_peak \in 0 .. HeapCapacity /\ most \in 0 .. HeapCapacity
    /\ free_before_tls \in 0 .. HeapCapacity
    /\ maximum_allocation_request \in Nat
    /\ allocation_calls \in Nat /\ free_calls \in Nat /\ failed_allocations \in Nat
    /\ {failure, first} \subseteq
          [failed : BOOLEAN, bytes : Nat, stage : Stages \cup {"idle"}]
    /\ stack \in [Words -> {"used", "paint", "guard"}]
    /\ call \in Calls
    /\ guard_end \in 0 .. paint_end /\ paint_end \in 0 .. StackWords
    /\ written \subseteq Words
    /\ result \in [minFree : 0 .. HeapCapacity, freeBeforeTls : 0 .. HeapCapacity,
                   peakDelta : 0 .. HeapCapacity, after : 0 .. HeapCapacity,
                   highWater : 0 .. StackWords, corrupted : BOOLEAN]

\* Between two calls of the allocator the peak is the most the heap ever held in the attempt,
\* the moment at which a realloc holds both blocks included: every growth is observed before
\* the heap shrinks again.  (observe_heap, called by the wrappers)
PeakIsMaximum == monitoring /\ call = NoCall => heap_peak = most

\* The size and the stage in the attempt's row are those of its first failed request: a
\* later failure does not replace them, and an earlier attempt's does not survive begin.
FirstFailureKept == failure = first

\* The three ways in which a row says that memory ran out agree.
FailureFieldsAgree ==
    /\ failure.failed <=> failed_allocations > 0
    /\ failure.bytes <= maximum_allocation_request
    /\ failed_allocations <= allocation_calls

\* min_free_bytes is a lower bound of every free_... column of its row, and the column
\* for the start of TLS is empty in the row of an attempt that did not get there.
FreeColumnsConsistent ==
    LET r == result IN
    ~monitoring /\ r # NoResult =>
        /\ r.minFree <= Headroom(heap_before) /\ r.minFree <= Headroom(r.after)
        /\ IF marked THEN r.minFree <= r.freeBeforeTls ELSE r.freeBeforeTls = 0

\* The high-water mark covers every word the attempt wrote, and claims no more than the
\* deepest of them or the room begin left unpainted; a word of the guard makes it the whole
\* stack.  What an earlier, deeper attempt wrote does not count.
HighWaterIsDeepest ==
    LET r == result IN
    ~monitoring /\ r # NoResult /\ painted =>
        /\ \A w \in written : StackWords - w <= r.highWater
        /\ r.corrupted <=> \E w \in written : w < guard_end
        /\ ~r.corrupted =>
              r.highWater \in {StackWords - w : w \in written \cup {paint_end}}

=============================================================================
