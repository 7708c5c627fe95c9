------------------------- MODULE Measurement_proofs -------------------------
(***************************************************************************)
(* Proofs about what is measured.  RuntimeMemory, for every heap, stack,   *)
(* set of request sizes and number of calls: what the row of an attempt    *)
(* says of its memory is true of the attempt, and of no other.             *)
(* PrimitiveBench, for every reload value and number of iterations: the    *)
(* cycle counter is exact, which is about the counter and its reader       *)
(* alone; the loop of bench_run and its figures; and the adapters:         *)
(* whatever the way in which a library tells of a failure, 0 means a       *)
(* signature.                                                              *)
(***************************************************************************)
EXTENDS RuntimeMemory, PrimitiveBench, DataFacts

-----------------------------------------------------------------------------
(* The memory monitor.                                                     *)

(* What the heap holds and was not looked at yet is the only thing the peak may miss, and *)
(* whenever the heap is about to change again it was looked at.                           *)
Watched ==
    /\ monitoring => most = Greater(heap_peak, in_use)
    /\ monitoring /\ call.next \in {"none", "copied"} => in_use <= heap_peak

(* The block a realloc will free is still there. *)
OldBlockHeld == call.next \in {"moving", "copied"} => call.old <= in_use

(* The heap columns between begin and end. *)
HeapInv ==
    monitoring =>
        /\ heap_before <= heap_peak
        /\ IF marked THEN Headroom(heap_peak) <= free_before_tls ELSE free_before_tls = 0

(* What is below the unpainted part of the stack tells what the attempt wrote. *)
StackInv ==
    monitoring /\ painted =>
        \A w \in 0 .. paint_end - 1 :
            stack[w] = IF w \in written THEN "used"
                       ELSE IF w < guard_end THEN "guard" ELSE "paint"

MemoryIInv ==
    /\ MemoryTypeOK
    /\ Watched
    /\ OldBlockHeld
    /\ FirstFailureKept
    /\ FailureFieldsAgree
    /\ HeapInv
    /\ FreeColumnsConsistent
    /\ StackInv
    /\ HighWaterIsDeepest

(* The heap's in-use size stays within the capacity, and so does its peak. *)
LEMMA HeadroomType == ASSUME NEW used \in 0 .. HeapCapacity PROVE Headroom(used) \in 0 .. HeapCapacity
  BY RuntimeMemoryAssumption DEF Headroom

-----------------------------------------------------------------------------
(* Type correctness. *)

NumbersTyped ==
    /\ in_use \in 0 .. HeapCapacity /\ heap_before \in 0 .. HeapCapacity
    /\ heap_peak \in 0 .. HeapCapacity /\ most \in 0 .. HeapCapacity
    /\ free_before_tls \in 0 .. HeapCapacity
    /\ maximum_allocation_request \in Nat
    /\ allocation_calls \in Nat /\ free_calls \in Nat /\ failed_allocations \in Nat
    /\ guard_end \in 0 .. paint_end /\ paint_end \in 0 .. StackWords

LEMMA Numbers == MemoryTypeOK => NumbersTyped
  BY DEF MemoryTypeOK, NumbersTyped

LEMMA MemoryInitTyped == MemoryInit => MemoryTypeOK
  <1> SUFFICES ASSUME MemoryInit PROVE MemoryTypeOK
    OBVIOUS
  <1>1. NumbersTyped
    BY RuntimeMemoryAssumption DEF MemoryInit, NumbersTyped
  <1>2. {failure, first} \subseteq [failed : BOOLEAN, bytes : Nat, stage : Stages \cup {"idle"}]
    BY DEF MemoryInit, NoFailure
  <1>3. result \in [minFree : 0 .. HeapCapacity, freeBeforeTls : 0 .. HeapCapacity,
                    peakDelta : 0 .. HeapCapacity, after : 0 .. HeapCapacity,
                    highWater : 0 .. StackWords, corrupted : BOOLEAN]
    <2>1. 0 \in 0 .. HeapCapacity /\ 0 \in 0 .. StackWords
      BY RuntimeMemoryAssumption
    <2> QED
      BY <2>1 DEF MemoryInit, NoResult
  <1>4. stack \in [Words -> {"used", "paint", "guard"}] /\ written \subseteq Words
    BY DEF MemoryInit
  <1>5. call \in Calls
    BY DEF MemoryInit, NoCall, Calls
  <1> QED
    BY <1>1, <1>2, <1>3, <1>4, <1>5 DEF MemoryInit, MemoryTypeOK, NumbersTyped

(* observe_heap keeps the peak within the heap. *)
LEMMA ObserveTyped ==
    ASSUME MemoryTypeOK, observe_heap
    PROVE  heap_peak' \in 0 .. HeapCapacity
  BY RuntimeMemoryAssumption DEF MemoryTypeOK, observe_heap, Greater

(* The counters of the allocator's wrappers, and the record of the failure. *)
LEMMA CountersTyped ==
    ASSUME MemoryTypeOK, NEW requested \in Nat, NEW null \in BOOLEAN,
           allocation_observed(requested, null)
    PROVE  /\ allocation_calls' \in Nat
           /\ maximum_allocation_request' \in Nat
           /\ failed_allocations' \in Nat
  BY RuntimeMemoryAssumption DEF MemoryTypeOK, allocation_observed, Greater

LEMMA FailureTyped ==
    ASSUME MemoryTypeOK, NEW requested \in Nat, NEW null \in BOOLEAN,
           allocation_observed(requested, null)
    PROVE  {failure, first}' \subseteq
               [failed : BOOLEAN, bytes : Nat, stage : Stages \cup {"idle"}]
  <1> DEFINE Record == [failed : BOOLEAN, bytes : Nat, stage : Stages \cup {"idle"}]
  <1>1. failure \in Record /\ first \in Record /\ current_stage \in Stages \cup {"idle"}
    BY DEF MemoryTypeOK
  <1>2. Failed(requested) \in Record
    BY <1>1, RuntimeMemoryAssumption DEF Failed
  <1>3. note_allocation_failure(requested) \in Record
    BY <1>1, <1>2 DEF note_allocation_failure
  <1> HIDE DEF Record
  <1>4. failure' \in Record /\ first' \in Record
    BY <1>1, <1>2, <1>3 DEF allocation_observed
  <1> QED
    BY <1>4 DEF Record

(* The two kinds of steps of the wrappers: the heap changes, and it is observed. *)
LEMMA ChangeTyped ==
    ASSUME MemoryTypeOK, NEW used \in 0 .. HeapCapacity, HeapHolds(used), call' \in Calls,
           UNCHANGED <<heap_peak, counts, failure, first, Unwatched>>
    PROVE  MemoryTypeOK'
  <1>1. in_use' \in 0 .. HeapCapacity /\ most' \in 0 .. HeapCapacity
    BY RuntimeMemoryAssumption DEF MemoryTypeOK, HeapHolds, Greater
  <1> QED
    BY <1>1 DEF MemoryTypeOK, counts, paint, Unwatched

LEMMA ObservationTyped ==
    ASSUME MemoryTypeOK, NEW requested \in Nat, NEW null \in BOOLEAN,
           allocation_observed(requested, null), call' \in Calls,
           UNCHANGED <<in_use, most, free_calls, Unwatched>>
    PROVE  MemoryTypeOK'
  <1>1. heap_peak' \in 0 .. HeapCapacity
    BY ObserveTyped DEF allocation_observed
  <1> QED
    BY <1>1, CountersTyped, FailureTyped DEF MemoryTypeOK, paint, Unwatched

(* malloc leaves the heap as it is or makes it hold more. *)
LEMMA MallocGrows ==
    ASSUME NumbersTyped, NEW size \in Sizes, NEW null \in BOOLEAN, real_malloc_r(size, null)
    PROVE  \E used \in 0 .. HeapCapacity : in_use <= used /\ HeapHolds(used)
  <1>1. in_use \in 0 .. HeapCapacity /\ size \in Nat
    BY RuntimeMemoryAssumption DEF NumbersTyped
  <1>2. CASE in_use + size <= HeapCapacity /\ HeapHolds(in_use + size)
    <2>1. in_use + size \in 0 .. HeapCapacity /\ in_use <= in_use + size
      BY <1>1, <1>2, RuntimeMemoryAssumption
    <2> QED
      BY <1>2, <2>1, Zenon
  <1>3. CASE HeapHolds(in_use)
    <2>1. in_use <= in_use
      BY <1>1, RuntimeMemoryAssumption
    <2> QED
      BY <1>1, <1>3, <2>1, Zenon
  <1> QED
    BY <1>2, <1>3, Zenon DEF real_malloc_r

LEMMA NextTyped ==
    ASSUME NEW next \in {"allocated", "moving", "copied", "old_freed", "freed"},
           NEW size \in Sizes \cup {0}, NEW null \in BOOLEAN, NEW old \in Sizes \cup {0},
           NextIs(next, size, null, old)
    PROVE  call' \in Calls
  BY DEF NextIs, Calls

LEMMA NoCallTyped == NoCall \in Calls
  BY DEF NoCall, Calls

LEMMA CallTyped ==
    ASSUME MemoryTypeOK
    PROVE  /\ call.size \in Sizes \cup {0} /\ call.old \in Sizes \cup {0}
           /\ call.size \in Nat /\ call.old \in Nat /\ call.null \in BOOLEAN
  <1>1. call \in Calls
    BY DEF MemoryTypeOK
  <1>2. call.size \in Sizes \cup {0} /\ call.old \in Sizes \cup {0} /\ call.null \in BOOLEAN
    BY <1>1 DEF Calls
  <1>3. Sizes \cup {0} \subseteq Nat
    BY RuntimeMemoryAssumption
  <1> QED
    BY <1>2, <1>3

LEMMA MemoryNextTyped == ASSUME MemoryTypeOK, OldBlockHeld, [MemoryNext]_memoryVars PROVE MemoryTypeOK'
  <1> USE RuntimeMemoryAssumption
  <1>1. CASE \E current \in Depths : runtime_memory_begin(current)
    <2> PICK current \in Depths : runtime_memory_begin(current)
      BY <1>1
    <2>1. /\ stack' \in [Words -> {"used", "paint", "guard"}]
          /\ guard_end' \in 0 .. paint_end' /\ paint_end' \in 0 .. StackWords
          /\ painted' \in BOOLEAN
      <3> DEFINE end == current - PaintGuard
                 guard == Guarded(end)
      <3>1. CASE end >= 0
        <4>1. guard \in 0 .. end /\ end \in 0 .. StackWords
          BY <3>1 DEF Guarded
        <4>2. /\ stack' = [w \in Words |-> Painted(w, guard, end)]
              /\ guard_end' = guard /\ paint_end' = end /\ painted' = TRUE
          BY <3>1 DEF runtime_memory_begin, PaintStack
        <4>3. \A w \in Words : Painted(w, guard, end) \in {"used", "paint", "guard"}
          BY DEF Painted, MemoryTypeOK
        <4> QED
          BY <4>1, <4>2, <4>3
      <3>2. CASE ~(end >= 0)
        <4>1. /\ stack' = stack /\ painted' = FALSE
              /\ paint_end' = 0 /\ guard_end' = 0
          BY <3>2 DEF runtime_memory_begin, PaintStack
        <4>2. guard_end' \in 0 .. paint_end' /\ paint_end' \in 0 .. StackWords
          BY <4>1
        <4>3. stack' \in [Words -> {"used", "paint", "guard"}]
          BY <4>1, Zenon DEF MemoryTypeOK
        <4> QED
          BY <4>1, <4>2, <4>3
      <3> QED
        BY <3>1, <3>2
    <2>2. {failure, first}' \subseteq
              [failed : BOOLEAN, bytes : Nat, stage : Stages \cup {"idle"}]
      BY DEF runtime_memory_begin, NoFailure
    <2>3. result' \in [minFree : 0 .. HeapCapacity, freeBeforeTls : 0 .. HeapCapacity,
                       peakDelta : 0 .. HeapCapacity, after : 0 .. HeapCapacity,
                       highWater : 0 .. StackWords, corrupted : BOOLEAN]
      BY DEF runtime_memory_begin, NoResult
    <2>4. NumbersTyped'
      BY <2>1, Numbers DEF runtime_memory_begin, ResetTlsMark, NumbersTyped
    <2> QED
      BY <2>1, <2>2, <2>3, <2>4 DEF runtime_memory_begin, MemoryTypeOK, NumbersTyped
  <1>2. CASE \E stage \in Stages : runtime_memory_set_stage(stage)
    <2> PICK stage \in Stages : runtime_memory_set_stage(stage)
      BY <1>2
    <2>1. in_use \in 0 .. HeapCapacity /\ observe_heap
      BY DEF MemoryTypeOK, runtime_memory_set_stage
    <2> QED
      BY <2>1, ObserveTyped DEF runtime_memory_set_stage, MemoryTypeOK, counts, paint
  <1>3. CASE runtime_memory_mark_tls_start
    <2>1. in_use \in 0 .. HeapCapacity /\ observe_heap
      BY <1>3 DEF MemoryTypeOK, runtime_memory_mark_tls_start
    <2>2. free_before_tls' \in 0 .. HeapCapacity
      BY <1>3, <2>1, HeadroomType DEF runtime_memory_mark_tls_start
    <2> QED
      BY <1>3, <2>1, <2>2, ObserveTyped DEF runtime_memory_mark_tls_start, MemoryTypeOK, counts, paint
  <1>4. CASE runtime_memory_end
    <2>1. in_use \in 0 .. HeapCapacity /\ observe_heap
      BY <1>4 DEF MemoryTypeOK, runtime_memory_end
    <2>2. heap_peak' \in 0 .. HeapCapacity
      BY <2>1, ObserveTyped
    <2>3. PICK p \in 0 .. StackWords :
             result' = [minFree       |-> Headroom(heap_peak'),
                        freeBeforeTls |-> free_before_tls,
                        peakDelta     |-> PeakDelta(heap_peak'),
                        after         |-> in_use,
                        highWater     |-> HighWater(p),
                        corrupted     |-> painted /\ GuardHit]
      BY <1>4 DEF runtime_memory_end
    <2>4. Headroom(heap_peak') \in 0 .. HeapCapacity
      BY <2>2, HeadroomType
    <2>5. PeakDelta(heap_peak') \in 0 .. HeapCapacity
      BY <2>2, Numbers DEF PeakDelta, NumbersTyped
    <2>6. HighWater(p) \in 0 .. StackWords
      BY DEF HighWater
    <2>7. result' \in [minFree : 0 .. HeapCapacity, freeBeforeTls : 0 .. HeapCapacity,
                       peakDelta : 0 .. HeapCapacity, after : 0 .. HeapCapacity,
                       highWater : 0 .. StackWords, corrupted : BOOLEAN]
      BY <2>1, <2>3, <2>4, <2>5, <2>6 DEF MemoryTypeOK
    <2> QED
      BY <1>4, <2>2, <2>7 DEF runtime_memory_end, MemoryTypeOK, counts, paint
  <1>5. CASE \E size \in Sizes : wrap_malloc_r(size)
    <2>1. PICK size \in Sizes, null \in BOOLEAN :
             real_malloc_r(size, null) /\ NextIs("allocated", size, null, 0)
      BY <1>5 DEF wrap_malloc_r
    <2>2. PICK used \in 0 .. HeapCapacity : HeapHolds(used)
      BY <2>1, MallocGrows, Numbers
    <2>3. call' \in Calls
      BY <2>1, NextTyped
    <2> QED
      BY <1>5, <2>2, <2>3, ChangeTyped DEF wrap_malloc_r, Enters
  <1>6. CASE \E old, size \in Sizes : wrap_realloc_r(old, size)
    <2>1. PICK old \in Sizes, size \in Sizes : wrap_realloc_r(old, size)
      BY <1>6
    <2>2. in_use - old + size \in 0 .. HeapCapacity /\ HeapHolds(in_use - old + size)
      BY <2>1, Numbers DEF wrap_realloc_r, NumbersTyped
    <2>3. call' \in Calls
      BY <2>1, NextTyped DEF wrap_realloc_r
    <2> QED
      BY <2>1, <2>2, <2>3, ChangeTyped DEF wrap_realloc_r, Enters
  <1>7. CASE \E old, size \in Sizes : wrap_realloc_r_moves(old, size)
    <2>1. PICK old \in Sizes, size \in Sizes, null \in BOOLEAN :
             real_malloc_r(size, null) /\ NextIs("moving", size, null, old)
      BY <1>7 DEF wrap_realloc_r_moves
    <2>2. PICK used \in 0 .. HeapCapacity : HeapHolds(used)
      BY <2>1, MallocGrows, Numbers
    <2>3. call' \in Calls
      BY <2>1, NextTyped
    <2> QED
      BY <1>7, <2>2, <2>3, ChangeTyped DEF wrap_realloc_r_moves, Enters
  <1>8. CASE \E old \in Sizes : wrap_free_r(old)
    <2>1. PICK old \in Sizes : wrap_free_r(old)
      BY <1>8
    <2>2. in_use - old \in 0 .. HeapCapacity /\ HeapHolds(in_use - old)
      BY <2>1, Numbers DEF wrap_free_r, NumbersTyped
    <2>3. call' \in Calls
      BY <2>1, NextTyped DEF wrap_free_r
    <2> QED
      BY <2>1, <2>2, <2>3, ChangeTyped DEF wrap_free_r, Enters
  <1>11. CASE MoveObserved
    <2>1. call' \in Calls
      BY <1>11, CallTyped, NextTyped DEF MoveObserved
    <2> QED
      BY <1>11, <2>1, CallTyped, ObservationTyped DEF MoveObserved, ObservedWithin
  <1>12. CASE MoveFrees
    <2>1. in_use - call.old \in 0 .. HeapCapacity /\ HeapHolds(in_use - call.old)
      BY <1>12, CallTyped, Numbers DEF MoveFrees, OldBlockHeld, NumbersTyped
    <2>2. call' \in Calls
      BY <1>12, CallTyped, NextTyped DEF MoveFrees
    <2> QED
      BY <1>12, <2>1, <2>2, ChangeTyped DEF MoveFrees
  <1>13. CASE FreeObserved
    <2>1. call' \in Calls
      BY <1>13, CallTyped, NextTyped, NoCallTyped DEF FreeObserved
    <2>2. heap_peak' \in 0 .. HeapCapacity
      BY <1>13, ObserveTyped DEF FreeObserved
    <2>3. free_calls' \in Nat
      BY <1>13, Numbers DEF FreeObserved, NumbersTyped
    <2> QED
      BY <1>13, <2>1, <2>2, <2>3 DEF FreeObserved, MemoryTypeOK, paint, Unwatched
  <1>14. CASE AllocationObserved
    BY <1>14, NoCallTyped, CallTyped, ObservationTyped DEF AllocationObserved
  <1>9. CASE \E W \in SUBSET Words : Call(W)
    BY <1>9 DEF Call, MemoryTypeOK, counts, paint
  <1>10. CASE UNCHANGED memoryVars
    BY <1>10 DEF memoryVars, counts, paint, MemoryTypeOK
  <1> QED
    BY <1>1, <1>2, <1>3, <1>4, <1>5, <1>6, <1>7, <1>8, <1>9, <1>10, <1>11, <1>12, <1>13, <1>14
    DEF MemoryNext

-----------------------------------------------------------------------------
(* The heap. *)

(* An observation catches up with what the heap has held. *)
LEMMA ObservePeak ==
    ASSUME NumbersTyped, Watched, observe_heap
    PROVE  /\ monitoring => heap_peak' = most /\ in_use <= heap_peak' /\ heap_peak <= heap_peak'
           /\ ~monitoring => heap_peak' = heap_peak
  BY DEF observe_heap, Watched, Greater, NumbersTyped

LEMMA HeadroomFalls ==
    ASSUME NEW a \in Nat, NEW b \in Nat, a <= b
    PROVE  Headroom(b) <= Headroom(a)
  BY RuntimeMemoryAssumption DEF Headroom

(* The heap changes unobserved only when what it held before was observed. *)
LEMMA ChangeWatched ==
    ASSUME NumbersTyped, Watched, NEW used \in 0 .. HeapCapacity, HeapHolds(used),
           call.next \in {"none", "copied"}, call'.next \notin {"none", "copied"},
           monitoring' = monitoring, heap_peak' = heap_peak
    PROVE  Watched'
  BY DEF Watched, HeapHolds, Greater, NumbersTyped

LEMMA ObservationWatched ==
    ASSUME NumbersTyped, Watched, observe_heap, UNCHANGED <<monitoring, in_use, most>>
    PROVE  Watched'
  <1>1. CASE monitoring
    <2>1. /\ heap_peak' = most /\ in_use <= heap_peak'
          /\ in_use' = in_use /\ most' = most
      BY <1>1, ObservePeak
    <2> QED
      BY <2>1 DEF Watched, Greater, NumbersTyped
  <1>2. CASE ~monitoring
    BY <1>2 DEF Watched
  <1> QED
    BY <1>1, <1>2

(* The heap columns follow the peak upwards. *)
LEMMA ColumnsFollow ==
    ASSUME NumbersTyped, NumbersTyped', HeapInv,
           monitoring => heap_peak <= heap_peak' \/ heap_peak' = heap_peak,
           UNCHANGED <<monitoring, heap_before, marked, free_before_tls>>
    PROVE  HeapInv'
  <1> SUFFICES ASSUME monitoring
               PROVE  /\ heap_before <= heap_peak'
                      /\ IF marked THEN Headroom(heap_peak') <= free_before_tls
                                   ELSE free_before_tls = 0
    BY Zenon DEF HeapInv, Headroom
  <1>1. heap_peak <= heap_peak' /\ heap_peak \in Nat /\ heap_peak' \in Nat
    BY RuntimeMemoryAssumption DEF NumbersTyped
  <1>2. Headroom(heap_peak') <= Headroom(heap_peak)
    BY <1>1, HeadroomFalls
  <1>3. Headroom(heap_peak') \in Nat /\ Headroom(heap_peak) \in Nat
    BY HeadroomType, RuntimeMemoryAssumption DEF NumbersTyped
  <1> QED
    BY <1>1, <1>2, <1>3 DEF HeapInv, NumbersTyped

(* What the wrappers of the allocator do. *)
AllocatorStep ==
    \/ \E size \in Sizes : wrap_malloc_r(size)
    \/ \E old, size \in Sizes : wrap_realloc_r(old, size)
    \/ \E old, size \in Sizes : wrap_realloc_r_moves(old, size)
    \/ \E old \in Sizes : wrap_free_r(old)
    \/ MoveObserved \/ MoveFrees \/ FreeObserved \/ AllocationObserved

LEMMA AllocatorUnwatched == AllocatorStep => UNCHANGED Unwatched
  BY Zenon DEF AllocatorStep, wrap_malloc_r, wrap_realloc_r, wrap_realloc_r_moves, wrap_free_r,
               Enters, MoveObserved, MoveFrees, FreeObserved, AllocationObserved

(* Every such step changes the heap or observes it. *)
LEMMA AllocatorHeap ==
    ASSUME MemoryTypeOK, Watched, OldBlockHeld, AllocatorStep
    PROVE  /\ Watched' /\ OldBlockHeld'
           /\ monitoring => heap_peak <= heap_peak' \/ heap_peak' = heap_peak
  <1> USE RuntimeMemoryAssumption
  <1>n. NumbersTyped
    BY Numbers
  <1>u. monitoring' = monitoring
    BY AllocatorUnwatched DEF Unwatched
  <1>c. ASSUME NEW used \in 0 .. HeapCapacity, HeapHolds(used), heap_peak' = heap_peak,
               call.next \in {"none", "copied"}, call'.next \notin {"none", "copied"}
        PROVE  /\ Watched'
               /\ monitoring => heap_peak <= heap_peak' \/ heap_peak' = heap_peak
    BY <1>n, <1>u, <1>c, ChangeWatched
  <1>o. ASSUME observe_heap, UNCHANGED <<in_use, most>>
        PROVE  /\ Watched'
               /\ monitoring => heap_peak <= heap_peak' \/ heap_peak' = heap_peak
    BY <1>n, <1>u, <1>o, ObservationWatched, ObservePeak
  <1>h. ASSUME call'.next \notin {"moving", "copied"} PROVE OldBlockHeld'
    BY <1>h DEF OldBlockHeld
  <1>5. CASE \E size \in Sizes : wrap_malloc_r(size)
    <2>1. PICK size \in Sizes, null \in BOOLEAN :
             real_malloc_r(size, null) /\ NextIs("allocated", size, null, 0)
      BY <1>5 DEF wrap_malloc_r
    <2>2. PICK used \in 0 .. HeapCapacity : HeapHolds(used)
      BY <1>n, <2>1, MallocGrows
    <2>3. heap_peak' = heap_peak /\ call.next = "none" /\ call'.next = "allocated"
      BY <1>5, <2>1 DEF wrap_malloc_r, Enters, NoCall, NextIs
    <2> QED
      BY <1>c, <1>h, <2>2, <2>3
  <1>6. CASE \E old, size \in Sizes : wrap_realloc_r(old, size)
    <2>1. PICK old \in Sizes, size \in Sizes : wrap_realloc_r(old, size)
      BY <1>6
    <2>2. in_use - old + size \in 0 .. HeapCapacity /\ HeapHolds(in_use - old + size)
      BY <1>n, <2>1 DEF wrap_realloc_r, NumbersTyped
    <2>3. heap_peak' = heap_peak /\ call.next = "none" /\ call'.next = "allocated"
      BY <2>1 DEF wrap_realloc_r, Enters, NoCall, NextIs
    <2> QED
      BY <1>c, <1>h, <2>2, <2>3
  <1>7. CASE \E old, size \in Sizes : wrap_realloc_r_moves(old, size)
    <2>1. PICK old \in Sizes, size \in Sizes, null \in BOOLEAN :
             /\ old <= in_use
             /\ real_malloc_r(size, null) /\ NextIs("moving", size, null, old)
      BY <1>7 DEF wrap_realloc_r_moves
    <2>2. PICK used \in 0 .. HeapCapacity : in_use <= used /\ HeapHolds(used)
      BY <1>n, <2>1, MallocGrows
    <2>3. /\ heap_peak' = heap_peak /\ call.next = "none"
          /\ call'.next = "moving" /\ call'.old = old
      BY <1>7, <2>1 DEF wrap_realloc_r_moves, Enters, NoCall, NextIs
    <2>4. OldBlockHeld'
      BY <1>n, <2>1, <2>2, <2>3 DEF OldBlockHeld, HeapHolds, NumbersTyped
    <2> QED
      BY <1>c, <2>2, <2>3, <2>4
  <1>8. CASE \E old \in Sizes : wrap_free_r(old)
    <2>1. PICK old \in Sizes : wrap_free_r(old)
      BY <1>8
    <2>2. in_use - old \in 0 .. HeapCapacity /\ HeapHolds(in_use - old)
      BY <1>n, <2>1 DEF wrap_free_r, NumbersTyped
    <2>3. heap_peak' = heap_peak /\ call.next = "none" /\ call'.next = "freed"
      BY <2>1 DEF wrap_free_r, Enters, NoCall, NextIs
    <2> QED
      BY <1>c, <1>h, <2>2, <2>3
  <1>11. CASE MoveObserved
    <2>1. observe_heap /\ UNCHANGED <<in_use, most>>
      BY <1>11, Zenon DEF MoveObserved, ObservedWithin, allocation_observed
    <2>2. call.old <= in_use
      BY <1>11 DEF MoveObserved, OldBlockHeld
    <2>3. call'.next \in {"moving", "copied"} => call'.old = call.old
      BY <1>11 DEF MoveObserved, NextIs
    <2>4. OldBlockHeld'
      BY <2>1, <2>2, <2>3 DEF OldBlockHeld
    <2> QED
      BY <1>o, <2>1, <2>4
  <1>12. CASE MoveFrees
    <2>1. in_use - call.old \in 0 .. HeapCapacity /\ HeapHolds(in_use - call.old)
      BY <1>n, <1>12, CallTyped DEF MoveFrees, OldBlockHeld, NumbersTyped
    <2>2. heap_peak' = heap_peak /\ call.next = "copied" /\ call'.next = "old_freed"
      BY <1>12 DEF MoveFrees, NextIs
    <2> QED
      BY <1>c, <1>h, <2>1, <2>2
  <1>13. CASE FreeObserved
    <2>1. observe_heap /\ UNCHANGED <<in_use, most>>
      BY <1>13, Zenon DEF FreeObserved
    <2>2. call'.next \notin {"moving", "copied"}
      BY <1>13 DEF FreeObserved, NextIs, NoCall
    <2> QED
      BY <1>o, <1>h, <2>1, <2>2
  <1>14. CASE AllocationObserved
    <2>1. observe_heap /\ UNCHANGED <<in_use, most>>
      BY <1>14, Zenon DEF AllocationObserved, allocation_observed
    <2>2. call'.next \notin {"moving", "copied"}
      BY <1>14 DEF AllocationObserved, NoCall
    <2> QED
      BY <1>o, <1>h, <2>1, <2>2
  <1> QED
    BY <1>5, <1>6, <1>7, <1>8, <1>11, <1>12, <1>13, <1>14 DEF AllocatorStep

LEMMA HeapStep ==
    ASSUME MemoryIInv, [MemoryNext]_memoryVars
    PROVE  Watched' /\ OldBlockHeld' /\ HeapInv'
  <1> USE RuntimeMemoryAssumption DEF MemoryIInv
  <1>n. NumbersTyped /\ NumbersTyped'
    BY MemoryNextTyped, Numbers DEF MemoryTypeOK, NumbersTyped
  <1>w. Watched /\ OldBlockHeld /\ HeapInv
    OBVIOUS
  <1>1. CASE \E current \in Depths : runtime_memory_begin(current)
    <2> PICK current \in Depths : runtime_memory_begin(current)
      BY <1>1
    <2>1. /\ heap_before' = in_use /\ heap_peak' = in_use /\ most' = in_use
          /\ in_use' = in_use /\ marked' = FALSE /\ free_before_tls' = 0
          /\ call' = call /\ call = NoCall
      BY DEF runtime_memory_begin, ResetTlsMark
    <2>2. Watched' /\ HeapInv'
      BY <1>n, <2>1 DEF Watched, HeapInv, Greater, NumbersTyped
    <2>3. OldBlockHeld'
      BY <1>w, <2>1 DEF OldBlockHeld
    <2> QED
      BY <2>2, <2>3
  <1>2. CASE \E stage \in Stages : runtime_memory_set_stage(stage)
    <2>1. /\ observe_heap
          /\ UNCHANGED <<monitoring, in_use, call, most, heap_before, marked, free_before_tls>>
      BY <1>2, Zenon DEF runtime_memory_set_stage
    <2>2. Watched'
      BY <1>n, <1>w, <2>1, ObservationWatched
    <2>3. HeapInv'
      BY <1>n, <1>w, <2>1, ObservePeak, ColumnsFollow
    <2> QED
      BY <1>w, <2>1, <2>2, <2>3 DEF OldBlockHeld
  <1>3. CASE runtime_memory_mark_tls_start
    <2>1. /\ observe_heap
          /\ UNCHANGED <<monitoring, in_use, call, most, heap_before>>
          /\ free_before_tls' = Headroom(in_use) /\ marked' = (marked \/ monitoring)
      BY <1>3, Zenon DEF runtime_memory_mark_tls_start
    <2>2. Watched'
      BY <1>n, <1>w, <2>1, ObservationWatched
    <2>3. ASSUME monitoring PROVE heap_before <= heap_peak' /\ Headroom(heap_peak') <= Headroom(in_use)
      <3>1. in_use <= heap_peak' /\ heap_peak <= heap_peak' /\ heap_before <= heap_peak
        BY <1>n, <1>w, <2>1, <2>3, ObservePeak DEF HeapInv
      <3> QED
        BY <1>n, <3>1, HeadroomFalls DEF NumbersTyped
    <2>4. monitoring' => marked'
      BY <2>1
    <2>5. HeapInv'
      BY <2>1, <2>3, <2>4, Zenon DEF HeapInv, Headroom
    <2> QED
      BY <1>w, <2>1, <2>2, <2>5 DEF OldBlockHeld
  <1>4. CASE runtime_memory_end
    <2>1. monitoring' = FALSE /\ in_use' = in_use /\ call' = call
      BY <1>4 DEF runtime_memory_end
    <2> QED
      BY <1>w, <2>1 DEF Watched, HeapInv, OldBlockHeld
  <1>5. CASE AllocatorStep
    <2>1. /\ Watched' /\ OldBlockHeld'
          /\ monitoring => heap_peak <= heap_peak' \/ heap_peak' = heap_peak
      BY <1>5, <1>w, AllocatorHeap
    <2>2. UNCHANGED <<monitoring, heap_before, marked, free_before_tls>>
      BY <1>5, AllocatorUnwatched, Zenon DEF Unwatched
    <2>3. HeapInv'
      BY <1>n, <1>w, <2>1, <2>2, ColumnsFollow
    <2> QED
      BY <2>1, <2>3
  <1>9. CASE UNCHANGED <<monitoring, in_use, call, most, heap_peak, heap_before, marked,
                         free_before_tls>>
    BY <1>n, <1>w, <1>9, ColumnsFollow DEF Watched, OldBlockHeld
  <1>10. CASE \E W \in SUBSET Words : Call(W)
    BY <1>9, <1>10, Zenon DEF Call
  <1>11. CASE UNCHANGED memoryVars
    BY <1>9, <1>11, Zenon DEF memoryVars
  <1> QED
    BY <1>1, <1>2, <1>3, <1>4, <1>5, <1>10, <1>11 DEF MemoryNext, AllocatorStep

-----------------------------------------------------------------------------
(* Failed requests. *)

LEMMA FailureStep == ASSUME MemoryIInv, [MemoryNext]_memoryVars PROVE FirstFailureKept' /\ FailureFieldsAgree'
  <1> USE RuntimeMemoryAssumption DEF MemoryIInv
  <1>n. NumbersTyped
    BY Numbers
  <1>f. failure.failed \in BOOLEAN /\ failure.bytes \in Nat
    BY DEF MemoryTypeOK
  <1>0. FirstFailureKept /\ FailureFieldsAgree
    OBVIOUS
  <1>k. ASSUME UNCHANGED <<failure, first, failed_allocations, allocation_calls,
                           maximum_allocation_request>>
        PROVE  FirstFailureKept' /\ FailureFieldsAgree'
    BY <1>0, <1>k DEF FirstFailureKept, FailureFieldsAgree
  <1>o. ASSUME NEW requested \in Nat, NEW null \in BOOLEAN,
               allocation_observed(requested, null)
        PROVE  FirstFailureKept' /\ FailureFieldsAgree'
    <2>1. CASE ~monitoring
      BY <1>k, <1>o, <2>1 DEF allocation_observed
    <2>2. CASE monitoring /\ ~(null /\ requested # 0)
      <3>1. /\ failure' = failure /\ first' = first
            /\ failed_allocations' = failed_allocations
        BY <1>o, <2>2, Zenon DEF allocation_observed, Counts
      <3>2. /\ allocation_calls' = allocation_calls + 1
            /\ maximum_allocation_request' = Greater(maximum_allocation_request, requested)
        BY <1>o, <2>2, Zenon DEF allocation_observed
      <3>3. allocation_calls <= allocation_calls'
            /\ maximum_allocation_request <= maximum_allocation_request'
            /\ allocation_calls' \in Nat /\ maximum_allocation_request' \in Nat
        BY <1>n, <3>2 DEF Greater, NumbersTyped
      <3>4. failure'.bytes <= maximum_allocation_request'
            /\ failed_allocations' <= allocation_calls'
        BY <1>n, <1>f, <1>0, <3>1, <3>3 DEF FailureFieldsAgree, NumbersTyped
      <3> QED
        BY <1>0, <3>1, <3>4, Zenon DEF FirstFailureKept, FailureFieldsAgree
    <2>3. CASE monitoring /\ null /\ requested # 0
      <3>1. /\ allocation_calls' = allocation_calls + 1
            /\ failed_allocations' = failed_allocations + 1
            /\ maximum_allocation_request' = Greater(maximum_allocation_request, requested)
        BY <1>o, <2>3, Zenon DEF allocation_observed, Counts
      <3>2. /\ failure' = IF failure.failed THEN failure ELSE Failed(requested)
            /\ first' = IF first.failed THEN first ELSE Failed(requested)
        BY <1>o, <2>3, Zenon DEF allocation_observed, Counts, note_allocation_failure
      <3>3. failure'.failed /\ failure'.bytes \in {failure.bytes, requested}
        BY <3>2 DEF Failed
      <3>4. failed_allocations' > 0
        BY <1>n, <3>1 DEF NumbersTyped
      <3>5. failure.bytes <= maximum_allocation_request
            /\ failed_allocations <= allocation_calls
        BY <1>0 DEF FailureFieldsAgree
      <3>6. failure'.bytes <= maximum_allocation_request'
            /\ failed_allocations' <= allocation_calls'
        BY <1>n, <1>f, <3>1, <3>3, <3>5 DEF Greater, NumbersTyped
      <3>7. FirstFailureKept'
        BY <1>0, <3>2, Zenon DEF FirstFailureKept
      <3> QED
        BY <3>3, <3>4, <3>6, <3>7, Zenon DEF FailureFieldsAgree
    <2> QED
      BY <2>1, <2>2, <2>3
  <1>1. CASE \E current \in Depths : runtime_memory_begin(current)
    BY <1>1 DEF runtime_memory_begin, NoFailure, FirstFailureKept, FailureFieldsAgree
  <1>2. CASE \E stage \in Stages : runtime_memory_set_stage(stage)
    BY <1>k, <1>2, Zenon DEF runtime_memory_set_stage, counts
  <1>3. CASE runtime_memory_mark_tls_start
    BY <1>k, <1>3, Zenon DEF runtime_memory_mark_tls_start, counts
  <1>4. CASE runtime_memory_end
    BY <1>k, <1>4, Zenon DEF runtime_memory_end, counts
  <1>5. CASE \E size \in Sizes : wrap_malloc_r(size)
    BY <1>k, <1>5, Zenon DEF wrap_malloc_r, Enters, counts
  <1>6. CASE \E old, size \in Sizes : wrap_realloc_r(old, size)
    BY <1>k, <1>6, Zenon DEF wrap_realloc_r, Enters, counts
  <1>7. CASE \E old, size \in Sizes : wrap_realloc_r_moves(old, size)
    BY <1>k, <1>7, Zenon DEF wrap_realloc_r_moves, Enters, counts
  <1>8. CASE \E old \in Sizes : wrap_free_r(old)
    BY <1>k, <1>8, Zenon DEF wrap_free_r, Enters, counts
  <1>11. CASE MoveObserved
    BY <1>o, <1>11, CallTyped DEF MoveObserved, ObservedWithin
  <1>12. CASE MoveFrees
    BY <1>k, <1>12, Zenon DEF MoveFrees, counts
  <1>13. CASE FreeObserved
    BY <1>k, <1>13, Zenon DEF FreeObserved
  <1>14. CASE AllocationObserved
    BY <1>o, <1>14, CallTyped DEF AllocationObserved
  <1>9. CASE \E W \in SUBSET Words : Call(W)
    BY <1>k, <1>9, Zenon DEF Call, counts
  <1>10. CASE UNCHANGED memoryVars
    BY <1>k, <1>10, Zenon DEF memoryVars, counts
  <1> QED
    BY <1>1, <1>2, <1>3, <1>4, <1>5, <1>6, <1>7, <1>8, <1>9, <1>10, <1>11, <1>12, <1>13, <1>14
    DEF MemoryNext

-----------------------------------------------------------------------------
(* The columns of the row. *)

LEMMA FreeColumnsStep == ASSUME MemoryIInv, [MemoryNext]_memoryVars PROVE FreeColumnsConsistent'
  <1> USE DEF MemoryIInv
  <1>n. NumbersTyped /\ NumbersTyped'
    BY MemoryNextTyped, Numbers DEF MemoryTypeOK, NumbersTyped
  <1>k. ASSUME monitoring' = monitoring, result' = result, heap_before' = heap_before,
               marked' = marked
        PROVE  ~monitoring' => FreeColumnsConsistent'
    BY <1>k, Zenon DEF FreeColumnsConsistent, Headroom
  <1>m. monitoring' => FreeColumnsConsistent'
    BY DEF FreeColumnsConsistent
  <1>1. CASE \E current \in Depths : runtime_memory_begin(current)
    BY <1>m, <1>1, Zenon DEF runtime_memory_begin
  <1>2. CASE \E stage \in Stages : runtime_memory_set_stage(stage)
    BY <1>m, <1>k, <1>2, Zenon DEF runtime_memory_set_stage
  <1>3. CASE runtime_memory_mark_tls_start
    <2>1. CASE monitoring
      BY <1>m, <1>3, <2>1, Zenon DEF runtime_memory_mark_tls_start
    <2>2. CASE ~monitoring
      <3>1. marked' = (marked \/ monitoring) /\ marked \in BOOLEAN
        BY <1>3 DEF runtime_memory_mark_tls_start, MemoryTypeOK
      <3>2. marked' = marked
        BY <2>2, <3>1
      <3> QED
        BY <1>k, <1>3, <2>2, <3>2, Zenon DEF runtime_memory_mark_tls_start
    <2> QED
      BY <2>1, <2>2
  <1>4. CASE runtime_memory_end
    <2>0. /\ monitoring /\ observe_heap
          /\ UNCHANGED <<in_use, heap_before, free_before_tls, marked>>
      BY <1>4, Zenon DEF runtime_memory_end
    <2>1. PICK p \in 0 .. StackWords :
             result' = [minFree       |-> Headroom(heap_peak'),
                        freeBeforeTls |-> free_before_tls,
                        peakDelta     |-> PeakDelta(heap_peak'),
                        after         |-> in_use,
                        highWater     |-> HighWater(p),
                        corrupted     |-> painted /\ GuardHit]
      BY <1>4 DEF runtime_memory_end
    <2>2. in_use <= heap_peak' /\ heap_peak <= heap_peak'
      BY <1>n, <2>0, ObservePeak DEF NumbersTyped
    <2>3. in_use <= heap_peak' /\ heap_before <= heap_peak'
      BY <1>n, <2>0, <2>2 DEF HeapInv, NumbersTyped
    <2>4. /\ Headroom(heap_peak') <= Headroom(heap_before)
          /\ Headroom(heap_peak') <= Headroom(in_use)
          /\ Headroom(heap_peak') <= Headroom(heap_peak)
      BY <1>n, <2>2, <2>3, HeadroomFalls DEF NumbersTyped
    <2>5. Headroom(heap_peak') \in Nat /\ Headroom(heap_peak) \in Nat
      BY <1>n, HeadroomType DEF NumbersTyped
    <2>6. IF marked THEN Headroom(heap_peak) <= free_before_tls ELSE free_before_tls = 0
      BY <2>0 DEF HeapInv
    <2>7. IF marked THEN Headroom(heap_peak') <= free_before_tls ELSE free_before_tls = 0
      BY <1>n, <2>4, <2>5, <2>6 DEF NumbersTyped
    <2>8. /\ result'.minFree = Headroom(heap_peak')
          /\ result'.freeBeforeTls = free_before_tls /\ result'.after = in_use
      BY <2>1
    <2> QED
      BY <2>0, <2>4, <2>7, <2>8, Zenon DEF FreeColumnsConsistent, Headroom
  <1>5. CASE AllocatorStep
    BY <1>m, <1>k, <1>5, AllocatorUnwatched, Zenon DEF Unwatched
  <1>9. CASE \E W \in SUBSET Words : Call(W)
    BY <1>m, <1>k, <1>9, Zenon DEF Call
  <1>10. CASE UNCHANGED memoryVars
    BY <1>m, <1>k, <1>10, Zenon DEF memoryVars
  <1> QED
    BY <1>1, <1>2, <1>3, <1>4, <1>5, <1>9, <1>10 DEF MemoryNext, AllocatorStep

-----------------------------------------------------------------------------
(* The stack. *)

LEMMA StackStep == ASSUME MemoryIInv, [MemoryNext]_memoryVars PROVE StackInv'
  <1> USE DEF MemoryIInv
  <1>k. ASSUME monitoring' = monitoring, stack' = stack, UNCHANGED paint, written' = written
        PROVE  StackInv'
    BY <1>k, Zenon DEF StackInv, paint
  <1>1. CASE \E current \in Depths : runtime_memory_begin(current)
    <2> PICK current \in Depths : runtime_memory_begin(current)
      BY <1>1
    <2> DEFINE end == current - PaintGuard
               guard == Guarded(end)
    <2>1. written' = {}
      BY DEF runtime_memory_begin
    <2>2. CASE end >= 0
      <3>1. end \in 0 .. StackWords
        BY <2>2, RuntimeMemoryAssumption
      <3>2. /\ stack' = [w \in Words |-> Painted(w, guard, end)]
            /\ guard_end' = guard /\ paint_end' = end
        BY <2>2 DEF runtime_memory_begin, PaintStack
      <3>3. ASSUME NEW w \in 0 .. end - 1
            PROVE  stack'[w] = IF w < guard THEN "guard" ELSE "paint"
        <4>1. w \in Words /\ w < end
          BY <3>1, RuntimeMemoryAssumption DEF Words
        <4> QED
          BY <3>2, <4>1 DEF Painted
      <3> QED
        BY <2>1, <3>2, <3>3 DEF StackInv
    <2>3. CASE ~(end >= 0)
      <3>1. painted' = FALSE
        BY <2>3 DEF runtime_memory_begin, PaintStack
      <3> QED
        BY <3>1 DEF StackInv
    <2> QED
      BY <2>2, <2>3
  <1>2. CASE \E stage \in Stages : runtime_memory_set_stage(stage)
    BY <1>k, <1>2, Zenon DEF runtime_memory_set_stage, paint
  <1>3. CASE runtime_memory_mark_tls_start
    BY <1>k, <1>3, Zenon DEF runtime_memory_mark_tls_start, paint
  <1>4. CASE runtime_memory_end
    <2>1. ~monitoring'
      BY <1>4 DEF runtime_memory_end
    <2> QED
      BY <2>1 DEF StackInv
  <1>5. CASE AllocatorStep
    BY <1>k, <1>5, AllocatorUnwatched, Zenon DEF Unwatched, paint
  <1>9. CASE \E W \in SUBSET Words : Call(W)
    <2> PICK W \in SUBSET Words : Call(W)
      BY <1>9
    <2>1. SUFFICES ASSUME monitoring, painted, NEW w \in 0 .. paint_end - 1
                   PROVE  stack'[w] = IF w \in written' THEN "used"
                                      ELSE IF w < guard_end THEN "guard" ELSE "paint"
      BY DEF Call, StackInv, paint
    <2>2. stack[w] = IF w \in written THEN "used"
                     ELSE IF w < guard_end THEN "guard" ELSE "paint"
      BY <2>1 DEF StackInv
    <2>3. paint_end \in 0 .. StackWords
      BY DEF MemoryTypeOK
    <2>4. w \in Words
      BY <2>3, RuntimeMemoryAssumption DEF Words
    <2>5. stack'[w] = IF w \in W THEN "used" ELSE stack[w]
      BY <2>4 DEF Call
    <2>6. written' = written \cup W
      BY <2>1 DEF Call
    <2> QED
      BY <2>2, <2>5, <2>6
  <1>10. CASE UNCHANGED memoryVars
    BY <1>k, <1>10, Zenon DEF memoryVars, paint
  <1> QED
    BY <1>1, <1>2, <1>3, <1>4, <1>5, <1>9, <1>10 DEF MemoryNext, AllocatorStep

(* The scan of runtime_memory_end stops at the deepest word the attempt wrote. *)
LEMMA HighWaterStep == ASSUME MemoryIInv, [MemoryNext]_memoryVars PROVE HighWaterIsDeepest'
  <1> USE DEF MemoryIInv
  <1>m. monitoring' => HighWaterIsDeepest'
    BY DEF HighWaterIsDeepest
  <1>k. ASSUME monitoring' = monitoring, result' = result, UNCHANGED paint,
               ~monitoring => written' = written
        PROVE  HighWaterIsDeepest'
    <2>1. CASE monitoring
      BY <1>m, <1>k, <2>1
    <2>2. CASE ~monitoring
      BY <1>k, <2>2, Zenon DEF HighWaterIsDeepest, paint
    <2> QED
      BY <2>1, <2>2
  <1>1. CASE \E current \in Depths : runtime_memory_begin(current)
    BY <1>m, <1>1, Zenon DEF runtime_memory_begin
  <1>2. CASE \E stage \in Stages : runtime_memory_set_stage(stage)
    BY <1>k, <1>2, Zenon DEF runtime_memory_set_stage
  <1>3. CASE runtime_memory_mark_tls_start
    BY <1>k, <1>3, Zenon DEF runtime_memory_mark_tls_start
  <1>4. CASE runtime_memory_end
    <2>0. monitoring /\ written' = written /\ UNCHANGED paint
      BY <1>4, Zenon DEF runtime_memory_end
    <2>1. PICK p \in 0 .. StackWords :
             /\ FirstDirty(p)
             /\ result' = [minFree       |-> Headroom(heap_peak'),
                           freeBeforeTls |-> free_before_tls,
                           peakDelta     |-> PeakDelta(heap_peak'),
                           after         |-> in_use,
                           highWater     |-> HighWater(p),
                           corrupted     |-> painted /\ GuardHit]
      BY <1>4 DEF runtime_memory_end
    <2>2. result'.highWater = HighWater(p) /\ result'.corrupted = (painted /\ GuardHit)
      BY <2>1
    <2>3. SUFFICES ASSUME painted
          PROVE  /\ \A w \in written : StackWords - w <= HighWater(p)
                 /\ GuardHit <=> \E w \in written : w < guard_end
                 /\ ~GuardHit =>
                       HighWater(p) \in {StackWords - w : w \in written \cup {paint_end}}
      BY <2>0, <2>2, Zenon DEF HighWaterIsDeepest, paint
    <2>4. /\ paint_end \in 0 .. StackWords /\ guard_end \in 0 .. paint_end
          /\ written \subseteq Words /\ StackWords \in Nat
      BY RuntimeMemoryAssumption DEF MemoryTypeOK
    <2>5. \A w \in 0 .. paint_end - 1 :
             stack[w] = IF w \in written THEN "used"
                        ELSE IF w < guard_end THEN "guard" ELSE "paint"
      BY <2>0, <2>3 DEF StackInv
    <2>6. GuardHit <=> \E w \in written : w < guard_end
      <3>1. ASSUME NEW w \in 0 .. guard_end - 1
            PROVE  stack[w] # "guard" <=> w \in written
        <4>1. w \in 0 .. paint_end - 1 /\ w < guard_end
          BY <2>4
        <4> QED
          BY <2>5, <4>1
      <3>2. \A w \in written : w < guard_end <=> w \in 0 .. guard_end - 1
        BY <2>4 DEF Words
      <3> QED
        BY <3>1, <3>2, Zenon DEF GuardHit
    <2>7. p \in guard_end .. paint_end
      BY <2>1 DEF FirstDirty
    <2>8. CASE GuardHit
      <3>1. HighWater(p) = StackWords
        BY <2>3, <2>8 DEF HighWater
      <3>2. \A w \in written : StackWords - w <= StackWords
        BY <2>4 DEF Words
      <3> QED
        BY <2>6, <2>8, <3>1, <3>2
    <2>9. CASE ~GuardHit
      <3>1. HighWater(p) = StackWords - p
        BY <2>3, <2>9 DEF HighWater
      <3>2. ASSUME NEW w \in written PROVE p <= w
        <4>1. w \in Nat /\ w >= guard_end
          BY <2>4, <2>6, <2>9 DEF Words
        <4>2. CASE w < p
          <5>1. w \in guard_end .. p - 1 /\ w \in 0 .. paint_end - 1
            BY <2>4, <2>7, <4>1, <4>2
          <5>2. stack[w] = "paint"
            BY <2>1, <5>1 DEF FirstDirty
          <5>3. stack[w] = "used"
            BY <2>5, <5>1
          <5> QED
            BY <5>2, <5>3
        <4> QED
          BY <2>4, <2>7, <4>1, <4>2
      <3>3. \A w \in written : StackWords - w <= StackWords - p
        <4>1. \A w \in written : w \in Nat
          BY <2>4 DEF Words
        <4> QED
          BY <2>4, <2>7, <3>2, <4>1
      <3>4. p \in written \cup {paint_end}
        <4>1. CASE p < paint_end
          <5>1. stack[p] # "paint"
            BY <2>1, <4>1 DEF FirstDirty
          <5>2. p \in 0 .. paint_end - 1 /\ ~(p < guard_end)
            BY <2>4, <2>7, <4>1
          <5> QED
            BY <2>5, <5>1, <5>2
        <4> QED
          BY <2>4, <2>7, <4>1
      <3> QED
        BY <2>6, <3>1, <3>3, <3>4
    <2> QED
      BY <2>8, <2>9
  <1>5. CASE AllocatorStep
    BY <1>k, <1>5, AllocatorUnwatched, Zenon DEF Unwatched, paint
  <1>9. CASE \E W \in SUBSET Words : Call(W)
    BY <1>k, <1>9, Zenon DEF Call, paint
  <1>10. CASE UNCHANGED memoryVars
    BY <1>k, <1>10, Zenon DEF memoryVars, paint
  <1> QED
    BY <1>1, <1>2, <1>3, <1>4, <1>5, <1>9, <1>10 DEF MemoryNext, AllocatorStep

-----------------------------------------------------------------------------
(* The theorems. *)

LEMMA MemoryInitInv == MemoryInit => MemoryIInv
  <1> SUFFICES ASSUME MemoryInit PROVE MemoryIInv
    OBVIOUS
  <1>1. MemoryTypeOK
    BY MemoryInitTyped
  <1>2. ~monitoring /\ result = NoResult
    BY DEF MemoryInit
  <1>4. Watched /\ OldBlockHeld
    BY DEF MemoryInit, NoCall, Watched, OldBlockHeld
  <1>3. FirstFailureKept /\ FailureFieldsAgree
    BY DEF MemoryInit, NoFailure, FirstFailureKept, FailureFieldsAgree
  <1> QED
    BY <1>1, <1>2, <1>3, <1>4 DEF MemoryIInv, HeapInv, StackInv, FreeColumnsConsistent, HighWaterIsDeepest

LEMMA MemoryNextInv == MemoryIInv /\ [MemoryNext]_memoryVars => MemoryIInv'
  BY MemoryNextTyped, HeapStep, FailureStep, FreeColumnsStep, StackStep, HighWaterStep DEF MemoryIInv

LEMMA MemoryInductive == MemorySpec => []MemoryIInv
  <1> QED
    BY MemoryInitInv, MemoryNextInv, PTL DEF MemorySpec

(* Every variable of the monitor keeps its type: no column is negative or beyond the heap. *)
THEOREM MemoryTypeCorrect == MemorySpec => []MemoryTypeOK
  <1>1. MemoryIInv => MemoryTypeOK
    BY DEF MemoryIInv
  <1> QED
    BY MemoryInductive, <1>1, PTL

(* Whenever no call of the allocator is in progress, the peak is the most the heap held since *)
(* begin, at whichever point of a call it held it.                                           *)
THEOREM PeakCorrect == MemorySpec => []PeakIsMaximum
  <1>1. MemoryIInv => PeakIsMaximum
    <2> SUFFICES ASSUME MemoryIInv, monitoring, call = NoCall PROVE heap_peak = most
      BY DEF PeakIsMaximum
    <2>1. NumbersTyped
      BY Numbers DEF MemoryIInv
    <2>2. most = Greater(heap_peak, in_use) /\ in_use <= heap_peak
      BY DEF MemoryIInv, Watched, NoCall
    <2> QED
      BY <2>1, <2>2 DEF Greater, NumbersTyped
  <1> QED
    BY MemoryInductive, <1>1, PTL

(* The failure reported is the attempt's first, and no earlier attempt's. *)
THEOREM FirstFailure == MemorySpec => []FirstFailureKept
  <1>1. MemoryIInv => FirstFailureKept
    BY DEF MemoryIInv
  <1> QED
    BY MemoryInductive, <1>1, PTL

(* The failure flag, the failure's size and the number of failures agree. *)
THEOREM FailuresAgree == MemorySpec => []FailureFieldsAgree
  <1>1. MemoryIInv => FailureFieldsAgree
    BY DEF MemoryIInv
  <1> QED
    BY MemoryInductive, <1>1, PTL

(* min_free_bytes bounds the other columns of free heap; nothing is carried over. *)
THEOREM FreeColumns == MemorySpec => []FreeColumnsConsistent
  <1>1. MemoryIInv => FreeColumnsConsistent
    BY DEF MemoryIInv
  <1> QED
    BY MemoryInductive, <1>1, PTL

(* The stack's high-water mark is the deepest word the attempt wrote. *)
THEOREM StackDepth == MemorySpec => []HighWaterIsDeepest
  <1>1. MemoryIInv => HighWaterIsDeepest
    BY DEF MemoryIInv
  <1> QED
    BY MemoryInductive, <1>1, PTL

-----------------------------------------------------------------------------
(* The primitive benchmark.                                                *)

IInv == CyclesTypeOK /\ TimeIsCounted /\ LoadsFit /\ ReadingIsExact

cyclesVars == <<counter, reader>>

\* One more period is one more of its length.
LEMMA OneMore ==
    ASSUME NEW g \in Nat, NEW p \in Nat
    PROVE  (g + 1) * p = g * p + p /\ g * p \in Nat
  OBVIOUS

LEMMA PeriodIsNat == Period \in Nat /\ Period > 1 /\ Reload \in Nat /\ Reload >= 1 /\ Period = Reload + 1
  BY BenchCyclesAssumption DEF Period

\* The counter as bench_init leaves it.
LEMMA InitHolds == Init => IInv
<1>1. 0 * Period = 0
  BY PeriodIsNat
<1> QED
  BY <1>1, PeriodIsNat DEF Init, bench_init, IInv, CyclesTypeOK, TimeIsCounted, LoadsFit, ReadingIsExact

\* A cycle of the clock: the count goes down, or a period is over whose exception is pending.
LEMMA TickStep == IInv /\ Tick => IInv'
<1> SUFFICES ASSUME IInv, Tick PROVE IInv'
  OBVIOUS
<1> USE PeriodIsNat DEF IInv, CyclesTypeOK, TimeIsCounted, LoadsFit, ReadingIsExact, Tick, reader
<1>1. CyclesTypeOK'
  OBVIOUS
<1>2. TimeIsCounted'
  <2> DEFINE gp == g_wraps * Period
  <2>1. gp \in Nat /\ (g_wraps + 1) * Period = gp + Period
    BY OneMore
  <2>2. now = (IF irq # "no" /\ cvr # 0 THEN gp + Period ELSE gp) + (Reload - cvr)
    BY <2>1
  <2>3. g_wraps' * Period' = gp /\ (g_wraps' + 1) * Period' = gp + Period
    BY <2>1 DEF Period
  <2>4. Reload \in Nat /\ cvr \in Nat /\ cvr <= Reload /\ now \in Nat /\ Period = Reload + 1
        /\ (cvr = 0 => irq # "no")
    OBVIOUS
  <2>5. now' = now + 1 /\ cvr' = (IF cvr = 0 THEN Reload ELSE cvr - 1)
        /\ irq' = (IF cvr' = 0 THEN "new" ELSE irq) /\ ~(cvr = 1 /\ irq # "no") /\ Reload >= 1
    OBVIOUS
  <2> HIDE DEF gp, IInv, CyclesTypeOK, TimeIsCounted, LoadsFit, ReadingIsExact, Tick, reader
  <2>6. now' = (IF irq' # "no" /\ cvr' # 0 THEN gp + Period ELSE gp) + (Reload - cvr')
    <3>1. CASE cvr = 0
      BY <2>1, <2>2, <2>4, <2>5, <3>1
    <3>2. CASE cvr = 1
      BY <2>1, <2>2, <2>4, <2>5, <3>2
    <3>3. CASE cvr > 1
      BY <2>1, <2>2, <2>4, <2>5, <3>3
    <3> QED
      BY <2>4, <3>1, <3>2, <3>3
  <2>7. (cvr' = 0 => irq' # "no")
    BY <2>5
  <2> QED
    BY <2>3, <2>6, <2>7 DEF TimeIsCounted, gp
<1>3. LoadsFit'
  OBVIOUS
<1> QED
  BY <1>1, <1>2, <1>3

\* The handler counts the period that is over; what was loaded before it no longer fits.
LEMMA IsrStep == IInv /\ isr_systick => IInv'
<1> SUFFICES ASSUME IInv, isr_systick PROVE IInv'
  OBVIOUS
<1> USE PeriodIsNat DEF IInv, CyclesTypeOK, TimeIsCounted, LoadsFit, ReadingIsExact,
                        isr_systick, reader
<1>1. CyclesTypeOK' /\ LoadsFit' /\ ReadingIsExact'
  OBVIOUS
<1>2. TimeIsCounted'
  OBVIOUS
<1> QED
  BY <1>1, <1>2

\* A load of the reader; the last one returns only what fits.
LEMMA ReadStep ==
    IInv /\ (LoadWraps \/ LoadCounter \/ Retries \/ Returns) => IInv'
<1> SUFFICES ASSUME IInv, LoadWraps \/ LoadCounter \/ Retries \/ Returns PROVE IInv'
  OBVIOUS
<1> USE PeriodIsNat DEF IInv, CyclesTypeOK, TimeIsCounted, LoadsFit, ReadingIsExact, Instruction
<1>1. CASE LoadWraps
  BY <1>1 DEF LoadWraps
<1>2. CASE LoadCounter
  BY <1>2 DEF LoadCounter
<1>3. CASE Retries
  BY <1>3 DEF Retries
<1>4. CASE Returns
  <2>1. w1 * Period \in Nat
    BY OneMore
  <2> QED
    BY <1>4, <2>1 DEF Returns, WrapsUnchanged
<1> QED
  BY <1>1, <1>2, <1>3, <1>4

LEMMA OtherStep == IInv /\ UNCHANGED cyclesVars => IInv'
  BY DEF IInv, CyclesTypeOK, TimeIsCounted, LoadsFit, ReadingIsExact, cyclesVars, counter, reader,
         Period

\* Every step of the benchmark is a step of the clock, of the handler or of the reader, or
\* leaves the counter and its reader alone.
LEMMA StepHolds == IInv /\ [Next]_vars => IInv'
<1> SUFFICES ASSUME IInv, [Next]_vars PROVE IInv'
  OBVIOUS
<1>1. CASE ClockTicks
  BY <1>1, TickStep DEF ClockTicks
<1>2. CASE WrapCounted
  BY <1>2, IsrStep DEF WrapCounted
<1>3. CASE ReadsOn \/ FirstReading \/ SecondReading
  BY <1>3, ReadStep DEF ReadsOn, FirstReading, SecondReading
<1>4. CASE Begin \/ WarmupCall \/ CallReturns \/ Setup \/ KatVerify \/ RunEnds \/ Reference
           \/ Sanity \/ TamperedKat \/ UNCHANGED vars
  <2>1. UNCHANGED cyclesVars
    BY <1>4 DEF Begin, WarmupCall, CallReturns, Setup, KatVerify, RunEnds, Reference, Sanity,
              TamperedKat, vars, cyclesVars
  <2> QED
    BY <2>1, OtherStep
<1> QED
  BY <1>1, <1>2, <1>3, <1>4 DEF Next

\* bench_cycles returns the time of its load of the counter, whatever the reload value.
THEOREM ReadingExact == Spec => []ReadingIsExact
<1>1. Spec => []IInv
  BY InitHolds, StepHolds, PTL DEF Spec
<1>2. IInv => ReadingIsExact
  BY DEF IInv
<1> QED
  BY <1>1, <1>2, PTL
-----------------------------------------------------------------------------
(* The samples: the loop fills the arrays one by one, each with the time that
   passed around its call. *)
Sample == [read : Int, call : Int]

Filled == \A k \in 0 .. i - 1 : k < Len(calls) /\ cyc[k] = calls[k + 1].read

\* What holds besides the types of the counter.
LoopTypes == /\ program \in Programs /\ op \in {"sign", "verify"}
             /\ adapter \in Adapters \cup {"snova"} /\ {g_sig, g_siglen} \subseteq 0 .. SigMax
             /\ pc \in {"setup", "begin", "warmup", "c0", "call", "c1", "end", "reference",
                        "sanity", "halt"}
             /\ i \in Nat /\ rc \in Codes /\ c0 \in Int
             /\ cyc \in [0 .. MaxIters - 1 -> Int]
             /\ entered \in Sample
             /\ calls \in Seq(Sample) /\ returned \in Seq(Codes)

LoopInv ==
    /\ LoopTypes
    /\ pc = "warmup" => i < Warmup /\ Len(calls) = 0
    /\ pc \in {"c0", "call", "c1"} => i < iters /\ Filled
    /\ pc \in {"c0", "call"} => Len(calls) = i
    /\ pc = "c1" => Len(calls) = i + 1
    /\ pc \in {"call", "c1"} => c0 = entered.read
    /\ pc \in {"reference", "sanity"} \/ (pc = "end" /\ rc = 0) => Filled

LEMMA IterationsFit == iters \in Nat \ {0} /\ iters <= MaxIters /\ MaxIters \in Nat /\ Warmup \in Nat
  BY PrimitiveBenchAssumption DEF iters

AllAdapters == {"pqclean", "mayo", "hawk", "snova", "ecdsa", "rsa", "rsa_pss"}

LEMMA AdaptersKnown ==
    /\ Adapters \cup {"snova"} \subseteq AllAdapters
    /\ SigMax \in Nat \ {0} /\ MsgLen \in Nat \ {0}
  BY SchemeAdapterAssumption DEF AllAdapters

\* The contract of scheme.h for signing: a code, a buffer and a length of their types, and a
\* signature of that length whenever the code is 0. (scheme_do_sign)
THEOREM SignContract ==
    ASSUME NEW a \in AllAdapters, NEW len \in 0 .. SigMax, NEW s \in scheme_do_sign(a, len)
    PROVE  /\ s.rc \in Codes /\ s.sig \in 0 .. SigMax /\ s.siglen \in 0 .. SigMax
           /\ s.rc = 0 => IsSignature(s.sig, s.siglen)
<1> USE AdaptersKnown DEF Codes, IsSignature, Outcome, Signed, scheme_do_sign
<1>1. CASE a = "pqclean"
  BY <1>1 DEF SignPQClean, crypto_sign_signature
<1>2. CASE a = "mayo"
  BY <1>2 DEF SignMayo, crypto_sign_signature
<1>3. CASE a = "hawk"
  BY <1>3 DEF SignHawk, hawk_sign_finish
<1>4. CASE a = "snova"
  BY <1>4 DEF SignSnova, crypto_sign
<1>5. CASE a = "ecdsa"
  BY <1>5 DEF SignEcdsa, wc_SignatureGenerate_ex
<1>6. CASE a = "rsa"
  BY <1>6 DEF SignRsa, wc_SignatureGenerate_ex
<1>7. CASE a = "rsa_pss"
  BY <1>7 DEF SignRsaPss, wc_Hash, wc_RsaPSS_Sign
<1> QED
  BY <1>1, <1>2, <1>3, <1>4, <1>5, <1>6, <1>7 DEF AllAdapters

\* And for verifying: a code, which is 0 for nothing but a signature of the message.
\* (scheme_do_verify)
THEOREM VerifyContract ==
    ASSUME NEW a \in AllAdapters, NEW sig \in 0 .. SigMax, NEW len \in 0 .. SigMax
    PROVE  /\ scheme_do_verify(a, sig, len) \subseteq Codes
           /\ 0 \in scheme_do_verify(a, sig, len) => IsSignature(sig, len)
<1> USE AdaptersKnown DEF Codes, IsSignature, scheme_do_verify
<1>1. CASE a = "pqclean"
  BY <1>1 DEF VerifyPQClean, crypto_sign_verify
<1>2. CASE a = "mayo"
  BY <1>2 DEF VerifyMayo, crypto_sign_verify
<1>3. CASE a = "hawk"
  BY <1>3 DEF VerifyHawk, hawk_verify_finish
<1>4. CASE a = "snova"
  BY <1>4 DEF VerifySnova, crypto_sign_open
<1>5. CASE a = "ecdsa"
  BY <1>5 DEF VerifyEcdsa, wc_SignatureVerify
<1>6. CASE a = "rsa"
  BY <1>6 DEF VerifyRsa, wc_SignatureVerify
<1>7. CASE a = "rsa_pss"
  BY <1>7 DEF VerifyRsaPss, wc_Hash, wc_RsaPSS_VerifyInline, wc_RsaPSS_CheckPadding
<1> QED
  BY <1>1, <1>2, <1>3, <1>4, <1>5, <1>6, <1>7 DEF AllAdapters

LEMMA OpenedIsCode == \A sig : verify_once(sig) \in Codes
  BY DEF verify_once, crypto_sign_open, Codes

\* A call of the scheme keeps the types, and one that signs and returns 0 leaves a signature.
LEMMA CallStep ==
    ASSUME LoopTypes, CallScheme
    PROVE  /\ rc' \in Codes /\ {g_sig', g_siglen'} \subseteq 0 .. SigMax
           /\ op = "sign" /\ rc' = 0 => IsSignature(g_sig', g_siglen')
           /\ op # "sign" => UNCHANGED signature
<1>1. adapter \in AllAdapters /\ g_sig \in 0 .. SigMax /\ g_siglen \in 0 .. SigMax
  BY AdaptersKnown DEF LoopTypes
<1>2. CASE op = "sign"
  <2>1. PICK s \in scheme_do_sign(adapter, g_siglen) :
           rc' = s.rc /\ g_sig' = s.sig /\ g_siglen' = s.siglen
    BY <1>2 DEF CallScheme, sign_iter
  <2> QED
    BY <1>1, <1>2, <2>1, SignContract
<1>3. CASE op # "sign"
  <2>1. verify_iter
    BY <1>3 DEF CallScheme
  <2>2. rc' \in Codes
    BY <1>1, <2>1, VerifyContract, OpenedIsCode DEF verify_iter
  <2> QED
    BY <1>1, <1>3, <2>1, <2>2 DEF verify_iter, signature
<1> QED
  BY <1>2, <1>3

LEMMA LoopInit == Init => LoopInv
<1> SUFFICES ASSUME Init PROVE LoopInv
  OBVIOUS
<1>1. LoopTypes
  BY IterationsFit, AdaptersKnown DEF Init, LoopTypes, Sample, Codes
<1> QED
  BY <1>1 DEF Init, LoopInv

\* Steps that leave the loop where it is.
LEMMA LoopAside ==
    ASSUME LoopInv,
           ReadsOn \/ Setup \/ KatVerify \/ RunEnds \/ Reference \/ Sanity \/ TamperedKat
             \/ ClockTicks \/ WrapCounted \/ UNCHANGED vars
    PROVE  LoopInv'
<1>1. UNCHANGED <<i, c0, cyc, entered, calls, returned, program, adapter>>
  BY DEF ReadsOn, Setup, KatVerify, RunEnds, Reference, Sanity, TamperedKat, ClockTicks,
         WrapCounted, vars, bench, history, main
<1>2. /\ op' \in {"sign", "verify"}
      /\ \/ pc' = pc /\ rc' = rc
         \/ pc' \in {"begin", "halt"} /\ (rc' = rc \/ rc' \in Codes)
         \/ pc = "end" /\ rc = 0 /\ rc' = rc /\ pc' \in {"reference", "sanity"}
  BY OpenedIsCode DEF LoopInv, LoopTypes, ReadsOn, Setup, KatVerify, RunEnds, Reference, Sanity,
         TamperedKat, ClockTicks, WrapCounted, vars, bench, main
<1>3. {g_sig', g_siglen'} \subseteq 0 .. SigMax
  <2>1. CASE Reference
    <3>1. PICK s \in scheme_do_sign(adapter, g_siglen) : g_sig' = s.sig /\ g_siglen' = s.siglen
      BY <2>1 DEF Reference
    <3>2. adapter \in AllAdapters /\ g_siglen \in 0 .. SigMax
      BY AdaptersKnown DEF LoopInv, LoopTypes
    <3> QED
      BY <3>1, <3>2, SignContract
  <2>2. CASE ~Reference
    <3>1. UNCHANGED signature
      BY <2>2 DEF ReadsOn, Setup, KatVerify, RunEnds, Sanity, TamperedKat, ClockTicks,
             WrapCounted, vars
    <3> QED
      BY <3>1 DEF LoopInv, LoopTypes, signature
  <2> QED
    BY <2>1, <2>2
<1> QED
  BY <1>1, <1>2, <1>3 DEF LoopInv, LoopTypes, Filled, iters

LEMMA LoopStep ==
    ASSUME LoopInv, IInv, IInv', [Next]_vars
    PROVE  LoopInv'
<1> USE IterationsFit
<1>c. CyclesTypeOK /\ CyclesTypeOK' /\ ReadingIsExact'
  BY DEF IInv
<1>1. CASE Begin
  <2>1. calls' = <<>> /\ returned' = <<>> /\ i' = 0 /\ iters' = iters
        /\ UNCHANGED <<program, adapter, op, rc, c0, cyc, entered, g_sig, g_siglen>>
        /\ pc' \in {"warmup", "c0"} /\ (pc' = "warmup" => Warmup > 0)
    BY <1>1 DEF Begin, iters, signature
  <2> QED
    BY <2>1 DEF LoopInv, LoopTypes, Filled
<1>2. CASE WarmupCall
  <2>1. /\ CallScheme /\ returned' = Append(returned, rc') /\ iters' = iters
        /\ UNCHANGED <<program, adapter, op, c0, cyc, entered, calls>>
        /\ \/ pc' = "end" /\ rc' # 0 /\ i' = i
           \/ pc' = "warmup" /\ i + 1 < Warmup /\ i' = i + 1
           \/ pc' = "c0" /\ i' = 0
    BY <1>2 DEF WarmupCall, Aborts, main, iters
  <2>2. rc' \in Codes /\ {g_sig', g_siglen'} \subseteq 0 .. SigMax
    BY <2>1, CallStep DEF LoopInv
  <2>3. pc = "warmup" /\ i \in Nat /\ Len(calls) = 0 /\ returned' \in Seq(Codes)
    BY <1>2, <2>1, <2>2 DEF WarmupCall, LoopInv, LoopTypes
  <2> QED
    BY <2>1, <2>2, <2>3 DEF LoopInv, LoopTypes, Filled
<1>3. CASE FirstReading
  <2>1. /\ pc = "c0" /\ pc' = "call" /\ c0' = cycles'
        /\ entered' = [read |-> taken', call |-> now] /\ iters' = iters
        /\ UNCHANGED <<i, rc, cyc, calls, returned, program, adapter, op, g_sig, g_siglen>>
    BY <1>3 DEF FirstReading, main, signature, iters
  <2>2. cycles' \in Int /\ taken' \in Int /\ now \in Int /\ cycles' = taken'
    <3>1. {now, taken} \subseteq Nat /\ {now', taken'} \subseteq Nat /\ cycles' \in Int
      BY <1>c DEF CyclesTypeOK
    <3> QED
      BY <1>c, <3>1 DEF ReadingIsExact
  <2>3. entered' \in Sample /\ c0' = entered'.read
    BY <2>1, <2>2 DEF Sample
  <2> QED
    BY <2>1, <2>2, <2>3 DEF LoopInv, LoopTypes, Filled
<1>4. CASE CallReturns
  <2>1. /\ pc = "call" /\ pc' = "c1" /\ CallScheme /\ returned' = Append(returned, rc')
        /\ calls' = Append(calls, [call |-> now - entered.call, read |-> 0]) /\ iters' = iters
        /\ UNCHANGED <<i, c0, cyc, entered, program, adapter, op>>
    BY <1>4 DEF CallReturns, main, iters
  <2>c. rc' \in Codes /\ {g_sig', g_siglen'} \subseteq 0 .. SigMax
    BY <2>1, CallStep DEF LoopInv
  <2>2. calls \in Seq(Sample) /\ returned' \in Seq(Codes) /\ Len(calls) = i /\ i \in Nat
    BY <2>1, <2>c DEF LoopInv, LoopTypes
  <2>3. [call |-> now - entered.call, read |-> 0] \in Sample
    <3>1. now \in Int
      BY <1>c DEF CyclesTypeOK
    <3>2. entered.call \in Int
      BY DEF LoopInv, LoopTypes, Sample
    <3> QED
      BY <3>1, <3>2 DEF Sample
  <2>4. /\ calls' \in Seq(Sample) /\ Len(calls') = i + 1
        /\ \A k \in 1 .. i : calls'[k] = calls[k]
    BY <2>1, <2>2, <2>3
  <2>5. Filled'
    <3>1. Filled
      BY <2>1 DEF LoopInv
    <3> QED
      BY <2>1, <2>2, <2>4, <3>1 DEF Filled
  <2> QED
    BY <2>1, <2>c, <2>2, <2>4, <2>5 DEF LoopInv, LoopTypes
<1>5. CASE SecondReading
  <2>1. /\ pc = "c1" /\ Returns /\ rc' = rc /\ iters' = iters
        /\ calls' = [calls EXCEPT ![Len(calls)].read = taken' - entered.read]
        /\ UNCHANGED <<c0, entered, returned, program, adapter, op, g_sig, g_siglen>>
    BY <1>5 DEF SecondReading, main, signature, iters
  <2>2. /\ calls \in Seq(Sample) /\ Len(calls) = i + 1 /\ i \in Nat /\ i < iters /\ Filled
        /\ c0 = entered.read /\ entered.read \in Int
    BY <2>1 DEF LoopInv, LoopTypes, Sample
  <2>3. cycles' = taken' /\ taken' - entered.read \in Int
    <3>1. taken' \in Int
      BY <1>c DEF CyclesTypeOK
    <3> QED
      BY <1>c, <2>2, <3>1 DEF ReadingIsExact
  <2>4. /\ calls' \in Seq(Sample) /\ Len(calls') = i + 1
        /\ calls'[i + 1].read = taken' - entered.read
        /\ \A k \in 1 .. i : calls'[k] = calls[k]
    <3>1. calls' = [calls EXCEPT ![i + 1] = [calls[i + 1] EXCEPT !.read = taken' - entered.read]]
      BY <2>1, <2>2, Zenon
    <3>2. /\ calls[i + 1] \in Sample
          /\ [calls[i + 1] EXCEPT !.read = taken' - entered.read] \in Sample
          /\ [calls[i + 1] EXCEPT !.read = taken' - entered.read].read = taken' - entered.read
      <4>1. calls[i + 1] \in Sample
        BY <2>2, ElementOfSeq
      <4> QED
        BY <2>3, <4>1 DEF Sample
    <3> DEFINE new == [calls[i + 1] EXCEPT !.read = taken' - entered.read]
    <3> HIDE DEF new
    <3>3. calls' = [calls EXCEPT ![i + 1] = new] /\ new \in Sample /\ new.read = taken' - entered.read
      BY <3>1, <3>2 DEF new
    <3>4. calls' \in Seq(Sample) /\ Len(calls') = Len(calls)
      BY <2>2, <3>3, ExceptSeq
    <3> QED
      BY <2>2, <3>3, <3>4
  <2>5. CASE rc' # 0
    <3>1. pc' = "end" /\ i' = i /\ cyc' = cyc
      BY <1>5, <2>5 DEF SecondReading, Aborts
    <3> QED
      BY <2>1, <2>4, <2>5, <3>1 DEF LoopInv, LoopTypes
  <2>6. CASE rc' = 0
    <3>1. /\ cyc' = [cyc EXCEPT ![i] = cycles' - c0] /\ i' = i + 1
          /\ pc' = IF i' = iters THEN "end" ELSE "c0"
      BY <1>5, <2>6 DEF SecondReading, Aborts
    <3>2. /\ cyc' \in [0 .. MaxIters - 1 -> Int] /\ cyc'[i] = taken' - entered.read
          /\ \A k \in 0 .. i - 1 : cyc'[k] = cyc[k]
      BY <2>1, <2>2, <2>3, <3>1 DEF LoopInv, LoopTypes
    <3>3. Filled'
      <4> SUFFICES ASSUME NEW k \in 0 .. i
                   PROVE  k < Len(calls') /\ cyc'[k] = calls'[k + 1].read
        BY <2>2, <3>1 DEF Filled
      <4>1. CASE k = i
        BY <2>2, <2>4, <3>2, <4>1
      <4>2. CASE k # i
        <5>1. k \in 0 .. i - 1 /\ k + 1 \in 1 .. i
          BY <2>2, <4>2
        <5> QED
          BY <2>2, <2>4, <3>2, <5>1 DEF Filled
      <4> QED
        BY <4>1, <4>2
    <3> QED
      BY <2>1, <2>2, <2>4, <3>1, <3>2, <3>3 DEF LoopInv, LoopTypes
  <2> QED
    BY <2>5, <2>6
<1> QED
  BY <1>1, <1>2, <1>3, <1>4, <1>5, LoopAside DEF Next

LEMMA LoopImplies == LoopInv /\ IInv => TypeOK /\ SamplesAreTimes
  BY IterationsFit DEF LoopInv, LoopTypes, IInv, TypeOK, SamplesAreTimes, Filled, Sample

\* Every variable has its type and the loop stays within the arrays, however many iterations
\* are asked for. (bench_run)
THEOREM TypeCorrect == Spec => []TypeOK
<1>1. Spec => [](IInv /\ LoopInv)
  BY InitHolds, StepHolds, LoopInit, LoopStep, PTL DEF Spec
<1> QED
  BY <1>1, LoopImplies, PTL

\* Each sample is the time that passed around its own call. (bench_run, bench_cycles)
THEOREM SamplesExact == Spec => []SamplesAreTimes
<1>1. Spec => [](IInv /\ LoopInv)
  BY InitHolds, StepHolds, LoopInit, LoopStep, PTL DEF Spec
<1> QED
  BY <1>1, LoopImplies, PTL
-----------------------------------------------------------------------------
(* The signature the results are about. *)
SigInv == SignatureIsValid /\ (pc = "reference" => op = "sign")

LEMMA SigStep ==
    ASSUME LoopInv, SigInv, [Next]_vars
    PROVE  SigInv'
<1> USE DEF SigInv, SignatureIsValid, IsSignature
<1>1. CASE WarmupCall \/ CallReturns
  <2>1. CallScheme /\ UNCHANGED <<program, op>> /\ pc' \in {"warmup", "c0", "c1", "end"}
        /\ (pc' = "end" => rc' # 0)
    BY <1>1 DEF WarmupCall, CallReturns, Aborts, main, LoopInv, LoopTypes
  <2>2. /\ op = "sign" /\ rc' = 0 => IsSignature(g_sig', g_siglen')
        /\ op # "sign" => UNCHANGED <<g_sig, g_siglen>>
    BY <2>1, CallStep DEF LoopInv, signature
  <2> QED
    BY <2>1, <2>2 DEF LoopInv, LoopTypes
<1>2. CASE Reference
  <2>1. PICK s \in scheme_do_sign(adapter, g_siglen) :
           /\ g_sig' = s.sig /\ g_siglen' = s.siglen
           /\ IF s.rc = 0 THEN op' = "verify" /\ pc' = "begin" ELSE pc' = "halt" /\ op' = op
    BY <1>2 DEF Reference
  <2>2. adapter \in AllAdapters /\ g_siglen \in 0 .. SigMax
    BY AdaptersKnown DEF LoopInv, LoopTypes
  <2>3. s.rc = 0 => IsSignature(g_sig', g_siglen')
    BY <2>1, <2>2, SignContract
  <2>4. op = "sign"
    BY <1>2 DEF Reference
  <2> QED
    BY <2>1, <2>3, <2>4
<1>3. CASE ~(WarmupCall \/ CallReturns \/ Reference)
  <2>1. UNCHANGED <<program, op, g_sig, g_siglen>>
    BY <1>3 DEF Next, Begin, ReadsOn, FirstReading, SecondReading, Setup, KatVerify, RunEnds,
           Sanity, TamperedKat, ClockTicks, WrapCounted, vars, main, signature
  <2>2. \/ pc' = pc /\ rc' = rc
        \/ pc' \in {"warmup", "c0", "call", "begin", "halt", "sanity"}
        \/ pc = "c1" /\ pc' = "end" /\ rc' = rc
        \/ pc = "end" /\ rc = 0 /\ rc' = rc /\ pc' = "reference" /\ op = "sign"
    BY <1>3 DEF Next, Begin, ReadsOn, FirstReading, SecondReading, Setup, KatVerify, RunEnds,
           Sanity, TamperedKat, ClockTicks, WrapCounted, vars, main, bench
  <2> QED
    BY <2>1, <2>2
<1> QED
  BY <1>1, <1>2, <1>3

\* What is measured and printed is a signature of the message with its own length, for every
\* adapter and every length of signatures. (sign_iter, scheme_do_sign)
THEOREM SignatureValid == Spec => []SignatureIsValid
<1>1. Init => SigInv
  BY DEF Init, SigInv, SignatureIsValid
<1>2. Spec => [](IInv /\ LoopInv)
  BY InitHolds, StepHolds, LoopInit, LoopStep, PTL DEF Spec
<1>3. Spec => []SigInv
  BY <1>1, <1>2, SigStep, PTL DEF Spec
<1>4. SigInv => SignatureIsValid
  BY DEF SigInv
<1> QED
  BY <1>3, <1>4, PTL

-----------------------------------------------------------------------------
(* The figures of a result.  What is read before and after a call is read
   outside of it; every call returned 0; and the line that was printed last is
   of the operation that was measured last. *)
AllZero == \A k \in 1 .. Len(returned) : returned[k] = 0

Succeeded == pc \in {"reference", "sanity"} \/ (pc = "end" /\ rc = 0)

Measured == IF pc = "c1" THEN Len(calls) - 1 ELSE Len(calls)

Back == entered.call + calls[Len(calls)].call

AroundInv ==
    /\ loaded <= now
    /\ pc = "call" => at = "w1"
    /\ pc \in {"call", "c1"} => entered.read <= entered.call /\ entered.call <= now
    /\ pc = "c1" => Back <= now /\ (at = "w2" => Back <= loaded)
    /\ \A k \in 1 .. Measured : calls[k].call <= calls[k].read

ReturnedInv ==
    /\ pc = "warmup" => Len(returned) = i /\ AllZero
    /\ pc \in {"c0", "call"} => Len(returned) = Warmup + i /\ AllZero
    /\ pc = "c1" => /\ Len(returned) = Warmup + i + 1 /\ returned[Warmup + i + 1] = rc
                    /\ \A k \in 1 .. Warmup + i : returned[k] = 0
    /\ Succeeded => /\ Len(returned) = Warmup + iters /\ AllZero
                    /\ i = iters /\ Len(calls) = iters

PrintedInv ==
    /\ \E S : log \in Seq(S)
    /\ pc \in {"reference", "sanity"} => Len(log) > 0 /\ log[Len(log)] = Result

LEMMA AroundAside ==
    ASSUME AroundInv, LoopInv, IInv, UNCHANGED <<loaded, entered, calls, at>>,
           now' \in Nat, now' >= now,
           pc' = pc \/ (pc # "c1" /\ pc' \notin {"call", "c1"})
    PROVE  AroundInv'
<1>1. now \in Nat /\ loaded \in Nat
  BY DEF IInv, CyclesTypeOK
<1>2. pc = "c1" => Back \in Int
  <2> SUFFICES ASSUME pc = "c1" PROVE Back \in Int
    OBVIOUS
  <2>1. calls[Len(calls)] \in Sample /\ entered \in Sample
    <3>1. calls \in Seq(Sample) /\ Len(calls) \in 1 .. Len(calls) /\ entered \in Sample
      BY DEF LoopInv, LoopTypes
    <3> QED
      BY <3>1, ElementOfSeq
  <2> QED
    BY <2>1 DEF Sample, Back
<1>3. entered.call \in Int
  BY DEF LoopInv, LoopTypes, Sample
<1>4. Measured' = Measured /\ Back' = Back
  BY DEF Measured, Back
<1> QED
  BY <1>1, <1>2, <1>3, <1>4 DEF AroundInv

LEMMA AroundStep ==
    ASSUME AroundInv, LoopInv, IInv, IInv', [Next]_vars
    PROVE  AroundInv'
<1>0. /\ {now, loaded, taken} \subseteq Nat /\ {now', loaded', taken'} \subseteq Nat
      /\ entered \in Sample /\ calls \in Seq(Sample) /\ i \in Nat
  BY DEF IInv, CyclesTypeOK, LoopInv, LoopTypes
<1>s. \A k \in 1 .. Len(calls) : calls[k].call \in Int /\ calls[k].read \in Int
  <2>1. \A k \in 1 .. Len(calls) : calls[k] \in Sample
    BY <1>0, ElementOfSeq
  <2> QED
    BY <2>1 DEF Sample
<1>e. entered.call \in Int /\ entered.read \in Int
  BY <1>0 DEF Sample
<1>1. CASE Begin
  <2>1. calls' = <<>> /\ pc' \in {"warmup", "c0"} /\ UNCHANGED <<loaded, now>>
    BY <1>1 DEF Begin, counter, reader
  <2>2. Measured' = 0
    BY <2>1 DEF Measured
  <2> QED
    BY <2>1, <2>2 DEF AroundInv
<1>2. CASE FirstReading
  <2>1. /\ pc = "c0" /\ pc' = "call" /\ at' = "w1" /\ taken' = loaded /\ loaded' = loaded
        /\ now' = now /\ entered' = [read |-> loaded, call |-> now] /\ calls' = calls
    BY <1>2 DEF FirstReading, Returns, Instruction
  <2>2. entered'.read = loaded /\ entered'.call = now /\ Measured' = Measured
    BY <2>1 DEF Measured
  <2> QED
    BY <1>0, <2>1, <2>2 DEF AroundInv
<1>3. CASE CallReturns
  <2>1. /\ pc = "call" /\ pc' = "c1" /\ UNCHANGED <<loaded, now, entered, at>>
        /\ calls' = Append(calls, [call |-> now - entered.call, read |-> 0])
    BY <1>3 DEF CallReturns, counter, reader
  <2>2. at' = "w1"
    BY <2>1 DEF AroundInv
  <2>3. [call |-> now - entered.call, read |-> 0] \in Sample
    BY <1>0, <1>e DEF Sample
  <2>4. /\ Len(calls') = Len(calls) + 1 /\ calls'[Len(calls) + 1].call = now - entered.call
        /\ \A k \in 1 .. Len(calls) : calls'[k] = calls[k]
    BY <1>0, <2>1, <2>3
  <2>5. Measured' = Len(calls) /\ Measured = Len(calls)
    BY <1>0, <2>1, <2>4 DEF Measured
  <2>6. entered.call + (now - entered.call) = now
    BY <1>0, <1>e
  <2>7. \A k \in 1 .. Measured' : calls'[k].call <= calls'[k].read
    BY <2>4, <2>5 DEF AroundInv
  <2>8. Back' = now'
    BY <2>1, <2>4, <2>6 DEF Back
  <2>9. entered.read <= entered.call /\ entered.call <= now /\ loaded <= now
    BY <2>1 DEF AroundInv
  <2>10. /\ loaded' <= now' /\ entered'.read <= entered'.call /\ entered'.call <= now'
         /\ Back' <= now' /\ at' # "w2" /\ pc' = "c1"
    BY <1>0, <2>1, <2>2, <2>8, <2>9
  <2> QED
    BY <2>2, <2>7, <2>10 DEF AroundInv
<1>4. CASE SecondReading
  <2>1. /\ pc = "c1" /\ pc' \in {"end", "c0"} /\ taken' = loaded /\ UNCHANGED <<loaded, now>>
        /\ calls' = [calls EXCEPT ![Len(calls)].read = loaded - entered.read] /\ at = "w2"
    BY <1>4 DEF SecondReading, Returns, Instruction
  <2> DEFINE n == Len(calls)
             last == [calls[n] EXCEPT !.read = loaded - entered.read]
  <2>2. n \in 1 .. n /\ n \in Nat
    BY <1>0, <2>1 DEF LoopInv
  <2>3. calls[n] \in Sample
    BY <1>0, <2>2, ElementOfSeq
  <2>4. last \in Sample /\ last.read = loaded - entered.read /\ last.call = calls[n].call
    BY <1>0, <1>e, <2>3 DEF Sample
  <2>5. calls' = [calls EXCEPT ![n] = last]
    BY <2>1, Zenon
  <2> HIDE DEF last
  <2>6. Len(calls') = n /\ calls'[n] = last /\ \A k \in 1 .. n - 1 : calls'[k] = calls[k]
    BY <1>0, <2>2, <2>4, <2>5, ExceptSeq
  <2>7. last.call <= last.read
    <3>1. /\ entered.read <= entered.call /\ entered.call + calls[n].call <= loaded
      BY <2>1 DEF AroundInv, Back
    <3>2. calls[n].call \in Int
      BY <1>s, <2>2
    <3> QED
      BY <1>0, <1>e, <2>4, <3>1, <3>2
  <2>8. Measured = n - 1 /\ Measured' = n
    BY <2>1, <2>6 DEF Measured
  <2>9. ASSUME NEW k \in 1 .. n PROVE calls'[k].call <= calls'[k].read
    <3>1. CASE k = n
      BY <2>6, <2>7, <3>1
    <3>2. CASE k # n
      <4>1. k \in 1 .. n - 1
        BY <2>2, <3>2
      <4> QED
        BY <2>6, <2>8, <4>1 DEF AroundInv
    <3> QED
      BY <3>1, <3>2
  <2> QED
    BY <2>1, <2>8, <2>9 DEF AroundInv
<1>5. CASE ReadsOn
  <2>1. /\ pc' = pc /\ pc # "call" /\ UNCHANGED <<now, entered, calls>>
        /\ \/ loaded' = loaded /\ at' # "w2"
           \/ loaded' = now
    BY <1>5 DEF ReadsOn, LoadWraps, LoadCounter, Retries, Instruction, history
  <2>2. Measured' = Measured /\ Back' = Back
    BY <2>1 DEF Measured, Back
  <2> QED
    BY <1>0, <2>1, <2>2 DEF AroundInv
<1>6. CASE ClockTicks \/ WrapCounted
  <2>1. UNCHANGED <<pc, loaded, entered, calls, at>> /\ now' >= now
    BY <1>0, <1>6 DEF ClockTicks, WrapCounted, Tick, isr_systick, reader, history
  <2> QED
    BY <1>0, <2>1, AroundAside
<1>7. CASE WarmupCall \/ Setup \/ KatVerify \/ RunEnds \/ Reference \/ Sanity \/ TamperedKat
           \/ UNCHANGED vars
  <2>1. /\ UNCHANGED <<loaded, entered, calls, at, now>>
        /\ pc' = pc \/ (pc # "c1" /\ pc' \notin {"call", "c1"})
    BY <1>7 DEF WarmupCall, Setup, KatVerify, RunEnds, Reference, Sanity, TamperedKat, vars,
           counter, reader, history
  <2> QED
    BY <1>0, <2>1, AroundAside
<1> QED
  BY <1>1, <1>2, <1>3, <1>4, <1>5, <1>6, <1>7 DEF Next

\* Steps that leave the loop of bench_run, or are none of its own.
LEMMA ReturnedAside ==
    ASSUME ReturnedInv, UNCHANGED <<i, calls, returned>>,
           (pc' = pc /\ rc' = rc) \/ pc' \in {"begin", "halt"}
             \/ (pc = "end" /\ rc = 0 /\ pc' \in {"reference", "sanity"})
    PROVE  ReturnedInv'
  BY DEF ReturnedInv, Succeeded, AllZero, iters

LEMMA ReturnedStep ==
    ASSUME ReturnedInv, LoopInv, IInv, [Next]_vars
    PROVE  ReturnedInv'
<1>0. i \in Nat /\ returned \in Seq(Codes) /\ rc \in Codes /\ calls \in Seq(Sample)
      /\ Warmup \in Nat /\ iters \in Nat \ {0}
  BY IterationsFit DEF LoopInv, LoopTypes
<1>1. CASE Begin
  <2>1. /\ returned' = <<>> /\ i' = 0
        /\ pc' = "warmup" \/ (pc' = "c0" /\ Warmup = 0)
    BY <1>0, <1>1 DEF Begin
  <2> QED
    BY <1>0, <2>1 DEF ReturnedInv, Succeeded, AllZero
<1>2. CASE WarmupCall
  <2>1. /\ CallScheme /\ pc = "warmup" /\ returned' = Append(returned, rc')
        /\ \/ pc' = "end" /\ rc' # 0 /\ i' = i
           \/ pc' = "warmup" /\ i' = i + 1 /\ rc' = 0
           \/ pc' = "c0" /\ i' = 0 /\ rc' = 0 /\ ~(i + 1 < Warmup)
    BY <1>2 DEF WarmupCall, Aborts
  <2>2. rc' \in Codes
    BY <2>1, CallStep DEF LoopInv
  <2>3. /\ Len(returned') = Len(returned) + 1 /\ returned'[Len(returned) + 1] = rc'
        /\ \A k \in 1 .. Len(returned) : returned'[k] = returned[k]
    BY <1>0, <2>1, <2>2
  <2>4. Len(returned) = i /\ (\A k \in 1 .. i : returned[k] = 0) /\ i < Warmup
    BY <2>1 DEF ReturnedInv, AllZero, LoopInv
  <2>5. rc' = 0 => \A k \in 1 .. i + 1 : returned'[k] = 0
    <3> SUFFICES ASSUME rc' = 0, NEW k \in 1 .. i + 1 PROVE returned'[k] = 0
      OBVIOUS
    <3>1. CASE k = i + 1
      BY <2>3, <2>4, <3>1
    <3>2. CASE k # i + 1
      <4>1. k \in 1 .. i
        BY <1>0, <3>2
      <4> QED
        BY <2>3, <2>4, <4>1
    <3> QED
      BY <3>1, <3>2
  <2> QED
    BY <1>0, <2>1, <2>3, <2>4, <2>5 DEF ReturnedInv, Succeeded, AllZero
<1>3. CASE FirstReading
  <2>1. pc = "c0" /\ pc' = "call" /\ UNCHANGED <<i, returned>>
    BY <1>3 DEF FirstReading
  <2> QED
    BY <2>1 DEF ReturnedInv, Succeeded, AllZero
<1>4. CASE CallReturns
  <2>1. CallScheme /\ pc = "call" /\ pc' = "c1" /\ returned' = Append(returned, rc') /\ i' = i
    BY <1>4 DEF CallReturns
  <2>2. rc' \in Codes
    BY <2>1, CallStep DEF LoopInv
  <2>3. Len(returned) = Warmup + i /\ \A k \in 1 .. Warmup + i : returned[k] = 0
    BY <2>1 DEF ReturnedInv, AllZero
  <2>4. /\ Len(returned') = Warmup + i + 1 /\ returned'[Warmup + i + 1] = rc'
        /\ \A k \in 1 .. Warmup + i : returned'[k] = returned[k]
    BY <1>0, <2>1, <2>2, <2>3
  <2> QED
    BY <2>1, <2>3, <2>4 DEF ReturnedInv, Succeeded
<1>5. CASE SecondReading
  <2>1. /\ pc = "c1" /\ rc' = rc /\ returned' = returned
        /\ \/ pc' = "end" /\ rc # 0
           \/ rc = 0 /\ i' = i + 1 /\ pc' = IF i' = iters THEN "end" ELSE "c0"
    BY <1>5 DEF SecondReading, Aborts
  <2>2. /\ Len(returned) = Warmup + i + 1 /\ returned[Warmup + i + 1] = rc
        /\ \A k \in 1 .. Warmup + i : returned[k] = 0
    BY <2>1 DEF ReturnedInv
  <2>3. rc = 0 => \A k \in 1 .. Warmup + i + 1 : returned[k] = 0
    <3> SUFFICES ASSUME rc = 0, NEW k \in 1 .. Warmup + i + 1 PROVE returned[k] = 0
      OBVIOUS
    <3>1. CASE k = Warmup + i + 1
      BY <2>2, <3>1
    <3>2. CASE k # Warmup + i + 1
      <4>1. k \in 1 .. Warmup + i
        BY <1>0, <3>2
      <4> QED
        BY <2>2, <4>1
    <3> QED
      BY <3>1, <3>2
  <2>4. Len(calls') = i + 1
    <3>1. calls' = [calls EXCEPT ![Len(calls)].read = taken' - entered.read]
      BY <1>5 DEF SecondReading
    <3>2. Len(calls) = i + 1
      BY <2>1 DEF LoopInv
    <3>3. DOMAIN calls' = DOMAIN calls /\ DOMAIN calls = 1 .. i + 1
      BY <1>0, <3>1, <3>2
    <3> QED
      BY <1>0, <3>1, <3>2, <3>3, LenProperties
  <2>5. Warmup + i + 1 = Warmup + (i + 1) /\ iters' = iters
    BY <1>0 DEF iters
  <2> QED
    BY <2>1, <2>2, <2>3, <2>4, <2>5 DEF ReturnedInv, Succeeded, AllZero
<1>6. CASE ReadsOn \/ Setup \/ KatVerify \/ RunEnds \/ Reference \/ Sanity \/ TamperedKat
           \/ ClockTicks \/ WrapCounted \/ UNCHANGED vars
  <2>1. /\ UNCHANGED <<i, calls, returned>>
        /\ \/ pc' = pc /\ rc' = rc
           \/ pc' \in {"begin", "halt"}
           \/ pc = "end" /\ rc = 0 /\ pc' \in {"reference", "sanity"}
    BY <1>6 DEF ReadsOn, Setup, KatVerify, RunEnds, Reference, Sanity, TamperedKat, ClockTicks,
           WrapCounted, vars, bench, history
  <2> QED
    BY <2>1, ReturnedAside
<1> QED
  BY <1>1, <1>2, <1>3, <1>4, <1>5, <1>6 DEF Next

\* The figures of n samples, as a function of the array.
StatsOf(c, n) ==
    LET s == [k \in 1 .. n |-> c[k - 1]]
    IN  [n |-> n, min |-> Min(Range(s)), max |-> Max(Range(s)), median |-> Median(s),
         sum |-> Total(s)]

LEMMA StatsAre == Stats = StatsOf(cyc, iters) /\ Stats' = StatsOf(cyc', iters)
<1>1. Stats = StatsOf(cyc, iters)
  BY DEF Stats, StatsOf
<1>2. iters' = iters
  BY DEF iters
<1>3. Stats' = StatsOf(cyc', iters')
  BY DEF Stats, StatsOf
<1> QED
  BY <1>1, <1>2, <1>3

LEMMA ResultKept == ASSUME UNCHANGED <<op, g_siglen, cyc>> PROVE Result' = Result
<1>1. Stats' = Stats
  BY StatsAre
<1> HIDE DEF Stats
<1> QED
  BY <1>1 DEF Result

LEMMA PrintedStep ==
    ASSUME PrintedInv, LoopInv, [Next]_vars
    PROVE  PrintedInv'
<1> DEFINE Grows(l) == \E S : l \in Seq(S)
<1>1. ASSUME NEW l, Grows(l), NEW x
      PROVE  Grows(Append(l, x))
  <2>1. PICK S : l \in Seq(S)
    BY <1>1
  <2>2. l \in Seq(S \cup {x})
    <3>1. l \in [1 .. Len(l) -> S] /\ Len(l) \in Nat
      BY <2>1, LenProperties
    <3>2. l \in [1 .. Len(l) -> S \cup {x}]
      BY <3>1
    <3> QED
      BY <3>1, <3>2, SeqDef
  <2>3. Append(l, x) \in Seq(S \cup {x})
    BY <2>2, AppendProperties
  <2> QED
    BY <2>3
<1>2. ASSUME NEW l, Grows(l), NEW x, NEW y
      PROVE  /\ Grows(l \o <<x, y>>) /\ Len(l \o <<x, y>>) > 0
             /\ (l \o <<x, y>>)[Len(l \o <<x, y>>)] = y
  <2>1. PICK S : l \in Seq(S)
    BY <1>2
  <2>2. l \in Seq(S \cup {x, y}) /\ <<x, y>> \in Seq(S \cup {x, y})
    <3>1. l \in [1 .. Len(l) -> S] /\ Len(l) \in Nat
      BY <2>1, LenProperties
    <3>2. l \in [1 .. Len(l) -> S \cup {x, y}]
      BY <3>1
    <3> QED
      BY <3>1, <3>2, SeqDef
  <2> DEFINE tail == <<x, y>>
  <2>3. Len(tail) = 2 /\ tail[2] = y /\ Len(l) \in Nat
    BY <2>1
  <2> HIDE DEF tail
  <2>4. /\ l \o tail \in Seq(S \cup {x, y}) /\ Len(l \o tail) = Len(l) + 2
        /\ \A k \in 1 .. Len(l) + 2 :
              (l \o tail)[k] = IF k <= Len(l) THEN l[k] ELSE tail[k - Len(l)]
    BY <2>2, <2>3, ConcatProperties DEF tail
  <2>5. Len(l) + 2 \in 1 .. Len(l) + 2 /\ ~(Len(l) + 2 <= Len(l)) /\ (Len(l) + 2) - Len(l) = 2
    BY <2>3
  <2>6. (l \o tail)[Len(l) + 2] = tail[2]
    BY <2>4, <2>5
  <2> QED
    BY <2>3, <2>4, <2>6 DEF tail
<1> HIDE DEF Grows
<1>3. Grows(log)
  BY DEF PrintedInv, Grows
<1>4. SUFFICES Grows(log') /\ (pc' \in {"reference", "sanity"} => Len(log') > 0 /\ log'[Len(log')] = Result')
  BY DEF PrintedInv, Grows
<1>5. CASE RunEnds
  <2>1. CASE rc # 0
    <3>1. log' = log \o <<Memory, [type |-> "ERROR"]>> /\ pc' = "halt"
      BY <1>5, <2>1 DEF RunEnds
    <3> QED
      BY <1>2, <1>3, <3>1
  <2>2. CASE rc = 0
    <3>1. log' = log \o <<Memory, Result>>
      BY <1>5, <2>2 DEF RunEnds
    <3>2. Result' = Result
      BY <1>5, ResultKept DEF RunEnds, bench, signature
    <3> HIDE DEF Result
    <3> QED
      BY <1>2, <1>3, <3>1, <3>2
  <2> QED
    BY <2>1, <2>2
<1>6. CASE Begin \/ Setup \/ KatVerify \/ Reference \/ Sanity \/ TamperedKat
  <2>1. pc' \in {"warmup", "c0", "begin", "halt"}
    BY <1>6 DEF Begin, Setup, KatVerify, Reference, Sanity, TamperedKat
  <2>2. \/ log' = log
        \/ \E x : log' = Append(log, x)
        \/ \E x, y : log' = log \o <<x, y>>
    BY <1>6 DEF Begin, Setup, KatVerify, Reference, Sanity, TamperedKat, Printed
  <2>3. (\E x : log' = Append(log, x)) => Grows(log')
    BY <1>1, <1>3
  <2>4. (\E x, y : log' = log \o <<x, y>>) => Grows(log')
    BY <1>2, <1>3
  <2> QED
    BY <1>3, <2>1, <2>2, <2>3, <2>4
<1>7. CASE WarmupCall \/ ReadsOn \/ FirstReading \/ CallReturns \/ SecondReading \/ ClockTicks
           \/ WrapCounted \/ UNCHANGED vars
  <2>1. log' = log
    BY <1>7 DEF WarmupCall, ReadsOn, FirstReading, CallReturns, SecondReading, ClockTicks,
           WrapCounted, vars, main
  <2>2. \/ pc' \notin {"reference", "sanity"}
        \/ UNCHANGED <<pc, op, g_siglen, cyc>>
    BY <1>7 DEF WarmupCall, ReadsOn, FirstReading, CallReturns, SecondReading, ClockTicks,
           WrapCounted, vars, main, bench, signature
  <2>3. UNCHANGED <<op, g_siglen, cyc>> => Result' = Result
    BY ResultKept
  <2> HIDE DEF Result
  <2> QED
    BY <1>3, <2>1, <2>2, <2>3 DEF PrintedInv
<1> QED
  BY <1>5, <1>6, <1>7 DEF Next

(* Half of the values are on each side of the median. *)
LEMMA MedianIs ==
    ASSUME NEW s \in Seq(Int), Len(s) > 0
    PROVE  \E a, b \in {s[k] : k \in 1 .. Len(s)} :
              LET Under(x) == Cardinality({k \in 1 .. Len(s) : s[k] < x})
                  Over(x) == Cardinality({k \in 1 .. Len(s) : s[k] > x})
              IN  /\ a <= b /\ Median(s) = a + b
                  /\ 2 * Under(a) < Len(s) /\ 2 * Over(a) <= Len(s)
                  /\ 2 * Under(b) <= Len(s) /\ 2 * Over(b) < Len(s)
<1> DEFINE n == Len(s)
           t == Sorted(s)
           Under(x) == Cardinality({k \in 1 .. n : s[k] < x})
           Over(x) == Cardinality({k \in 1 .. n : s[k] > x})
           values == {s[k] : k \in 1 .. n}
           h == n \div 2
<1>0. n \in Nat /\ n > 0 /\ h \in Nat /\ (n = 2 * h \/ n = 2 * h + 1)
      /\ (n % 2 = 1 <=> n = 2 * h + 1)
  OBVIOUS
<1>1. ASSUME NEW m \in 1 .. n
      PROVE  /\ t[m] \in Int /\ t[m] \in values
             /\ Under(t[m]) \in Nat /\ Under(t[m]) <= m - 1
             /\ Over(t[m]) \in Nat /\ Over(t[m]) <= n - m
  BY Ranks
<1>2. \A j, k \in 1 .. n : j <= k => t[j] <= t[k]
  BY SortedIs
<1>3. Median(s) = IF n % 2 = 1 THEN 2 * t[h + 1] ELSE t[h] + t[h + 1]
  BY DEF Median
<1> HIDE DEF t, h, n, values, Under, Over
<1>4. SUFFICES \E a, b \in values :
              /\ a <= b /\ Median(s) = a + b
              /\ 2 * Under(a) < n /\ 2 * Over(a) <= n
              /\ 2 * Under(b) <= n /\ 2 * Over(b) < n
  BY DEF n, values, Under, Over
<1>5. CASE n = 2 * h + 1
  <2>1. h + 1 \in 1 .. n
    BY <1>0, <1>5
  <2>2. /\ t[h + 1] \in Int /\ t[h + 1] \in values
        /\ Under(t[h + 1]) \in Nat /\ Under(t[h + 1]) <= (h + 1) - 1
        /\ Over(t[h + 1]) \in Nat /\ Over(t[h + 1]) <= n - (h + 1)
    BY <1>1, <2>1
  <2>3. Median(s) = t[h + 1] + t[h + 1]
    BY <1>0, <1>3, <1>5, <2>2
  <2>4. /\ 2 * Under(t[h + 1]) < n /\ 2 * Over(t[h + 1]) <= n
        /\ 2 * Under(t[h + 1]) <= n /\ 2 * Over(t[h + 1]) < n /\ t[h + 1] <= t[h + 1]
    BY <1>0, <1>5, <2>2
  <2> QED
    BY <2>2, <2>3, <2>4
<1>6. CASE n = 2 * h
  <2>1. h \in 1 .. n /\ h + 1 \in 1 .. n /\ h <= h + 1
    BY <1>0, <1>6
  <2>2. /\ t[h + 1] \in Int /\ t[h + 1] \in values
        /\ Under(t[h + 1]) \in Nat /\ Under(t[h + 1]) <= (h + 1) - 1
        /\ Over(t[h + 1]) \in Nat /\ Over(t[h + 1]) <= n - (h + 1)
    BY <1>1, <2>1
  <2>3. /\ t[h] \in Int /\ t[h] \in values
        /\ Under(t[h]) \in Nat /\ Under(t[h]) <= h - 1
        /\ Over(t[h]) \in Nat /\ Over(t[h]) <= n - h
    BY <1>1, <2>1
  <2>4. Median(s) = t[h] + t[h + 1] /\ t[h] <= t[h + 1]
    <3>1. n % 2 # 1
      BY <1>0, <1>6
    <3> QED
      BY <1>2, <1>3, <2>1, <3>1
  <2>5. /\ 2 * Under(t[h]) < n /\ 2 * Over(t[h]) <= n
        /\ 2 * Under(t[h + 1]) <= n /\ 2 * Over(t[h + 1]) < n
    BY <1>0, <1>6, <2>2, <2>3
  <2> QED
    BY <2>2, <2>3, <2>4, <2>5
<1> QED
  BY <1>0, <1>5, <1>6

(* The least and the greatest of the values. *)
LEMMA ExtremesAre ==
    ASSUME NEW s \in Seq(Int), Len(s) > 0
    PROVE  LET values == {s[k] : k \in 1 .. Len(s)}
           IN  /\ Min(Range(s)) \in values /\ Max(Range(s)) \in values
               /\ \A k \in 1 .. Len(s) : Min(Range(s)) <= s[k] /\ s[k] <= Max(Range(s))
<1> DEFINE n == Len(s)
           t == Sorted(s)
           values == {s[k] : k \in 1 .. n}
<1>1. Range(s) = values
  BY DEF Range
<1>0. n \in Nat /\ 1 \in 1 .. n /\ n \in 1 .. n
  OBVIOUS
<1>2. /\ \A j, k \in 1 .. n : j <= k => t[j] <= t[k]
      /\ \E p \in [1 .. n -> 1 .. n] : /\ \A k \in 1 .. n : \E j \in 1 .. n : p[j] = k
                                       /\ \A k \in 1 .. n : t[k] = s[p[k]]
  BY SortedIs
<1> HIDE DEF t, n
<1>3. PICK p \in [1 .. n -> 1 .. n] : /\ \A k \in 1 .. n : \E j \in 1 .. n : p[j] = k
                                      /\ \A k \in 1 .. n : t[k] = s[p[k]]
  BY <1>2
<1>4. ASSUME NEW k \in 1 .. n PROVE t[1] <= s[k] /\ s[k] <= t[n]
  <2>1. PICK j \in 1 .. n : p[j] = k
    BY <1>3
  <2>2. t[j] = s[k]
    BY <1>3, <2>1
  <2>4. 1 <= j /\ j <= n
    BY <1>0
  <2>3. t[1] <= t[j] /\ t[j] <= t[n]
    BY <1>0, <1>2, <2>4
  <2> QED
    BY <2>2, <2>3
<1>5. t[1] \in values /\ t[n] \in values
  <2>1. t[1] = s[p[1]] /\ p[1] \in 1 .. n /\ t[n] = s[p[n]] /\ p[n] \in 1 .. n
    BY <1>0, <1>3
  <2> QED
    BY <2>1
<1>6. \A x \in values : t[1] <= x /\ x <= t[n]
  BY <1>4
<1>7. values \subseteq Int
  <2>1. \A k \in 1 .. n : s[k] \in Int
    BY ElementOfSeq DEF n
  <2> QED
    BY <2>1
<1> HIDE DEF values
<1>8. Min(values) \in values /\ \A x \in values : Min(values) <= x
  BY <1>5, <1>6 DEF Min
<1>9. Max(values) \in values /\ \A x \in values : Max(values) >= x
  <2>1. \A x \in values : t[n] >= x
    BY <1>5, <1>6, <1>7
  <2> QED
    BY <1>5, <2>1 DEF Max
<1>10. \A k \in 1 .. n : s[k] \in values
  BY DEF values
<1>11. \A k \in 1 .. n : Min(values) <= s[k] /\ s[k] <= Max(values)
  BY <1>7, <1>8, <1>9, <1>10
<1> QED
  BY <1>1, <1>8, <1>9, <1>11 DEF n, values

LEMMA FiguresAreOwn ==
    ASSUME AroundInv, ReturnedInv, PrintedInv, LoopInv, pc \in {"reference", "sanity"}
    PROVE  ResultsAreOwn
<1> DEFINE n == iters
           s == [k \in 1 .. n |-> cyc[k - 1]]
           row == log[Len(log)].stats
           Below(x) == Cardinality({k \in DOMAIN calls : calls[k].read < x})
           Above(x) == Cardinality({k \in DOMAIN calls : calls[k].read > x})
           times == {calls[k].read : k \in DOMAIN calls}
<1>1. /\ n \in Nat /\ n > 0 /\ Warmup \in Nat /\ i = n /\ Len(calls) = n /\ DOMAIN calls = 1 .. n
      /\ \A k \in 1 .. n : calls[k].call <= calls[k].read
      /\ Len(returned) = Warmup + n /\ (\A k \in 1 .. Warmup + n : returned[k] = 0)
      /\ DOMAIN returned = 1 .. Warmup + n
  <2>1. n \in Nat /\ n > 0 /\ Warmup \in Nat
    BY IterationsFit
  <2>2. calls \in Seq(Sample) /\ returned \in Seq(Codes)
    BY DEF LoopInv, LoopTypes
  <2> HIDE DEF n
  <2>3. Len(calls) = n /\ i = n /\ Len(returned) = Warmup + n
        /\ \A k \in 1 .. Warmup + n : returned[k] = 0
    BY DEF ReturnedInv, Succeeded, AllZero, n
  <2>4. Measured = n
    BY <2>3 DEF Measured
  <2>5. \A k \in 1 .. n : calls[k].call <= calls[k].read
    BY <2>4 DEF AroundInv
  <2> QED
    BY <2>1, <2>2, <2>3, <2>5
<1>2. \A k \in 1 .. n : s[k] = calls[k].read /\ s[k] \in Int
  <2>1. Filled
    BY DEF LoopInv
  <2> SUFFICES ASSUME NEW k \in 1 .. n PROVE s[k] = calls[k].read /\ s[k] \in Int
    OBVIOUS
  <2>2. k - 1 \in 0 .. i - 1 /\ (k - 1) + 1 = k
    BY <1>1
  <2>3. cyc[k - 1] = calls[k].read
    BY <2>1, <2>2 DEF Filled
  <2>4. calls[k].read \in Int
    <3>1. calls \in Seq(Sample) /\ k \in 1 .. Len(calls)
      BY <1>1 DEF LoopInv, LoopTypes
    <3>2. calls[k] \in Sample
      BY <3>1, ElementOfSeq
    <3> QED
      BY <3>2 DEF Sample
  <2> HIDE DEF n
  <2> QED
    BY <2>3, <2>4
<1>3. s \in Seq(Int) /\ Len(s) = n /\ Len(s) > 0
  <2>1. s \in [1 .. n -> Int]
    BY <1>2
  <2> HIDE DEF s, n
  <2> QED
    BY <1>1, <2>1
<1>4. log[Len(log)] = Result
  BY DEF PrintedInv
<1>5. Result.op = op /\ Result.sig_bytes = g_siglen /\ Result.stats = StatsOf(cyc, n)
  <2>1. Stats = StatsOf(cyc, n)
    BY StatsAre
  <2> HIDE DEF Stats
  <2> QED
    BY <2>1 DEF Result
<1>6. row.n = n /\ row.min = Min(Range(s)) /\ row.max = Max(Range(s)) /\ row.median = Median(s)
  BY <1>4, <1>5 DEF StatsOf
<1> HIDE DEF s, n, row
<1>7. \A x : {k \in 1 .. Len(s) : s[k] < x} = {k \in DOMAIN calls : calls[k].read < x}
             /\ {k \in 1 .. Len(s) : s[k] > x} = {k \in DOMAIN calls : calls[k].read > x}
  BY <1>1, <1>2, <1>3
<1>8. {s[k] : k \in 1 .. Len(s)} = times
  BY <1>1, <1>2, <1>3
<1>9. \E a \in times, b \in times :
                  /\ a <= b /\ row.median = a + b
                  /\ 2 * Below(a) < row.n /\ 2 * Above(a) <= row.n
                  /\ 2 * Below(b) <= row.n /\ 2 * Above(b) < row.n
  <2> DEFINE Under(x) == Cardinality({k \in 1 .. Len(s) : s[k] < x})
             Over(x) == Cardinality({k \in 1 .. Len(s) : s[k] > x})
             values == {s[k] : k \in 1 .. Len(s)}
  <2>1. \A x : Under(x) = Below(x) /\ Over(x) = Above(x)
    BY <1>7
  <2>2. PICK a \in values, b \in values :
                  /\ a <= b /\ Median(s) = a + b
                  /\ 2 * Under(a) < Len(s) /\ 2 * Over(a) <= Len(s)
                  /\ 2 * Under(b) <= Len(s) /\ 2 * Over(b) < Len(s)
    BY <1>3, MedianIs
  <2> HIDE DEF Under, Over, values, Below, Above, times
  <2> QED
    BY <1>3, <1>6, <1>8, <2>1, <2>2 DEF values
<1>10. {row.min, row.max} \subseteq times /\ Below(row.min) = 0 /\ Above(row.max) = 0
  <2>1. /\ row.min \in times /\ row.max \in times
        /\ \A k \in 1 .. Len(s) : row.min <= s[k] /\ s[k] <= row.max
    BY <1>3, <1>6, <1>8, ExtremesAre
  <2>2. /\ row.min \in Int /\ row.max \in Int
    <3>1. times \subseteq Int
      BY <1>1, <1>2
    <3> QED
      BY <2>1, <3>1
  <2>3. \A k \in 1 .. n : ~(calls[k].read < row.min) /\ ~(calls[k].read > row.max)
    BY <1>2, <1>3, <2>1, <2>2
  <2>4. {k \in DOMAIN calls : calls[k].read < row.min} = {}
        /\ {k \in DOMAIN calls : calls[k].read > row.max} = {}
    BY <1>1, <2>3
  <2> QED
    BY <2>1, <2>4, FS_EmptySet
<1>11. Range(returned) = {0} /\ Len(returned) = Warmup + row.n
  <2>1. 1 \in 1 .. Warmup + n
    BY <1>1
  <2> QED
    BY <1>1, <1>6, <2>1 DEF Range
<1>12. /\ log[Len(log)].op = op /\ log[Len(log)].sig_bytes = g_siglen /\ Len(calls) = row.n
       /\ \A k \in DOMAIN calls : calls[k].call <= calls[k].read
  BY <1>1, <1>4, <1>5, <1>6
<1> HIDE DEF Below, Above, times
<1> QED
  BY <1>9, <1>10, <1>11, <1>12 DEF ResultsAreOwn, row, Below, Above, times

\* The figures printed with an operation are those of its own calls, each of which returned 0,
\* and of the time that passed around them, however many iterations and warm-ups there are and
\* whatever the reload value. (bench_run, main)
THEOREM ResultsOwn == Spec => []ResultsAreOwn
<1>1. Spec => [](IInv /\ LoopInv)
  BY InitHolds, StepHolds, LoopInit, LoopStep, PTL DEF Spec
<1>2. Init => AroundInv /\ ReturnedInv /\ PrintedInv
  <2>1. Init => AroundInv
    BY DEF Init, bench_init, AroundInv, Measured
  <2>2. Init => ReturnedInv
    BY DEF Init, ReturnedInv, Succeeded
  <2>3. Init => PrintedInv
    <3>1. <<>> \in Seq({})
      OBVIOUS
    <3> QED
      BY <3>1 DEF Init, PrintedInv
  <2> QED
    BY <2>1, <2>2, <2>3
<1>3. Spec => [](AroundInv /\ ReturnedInv /\ PrintedInv)
  BY <1>1, <1>2, AroundStep, ReturnedStep, PrintedStep, PTL DEF Spec
<1>4. AroundInv /\ ReturnedInv /\ PrintedInv /\ LoopInv => ResultsAreOwn
  <2>1. pc \notin {"reference", "sanity"} => ResultsAreOwn
    BY DEF ResultsAreOwn
  <2> QED
    BY <2>1, FiguresAreOwn
<1> QED
  BY <1>1, <1>3, <1>4, PTL
=============================================================================
