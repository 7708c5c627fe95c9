------------------------------- MODULE RxRing -------------------------------
(***************************************************************************)
(* The receive ring of mqtt_client/tls_transport.c (rx_push, rx_pop); the  *)
(* one of plain_transport.c is the same code.                              *)
(*                                                                         *)
(* on_recv runs in the background interrupt of the lwIP port: it preempts  *)
(* the main loop anywhere the lwIP lock is not held and runs to its end,   *)
(* so a push is one step.  rx_pop runs in the main loop between            *)
(* cyw43_arch_lwip_begin and cyw43_arch_lwip_end, byte by byte, and its    *)
(* avail-- is a load and a store: what keeps a push out of the gap between *)
(* the two is the lock.                                                    *)
(*                                                                         *)
(* A byte is named by its position in the peer's stream.                   *)
(***************************************************************************)
EXTENDS Integers, Sequences

CONSTANTS RX_BUF_CAP,   \* slots of the ring (16384 in the source)
          MaxSegment,   \* bound: bytes of one pbuf chain
          MaxWant,      \* bound: bytes asked of one rx_pop
          MaxStream     \* bound: bytes the peer sends

ASSUME RxRingAssumption ==
    /\ RX_BUF_CAP \in Nat \ {0}
    /\ MaxSegment \in Nat
    /\ MaxWant \in Nat
    /\ MaxStream \in Nat

VARIABLES data, head, tail, avail,  \* rx_ring_t
          received,                 \* bytes handed to rx_push so far
          accepted,                 \* the ones rx_push stored, in order
          delivered,                \* the ones rx_pop copied out, in order
          lock,                     \* holder of the lwIP lock, as the main loop sees it
          pop,                      \* where the main loop is in rx_pop
          left,                     \* iterations of rx_pop still to run
          loaded                    \* avail as loaded by the pending avail--

ring == <<data, head, tail, avail>>
history == <<received, accepted, delivered>>
reader == <<lock, pop, left, loaded>>
ringVars == <<ring, history, reader>>

Slots == 0..(RX_BUF_CAP - 1)
Lesser(a, b) == IF a < b THEN a ELSE b

\* Mutation: the indices wrap one slot early.
AdvanceShort(i) == IF i + 1 >= RX_BUF_CAP - 1 THEN 0 ELSE i + 1

\* (i + 1) % RX_BUF_CAP for an index i of the ring.
Advance(i) == IF i + 1 = RX_BUF_CAP THEN 0 ELSE i + 1
\* The slot n places after slot i, for n up to RX_BUF_CAP.
Plus(i, n) == IF i + n < RX_BUF_CAP THEN i + n ELSE i + n - RX_BUF_CAP
\* How many places slot s lies after slot i.
Distance(i, s) == IF s >= i THEN s - i ELSE s - i + RX_BUF_CAP

RingInit ==
    /\ data = [s \in Slots |-> 0]
    /\ head = 0 /\ tail = 0 /\ avail = 0
    /\ received = 0 /\ accepted = <<>> /\ delivered = <<>>
    /\ lock = "free" /\ pop = "out" /\ left = 0 /\ loaded = 0

\* Mutation: one slot is kept empty, as in a ring without an avail field.
StoredShort(n) == Lesser(n, RX_BUF_CAP - 1 - avail)

\* The loop of rx_push stops at the first byte that finds the ring full, so
\* the stored bytes are a prefix of the segment.
Stored(n) == Lesser(n, RX_BUF_CAP - avail)

\* The first k bytes of the segment that follows what was received.
Segment(k) == [j \in 1..k |-> received + j]

rx_push(n) ==
    LET k == Stored(n)
    IN  /\ data' = [s \in Slots |->
                      IF Distance(head, s) < k
                        THEN received + Distance(head, s) + 1
                        ELSE data[s]]
        /\ head' = Plus(head, k)
        /\ avail' = avail + k
        /\ accepted' = accepted \o Segment(k)

\* on_recv with a pbuf chain of n bytes; it cannot run while the main loop
\* holds the lwIP lock.
LockIgnored == TRUE   \* mutation: rx_pop called without the lwIP lock
LockFree == lock = "free"

on_recv(n) ==
    /\ LockFree
    /\ received + n <= MaxStream
    /\ rx_push(n)
    /\ received' = received + n
    /\ UNCHANGED <<tail, delivered, reader>>

\* cyw43_arch_lwip_begin and the first line of rx_pop.
PopEnter(want) ==
    /\ pop = "out"
    /\ lock' = "main"
    /\ pop' = "loop"
    /\ left' = Lesser(want, avail)
    /\ UNCHANGED <<ring, history, loaded>>

\* One iteration up to the load of avail--.
PopByte ==
    /\ pop = "loop" /\ left > 0
    /\ delivered' = Append(delivered, data[tail])
    /\ tail' = Advance(tail)
    /\ loaded' = avail
    /\ pop' = "store"
    /\ UNCHANGED <<data, head, avail, received, accepted, lock, left>>

\* The store of avail--.
PopStore ==
    /\ pop = "store"
    /\ avail' = loaded - 1
    /\ left' = left - 1
    /\ pop' = "loop"
    /\ UNCHANGED <<data, head, tail, history, lock, loaded>>

\* The return of rx_pop and cyw43_arch_lwip_end.
PopExit ==
    /\ pop = "loop" /\ left = 0
    /\ pop' = "out"
    /\ lock' = "free"
    /\ UNCHANGED <<ring, history, left, loaded>>

RingNext ==
    \/ \E n \in 1..MaxSegment : on_recv(n)
    \/ \E want \in 1..MaxWant : PopEnter(want)
    \/ PopByte
    \/ PopStore
    \/ PopExit

RingSpec == RingInit /\ [][RingNext]_ringVars

-----------------------------------------------------------------------------
\* Bytes in the ring: avail, less the one a pending avail-- has taken.
Held == IF pop = "store" THEN avail - 1 ELSE avail

\* Types of the ring's fields and the reader's locals (16-bit in the source:
\* RX_BUF_CAP = 2^14 keeps every sum below 2^16).
RingTypeOK ==
    /\ data \in [Slots -> Nat]
    /\ head \in Slots /\ tail \in Slots
    /\ avail \in 0..RX_BUF_CAP
    /\ received \in Nat
    /\ accepted \in Seq(Nat) /\ delivered \in Seq(Nat)
    /\ lock \in {"free", "main"}
    /\ pop \in {"out", "loop", "store"}
    /\ left \in 0..RX_BUF_CAP
    /\ loaded \in 0..RX_BUF_CAP

\* rx_pop relies on these between its iterations: the lock is held, avail
\* is what it loaded, and the bytes it still has to copy are there.
ReaderInv ==
    /\ pop # "out" <=> lock = "main"
    /\ pop = "store" => loaded = avail /\ left > 0
    /\ pop # "out" => left <= avail

\* The ring is exactly the part of the accepted stream not yet delivered:
\* the write index is avail places after the read index, and slot by slot
\* the contents continue what the reader already has.
RingHoldsUndelivered ==
    /\ head = Plus(tail, Held)
    /\ Len(accepted) = Len(delivered) + Held
    /\ \A j \in 0..(Held - 1) :
          data[Plus(tail, j)] = accepted[Len(delivered) + j + 1]

\* The reader has a prefix of the accepted stream: no byte is repeated,
\* skipped or overwritten before it was read, however pushes and pops
\* interleave.
DeliveredIsPrefix ==
    \A j \in 1..Len(delivered) : j <= Len(accepted) /\ delivered[j] = accepted[j]

\* The reader never sees bytes out of the order the peer sent them in; a gap
\* is possible (an overflow) but a step back or a repetition is not.
DeliveredAscends ==
    \A i, j \in 1..Len(delivered) : i < j => delivered[i] < delivered[j]

\* Bytes of a segment are dropped only by a push that leaves the ring full.
LossOnlyWhenFull ==
    [][(received' # received
        /\ Len(accepted') - Len(accepted) < received' - received)
       => avail' = RX_BUF_CAP]_ringVars

\* The abstract queue is what lies between tail and head.
Contents == [j \in 1..Held |-> data[Plus(tail, j - 1)]]

Fifo == INSTANCE RxFifo WITH queue <- Contents

\* The ring under preemption implements the bounded queue.
RefinesFifo == Fifo!Spec
=============================================================================
