------------------------------- MODULE RxFifo -------------------------------
(***************************************************************************)
(* What the receive path of the two transports promises to its reader: a   *)
(* bounded first-in first-out queue of received bytes.  Bytes are named by *)
(* their position in the peer's TCP stream, so order, loss and duplication *)
(* are visible in the values themselves.  A segment that does not fit is   *)
(* cut: its head is queued, its tail is lost.                              *)
(***************************************************************************)
EXTENDS Integers, Sequences

CONSTANTS RX_BUF_CAP,   \* capacity of the queue in bytes
          MaxSegment    \* longest pbuf chain handed over at once

VARIABLES queue,        \* received bytes not read yet
          received,     \* bytes of the stream handed over so far
          delivered     \* everything the reader got, in the order it got it

vars == <<queue, received, delivered>>

\* The bytes of a segment of n bytes that a queue with `room` free takes.
Kept(n, room) == IF n < room THEN n ELSE room

Init == /\ queue = <<>>
        /\ received = 0
        /\ delivered = <<>>

\* A segment of n bytes arrives; what does not fit is lost.
Arrive(n) ==
    LET room == RX_BUF_CAP - Len(queue)
    IN  /\ queue' = queue \o [j \in 1..Kept(n, room) |-> received + j]
        /\ received' = received + n
        /\ UNCHANGED delivered

\* The reader takes the oldest byte.
Deliver ==
    /\ queue # <<>>
    /\ delivered' = Append(delivered, Head(queue))
    /\ queue' = Tail(queue)
    /\ UNCHANGED received

Next == Deliver \/ \E n \in 1..MaxSegment : Arrive(n)

Spec == Init /\ [][Next]_vars
=============================================================================
