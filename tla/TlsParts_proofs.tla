--------------------------- MODULE TlsParts_proofs ---------------------------
(***************************************************************************)
(* Proofs about the two parts of a TLS connection that are modules of      *)
(* their own.  RxRing, for every capacity of the ring and every input:     *)
(* type correctness, the contents of the ring, the order in which bytes    *)
(* are delivered, and the refinement of RxFifo.  KeyShim, for every pair   *)
(* of keys and every key file: who counts as authenticated, which files    *)
(* are accepted, with which key the client signs, and that nothing is left *)
(* of a connection.                                                        *)
(***************************************************************************)
EXTENDS RxRing, KeyShim, DataFacts

-----------------------------------------------------------------------------
(* The receive ring.                                                       *)

(* The accepted bytes are distinct stream positions in ascending order, none
   of them ahead of what was received: what makes DeliveredAscends inductive. *)
AcceptedAscends ==
    /\ \A j \in 1..Len(accepted) : accepted[j] <= received
    /\ \A i, j \in 1..Len(accepted) : i < j => accepted[i] < accepted[j]

(* The inductive invariant. *)
RingIInv ==
    /\ RingTypeOK
    /\ ReaderInv
    /\ RingHoldsUndelivered
    /\ DeliveredIsPrefix
    /\ AcceptedAscends

-----------------------------------------------------------------------------
(* Index arithmetic of the ring. *)

(* The write index stays a slot, and storing after storing adds up. *)
LEMMA PlusFacts ==
    ASSUME NEW i \in Slots, NEW n \in 0..RX_BUF_CAP
    PROVE  /\ Plus(i, n) \in Slots
           /\ Plus(i, 0) = i
           /\ \A m \in 0..RX_BUF_CAP :
                 n + m <= RX_BUF_CAP => Plus(Plus(i, n), m) = Plus(i, n + m)
  BY RxRingAssumption DEF Slots, Plus

(* Advancing is moving one place, and it shifts what lies behind. *)
LEMMA AdvanceFacts ==
    ASSUME NEW i \in Slots
    PROVE  /\ Advance(i) \in Slots
           /\ \A n \in 1..RX_BUF_CAP : Plus(Advance(i), n - 1) = Plus(i, n)
  BY RxRingAssumption DEF Slots, Plus, Advance

(* Distance inverts Plus: the slots of a push are the ones at its places. *)
LEMMA DistanceFacts ==
    ASSUME NEW i \in Slots
    PROVE  /\ \A s \in Slots : Distance(i, s) \in 0..(RX_BUF_CAP - 1)
           /\ \A n \in 0..(RX_BUF_CAP - 1) : Distance(i, Plus(i, n)) = n
  BY RxRingAssumption DEF Slots, Plus, Distance

(* A slot holding unread data is too far from head for a push to reach. *)
LEMMA UnreadIsOutOfReach ==
    ASSUME NEW t \in Slots, NEW a \in 0..RX_BUF_CAP, NEW j \in 0..(a - 1)
    PROVE  Distance(Plus(t, a), Plus(t, j)) >= RX_BUF_CAP - a
  BY RxRingAssumption DEF Slots, Plus, Distance

(* What is appended to the accepted stream by a push of k bytes. *)
LEMMA SegmentFacts ==
    ASSUME received \in Nat, NEW k \in Nat
    PROVE  /\ Segment(k) \in Seq(Nat)
           /\ Len(Segment(k)) = k
           /\ \A j \in 1..k : Segment(k)[j] = received + j
  <1>1. Segment(k) \in [1..k -> Nat]
    BY DEF Segment
  <1>2. Segment(k) \in Seq(Nat)
    BY <1>1, SeqDef
  <1> QED
    BY <1>1, <1>2, LenProperties DEF Segment

-----------------------------------------------------------------------------
(* Each action preserves the invariant. *)

LEMMA RingInitInv == RingInit => RingIInv
  <1> SUFFICES ASSUME RingInit PROVE RingIInv
    OBVIOUS
  <1>1. /\ accepted = <<>> /\ delivered = <<>>
        /\ <<>> \in Seq(Nat) /\ Len(<<>>) = 0
        /\ Held = 0 /\ tail \in Slots /\ head = tail
    BY RxRingAssumption, EmptySeq DEF RingInit, Held, Slots
  <1>2. RingTypeOK
    <2>1. data \in [Slots -> Nat]
      BY DEF RingInit
    <2> QED
      BY <1>1, <2>1, RxRingAssumption DEF RingInit, RingTypeOK, Slots
  <1>2a. ReaderInv
    BY DEF RingInit, ReaderInv
  <1>3. RingHoldsUndelivered
    BY <1>1, RxRingAssumption DEF RingHoldsUndelivered, Plus, Slots
  <1>4. DeliveredIsPrefix /\ AcceptedAscends
    BY <1>1 DEF DeliveredIsPrefix, AcceptedAscends
  <1> QED
    BY <1>2, <1>2a, <1>3, <1>4 DEF RingIInv

(* A push extends the accepted stream and fills exactly the slots after the
   unread ones. *)
LEMMA PushInv ==
    ASSUME RingIInv, NEW n \in 1..MaxSegment, on_recv(n)
    PROVE  RingIInv'
  <1> DEFINE k == Stored(n)
  <1> USE DEF RingIInv
  <1>1. /\ k \in 0..(RX_BUF_CAP - avail)
        /\ k <= n
        /\ n \in Nat
    BY RxRingAssumption DEF RingTypeOK, Stored, Lesser
  <1>a. /\ data' = [s \in Slots |-> IF Distance(head, s) < k
                                     THEN received + Distance(head, s) + 1
                                     ELSE data[s]]
        /\ accepted' = accepted \o Segment(k)
        /\ avail' = avail + k
        /\ head' = Plus(head, k)
        /\ received' = received + n
        /\ UNCHANGED <<tail, delivered, reader>>
    BY DEF on_recv, rx_push
  <1>b. /\ k \in Nat /\ k \in 0..RX_BUF_CAP
        /\ received \in Nat /\ head \in Slots /\ avail \in 0..RX_BUF_CAP
    BY <1>1, RxRingAssumption DEF RingTypeOK
  <1> HIDE DEF k
  <1>2. /\ Segment(k) \in Seq(Nat)
        /\ Len(Segment(k)) = k
        /\ \A j \in 1..k : Segment(k)[j] = received + j
    BY <1>b, SegmentFacts
  <1>3. /\ accepted' \in Seq(Nat)
        /\ Len(accepted') = Len(accepted) + k
        /\ \A i \in 1..(Len(accepted) + k) :
              accepted'[i] = IF i <= Len(accepted)
                               THEN accepted[i]
                               ELSE received + (i - Len(accepted))
    <2>1. accepted \in Seq(Nat)
      BY DEF RingTypeOK
    <2>2. Len(accepted) \in Nat
      BY <2>1, LenProperties
    <2>3. /\ accepted \o Segment(k) \in Seq(Nat)
          /\ Len(accepted \o Segment(k)) = Len(accepted) + Len(Segment(k))
          /\ \A i \in 1..(Len(accepted) + Len(Segment(k))) :
                (accepted \o Segment(k))[i] =
                   IF i <= Len(accepted) THEN accepted[i]
                                         ELSE Segment(k)[i - Len(accepted)]
      BY <1>2, <2>1, ConcatProperties
    <2>4. \A i \in 1..(Len(accepted) + k) :
             i > Len(accepted) => i - Len(accepted) \in 1..k
      BY <1>b, <2>2
    <2> QED
      BY <1>a, <1>2, <2>2, <2>3, <2>4
  <1>4. /\ pop = "out" /\ Held = avail
        /\ Held' = avail + k
        /\ UNCHANGED <<lock, pop, left, loaded>>
    BY <1>a DEF on_recv, LockFree, Held, ReaderInv, RingTypeOK, reader
  <1>5. \A s \in Slots : /\ Distance(head, s) < k => data'[s] = received + Distance(head, s) + 1
                         /\ Distance(head, s) >= k => data'[s] = data[s]
    <2>1. \A s \in Slots : Distance(head, s) \in Int
      BY <1>b, DistanceFacts
    <2> QED
      BY <1>a, <1>b, <2>1
  <1>6. RingTypeOK'
    <2>1. data' \in [Slots -> Nat]
      <3>1. \A s \in Slots : Distance(head, s) \in Nat
        BY <1>b, DistanceFacts
      <3> QED
        BY <1>a, <1>b, <3>1 DEF RingTypeOK
    <2>2. head' \in Slots
      BY <1>a, <1>b, PlusFacts
    <2> QED
      BY <1>1, <1>a, <1>3, <1>4, <2>1, <2>2, RxRingAssumption DEF RingTypeOK
  <1>7. ReaderInv'
    BY <1>4 DEF ReaderInv
  <1>8. RingHoldsUndelivered'
    <2>0. /\ Len(delivered) \in Nat
          /\ Len(accepted) = Len(delivered) + avail
          /\ head = Plus(tail, avail)
          /\ avail \in 0..RX_BUF_CAP
          /\ tail \in Slots /\ head \in Slots
          /\ RX_BUF_CAP \in Nat \ {0}
      BY <1>4, LenProperties, RxRingAssumption DEF RingTypeOK, RingHoldsUndelivered
    <2>1. head' = Plus(tail', avail + k)
      BY <1>1, <1>a, <1>b, <2>0, PlusFacts
    <2>2. ASSUME NEW j \in 0..(avail + k - 1)
          PROVE  data'[Plus(tail, j)] = accepted'[Len(delivered) + j + 1]
      <3>1. CASE j < avail
        <4>1. Distance(head, Plus(tail, j)) >= k
          <5>1. j \in 0..(avail - 1)
            BY <3>1, <1>b, <2>0
          <5>2. Distance(head, Plus(tail, j)) >= RX_BUF_CAP - avail
            BY <5>1, <2>0, UnreadIsOutOfReach
          <5>3. Distance(head, Plus(tail, j)) \in Int
            BY <1>1, <2>0, PlusFacts, DistanceFacts
          <5> QED BY <5>2, <5>3, <1>1, <2>0
        <4>2. Plus(tail, j) \in Slots
          BY <1>1, <2>0, PlusFacts
        <4>3. data'[Plus(tail, j)] = data[Plus(tail, j)]
          BY <4>1, <4>2, <1>5
        <4>4. data[Plus(tail, j)] = accepted[Len(delivered) + j + 1]
          <5>1. j \in 0..(Held - 1)
            BY <3>1, <1>4, <1>b, <2>0
          <5> QED BY <5>1 DEF RingHoldsUndelivered
        <4> QED
          BY <4>3, <4>4, <3>1, <1>1, <1>3, <2>0
      <3>2. CASE j >= avail
        <4>1. /\ j - avail \in 0..(k - 1)
              /\ j - avail \in 0..(RX_BUF_CAP - 1)
              /\ j \in 0..RX_BUF_CAP
          BY <3>2, <1>1, <2>0
        <4>2. Plus(tail, j) = Plus(head, j - avail)
          <5>1. Plus(Plus(tail, avail), j - avail) = Plus(tail, avail + (j - avail))
            BY <4>1, <1>1, <2>0, PlusFacts
          <5>2. avail + (j - avail) = j
            BY <4>1, <2>0
          <5> QED BY <5>1, <5>2, <2>0
        <4>3. Distance(head, Plus(tail, j)) = j - avail
          BY <4>1, <4>2, <2>0, DistanceFacts
        <4>4. Plus(tail, j) \in Slots
          BY <4>1, <2>0, PlusFacts
        <4>5. data'[Plus(tail, j)] = received + (j - avail) + 1
          BY <4>1, <4>3, <4>4, <1>1, <1>5
        <4>6. accepted'[Len(delivered) + j + 1] = received + (Len(delivered) + j + 1 - Len(accepted))
          BY <3>2, <1>1, <1>3, <2>0
        <4> QED
          BY <4>5, <4>6, <1>1, <2>0 DEF RingTypeOK
      <3> QED
        BY <3>1, <3>2, <1>1, <2>0
    <2>3. Held' = avail + k /\ tail' = tail /\ delivered' = delivered
      BY <1>a, <1>4
    <2>4. Len(accepted') = Len(delivered') + Held'
      BY <1>b, <1>3, <2>0, <2>3
    <2>5. \A j \in 0..(Held' - 1) :
             data'[Plus(tail', j)] = accepted'[Len(delivered') + j + 1]
      <3>1. \A j \in 0..(avail + k - 1) :
               data'[Plus(tail, j)] = accepted'[Len(delivered) + j + 1]
        BY <2>2
      <3> QED
        BY <3>1, <2>3, <1>b
    <2> QED
      BY <2>1, <2>3, <2>4, <2>5 DEF RingHoldsUndelivered
  <1>9. DeliveredIsPrefix'
    <2>1. Len(delivered) \in Nat /\ Len(accepted) \in Nat
      BY LenProperties DEF RingTypeOK
    <2> QED
      BY <1>a, <1>b, <1>3, <2>1 DEF DeliveredIsPrefix
  <1>10. AcceptedAscends'
    <2>1. Len(accepted) \in Nat /\ received \in Nat
      BY LenProperties DEF RingTypeOK
    <2>2. \A i \in 1..Len(accepted) : accepted[i] \in Nat /\ accepted[i] <= received
      BY ElementOfSeq DEF RingTypeOK, AcceptedAscends
    <2>3. ASSUME NEW j \in 1..Len(accepted')
          PROVE  accepted'[j] <= received'
      BY <1>1, <1>a, <1>b, <1>3, <2>1, <2>2
    <2>4. ASSUME NEW i \in 1..Len(accepted'), NEW j \in 1..Len(accepted'), i < j
          PROVE  accepted'[i] < accepted'[j]
      <3>1. CASE j <= Len(accepted)
        <4>1. i \in 1..Len(accepted) /\ j \in 1..Len(accepted)
          BY <3>1, <2>1, <2>4, <1>b, <1>3
        <4>2. accepted'[i] = accepted[i] /\ accepted'[j] = accepted[j]
          BY <4>1, <2>1, <1>b, <1>3
        <4> QED
          BY <4>1, <4>2, <2>4 DEF AcceptedAscends
      <3>2. CASE i <= Len(accepted) /\ j > Len(accepted)
        <4>1. i \in 1..Len(accepted)
          BY <3>2, <2>1, <1>b, <1>3
        <4>2. accepted'[i] = accepted[i] /\ accepted'[j] = received + (j - Len(accepted))
          BY <3>2, <4>1, <2>1, <1>b, <1>3
        <4> QED
          BY <3>2, <4>1, <4>2, <2>1, <2>2, <1>b, <1>3
      <3>3. CASE i > Len(accepted)
        BY <3>3, <1>b, <1>3, <2>1, <2>4
      <3> QED
        BY <3>1, <3>2, <3>3, <2>1, <2>4, <1>b, <1>3
    <2> QED
      BY <2>3, <2>4 DEF AcceptedAscends
  <1> QED
    BY <1>6, <1>7, <1>8, <1>9, <1>10

(* Entering rx_pop only fixes how many bytes it will copy. *)
LEMMA PopEnterInv ==
    ASSUME RingIInv, NEW want \in 1..MaxWant, PopEnter(want)
    PROVE  RingIInv'
  <1> USE DEF RingIInv
  <1>1. /\ Held' = Held
        /\ UNCHANGED <<data, head, tail, avail, received, accepted, delivered, loaded>>
    BY DEF PopEnter, Held, ring, history
  <1>2. left' \in 0..avail
    BY RxRingAssumption DEF PopEnter, RingTypeOK, Lesser
  <1>3. RingTypeOK'
    <2>1. left' \in 0..RX_BUF_CAP
      BY <1>2, RxRingAssumption DEF RingTypeOK
    <2> QED
      BY <1>1, <2>1 DEF PopEnter, RingTypeOK
  <1>4. ReaderInv'
    BY <1>1, <1>2 DEF PopEnter, ReaderInv, RingTypeOK
  <1>5. RingHoldsUndelivered'
    BY <1>1 DEF RingHoldsUndelivered
  <1>6. DeliveredIsPrefix' /\ AcceptedAscends'
    BY <1>1 DEF DeliveredIsPrefix, AcceptedAscends
  <1> QED
    BY <1>3, <1>4, <1>5, <1>6

(* Copying a byte moves the oldest unread one to the reader's stream. *)
LEMMA PopByteInv ==
    ASSUME RingIInv, PopByte
    PROVE  RingIInv'
  <1> USE DEF RingIInv
  <1>0. /\ RX_BUF_CAP \in Nat \ {0}
        /\ tail \in Slots /\ avail \in 0..RX_BUF_CAP /\ avail > 0
        /\ delivered \in Seq(Nat) /\ accepted \in Seq(Nat)
        /\ Len(delivered) \in Nat /\ Len(accepted) \in Nat
        /\ Held = avail
    BY RxRingAssumption, LenProperties DEF PopByte, RingTypeOK, ReaderInv, Held
  <1>1. /\ delivered' = Append(delivered, data[tail])
        /\ tail' = Advance(tail)
        /\ loaded' = avail
        /\ pop' = "store"
        /\ Held' = avail - 1
        /\ UNCHANGED <<data, head, avail, received, accepted, lock, left>>
    BY DEF PopByte, Held
  <1>2. /\ Len(accepted) = Len(delivered) + avail
        /\ head = Plus(tail, avail)
        /\ \A j \in 0..(avail - 1) : data[Plus(tail, j)] = accepted[Len(delivered) + j + 1]
    BY <1>0 DEF RingHoldsUndelivered
  <1>3. data[tail] = accepted[Len(delivered) + 1] /\ data[tail] \in Nat
    <2>1. 0 \in 0..(avail - 1) /\ Plus(tail, 0) = tail
      BY <1>0, PlusFacts
    <2> QED
      BY <1>0, <1>2, <2>1 DEF RingTypeOK
  <1>4. /\ delivered' \in Seq(Nat)
        /\ Len(delivered') = Len(delivered) + 1
        /\ \A j \in 1..(Len(delivered) + 1) :
              delivered'[j] = IF j = Len(delivered) + 1 THEN data[tail] ELSE delivered[j]
    BY <1>0, <1>1, <1>3, AppendProperties
  <1>5. /\ Advance(tail) \in Slots
        /\ \A n \in 1..RX_BUF_CAP : Plus(Advance(tail), n - 1) = Plus(tail, n)
    BY <1>0, AdvanceFacts
  <1>6. RingTypeOK'
    BY <1>0, <1>1, <1>4, <1>5 DEF RingTypeOK
  <1>7. ReaderInv'
    BY <1>1 DEF PopByte, ReaderInv, RingTypeOK
  <1>8. RingHoldsUndelivered'
    <2>1. head' = Plus(tail', Held')
      <3>1. Plus(Advance(tail), avail - 1) = Plus(tail, avail)
        BY <1>0, <1>5
      <3> QED
        BY <3>1, <1>1, <1>2
    <2>2. Len(accepted') = Len(delivered') + Held'
      BY <1>0, <1>1, <1>2, <1>4
    <2>3. ASSUME NEW j \in 0..(Held' - 1)
          PROVE  data'[Plus(tail', j)] = accepted'[Len(delivered') + j + 1]
      <3>1. j + 1 \in 1..RX_BUF_CAP /\ j + 1 \in 0..(avail - 1) /\ j \in Nat
        BY <1>0, <1>1
      <3>2. Plus(tail', j) = Plus(tail, j + 1)
        <4>1. Plus(Advance(tail), (j + 1) - 1) = Plus(tail, j + 1)
          BY <3>1, <1>5
        <4>2. (j + 1) - 1 = j
          BY <3>1
        <4> QED
          BY <4>1, <4>2, <1>1
      <3>3. data[Plus(tail, j + 1)] = accepted[Len(delivered) + (j + 1) + 1]
        BY <3>1, <1>2
      <3>4. Len(delivered) + (j + 1) + 1 = Len(delivered') + j + 1
        BY <3>1, <1>0, <1>4
      <3> QED
        BY <3>2, <3>3, <3>4, <1>1
    <2> QED
      BY <2>1, <2>2, <2>3 DEF RingHoldsUndelivered
  <1>9. DeliveredIsPrefix'
    BY <1>0, <1>1, <1>2, <1>3, <1>4 DEF DeliveredIsPrefix
  <1>10. AcceptedAscends'
    BY <1>1 DEF AcceptedAscends
  <1> QED
    BY <1>6, <1>7, <1>8, <1>9, <1>10

(* The store of avail-- only catches up with the byte already copied: it
   needs loaded to be current, which the lock guarantees. *)
LEMMA PopStoreInv ==
    ASSUME RingIInv, PopStore
    PROVE  RingIInv'
  <1> USE DEF RingIInv
  <1>1. /\ avail' = avail - 1
        /\ left' = left - 1
        /\ pop' = "loop"
        /\ UNCHANGED <<data, head, tail, received, accepted, delivered, lock, loaded>>
    BY DEF PopStore, ReaderInv, history
  <1>2. /\ pop = "store"
        /\ left > 0 /\ left <= avail
        /\ left \in 0..RX_BUF_CAP /\ avail \in 0..RX_BUF_CAP
        /\ lock = "main"
        /\ RX_BUF_CAP \in Nat
    BY RxRingAssumption DEF PopStore, ReaderInv, RingTypeOK
  <1>3. Held' = Held
    BY <1>1, <1>2 DEF Held
  <1>4. RingTypeOK'
    BY <1>1, <1>2 DEF RingTypeOK
  <1>5. ReaderInv'
    BY <1>1, <1>2 DEF ReaderInv
  <1>6. RingHoldsUndelivered'
    BY <1>1, <1>3 DEF RingHoldsUndelivered
  <1>7. DeliveredIsPrefix' /\ AcceptedAscends'
    BY <1>1 DEF DeliveredIsPrefix, AcceptedAscends
  <1> QED
    BY <1>4, <1>5, <1>6, <1>7

(* Leaving rx_pop changes nothing of the ring. *)
LEMMA PopExitInv ==
    ASSUME RingIInv, PopExit
    PROVE  RingIInv'
  <1> USE DEF RingIInv
  <1>1. /\ Held' = Held
        /\ pop' = "out" /\ lock' = "free"
        /\ UNCHANGED <<data, head, tail, avail, received, accepted, delivered, left, loaded>>
    BY DEF PopExit, Held, ring, history
  <1>2. RingTypeOK' /\ ReaderInv'
    BY <1>1 DEF RingTypeOK, ReaderInv
  <1>3. RingHoldsUndelivered'
    BY <1>1 DEF RingHoldsUndelivered
  <1>4. DeliveredIsPrefix' /\ AcceptedAscends'
    BY <1>1 DEF DeliveredIsPrefix, AcceptedAscends
  <1> QED
    BY <1>2, <1>3, <1>4

LEMMA StutterInv ==
    ASSUME RingIInv, UNCHANGED ringVars
    PROVE  RingIInv'
  <1>1. UNCHANGED <<data, head, tail, avail, received, accepted, delivered,
                    lock, pop, left, loaded>>
    BY DEF ringVars, ring, history, reader
  <1> QED
    BY <1>1 DEF RingIInv, RingTypeOK, ReaderInv, RingHoldsUndelivered, DeliveredIsPrefix,
                AcceptedAscends, Held

LEMMA RingNextInv == RingIInv /\ [RingNext]_ringVars => RingIInv'
  BY PushInv, PopEnterInv, PopByteInv, PopStoreInv, PopExitInv, StutterInv DEF RingNext

LEMMA RingInductive == RingSpec => []RingIInv
  BY RingInitInv, RingNextInv, PTL DEF RingSpec

-----------------------------------------------------------------------------
(* Type correctness: every index of the ring stays inside data, avail never
   exceeds the capacity, for any capacity and traffic. *)
THEOREM RingTypeCorrect == RingSpec => []RingTypeOK
  BY RingInductive, PTL DEF RingIInv

(* Whatever interleaving of on_recv and rx_pop, the ring holds exactly the
   accepted bytes the reader has not had yet, in order. *)
THEOREM RingConsistent == RingSpec => []RingHoldsUndelivered
  BY RingInductive, PTL DEF RingIInv

(* The reader of the ring never sees a byte twice, out of order, or one it
   was not sent. *)
THEOREM DeliveryOrder == RingSpec => [](DeliveredIsPrefix /\ DeliveredAscends)
  <1>1. RingIInv => DeliveredAscends
    <2> SUFFICES ASSUME RingIInv,
                        NEW i \in 1..Len(delivered), NEW j \in 1..Len(delivered), i < j
                 PROVE  delivered[i] < delivered[j]
      BY DEF DeliveredAscends
    <2>1. Len(delivered) \in Nat /\ Len(accepted) \in Nat
      BY LenProperties DEF RingIInv, RingTypeOK
    <2>2. /\ i <= Len(accepted) /\ delivered[i] = accepted[i]
          /\ j <= Len(accepted) /\ delivered[j] = accepted[j]
      BY DEF RingIInv, DeliveredIsPrefix
    <2>3. i \in 1..Len(accepted) /\ j \in 1..Len(accepted)
      BY <2>1, <2>2
    <2> QED
      BY <2>2, <2>3 DEF RingIInv, AcceptedAscends
  <1>2. RingIInv => DeliveredIsPrefix
    BY DEF RingIInv
  <1> QED
    BY <1>1, <1>2, RingInductive, PTL

(* Bytes are lost only by a push that leaves the ring full. *)
THEOREM LossMeansFull == RingSpec => LossOnlyWhenFull
  <1>1. ASSUME RingIInv, NEW n \in 1..MaxSegment, on_recv(n),
               Len(accepted') - Len(accepted) < received' - received
        PROVE  avail' = RX_BUF_CAP
    <2> DEFINE k == Stored(n)
    <2>1. /\ k = IF n < RX_BUF_CAP - avail THEN n ELSE RX_BUF_CAP - avail
          /\ k \in Nat
          /\ n \in Nat
          /\ avail \in 0..RX_BUF_CAP /\ RX_BUF_CAP \in Nat
          /\ received \in Nat
      BY <1>1, RxRingAssumption DEF RingIInv, RingTypeOK, Stored, Lesser
    <2>2. /\ accepted' = accepted \o Segment(k)
          /\ avail' = avail + k
          /\ received' = received + n
      BY <1>1 DEF on_recv, rx_push
    <2> HIDE DEF k
    <2>3. Len(accepted) \in Nat /\ accepted \in Seq(Nat)
      BY <1>1, LenProperties DEF RingIInv, RingTypeOK
    <2>4. Segment(k) \in Seq(Nat) /\ Len(Segment(k)) = k
      BY <2>1, SegmentFacts
    <2>5. Len(accepted') = Len(accepted) + k
      BY <2>2, <2>3, <2>4, ConcatProperties
    <2>6. k < n
      BY <1>1, <2>1, <2>2, <2>3, <2>5
    <2> QED
      BY <2>1, <2>2, <2>6
  <1>2. ASSUME RingIInv, [RingNext]_ringVars
        PROVE  [(received' # received
                  /\ Len(accepted') - Len(accepted) < received' - received)
                => avail' = RX_BUF_CAP]_ringVars
    BY <1>1, <1>2 DEF RingNext, PopEnter, PopByte, PopStore, PopExit, history
  <1> QED
    BY <1>2, RingInductive, PTL DEF RingSpec, LossOnlyWhenFull

-----------------------------------------------------------------------------
(* The refinement of RxFifo. *)

LEMMA ContentsFacts ==
    ASSUME RingIInv
    PROVE  /\ Held \in 0..RX_BUF_CAP
           /\ Contents \in Seq(Nat)
           /\ Len(Contents) = Held
           /\ \A j \in 1..Held : Contents[j] = data[Plus(tail, j - 1)]
  <1>1. Held \in 0..RX_BUF_CAP /\ tail \in Slots /\ RX_BUF_CAP \in Nat \ {0}
    BY RxRingAssumption DEF RingIInv, RingTypeOK, ReaderInv, Held
  <1>2. \A j \in 1..Held : data[Plus(tail, j - 1)] \in Nat
    <2> SUFFICES ASSUME NEW j \in 1..Held PROVE data[Plus(tail, j - 1)] \in Nat
      OBVIOUS
    <2>1. j - 1 \in 0..RX_BUF_CAP
      BY <1>1
    <2>2. Plus(tail, j - 1) \in Slots
      BY <2>1, <1>1, PlusFacts
    <2> QED
      BY <2>2 DEF RingIInv, RingTypeOK
  <1>3. Contents \in [1..Held -> Nat]
    BY <1>2 DEF Contents
  <1>4. Contents \in Seq(Nat) /\ Len(Contents) = Held
    <2>1. Held \in Nat
      BY <1>1
    <2>2. Contents \in Seq(Nat)
      BY <2>1, <1>3, SeqDef
    <2> QED
      BY <2>1, <2>2, <1>3, LenProperties
  <1> QED
    BY <1>1, <1>4 DEF Contents

(* What the ring holds is the undelivered part of the accepted stream. *)
LEMMA ContentsAreUndelivered ==
    ASSUME RingIInv
    PROVE  \A j \in 1..Held : Contents[j] = accepted[Len(delivered) + j]
  <1> SUFFICES ASSUME NEW j \in 1..Held
               PROVE  Contents[j] = accepted[Len(delivered) + j]
    OBVIOUS
  <1>1. Held \in Nat /\ Len(delivered) \in Nat
    BY ContentsFacts, LenProperties DEF RingIInv, RingTypeOK
  <1>2. j - 1 \in 0..(Held - 1) /\ Len(delivered) + (j - 1) + 1 = Len(delivered) + j
    BY <1>1
  <1>3. data[Plus(tail, j - 1)] = accepted[Len(delivered) + (j - 1) + 1]
    BY <1>2 DEF RingIInv, RingHoldsUndelivered
  <1> QED
    BY <1>2, <1>3, ContentsFacts

LEMMA RefineArrive ==
    ASSUME RingIInv, RingIInv', NEW n \in 1..MaxSegment, on_recv(n)
    PROVE  Fifo!Arrive(n)
  <1> DEFINE k == Stored(n)
  <1>1. /\ Held = avail /\ Held' = avail + k
        /\ accepted' = accepted \o Segment(k)
        /\ received' = received + n
        /\ UNCHANGED delivered
    BY DEF on_recv, rx_push, LockFree, Held, RingIInv, ReaderInv, reader
  <1>2. k = Fifo!Kept(n, RX_BUF_CAP - Len(Contents))
    BY <1>1, ContentsFacts DEF Stored, Lesser, Fifo!Kept
  <1>3. k \in Nat /\ avail \in Nat /\ received \in Nat /\ Len(delivered) \in Nat
    BY RxRingAssumption, LenProperties DEF RingIInv, RingTypeOK, Stored, Lesser
  <1> HIDE DEF k
  <1>4. /\ accepted \in Seq(Nat) /\ Len(accepted) = Len(delivered) + avail
        /\ Segment(k) \in Seq(Nat) /\ Len(Segment(k)) = k
    BY <1>1, <1>3, SegmentFacts DEF RingIInv, RingTypeOK, RingHoldsUndelivered
  <1>5. /\ Contents \in Seq(Nat) /\ Len(Contents) = avail
        /\ \A j \in 1..avail : Contents[j] = accepted[Len(delivered) + j]
    BY <1>1, ContentsFacts, ContentsAreUndelivered
  <1>6. /\ Contents' \in Seq(Nat) /\ Len(Contents') = avail + k
        /\ \A j \in 1..(avail + k) : Contents'[j] = accepted'[Len(delivered) + j]
    <2>1. /\ Contents' \in Seq(Nat) /\ Len(Contents') = Held'
          /\ \A j \in 1..Held' : Contents'[j] = accepted'[Len(delivered') + j]
      <3>1. (/\ Contents \in Seq(Nat) /\ Len(Contents) = Held
             /\ \A j \in 1..Held : Contents[j] = accepted[Len(delivered) + j])'
        BY ContentsFacts, ContentsAreUndelivered, PTL
      <3> QED BY <3>1
    <2> QED
      BY <2>1, <1>1, <1>3
  <1>7. /\ Contents \o Segment(k) \in Seq(Nat)
        /\ Len(Contents \o Segment(k)) = avail + k
        /\ \A j \in 1..(avail + k) :
              (Contents \o Segment(k))[j] = IF j <= avail THEN Contents[j]
                                                          ELSE Segment(k)[j - avail]
    <2>1. /\ Contents \o Segment(k) \in Seq(Nat)
          /\ Len(Contents \o Segment(k)) = Len(Contents) + Len(Segment(k))
          /\ \A j \in 1..(Len(Contents) + Len(Segment(k))) :
                (Contents \o Segment(k))[j] = IF j <= Len(Contents)
                                                THEN Contents[j]
                                                ELSE Segment(k)[j - Len(Contents)]
      BY <1>4, <1>5, ConcatProperties
    <2> QED
      BY <2>1, <1>3, <1>4, <1>5
  <1>8. ASSUME NEW j \in 1..(avail + k)
        PROVE  Contents'[j] = (Contents \o Segment(k))[j]
    <2>1. /\ Len(delivered) + j \in 1..(Len(accepted) + k)
          /\ Len(delivered) + j <= Len(accepted) <=> j <= avail
          /\ (Len(delivered) + j) - Len(accepted) = j - avail
      BY <1>3, <1>4
    <2>2. accepted'[Len(delivered) + j] =
             IF j <= avail THEN accepted[Len(delivered) + j] ELSE Segment(k)[j - avail]
      <3>1. accepted' = accepted \o Segment(k)
        BY <1>1
      <3>2. \A i \in 1..(Len(accepted) + Len(Segment(k))) :
               (accepted \o Segment(k))[i] = IF i <= Len(accepted)
                                               THEN accepted[i]
                                               ELSE Segment(k)[i - Len(accepted)]
        BY <1>4, ConcatProperties
      <3>3. Len(delivered) + j \in 1..(Len(accepted) + Len(Segment(k)))
        BY <1>4, <2>1
      <3>4. (accepted \o Segment(k))[Len(delivered) + j] =
               IF Len(delivered) + j <= Len(accepted)
                 THEN accepted[Len(delivered) + j]
                 ELSE Segment(k)[(Len(delivered) + j) - Len(accepted)]
        BY <3>2, <3>3
      <3> QED
        BY <2>1, <3>1, <3>4
    <2>3. j <= avail => j \in 1..avail
      BY <1>3
    <2> QED
      BY <1>5, <1>6, <1>7, <2>2, <2>3
  <1>9. Contents' = Contents \o Segment(k)
    BY <1>6, <1>7, <1>8, SeqEqual, <1>3
  <1> QED
    BY <1>1, <1>2, <1>9 DEF Fifo!Arrive, Segment

LEMMA RefineDeliver ==
    ASSUME RingIInv, RingIInv', PopByte
    PROVE  Fifo!Deliver
  <1>1. /\ Held = avail /\ Held' = avail - 1
        /\ avail \in Nat /\ avail > 0
        /\ delivered' = Append(delivered, data[tail])
        /\ accepted' = accepted
        /\ received' = received
        /\ delivered \in Seq(Nat) /\ Len(delivered) \in Nat
        /\ tail \in Slots
    BY LenProperties DEF PopByte, Held, RingIInv, RingTypeOK, ReaderInv
  <1>2. /\ Contents \in Seq(Nat) /\ Len(Contents) = avail
        /\ \A j \in 1..avail : Contents[j] = accepted[Len(delivered) + j]
        /\ Contents[1] = data[Plus(tail, 0)]
    BY <1>1, ContentsFacts, ContentsAreUndelivered
  <1>3. Contents # <<>> /\ Head(Contents) = data[tail]
    <2>1. Contents # <<>>
      BY <1>1, <1>2, EmptySeq
    <2>2. Plus(tail, 0) = tail
      BY <1>1, RxRingAssumption, PlusFacts
    <2> QED
      BY <1>2, <2>1, <2>2
  <1>4. Len(delivered') = Len(delivered) + 1
    BY <1>1, AppendProperties, RxRingAssumption DEF RingIInv, RingTypeOK
  <1>5. /\ Contents' \in Seq(Nat) /\ Len(Contents') = avail - 1
        /\ \A j \in 1..(avail - 1) : Contents'[j] = accepted[Len(delivered) + 1 + j]
    <2>1. (/\ Contents \in Seq(Nat) /\ Len(Contents) = Held
           /\ \A j \in 1..Held : Contents[j] = accepted[Len(delivered) + j])'
      BY ContentsFacts, ContentsAreUndelivered, PTL
    <2> QED
      BY <2>1, <1>1, <1>4
  <1>6. /\ Tail(Contents) \in Seq(Nat) /\ Len(Tail(Contents)) = avail - 1
        /\ \A j \in 1..(avail - 1) : Tail(Contents)[j] = Contents[j + 1]
    BY <1>1, <1>2, <1>3, HeadTailProperties
  <1>7. \A j \in 1..(avail - 1) : Contents'[j] = Tail(Contents)[j]
    <2> SUFFICES ASSUME NEW j \in 1..(avail - 1)
                 PROVE  Contents'[j] = Tail(Contents)[j]
      OBVIOUS
    <2>1. j + 1 \in 1..avail /\ Len(delivered) + (j + 1) = Len(delivered) + 1 + j
      BY <1>1
    <2> QED
      BY <1>2, <1>5, <1>6, <2>1
  <1>8. Contents' = Tail(Contents)
    BY <1>1, <1>5, <1>6, <1>7, SeqEqual
  <1> QED
    BY <1>1, <1>3, <1>8 DEF Fifo!Deliver

(* The other steps of the reader leave the abstract queue alone. *)
LEMMA RefineStutter ==
    ASSUME RingIInv, \/ \E want \in 1..MaxWant : PopEnter(want)
                 \/ PopStore \/ PopExit \/ UNCHANGED ringVars
    PROVE  UNCHANGED Fifo!vars
  <1>1. /\ Held' = Held
        /\ UNCHANGED <<data, tail, received, delivered>>
    <2>1. CASE \E want \in 1..MaxWant : PopEnter(want)
      BY <2>1 DEF PopEnter, ring, history, Held
    <2>2. CASE PopStore
      BY <2>2, RxRingAssumption DEF PopStore, history, Held, RingIInv, ReaderInv, RingTypeOK
    <2>3. CASE PopExit
      BY <2>3 DEF PopExit, ring, history, Held
    <2>4. CASE UNCHANGED ringVars
      BY <2>4 DEF ringVars, ring, history, reader, Held
    <2> QED
      BY <2>1, <2>2, <2>3, <2>4
  <1>2. Contents' = Contents
    BY <1>1 DEF Contents
  <1> QED
    BY <1>1, <1>2 DEF Fifo!vars

(* The ring of tls_transport.c under preemption by on_recv is a bounded
   queue that loses bytes only by overflow. *)
THEOREM Refinement == RingSpec => RefinesFifo
  <1>1. RingInit => Fifo!Init
    <2> SUFFICES ASSUME RingInit PROVE Fifo!Init
      OBVIOUS
    <2>1. Contents = <<>>
      <3>1. RingIInv /\ Held = 0
        BY RingInitInv DEF RingInit, Held
      <3>2. Contents \in Seq(Nat) /\ Len(Contents) = 0
        BY <3>1, ContentsFacts
      <3> QED
        BY <3>2, EmptySeq
    <2> QED
      BY <2>1 DEF RingInit, Fifo!Init
  <1>2. RingIInv /\ RingIInv' /\ [RingNext]_ringVars => [Fifo!Next]_(Fifo!vars)
    BY RefineArrive, RefineDeliver, RefineStutter DEF RingNext, Fifo!Next
  <1> QED
    BY <1>1, <1>2, RingInductive, PTL DEF RingSpec, RefinesFifo, Fifo!Spec

-----------------------------------------------------------------------------
(* The key shims.                                                          *)

Bytes == 0..(Byte - 1)

(* The two parts of a key pair have the sizes of a private and a public key. *)
LEMMA Parts ==
    ASSUME NEW pair \in Seq(Bytes), Len(pair) = PairSize
    PROVE  /\ Private(pair) \in Seq(Bytes) /\ Len(Private(pair)) = PrivSize
           /\ Public(pair) \in Seq(Bytes) /\ Len(Public(pair)) = PubSize
  <1>1. /\ PrivSize \in Nat /\ PubSize \in Nat /\ PairSize = PrivSize + PubSize
        /\ PrivSize > 0 /\ PubSize > 0
    BY SizeAssumption DEF PairSize
  <1>2. /\ SubSeq(pair, 1, PrivSize) \in Seq(Bytes)
        /\ Len(SubSeq(pair, 1, PrivSize)) = PrivSize
    BY <1>1, SubSeqProperties
  <1>3. /\ SubSeq(pair, PrivSize + 1, PairSize) \in Seq(Bytes)
        /\ Len(SubSeq(pair, PrivSize + 1, PairSize)) = PubSize
    BY <1>1, SubSeqProperties
  <1> QED
    BY <1>2, <1>3 DEF Private, Public

(* A sequence of the right length is one of a key's two arrays. *)
LEMMA Sized ==
    /\ \A s \in Seq(Bytes) : Len(s) = PubSize => s \in [1..PubSize -> Bytes]
    /\ \A s \in Seq(Bytes) : Len(s) = PrivSize => s \in [1..PrivSize -> Bytes]
  BY LenProperties

(* A public key is imported exactly if it has the size of one. *)
LEMMA ImportsPublic ==
    ASSUME NEW key \in Key, NEW pub \in Seq(Bytes)
    PROVE  /\ ImportPublic(key, pub).ok \in BOOLEAN
           /\ ImportPublic(key, pub).ok <=> Len(pub) = PubSize
           /\ ImportPublic(key, pub).key \in Key
           /\ ImportPublic(key, pub).ok => ImportPublic(key, pub).key = [key EXCEPT !.pub = pub]
  BY Sized DEF ImportPublic, Key, Bytes

(* A key pair is imported exactly if it has the size of one, and each half
   becomes what it is. *)
LEMMA ImportsPair ==
    ASSUME NEW key \in Key, NEW pair \in Seq(Bytes)
    PROVE  /\ ImportPrivateKeyPair(key, pair).ok <=> Len(pair) = PairSize
           /\ ImportPrivateKeyPair(key, pair).key \in Key
           /\ ImportPrivateKeyPair(key, pair).ok =>
                 ImportPrivateKeyPair(key, pair).key.priv = Private(pair)
  <1>1. CASE Len(pair) # PairSize
    BY <1>1 DEF ImportPrivateKeyPair
  <1>2. CASE Len(pair) = PairSize
    <2>1. /\ ImportPublic(key, Public(pair)).ok
          /\ ImportPublic(key, Public(pair)).key \in Key
      BY <1>2, Parts, ImportsPublic
    <2>2. Private(pair) \in [1..PrivSize -> Bytes]
      BY <1>2, Parts, Sized
    <2>3. [ImportPublic(key, Public(pair)).key EXCEPT !.priv = Private(pair)] \in Key
      BY <2>1, <2>2 DEF Key, Bytes
    <2>4. [ImportPublic(key, Public(pair)).key EXCEPT !.priv = Private(pair)].priv = Private(pair)
      BY <2>1 DEF Key
    <2> QED
      BY <1>2, <2>1, <2>3, <2>4, Parts DEF ImportPrivateKeyPair, ImportPrivateKey
  <1> QED
    BY <1>1, <1>2

(* The key pair a file is accepted with is the last bytes of the file. *)
LEMMA PairOfFile ==
    ASSUME NEW s, NEW f \in Seq(Bytes)
    PROVE  /\ KeyPairOf(s, f) \in Seq(Bytes)
           /\ Len(KeyPairOf(s, f)) = PairSize => KeyPairOf(s, f) = PairIn(f)
  <1>1. PairSize \in Nat /\ PairSize > 0
    BY SizeAssumption DEF PairSize
  <1>2. Len(f) = PairSize => f = PairIn(f)
    <2> SUFFICES ASSUME Len(f) = PairSize PROVE f = SubSeq(f, 1, Len(f))
      BY <1>1 DEF PairIn
    <2> QED
      BY SubSeqProperties, SeqEqual
  <1>3. Unwrap(f) \in Seq(Bytes) /\ (Len(Unwrap(f)) = PairSize => Unwrap(f) = PairIn(f))
    <2>1. CASE Len(f) = PairSize
      BY <1>2, <2>1 DEF Unwrap
    <2>2. CASE Len(f) # PairSize /\ Unwrap(f) = <<>>
      BY <1>1, <2>2
    <2>3. CASE /\ Len(f) # PairSize /\ Unwrap(f) # <<>>
      <3>1. /\ Unwrap(f) = SubSeq(f, ContentStart(f) + 1, ContentStart(f) + ContentLength(f))
            /\ ContentLength(f) = PairSize
            /\ ContentStart(f) + ContentLength(f) = Len(f)
            /\ LengthIsThere(f) /\ Len(f) >= 2
        BY <2>3 DEF Unwrap
      <3>2. ContentStart(f) \in Nat
        <4>1. f[2] \in Nat /\ High \in Nat
          BY <3>1, SizeAssumption, ElementOfSeq DEF Bytes, High
        <4>2. LengthBytes(f) \in Nat
          BY <3>1, <4>1, SizeAssumption DEF LengthIsThere, LengthBytes
        <4> QED
          BY <4>2 DEF ContentStart
      <3>3. Unwrap(f) = SubSeq(f, Len(f) - PairSize + 1, Len(f))
        BY <1>1, <3>1, <3>2
      <3>4. SubSeq(f, ContentStart(f) + 1, ContentStart(f) + ContentLength(f)) \in Seq(Bytes)
        BY <1>1, <3>1, <3>2, SubSeqProperties
      <3> QED
        BY <3>1, <3>3, <3>4 DEF PairIn
    <2> QED
      BY <2>1, <2>2, <2>3
  <1> QED
    BY <1>2, <1>3 DEF KeyPairOf

(* What a file may hold as a length: the loop that reads it computes the number whose bytes    *)
(* are those that shifting PairSize to the right gives one after the other.                    *)
LEMMA Sizes ==
    /\ Byte \in Nat \ {0} /\ PairSize \in Nat \ {0} /\ MaxLenBytes \in Nat /\ Tag \in Nat
    /\ High \in Nat
  BY SizeAssumption DEF PairSize, High

LEMMA BigEndianIs ==
    ASSUME NEW digits \in Seq(Bytes)
    PROVE  \E value \in [0 .. Len(digits) -> Nat] :
              /\ value[0] = 0 /\ BigEndian(digits) = value[Len(digits)]
              /\ \A n \in 1 .. Len(digits) : value[n] = value[n - 1] * Byte + digits[n]
  <1> DEFINE N == Len(digits)
             step == [n \in 1 .. N |-> [x \in Nat |-> x * Byte + digits[n]]]
             Is(f) == f = [n \in 0 .. N |-> IF n = 0 THEN 0 ELSE f[n - 1] * Byte + digits[n]]
  <1>0. N \in Nat /\ \A n \in 1 .. N : digits[n] \in Nat
    BY Sizes DEF Bytes
  <1>1. step \in [1 .. N -> [Nat -> Nat]]
    BY <1>0, Sizes
  <1>2. \A n \in 1 .. N : \A x \in Nat : step[n][x] = x * Byte + digits[n]
    OBVIOUS
  <1> HIDE DEF step, N
  <1>3. PICK f \in [0 .. N -> Nat] : Runs(f, N, 0, step)
    BY <1>0, <1>1, Recursion
  <1>4. \A n \in 1 .. N : f[n] = f[n - 1] * Byte + digits[n]
    BY <1>0, <1>2, <1>3 DEF Runs
  <1>5. Is(f)
    BY <1>0, <1>3, <1>4 DEF Runs
  <1> DEFINE g == CHOOSE h : Is(h)
  <1>6. Is(g)
    <2> HIDE DEF Is
    <2> QED
      BY <1>5
  <1>7. g = f
    <2> DEFINE T == {n \in 0 .. N : g[n] # f[n]}
    <2>1. g = [n \in 0 .. N |-> g[n]] /\ g[0] = 0
          /\ \A n \in 1 .. N : g[n] = g[n - 1] * Byte + digits[n]
      <3> HIDE DEF g
      <3>1. g = [n \in 0 .. N |-> IF n = 0 THEN 0 ELSE g[n - 1] * Byte + digits[n]]
        BY <1>6
      <3>2. DOMAIN g = 0 .. N
        BY <3>1
      <3>3. g[0] = 0
        BY <1>0, <3>1
      <3>4. \A n \in 1 .. N : g[n] = g[n - 1] * Byte + digits[n]
        BY <1>0, <3>1
      <3>5. g = [n \in 0 .. N |-> g[n]]
        BY <3>1
      <3> QED
        BY <3>3, <3>4, <3>5
    <2> HIDE DEF g
    <2>2. SUFFICES ASSUME T # {} PROVE FALSE
      <3>1. T = {} => \A n \in 0 .. N : g[n] = f[n]
        OBVIOUS
      <3> QED
        BY <2>1, <3>1
    <2>3. PICK m \in T : \A n \in T : m <= n
      <3>1. T \in SUBSET Nat
        BY <1>0
      <3> HIDE DEF T
      <3> QED
        BY <2>2, <3>1, Least
    <2>4. m \in 1 .. N /\ m - 1 \in 0 .. N /\ m - 1 \notin T
      BY <1>0, <1>3, <2>1, <2>3 DEF Runs
    <2> QED
      BY <1>4, <2>1, <2>3, <2>4
  <1>8. BigEndian(digits) = g[N]
    BY DEF BigEndian, N
  <1> HIDE DEF g
  <1> QED
    BY <1>3, <1>4, <1>7, <1>8 DEF N, Runs

LEMMA ShiftedIs ==
    /\ Shifted \in [0 .. MaxLenBytes -> Nat] /\ Shifted[0] = PairSize
    /\ \A n \in 1 .. MaxLenBytes : Shifted[n] = Shifted[n - 1] \div Byte
  <1> DEFINE N == MaxLenBytes
             step == [n \in 1 .. N |-> [x \in Nat |-> x \div Byte]]
             Is(f) == f = [n \in 0 .. N |-> IF n = 0 THEN PairSize ELSE f[n - 1] \div Byte]
  <1>1. step \in [1 .. N -> [Nat -> Nat]] /\ N \in Nat
    BY Sizes
  <1>2. \A n \in 1 .. N : \A x \in Nat : step[n][x] = x \div Byte
    OBVIOUS
  <1> HIDE DEF step, N
  <1>3. PICK f \in [0 .. N -> Nat] : Runs(f, N, PairSize, step)
    BY <1>1, Sizes, Recursion
  <1>4. ASSUME NEW n \in 1 .. N PROVE f[n] = f[n - 1] \div Byte
    <2>1. f[n] = step[n][f[n - 1]] /\ n - 1 \in 0 .. N
      <3>1. f[n] = step[n][f[n - 1]]
        BY <1>3, Zenon DEF Runs
      <3>2. n - 1 \in 0 .. N
        BY <1>1
      <3> QED
        BY <3>1, <3>2
    <2> QED
      BY <1>2, <1>3, <2>1
  <1>0. f[0] = PairSize
    BY <1>3 DEF Runs
  <1>5. Is(f)
    BY <1>0, <1>1, <1>3, <1>4
  <1>6. Is(Shifted)
    <2>1. Shifted = CHOOSE h : Is(h)
      BY DEF Shifted, N
    <2> HIDE DEF Is
    <2> QED
      BY <1>5, <2>1
  <1>7. Shifted = f
    <2> DEFINE T == {n \in 0 .. N : Shifted[n] # f[n]}
    <2>1. Shifted = [n \in 0 .. N |-> Shifted[n]] /\ Shifted[0] = PairSize
          /\ \A n \in 1 .. N : Shifted[n] = Shifted[n - 1] \div Byte
      <3>1. Shifted = [n \in 0 .. N |-> IF n = 0 THEN PairSize ELSE Shifted[n - 1] \div Byte]
        BY <1>6
      <3>3. Shifted[0] = PairSize
        BY <1>1, <3>1
      <3>4. ASSUME NEW n \in 1 .. N PROVE Shifted[n] = Shifted[n - 1] \div Byte
        <4>1. n \in 0 .. N /\ n # 0
          BY <1>1
        <4> QED
          BY <3>1, <4>1, Zenon
      <3>5. Shifted = [n \in 0 .. N |-> Shifted[n]]
        BY <3>1
      <3> QED
        BY <3>3, <3>4, <3>5
    <2>2. SUFFICES ASSUME T # {} PROVE FALSE
      <3>1. T = {} => \A n \in 0 .. N : Shifted[n] = f[n]
        OBVIOUS
      <3> QED
        BY <2>1, <3>1
    <2>3. PICK m \in T : \A n \in T : m <= n
      <3>1. T \in SUBSET Nat
        BY <1>1
      <3> HIDE DEF T
      <3> QED
        BY <2>2, <3>1, Least
    <2>4. m \in 1 .. N /\ m - 1 \in 0 .. N /\ m - 1 \notin T
      <3>1. Shifted[0] = f[0]
        BY <1>0, <2>1
      <3>2. m \in 0 .. N /\ Shifted[m] # f[m]
        BY <2>3
      <3>3. m # 0
        BY <3>1, <3>2
      <3>4. m \in 1 .. N /\ m - 1 \in 0 .. N /\ ~(m <= m - 1)
        BY <1>1, <3>2, <3>3
      <3> HIDE DEF T
      <3> QED
        BY <2>3, <3>4
    <2>5. Shifted[m - 1] = f[m - 1]
      BY <2>4
    <2> QED
      BY <1>4, <2>1, <2>3, <2>4, <2>5
  <1> QED
    BY <1>0, <1>3, <1>4, <1>7 DEF N

(* A length of n bytes is PairSize exactly if the bytes are those of PairSize. *)
LEMMA LengthDecoded ==
    ASSUME NEW n \in 1 .. MaxLenBytes, NEW digits \in Seq(Bytes), Len(digits) = n
    PROVE  BigEndian(digits) = PairSize <=>
              Shifted[n] = 0 /\ \A i \in 1 .. n : digits[i] = Shifted[n - i] % Byte
  <1>1. PICK value \in [0 .. n -> Nat] :
              /\ value[0] = 0 /\ BigEndian(digits) = value[n]
              /\ \A k \in 1 .. n : value[k] = value[k - 1] * Byte + digits[k]
    BY BigEndianIs
  <1>2. /\ Shifted \in [0 .. MaxLenBytes -> Nat] /\ Shifted[0] = PairSize
        /\ \A k \in 1 .. MaxLenBytes : Shifted[k] = Shifted[k - 1] \div Byte
    BY ShiftedIs
  <1>4. Byte \in Nat \ {0} /\ n \in Nat /\ MaxLenBytes \in Nat /\ n <= MaxLenBytes
    BY Sizes
  <1>3. \A k \in 1 .. n : digits[k] \in 0 .. Byte - 1
    BY <1>4 DEF Bytes
  <1>5. ASSUME Shifted[n] = 0, \A i \in 1 .. n : digits[i] = Shifted[n - i] % Byte
        PROVE  BigEndian(digits) = PairSize
    <2> DEFINE T == {i \in 0 .. n : value[i] # Shifted[n - i]}
    <2>1. T = {} => value[n] = Shifted[n - n]
      BY <1>4
    <2>2. SUFFICES ASSUME T # {} PROVE FALSE
      BY <1>1, <1>2, <1>4, <2>1
    <2>3. PICK m \in T : \A i \in T : m <= i
      <3>1. T \in SUBSET Nat
        BY <1>4
      <3> HIDE DEF T
      <3> QED
        BY <2>2, <3>1, Least
    <2>4. m # 0
      BY <1>1, <1>4, <1>5
    <2>5. m \in 1 .. n /\ m - 1 \in 0 .. n /\ m - 1 \notin T /\ n - m \in 0 .. MaxLenBytes
      BY <1>4, <2>3, <2>4
    <2>6. value[m - 1] = Shifted[n - m] \div Byte
      <3>1. n - m + 1 \in 1 .. MaxLenBytes /\ n - (m - 1) = n - m + 1 /\ (n - m + 1) - 1 = n - m
        BY <1>4, <2>5
      <3>2. Shifted[n - m + 1] = Shifted[n - m] \div Byte
        BY <1>2, <3>1
      <3> QED
        BY <2>5, <3>1, <3>2
    <2>7. value[m] = (Shifted[n - m] \div Byte) * Byte + (Shifted[n - m] % Byte)
      BY <1>1, <1>5, <2>5, <2>6
    <2>8. value[m] = Shifted[n - m]
      <3>1. Shifted[n - m] \in Nat
        BY <1>2, <2>5
      <3> QED
        BY <1>4, <2>7, <3>1, Divided
    <2> QED
      BY <2>3, <2>8
  <1>6. ASSUME BigEndian(digits) = PairSize
        PROVE  Shifted[n] = 0 /\ \A i \in 1 .. n : digits[i] = Shifted[n - i] % Byte
    <2> DEFINE T == {j \in 0 .. n : value[n - j] # Shifted[j]}
    <2>1. T = {}
      <3> SUFFICES ASSUME T # {} PROVE FALSE
        OBVIOUS
      <3>3. PICK m \in T : \A j \in T : m <= j
        <4>1. T \in SUBSET Nat
          BY <1>4
        <4> HIDE DEF T
        <4> QED
          BY <4>1, Least
      <3>4. m # 0
        <4>1. Shifted[0] = value[n - 0]
          <5>1. n - 0 = n
            BY <1>4
          <5> QED
            BY <1>1, <1>2, <1>6, <5>1
        <4> QED
          BY <3>3, <4>1
      <3>5. m \in 1 .. n /\ m - 1 \in 0 .. n /\ m - 1 \notin T /\ m \in 1 .. MaxLenBytes
        BY <1>4, <3>3, <3>4
      <3>6. /\ n - m + 1 \in 1 .. n /\ n - (m - 1) = n - m + 1 /\ (n - m + 1) - 1 = n - m
            /\ n - m \in 0 .. n
        BY <1>4, <3>5
      <3>7. Shifted[m - 1] = value[n - m] * Byte + digits[n - m + 1]
        BY <1>1, <3>5, <3>6
      <3>8. value[n - m] \in Nat /\ digits[n - m + 1] \in 0 .. Byte - 1
        BY <1>1, <1>3, <3>6
      <3>9. Shifted[m] = value[n - m]
        <4>1. (value[n - m] * Byte + digits[n - m + 1]) \div Byte = value[n - m]
          BY <1>4, <3>8, Division
        <4> QED
          BY <1>2, <3>5, <3>7, <4>1
      <3> QED
        BY <3>3, <3>9
    <2>2. \A j \in 0 .. n : value[n - j] = Shifted[j]
      BY <2>1
    <2>3. Shifted[n] = 0
      BY <1>1, <1>4, <2>2
    <2>4. ASSUME NEW i \in 1 .. n PROVE digits[i] = Shifted[n - i] % Byte
      <3>1. n - i \in 0 .. n /\ n - (n - i) = i /\ i - 1 \in 0 .. n
        BY <1>4
      <3>2. Shifted[n - i] = value[i]
        BY <2>2, <3>1
      <3>3. value[i] = value[i - 1] * Byte + digits[i] /\ value[i - 1] \in Nat
        BY <1>1, <3>1
      <3> QED
        <4>1. (value[i - 1] * Byte + digits[i]) % Byte = digits[i]
          BY <1>3, <1>4, <3>3, Division
        <4> QED
          BY <3>2, <3>3, <4>1
    <2> QED
      BY <2>3, <2>4
  <1> QED
    BY <1>5, <1>6

(* The OCTET STRING is unwrapped exactly if it is one that holds a key pair and nothing else. *)
Wraps(f) == /\ Len(f) >= 2 /\ f[1] = Tag /\ LengthIsThere(f)
            /\ ContentLength(f) = PairSize
            /\ ContentStart(f) + ContentLength(f) = Len(f)

LEMMA UnwrapIs ==
    ASSUME NEW f \in Seq(Bytes), Len(f) # PairSize
    PROVE  Len(Unwrap(f)) = PairSize <=> Wraps(f)
  <1>1. CASE Wraps(f)
    <2>1. f[2] \in Nat /\ High \in Nat /\ PairSize \in Nat \ {0}
      BY <1>1, Sizes, ElementOfSeq DEF Wraps, Bytes
    <2>2. LengthBytes(f) \in Nat
      BY <1>1, <2>1, Sizes DEF Wraps, LengthIsThere, LengthBytes
    <2>3. ContentStart(f) \in Nat
      BY <2>2 DEF ContentStart
    <2>4. Unwrap(f) = SubSeq(f, ContentStart(f) + 1, ContentStart(f) + PairSize)
      BY <1>1 DEF Unwrap, Wraps
    <2>5. ContentStart(f) + PairSize = Len(f)
      BY <1>1 DEF Wraps
    <2>6. Len(SubSeq(f, ContentStart(f) + 1, ContentStart(f) + PairSize)) = PairSize
      BY <2>1, <2>3, <2>5, SubSeqProperties
    <2> QED
      BY <1>1, <2>4, <2>6
  <1>2. CASE ~Wraps(f)
    <2>1. Unwrap(f) = <<>>
      BY <1>2 DEF Unwrap, Wraps
    <2> QED
      BY <1>2, <2>1, Sizes
  <1> QED
    BY <1>1, <1>2

\* The file with a length of n bytes.
LongField(n) == <<High + n>> \o [i \in 1 .. n |-> Shifted[n - i] % Byte]

LEMMA FieldIs ==
    ASSUME NEW n \in 1 .. MaxLenBytes
    PROVE  /\ LongField(n) \in Seq(Nat) /\ Len(LongField(n)) = n + 1 /\ LongField(n)[1] = High + n
           /\ \A i \in 1 .. n : LongField(n)[i + 1] = Shifted[n - i] % Byte
  <1>0. n \in Nat /\ High \in Nat /\ High + n \in Nat
    BY Sizes
  <1> DEFINE rest == [i \in 1 .. n |-> Shifted[n - i] % Byte]
  <1>1. \A i \in 1 .. n : Shifted[n - i] % Byte \in Nat
    <2>1. \A i \in 1 .. n : n - i \in 0 .. MaxLenBytes
      BY <1>0, Sizes
    <2>2. ASSUME NEW i \in 1 .. n PROVE Shifted[n - i] % Byte \in Nat
      <3>1. Shifted[n - i] \in Nat
        BY <2>1, ShiftedIs
      <3>2. Shifted[n - i] % Byte \in 0 .. Byte - 1
        BY <3>1, Sizes, Divided
      <3> QED
        BY <3>2, Sizes
    <2> QED
      BY <2>2
  <1>2. rest \in Seq(Nat) /\ Len(rest) = n
    <2>1. rest \in [1 .. n -> Nat]
      BY <1>1
    <2> HIDE DEF rest
    <2> QED
      BY <1>0, <2>1
  <1>3. \A i \in 1 .. n : rest[i] = Shifted[n - i] % Byte
    OBVIOUS
  <1> HIDE DEF rest
  <1>4. LongField(n) = <<High + n>> \o rest
    BY DEF LongField, rest
  <1>5. /\ <<High + n>> \o rest \in Seq(Nat) /\ Len(<<High + n>> \o rest) = n + 1
        /\ (<<High + n>> \o rest)[1] = High + n
        /\ \A i \in 1 .. n : (<<High + n>> \o rest)[i + 1] = rest[i]
    BY <1>0, <1>2
  <1> QED
    BY <1>3, <1>4, <1>5

(* A file that is a tag, a field and a pair, read from its parts. *)
LEMMA FileParts ==
    ASSUME NEW f \in Seq(Bytes), NEW field \in Seq(Nat), Len(field) \in Nat \ {0},
           Len(f) >= PairSize
    PROVE  f = <<Tag>> \o field \o PairIn(f) <=>
              /\ Len(f) = 1 + Len(field) + PairSize /\ f[1] = Tag
              /\ \A i \in 1 .. Len(field) : f[i + 1] = field[i]
  <1> DEFINE pair == PairIn(f)
             l == Len(field)
             whole == <<Tag>> \o field \o pair
  <1>1. PairSize \in Nat \ {0} /\ Tag \in Nat /\ Bytes \subseteq Nat
    BY Sizes DEF Bytes
  <1>2. /\ pair \in Seq(Bytes) /\ Len(pair) = PairSize
        /\ \A k \in 1 .. PairSize : pair[k] = f[Len(f) - PairSize + k]
    <2>1. Len(f) - PairSize + 1 \in 1 .. Len(f) + 1
      BY <1>1
    <2>2. /\ SubSeq(f, Len(f) - PairSize + 1, Len(f)) \in Seq(Bytes)
          /\ Len(SubSeq(f, Len(f) - PairSize + 1, Len(f))) = PairSize
          /\ \A k \in 1 .. PairSize :
                SubSeq(f, Len(f) - PairSize + 1, Len(f))[k] = f[(Len(f) - PairSize + 1) + k - 1]
      BY <1>1, <2>1, SubSeqProperties
    <2>3. \A k \in 1 .. PairSize : (Len(f) - PairSize + 1) + k - 1 = Len(f) - PairSize + k
      BY <1>1
    <2> QED
      BY <2>2, <2>3 DEF PairIn
  <1> HIDE DEF pair
  <1>3. pair \in Seq(Nat) /\ f \in Seq(Nat)
    <2>1. ASSUME NEW r \in Seq(Bytes) PROVE r \in Seq(Nat)
      <3>1. r \in [1 .. Len(r) -> Bytes] /\ Len(r) \in Nat
        BY LenProperties
      <3>2. r \in [1 .. Len(r) -> Nat]
        BY <1>1, <3>1
      <3> QED
        BY <3>1, <3>2, SeqDef
    <2> QED
      BY <1>2, <2>1
  <1>4. /\ whole \in Seq(Nat) /\ Len(whole) = 1 + l + PairSize /\ whole[1] = Tag
        /\ \A i \in 1 .. l : whole[i + 1] = field[i]
        /\ \A k \in 1 .. PairSize : whole[1 + l + k] = pair[k]
    <2> DEFINE front == <<Tag>> \o field
    <2>1. /\ front \in Seq(Nat) /\ Len(front) = 1 + l /\ front[1] = Tag
          /\ \A i \in 1 .. l : front[i + 1] = field[i]
      BY <1>1
    <2>2. whole = front \o pair
      OBVIOUS
    <2> HIDE DEF front
    <2>3. /\ front \o pair \in Seq(Nat) /\ Len(front \o pair) = 1 + l + PairSize
          /\ \A i \in 1 .. 1 + l : (front \o pair)[i] = front[i]
          /\ \A k \in 1 .. PairSize : (front \o pair)[1 + l + k] = pair[k]
      <3>1. \A k \in 1 .. PairSize : 1 + l + k \in 1 .. 1 + l + PairSize
                                     /\ 1 + l + k > 1 + l /\ (1 + l + k) - (1 + l) = k
        BY <1>1
      <3>2. /\ front \o pair \in Seq(Nat) /\ Len(front \o pair) = Len(front) + Len(pair)
            /\ \A i \in 1 .. Len(front) + Len(pair) :
                  (front \o pair)[i] = IF i <= Len(front) THEN front[i] ELSE pair[i - Len(front)]
        <4>1. front \in Seq(Nat) /\ pair \in Seq(Nat)
          BY <1>3, <2>1
        <4> QED
          BY <4>1, ConcatProperties, Zenon
      <3>3. Len(front) = 1 + l /\ Len(pair) = PairSize
        BY <1>2, <2>1
      <3>4. \A i \in 1 .. 1 + l : (front \o pair)[i] = front[i]
        BY <1>1, <3>2, <3>3
      <3>5. \A k \in 1 .. PairSize : (front \o pair)[1 + l + k] = pair[k]
        BY <3>1, <3>2, <3>3
      <3> QED
        BY <3>2, <3>3, <3>4, <3>5
    <2>4. \A i \in 1 .. l : i + 1 \in 1 .. 1 + l
      OBVIOUS
    <2>5. 1 \in 1 .. 1 + l
      OBVIOUS
    <2> QED
      BY <2>1, <2>2, <2>3, <2>4, <2>5
  <1>5. ASSUME f = whole
        PROVE  /\ Len(f) = 1 + l + PairSize /\ f[1] = Tag
               /\ \A i \in 1 .. l : f[i + 1] = field[i]
    BY <1>4, <1>5
  <1>6. ASSUME Len(f) = 1 + l + PairSize, f[1] = Tag, \A i \in 1 .. l : f[i + 1] = field[i]
        PROVE  f = whole
    <2>1. ASSUME NEW k \in 1 .. Len(f) PROVE f[k] = whole[k]
      <3>1. CASE k = 1
        BY <1>4, <1>6, <3>1
      <3>2. CASE k \in 2 .. 1 + l
        <4>1. k - 1 \in 1 .. l /\ (k - 1) + 1 = k
          BY <3>2
        <4>2. f[(k - 1) + 1] = field[k - 1] /\ whole[(k - 1) + 1] = field[k - 1]
          BY <1>4, <1>6, <4>1
        <4> QED
          BY <4>1, <4>2
      <3>3. CASE k > 1 + l
        <4> DEFINE j == k - (1 + l)
        <4>1. j \in 1 .. PairSize /\ k = 1 + l + j /\ Len(f) - PairSize + j = k
          BY <1>1, <1>6, <3>3
        <4> HIDE DEF j
        <4>2. whole[k] = pair[j] /\ pair[j] = f[k]
          BY <1>2, <1>4, <4>1
        <4> QED
          BY <4>2
      <3>4. k = 1 \/ k \in 2 .. 1 + l \/ k > 1 + l
        OBVIOUS
      <3> QED
        BY <3>1, <3>2, <3>3, <3>4
    <2> HIDE DEF whole
    <2> QED
      BY <1>3, <1>4, <1>6, <2>1, SeqEqual
  <1> QED
    BY <1>5, <1>6 DEF pair

LEMMA WrapsIs ==
    ASSUME NEW f \in Seq(Bytes), Len(f) >= PairSize
    PROVE  Wraps(f) <=> \E field \in LengthFields : f = <<Tag>> \o field \o PairIn(f)
  <1>0. /\ PairSize \in Nat \ {0} /\ High \in Nat /\ MaxLenBytes \in Nat /\ Tag \in Nat
        /\ Len(f) >= 2 => f[2] \in Nat
    BY Sizes, ElementOfSeq DEF Bytes
  <1>1. LengthFields = (IF PairSize < High THEN {<<PairSize>>} ELSE {})
                        \cup {LongField(n) : n \in {k \in 1 .. MaxLenBytes : Shifted[k] = 0}}
    BY DEF LengthFields, LongField
  <1>2. ASSUME NEW n \in 1 .. MaxLenBytes, Len(f) = 2 + n + PairSize
        PROVE  BigEndian(SubSeq(f, 3, 2 + n)) = PairSize
                 <=> Shifted[n] = 0 /\ \A i \in 1 .. n : f[i + 2] = Shifted[n - i] % Byte
    <2> DEFINE digits == SubSeq(f, 3, 2 + n)
    <2>0. n \in Nat /\ 3 \in 1 .. Len(f) + 1 /\ 2 + n \in 2 .. Len(f)
      BY <1>0, <1>2
    <2>1. digits \in Seq(Bytes) /\ Len(digits) = n /\ \A i \in 1 .. n : digits[i] = f[i + 2]
      <3>1. /\ digits \in Seq(Bytes) /\ Len(digits) = n
            /\ \A i \in 1 .. n : digits[i] = f[3 + i - 1]
        BY <2>0, SubSeqProperties
      <3>2. \A i \in 1 .. n : 3 + i - 1 = i + 2
        OBVIOUS
      <3> QED
        BY <3>1, <3>2
    <2> HIDE DEF digits
    <2>2. BigEndian(digits) = PairSize <=>
              Shifted[n] = 0 /\ \A i \in 1 .. n : digits[i] = Shifted[n - i] % Byte
      BY <2>1, LengthDecoded
    <2> QED
      BY <2>1, <2>2 DEF digits
  <1>3. ASSUME NEW n \in 1 .. MaxLenBytes
        PROVE  f = <<Tag>> \o LongField(n) \o PairIn(f) <=>
                  /\ Len(f) = 2 + n + PairSize /\ f[1] = Tag /\ f[2] = High + n
                  /\ \A i \in 1 .. n : f[i + 2] = Shifted[n - i] % Byte
    <2>0. /\ LongField(n) \in Seq(Nat) /\ Len(LongField(n)) = n + 1 /\ LongField(n)[1] = High + n
          /\ \A i \in 1 .. n : LongField(n)[i + 1] = Shifted[n - i] % Byte
          /\ n \in Nat /\ n + 1 \in Nat \ {0}
      BY FieldIs
    <2>1. f = <<Tag>> \o LongField(n) \o PairIn(f) <=>
              /\ Len(f) = 1 + (n + 1) + PairSize /\ f[1] = Tag
              /\ \A i \in 1 .. n + 1 : f[i + 1] = LongField(n)[i]
      BY <2>0, FileParts
    <2>2. 1 + (n + 1) + PairSize = 2 + n + PairSize
      BY <1>0, <2>0
    <2>3. (\A i \in 1 .. n + 1 : f[i + 1] = LongField(n)[i]) <=>
              f[2] = High + n /\ \A i \in 1 .. n : f[i + 2] = Shifted[n - i] % Byte
      <3>1. \A i \in 1 .. n : i + 1 \in 1 .. n + 1 /\ (i + 1) + 1 = i + 2
        BY <2>0
      <3>2. 1 \in 1 .. n + 1 /\ 1 + 1 = 2
        BY <2>0
      <3>3. ASSUME \A i \in 1 .. n + 1 : f[i + 1] = LongField(n)[i]
            PROVE  f[2] = High + n /\ \A i \in 1 .. n : f[i + 2] = Shifted[n - i] % Byte
        BY <2>0, <3>1, <3>2, <3>3
      <3>4. ASSUME f[2] = High + n, \A i \in 1 .. n : f[i + 2] = Shifted[n - i] % Byte,
                   NEW i \in 1 .. n + 1
            PROVE  f[i + 1] = LongField(n)[i]
        <4>1. CASE i = 1
          BY <2>0, <3>4, <4>1
        <4>2. CASE i # 1
          <5>1. i - 1 \in 1 .. n /\ (i - 1) + 2 = i + 1 /\ (i - 1) + 1 = i
            BY <2>0, <4>2
          <5>2. f[(i - 1) + 2] = Shifted[n - (i - 1)] % Byte
            BY <3>4, <5>1
          <5>3. LongField(n)[(i - 1) + 1] = Shifted[n - (i - 1)] % Byte
            BY <2>0, <5>1
          <5> QED
            BY <5>1, <5>2, <5>3
        <4> QED
          BY <4>1, <4>2
      <3> QED
        BY <3>3, <3>4
    <2> QED
      BY <2>1, <2>2, <2>3
  <1>4. f = <<Tag>> \o <<PairSize>> \o PairIn(f) <=>
            Len(f) = 2 + PairSize /\ f[1] = Tag /\ f[2] = PairSize
    <2> DEFINE field == <<PairSize>>
    <2>1. field \in Seq(Nat) /\ Len(field) = 1 /\ Len(field) \in Nat \ {0} /\ field[1] = PairSize
      BY <1>0
    <2> HIDE DEF field
    <2>2. f = <<Tag>> \o field \o PairIn(f) <=>
              /\ Len(f) = 1 + Len(field) + PairSize /\ f[1] = Tag
              /\ \A i \in 1 .. Len(field) : f[i + 1] = field[i]
      BY <2>1, FileParts
    <2>3. f = <<Tag>> \o field \o PairIn(f) <=>
            Len(f) = 2 + PairSize /\ f[1] = Tag /\ f[2] = PairSize
      BY <1>0, <2>1, <2>2
    <2> QED
      BY <2>3 DEF field
  <1>5. CASE Len(f) >= 2 /\ f[2] < High
    <2>1. Wraps(f) <=> Len(f) = 2 + PairSize /\ f[1] = Tag /\ f[2] = PairSize
      BY <1>0, <1>5 DEF Wraps, LengthIsThere, ContentLength, ContentStart, LengthBytes
    <2>2. \A n \in 1 .. MaxLenBytes : f[2] # High + n
      BY <1>0, <1>5
    <2>3. (\E field \in LengthFields : f = <<Tag>> \o field \o PairIn(f))
             <=> PairSize < High /\ f = <<Tag>> \o <<PairSize>> \o PairIn(f)
      BY <1>1, <1>3, <2>2
    <2> QED
      BY <1>4, <1>5, <2>1, <2>3
  <1>6. CASE Len(f) >= 2 /\ ~(f[2] < High)
    <2> DEFINE n == LengthBytes(f)
    <2>1. n \in Nat /\ f[2] = High + n /\ f[2] >= High
      BY <1>0, <1>6 DEF LengthBytes
    <2>2. ContentStart(f) = 2 + n /\ ContentLength(f) = BigEndian(SubSeq(f, 3, 2 + n))
      BY <1>6 DEF ContentStart, ContentLength
    <2>3. LengthIsThere(f) <=> n \in 1 .. MaxLenBytes /\ 2 + n <= Len(f)
      BY <2>1 DEF LengthIsThere
    <2> HIDE DEF n
    <2>4. Wraps(f) <=> /\ n \in 1 .. MaxLenBytes /\ Len(f) = 2 + n + PairSize /\ f[1] = Tag
                       /\ BigEndian(SubSeq(f, 3, 2 + n)) = PairSize
      BY <1>0, <1>6, <2>1, <2>2, <2>3 DEF Wraps
    <2>5. Wraps(f) <=> /\ n \in {k \in 1 .. MaxLenBytes : Shifted[k] = 0}
                       /\ f = <<Tag>> \o LongField(n) \o PairIn(f)
      BY <1>2, <1>3, <2>1, <2>4
    <2>6. ~(PairSize < High /\ f = <<Tag>> \o <<PairSize>> \o PairIn(f))
      BY <1>0, <1>4, <1>6
    <2>7. \A k \in 1 .. MaxLenBytes : f[2] = High + k => k = n
      BY <1>0, <2>1
    <2> QED
      BY <1>1, <1>3, <2>5, <2>6, <2>7
  <1>7. CASE ~(Len(f) >= 2)
    <2>1. ~Wraps(f)
      BY <1>7 DEF Wraps
    <2>2. Len(f) # 2 + PairSize /\ \A n \in 1 .. MaxLenBytes : Len(f) # 2 + n + PairSize
      BY <1>0, <1>7
    <2> QED
      BY <1>1, <1>3, <1>4, <2>1, <2>2
  <1> QED
    BY <1>5, <1>6, <1>7

(* A scheme gets a key pair out of a file exactly if the file holds one and nothing else. *)
LEMMA FileHolds ==
    ASSUME NEW s, NEW f \in Seq(Bytes)
    PROVE  Len(KeyPairOf(s, f)) = PairSize <=> Len(f) >= PairSize /\ Holds(s, f, PairIn(f))
  <1>0. PairSize \in Nat \ {0} /\ Len(f) \in Nat
    BY Sizes
  <1>1. Len(f) >= PairSize => Len(PairIn(f)) = PairSize
    <2> SUFFICES ASSUME Len(f) >= PairSize PROVE Len(PairIn(f)) = PairSize
      OBVIOUS
    <2>1. Len(f) - PairSize + 1 \in 1 .. Len(f) + 1
      BY <1>0
    <2> QED
      BY <1>0, <2>1, SubSeqProperties DEF PairIn
  <1>2. CASE Len(f) = PairSize
    <2>1. KeyPairOf(s, f) = f
      BY <1>2 DEF KeyPairOf, Unwrap
    <2>2. f = PairIn(f)
      BY <1>2, <2>1, PairOfFile
    <2> QED
      BY <1>0, <1>1, <1>2, <2>1, <2>2 DEF Holds
  <1>3. CASE Len(f) # PairSize
    <2>1. f = PairIn(f) => ~(Len(f) >= PairSize)
      BY <1>1, <1>3
    <2>2. CASE s = "hawk512"
      BY <1>3, <2>1, <2>2 DEF KeyPairOf, Holds
    <2>3. CASE s # "hawk512"
      <3>1. Len(KeyPairOf(s, f)) = PairSize <=> Wraps(f)
        BY <1>3, <2>3, UnwrapIs DEF KeyPairOf
      <3>2. Wraps(f) => Len(f) >= PairSize
        <4> SUFFICES ASSUME Wraps(f) PROVE Len(f) >= PairSize
          OBVIOUS
        <4>1. f[2] \in Nat
          <5>1. 2 \in 1 .. Len(f)
            BY <1>0 DEF Wraps
          <5> QED
            BY <5>1, ElementOfSeq, Sizes DEF Bytes
        <4>2. ContentStart(f) \in Nat
          BY <4>1, Sizes DEF Wraps, LengthIsThere, ContentStart, LengthBytes
        <4> QED
          BY <1>0, <4>2 DEF Wraps
      <3>3. Len(f) >= PairSize =>
              (Wraps(f) <=> \E field \in LengthFields : f = <<Tag>> \o field \o PairIn(f))
        BY WrapsIs
      <3> QED
        BY <1>1, <2>1, <2>3, <3>1, <3>2, <3>3 DEF Holds
    <2> QED
      BY <2>2, <2>3
  <1> QED
    BY <1>2, <1>3
-----------------------------------------------------------------------------
(* What the two calls of a scheme can be relied on for: nothing is left of
   them, a verdict is that of the library, and a signature is made with the
   key of the object. *)
LEMMA VerifyTells ==
    ASSUME scheme \in Schemes
    PROVE  \A key, sig, msg : \A v \in Verify(key, sig, msg) :
              v.kept = {} /\ (v.ret = "ok" /\ v.good => Accepts(key.pub, sig, msg))
  <1> SUFFICES ASSUME NEW key, NEW sig, NEW msg, NEW v \in Verify(key, sig, msg)
               PROVE  v.kept = {} /\ (v.ret = "ok" /\ v.good => Accepts(key.pub, sig, msg))
    OBVIOUS
  <1> USE DEF Refusal, Verdict
  <1>1. CASE scheme = "hawk512"
    BY <1>1 DEF Verify, VerifyHawk512
  <1>2. CASE scheme = "mayo1"
    BY <1>2 DEF Verify, VerifyMayo1
  <1>3. CASE scheme = "snova2454"
    BY <1>3 DEF Verify, VerifySnova2454, FreedBuffers
  <1> QED
    BY <1>1, <1>2, <1>3, SchemeAssumption

LEMMA SignTells ==
    ASSUME scheme \in Schemes
    PROVE  \A key, msg : \A v \in Sign(key, msg) :
              /\ v.kept = {}
              /\ \/ v.sig \in {None, Made(key.priv, msg)}
                 \/ scheme = "snova2454" /\ v.sig = Unwritten
  <1> SUFFICES ASSUME NEW key, NEW msg, NEW v \in Sign(key, msg)
               PROVE  /\ v.kept = {}
              /\ \/ v.sig \in {None, Made(key.priv, msg)}
                 \/ scheme = "snova2454" /\ v.sig = Unwritten
    OBVIOUS
  <1> USE DEF Refusal, Signed
  <1>1. CASE scheme = "hawk512"
    BY <1>1 DEF Sign, SignHawk512
  <1>2. CASE scheme = "mayo1"
    BY <1>2 DEF Sign, SignMayo1
  <1>3. CASE scheme = "snova2454"
    BY <1>3 DEF Sign, SignSnova2454
  <1> QED
    BY <1>1, <1>2, <1>3, SchemeAssumption
-----------------------------------------------------------------------------
Confirmed == Accepts(Public(Ca), leaf.sig, leaf.pub)

(* Every key object on the heap is one that the connection still has. *)
HeapInv == /\ "peer" \in heap <=> peer # None
           /\ "hs" \in heap <=> hs # None
           /\ heap \subseteq {"peer", "hs"}

(* What is known at each step of the connection. *)
StepInv ==
    /\ pc = "load" => leaf = None
    /\ pc \in {"load", "certificate", "closed"} => peer = None /\ hs = None
    /\ pc \in {"load", "certificate", "verify"} => ~auth /\ sent = None
    /\ pc \in {"certificate", "verify", "sign", "open"} =>
          Len(KeyPairOf(scheme, file)) = PairSize
    /\ pc = "certificate" /\ leaf # None => Confirmed
    /\ pc = "verify" => Confirmed /\ peer.pub = leaf.pub /\ hs = None
    /\ pc = "sign" => auth /\ sent = None /\ (hs # None => hs.priv = Private(PairIn(file)))

IInv == /\ TypeOK /\ HeapInv /\ StepInv
        /\ PeerAuthenticated /\ OwnSignature

LEMMA InitInv == Init => IInv
  BY DEF Init, IInv, TypeOK, HeapInv, StepInv, PeerAuthenticated, OwnSignature

(* Facts about the inputs that every step needs. *)
LEMMA Inputs ==
    /\ Fresh \in Key
    /\ Public(Ca) \in Seq(Bytes) /\ Ca \in Seq(Bytes) /\ Len(Public(Ca)) = PubSize
    /\ KeyFiles \cup {<<>>} \subseteq Seq(Bytes)
    /\ \A certificate \in Certificate : certificate.pub \in Seq(Bytes)
  <1>1. PairSize \in Nat
    BY SizeAssumption DEF PairSize
  <1>2. Ca \in Seq(Bytes) /\ Len(Ca) = PairSize
    BY InputAssumption DEF Bytes
  <1>3. Fresh \in Key
    BY DEF Fresh, Key
  <1> QED
    BY <1>2, <1>3, Parts, EmptySeq, InputAssumption DEF Certificate, Bytes

LEMMA NextInv == ASSUME IInv, [Next]_vars PROVE IInv'
  <1> USE DEF IInv
  <1>1. CASE LoadKey
    <2> USE <1>1 DEF LoadKey
    <2>1. file' \in Seq(Bytes)
      BY Inputs
    <2>2. pc' = "certificate" <=> Len(KeyPairOf(scheme, file')) = PairSize
      BY <2>1, PairOfFile, ImportsPair, Inputs
    <2>4. TypeOK'
      BY Inputs DEF TypeOK
    <2>5. HeapInv' /\ StepInv'
      BY <2>2 DEF HeapInv, StepInv, Confirmed, TypeOK
    <2> QED
      BY <2>4, <2>5 DEF PeerAuthenticated, OwnSignature, StepInv
  <1>2. CASE ConfirmSignature
    <2> USE <1>2 DEF ConfirmSignature
    <2>1. /\ ImportPublic(Fresh, Public(Ca)).key = [Fresh EXCEPT !.pub = Public(Ca)]
          /\ [Fresh EXCEPT !.pub = Public(Ca)].pub = Public(Ca)
      BY Inputs, ImportsPublic DEF Fresh
    <2>2. /\ heap' = heap
          /\ pc' \in {"certificate", "failed"}
          /\ pc' = "certificate" => Accepts(Public(Ca), leaf'.sig, leaf'.pub)
      <3>1. CASE pc' = "failed" /\ UNCHANGED heap
        BY <3>1 DEF HeapInv
      <3>2. CASE \E v \in Verify([Fresh EXCEPT !.pub = Public(Ca)], leaf'.sig, leaf'.pub) :
                    /\ pc' = IF v.ret = "ok" /\ v.good THEN "certificate" ELSE "failed"
                    /\ heap' = heap \cup v.kept
        <4>1. PICK v \in Verify([Fresh EXCEPT !.pub = Public(Ca)], leaf'.sig, leaf'.pub) :
                    /\ pc' = IF v.ret = "ok" /\ v.good THEN "certificate" ELSE "failed"
                    /\ heap' = heap \cup v.kept
          BY <3>2
        <4>2. scheme \in Schemes
          BY DEF TypeOK
        <4>3. /\ v.kept = {}
              /\ v.ret = "ok" /\ v.good =>
                    Accepts([Fresh EXCEPT !.pub = Public(Ca)].pub, leaf'.sig, leaf'.pub)
          <5> HIDE <1>2 DEF ConfirmSignature, IInv
          <5> QED
            BY <4>1, <4>2, VerifyTells
        <4>4. /\ v.kept = {}
              /\ v.ret = "ok" /\ v.good => Accepts(Public(Ca), leaf'.sig, leaf'.pub)
          BY <2>1, <4>3
        <4> QED
          BY <4>1, <4>4 DEF HeapInv
      <3> QED
        BY <2>1, <3>1, <3>2
    <2>3. TypeOK'
      BY <2>2, Inputs DEF TypeOK, HeapInv
    <2>4. HeapInv' /\ StepInv'
      BY <2>2 DEF HeapInv, StepInv, Confirmed
    <2> QED
      BY <2>3, <2>4 DEF PeerAuthenticated, OwnSignature, StepInv
  <1>3. CASE ProcessPeerCerts
    <2> USE <1>3 DEF ProcessPeerCerts
    <2>1. leaf \in Certificate /\ leaf.pub \in Seq(Bytes)
      BY Inputs DEF TypeOK
    <2>2. /\ ImportPublic(Fresh, leaf.pub).key \in Key
          /\ ImportPublic(Fresh, leaf.pub).ok \in BOOLEAN
          /\ ImportPublic(Fresh, leaf.pub).ok =>
                ImportPublic(Fresh, leaf.pub).key = [Fresh EXCEPT !.pub = leaf.pub]
      BY <2>1, Inputs, ImportsPublic
    <2>3. TypeOK'
      BY <2>2, Inputs DEF TypeOK, HeapInv
    <2>4. HeapInv'
      BY <2>2, NoneAssumption DEF HeapInv, StepInv
    <2>5. StepInv'
      BY <2>2, NoneAssumption DEF StepInv, Confirmed, Fresh
    <2> QED
      BY <2>3, <2>4, <2>5 DEF PeerAuthenticated, OwnSignature, StepInv
  <1>4. CASE DoCertificateVerify
    <2> USE <1>4 DEF DoCertificateVerify
    <2>1. PICK v \in Verify(peer, proof', Transcript) :
              \/ /\ v.ret = "ok" /\ v.good
                 /\ auth' = TRUE
                 /\ peer' = None /\ present' = FALSE
                 /\ heap' = (heap \cup v.kept) \ {"peer"}
                 /\ pc' = "sign"
              \/ /\ heap' = heap \cup v.kept
                 /\ pc' = "failed"
                 /\ UNCHANGED <<auth, peer, present>>
      OBVIOUS
    <2>2. v.kept = {} /\ (v.ret = "ok" /\ v.good => Accepts(peer.pub, proof', Transcript))
      BY VerifyTells DEF TypeOK
    <2>3. TypeOK'
      BY <2>1, <2>2, Inputs DEF TypeOK, HeapInv
    <2>4. HeapInv'
      BY <2>1, <2>2 DEF HeapInv, StepInv
    <2>5. StepInv'
      BY <2>1 DEF StepInv, Confirmed
    <2>6. PeerAuthenticated'
      <3>1. /\ leaf' = leaf /\ peer.pub = leaf.pub
            /\ Accepts(Public(Ca), leaf.sig, leaf.pub) /\ ~auth
        BY DEF StepInv, Confirmed
      <3>2. auth' => Accepts(leaf.pub, proof', Transcript)
        BY <2>1, <2>2, <3>1
      <3> QED
        BY <3>1, <3>2 DEF PeerAuthenticated
    <2>7. OwnSignature'
      BY DEF OwnSignature, StepInv
    <2> QED
      BY <2>3, <2>4, <2>5, <2>6, <2>7
  <1>5. CASE DecodePrivateKey
    <2> USE <1>5 DEF DecodePrivateKey
    <2>1. file \in Seq(Bytes)
      BY Inputs DEF TypeOK
    <2>2. /\ KeyPairOf(scheme, file) \in Seq(Bytes)
          /\ KeyPairOf(scheme, file) = PairIn(file)
          /\ Len(KeyPairOf(scheme, file)) = PairSize
      BY <2>1, PairOfFile DEF StepInv
    <2>3. /\ ImportPrivateKeyPair(Fresh, KeyPairOf(scheme, file)).key \in Key
          /\ ImportPrivateKeyPair(Fresh, KeyPairOf(scheme, file)).ok
          /\ ImportPrivateKeyPair(Fresh, KeyPairOf(scheme, file)).key.priv = Private(PairIn(file))
      BY <2>2, ImportsPair, Inputs
    <2>4. TypeOK'
      BY <2>3, Inputs DEF TypeOK, HeapInv
    <2>5. HeapInv'
      BY <2>3, NoneAssumption DEF HeapInv, StepInv
    <2>6. StepInv'
      BY <2>3 DEF StepInv, Confirmed
    <2> QED
      BY <2>4, <2>5, <2>6 DEF PeerAuthenticated, OwnSignature, StepInv
  <1>6. CASE SendCertificateVerify
    <2> USE <1>6 DEF SendCertificateVerify
    <2>1. PICK v \in Sign(hs, Transcript) :
              /\ sent' = v.sig
              /\ heap' = heap \cup v.kept
              /\ pc' = IF v.ret = "ok" THEN "open" ELSE "failed"
      OBVIOUS
    <2>2. /\ v.kept = {}
          /\ \/ v.sig \in {None, Made(hs.priv, Transcript)}
             \/ scheme = "snova2454" /\ v.sig = Unwritten
      BY SignTells DEF TypeOK
    <2>3. TypeOK'
      BY <2>1, <2>2 DEF TypeOK, HeapInv
    <2>4. HeapInv' /\ StepInv'
      BY <2>1, <2>2 DEF HeapInv, StepInv, Confirmed
    <2>5. OwnSignature'
      BY <2>1, <2>2 DEF OwnSignature, StepInv
    <2> QED
      BY <2>3, <2>4, <2>5 DEF PeerAuthenticated
  <1>7. CASE ResourceFree
    <2> USE <1>7 DEF ResourceFree
    <2>1. TypeOK' /\ HeapInv'
      BY Inputs DEF TypeOK, HeapInv
    <2>2. StepInv'
      BY DEF StepInv
    <2> QED
      BY <2>1, <2>2 DEF PeerAuthenticated, OwnSignature
  <1>8. CASE Reconnect
    <2> USE <1>8 DEF Reconnect
    <2>1. TypeOK' /\ HeapInv' /\ StepInv'
      BY DEF TypeOK, HeapInv, StepInv
    <2> QED
      BY <2>1 DEF PeerAuthenticated, OwnSignature
  <1>9. CASE UNCHANGED vars
    BY <1>9 DEF vars, TypeOK, HeapInv, StepInv, Confirmed, PeerAuthenticated, OwnSignature
  <1> QED
    BY <1>1, <1>2, <1>3, <1>4, <1>5, <1>6, <1>7, <1>8, <1>9 DEF Next

LEMMA Inductive == Spec => []IInv
  BY InitInv, NextInv, PTL DEF Spec
-----------------------------------------------------------------------------
(* Every variable has its type; the keys that are there have their sizes. *)
THEOREM TypeCorrect == Spec => []TypeOK
  <1>1. IInv => TypeOK
    BY DEF IInv
  <1> QED
    BY <1>1, Inductive, PTL

(* A certificate is there from its step on, and a connection that failed before one came
   is one that found no key pair in the file. *)
FileInv == /\ pc \in {"verify", "sign", "open"} => leaf # None
           /\ pc = "failed" /\ leaf = None => Len(KeyPairOf(scheme, file)) # PairSize

LEMMA FileNext == ASSUME IInv, FileInv, [Next]_vars PROVE FileInv'
  <1> USE DEF FileInv
  <1>1. CASE LoadKey
    <2> USE <1>1 DEF LoadKey
    <2>1. file' \in Seq(Bytes)
      BY Inputs
    <2>2. pc' = "certificate" <=> Len(KeyPairOf(scheme, file')) = PairSize
      BY <2>1, PairOfFile, ImportsPair, Inputs
    <2> QED
      BY <2>2
  <1>2. CASE ConfirmSignature
    <2>1. leaf' # None
      BY <1>2, NoneAssumption DEF ConfirmSignature, Certificate
    <2>2. pc' \in {"certificate", "failed"}
      BY <1>2 DEF ConfirmSignature
    <2> QED
      BY <2>1, <2>2
  <1>3. CASE ProcessPeerCerts
    BY <1>3 DEF ProcessPeerCerts
  <1>4. CASE DoCertificateVerify
    BY <1>4 DEF DoCertificateVerify
  <1>5. CASE DecodePrivateKey
    BY <1>5 DEF DecodePrivateKey
  <1>6. CASE SendCertificateVerify
    BY <1>6 DEF SendCertificateVerify
  <1>7. CASE ResourceFree
    BY <1>7 DEF ResourceFree
  <1>8. CASE Reconnect
    BY <1>8 DEF Reconnect
  <1>9. CASE UNCHANGED vars
    BY <1>9 DEF vars
  <1> QED
    BY <1>1, <1>2, <1>3, <1>4, <1>5, <1>6, <1>7, <1>8, <1>9 DEF Next

(* A key file is accepted exactly if it is a key pair, bare or in an OCTET
   STRING of any definite length form: the length that is read from it is
   compared with the bytes that the size of a pair has. *)
THEOREM KeyFilesExact == Spec => []KeyFileExact
  <1>1. IInv /\ FileInv => KeyFileExact
    <2> SUFFICES ASSUME IInv, FileInv PROVE KeyFileExact
      OBVIOUS
    <2>1. file \in Seq(Bytes)
      BY Inputs DEF IInv, TypeOK
    <2>2. Len(KeyPairOf(scheme, file)) = PairSize
             <=> Len(file) >= PairSize /\ Holds(scheme, file, PairIn(file))
      BY <2>1, FileHolds
    <2>3. Len(file) \in Nat /\ PairSize \in Nat
      BY <2>1, Sizes
    <2> QED
      BY <2>2, <2>3 DEF IInv, StepInv, FileInv, KeyFileExact
  <1>2. Init => FileInv
    BY DEF Init, FileInv
  <1> QED
    BY <1>1, <1>2, FileNext, Inductive, PTL DEF Spec

(* Only a server whose certificate the CA signed, and who signed this
   handshake with its key, counts as authenticated. *)
THEOREM Authentication == Spec => []PeerAuthenticated
  <1>1. IInv => PeerAuthenticated
    BY DEF IInv
  <1> QED
    BY <1>1, Inductive, PTL

(* The client signs with the private key of its key file, or sends what no key
   signed where SNOVA's library gave too short an output, and does so for an
   authenticated server. *)
THEOREM ClientSigns == Spec => []OwnSignature
  <1>1. IInv => OwnSignature
    BY DEF IInv
  <1> QED
    BY <1>1, Inductive, PTL

(* Whatever fails, nothing of the connection stays allocated. *)
THEOREM Released == Spec => []NothingLeft
  <1>1. IInv => NothingLeft
    BY DEF IInv, HeapInv, StepInv, NothingLeft
  <1> QED
    BY <1>1, Inductive, PTL
=============================================================================
