------------------------- MODULE MqttSession_proofs -------------------------
(***************************************************************************)
(* Proofs about MqttSession for every payload and every number of messages: *)
(* the broker takes the messages unharmed and in their order as long as no  *)
(* packet was given up, however the transport splits the writes; and when   *)
(* packets were given up, what the status is when the broker is done.       *)
(***************************************************************************)
EXTENDS MqttSession, SequenceTheorems, TLAPS

Units == [kind : Packets, n : 1 .. 3 + Payload]

LEMMA PayloadIsNat == Payload \in Nat \ {0} /\ MaxStates \in Nat
  BY MqttSessionAssumption

(* The lengths of the packets. *)
LEMMA TotalIs ==
    /\ Total("connect") = 2 /\ Total("disconnect") = 1
    /\ \A kind \in Messages : Total(kind) = 3 + Payload
  <1> USE PayloadIsNat
  <1>1. Total("connect") = 2
    BY DEF Total, Ends
  <1>2. Total("disconnect") = 1
    BY DEF Total, Ends
  <1>3. ASSUME NEW kind \in Messages PROVE Total(kind) = 3 + Payload
    <2>1. Ends(kind) = {1, 2, 3, 3 + Payload}
      BY DEF Ends, Messages
    <2>2. \A m \in {1, 2, 3, 3 + Payload} : m <= 3 + Payload
      OBVIOUS
    <2>3. \A n \in {1, 2, 3, 3 + Payload} : 3 + Payload <= n => n = 3 + Payload
      OBVIOUS
    <2>4. (CHOOSE n \in {1, 2, 3, 3 + Payload} : \A m \in {1, 2, 3, 3 + Payload} : m <= n) = 3 + Payload
      BY <2>2, <2>3
    <2> QED
      BY <2>1, <2>4 DEF Total
  <1> QED
    BY <1>1, <1>2, <1>3

LEMMA TotalType == \A kind \in Packets : Total(kind) \in 1 .. 3 + Payload
  BY TotalIs, PayloadIsNat DEF Packets

LEMMA TotalIsAnEnd == \A kind \in Packets : Total(kind) \in Ends(kind)
  BY TotalIs, PayloadIsNat DEF Packets, Messages, Ends

(* A call of send_all ends beyond what was written and within the packet. *)
LEMMA ChunkEndIs ==
    ASSUME packet \in Packets, pos \in 0 .. Total(packet) - 1
    PROVE  ChunkEnd \in Nat /\ ChunkEnd > pos /\ ChunkEnd <= Total(packet)
  <1> USE PayloadIsNat
  <1>1. CASE packet = "connect"
    <2>1. Ends(packet) = {2} /\ pos \in 0 .. 1
      BY <1>1, TotalIs DEF Ends
    <2>2. (CHOOSE n \in {2} : n > pos /\ \A m \in {2} : m > pos => n <= m) = 2
      BY <2>1
    <2> QED
      BY <1>1, <2>1, <2>2, TotalIs DEF ChunkEnd
  <1>2. CASE packet = "disconnect"
    <2>1. Ends(packet) = {1} /\ pos = 0
      BY <1>2, TotalIs DEF Ends
    <2>2. (CHOOSE n \in {1} : n > pos /\ \A m \in {1} : m > pos => n <= m) = 1
      BY <2>1
    <2> QED
      BY <1>2, <2>1, <2>2, TotalIs DEF ChunkEnd
  <1>3. CASE packet \in Messages
    <2>1. Ends(packet) = {1, 2, 3, 3 + Payload} /\ pos \in 0 .. 2 + Payload
      BY <1>3, TotalIs DEF Ends, Messages
    <2> DEFINE ends == {1, 2, 3, 3 + Payload}
               Least(n) == n > pos /\ \A m \in ends : m > pos => n <= m
    <2>2. \E n \in ends : Least(n)
      <3>1. CASE pos = 0
        BY <3>1
      <3>2. CASE pos = 1
        BY <3>2
      <3>3. CASE pos = 2
        BY <3>3
      <3>4. CASE pos \in 3 .. 2 + Payload
        BY <3>4
      <3> QED
        BY <2>1, <3>1, <3>2, <3>3, <3>4
    <2>3. ChunkEnd \in ends /\ Least(ChunkEnd)
      <3>1. ChunkEnd = CHOOSE n \in ends : Least(n)
        BY <2>1 DEF ChunkEnd
      <3> HIDE DEF ends, Least
      <3> QED
        BY <2>2, <3>1
    <2> QED
      BY <1>3, <2>1, <2>3, TotalIs
  <1> QED
    BY <1>1, <1>2, <1>3 DEF Packets
-----------------------------------------------------------------------------
(* Types: the client's variables, the stream's and the broker's. *)
ReadingConnack == {"type", "length", "body", "drain"}

ClientOK ==
    /\ pc \in {"send", "close", "ended"} \cup ReadingConnack
    /\ packet \in Packets /\ pos \in Nat /\ pos <= Total(packet)
    /\ published \in 0 .. MaxStates + 1
    /\ connected \in BOOLEAN /\ short \in BOOLEAN /\ failed \subseteq Packets
    /\ pc = "send" => pos < Total(packet)
    /\ pc \in ReadingConnack => packet = "connect"
    /\ packet \in {"connect", "discovery", "online"} => published = 0

StreamOK == wire \in Seq(Units) /\ up \in BOOLEAN /\ fin \in BOOLEAN

BrokerOK ==
    /\ broker \in {"waiting", "accepted", "refused", "left", "gone"}
    /\ cur \in Messages \cup {"connect", "none", "junk"} /\ need \in -1 .. 2 + Payload
    /\ intact \in BOOLEAN /\ topicOk \in BOOLEAN
    /\ status \in {"none", "online", "offline", "garbled"}
    /\ log \in Seq([kind : Messages, intact : BOOLEAN])
    /\ cur \in {"none", "junk"} => need <= 0

TypeInv == ClientOK /\ StreamOK /\ BrokerOK

LEMMA TypeInvSuffices == TypeInv => TypeOK
  <1> SUFFICES ASSUME TypeInv PROVE TypeOK
    OBVIOUS
  <1>1. pos \in 0 .. Total(packet)
    BY TotalType, PayloadIsNat DEF TypeInv, ClientOK
  <1>2. {connected, up, fin, intact, topicOk, short} \subseteq BOOLEAN
    BY DEF TypeInv, ClientOK, StreamOK, BrokerOK
  <1>3. /\ pc \in {"send", "type", "length", "body", "drain", "close", "ended"}
        /\ packet \in Packets /\ published \in 0 .. MaxStates + 1 /\ failed \subseteq Packets
    BY DEF TypeInv, ClientOK, ReadingConnack
  <1>4. wire \in Seq([kind : Packets, n : 1 .. 3 + Payload])
    BY DEF TypeInv, StreamOK, Units
  <1> QED
    BY <1>1, <1>2, <1>3, <1>4 DEF TypeInv, BrokerOK, TypeOK

LEMMA TypeInit == Init => TypeInv
  <1> SUFFICES ASSUME Init PROVE TypeInv
    OBVIOUS
  <1>1. wire \in Seq(Units) /\ log \in Seq([kind : Messages, intact : BOOLEAN])
    BY DEF Init
  <1>2. /\ connected \in BOOLEAN /\ short \in BOOLEAN /\ up \in BOOLEAN /\ fin \in BOOLEAN
        /\ intact \in BOOLEAN /\ topicOk \in BOOLEAN /\ failed \subseteq Packets
    BY Zenon DEF Init
  <1>3. /\ pc = "send" /\ packet = "connect" /\ pos = 0 /\ published = 0
        /\ broker = "waiting" /\ cur = "none" /\ need = 0 /\ status = "none"
    BY DEF Init
  <1>4. ClientOK
    BY <1>2, <1>3, TotalIs, PayloadIsNat DEF ClientOK, Packets, ReadingConnack
  <1>5. StreamOK /\ BrokerOK
    BY <1>1, <1>2, <1>3, PayloadIsNat DEF StreamOK, BrokerOK
  <1> QED
    BY <1>4, <1>5 DEF TypeInv

(* The next packet, from its beginning. *)
LEMMA SendNextStep ==
    ASSUME ClientOK, NEW kind \in {"discovery", "online", "state", "offline", "disconnect", "none"},
           SendNext(kind),
           kind \in {"discovery", "online"} => published = 0,
           kind = "state" => published <= MaxStates,
           connected' \in BOOLEAN, short' \in BOOLEAN, failed' \subseteq Packets
    PROVE  ClientOK'
  <1>1. published \in 0 .. MaxStates + 1 /\ packet \in Packets
    BY DEF ClientOK
  <1>2. /\ pc' \in {"send", "close"} /\ packet' \in Packets /\ pos' = 0
        /\ packet' = kind \/ (packet' = packet /\ kind = "none")
        /\ published' = IF kind = "state" THEN published + 1 ELSE published
    BY <1>1 DEF SendNext, Packets, Messages
  <1>3. published' \in 0 .. MaxStates + 1
    BY <1>1, <1>2, PayloadIsNat
  <1>4. packet' \in {"connect", "discovery", "online"} => published' = 0
    BY <1>2 DEF ClientOK
  <1>5. Total(packet') \in 1 .. 3 + Payload
    BY <1>2, TotalType
  <1> QED
    BY <1>2, <1>3, <1>4, <1>5, PayloadIsNat DEF ClientOK, ReadingConnack

LEMMA SuccessKinds ==
    ASSUME packet \in Packets
    PROVE  /\ AfterSuccess \in {"online", "state", "disconnect", "none"}
           /\ AfterSuccess = "online" => packet = "discovery"
           /\ AfterSuccess = "state" => packet \in {"online", "state"}
  BY DEF AfterSuccess, Packets, Messages

LEMMA GiveUpStep ==
    ASSUME ClientOK, GiveUp, short' \in BOOLEAN, UNCHANGED failed
    PROVE  ClientOK'
  <1>1. connected' \in BOOLEAN /\ failed' \subseteq Packets
    BY DEF ClientOK, GiveUp
  <1> QED
    BY <1>1, SendNextStep DEF GiveUp

LEMMA FinishStep ==
    ASSUME ClientOK, pc \in ReadingConnack, NEW code, Finish(code), short' \in BOOLEAN,
           UNCHANGED failed
    PROVE  ClientOK'
  <1>1. CASE Accepts(code)
    <2>1. connected' \in BOOLEAN /\ failed' \subseteq Packets /\ published = 0
      BY <1>1 DEF ClientOK, Finish
    <2>2. SendNext("discovery")
      BY <1>1 DEF Finish, AfterConnect
    <2> QED
      BY <2>1, <2>2, SendNextStep
  <1>2. CASE ~Accepts(code)
    BY <1>2, GiveUpStep DEF Finish
  <1> QED
    BY <1>1, <1>2

(* A read that goes on keeps everything but pc. *)
LEMMA ReadOnStep ==
    ASSUME ClientOK, pc \in ReadingConnack, pc' \in ReadingConnack,
           UNCHANGED <<packet, pos, published, connected, failed>>, short' \in BOOLEAN
    PROVE  ClientOK'
  BY DEF ClientOK, ReadingConnack

(* One lemma for the stream: what is written are units of packets. *)
LEMMA WrittenUnits ==
    ASSUME ClientOK, StreamOK, pc = "send", NEW n \in 1 .. ChunkEnd - pos
    PROVE  /\ Taken(n) \in Nat /\ Taken(n) = pos + n /\ Taken(n) <= Total(packet)
           /\ \A k \in 1 .. n : Unit(pos + k) \in Units
           /\ [k \in 1 .. n |-> Unit(pos + k)] \in Seq(Units)
  <1>1. packet \in Packets /\ pos \in 0 .. Total(packet) - 1
    BY TotalType, PayloadIsNat DEF ClientOK
  <1>2. ChunkEnd \in Nat /\ ChunkEnd > pos /\ ChunkEnd <= Total(packet)
    BY <1>1, ChunkEndIs
  <1>3. Total(packet) \in 1 .. 3 + Payload /\ n \in Nat
    BY <1>1, TotalType
  <1>4. Taken(n) \in Nat /\ Taken(n) = pos + n /\ Taken(n) <= Total(packet)
    BY <1>1, <1>2, <1>3, PayloadIsNat DEF Taken
  <1>5. ASSUME NEW k \in 1 .. n PROVE Unit(pos + k) \in Units
    <2>1. pos + k \in 1 .. 3 + Payload
      BY <1>1, <1>2, <1>3, PayloadIsNat
    <2> QED
      BY <1>1, <2>1 DEF Unit, Units
  <1>6. [k \in 1 .. n |-> Unit(pos + k)] \in Seq(Units)
    BY <1>3, <1>5
  <1> QED
    BY <1>4, <1>5, <1>6

(* The broker takes one unit off the stream. *)
LEMMA UnitRead ==
    ASSUME StreamOK, Reading, Unread, UNCHANGED <<up, fin>>
    PROVE  /\ StreamOK' /\ wire' = Tail(wire)
           /\ Head(wire) \in Units /\ Head(wire) = wire[1] /\ Len(wire) \in Nat \ {0}
  BY DEF StreamOK, Reading, Unread

LEMMA SameClient ==
    ASSUME ClientOK, UNCHANGED client
    PROVE  ClientOK'
  BY DEF ClientOK, client

LEMMA BrokerBeginsTypes ==
    ASSUME ClientOK, StreamOK, BrokerOK, BrokerBegins
    PROVE  ClientOK' /\ StreamOK' /\ BrokerOK'
  <1>1. StreamOK' /\ Head(wire) \in Units
    BY UnitRead DEF BrokerBegins
  <1>2. ClientOK'
    BY SameClient DEF BrokerBegins
  <1>3. BrokerOK'
    <2>1. CASE broker' = "gone" /\ UNCHANGED parser
      BY <2>1 DEF BrokerBegins, BrokerOK, parser
    <2>2. CASE /\ cur' = Head(wire).kind /\ need' = Total(Head(wire).kind) - 1
               /\ intact' = TRUE /\ topicOk' = TRUE /\ UNCHANGED broker
      <3>1. intact' \in BOOLEAN /\ topicOk' \in BOOLEAN
        BY <2>2, Zenon
      <3>2. Head(wire).kind \in Messages \cup {"connect"} /\ Head(wire).kind \in Packets
        BY <1>1 DEF BrokerBegins, Units, Packets
      <3>3. Total(Head(wire).kind) \in 1 .. 3 + Payload
        BY <3>2, TotalType
      <3>4. need' \in -1 .. 2 + Payload
        BY <2>2, <3>3, PayloadIsNat
      <3>5. cur' \in Messages \cup {"connect"} /\ cur' \notin {"none", "junk"}
        BY <2>2, <3>2 DEF Messages
      <3>6. UNCHANGED <<broker, status, log>>
        BY <2>2 DEF BrokerBegins
      <3> QED
        BY <3>1, <3>4, <3>5, <3>6 DEF BrokerOK
    <2> QED
      BY <2>1, <2>2 DEF BrokerBegins
  <1> QED
    BY <1>1, <1>2, <1>3

LEMMA BrokerOtherTypes ==
    ASSUME ClientOK, StreamOK, BrokerOK, BrokerDisconnects \/ BrokerLost \/ BrokerSwallows
    PROVE  ClientOK' /\ StreamOK' /\ BrokerOK'
  <1>1. StreamOK'
    BY UnitRead DEF BrokerDisconnects, BrokerLost, BrokerSwallows
  <1>2. ClientOK'
    BY SameClient DEF BrokerDisconnects, BrokerLost, BrokerSwallows
  <1>3. CASE BrokerDisconnects
    BY <1>1, <1>2, <1>3 DEF BrokerDisconnects, BrokerOK, parser
  <1>4. CASE BrokerLost
    BY <1>1, <1>2, <1>4, PayloadIsNat DEF BrokerLost, BrokerOK, parser
  <1>5. CASE BrokerSwallows
    BY <1>1, <1>2, <1>5 DEF BrokerSwallows, BrokerOK, parser
  <1> QED
    BY <1>3, <1>4, <1>5

LEMMA BrokerReadsTypes ==
    ASSUME ClientOK, StreamOK, BrokerOK, BrokerReads
    PROVE  ClientOK' /\ StreamOK' /\ BrokerOK'
  <1>1. StreamOK'
    BY UnitRead DEF BrokerReads
  <1>2. ClientOK'
    BY SameClient DEF BrokerReads
  <1>3. need' \in -1 .. 2 + Payload /\ cur' = cur /\ cur \in Messages \cup {"connect"}
    BY PayloadIsNat DEF BrokerReads, BrokerOK
  <1>4. intact' \in BOOLEAN
    BY Zenon DEF BrokerReads
  <1>5. topicOk' \in BOOLEAN
    BY Zenon DEF BrokerReads
  <1>6. CASE need # 1
    BY <1>1, <1>2, <1>3, <1>4, <1>5, <1>6 DEF BrokerReads, BrokerOK, Messages
  <1>7. CASE need = 1 /\ cur = "connect"
    <2>1. broker' \in {"accepted", "refused", "gone"} /\ UNCHANGED <<status, log>>
      BY <1>7 DEF BrokerReads, Complete
    <2> QED
      BY <1>1, <1>2, <1>3, <1>4, <1>5, <1>7, <2>1 DEF BrokerOK
  <1>8. CASE need = 1 /\ cur # "connect"
    <2>1. /\ log' = Append(log, [kind |-> cur, intact |-> intact'])
          /\ status' = IF cur \in {"online", "offline"} \cap Retained /\ topicOk'
                       THEN IF intact' THEN cur ELSE "garbled" ELSE status
          /\ UNCHANGED broker
      BY <1>8 DEF BrokerReads, Complete
    <2>2. [kind |-> cur, intact |-> intact'] \in [kind : Messages, intact : BOOLEAN]
      BY <1>3, <1>4, <1>8
    <2>3. log' \in Seq([kind : Messages, intact : BOOLEAN])
      BY <2>1, <2>2 DEF BrokerOK
    <2>4. status' \in {"none", "online", "offline", "garbled"}
      BY <2>1 DEF BrokerOK
    <2>5. cur' \in {"none", "junk"} => need' <= 0
      BY <1>3 DEF Messages
    <2> QED
      BY <1>1, <1>2, <1>3, <1>4, <1>5, <2>1, <2>3, <2>4, <2>5 DEF BrokerOK
  <1> QED
    BY <1>6, <1>7, <1>8

LEMMA TypeNext == TypeInv /\ [Next]_vars => TypeInv'
  <1> SUFFICES ASSUME TypeInv, [Next]_vars PROVE TypeInv'
    OBVIOUS
  <1>0. ClientOK /\ StreamOK /\ BrokerOK
    BY DEF TypeInv
  <1>1. CASE Write
    <2> PICK n \in 1 .. ChunkEnd - pos :
          /\ wire' = IF broker \in {"left", "gone"} THEN wire
                     ELSE wire \o [k \in 1 .. n |-> Unit(pos + k)]
          /\ IF Taken(n) < Total(packet)
             THEN pos' = Taken(n) /\ UNCHANGED <<pc, packet, published>>
             ELSE IF packet = "connect"
                  THEN pc' = "type" /\ UNCHANGED <<pos, packet, published>>
                  ELSE SendNext(AfterSuccess)
      BY <1>1 DEF Write
    <2>1. /\ pc = "send" /\ (packet = "state" => published <= MaxStates)
          /\ UNCHANGED <<connected, failed, short, up, fin, broker, parser, status, log>>
      BY <1>1 DEF Write
    <2>2. /\ Taken(n) \in Nat /\ Taken(n) <= Total(packet)
          /\ [k \in 1 .. n |-> Unit(pos + k)] \in Seq(Units)
      BY <1>0, <2>1, WrittenUnits
    <2>3. StreamOK'
      BY <1>0, <2>1, <2>2 DEF StreamOK
    <2>4. BrokerOK'
      BY <1>0, <2>1 DEF BrokerOK, parser
    <2>5. connected' \in BOOLEAN /\ short' \in BOOLEAN /\ failed' \subseteq Packets
      BY <1>0, <2>1 DEF ClientOK
    <2>6. ClientOK'
      <3>1. CASE Taken(n) < Total(packet)
        BY <1>0, <2>1, <2>2, <2>5, <3>1 DEF ClientOK, ReadingConnack
      <3>2. CASE ~(Taken(n) < Total(packet)) /\ packet = "connect"
        BY <1>0, <2>1, <2>5, <3>2 DEF ClientOK, ReadingConnack
      <3>3. CASE ~(Taken(n) < Total(packet)) /\ packet # "connect"
        <4>1. SendNext(AfterSuccess)
          BY <3>3
        <4>2. /\ AfterSuccess \in {"online", "state", "disconnect", "none"}
              /\ AfterSuccess = "online" => packet = "discovery"
              /\ AfterSuccess = "state" => packet \in {"online", "state"}
          BY <1>0, SuccessKinds DEF ClientOK
        <4>3. AfterSuccess \in {"discovery", "online"} => published = 0
          BY <1>0, <4>2 DEF ClientOK
        <4>4. AfterSuccess = "state" => published <= MaxStates
          BY <1>0, <2>1, <4>2, PayloadIsNat DEF ClientOK
        <4> QED
          BY <1>0, <2>5, <4>1, <4>2, <4>3, <4>4, SendNextStep
      <3> QED
        BY <3>1, <3>2, <3>3
    <2> QED
      BY <2>3, <2>4, <2>6 DEF TypeInv
  <1>2. CASE WriteFails
    <2>1. /\ failed' = failed \cup {packet} /\ SendNext(AfterFailure)
          /\ UNCHANGED <<connected, short, stream, broker, parser, status, log>>
      BY <1>2 DEF WriteFails
    <2>2. AfterFailure \in {"offline", "disconnect", "none"}
      BY DEF AfterFailure, AfterFailedState
    <2>3. connected' \in BOOLEAN /\ short' \in BOOLEAN /\ failed' \subseteq Packets
      BY <1>0, <2>1 DEF ClientOK
    <2>4. ClientOK'
      BY <1>0, <2>1, <2>2, <2>3, SendNextStep
    <2>5. StreamOK' /\ BrokerOK'
      BY <1>0, <2>1 DEF StreamOK, BrokerOK, stream, parser
    <2> QED
      BY <2>4, <2>5 DEF TypeInv
  <1>3. CASE ReadFails
    <2>1. ClientOK'
      <3>1. GiveUp /\ UNCHANGED <<failed, short>>
        BY <1>3 DEF ReadFails
      <3> QED
        BY <1>0, <3>1, GiveUpStep DEF ClientOK
    <2>2. StreamOK' /\ BrokerOK'
      BY <1>0, <1>3 DEF ReadFails, StreamOK, BrokerOK, stream, parser
    <2> QED
      BY <2>1, <2>2 DEF TypeInv
  <1>4. CASE ReadType
    <2>1. ClientOK'
      <3>1. pc = "type" /\ UNCHANGED <<failed, short>> /\ short' \in BOOLEAN
        BY <1>0, <1>4 DEF ReadType, ClientOK
      <3>2. CASE GiveUp
        BY <1>0, <3>1, <3>2, GiveUpStep
      <3>3. CASE pc' = "length" /\ UNCHANGED <<packet, pos, published, connected>>
        BY <1>0, <3>1, <3>3, ReadOnStep DEF ReadingConnack
      <3> QED
        BY <1>4, <3>2, <3>3 DEF ReadType
    <2>2. StreamOK' /\ BrokerOK'
      BY <1>0, <1>4 DEF ReadType, StreamOK, BrokerOK, parser
    <2> QED
      BY <2>1, <2>2 DEF TypeInv
  <1>5. CASE ReadLength
    <2>1. ClientOK'
      <3>1. pc = "length" /\ UNCHANGED <<failed, short>> /\ short' \in BOOLEAN
        BY <1>0, <1>5 DEF ReadLength, ClientOK
      <3>2. CASE GiveUp
        BY <1>0, <3>1, <3>2, GiveUpStep
      <3>3. CASE pc' = "body" /\ UNCHANGED <<packet, pos, published, connected>>
        BY <1>0, <3>1, <3>3, ReadOnStep DEF ReadingConnack
      <3> QED
        BY <1>5, <3>2, <3>3 DEF ReadLength
    <2>2. StreamOK' /\ BrokerOK'
      BY <1>0, <1>5 DEF ReadLength, StreamOK, BrokerOK, parser
    <2> QED
      BY <2>1, <2>2 DEF TypeInv
  <1>6. CASE ReadBody
    <2>1. ClientOK'
      <3>1. pc = "body" /\ UNCHANGED failed /\ short' \in BOOLEAN
        BY <1>0, <1>6 DEF ReadBody, ClientOK
      <3>2. CASE GiveUp
        BY <1>0, <3>1, <3>2, GiveUpStep
      <3>3. CASE pc' = "drain" /\ UNCHANGED <<packet, pos, published, connected>>
        BY <1>0, <3>1, <3>3, ReadOnStep DEF ReadingConnack
      <3>4. CASE Finish(rx[2])
        BY <1>0, <3>1, <3>4, FinishStep DEF ReadingConnack
      <3> QED
        BY <1>6, <3>2, <3>3, <3>4 DEF ReadBody
    <2>2. StreamOK' /\ BrokerOK'
      BY <1>0, <1>6 DEF ReadBody, StreamOK, BrokerOK, parser
    <2> QED
      BY <2>1, <2>2 DEF TypeInv
  <1>7. CASE Drain
    <2>1. ClientOK'
      <3>1. pc = "drain" /\ UNCHANGED <<failed, short>> /\ short' \in BOOLEAN
        BY <1>0, <1>7 DEF Drain, ClientOK
      <3>2. CASE UNCHANGED <<pc, packet, pos, published, connected>>
        BY <1>0, <3>1, <3>2, ReadOnStep DEF ReadingConnack
      <3>3. CASE Finish(rx[1])
        BY <1>0, <3>1, <3>3, FinishStep DEF ReadingConnack
      <3> QED
        BY <1>7, <3>2, <3>3 DEF Drain
    <2>2. StreamOK' /\ BrokerOK'
      BY <1>0, <1>7 DEF Drain, StreamOK, BrokerOK, parser
    <2> QED
      BY <2>1, <2>2 DEF TypeInv
  <1>8. CASE Close
    <2>1. fin' \in BOOLEAN
      BY <1>8, Zenon DEF Close, CloseConnection
    <2> QED
      BY <1>0, <1>8, <2>1 DEF Close, TypeInv, ClientOK, StreamOK, BrokerOK, parser, ReadingConnack
  <1>9. CASE BrokerBegins
    BY <1>0, <1>9, BrokerBeginsTypes DEF TypeInv
  <1>10. CASE BrokerDisconnects
    BY <1>0, <1>10, BrokerOtherTypes DEF TypeInv
  <1>11. CASE BrokerLost
    BY <1>0, <1>11, BrokerOtherTypes DEF TypeInv
  <1>12. CASE BrokerReads
    BY <1>0, <1>12, BrokerReadsTypes DEF TypeInv
  <1>13. CASE BrokerSwallows
    BY <1>0, <1>13, BrokerOtherTypes DEF TypeInv
  <1>14. CASE BrokerSeesEnd
    BY <1>0, <1>14 DEF BrokerSeesEnd, TypeInv, ClientOK, StreamOK, BrokerOK, client, stream, parser
  <1>15. CASE Break
    <2>1. wire' \in Seq(Units)
      BY <1>15 DEF Break
    <2>2. up' \in BOOLEAN
      BY <1>15, Zenon DEF Break
    <2> QED
      BY <1>0, <1>15, <2>1, <2>2 DEF Break, TypeInv, ClientOK, StreamOK, BrokerOK, client, parser
  <1>16. CASE UNCHANGED vars
    BY <1>0, <1>16 DEF vars, TypeInv, ClientOK, StreamOK, BrokerOK, client, stream, parser
  <1> QED
    BY <1>1, <1>2, <1>3, <1>4, <1>5, <1>6, <1>7, <1>8, <1>9, <1>10, <1>11, <1>12, <1>13, <1>14,
       <1>15, <1>16 DEF Next, Broker

(* The session's variables keep their types, whatever the payload and the number of messages. *)
THEOREM TypeCorrect == Spec => []TypeOK
  <1>1. TypeInv /\ [Next]_vars => TypeInv'
    BY TypeNext
  <1> QED
    BY <1>1, TypeInit, TypeInvSuffices, PTL DEF Spec
-----------------------------------------------------------------------------
(* Delivery.  While nothing was given up and the broker reads, the units on the wire follow one *)
(* another, the first follows what the broker read last, and what the client writes next        *)
(* follows the last of them.                                                                    *)
Nexts(kind) ==
    CASE kind = "connect" -> {"discovery", "disconnect"}
      [] kind = "discovery" -> {"online"}
      [] kind \in {"online", "state"} -> {"state"}
      [] kind = "offline" -> {"disconnect"}
      [] OTHER -> {}

Succ(u, w) ==
    \/ u.n < Total(u.kind) /\ w = [kind |-> u.kind, n |-> u.n + 1]
    \/ u.n = Total(u.kind) /\ w.kind \in Nexts(u.kind) /\ w.n = 1

At(kind, n) == [kind |-> kind, n |-> n]

\* The unit w is the one to come when the broker waits for "left" units of the packet "kind".
Follows(kind, left, w) ==
    IF kind = "none" THEN w = At("connect", 1)
    ELSE Succ(At(kind, Total(kind) - left), w)

Undisturbed == failed = {} /\ up /\ broker \in {"waiting", "accepted"}

WireInOrder == \A k \in 1 .. Len(wire) - 1 : Succ(wire[k], wire[k + 1])

FirstFollows == wire # <<>> => Follows(cur, need, wire[1])

SendFollows ==
    pc = "send" => IF wire = <<>> THEN Follows(cur, need, At(packet, pos + 1))
                                  ELSE Succ(wire[Len(wire)], At(packet, pos + 1))

ConnectIsSent ==
    pc \in ReadingConnack => IF wire = <<>> THEN cur = "connect" /\ need = 0
                                            ELSE wire[Len(wire)] = At("connect", Total("connect"))

StreamInOrder == WireInOrder /\ FirstFollows /\ SendFollows /\ ConnectIsSent

ParserInOrder ==
    /\ cur \in {"none", "connect", "discovery", "online", "state"}
    /\ need >= 0 /\ (cur = "none" => need = 0) /\ (need > 0 => intact)
    /\ cur \in {"none", "connect"} => Len(log) = 0
    /\ cur = "discovery" => Len(log) = IF need = 0 THEN 1 ELSE 0
    /\ cur = "online" => Len(log) = IF need = 0 THEN 2 ELSE 1
    /\ cur = "state" => Len(log) >= 2

DeliveryInv ==
    /\ ~up => wire = <<>>
    /\ Undisturbed => StreamInOrder /\ ParserInOrder
    /\ DeliveredAsPublished

LEMMA DeliveryInit == Init => DeliveryInv
  <1> SUFFICES ASSUME Init PROVE DeliveryInv
    OBVIOUS
  <1>1. up /\ wire = <<>> /\ log = <<>> /\ cur = "none" /\ need = 0
    BY DEF Init
  <1>2. pc = "send" /\ packet = "connect" /\ pos = 0
    BY DEF Init
  <1>3. StreamInOrder
    BY <1>1, <1>2 DEF StreamInOrder, WireInOrder, FirstFollows, SendFollows, ConnectIsSent, Follows,
                      At, ReadingConnack
  <1>4. ParserInOrder
    BY <1>1 DEF ParserInOrder
  <1>5. DeliveredAsPublished
    BY <1>1 DEF DeliveredAsPublished
  <1> QED
    BY <1>1, <1>3, <1>4, <1>5 DEF DeliveryInv

(* The client goes on to the packet that comes after CONNECT. *)
LEMMA AfterConnack ==
    ASSUME TypeInv, StreamInOrder, pc \in ReadingConnack,
           NEW kind \in {"discovery", "disconnect"}, SendNext(kind), UNCHANGED <<wire, cur, need>>
    PROVE  StreamInOrder'
  <1>1. pc' = "send" /\ packet' = kind /\ pos' = 0 /\ pos' + 1 = 1
    BY DEF SendNext
  <1>2. kind \in Nexts("connect") /\ Total("connect") = 2 /\ Total("connect") - 0 = Total("connect")
    BY TotalIs DEF Nexts
  <1>3. Succ(At("connect", Total("connect")), At(kind, 1))
    BY <1>2 DEF Succ, At
  <1>4. SendFollows'
    <2>1. CASE wire = <<>>
      <3>1. cur = "connect" /\ need = 0
        BY <2>1 DEF StreamInOrder, ConnectIsSent
      <3> QED
        BY <1>1, <1>2, <1>3, <2>1, <3>1 DEF SendFollows, Follows
    <2>2. CASE wire # <<>>
      <3>1. wire[Len(wire)] = At("connect", Total("connect"))
        BY <2>2 DEF StreamInOrder, ConnectIsSent
      <3> QED
        BY <1>1, <1>3, <2>2, <3>1 DEF SendFollows
    <2> QED
      BY <2>1, <2>2
  <1>5. WireInOrder' /\ FirstFollows'
    BY DEF StreamInOrder, WireInOrder, FirstFollows
  <1>6. ConnectIsSent'
    BY <1>1 DEF ConnectIsSent, ReadingConnack
  <1> QED
    BY <1>4, <1>5, <1>6 DEF StreamInOrder

(* A step of the client that reads, or a step that does nothing to the stream. *)
LEMMA SameStream ==
    ASSUME StreamInOrder, UNCHANGED <<wire, cur, need, packet, pos>>,
           \/ pc' = pc
           \/ pc \in ReadingConnack /\ pc' \in ReadingConnack
           \/ pc' \in {"close", "ended"}
    PROVE  StreamInOrder'
  <1>1. WireInOrder' /\ FirstFollows'
    BY DEF StreamInOrder, WireInOrder, FirstFollows
  <1>2. SendFollows' /\ ConnectIsSent'
    BY DEF StreamInOrder, SendFollows, ConnectIsSent, ReadingConnack
  <1> QED
    BY <1>1, <1>2 DEF StreamInOrder

(* The broker takes the unit it expects. *)
LEMMA UnitPassed ==
    ASSUME TypeInv, TypeInv', StreamInOrder, Reading, Unread, UNCHANGED client,
           cur' # "none", Head(wire) = At(cur', Total(cur') - need'), cur' = "connect" => need' \in Nat
    PROVE  StreamInOrder'
  <1>1. /\ wire' = Tail(wire) /\ Len(wire) \in Nat \ {0} /\ Head(wire) = wire[1]
        /\ wire \in Seq(Units) /\ Len(Tail(wire)) = Len(wire) - 1
        /\ \A k \in 1 .. Len(wire) - 1 : Tail(wire)[k] = wire[k + 1]
    BY DEF Reading, Unread, TypeInv, StreamOK
  <1>2. UNCHANGED <<pc, packet, pos>>
    BY DEF client
  <1>3. WireInOrder'
    BY <1>1 DEF StreamInOrder, WireInOrder
  <1>4. \A w : Succ(wire[1], w) => Follows(cur, need, w)'
    BY <1>1 DEF Follows
  <1>5. FirstFollows'
    <2> SUFFICES ASSUME wire' # <<>> PROVE Follows(cur, need, wire[1])'
      BY DEF FirstFollows
    <2>1. Len(wire) - 1 > 0
      BY <1>1
    <2>2. Succ(wire[1], wire[2]) /\ wire'[1] = wire[2]
      BY <1>1, <2>1 DEF StreamInOrder, WireInOrder
    <2> QED
      BY <2>2, <1>4 DEF Follows
  <1>6. CASE wire' = <<>>
    <2>0. Len(<<>>) = 0
      OBVIOUS
    <2>1. Len(wire) = 1 /\ wire # <<>>
      <3>1. Len(wire) - 1 = 0
        BY <1>1, <1>6, <2>0
      <3> QED
        BY <1>1, <2>0, <3>1
    <2>2. SendFollows'
      <3> SUFFICES ASSUME pc = "send" PROVE Follows(cur, need, At(packet, pos + 1))'
        BY <1>2, <1>6 DEF SendFollows
      <3>1. Succ(wire[1], At(packet, pos + 1))
        BY <2>1 DEF StreamInOrder, SendFollows
      <3>2. Succ(wire[1], At(packet', pos' + 1))
        BY <3>1, <1>2
      <3> QED
        BY <3>2, <1>1 DEF Follows
    <2>3. ConnectIsSent'
      <3> SUFFICES ASSUME pc \in ReadingConnack PROVE cur' = "connect" /\ need' = 0
        BY <1>2, <1>6 DEF ConnectIsSent
      <3>1. wire[1] = At("connect", Total("connect"))
        BY <2>1 DEF StreamInOrder, ConnectIsSent
      <3>2. cur' = "connect" /\ Total(cur') - need' = Total("connect")
        BY <3>1, <1>1 DEF At
      <3>3. need' \in Nat /\ 2 - need' = 2
        BY <3>2, TotalIs
      <3>4. need' = 0
        <4> DEFINE left == need'
        <4>1. left \in Nat /\ 2 - left = 2
          BY <3>3
        <4> HIDE DEF left
        <4>2. left = 0
          BY ONLY <4>1
        <4> QED
          BY <4>2 DEF left
      <3> QED
        BY <3>2, <3>4
    <2> QED
      BY <1>3, <1>5, <2>2, <2>3 DEF StreamInOrder
  <1>7. CASE wire' # <<>>
    <2>1. Len(wire) - 1 \in 1 .. Len(wire) - 1 /\ wire # <<>>
      BY <1>1, <1>7
    <2>2. wire'[Len(wire')] = wire[Len(wire)]
      BY <1>1, <2>1
    <2>3. SendFollows'
      BY <1>2, <1>7, <2>1, <2>2 DEF StreamInOrder, SendFollows
    <2>4. ConnectIsSent'
      BY <1>2, <1>7, <2>1, <2>2 DEF StreamInOrder, ConnectIsSent
    <2> QED
      BY <1>3, <1>5, <2>3, <2>4 DEF StreamInOrder
  <1> QED
    BY <1>6, <1>7

(* What the broker reads while nothing disturbs the stream is the next unit. *)
LEMMA NextUnit ==
    ASSUME TypeInv, StreamInOrder, ParserInOrder, Reading
    PROVE  /\ Head(wire) = wire[1] /\ wire[1] \in Units
           /\ cur = "none" => wire[1] = At("connect", 1)
           /\ cur # "none" /\ need > 0 => Head(wire) = At(cur, Total(cur) - need + 1)
           /\ cur # "none" /\ need = 0 => Head(wire).kind \in Nexts(cur) /\ Head(wire).n = 1
  <1>1. Head(wire) = wire[1] /\ wire[1] \in Units /\ wire # <<>>
    BY DEF Reading, TypeInv, StreamOK
  <1>2. Follows(cur, need, wire[1])
    BY <1>1 DEF StreamInOrder, FirstFollows
  <1>3. cur = "none" => wire[1] = At("connect", 1)
    BY <1>2 DEF Follows
  <1>4. ASSUME cur # "none" PROVE Succ(At(cur, Total(cur) - need), wire[1])
    BY <1>2, <1>4 DEF Follows
  <1>5. ASSUME cur # "none" PROVE Total(cur) \in Nat /\ need \in Nat
    BY <1>5, TotalType, PayloadIsNat DEF ParserInOrder, TypeInv, BrokerOK, Packets, Messages
  <1>6. ASSUME cur # "none", need > 0 PROVE wire[1] = At(cur, Total(cur) - need + 1)
    BY <1>4, <1>5, <1>6 DEF Succ, At
  <1>7. ASSUME cur # "none", need = 0 PROVE wire[1].kind \in Nexts(cur) /\ wire[1].n = 1
    BY <1>4, <1>5, <1>7 DEF Succ, At
  <1> QED
    BY <1>1, <1>3, <1>6, <1>7

LEMMA DeliveryWrite ==
    ASSUME TypeInv, TypeInv', DeliveryInv, Write
    PROVE  DeliveryInv'
  <1> PICK n \in 1 .. ChunkEnd - pos :
        /\ wire' = IF broker \in {"left", "gone"} THEN wire
                   ELSE wire \o [k \in 1 .. n |-> Unit(pos + k)]
        /\ IF Taken(n) < Total(packet)
           THEN pos' = Taken(n) /\ UNCHANGED <<pc, packet, published>>
           ELSE IF packet = "connect"
                THEN pc' = "type" /\ UNCHANGED <<pos, packet, published>>
                ELSE SendNext(AfterSuccess)
    BY DEF Write
  <1>1. /\ pc = "send" /\ up
        /\ UNCHANGED <<failed, up, broker, parser, status, log>>
    BY DEF Write
  <1>2. /\ Taken(n) \in Nat /\ Taken(n) = pos + n /\ Taken(n) <= Total(packet)
        /\ [k \in 1 .. n |-> Unit(pos + k)] \in Seq(Units)
    BY <1>1, WrittenUnits DEF TypeInv
  <1>3. DeliveredAsPublished' /\ (~up' => wire' = <<>>)
    BY <1>1 DEF DeliveryInv, DeliveredAsPublished
  <1>4. SUFFICES ASSUME Undisturbed' PROVE StreamInOrder' /\ ParserInOrder'
    BY <1>3 DEF DeliveryInv
  <1>5. Undisturbed /\ StreamInOrder /\ ParserInOrder
    BY <1>1, <1>4 DEF Undisturbed, DeliveryInv
  <1>6. ParserInOrder'
    BY <1>1, <1>5 DEF ParserInOrder, parser
  <1> DEFINE written == [k \in 1 .. n |-> Unit(pos + k)]
  <1>7. /\ wire' = wire \o written /\ wire \in Seq(Units) /\ written \in Seq(Units)
        /\ Len(written) = n /\ n \in Nat \ {0} /\ pos \in Nat
        /\ \A k \in 1 .. n : written[k] = At(packet, pos + k)
    <2>1. ChunkEnd \in Nat /\ pos \in Nat
      <3>1. packet \in Packets /\ pos \in 0 .. Total(packet) - 1
        BY <1>1, TotalType, PayloadIsNat DEF TypeInv, ClientOK
      <3> QED
        BY <3>1, ChunkEndIs
    <2>2. n \in Nat \ {0} /\ DOMAIN written = 1 .. n
      BY <2>1
    <2>3. Len(written) = n
      BY <1>2, <2>2
    <2>4. wire' = wire \o written /\ wire \in Seq(Units)
      BY <1>5 DEF Undisturbed, TypeInv, StreamOK
    <2>5. \A k \in 1 .. n : written[k] = At(packet, pos + k)
      BY DEF Unit, At
    <2> QED
      BY <1>2, <2>1, <2>2, <2>3, <2>4, <2>5
  <1> HIDE DEF written
  <1>8. /\ Len(wire') = Len(wire) + n /\ Len(wire) \in Nat
        /\ \A k \in 1 .. Len(wire) : wire'[k] = wire[k]
        /\ \A k \in 1 .. n : wire'[Len(wire) + k] = At(packet, pos + k)
        /\ wire' # <<>> /\ wire'[Len(wire')] = At(packet, pos + n)
    <2> DEFINE whole == wire \o written
    <2>1. /\ whole \in Seq(Units) /\ Len(whole) = Len(wire) + Len(written)
          /\ \A i \in 1 .. Len(wire) + Len(written) :
                whole[i] = IF i <= Len(wire) THEN wire[i] ELSE written[i - Len(wire)]
      BY <1>7, ConcatProperties
    <2>2. wire' = whole
      BY <1>7
    <2> HIDE DEF whole
    <2>3. Len(wire) \in Nat /\ Len(written) = n /\ n \in Nat \ {0} /\ Len(whole) = Len(wire) + n
      BY <1>7, <2>1
    <2>4. \A k \in 1 .. Len(wire) : whole[k] = wire[k]
      BY <2>1, <2>3
    <2>5. ASSUME NEW k \in 1 .. n PROVE whole[Len(wire) + k] = At(packet, pos + k)
      <3>1. Len(wire) + k \in 1 .. Len(wire) + Len(written) /\ ~(Len(wire) + k <= Len(wire))
            /\ (Len(wire) + k) - Len(wire) = k
        BY <2>3
      <3>2. whole[Len(wire) + k] = written[k]
        BY <2>1, <3>1
      <3> QED
        BY <1>7, <3>2
    <2>6. n \in 1 .. n /\ Len(whole) > 0
      BY <2>3
    <2>7. whole # <<>>
      BY <2>6
    <2> QED
      BY <2>2, <2>3, <2>4, <2>5, <2>6, <2>7
  <1>9. wire # <<>> => Succ(wire[Len(wire)], At(packet, pos + 1))
    BY <1>1, <1>5 DEF StreamInOrder, SendFollows
  <1>10. WireInOrder'
    <2> SUFFICES ASSUME NEW k \in 1 .. Len(wire') - 1 PROVE Succ(wire'[k], wire'[k + 1])
      BY DEF WireInOrder
    <2>1. CASE k < Len(wire)
      <3>1. k \in 1 .. Len(wire) - 1 /\ k + 1 \in 1 .. Len(wire) /\ k \in 1 .. Len(wire)
        BY <2>1, <1>8
      <3> QED
        BY <3>1, <1>5, <1>8 DEF StreamInOrder, WireInOrder
    <2>2. CASE k = Len(wire)
      <3>1. wire # <<>> /\ wire'[k] = wire[Len(wire)] /\ wire'[k + 1] = At(packet, pos + 1)
        BY <2>2, <1>7, <1>8
      <3> QED
        BY <3>1, <1>9
    <2>3. CASE k > Len(wire)
      <3> DEFINE j == k - Len(wire)
      <3>1. j \in 1 .. n - 1 /\ j \in 1 .. n /\ j + 1 \in 1 .. n /\ k = Len(wire) + j
            /\ k + 1 = Len(wire) + (j + 1)
        BY <2>3, <1>7, <1>8
      <3>2. wire'[k] = At(packet, pos + j) /\ wire'[k + 1] = At(packet, pos + (j + 1))
        BY <3>1, <1>8
      <3>3. pos + j < Total(packet) /\ pos + (j + 1) = (pos + j) + 1
        BY <3>1, <1>2, <1>7, TotalType, PayloadIsNat DEF TypeInv, ClientOK
      <3> QED
        BY <3>2, <3>3 DEF Succ, At
    <2> QED
      BY <2>1, <2>2, <2>3, <1>8
  <1>11. FirstFollows'
    <2>1. CASE wire = <<>>
      <3>1. wire'[1] = At(packet, pos + 1)
        <4>1. Len(wire) = 0 /\ 1 \in 1 .. n
          BY <2>1, <1>7
        <4>2. wire'[Len(wire) + 1] = At(packet, pos + 1)
          BY <4>1, <1>8
        <4> QED
          BY <4>1, <4>2
      <3>2. Follows(cur, need, At(packet, pos + 1))
        BY <2>1, <1>1, <1>5 DEF StreamInOrder, SendFollows
      <3>3. UNCHANGED <<cur, need>>
        BY <1>1 DEF parser
      <3> QED
        BY <3>1, <3>2, <3>3 DEF FirstFollows
    <2>2. CASE wire # <<>>
      <3>1. 1 \in 1 .. Len(wire)
        BY <2>2, <1>7, <1>8
      <3>2. wire'[1] = wire[1] /\ Follows(cur, need, wire[1]) /\ UNCHANGED <<cur, need>>
        BY <3>1, <2>2, <1>1, <1>5, <1>8 DEF StreamInOrder, FirstFollows, parser
      <3> QED
        BY <3>2 DEF FirstFollows
    <2> QED
      BY <2>1, <2>2
  <1>12. SendFollows' /\ ConnectIsSent'
    <2>1. CASE Taken(n) < Total(packet)
      <3>1. pc' = "send" /\ packet' = packet /\ pos' = pos + n
        BY <2>1, <1>1, <1>2
      <3>2. Succ(At(packet, pos + n), At(packet', pos' + 1))
        BY <2>1, <3>1, <1>2 DEF Succ, At
      <3> QED
        BY <3>1, <3>2, <1>8 DEF SendFollows, ConnectIsSent, ReadingConnack
    <2>2. CASE ~(Taken(n) < Total(packet)) /\ packet = "connect"
      <3>1. pc' = "type" /\ pos + n = Total(packet)
        BY <2>2, <1>2, TotalType DEF TypeInv, ClientOK
      <3> QED
        BY <2>2, <3>1, <1>8 DEF SendFollows, ConnectIsSent, ReadingConnack
    <2>3. CASE ~(Taken(n) < Total(packet)) /\ packet # "connect"
      <3>1. SendNext(AfterSuccess) /\ pos + n = Total(packet) /\ packet \in Packets
        BY <2>3, <1>2, TotalType DEF TypeInv, ClientOK
      <3>2. CASE AfterSuccess = "none"
        BY <3>1, <3>2 DEF SendNext, SendFollows, ConnectIsSent, ReadingConnack
      <3>3. CASE AfterSuccess # "none"
        <4>1. pc' = "send" /\ packet' = AfterSuccess /\ pos' = 0 /\ pos' + 1 = 1
          BY <3>1, <3>3 DEF SendNext
        <4>2. AfterSuccess \in Nexts(packet)
          BY <2>3, <3>1, <3>3 DEF AfterSuccess, Nexts, Packets, Messages
        <4>3. Succ(At(packet, pos + n), At(packet', pos' + 1))
          BY <3>1, <4>1, <4>2 DEF Succ, At
        <4> QED
          BY <4>1, <4>3, <1>8 DEF SendFollows, ConnectIsSent, ReadingConnack
      <3> QED
        BY <3>2, <3>3
    <2> QED
      BY <2>1, <2>2, <2>3
  <1> QED
    BY <1>6, <1>10, <1>11, <1>12 DEF StreamInOrder

(* The client's steps that leave the wire as it is. *)
LEMMA DeliveryClient ==
    ASSUME TypeInv, DeliveryInv, UNCHANGED <<failed, up, wire, broker, parser, log>>,
           \/ UNCHANGED <<pc, packet, pos>>
           \/ /\ pc \in ReadingConnack
              /\ \/ pc' \in ReadingConnack /\ UNCHANGED <<packet, pos>>
                 \/ \E kind \in {"discovery", "disconnect"} : SendNext(kind)
           \/ pc' = "ended" /\ UNCHANGED <<packet, pos>>
    PROVE  DeliveryInv'
  <1>1. DeliveredAsPublished' /\ (~up' => wire' = <<>>)
    BY DEF DeliveryInv, DeliveredAsPublished
  <1>2. UNCHANGED <<cur, need, intact, wire, log>>
    BY DEF parser
  <1> SUFFICES ASSUME Undisturbed' PROVE StreamInOrder' /\ ParserInOrder'
    BY <1>1 DEF DeliveryInv
  <1>3. StreamInOrder /\ ParserInOrder
    BY DEF Undisturbed, DeliveryInv
  <1>4. ParserInOrder'
    BY <1>2, <1>3 DEF ParserInOrder
  <1>5. CASE \E kind \in {"discovery", "disconnect"} : SendNext(kind) /\ pc \in ReadingConnack
    BY <1>2, <1>3, <1>4, <1>5, AfterConnack
  <1>6. CASE UNCHANGED <<packet, pos>> /\ (\/ pc' = pc
                                           \/ pc \in ReadingConnack /\ pc' \in ReadingConnack
                                           \/ pc' \in {"close", "ended"})
    BY <1>2, <1>3, <1>4, <1>6, SameStream
  <1> QED
    BY <1>5, <1>6

LEMMA DeliveryReadsConnack ==
    ASSUME TypeInv, DeliveryInv, ReadFails \/ ReadType \/ ReadLength \/ ReadBody \/ Drain
    PROVE  DeliveryInv'
  <1>1. UNCHANGED <<failed, up, wire, broker, parser, log>>
    BY DEF ReadFails, ReadType, ReadLength, ReadBody, Drain, stream
  <1>2. pc \in ReadingConnack
    BY DEF ReadFails, ReadType, ReadLength, ReadBody, Drain, ReadingConnack
  <1>3. \/ pc' \in ReadingConnack /\ UNCHANGED <<packet, pos>>
        \/ GiveUp
        \/ \E code : Finish(code)
    BY <1>2 DEF ReadFails, ReadType, ReadLength, ReadBody, Drain, ReadingConnack
  <1>4. ASSUME NEW code, Finish(code) PROVE GiveUp \/ SendNext("discovery")
    BY <1>4 DEF Finish, AfterConnect
  <1>5. \/ pc' \in ReadingConnack /\ UNCHANGED <<packet, pos>>
        \/ \E kind \in {"discovery", "disconnect"} : SendNext(kind)
    BY <1>3, <1>4 DEF GiveUp
  <1> QED
    BY <1>1, <1>2, <1>5, DeliveryClient

LEMMA DeliveryBegins ==
    ASSUME TypeInv, TypeInv', DeliveryInv, BrokerBegins
    PROVE  DeliveryInv'
  <1>1. /\ Reading /\ Unread /\ need = 0 /\ Head(wire).n = 1 /\ Head(wire).kind # "disconnect"
        /\ UNCHANGED <<client, up, status, log>> /\ failed' = failed
    BY DEF BrokerBegins, client
  <1>2. DeliveredAsPublished' /\ (~up' => wire' = <<>>)
    BY <1>1 DEF DeliveryInv, DeliveredAsPublished, Reading, Unread
  <1> SUFFICES ASSUME Undisturbed' PROVE StreamInOrder' /\ ParserInOrder'
    BY <1>2 DEF DeliveryInv
  <1>3. /\ cur' = Head(wire).kind /\ need' = Total(Head(wire).kind) - 1
        /\ intact' = TRUE /\ UNCHANGED broker
    BY DEF BrokerBegins, Undisturbed
  <1>4. Undisturbed /\ StreamInOrder /\ ParserInOrder
    BY <1>1, <1>3 DEF Undisturbed, DeliveryInv
  <1>5. /\ Head(wire) = wire[1] /\ wire[1] \in Units
        /\ cur = "none" => wire[1] = At("connect", 1)
        /\ cur # "none" => Head(wire).kind \in Nexts(cur)
    BY <1>1, <1>4, NextUnit
  <1>6. cur' \in Packets /\ Total(cur') \in 1 .. 3 + Payload
    BY <1>3, <1>5, TotalType DEF Units
  <1>7. Head(wire) = At(cur', 1) /\ Total(cur') - need' = 1 /\ need' \in Nat
    <2>1. Head(wire) = At(cur', 1)
      BY <1>1, <1>3, <1>5 DEF Units, At
    <2> QED
      BY <2>1, <1>3, <1>6, PayloadIsNat
  <1>8. \/ cur = "none" /\ cur' = "connect"
        \/ cur = "connect" /\ cur' = "discovery"
        \/ cur = "discovery" /\ cur' = "online"
        \/ cur \in {"online", "state"} /\ cur' = "state"
    <2>1. CASE cur = "none"
      BY <2>1, <1>3, <1>5 DEF At
    <2>2. CASE cur # "none"
      <3>1. cur' \in Nexts(cur) /\ cur' # "disconnect"
        BY <2>2, <1>1, <1>3, <1>5
      <3>2. cur \in {"connect", "discovery", "online", "state"}
        BY <2>2, <1>4 DEF ParserInOrder
      <3> QED
        BY <3>1, <3>2 DEF Nexts
    <2> QED
      BY <2>1, <2>2
  <1>9. StreamInOrder'
    <2>1. cur' # "none"
      BY <1>8
    <2> QED
      BY <2>1, <1>1, <1>4, <1>7, UnitPassed
  <1>10. need' > 0
    <2>1. cur' \in Messages \cup {"connect"}
      BY <1>8 DEF Messages
    <2>2. Total(cur') > 1
      BY <2>1, TotalIs, PayloadIsNat
    <2> QED
      BY <2>2, <1>6, <1>7, PayloadIsNat
  <1>11. ParserInOrder'
    <2>1. /\ cur' \in {"connect", "discovery", "online", "state"} /\ need' >= 0
          /\ (cur' = "none" => need' = 0) /\ (need' > 0 => intact')
      BY <1>3, <1>7, <1>8
    <2>2. /\ cur' = "connect" => Len(log) = 0
          /\ cur' = "discovery" => Len(log) = 0
          /\ cur' = "online" => Len(log) = 1
          /\ cur' = "state" => Len(log) >= 2
      BY <1>1, <1>4, <1>8 DEF ParserInOrder
    <2> QED
      BY <2>1, <2>2, <1>1, <1>10 DEF ParserInOrder
  <1> QED
    BY <1>9, <1>11

LEMMA DeliveryReads ==
    ASSUME TypeInv, TypeInv', DeliveryInv, BrokerReads
    PROVE  DeliveryInv'
  <1>1. /\ Reading /\ Unread /\ need > 0 /\ need' = need - 1 /\ cur' = cur
        /\ UNCHANGED <<client, up>> /\ failed' = failed
    BY DEF BrokerReads, client
  <1>2. ~up' => wire' = <<>>
    BY <1>1 DEF DeliveryInv, Reading
  <1>3. CASE ~(failed = {})
    BY <1>1, <1>2, <1>3 DEF DeliveryInv, Undisturbed, DeliveredAsPublished
  <1>4. CASE failed = {}
    <2>1. Undisturbed /\ StreamInOrder /\ ParserInOrder
      BY <1>1, <1>4 DEF Undisturbed, DeliveryInv, Reading
    <2>2. cur \in {"connect", "discovery", "online", "state"} /\ need \in Nat /\ intact
      BY <1>1, <2>1, PayloadIsNat DEF ParserInOrder, TypeInv, BrokerOK
    <2>3. Total(cur) \in Nat
      BY <2>2, TotalIs, PayloadIsNat DEF Messages
    <2>4. Head(wire) = At(cur, Total(cur) - need + 1)
      BY <1>1, <2>1, <2>2, NextUnit
    <2>5. Fits
      BY <2>4 DEF Fits, At
    <2>6. intact'
      BY <2>2, <2>5 DEF BrokerReads
    <2>7. StreamInOrder'
      <3>1. Total(cur') - need' = Total(cur) - need + 1 /\ cur' # "none" /\ need' \in Nat
        BY <1>1, <2>2, <2>3
      <3> QED
        BY <1>1, <2>1, <2>4, <3>1, UnitPassed
    <2>8. CASE need # 1 \/ cur = "connect"
      <3>1. UNCHANGED log
        BY <2>8 DEF BrokerReads, Complete
      <3>2. need' >= 0 /\ (cur' # "connect" => need' # 0)
        BY <1>1, <2>2, <2>8
      <3>3. ParserInOrder'
        BY <1>1, <2>1, <2>2, <2>6, <3>1, <3>2 DEF ParserInOrder
      <3>4. DeliveredAsPublished'
        BY <1>1, <3>1 DEF DeliveryInv, DeliveredAsPublished
      <3> QED
        BY <1>2, <2>7, <3>3, <3>4 DEF DeliveryInv
    <2>9. CASE need = 1 /\ cur # "connect"
      <3>1. log' = Append(log, [kind |-> cur, intact |-> intact'])
        BY <2>9 DEF BrokerReads, Complete
      <3>2. log \in Seq([kind : Messages, intact : BOOLEAN])
        BY DEF TypeInv, BrokerOK
      <3>3. /\ Len(log') = Len(log) + 1 /\ Len(log) \in Nat
            /\ \A k \in 1 .. Len(log) : log'[k] = log[k]
            /\ log'[Len(log) + 1].kind = cur /\ (log'[Len(log) + 1].intact = intact')
            /\ DOMAIN log' = 1 .. Len(log) + 1 /\ DOMAIN log = 1 .. Len(log)
        <4> DEFINE entry == [kind |-> cur, intact |-> intact']
        <4>1. log' = Append(log, entry)
          BY <3>1
        <4> HIDE DEF entry
        <4>2. /\ Len(Append(log, entry)) = Len(log) + 1 /\ Len(log) \in Nat
              /\ \A k \in 1 .. Len(log) : Append(log, entry)[k] = log[k]
              /\ Append(log, entry)[Len(log) + 1] = entry
              /\ DOMAIN Append(log, entry) = 1 .. Len(log) + 1 /\ DOMAIN log = 1 .. Len(log)
          BY <3>2
        <4>3. entry.kind = cur /\ (entry.intact = intact')
          BY Zenon DEF entry
        <4>4. log'[Len(log) + 1] = entry
          BY <4>1, <4>2
        <4>5. log'[Len(log) + 1].kind = cur /\ (log'[Len(log) + 1].intact = intact')
          BY <4>3, <4>4, Zenon
        <4> QED
          BY <4>1, <4>2, <4>5
      <3>4. /\ cur = "discovery" => Len(log) = 0
            /\ cur = "online" => Len(log) = 1
            /\ cur = "state" => Len(log) >= 2
        BY <1>1, <2>1 DEF ParserInOrder
      <3>5. need' = 0 /\ cur' \in {"discovery", "online", "state"}
        BY <1>1, <2>2, <2>9
      <3>6. ParserInOrder'
        <4>1. /\ cur' = "discovery" => Len(log') = 1
              /\ cur' = "online" => Len(log') = 2
              /\ cur' = "state" => Len(log') >= 2
          BY <1>1, <3>3, <3>4
        <4> QED
          BY <2>6, <3>5, <4>1 DEF ParserInOrder
      <3>7. DeliveredAsPublished'
        <4> SUFFICES ASSUME NEW k \in 1 .. Len(log) + 1
                     PROVE  /\ log'[k].intact
                            /\ log'[k].kind = (CASE k = 1 -> "discovery" [] k = 2 -> "online"
                                                 [] OTHER -> "state")
          BY <3>3 DEF DeliveredAsPublished
        <4>1. CASE k \in 1 .. Len(log)
          <5>1. /\ log[k].intact
                /\ log[k].kind = (CASE k = 1 -> "discovery" [] k = 2 -> "online"
                                    [] OTHER -> "state")
            BY <1>4, <3>3, <4>1 DEF DeliveryInv, DeliveredAsPublished
          <5>2. log'[k] = log[k]
            BY <3>3, <4>1
          <5> QED
            BY <5>1, <5>2
        <4>2. CASE k = Len(log) + 1
          <5>1. log'[k].kind = cur
            BY <3>3, <4>2
          <5>2. log'[k].intact = intact'
            BY <3>3, <4>2, Zenon
          <5>3. cur = (CASE k = 1 -> "discovery" [] k = 2 -> "online" [] OTHER -> "state")
            <6>1. cur = "discovery" => k = 1
              BY <3>3, <3>4, <4>2
            <6>2. cur = "online" => k = 2
              <7> SUFFICES ASSUME cur = "online" PROVE k = 2
                OBVIOUS
              <7> DEFINE taken == Len(log)
              <7>1. taken = 1 /\ k = taken + 1
                BY <3>4, <4>2
              <7> HIDE DEF taken
              <7> QED
                BY ONLY <7>1
            <6>3. cur = "state" => ~(k = 1) /\ ~(k = 2)
              BY <3>3, <3>4, <4>2
            <6> QED
              BY <1>1, <3>5, <6>1, <6>2, <6>3
          <5>4. log'[k].intact
            BY <2>6, <5>2
          <5> QED
            BY <5>1, <5>3, <5>4
        <4> QED
          BY <3>3, <4>1, <4>2
      <3> QED
        BY <1>2, <2>7, <3>6, <3>7 DEF DeliveryInv
    <2> QED
      BY <2>8, <2>9
  <1> QED
    BY <1>3, <1>4

(* The broker gives the session up, or reads on in a stream that is disturbed. *)
LEMMA DeliveryOtherBroker ==
    ASSUME TypeInv, DeliveryInv, BrokerDisconnects \/ BrokerLost \/ BrokerSwallows \/ BrokerSeesEnd
    PROVE  DeliveryInv'
  <1>1. UNCHANGED <<client, up, log>> /\ failed' = failed
    BY DEF BrokerDisconnects, BrokerLost, BrokerSwallows, BrokerSeesEnd, client, stream
  <1>2. wire' = wire \/ (wire # <<>> /\ up)
    BY DEF BrokerDisconnects, BrokerLost, BrokerSwallows, BrokerSeesEnd, stream, Reading, DeliveryInv
  <1>3. DeliveredAsPublished' /\ (~up' => wire' = <<>>)
    BY <1>1, <1>2 DEF DeliveryInv, DeliveredAsPublished
  <1>4. ~Undisturbed'
    <2> SUFFICES ASSUME Undisturbed' PROVE FALSE
      OBVIOUS
    <2>1. failed = {} /\ up /\ broker' \in {"waiting", "accepted"}
      BY <1>1 DEF Undisturbed
    <2>2. CASE BrokerDisconnects
      BY <2>1, <2>2 DEF BrokerDisconnects
    <2>3. CASE BrokerSeesEnd
      BY <2>1, <2>3 DEF BrokerSeesEnd
    <2>4. ASSUME Reading PROVE StreamInOrder /\ ParserInOrder
      BY <2>1, <2>4 DEF DeliveryInv, Undisturbed, Reading
    <2>5. CASE BrokerSwallows
      BY <2>4, <2>5 DEF BrokerSwallows, ParserInOrder, TypeInv, BrokerOK
    <2>6. CASE BrokerLost
      <3>1. Reading /\ need = 0 /\ Head(wire).n > 1
        BY <2>6 DEF BrokerLost
      <3>2. Head(wire).n = 1
        BY <2>4, <3>1, NextUnit DEF At
      <3> QED
        BY <3>1, <3>2
    <2> QED
      BY <2>2, <2>3, <2>5, <2>6
  <1> QED
    BY <1>3, <1>4 DEF DeliveryInv

LEMMA DeliveryNext == TypeInv /\ TypeInv' /\ DeliveryInv /\ [Next]_vars => DeliveryInv'
  <1> SUFFICES ASSUME TypeInv, TypeInv', DeliveryInv, [Next]_vars PROVE DeliveryInv'
    OBVIOUS
  <1>1. CASE Write
    BY <1>1, DeliveryWrite
  <1>2. CASE WriteFails
    <2>1. failed' # {} /\ UNCHANGED <<wire, up>>
      BY <1>2 DEF WriteFails, stream
    <2> QED
      BY <2>1 DEF DeliveryInv, Undisturbed, DeliveredAsPublished
  <1>3. CASE ReadFails \/ ReadType \/ ReadLength \/ ReadBody \/ Drain
    BY <1>3, DeliveryReadsConnack
  <1>4. CASE Close
    BY <1>4, DeliveryClient DEF Close
  <1>5. CASE BrokerBegins
    BY <1>5, DeliveryBegins
  <1>6. CASE BrokerReads
    BY <1>6, DeliveryReads
  <1>7. CASE BrokerDisconnects \/ BrokerLost \/ BrokerSwallows \/ BrokerSeesEnd
    BY <1>7, DeliveryOtherBroker
  <1>8. CASE Break
    <2>1. ~up' /\ wire' = <<>> /\ UNCHANGED <<failed, log>>
      BY <1>8 DEF Break, client
    <2> QED
      BY <2>1 DEF DeliveryInv, Undisturbed, DeliveredAsPublished
  <1>9. CASE UNCHANGED vars
    BY <1>9, DeliveryClient DEF vars, client, stream
  <1> QED
    BY <1>1, <1>2, <1>3, <1>4, <1>5, <1>6, <1>7, <1>8, <1>9 DEF Next, Broker

(* As long as no packet was given up, the broker takes the messages unharmed and in the order of *)
(* main, for every payload, however the transport splits the writes of send_all.                 *)
THEOREM Delivery == Spec => []DeliveredAsPublished
  <1>1. Init => TypeInv /\ DeliveryInv
    BY TypeInit, DeliveryInit
  <1>2. TypeInv /\ DeliveryInv /\ [Next]_vars => (TypeInv /\ DeliveryInv)'
    BY TypeNext, DeliveryNext
  <1>3. TypeInv /\ DeliveryInv => DeliveredAsPublished
    BY DEF DeliveryInv
  <1> QED
    BY <1>1, <1>2, <1>3, PTL DEF Spec
-----------------------------------------------------------------------------
(* The status when the broker is done.  Packets may be given up now, so the unit that the client *)
(* writes next need not be the one the broker waits for.  While the broker reads, either it is    *)
(* in step with the last unit it took (InStep), or it takes units of "offline" for the rest of a  *)
(* state message that was cut (Behind), or DISCONNECT was swallowed and nothing comes any more.   *)

\* The packets that can follow u, the last unit written of its packet; given: those given up.
Turn(given, u, kind) ==
    \/ u.kind = "none" /\ kind \in {"connect", "disconnect"}
    \/ u.kind \in {"connect", "discovery"} /\ kind = "disconnect"
    \/ u.kind = "connect" /\ u.n = Total(u.kind) /\ kind = "discovery"
    \/ u.kind = "discovery" /\ u.n = Total(u.kind) /\ kind = "online"
    \/ u.kind = "online" /\ u.n < Total(u.kind) /\ kind = "disconnect"
    \/ u.kind = "online" /\ u.n = Total(u.kind) /\ kind \in {"state", "offline"}
    \/ u.kind = "state" /\ u.n = Total(u.kind) /\ kind = "state"
    \/ u.kind = "state" /\ kind = "offline"
    \/ u.kind \in {"online", "state", "offline"} /\ "offline" \in given /\ kind = "disconnect"
    \/ u.kind = "offline" /\ u.n = Total(u.kind) /\ kind = "disconnect"

Nothing == At("none", 1)
AnyUnit == Units \cup {Nothing}

\* The unit w can be written after u.
Comes(given, u, w) ==
    \/ u.kind # "none" /\ u.n < Total(u.kind) /\ w = At(u.kind, u.n + 1)
    \/ w.n = 1 /\ Turn(given, u, w.kind)

Chained(given, u, units) ==
    /\ units # <<>> => Comes(given, u, units[1])
    /\ \A k \in 1 .. Len(units) - 1 : Comes(given, units[k], units[k + 1])

LastOf(u, units) == IF units = <<>> THEN u ELSE units[Len(units)]

\* The client can go on after u.
GoesOn(given, at, kind, p, u) ==
    /\ at = "send" => Comes(given, u, At(kind, p + 1))
    /\ at \in ReadingConnack => u = At("connect", 2)

\* u was the last unit the broker took, units are on the wire.
StreamAfter(given, at, kind, p, u, units) ==
    Chained(given, u, units) /\ GoesOn(given, at, kind, p, LastOf(u, units))

StatusSoFar ==
    IF cur \in {"none", "connect", "discovery"} \/ (cur = "online" /\ need > 0) THEN "none"
    ELSE IF cur = "offline" /\ need = 0 THEN "offline" ELSE "online"

InStep(u) ==
    /\ cur \notin {"junk"} /\ intact /\ topicOk
    /\ cur = "none" => need = 0 /\ u = Nothing
    /\ cur # "none" => need < Total(cur) /\ u = At(cur, Total(cur) - need)
    /\ status = StatusSoFar
    /\ broker = "waiting" <=> (cur = "none" \/ (cur = "connect" /\ need > 0))

Behind(u) ==
    /\ cur = "state" /\ broker = "accepted" /\ status = "online"
    /\ \E n \in 1 .. 2 + Payload : u = At("offline", n) /\ n + need < 3 + Payload

HasTaken(u) == InStep(u) \/ Behind(u) \/ u = At("disconnect", 1)

Reads == up /\ broker \in {"waiting", "accepted"} /\ need >= 0

StatusInv ==
    /\ ~up => wire = <<>>
    /\ broker \in {"waiting", "refused"} => status = "none"
    /\ Reads => \E u \in AnyUnit : HasTaken(u) /\ StreamAfter(failed, pc, packet, pos, u, wire)
    /\ StatusAfterTheEnd

LEMMA StatusInit == Init => StatusInv
  <1> SUFFICES ASSUME Init PROVE StatusInv
    OBVIOUS
  <1>1. /\ wire = <<>> /\ status = "none" /\ broker = "waiting" /\ cur = "none" /\ need = 0
        /\ pc = "send" /\ packet = "connect" /\ pos = 0
    BY DEF Init
  <1>2. intact /\ topicOk
    BY DEF Init
  <1>3. InStep(Nothing)
    BY <1>1, <1>2 DEF InStep, StatusSoFar
  <1>4. Comes(failed, Nothing, At("connect", 1))
    BY DEF Comes, Turn, At, Nothing
  <1>5. Len(<<>>) = 0
    OBVIOUS
  <1>6. StreamAfter(failed, pc, packet, pos, Nothing, wire)
    BY <1>1, <1>4, <1>5 DEF StreamAfter, Chained, LastOf, GoesOn, ReadingConnack
  <1>7. Nothing \in AnyUnit
    BY DEF AnyUnit
  <1> QED
    BY <1>1, <1>3, <1>6, <1>7 DEF StatusInv, HasTaken, StatusAfterTheEnd

(* More packets given up: more can follow. *)
LEMMA ChainedMore ==
    ASSUME NEW given, NEW more, given \subseteq more, NEW u, NEW units, Chained(given, u, units)
    PROVE  Chained(more, u, units)
  <1>1. \A v, w : Comes(given, v, w) => Comes(more, v, w)
    BY DEF Comes, Turn
  <1> QED
    BY <1>1 DEF Chained

(* The first unit of the wire is taken. *)
LEMMA ChainedTail ==
    ASSUME NEW given, NEW u, NEW units \in Seq(Units), units # <<>>, Chained(given, u, units)
    PROVE  /\ Comes(given, u, units[1])
           /\ Chained(given, units[1], Tail(units))
           /\ LastOf(units[1], Tail(units)) = LastOf(u, units)
  <1>1. /\ Len(units) \in Nat \ {0} /\ Tail(units) \in Seq(Units) /\ Len(Tail(units)) = Len(units) - 1
        /\ \A k \in 1 .. Len(units) - 1 : Tail(units)[k] = units[k + 1]
    OBVIOUS
  <1>0. Tail(units) = <<>> <=> Len(Tail(units)) = 0
    BY <1>1, EmptySeq
  <1>2. CASE Len(units) = 1
    <2>1. Tail(units) = <<>>
      BY <1>0, <1>1, <1>2
    <2>2. LastOf(units[1], Tail(units)) = LastOf(u, units)
      BY <1>2, <2>1 DEF LastOf
    <2>3. \A k \in 1 .. Len(Tail(units)) - 1 : FALSE
      BY <1>1, <1>2
    <2> QED
      BY <2>1, <2>2, <2>3 DEF Chained
  <1>3. CASE Len(units) > 1
    <2>0. 1 \in 1 .. Len(units) - 1 /\ Tail(units) # <<>>
      BY <1>0, <1>1, <1>3
    <2>1. Tail(units)[1] = units[1 + 1] /\ Comes(given, units[1], units[1 + 1])
      BY <1>1, <2>0 DEF Chained
    <2>2. ASSUME NEW k \in 1 .. Len(Tail(units)) - 1
          PROVE  Comes(given, Tail(units)[k], Tail(units)[k + 1])
      <3>1. k \in 1 .. Len(units) - 1 /\ k + 1 \in 1 .. Len(units) - 1
        BY <1>1
      <3>2. Tail(units)[k] = units[k + 1] /\ Tail(units)[k + 1] = units[(k + 1) + 1]
        BY <1>1, <3>1
      <3> QED
        BY <3>1, <3>2 DEF Chained
    <2>3. Tail(units)[Len(Tail(units))] = units[Len(units)]
      BY <1>1, <1>3
    <2> QED
      BY <2>0, <2>1, <2>2, <2>3 DEF Chained, LastOf
  <1> QED
    BY <1>1, <1>2, <1>3 DEF Chained

\* The n units of the packet "kind" after its first p.
IsPart(written, kind, p, n) ==
    /\ kind \in Packets /\ p \in Nat /\ n \in Nat \ {0} /\ p + n <= Total(kind)
    /\ written \in Seq(Units) /\ Len(written) = n
    /\ \A k \in 1 .. n : written[k] = At(kind, p + k)

(* Units of one packet are written. *)
LEMMA ChainedWrite ==
    ASSUME NEW given, NEW u, NEW units \in Seq(Units), Chained(given, u, units),
           NEW written, NEW kind, NEW p, NEW n, IsPart(written, kind, p, n),
           Comes(given, LastOf(u, units), At(kind, p + 1))
    PROVE  /\ Chained(given, u, units \o written)
           /\ LastOf(u, units \o written) = At(kind, p + n)
  <1>0. /\ kind \in Packets /\ p \in Nat /\ n \in Nat \ {0} /\ p + n <= Total(kind)
        /\ written \in Seq(Units) /\ Len(written) = n
        /\ \A k \in 1 .. n : written[k] = At(kind, p + k)
    BY DEF IsPart
  <1> DEFINE whole == units \o written
             l == Len(units)
  <1>1. /\ l \in Nat /\ whole \in Seq(Units) /\ Len(whole) = l + n
        /\ \A k \in 1 .. l : whole[k] = units[k]
        /\ \A k \in 1 .. n : whole[l + k] = written[k]
    <2>1. \A k \in 1 .. n : l + k \in 1 .. l + n /\ l + k > l /\ (l + k) - l = k
      BY <1>0
    <2> QED
      BY <1>0, <2>1
  <1>2. whole # <<>> /\ whole[l + n] = At(kind, p + n) /\ whole[l + 1] = At(kind, p + 1)
    BY <1>0, <1>1
  <1>3. LastOf(u, whole) = At(kind, p + n)
    BY <1>0, <1>1, <1>2 DEF LastOf
  <1>4. kind # "none" /\ Total(kind) \in Nat
    BY <1>0, TotalType, PayloadIsNat DEF Packets, Messages
  <1>5. \A q \in Nat : q + 1 <= Total(kind) => Comes(given, At(kind, q), At(kind, q + 1))
    BY <1>0, <1>4 DEF Comes, At
  <1>6. Comes(given, u, whole[1])
    <2>1. CASE l = 0
      <3>1. units = <<>>
        BY <2>1
      <3> QED
        BY <1>2, <2>1, <3>1 DEF LastOf
    <2>2. CASE l > 0
      BY <1>1, <2>2 DEF Chained
    <2> QED
      BY <1>0, <1>1, <2>1, <2>2
  <1>7. ASSUME NEW k \in 1 .. Len(whole) - 1
        PROVE  Comes(given, whole[k], whole[k + 1])
    <2>0. k \in Nat \ {0} /\ k <= l + n - 1
      BY <1>0, <1>1
    <2>1. CASE k < l
      <3>1. k \in 1 .. l - 1 /\ whole[k] = units[k] /\ whole[k + 1] = units[k + 1]
        BY <1>1, <2>0, <2>1
      <3> QED
        BY <3>1 DEF Chained
    <2>2. CASE k = l
      <3>1. units # <<>> /\ whole[k] = units[l] /\ whole[k + 1] = At(kind, p + 1)
        BY <1>0, <1>1, <1>2, <2>0, <2>2
      <3> QED
        BY <3>1 DEF LastOf
    <2>3. CASE k > l
      <3> DEFINE j == k - l
      <3>1. j \in 1 .. n - 1 /\ j + 1 \in 1 .. n /\ k = l + j /\ k + 1 = l + (j + 1)
        BY <1>0, <1>1, <2>0, <2>3
      <3> HIDE DEF j
      <3>2. whole[k] = At(kind, p + j) /\ whole[k + 1] = At(kind, p + (j + 1))
        BY <1>0, <1>1, <3>1
      <3>3. p + j \in Nat /\ (p + j) + 1 = p + (j + 1) /\ (p + j) + 1 <= Total(kind)
        BY <1>0, <1>4, <3>1
      <3> QED
        BY <1>5, <3>2, <3>3
    <2>4. k < l \/ k = l \/ k > l
      BY <1>1, <2>0
    <2> QED
      BY <2>1, <2>2, <2>3, <2>4
  <1>8. Chained(given, u, whole)
    BY <1>2, <1>6, <1>7 DEF Chained
  <1> QED
    BY <1>3, <1>8

(* The client's steps.  The broker and what it read stay the same. *)
LEMMA StatusKept ==
    ASSUME StatusInv, failed \subseteq failed', ~up' => wire' = <<>>,
           UNCHANGED <<broker, parser, status>>,
           Reads' => Reads,
           ASSUME Reads', NEW u \in AnyUnit, StreamAfter(failed, pc, packet, pos, u, wire)
           PROVE  StreamAfter(failed', pc', packet', pos', u, wire')
    PROVE  StatusInv'
  <1>1. StatusAfterTheEnd'
    BY DEF StatusInv, StatusAfterTheEnd
  <1>2. ASSUME Reads'
        PROVE  \E u \in AnyUnit : /\ HasTaken(u)'
                                  /\ StreamAfter(failed', pc', packet', pos', u, wire')
    <2>1. PICK u \in AnyUnit : HasTaken(u) /\ StreamAfter(failed, pc, packet, pos, u, wire)
      BY <1>2 DEF StatusInv
    <2>2. HasTaken(u)'
      BY <2>1 DEF HasTaken, InStep, Behind, StatusSoFar, parser
    <2>3. StreamAfter(failed', pc', packet', pos', u, wire')
      BY <1>2, <2>1
    <2> QED
      BY <2>2, <2>3
  <1>3. broker' \in {"waiting", "refused"} => status' = "none"
    BY DEF StatusInv
  <1> QED
    BY <1>1, <1>2, <1>3 DEF StatusInv

(* What comes next is the beginning of a packet, or nothing. *)
LEMMA NextGoesOn ==
    ASSUME NEW kind, NEW given, NEW u, SendNext(kind),
           kind # "none" => Turn(given, u, kind)
    PROVE  GoesOn(given, pc', packet', pos', u)
  <1>1. CASE kind = "none"
    BY <1>1 DEF SendNext, GoesOn, ReadingConnack
  <1>2. CASE kind # "none"
    <2>1. pc' = "send" /\ packet' = kind /\ pos' + 1 = 1
      BY <1>2 DEF SendNext
    <2>2. Comes(given, u, At(kind, 1))
      BY <1>2 DEF Comes, At
    <2> QED
      BY <2>1, <2>2 DEF GoesOn, ReadingConnack
  <1> QED
    BY <1>1, <1>2

LEMMA StatusWrite ==
    ASSUME TypeInv, StatusInv, Write
    PROVE  StatusInv'
  <1> PICK n \in 1 .. ChunkEnd - pos :
        /\ wire' = IF broker \in {"left", "gone"} THEN wire
                   ELSE wire \o [k \in 1 .. n |-> Unit(pos + k)]
        /\ IF Taken(n) < Total(packet)
           THEN pos' = Taken(n) /\ UNCHANGED <<pc, packet, published>>
           ELSE IF packet = "connect"
                THEN pc' = "type" /\ UNCHANGED <<pos, packet, published>>
                ELSE SendNext(AfterSuccess)
    BY DEF Write
  <1>1. pc = "send" /\ up /\ UNCHANGED <<failed, up, broker, parser, status>>
    BY DEF Write
  <1>2. packet \in Packets /\ pos \in 0 .. Total(packet) - 1 /\ Total(packet) \in Nat
    BY <1>1, TotalType, PayloadIsNat DEF TypeInv, ClientOK
  <1>3. ChunkEnd \in Nat /\ n \in Nat \ {0} /\ pos \in Nat
    BY <1>2, ChunkEndIs
  <1> DEFINE written == [k \in 1 .. n |-> Unit(pos + k)]
  <1>4. /\ Taken(n) = pos + n /\ pos + n <= Total(packet) /\ written \in Seq(Units)
        /\ Len(written) = n /\ \A k \in 1 .. n : written[k] = At(packet, pos + k)
    <2>1. Taken(n) = pos + n /\ Taken(n) <= Total(packet) /\ written \in Seq(Units)
      BY <1>1, WrittenUnits DEF TypeInv
    <2>2. DOMAIN written = 1 .. n
      OBVIOUS
    <2>3. \A k \in 1 .. n : written[k] = At(packet, pos + k)
      BY DEF Unit, At
    <2> QED
      BY <1>3, <2>1, <2>2, <2>3
  <1>5. ASSUME NEW u, u = At(packet, pos + n)
        PROVE  GoesOn(failed', pc', packet', pos', u)
    <2>1. CASE pos + n < Total(packet)
      <3>1. pc' = "send" /\ packet' = packet /\ pos' = pos + n
        BY <1>1, <1>4, <2>1
      <3>2. packet # "none"
        BY <1>2 DEF Packets, Messages
      <3>3. Comes(failed', u, At(packet', pos' + 1))
        BY <1>5, <2>1, <3>1, <3>2 DEF Comes, At
      <3> QED
        BY <3>1, <3>3 DEF GoesOn, ReadingConnack
    <2>2. CASE pos + n = Total(packet) /\ packet = "connect"
      <3>1. pc' = "type" /\ u = At("connect", 2)
        BY <1>4, <1>5, <2>2, TotalIs
      <3> QED
        BY <3>1 DEF GoesOn
    <2>3. CASE pos + n = Total(packet) /\ packet # "connect"
      <3>1. SendNext(AfterSuccess)
        BY <1>2, <1>4, <2>3
      <3>2. AfterSuccess # "none" => Turn(failed', u, AfterSuccess)
        BY <1>2, <1>5, <2>3 DEF AfterSuccess, Turn, At, Packets, Messages
      <3> QED
        BY <3>1, <3>2, NextGoesOn
    <2> QED
      BY <1>2, <1>3, <1>4, <2>1, <2>2, <2>3
  <1> HIDE DEF written
  <1>6. ASSUME Reads', NEW u \in AnyUnit, StreamAfter(failed, pc, packet, pos, u, wire)
        PROVE  StreamAfter(failed', pc', packet', pos', u, wire')
    <2>1. wire' = wire \o written /\ wire \in Seq(Units)
      BY <1>1, <1>6 DEF Reads, TypeInv, StreamOK, written
    <2>2. Chained(failed, u, wire) /\ Comes(failed, LastOf(u, wire), At(packet, pos + 1))
      BY <1>1, <1>6 DEF StreamAfter, GoesOn
    <2>3. Chained(failed, u, wire \o written) /\ LastOf(u, wire \o written) = At(packet, pos + n)
      <3>1. IsPart(written, packet, pos, n)
        BY <1>2, <1>3, <1>4 DEF IsPart
      <3> QED
        BY <2>1, <2>2, <3>1, ChainedWrite
    <2>4. GoesOn(failed', pc', packet', pos', LastOf(u, wire \o written))
      BY <1>5, <2>3
    <2> QED
      BY <1>1, <2>1, <2>3, <2>4 DEF StreamAfter
  <1>7. Reads' => Reads
    BY <1>1 DEF Reads, parser
  <1> QED
    BY <1>1, <1>6, <1>7, StatusKept

(* A packet is given up after u: what follows may follow u. *)
LEMMA FailedTurn ==
    ASSUME NEW u \in AnyUnit, NEW kind \in Packets, NEW p \in Nat, p < Total(kind), NEW given,
           Comes(given, u, At(kind, p + 1))
    PROVE  LET then == CASE kind = "state" -> "offline" [] kind = "disconnect" -> "none"
                         [] OTHER -> "disconnect"
           IN  then # "none" => Turn(given \cup {kind}, u, then)
  <1> DEFINE then == CASE kind = "state" -> "offline" [] kind = "disconnect" -> "none"
                       [] OTHER -> "disconnect"
  <1>0. Total(kind) \in Nat /\ kind # "none"
    BY TotalType, PayloadIsNat DEF Packets, Messages
  <1>1. CASE u.kind = kind /\ u.n < Total(kind)
    BY <1>0, <1>1 DEF Turn, Packets, Messages
  <1>2. CASE Turn(given, u, kind)
    BY <1>0, <1>2 DEF Turn, Packets, Messages
  <1> QED
    BY <1>1, <1>2 DEF Comes, At

LEMMA StatusWriteFails ==
    ASSUME TypeInv, StatusInv, WriteFails
    PROVE  StatusInv'
  <1>1. /\ pc = "send" /\ failed' = failed \cup {packet} /\ SendNext(AfterFailure)
        /\ UNCHANGED <<wire, up, broker, parser, status>>
    BY DEF WriteFails, stream
  <1>2. packet \in Packets /\ pos \in Nat /\ pos < Total(packet)
    BY <1>1 DEF TypeInv, ClientOK
  <1>3. ASSUME NEW u \in AnyUnit, StreamAfter(failed, pc, packet, pos, u, wire)
        PROVE  StreamAfter(failed', pc', packet', pos', u, wire')
    <2>1. Chained(failed', u, wire')
      BY <1>1, <1>3, ChainedMore DEF StreamAfter
    <2>2. LastOf(u, wire) \in AnyUnit
      BY <1>3, EmptySeq DEF LastOf, TypeInv, StreamOK, AnyUnit
    <2>3. Comes(failed, LastOf(u, wire), At(packet, pos + 1))
      BY <1>1, <1>3 DEF StreamAfter, GoesOn
    <2>4. AfterFailure # "none" => Turn(failed', LastOf(u, wire), AfterFailure)
      BY <1>1, <1>2, <2>2, <2>3, FailedTurn DEF AfterFailure, AfterFailedState
    <2>5. GoesOn(failed', pc', packet', pos', LastOf(u, wire))
      BY <1>1, <2>4, NextGoesOn
    <2> QED
      BY <1>1, <2>1, <2>5 DEF StreamAfter
  <1>4. Reads' => Reads
    BY <1>1 DEF Reads, parser
  <1>5. ~up' => wire' = <<>>
    BY <1>1 DEF StatusInv
  <1> QED
    BY <1>1, <1>3, <1>4, <1>5, StatusKept

(* CONNECT was written and nothing after it. *)
LEMMA ConnackGoesOn ==
    ASSUME NEW given, NEW u, u = At("connect", 2),
           pc' \in ReadingConnack \/ SendNext("discovery") \/ SendNext("disconnect")
    PROVE  GoesOn(given, pc', packet', pos', u)
  <1>1. Turn(given, u, "discovery") /\ Turn(given, u, "disconnect")
    BY TotalIs DEF Turn, At
  <1>2. CASE pc' \in ReadingConnack
    <2>1. pc' # "send"
      BY <1>2 DEF ReadingConnack
    <2> QED
      BY <2>1 DEF GoesOn
  <1>3. CASE SendNext("discovery")
    BY <1>1, <1>3, NextGoesOn
  <1>4. CASE SendNext("disconnect")
    BY <1>1, <1>4, NextGoesOn
  <1> QED
    BY <1>2, <1>3, <1>4

LEMMA StatusReadsConnack ==
    ASSUME TypeInv, StatusInv, ReadFails \/ ReadType \/ ReadLength \/ ReadBody \/ Drain
    PROVE  StatusInv'
  <1>1. /\ pc \in ReadingConnack
        /\ UNCHANGED <<failed, wire, up, broker, parser, status>>
    BY DEF ReadFails, ReadType, ReadLength, ReadBody, Drain, ReadingConnack, stream
  <1>2. \/ pc' \in ReadingConnack
        \/ SendNext("discovery") \/ SendNext("disconnect")
    <2>1. GiveUp => SendNext("disconnect")
      BY DEF GiveUp
    <2>2. \A code : Finish(code) => SendNext("discovery") \/ SendNext("disconnect")
      BY <2>1 DEF Finish, AfterConnect
    <2>3. CASE ReadFails
      BY <2>1, <2>3 DEF ReadFails
    <2>4. CASE ReadType
      BY <2>1, <2>4 DEF ReadType, ReadingConnack
    <2>5. CASE ReadLength
      BY <2>1, <2>5 DEF ReadLength, ReadingConnack
    <2>6. CASE ReadBody
      <3>1. \/ pc' = "drain" \/ GiveUp \/ Finish(rx[2])
        BY <2>6 DEF ReadBody
      <3> QED
        BY <2>1, <2>2, <3>1 DEF ReadingConnack
    <2>7. CASE Drain
      <3>1. \/ pc' = pc \/ Finish(rx[1])
        BY <2>7 DEF Drain
      <3> QED
        BY <1>1, <2>2, <3>1
    <2> QED
      BY <2>3, <2>4, <2>5, <2>6, <2>7
  <1>3. ASSUME NEW u \in AnyUnit, StreamAfter(failed, pc, packet, pos, u, wire)
        PROVE  StreamAfter(failed', pc', packet', pos', u, wire')
    <2>1. Chained(failed', u, wire')
      BY <1>1, <1>3 DEF StreamAfter
    <2>2. LastOf(u, wire) = At("connect", 2)
      BY <1>1, <1>3 DEF StreamAfter, GoesOn
    <2>3. GoesOn(failed', pc', packet', pos', LastOf(u, wire))
      BY <1>2, <2>2, ConnackGoesOn
    <2> QED
      BY <1>1, <2>1, <2>3 DEF StreamAfter
  <1>4. (Reads' => Reads) /\ (~up' => wire' = <<>>)
    BY <1>1 DEF StatusInv, Reads, parser
  <1> QED
    BY <1>1, <1>3, <1>4, StatusKept

LEMMA StatusOther ==
    ASSUME TypeInv, StatusInv, Close \/ Break \/ UNCHANGED vars
    PROVE  StatusInv'
  <1>1. UNCHANGED <<failed, packet, pos, broker, parser, status>>
    BY DEF Close, Break, vars, client
  <1>2. CASE Break
    <2>1. wire' = <<>> /\ up' = FALSE /\ ~Reads'
      BY <1>2 DEF Break, Reads
    <2> QED
      BY <1>1, <2>1, StatusKept
  <1>3. CASE Close \/ UNCHANGED vars
    <2>1. UNCHANGED <<up, wire>> /\ (pc' = pc \/ pc' = "ended")
      BY <1>3 DEF Close, vars, stream, client
    <2>2. ASSUME NEW u \in AnyUnit, StreamAfter(failed, pc, packet, pos, u, wire)
          PROVE  StreamAfter(failed', pc', packet', pos', u, wire')
      BY <1>1, <2>1, <2>2 DEF StreamAfter, GoesOn, ReadingConnack
    <2>3. (Reads' => Reads) /\ (~up' => wire' = <<>>)
      BY <1>1, <2>1 DEF StatusInv, Reads, parser
    <2> QED
      BY <1>1, <2>2, <2>3, StatusKept
  <1> QED
    BY <1>2, <1>3

(* The broker's steps.  It takes the unit w that comes after u. *)
LEMMA BrokerTakes ==
    ASSUME TypeInv, StatusInv, Reading, Unread, UNCHANGED <<client, up>>, need >= 0
    PROVE  \E u \in AnyUnit, w \in Units :
              /\ HasTaken(u) /\ Head(wire) = w /\ Comes(failed, u, w) /\ up
              /\ StreamAfter(failed', pc', packet', pos', w, wire')
  <1>1. /\ wire \in Seq(Units) /\ wire # <<>> /\ wire' = Tail(wire)
        /\ Head(wire) = wire[1] /\ wire[1] \in Units
    BY DEF Reading, Unread, TypeInv, StreamOK
  <1>2. up /\ Reads
    BY <1>1 DEF StatusInv, Reads, Reading
  <1>3. PICK u \in AnyUnit : HasTaken(u) /\ StreamAfter(failed, pc, packet, pos, u, wire)
    BY <1>2 DEF StatusInv
  <1>4. /\ Comes(failed, u, wire[1]) /\ Chained(failed, wire[1], Tail(wire))
        /\ LastOf(wire[1], Tail(wire)) = LastOf(u, wire)
    BY <1>1, <1>3, ChainedTail DEF StreamAfter
  <1>5. StreamAfter(failed', pc', packet', pos', wire[1], wire')
    BY <1>1, <1>3, <1>4 DEF StreamAfter, client
  <1> QED
    BY <1>1, <1>2, <1>3, <1>4, <1>5

(* The units that can come when the broker has taken u. *)
LEMMA Kinds ==
    /\ \A kind \in Packets : kind # "none" /\ Total(kind) \in 1 .. 3 + Payload
    /\ Total("connect") = 2 /\ Total("disconnect") = 1
    /\ \A kind \in Messages : Total(kind) = 3 + Payload /\ Total(kind) \in Nat
    /\ Messages = {"discovery", "online", "state", "offline"}
    /\ Packets = {"discovery", "online", "state", "offline", "connect", "disconnect"}
  BY TotalType, TotalIs, PayloadIsNat DEF Packets, Messages

\* The broker has a packet whole, so the next one begins.
LEMMA WholeInStep ==
    ASSUME TypeInv, NEW u, InStep(u), need = 0, NEW w \in Units, Comes(failed, u, w)
    PROVE  /\ w.n = 1 /\ Turn(failed, u, w.kind)
           /\ cur # "none" => u = At(cur, Total(cur)) /\ cur \in Packets
  <1>1. cur \in Messages \cup {"connect", "none"}
    BY DEF TypeInv, BrokerOK, InStep
  <1>2. CASE cur = "none"
    BY <1>2 DEF InStep, Nothing, Comes, At
  <1>3. CASE cur # "none"
    <2>1. cur \in Packets /\ Total(cur) \in Nat
      BY <1>1, <1>3, Kinds DEF Packets
    <2>2. u = At(cur, Total(cur))
      BY <1>3, <2>1 DEF InStep
    <2> QED
      BY <1>3, <2>1, <2>2 DEF Comes, At
  <1> QED
    BY <1>2, <1>3

LEMMA StatusBegins ==
    ASSUME TypeInv, StatusInv, BrokerBegins
    PROVE  StatusInv'
  <1>1. /\ Reading /\ Unread /\ need = 0 /\ Head(wire).n = 1 /\ Head(wire).kind # "disconnect"
        /\ UNCHANGED <<client, up, status, log>> /\ UNCHANGED failed
    BY DEF BrokerBegins, client
  <1>2. PICK u \in AnyUnit, w \in Units :
              /\ HasTaken(u) /\ Head(wire) = w /\ Comes(failed, u, w) /\ up
              /\ StreamAfter(failed', pc', packet', pos', w, wire')
    BY <1>1, BrokerTakes
  <1>3. InStep(u)
    <2>1. u # At("disconnect", 1)
      BY <1>1, <1>2, Kinds DEF Comes, Turn, At
    <2>2. ~Behind(u)
      <3> SUFFICES ASSUME Behind(u) PROVE FALSE
        OBVIOUS
      <3>1. PICK n \in 1 .. 2 + Payload : u = At("offline", n) /\ n + need < 3 + Payload
        BY DEF Behind
      <3>2. w # At("offline", n + 1)
        BY <1>1, <1>2, PayloadIsNat DEF At
      <3>3. Turn(failed, u, w.kind)
        BY <1>2, <3>1, <3>2 DEF Comes, At
      <3>4. w.kind = "disconnect"
        BY <3>1, <3>3 DEF Turn, At
      <3> QED
        BY <1>1, <1>2, <3>4
    <2> QED
      BY <1>2, <2>1, <2>2 DEF HasTaken
  <1>4. /\ w.n = 1 /\ Turn(failed, u, w.kind) /\ w.kind \in Packets \ {"disconnect"}
        /\ cur # "none" => u = At(cur, Total(cur)) /\ cur \in Packets
    BY <1>1, <1>2, <1>3, WholeInStep DEF Units
  <1>5. CASE broker = "waiting" /\ w.kind # "connect"
    <2>1. cur = "none" \/ cur = "connect"
      BY <1>3, <1>5 DEF InStep
    <2>2. broker' = "gone" /\ status = "none"
      BY <1>2, <1>5 DEF BrokerBegins, StatusInv
    <2> QED
      BY <1>1, <1>2, <2>2 DEF StatusInv, StatusAfterTheEnd, Reads
  <1>6. CASE ~(broker = "waiting" /\ w.kind # "connect")
    <2>1. /\ cur' = w.kind /\ need' = Total(w.kind) - 1 /\ UNCHANGED broker
      BY <1>2, <1>6 DEF BrokerBegins
    <2>2. intact' /\ topicOk'
      BY <1>2, <1>6 DEF BrokerBegins
    <2>3. broker \in {"waiting", "accepted"}
      BY <1>1 DEF Reading
    <2>4. w = At(w.kind, 1) /\ w \in AnyUnit
      BY <1>4 DEF At, Units, AnyUnit
    <2>5. Total(w.kind) \in 1 .. 3 + Payload /\ need' < Total(w.kind) /\ Total(w.kind) - need' = 1
      BY <1>4, <2>1, Kinds
    <2>6. CASE cur = "none"
      <3>1. broker = "waiting" /\ w.kind = "connect" /\ status = "none"
        BY <1>3, <1>6, <2>6 DEF InStep, StatusSoFar
      <3>2. InStep(w)'
        BY <1>1, <2>1, <2>2, <2>4, <2>5, <3>1, Kinds DEF InStep, StatusSoFar
      <3> QED
        BY <1>1, <1>2, <2>1, <2>4, <3>1, <3>2 DEF StatusInv, StatusAfterTheEnd, HasTaken
    <2>7. CASE cur # "none"
      <3>1. broker = "accepted" /\ status = StatusSoFar
        BY <1>1, <1>3, <2>3, <2>7 DEF InStep
      <3>2. /\ u.kind = cur /\ w.kind \in {"discovery", "online", "state", "offline"}
            /\ w.kind = "discovery" => cur = "connect"
            /\ w.kind = "online" => cur = "discovery"
            /\ w.kind \in {"state", "offline"} => cur \in {"online", "state"}
        BY <1>4, <2>7 DEF Turn, At
      <3>3. need' > 0
        BY <2>1, <3>2, Kinds, PayloadIsNat
      <3>4. status' = StatusSoFar'
        BY <1>1, <2>1, <3>1, <3>2, <3>3 DEF StatusSoFar
      <3>5. InStep(w)'
        BY <1>1, <2>1, <2>2, <2>4, <2>5, <3>1, <3>2, <3>4 DEF InStep
      <3> QED
        BY <1>1, <1>2, <2>1, <2>4, <3>1, <3>5 DEF StatusInv, StatusAfterTheEnd, HasTaken
    <2> QED
      BY <2>6, <2>7
  <1> QED
    BY <1>5, <1>6

LEMMA StatusDisconnects ==
    ASSUME TypeInv, StatusInv, BrokerDisconnects
    PROVE  StatusInv'
  <1>1. /\ Reading /\ Unread /\ need = 0 /\ Head(wire) = At("disconnect", 1)
        /\ UNCHANGED <<client, up, status, log>> /\ UNCHANGED failed
        /\ broker' = IF broker = "accepted" THEN "left" ELSE "gone"
    BY DEF BrokerDisconnects, client, At
  <1>2. PICK u \in AnyUnit, w \in Units :
              /\ HasTaken(u) /\ Head(wire) = w /\ Comes(failed, u, w) /\ up
              /\ StreamAfter(failed', pc', packet', pos', w, wire')
    BY <1>1, BrokerTakes
  <1>3. w.kind = "disconnect" /\ w.n = 1
    BY <1>1, <1>2 DEF At
  <1>4. ~Reads' /\ (~up' => wire' = <<>>)
    BY <1>1, <1>2 DEF Reads
  <1>5. CASE broker = "waiting"
    BY <1>1, <1>4, <1>5 DEF StatusInv, StatusAfterTheEnd
  <1>6. CASE broker = "accepted"
    <2>1. status # "garbled" /\ (status = "online" => "offline" \in failed)
      <3>1. CASE InStep(u)
        <4>1. cur # "none" /\ status = StatusSoFar
          BY <1>6, <3>1 DEF InStep
        <4>2. cur \in Messages \cup {"connect"} /\ u.kind = cur /\ Turn(failed, u, "disconnect") /\ u.n = Total(cur)
          BY <1>1, <1>2, <1>3, <3>1, <4>1, WholeInStep DEF At, TypeInv, BrokerOK, InStep
        <4>3. status \in {"none", "online", "offline"}
          BY <4>1 DEF StatusSoFar
        <4>4. CASE cur \in {"connect", "discovery", "offline"}
          BY <1>1, <4>1, <4>4 DEF StatusSoFar
        <4>5. CASE cur \in {"online", "state"}
          <5>1. ~(u.n < Total(u.kind))
            BY <4>2, Kinds, PayloadIsNat DEF Packets
          <5> QED
            BY <4>2, <4>3, <4>5, <5>1 DEF Turn
        <4> QED
          BY <4>2, <4>3, <4>4, <4>5, Kinds
      <3>2. CASE Behind(u)
        <4>1. PICK n \in 1 .. 2 + Payload : u = At("offline", n) /\ n + need < 3 + Payload
          BY <3>2 DEF Behind
        <4>2. status = "online" /\ n < 3 + Payload /\ Total("offline") = 3 + Payload
          BY <1>1, <3>2, <4>1, Kinds, PayloadIsNat DEF Behind
        <4>3. Turn(failed, u, "disconnect")
          BY <1>2, <1>3, <4>1 DEF Comes, At
        <4>4. "offline" \in failed
          BY <4>1, <4>2, <4>3, PayloadIsNat DEF Turn, At
        <4> QED
          BY <4>2, <4>4
      <3>3. CASE u = At("disconnect", 1)
        BY <1>2, <3>3, Kinds DEF Comes, Turn, At
      <3> QED
        BY <1>2, <3>1, <3>2, <3>3 DEF HasTaken
    <2> QED
      BY <1>1, <1>4, <1>6, <2>1 DEF StatusInv, StatusAfterTheEnd
  <1> QED
    BY <1>1, <1>5, <1>6 DEF Reading

(* The steps after which the broker reads no more packets. *)
LEMMA StatusStops ==
    ASSUME TypeInv, StatusInv, BrokerLost \/ BrokerSwallows \/ BrokerSeesEnd
    PROVE  StatusInv'
  <1>1. UNCHANGED <<failed, up>> /\ broker \in {"waiting", "accepted", "refused"}
    BY DEF BrokerLost, BrokerSwallows, BrokerSeesEnd, Reading, client, stream
  <1>2. ~up' => wire' = <<>>
    BY <1>1 DEF StatusInv, BrokerLost, BrokerSwallows, BrokerSeesEnd, Reading, stream
  <1>3. ~Reads'
    <2>1. CASE BrokerLost
      BY <2>1 DEF BrokerLost, Reads
    <2>2. CASE BrokerSwallows
      BY <2>2 DEF BrokerSwallows, Reads, parser, TypeInv, BrokerOK
    <2>3. CASE BrokerSeesEnd
      BY <2>3 DEF BrokerSeesEnd, Reads
    <2> QED
      BY <2>1, <2>2, <2>3
  <1>4. \/ broker' = broker /\ status' = status
        \/ /\ broker' = "gone"
           /\ status' = IF broker = "accepted" THEN "offline" ELSE status
    <2>1. CASE BrokerLost
      BY <2>1 DEF BrokerLost
    <2>2. CASE BrokerSwallows
      BY <2>2 DEF BrokerSwallows
    <2>3. CASE BrokerSeesEnd
      BY <2>3 DEF BrokerSeesEnd
    <2> QED
      BY <2>1, <2>2, <2>3
  <1>5. broker \in {"waiting", "refused"} => status = "none"
    BY DEF StatusInv
  <1> QED
    BY <1>1, <1>2, <1>3, <1>4, <1>5 DEF StatusInv, StatusAfterTheEnd

(* A unit of a packet: the packet's own, or of what was sent when the packet was given up. *)
LEMMA StatusReads ==
    ASSUME TypeInv, TypeInv', StatusInv, BrokerReads
    PROVE  StatusInv'
  <1>1. /\ Reading /\ Unread /\ need > 0 /\ need >= 0 /\ UNCHANGED <<client, up, cur>> /\ UNCHANGED failed
        /\ need' = need - 1 /\ need \in Int
        /\ IF need = 1 THEN Complete(intact', topicOk') ELSE UNCHANGED <<broker, rx, status, log>>
    BY DEF BrokerReads, client, TypeInv, BrokerOK
  <1>2. PICK u \in AnyUnit, w \in Units :
              /\ HasTaken(u) /\ Head(wire) = w /\ Comes(failed, u, w) /\ up
              /\ StreamAfter(failed', pc', packet', pos', w, wire')
    BY <1>1, BrokerTakes
  <1>3. /\ w \in AnyUnit /\ cur \in Messages \cup {"connect"} /\ (~up' => wire' = <<>>)
        /\ broker \in {"waiting", "accepted"}
    BY <1>1, <1>2 DEF AnyUnit, TypeInv, BrokerOK, Reading
  <1>4. cur \in Packets /\ cur # "none" /\ cur # "junk" /\ Total(cur) \in 1 .. 3 + Payload
    BY <1>3, Kinds DEF Packets
  <1>5. CASE InStep(u)
    <2>1. /\ u = At(cur, Total(cur) - need) /\ need < Total(cur) /\ status = StatusSoFar
          /\ broker = "waiting" <=> cur = "connect"
      BY <1>1, <1>4, <1>5 DEF InStep
    <2>2. u.kind = cur /\ u.n = Total(cur) - need /\ u.n < Total(cur) /\ u.n # Total(cur) /\ u.n >= 1
      BY <1>1, <1>4, <2>1 DEF At
    <2>3. CASE w = At(cur, u.n + 1)
      <3>1. Head(wire) = [kind |-> cur, n |-> Total(cur) - need + 1]
        BY <1>2, <2>2, <2>3 DEF At
      <3>2. intact' /\ topicOk'
        BY <1>5, <3>1 DEF BrokerReads, InStep, Fits
      <3>3. w = At(cur', Total(cur') - need') /\ need' < Total(cur')
        BY <1>1, <1>4, <2>2, <2>3
      <3>4. CASE need # 1
        <4>1. UNCHANGED <<broker, status>>
          BY <1>1, <3>4
        <4>2. status' = StatusSoFar'
          BY <1>1, <2>1, <3>4, <4>1 DEF StatusSoFar
        <4>3. InStep(w)'
          BY <1>1, <1>4, <2>1, <3>2, <3>3, <3>4, <4>1, <4>2 DEF InStep
        <4> QED
          BY <1>1, <1>2, <1>3, <4>1, <4>3 DEF StatusInv, StatusAfterTheEnd, HasTaken
      <3>5. CASE need = 1 /\ cur = "connect"
        <4>1. broker' \in {"accepted", "refused"} /\ status' = status /\ status = "none"
          BY <1>1, <2>1, <3>2, <3>5 DEF Complete, StatusSoFar
        <4>2. status' = StatusSoFar'
          BY <1>1, <3>5, <4>1 DEF StatusSoFar
        <4>3. InStep(w)'
          BY <1>1, <1>4, <3>2, <3>3, <3>5, <4>1, <4>2 DEF InStep
        <4> QED
          BY <1>1, <1>2, <1>3, <4>1, <4>3 DEF StatusInv, StatusAfterTheEnd, HasTaken
      <3>6. CASE need = 1 /\ cur # "connect"
        <4>1. /\ broker' = broker /\ broker = "accepted"
              /\ status' = IF cur \in {"online", "offline"} THEN cur ELSE status
          BY <1>1, <1>3, <2>1, <3>2, <3>6 DEF Complete, Retained, Messages
        <4>2. status' = StatusSoFar'
          BY <1>1, <1>3, <2>1, <3>6, <4>1, Kinds DEF StatusSoFar
        <4>3. InStep(w)'
          BY <1>1, <1>4, <3>2, <3>3, <3>6, <4>1, <4>2 DEF InStep
        <4> QED
          BY <1>1, <1>2, <1>3, <4>1, <4>3 DEF StatusInv, StatusAfterTheEnd, HasTaken
      <3> QED
        BY <3>4, <3>5, <3>6
    <2>4. CASE w # At(cur, u.n + 1)
      <3>1. w.n = 1 /\ Turn(failed, u, w.kind) /\ w = At(w.kind, 1)
        BY <1>2, <2>2, <2>4 DEF Comes, At, Units
      <3>2. w.kind = "disconnect" \/ (cur = "state" /\ w.kind = "offline")
        <4>1. u.n # Total(u.kind) /\ u.kind = cur
          BY <2>2
        <4> QED
          BY <1>4, <3>1, <4>1 DEF Turn
      <3>3. ~intact'
        <4>1. Head(wire) # [kind |-> cur, n |-> Total(cur) - need + 1]
          BY <1>2, <2>2, <2>4 DEF At
        <4> QED
          BY <4>1 DEF BrokerReads, Fits
      <3>4. CASE need = 1 /\ cur = "connect"
        <4>1. broker' = "gone" /\ status' = "none"
          BY <1>1, <2>1, <3>3, <3>4 DEF Complete, StatusSoFar
        <4> QED
          BY <1>3, <4>1 DEF StatusInv, StatusAfterTheEnd, Reads
      <3>5. CASE ~(need = 1 /\ cur = "connect")
        <4>1. broker' = broker /\ (broker = "waiting" => status' = status)
          <5>1. CASE need = 1
            BY <1>1, <2>1, <3>5, <5>1 DEF Complete
          <5>2. CASE need # 1
            BY <1>1, <5>2
          <5> QED
            BY <5>1, <5>2
        <4>2. CASE w.kind = "disconnect"
          <5>1. HasTaken(w)'
            BY <3>1, <4>2 DEF HasTaken, At
          <5> QED
            BY <1>1, <1>2, <1>3, <4>1, <5>1 DEF StatusInv, StatusAfterTheEnd
        <4>3. CASE cur = "state" /\ w.kind = "offline"
          <5>1. status = "online" /\ broker = "accepted"
            BY <1>3, <2>1, <4>3 DEF StatusSoFar
          <5>2. status' = status
            <6>1. CASE need = 1
              BY <1>1, <4>3, <6>1 DEF Complete
            <6>2. CASE need # 1
              BY <1>1, <6>2
            <6> QED
              BY <6>1, <6>2
          <5>3. 1 \in 1 .. 2 + Payload /\ 1 + need' < 3 + Payload
            BY <1>1, <1>4, <2>1, PayloadIsNat
          <5>4. Behind(w)'
            BY <1>1, <3>1, <4>1, <4>3, <5>1, <5>2, <5>3 DEF Behind
          <5> QED
            BY <1>1, <1>2, <1>3, <4>1, <5>1, <5>2, <5>4 DEF StatusInv, StatusAfterTheEnd, HasTaken
        <4> QED
          BY <3>2, <4>2, <4>3
      <3> QED
        BY <3>4, <3>5
    <2> QED
      BY <2>3, <2>4
  <1>6. CASE Behind(u)
    <2>1. PICK n \in 1 .. 2 + Payload : u = At("offline", n) /\ n + need < 3 + Payload
      BY <1>6 DEF Behind
    <2>2. cur = "state" /\ broker = "accepted" /\ status = "online"
      BY <1>6 DEF Behind
    <2>3. UNCHANGED <<broker, status>>
      <3>1. CASE need = 1
        BY <1>1, <2>2, <3>1 DEF Complete
      <3>2. CASE need # 1
        BY <1>1, <3>2
      <3> QED
        BY <3>1, <3>2
    <2>4. HasTaken(w)'
      <3>1. CASE w = At("offline", n + 1)
        <4>1. n + 1 \in 1 .. 2 + Payload /\ (n + 1) + need' < 3 + Payload
          BY <1>1, <2>1, PayloadIsNat
        <4> QED
          BY <1>1, <2>2, <2>3, <3>1, <4>1 DEF HasTaken, Behind
      <3>2. CASE w # At("offline", n + 1)
        <4>1. w.n = 1 /\ Turn(failed, u, w.kind)
          BY <1>2, <2>1, <3>2 DEF Comes, At
        <4>2. w.kind = "disconnect"
          BY <2>1, <4>1 DEF Turn, At
        <4> QED
          BY <4>1, <4>2 DEF HasTaken, At, Units
      <3> QED
        BY <3>1, <3>2
    <2> QED
      BY <1>1, <1>2, <1>3, <2>2, <2>3, <2>4 DEF StatusInv, StatusAfterTheEnd
  <1>7. CASE u = At("disconnect", 1)
    BY <1>2, <1>7, Kinds DEF Comes, Turn, At
  <1> QED
    BY <1>2, <1>5, <1>6, <1>7 DEF HasTaken

LEMMA StatusNext == TypeInv /\ TypeInv' /\ StatusInv /\ [Next]_vars => StatusInv'
  <1> SUFFICES ASSUME TypeInv, TypeInv', StatusInv, [Next]_vars PROVE StatusInv'
    OBVIOUS
  <1>1. CASE Write
    BY <1>1, StatusWrite
  <1>2. CASE WriteFails
    BY <1>2, StatusWriteFails
  <1>3. CASE ReadFails \/ ReadType \/ ReadLength \/ ReadBody \/ Drain
    BY <1>3, StatusReadsConnack
  <1>4. CASE Close \/ Break \/ UNCHANGED vars
    BY <1>4, StatusOther
  <1>5. CASE BrokerBegins
    BY <1>5, StatusBegins
  <1>6. CASE BrokerDisconnects
    BY <1>6, StatusDisconnects
  <1>7. CASE BrokerReads
    BY <1>7, StatusReads
  <1>8. CASE BrokerLost \/ BrokerSwallows \/ BrokerSeesEnd
    BY <1>8, StatusStops
  <1> QED
    BY <1>1, <1>2, <1>3, <1>4, <1>5, <1>6, <1>7, <1>8 DEF Next, Broker

(* When the broker is done with a session that was online its status is "offline", wherever the *)
(* writes failed and however the packets were cut, unless "offline" was given up and DISCONNECT *)
(* arrived.                                                                                      *)
THEOREM EndStatus == Spec => []StatusAfterTheEnd
  <1>1. TypeInv /\ StatusInv /\ [Next]_vars => TypeInv' /\ StatusInv'
    BY TypeNext, StatusNext
  <1>2. StatusInv => StatusAfterTheEnd
    BY DEF StatusInv
  <1> QED
    BY <1>1, <1>2, TypeInit, StatusInit, PTL DEF Spec
=============================================================================
