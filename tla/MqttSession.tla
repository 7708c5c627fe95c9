----------------------------- MODULE MqttSession -----------------------------
(***************************************************************************)
(* The MQTT session: mqtt_client/mqtt.c and the end of main.c's main, over *)
(* the transport's contract (a write takes 1 to len bytes or fails, a read *)
(* gives 1 to len bytes or fails) and with a broker at the other end.      *)
(*                                                                         *)
(* A packet is sent by several calls of send_all, and each of those by     *)
(* several of tls_write; a session that gives up in the middle goes on     *)
(* writing to the same stream ("offline", DISCONNECT).  The units of a     *)
(* packet are numbered; its first holds the type and the length, and the   *)
(* broker reads the stream by nothing but the lengths.                     *)
(***************************************************************************)
EXTENDS Integers, Sequences

CONSTANTS Payload,      \* units of a payload
          MaxStates,    \* bound: state messages published
          Extra         \* lengths of what a CONNACK may hold beyond its two bytes

ASSUME MqttSessionAssumption ==
    Payload \in Nat \ {0} /\ MaxStates \in Nat /\ Extra \subseteq Nat

VARIABLES
    pc,         \* "send", reading CONNACK, "close", "ended"
    packet,     \* the packet being sent
    pos,        \* the units of it that were written
    toDrain,    \* drain: units left
    published,  \* bound: state messages begun
    connected,  \* mqtt_connect_with_will returned true
    up,         \* the connection carries data
    fin,        \* tls_close was called
    wire,       \* units on their way to the broker
    rx,         \* units of CONNACK the client can read
    broker,     \* "waiting", "accepted", "refused", "left" (DISCONNECT) or "gone"
    cur, need,  \* the packet the broker is reading and the units it waits for
    intact, topicOk,
    status,     \* the retained message of STATUS_TOPIC
    log,        \* history: the messages the broker took
    failed,     \* history: the packets that were given up
    short       \* history: CONNACK was given up for a short read

client == <<pc, packet, pos, toDrain, published, connected, failed, short>>
stream == <<wire, rx, up, fin>>
parser == <<cur, need, intact, topicOk>>
vars == <<client, stream, broker, parser, status, log>>

\* The size check of CONNECT and plen > 0 are settled by the constants of the build.
Messages == {"discovery", "online", "state", "offline"}
\* Discovery and availability are published retained, the states are not.
Retained == Messages \ {"state"}
Packets  == Messages \cup {"connect", "disconnect"}

\* Where the calls of send_all of a packet end: header, topic length, topic, payload.
Ends(kind) ==
    CASE kind = "connect"    -> {2}
      [] kind = "disconnect" -> {1}
      [] OTHER               -> {1, 2, 3, 3 + Payload}

Total(kind) == CHOOSE n \in Ends(kind) : \A m \in Ends(kind) : m <= n

ChunkEnd == CHOOSE n \in Ends(packet) : n > pos /\ \A m \in Ends(packet) : m > pos => n <= m

Unit(n) == [kind |-> packet, n |-> n]

-----------------------------------------------------------------------------
(* The client: sending. *)

PlainDisconnect == "disconnect"   \* mutation: a failed publish is not followed by "offline"
AfterFailedState == "offline"

\* What main sends when a packet was given up: every way out ends with DISCONNECT.
AfterFailure ==
    CASE packet = "state" -> AfterFailedState
      [] packet = "disconnect" -> "none"
      [] OTHER -> "disconnect"

AfterConnect == "discovery"

AfterSuccess ==
    CASE packet = "discovery" -> "online"
      [] packet \in {"online", "state"} -> "state"
      [] packet = "offline" -> "disconnect"
      [] OTHER -> "none"

\* "none" stands for the end of mqtt_disconnect; CONNECT is followed by a read.
SendNext(kind) ==
    /\ pos' = 0
    /\ published' = IF kind = "state" THEN published + 1 ELSE published
    /\ IF kind = "none" THEN pc' = "close" /\ UNCHANGED packet
                        ELSE pc' = "send" /\ packet' = kind

AllTaken(n) == ChunkEnd   \* mutation: send_all does not look at how much was written
Taken(n) == pos + n

\* One tls_write of send_all.
Write ==
    /\ pc = "send" /\ up
    /\ packet = "state" => published <= MaxStates
    /\ \E n \in 1 .. ChunkEnd - pos :
          /\ wire' = IF broker \in {"left", "gone"} THEN wire
                     ELSE wire \o [k \in 1 .. n |-> Unit(pos + k)]
          /\ IF Taken(n) < Total(packet)
             THEN pos' = Taken(n) /\ UNCHANGED <<pc, packet, published>>
             ELSE IF packet = "connect"
                  THEN pc' = "type" /\ UNCHANGED <<pos, packet, published>>
                  ELSE SendNext(AfterSuccess)
    /\ UNCHANGED <<toDrain, connected, failed, short, rx, up, fin, broker, parser, status, log>>

\* The send buffer is full, or the connection is gone; a later write may succeed again.
WriteFails ==
    /\ pc = "send"
    /\ failed' = failed \cup {packet}
    /\ SendNext(AfterFailure)
    /\ UNCHANGED <<toDrain, connected, short, stream, broker, parser, status, log>>

-----------------------------------------------------------------------------
(* The client: CONNACK. *)

GiveUp == SendNext("disconnect") /\ UNCHANGED <<toDrain, connected>>

\* A read fails at its deadline or at the end of the connection.
ReadFails ==
    /\ pc \in {"type", "length", "body", "drain"}
    /\ GiveUp
    /\ UNCHANGED <<failed, short, stream, broker, parser, status, log>>

ReadType ==
    /\ pc = "type" /\ rx # <<>>
    /\ rx' = Tail(rx)
    /\ IF Head(rx) = "type" THEN pc' = "length" /\ UNCHANGED <<packet, pos, toDrain, published, connected>>
                            ELSE GiveUp
    /\ UNCHANGED <<failed, short, wire, up, fin, broker, parser, status, log>>

HoldsBody(n) == n >= 2

ReadLength ==
    /\ pc = "length" /\ rx # <<>>
    /\ rx' = Tail(rx)
    /\ IF HoldsBody(Head(rx))
       THEN pc' = "body" /\ toDrain' = Head(rx) - 2 /\ UNCHANGED <<packet, pos, published, connected>>
       ELSE GiveUp
    /\ UNCHANGED <<failed, short, wire, up, fin, broker, parser, status, log>>

Accepts(code) == code = "accept"

Finish(code) ==
    IF Accepts(code)
    THEN connected' = TRUE /\ toDrain' = 0 /\ SendNext(AfterConnect)
    ELSE GiveUp

\* One read of two bytes, which must give both; the code is kept until the rest is drained.
ReadBody ==
    /\ pc = "body" /\ rx # <<>>
    /\ \/ /\ Len(rx) >= 2
          /\ IF toDrain > 0
             THEN /\ pc' = "drain" /\ rx' = <<rx[2]>> \o SubSeq(rx, 3, Len(rx))
                  /\ UNCHANGED <<packet, pos, published, toDrain, connected>>
             ELSE /\ rx' = SubSeq(rx, 3, Len(rx))
                  /\ Finish(rx[2])
          /\ UNCHANGED short
       \/ /\ rx' = Tail(rx) /\ short' = TRUE
          /\ GiveUp
    /\ UNCHANGED <<failed, wire, up, fin, broker, parser, status, log>>

\* rx[1] is the code that ReadBody kept, what follows it is drained piece by piece.
Drain ==
    /\ pc = "drain" /\ Len(rx) > 1
    /\ \E n \in 1 .. toDrain :
          /\ n < Len(rx)
          /\ IF n < toDrain
             THEN /\ toDrain' = toDrain - n
                  /\ rx' = <<rx[1]>> \o SubSeq(rx, n + 2, Len(rx))
                  /\ UNCHANGED <<pc, packet, pos, published, connected>>
             ELSE /\ rx' = SubSeq(rx, n + 2, Len(rx))
                  /\ Finish(rx[1])
    /\ UNCHANGED <<failed, short, wire, up, fin, broker, parser, status, log>>

StaysOpen == UNCHANGED fin   \* mutation: mqtt_disconnect does not close the connection
CloseConnection == fin' = TRUE

\* tls_close, in mqtt_disconnect.
Close ==
    /\ pc = "close"
    /\ CloseConnection
    /\ pc' = "ended"
    /\ UNCHANGED <<packet, pos, toDrain, published, connected, failed, short, wire, rx, up,
                   broker, parser, status, log>>

-----------------------------------------------------------------------------
(* The broker, and the network. *)

Reading == broker \in {"waiting", "accepted"} /\ wire # <<>>
Unread  == wire' = Tail(wire)

\* The first unit of a packet.
BrokerBegins ==
    /\ Reading /\ need = 0
    /\ Head(wire).n = 1 /\ Head(wire).kind # "disconnect"
    /\ IF broker = "waiting" /\ Head(wire).kind # "connect"
       THEN broker' = "gone" /\ UNCHANGED parser
       ELSE /\ cur' = Head(wire).kind /\ need' = Total(Head(wire).kind) - 1
            /\ intact' = TRUE /\ topicOk' = TRUE
            /\ UNCHANGED broker
    /\ Unread
    /\ UNCHANGED <<client, rx, up, fin, status, log>>

BrokerDisconnects ==
    /\ Reading /\ need = 0 /\ Head(wire) = [kind |-> "disconnect", n |-> 1]
    /\ broker' = IF broker = "accepted" THEN "left" ELSE "gone"
    /\ Unread
    /\ UNCHANGED <<client, rx, up, fin, parser, status, log>>

\* The middle of a packet where a header is expected: a protocol error, or a length that is
\* never reached, the bytes of a name read as a length being larger than all that follows.
BrokerLost ==
    /\ Reading /\ need = 0 /\ Head(wire).n > 1
    /\ \/ /\ broker' = "gone"
          /\ status' = IF broker = "accepted" THEN "offline" ELSE status
          /\ UNCHANGED parser
       \/ /\ cur' = "junk" /\ need' = -1
          /\ UNCHANGED <<broker, intact, topicOk, status>>
    /\ Unread
    /\ UNCHANGED <<client, rx, up, fin, log>>

Fits == Head(wire) = [kind |-> cur, n |-> Total(cur) - need + 1]

\* A return code, a CONNACK that is too short, another packet.
Refusals == {<<"type", 2, "flags", "refuse">>, <<"type", 1, "flags">>, <<"other">>}

\* A complete packet: CONNECT is answered, a message goes to its topic if that was read right.
Complete(ok, topic) ==
    IF cur = "connect"
    THEN /\ \/ /\ ok /\ broker' = "accepted"
               /\ \E n \in Extra : rx' = <<"type", 2 + n, "flags", "accept">>
                                         \o [k \in 1 .. n |-> "extra"]
            \/ ok /\ broker' = "refused" /\ rx' \in Refusals
            \/ ~ok /\ broker' = "gone" /\ UNCHANGED rx
         /\ UNCHANGED <<status, log>>
    ELSE /\ log' = Append(log, [kind |-> cur, intact |-> ok])
         /\ status' = IF cur \in {"online", "offline"} \cap Retained /\ topic
                      THEN IF ok THEN cur ELSE "garbled" ELSE status
         /\ UNCHANGED <<broker, rx>>

BrokerReads ==
    /\ Reading /\ need > 0
    /\ need' = need - 1
    /\ intact' = (intact /\ Fits)
    /\ topicOk' = (topicOk /\ (need > Payload => Fits))
    /\ IF need = 1 THEN Complete(intact', topicOk') ELSE UNCHANGED <<broker, rx, status, log>>
    /\ Unread
    /\ UNCHANGED <<client, up, fin, cur>>

\* need < 0: junk is read to the end of the connection.
BrokerSwallows ==
    /\ Reading /\ need < 0
    /\ Unread
    /\ UNCHANGED <<client, rx, up, fin, broker, parser, status, log>>

\* The end of the connection without DISCONNECT: the will, "offline" and retained.
BrokerSeesEnd ==
    /\ broker \in {"waiting", "accepted", "refused"}
    /\ ~up \/ (fin /\ wire = <<>>)
    /\ broker' = "gone"
    /\ status' = IF broker = "accepted" THEN "offline" ELSE status
    /\ UNCHANGED <<client, stream, parser, log>>

Break ==
    /\ up
    /\ up' = FALSE /\ wire' = <<>>
    /\ UNCHANGED <<client, rx, fin, broker, parser, status, log>>

-----------------------------------------------------------------------------
\* The connection is made; main returns if it is not.
Init ==
    /\ pc = "send" /\ packet = "connect" /\ pos = 0
    /\ toDrain = 0 /\ published = 0 /\ connected = FALSE
    /\ up = TRUE /\ fin = FALSE /\ wire = <<>> /\ rx = <<>>
    /\ broker = "waiting" /\ cur = "none" /\ need = 0 /\ intact = TRUE /\ topicOk = TRUE
    /\ status = "none" /\ log = <<>>
    /\ failed = {} /\ short = FALSE

Broker ==
    \/ BrokerBegins \/ BrokerDisconnects \/ BrokerLost \/ BrokerReads \/ BrokerSwallows
    \/ BrokerSeesEnd

Next ==
    \/ Write \/ WriteFails \/ ReadFails \/ ReadType \/ ReadLength \/ ReadBody \/ Drain \/ Close
    \/ Broker \/ Break

\* The broker reads what arrives and notices the end of a connection (its keep-alive timer).
Spec == Init /\ [][Next]_vars /\ WF_vars(Broker) /\ WF_vars(Close)

-----------------------------------------------------------------------------
(* Properties. *)

\* Every variable but the two for CONNACK has its type; the stream never holds more than the
\* session's packets.
TypeOK ==
    /\ pc \in {"send", "type", "length", "body", "drain", "close", "ended"}
    /\ packet \in Packets /\ pos \in 0 .. Total(packet)
    /\ published \in 0 .. MaxStates + 1
    /\ {connected, up, fin, intact, topicOk, short} \subseteq BOOLEAN
    /\ wire \in Seq([kind : Packets, n : 1 .. 3 + Payload])
    /\ broker \in {"waiting", "accepted", "refused", "left", "gone"}
    /\ cur \in Messages \cup {"connect", "none", "junk"} /\ need \in -1 .. 2 + Payload
    /\ status \in {"none", "online", "offline", "garbled"}
    /\ log \in Seq([kind : Messages, intact : BOOLEAN])
    /\ failed \subseteq Packets

\* As long as no packet was given up, the broker takes the messages unharmed and in the order
\* of main, however the transport splits the writes.
DeliveredAsPublished ==
    failed = {} =>
        \A k \in DOMAIN log :
            /\ log[k].intact
            /\ log[k].kind = (CASE k = 1 -> "discovery" [] k = 2 -> "online" [] OTHER -> "state")

\* When the broker is done with a session that was online, its status is "offline", by the
\* session's own message or by its will.  It stays "online" only if "offline" was given up and
\* DISCONNECT, written after it, arrived: that cancels the will.
StatusAfterTheEnd ==
    /\ broker \in {"left", "gone"} => status # "garbled"
    /\ broker = "gone" => status # "online"
    /\ broker = "left" /\ status = "online" => "offline" \in failed

\* A session that ended does not stay online for ever, with the one exception that
\* StatusAfterTheEnd names: "offline" was given up and the DISCONNECT behind it arrived.
OfflineEventually ==
    pc = "ended" ~> status # "online" \/ ("offline" \in failed /\ broker = "left")

\* mqtt.h: mqtt_connect returns true on successful CONNACK; tls_transport.h: a read gives up to
\* len bytes.  CONNACK is not given up because its two bytes come in two reads.
SplitConnackIsRead == ~short
=============================================================================
