------------------------------ MODULE MCKeyShim ------------------------------
EXTENDS KeyShim

\* Three bits a byte; a private key of one byte and a public key of two.
MCPairs == {<<0, 3, 3>>, <<3, 5, 6>>, <<5, 6, 0>>}
MCCa == <<0, 3, 3>>
MCPubKeys == {<<5, 6>>, <<6, 0>>, <<6>>}
MCTranscript == <<0, 0, 0>>
MCSignatures == [by : {<<0>>, <<3>>, <<5>>}, over : MCPubKeys \cup {MCTranscript}, len : {1}]
                \cup [by : {<<0>>}, over : {MCTranscript}, len : {2}]
\* Everything up to six bytes over the tag, two long-form length bytes and zero; of seven
\* bytes, which a length of two bytes takes, what begins with the tag.
MCKeyFiles == UNION {[1..n -> {0, 3, 5, 6}] : n \in 0..6}
              \cup {<<3>> \o f : f \in [1..6 -> {0, 3, 5, 6}]}
=============================================================================
