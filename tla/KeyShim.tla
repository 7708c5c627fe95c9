------------------------------- MODULE KeyShim -------------------------------
(***************************************************************************)
(* The keys of hawk512_tls.c, mayo1_tls.c and snova2454_tls.c, and the     *)
(* calls the patched wolfSSL makes of them in one connection with mutual   *)
(* authentication: the client's key is tried while it is loaded, the CA's  *)
(* key checks the server's certificate, the key of that certificate checks *)
(* the server's CertificateVerify, and the client signs its own.  Any of   *)
(* the heap allocations may fail.                                          *)
(*                                                                         *)
(* Bytes are numbers below Byte, whose upper half has the top bit set.  A  *)
(* key object is its two arrays, empty while hasPub or hasPriv is 0.  The  *)
(* arguments that wolfSSL never passes as NULL, and the query of the       *)
(* length of a signature that it never makes, are left out.                *)
(***************************************************************************)
EXTENDS Naturals, Sequences

CONSTANTS None,         \* no object, no signature
          Schemes,      \* the schemes an image is built for
          Byte, Tag,    \* number of byte values; the tag of an OCTET STRING
          MaxLenBytes,  \* 4, the longest long-form length
          PrivSize, PubSize, SigSize,
          Pairs,        \* the pairs of a private and a public key that exist
          Ca,           \* that of the CA
          Transcript,   \* what the two CertificateVerify messages sign
          KeyFiles,     \* what the client's PKCS#8 file may hold
          PubKeys,      \* what a certificate may hold as a public key
          Signatures    \* what may come as a signature

PairSize == PrivSize + PubSize
High == Byte \div 2

ASSUME SchemeAssumption == Schemes \subseteq {"hawk512", "mayo1", "snova2454"}
ASSUME SizeAssumption == /\ {PrivSize, PubSize, Byte} \subseteq Nat \ {0}
                         /\ {SigSize, MaxLenBytes, Tag} \subseteq Nat
ASSUME InputAssumption == /\ \A pair \in Pairs : pair \in Seq(0..(Byte - 1)) /\ Len(pair) = PairSize
                          /\ Ca \in Pairs
                          /\ KeyFiles \subseteq Seq(0..(Byte - 1))
                          /\ PubKeys \subseteq Seq(0..(Byte - 1))

VARIABLES scheme,   \* the scheme of the image
          pc,       \* the step the connection is at
          file,     \* the client's key file
          leaf,     \* the server's certificate
          proof,    \* the server's CertificateVerify
          peer,     \* ssl->peerXKey: no key or a key object
          present,  \* ssl->peerXKeyPresent
          hs,       \* ssl->hsKey
          auth,     \* ssl->options.peerAuthGood
          sent,     \* the client's CertificateVerify
          heap      \* the live allocations
vars == <<scheme, pc, file, leaf, proof, peer, present, hs, auth, sent, heap>>

\* What wc_X_Init leaves.
Fresh == [pub |-> <<>>, priv |-> <<>>]
Key == [pub : {<<>>} \cup [1..PubSize -> 0..(Byte - 1)],
        priv : {<<>>} \cup [1..PrivSize -> 0..(Byte - 1)]]
ASSUME NoneAssumption == None \notin Key /\ None \notin [pub : PubKeys, sig : Signatures]

Private(pair) == SubSeq(pair, 1, PrivSize)
Public(pair) == SubSeq(pair, PrivSize + 1, PairSize)

-----------------------------------------------------------------------------
(* The key objects.  An import returns the key it leaves and whether it    *)
(* succeeded.                                                              *)

ImportPublic(key, pub) ==
    IF Len(pub) = PubSize THEN [ok |-> TRUE, key |-> [key EXCEPT !.pub = pub]]
                          ELSE [ok |-> FALSE, key |-> key]

ImportPrivateKey(key, priv, pub) ==
    LET public == ImportPublic(key, pub)
    IN  IF Len(priv) = PrivSize /\ public.ok
          THEN [ok |-> TRUE, key |-> [public.key EXCEPT !.priv = priv]]
          ELSE [ok |-> FALSE, key |-> key]

\* Mutant: the halves of the pair in the order pub || priv.
ImportSwapped(key, pair) ==
    IF Len(pair) = PairSize
      THEN ImportPrivateKey(key, SubSeq(pair, PubSize + 1, PairSize), SubSeq(pair, 1, PubSize))
      ELSE [ok |-> FALSE, key |-> key]

ImportPrivateKeyPair(key, pair) ==
    IF Len(pair) = PairSize THEN ImportPrivateKey(key, Private(pair), Public(pair))
                            ELSE [ok |-> FALSE, key |-> key]

-----------------------------------------------------------------------------
(* The OCTET STRING around a key pair.                                     *)

BigEndian(digits) ==
    LET value[n \in 0..Len(digits)] == IF n = 0 THEN 0 ELSE value[n - 1] * Byte + digits[n]
    IN  value[Len(digits)]

LengthBytes(f) == IF f[2] < High THEN 0 ELSE f[2] - High

LengthIsThere(f) == f[2] >= High => /\ LengthBytes(f) \in 1..MaxLenBytes
                                    /\ 2 + LengthBytes(f) <= Len(f)

ContentStart(f) == 2 + LengthBytes(f)

ContentLength(f) == IF f[2] < High THEN f[2] ELSE BigEndian(SubSeq(f, 3, ContentStart(f)))

\* Mutant: what comes behind the key pair is ignored.
UnwrapPrefix(f) ==
    IF Len(f) = PairSize THEN f
    ELSE IF /\ Len(f) >= 2 /\ f[1] = Tag
            /\ LengthIsThere(f)
            /\ ContentLength(f) = PairSize
            /\ ContentStart(f) + ContentLength(f) <= Len(f)
           THEN SubSeq(f, ContentStart(f) + 1, ContentStart(f) + ContentLength(f))
           ELSE <<>>

\* UnwrapPrivateKeyData: the key pair, or none where it returns ASN_PARSE_E.
Unwrap(f) ==
    IF Len(f) = PairSize THEN f
    ELSE IF /\ Len(f) >= 2
            /\ f[1] = Tag
            /\ LengthIsThere(f)
            /\ ContentLength(f) = PairSize
            /\ ContentStart(f) + ContentLength(f) = Len(f)
           THEN SubSeq(f, ContentStart(f) + 1, ContentStart(f) + ContentLength(f))
           ELSE <<>>

\* HAWK-512 stores the pair without the inner OCTET STRING.
KeyPairOf(s, f) == IF s = "hawk512" THEN f ELSE Unwrap(f)

-----------------------------------------------------------------------------
(* Signing and verifying.  The set of the ways a call can end: its return  *)
(* value, its result and the buffers it leaves allocated.                  *)

\* What a library accepts, and what it makes of a private key.
Accepts(pub, sig, msg) == \E p \in Pairs : /\ Public(p) = pub /\ Private(p) = sig.by
                                           /\ sig.over = msg /\ sig.len = SigSize
Made(priv, msg) == [by |-> priv, over |-> msg, len |-> SigSize]

Refusal(kept) == [ret |-> "error", sig |-> None, good |-> FALSE, kept |-> kept]
Signed(sig) == [ret |-> "ok", sig |-> sig, good |-> FALSE, kept |-> {}]
Verdict(good) == [ret |-> "ok", sig |-> None, good |-> good, kept |-> {}]

\* What is in the caller's buffer before Sign writes to it: no signature of anybody's.
Unwritten == [by |-> <<>>, over |-> <<>>, len |-> 0]

\* A signature is refused without a private key, without a buffer (HAWK-512, SNOVA), or by the
\* library.  A generator that fails is no refusal: wc_hawk512_rng gives zeroes and says nothing.
SignHawk512(key, msg) ==
    {Refusal({})} \cup IF key.priv = <<>> THEN {} ELSE {Signed(Made(key.priv, msg))}

SignMayo1(key, msg) ==
    {Refusal({})} \cup IF key.priv = <<>> THEN {} ELSE {Signed(Made(key.priv, msg))}

\* The signature is copied out of SNOVA's own buffer if smLen says that it is there; if not,
\* the return value is still the library's 0.
SignSnova2454(key, msg) ==
    {Refusal({})} \cup IF key.priv = <<>> THEN {}
                       ELSE {Signed(Made(key.priv, msg)), Signed(Unwritten)}

\* Mutant: the verdict is that there was a buffer to verify in.
VerifyHawk512Ran(key, sig, msg) ==
    IF key.pub = <<>> \/ sig.len # SigSize THEN {Refusal({})}
    ELSE {Refusal({}), Verdict(TRUE)}

VerifyHawk512(key, sig, msg) ==
    IF key.pub = <<>> \/ sig.len # SigSize THEN {Refusal({})}
    ELSE {Refusal({}), Verdict(Accepts(key.pub, sig, msg))}

VerifyMayo1(key, sig, msg) ==
    IF key.pub = <<>> \/ sig.len # SigSize THEN {Refusal({})}
    ELSE {Verdict(Accepts(key.pub, sig, msg))}

\* Mutant: only the first of the two buffers is freed.
FreedFirst == {"sm"}

\* One of the two buffers may have been allocated when the other was not.
FreedBuffers == {"sm", "out"}
VerifySnova2454(key, sig, msg) ==
    IF key.pub = <<>> \/ sig.len # SigSize THEN {Refusal({})}
    ELSE {Refusal(got \ FreedBuffers) : got \in {{}, {"sm"}, {"out"}}}
           \cup {Verdict(Accepts(key.pub, sig, msg))}

Sign(key, msg) == CASE scheme = "hawk512" -> SignHawk512(key, msg)
                    [] scheme = "mayo1" -> SignMayo1(key, msg)
                    [] scheme = "snova2454" -> SignSnova2454(key, msg)

Verify(key, sig, msg) == CASE scheme = "hawk512" -> VerifyHawk512(key, sig, msg)
                           [] scheme = "mayo1" -> VerifyMayo1(key, sig, msg)
                           [] scheme = "snova2454" -> VerifySnova2454(key, sig, msg)

-----------------------------------------------------------------------------
(* The connection.                                                         *)

Certificate == [pub : PubKeys, sig : Signatures]

Init == /\ scheme \in Schemes
        /\ pc = "load" /\ file = <<>> /\ leaf = None /\ proof = None
        /\ peer = None /\ present = FALSE /\ hs = None
        /\ auth = FALSE /\ sent = None
        /\ heap = {}

\* ProcessBufferTryDecodeX: the key is imported into an object on the stack, to
\* see whether it can be, and the object is zeroed again.
LoadKey ==
    /\ pc = "load"
    /\ file' \in KeyFiles
    /\ LET tried == ImportPrivateKeyPair(Fresh, KeyPairOf(scheme, file'))
       IN  /\ pc' = IF tried.ok THEN "certificate" ELSE "failed"
    /\ UNCHANGED <<scheme, leaf, proof, peer, present, hs, auth, sent, heap>>

\* ConfirmSignature with the CA's key, in an object of its own on the heap that
\* FreeSignatureCtx gives back.
ConfirmSignature ==
    /\ pc = "certificate" /\ leaf = None
    /\ leaf' \in Certificate
    /\ LET ca == ImportPublic(Fresh, Public(Ca))
       IN  \/ pc' = "failed" /\ UNCHANGED heap     \* XMALLOC returns NULL
           \/ /\ ca.ok
              /\ \E v \in Verify(ca.key, leaf'.sig, leaf'.pub) :
                    /\ pc' = IF v.ret = "ok" /\ v.good THEN "certificate" ELSE "failed"
                    /\ heap' = heap \cup v.kept
    /\ UNCHANGED <<scheme, file, proof, peer, present, hs, auth, sent>>

\* ProcessPeerCerts: the key of the certificate that was confirmed.
ProcessPeerCerts ==
    /\ pc = "certificate" /\ leaf # None
    /\ \/ /\ pc' = "failed"     \* AllocKey fails
          /\ UNCHANGED <<peer, present, heap>>
       \/ LET import == ImportPublic(Fresh, leaf.pub)
          IN  /\ peer' = import.key
              /\ present' = import.ok
              /\ heap' = heap \cup {"peer"}
              /\ pc' = IF import.ok THEN "verify" ELSE "failed"
    /\ UNCHANGED <<scheme, file, leaf, proof, hs, auth, sent>>

\* DoTls13CertificateVerify: the server's signature of the handshake.
DoCertificateVerify ==
    /\ pc = "verify" /\ peer # None /\ present
    /\ proof' \in Signatures
    /\ \E v \in Verify(peer, proof', Transcript) :
          \/ /\ v.ret = "ok" /\ v.good
             /\ auth' = TRUE
             /\ peer' = None /\ present' = FALSE
             /\ heap' = (heap \cup v.kept) \ {"peer"}
             /\ pc' = "sign"
          \/ /\ ~(v.ret = "ok" /\ v.good)
             /\ heap' = heap \cup v.kept
             /\ pc' = "failed"
             /\ UNCHANGED <<auth, peer, present>>
    /\ UNCHANGED <<scheme, file, leaf, hs, sent>>

\* DecodePrivateKey_ex: the client's key once more, now to sign with.
DecodePrivateKey ==
    /\ pc = "sign" /\ hs = None
    /\ \/ /\ pc' = "failed"     \* AllocKey fails
          /\ UNCHANGED <<hs, heap>>
       \/ LET import == ImportPrivateKeyPair(Fresh, KeyPairOf(scheme, file))
          IN  /\ hs' = import.key
              /\ heap' = heap \cup {"hs"}
              /\ pc' = IF import.ok THEN "sign" ELSE "failed"
    /\ UNCHANGED <<scheme, file, leaf, proof, peer, present, auth, sent>>

\* SendTls13CertificateVerify
SendCertificateVerify ==
    /\ pc = "sign" /\ hs # None
    /\ \E v \in Sign(hs, Transcript) :
          /\ sent' = v.sig
          /\ heap' = heap \cup v.kept
          /\ pc' = IF v.ret = "ok" THEN "open" ELSE "failed"
    /\ UNCHANGED <<scheme, file, leaf, proof, peer, present, hs, auth>>

\* wolfSSL_ResourceFree, after the session or its failure: FreeKey of what there is.
ResourceFree ==
    /\ pc \in {"open", "failed"}
    /\ pc' = "closed"
    /\ heap' = heap \ {"peer", "hs"}
    /\ peer' = None /\ present' = FALSE /\ hs' = None
    /\ UNCHANGED <<scheme, file, leaf, proof, auth, sent>>

\* The next attempt of the campaign begins with new wolfSSL objects.
Reconnect ==
    /\ pc = "closed"
    /\ pc' = "load" /\ file' = <<>> /\ leaf' = None /\ proof' = None
    /\ auth' = FALSE /\ sent' = None
    /\ UNCHANGED <<scheme, peer, present, hs, heap>>

Next == \/ LoadKey \/ ConfirmSignature \/ ProcessPeerCerts \/ DoCertificateVerify
        \/ DecodePrivateKey \/ SendCertificateVerify \/ ResourceFree \/ Reconnect

Spec == Init /\ [][Next]_vars

-----------------------------------------------------------------------------

\* Keys have their sizes or are absent.
TypeOK == /\ scheme \in Schemes
          /\ pc \in {"load", "certificate", "verify", "sign", "open", "failed", "closed"}
          /\ file \in KeyFiles \cup {<<>>}
          /\ leaf \in Certificate \cup {None} /\ proof \in Signatures \cup {None}
          /\ peer \in Key \cup {None} /\ hs \in Key \cup {None}
          /\ present \in BOOLEAN /\ auth \in BOOLEAN
          /\ heap \subseteq {"peer", "hs", "sm", "out"}

\* The server counts as authenticated only if the CA signed the key of its certificate
\* and the holder of that key signed this handshake, whichever allocation failed on
\* the way.  (DoTls13CertificateVerify, ConfirmSignature and the Verify of each shim)
PeerAuthenticated ==
    auth => /\ Accepts(Public(Ca), leaf.sig, leaf.pub)
            /\ Accepts(leaf.pub, proof, Transcript)

\* What an OCTET STRING with a definite length that holds the pair looks like: the size of
\* the pair in the one byte, or in n bytes if it has no more than that.
Shifted[n \in 0..MaxLenBytes] == IF n = 0 THEN PairSize ELSE Shifted[n - 1] \div Byte
LengthFields == (IF PairSize < High THEN {<<PairSize>>} ELSE {})
                \cup {<<High + n>> \o [i \in 1..n |-> Shifted[n - i] % Byte] :
                         n \in {k \in 1..MaxLenBytes : Shifted[k] = 0}}
Holds(s, f, pair) == /\ Len(pair) = PairSize
                     /\ \/ f = pair
                        \/ /\ s # "hawk512"
                           /\ \E field \in LengthFields : f = <<Tag>> \o field \o pair
PairIn(f) == SubSeq(f, Len(f) - PairSize + 1, Len(f))

\* A key file is accepted exactly when it is a key pair, bare or in an OCTET STRING of any
\* definite length form (a longer one than DER allows included), with nothing before it,
\* behind it or missing.  (wc_X_UnwrapPrivateKeyData)
KeyFileExact ==
    /\ pc \in {"certificate", "verify", "sign", "open"} => Holds(scheme, file, PairIn(file))
    /\ (pc = "failed" /\ leaf = None) =>
          \/ Len(file) < PairSize
          \/ ~Holds(scheme, file, PairIn(file))

\* What the client sends as its CertificateVerify is a signature of this handshake with
\* the private key that is in its key file, or the buffer as it was where SNOVA's library
\* returned 0 with too short an output, and is sent to an authenticated server alone.
\* (wc_X_ImportPrivateKeyPair, wc_X_Sign)
OwnSignature ==
    sent # None => /\ auth
                   /\ \/ sent = Made(Private(PairIn(file)), Transcript)
                      \/ scheme = "snova2454" /\ sent = Unwritten

\* Whichever of the allocations and checks fails, no buffer and no key object outlives the
\* connection.  (wc_X_Verify, FreeKey of the patched wolfSSL)
NothingLeft == pc = "closed" => heap = {}
=============================================================================
