--------------------------- MODULE SchemeAdapter ---------------------------
(***************************************************************************)
(* The adapters that bring the signature libraries behind scheme.h.  Each  *)
(* library says in its own way whether a call went well and how long the   *)
(* signature is; an adapter makes 0 or an error and a length of it.        *)
(*                                                                         *)
(* There is one key and one message, so a buffer is the length of the      *)
(* signature it begins with, 0 if what it holds is none.  The libraries    *)
(* are what their callers take them for.                                   *)
(***************************************************************************)
EXTENDS Integers

CONSTANTS Adapters,  \* the images: "pqclean", "mayo", "hawk", "snova", "ecdsa", "rsa", "rsa_pss"
          SigMax,    \* scheme_sig_max_bytes()
          MsgLen     \* MSG_LEN

ASSUME SchemeAdapterAssumption ==
    /\ Adapters \subseteq {"pqclean", "mayo", "hawk", "snova", "ecdsa", "rsa", "rsa_pss"}
    /\ SigMax \in Nat \ {0} /\ MsgLen \in Nat \ {0}

Codes == {0, -1}

\* A signature of the message, of the length given.
IsSignature(sig, siglen) == sig > 0 /\ siglen = sig

\* What scheme_do_sign leaves: its code, the buffer and *siglen.
Outcome(rc, sig, siglen) == [rc |-> rc, sig |-> sig, siglen |-> siglen]

-----------------------------------------------------------------------------
(* The libraries. *)

\* A code, and the length of the signature.
Signed(lengths) == [code : {0}, len : lengths] \cup [code : {-1}, len : {0}]

\* Falcon's compressed signatures and those of ECDSA come in several lengths.
crypto_sign_signature(lengths) == Signed(lengths)
crypto_sign_verify(sig, siglen) == IF IsSignature(sig, siglen) THEN 0 ELSE -1

\* wolfSSL needs memory to verify, too.
wc_SignatureGenerate_ex(lengths) == Signed(lengths)
wc_SignatureVerify(sig, siglen) == IF IsSignature(sig, siglen) THEN Codes ELSE {-1}

\* Hawk answers 1 or 0.
hawk_sign_finish == {0, 1}
hawk_verify_finish(sig, siglen) == IF IsSignature(sig, siglen) THEN 1 ELSE 0

\* SNOVA signs and opens signed messages: the signature and then the message.
crypto_sign == {[code |-> 0, len |-> SigMax + MsgLen], [code |-> -1, len |-> 0]}
crypto_sign_open(sig) == IF sig = SigMax THEN [code |-> 0, len |-> MsgLen] ELSE [code |-> -1, len |-> 0]

\* RSA-PSS answers a length above 0 or an error; what was unpadded has still to be compared.
\* That it never answers 0 is wolfCrypt's contract and is assumed: the adapter would hand a 0
\* on as success, without a signature (79) and without the comparison (109-110).
wc_Hash == Codes
wc_RsaPSS_Sign == {SigMax, -1}
wc_RsaPSS_VerifyInline == {1, -1}
wc_RsaPSS_CheckPadding(sig, siglen) == IF IsSignature(sig, siglen) THEN 0 ELSE -1

-----------------------------------------------------------------------------
(* scheme_do_sign.  A failed call leaves no signature in the buffer. *)

SignPQClean(siglen) ==
    {Outcome(r.code, r.len, IF r.code = 0 THEN r.len ELSE siglen) :
        r \in crypto_sign_signature(1 .. SigMax)}

SignMayo(siglen) ==
    {Outcome(r.code, r.len, IF r.code = 0 THEN r.len ELSE siglen) :
        r \in crypto_sign_signature({SigMax})}

\* Mutation: the answer is handed on as it is.
SignHawkAnswer(siglen) ==
    {Outcome(IF ok = 1 THEN -1 ELSE 0, IF ok = 1 THEN SigMax ELSE 0, SigMax) : ok \in hawk_sign_finish}

SignHawk(siglen) ==
    {Outcome(IF ok = 1 THEN 0 ELSE -1, IF ok = 1 THEN SigMax ELSE 0, SigMax) : ok \in hawk_sign_finish}

\* The signature is cut from the front of the signed message.
SignSnova(siglen) ==
    {IF r.code # 0 \/ r.len # SigMax + MsgLen THEN Outcome(-1, 0, siglen)
     ELSE Outcome(0, SigMax, SigMax) : r \in crypto_sign}

\* wolfSSL is told the room there is, which stays the length if it fails.
SignEcdsa(siglen) ==
    {Outcome(r.code, r.len, IF r.code = 0 THEN r.len ELSE SigMax) :
        r \in wc_SignatureGenerate_ex(1 .. SigMax)}

SignRsa(siglen) ==
    {Outcome(r.code, r.len, SigMax) : r \in wc_SignatureGenerate_ex({SigMax})}

SignRsaPss(siglen) ==
    LET Returned(ret) == IF ret > 0 THEN Outcome(0, ret, ret) ELSE Outcome(ret, 0, siglen)
    IN  {Returned(IF hash = 0 THEN ret ELSE hash) : hash \in wc_Hash, ret \in wc_RsaPSS_Sign}

scheme_do_sign(adapter, siglen) ==
    CASE adapter = "pqclean" -> SignPQClean(siglen)
      [] adapter = "mayo"    -> SignMayo(siglen)
      [] adapter = "hawk"    -> SignHawk(siglen)
      [] adapter = "snova"   -> SignSnova(siglen)
      [] adapter = "ecdsa"   -> SignEcdsa(siglen)
      [] adapter = "rsa"     -> SignRsa(siglen)
      [] adapter = "rsa_pss" -> SignRsaPss(siglen)

-----------------------------------------------------------------------------
(* scheme_do_verify, and scheme_init. *)

VerifyPQClean(sig, siglen) == {crypto_sign_verify(sig, siglen)}

VerifyMayo(sig, siglen) == {crypto_sign_verify(sig, siglen)}

VerifyHawk(sig, siglen) == {IF hawk_verify_finish(sig, siglen) = 1 THEN 0 ELSE -1}

\* The length is looked at first, and what was recovered is compared with the message.
VerifySnova(sig, siglen) ==
    LET r == crypto_sign_open(sig)
    IN  {IF siglen # SigMax \/ r.code # 0 \/ r.len # MsgLen THEN -1 ELSE 0}

VerifyEcdsa(sig, siglen) == wc_SignatureVerify(sig, siglen)

VerifyRsa(sig, siglen) == wc_SignatureVerify(sig, siglen)

VerifyRsaPss(sig, siglen) ==
    {IF siglen > SigMax THEN -1 ELSE IF hash # 0 THEN hash ELSE
     IF ret <= 0 THEN ret ELSE wc_RsaPSS_CheckPadding(sig, siglen) :
        hash \in wc_Hash, ret \in wc_RsaPSS_VerifyInline}

scheme_do_verify(adapter, sig, siglen) ==
    CASE adapter = "pqclean" -> VerifyPQClean(sig, siglen)
      [] adapter = "mayo"    -> VerifyMayo(sig, siglen)
      [] adapter = "hawk"    -> VerifyHawk(sig, siglen)
      [] adapter = "snova"   -> VerifySnova(sig, siglen)
      [] adapter = "ecdsa"   -> VerifyEcdsa(sig, siglen)
      [] adapter = "rsa"     -> VerifyRsa(sig, siglen)
      [] adapter = "rsa_pss" -> VerifyRsaPss(sig, siglen)

\* The classical schemes decode a key and seed a generator first.
scheme_init(adapter) == IF adapter \in {"ecdsa", "rsa", "rsa_pss"} THEN Codes ELSE {0}
=============================================================================
