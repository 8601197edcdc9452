--------------------------- MODULE SecretEnvelopes ---------------------------
(***************************************************************************)
(* The two envelopes an upstream secret travels in: the control plane's    *)
(* own (version 1, one symmetric key) at rest, and the hybrid one          *)
(* (version 2, for one proxy's key pair) in a bundle.  The ciphers are     *)
(* ideal: an envelope opens with its own key and with no other.            *)
(***************************************************************************)
CONSTANT None

\* A key pair is a record [kind, id]; kinds the code has no suite for are
\* "other".
KeyKinds == {"rsa", "p256", "p384", "p521", "other"}

AlgRSAOAEPAES256GCM == "rsa-oaep-aes256gcm"

ecdhCurveForPublicKey(kind) ==
    CASE kind = "p256" -> "ecies-p256-aes256gcm"
      [] kind = "p384" -> "ecies-p384-aes256gcm"
      [] kind = "p521" -> "ecies-p521-aes256gcm"
      [] OTHER -> None

ecdhCurveForAlgorithm(alg) ==
    IF \E kind \in {"p256", "p384", "p521"} : ecdhCurveForPublicKey(kind) = alg
    THEN CHOOSE kind \in {"p256", "p384", "p521"} : ecdhCurveForPublicKey(kind) = alg
    ELSE None

HybridEnvelope(alg, key, plain) == [version |-> 2, alg |-> alg, for |-> key, plain |-> plain]

encryptRSA(key, plain) == HybridEnvelope(AlgRSAOAEPAES256GCM, key, plain)

encryptEC(key, plain) ==
    IF ecdhCurveForPublicKey(key.kind) = None THEN None
    ELSE HybridEnvelope(ecdhCurveForPublicKey(key.kind), key, plain)

\* None when the key type has no suite.
EncryptForPublicKey(key, plain) ==
    IF key.kind = "rsa" THEN encryptRSA(key, plain) ELSE encryptEC(key, plain)

IsHybridEnvelope(payload) == payload.version = 2

decryptRSA(key, env) == IF env.for = key THEN env.plain ELSE None

decryptEC(key, env) ==
    IF key.kind = ecdhCurveForAlgorithm(env.alg) /\ env.for = key THEN env.plain ELSE None

\* The suite must be one for the kind of the private key at hand.
DecryptWithPrivateKey(key, env) ==
    CASE env.alg = AlgRSAOAEPAES256GCM /\ key.kind = "rsa" -> decryptRSA(key, env)
      [] ecdhCurveForAlgorithm(env.alg) # None /\ key.kind \notin {"rsa", "other"}
            -> decryptEC(key, env)
      [] OTHER -> None

\* The strict resolver of a proxy: nothing but a hybrid envelope will do.
ResolveSecret(key, payload) ==
    IF IsHybridEnvelope(payload) THEN DecryptWithPrivateKey(key, payload) ELSE None

\* At rest: encrypted with the control plane's key, which may be replaced.
Encrypt(key, plain) == [version |-> 1, for |-> key, plain |-> plain]

Decrypt(key, env) == IF env.version = 1 /\ env.for = key THEN env.plain ELSE None
=============================================================================
