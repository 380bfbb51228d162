------------------------------- MODULE Identity -------------------------------
(***************************************************************************)
(* internal/cryptoutil: the life of an identity.  Enroll of the CA client  *)
(* makes a key and gets a certificate for it; GetKeyCert writes the key to *)
(* PEM, under a password or not; GetMyCryptoSuiteFromBytes makes a signer  *)
(* of the PEM of a key and of a certificate, these or others; the signer   *)
(* signs.                                                                  *)
(*                                                                         *)
(* The curve is any group of prime order N: a point is its discrete        *)
(* logarithm, and the two points with one x-coordinate are inverse to each *)
(* other.  A certificate is the public key in it.  The CA, the ASN.1 and   *)
(* PEM libraries and crypto/ecdsa are external.  Width is                  *)
(* (k.Curve.Params().N.BitLen()+7)/8.                                      *)
(***************************************************************************)
EXTENDS Digits

CONSTANTS
  N,         \* the order of the curve
  Passwords,
  Digests,
  Brought,   \* keys in PEM that were not written here
  Nil        \* no password, no PEM, no certificate, no key

Scalar == 1..(N - 1)

VARIABLES
  step,      \* "start", "keystore", "pem", "signer", "signed", "error"
  key, cert, \* keystore
  pwd, raw,  \* the password of GetKeyCert, the PEM it returned
  suite,     \* myCryptoSuite: privKey, signCert
  digest, signature

vars == <<step, key, cert, pwd, raw, suite, digest, signature>>

-----------------------------------------------------------------------------
(* crypto/ecdsa: external. *)

Inverted(x) == CHOOSE y \in Scalar : (x * y) % N = 1

X(u) == IF 2 * u > N THEN N - u ELSE u

Signatures(d, e) ==
  {[r |-> X(k), s |-> (Inverted(k) * (e + X(k) * d)) % N] : k \in Scalar}

Verifies(pub, e, sig) ==
  /\ sig.r \in Scalar /\ sig.s \in Scalar
  /\ LET u == (Inverted(sig.s) * (e + sig.r * pub)) % N IN u # 0 /\ X(u) = sig.r

-----------------------------------------------------------------------------
(* ecdsa.go *)

halfOrder == N \div 2

IsLowS(s) == s <= halfOrder

(* Mutants: the order is not subtracted; the sides are swapped. *)
ToLowSNever(s) == s

ToLowSHalf(s) == IF IsLowS(s) THEN s ELSE s - halfOrder

ToLowS(s) == IF IsLowS(s) THEN s ELSE N - s

Sign(d, e) == {[sig EXCEPT !.s = ToLowS(@)] : sig \in {g \in Signatures(d, e) : g.s # 0}}

-----------------------------------------------------------------------------
(* util.go: keys in PEM.  A password encrypts the DER.                     *)

PEM(form, alg, bytes, password) ==
  [form |-> form, alg |-> alg, bytes |-> bytes, password |-> password]

(* k.D.Bytes(), without leading zeros, and SetBytes. *)
Bytes(d) == [i \in 1..Size(d) |-> Digit(d, Size(d) - i)]
SetBytes(b) == Value(b)

(* Mutant: the zeros are on the wrong side. *)
PaddedRight(b) == [i \in 1..Width |-> IF i <= Len(b) THEN b[i] ELSE 0]

Padded(b) == [i \in 1..Width |-> IF i <= Width - Len(b) THEN 0 ELSE b[i - (Width - Len(b))]]

privateKeyToPEM(d, password) ==
  IF password # Nil
  THEN PEM("EC", "EC", Padded(Bytes(d)), password)  \* padded by crypto/x509
  ELSE PEM("PKCS8", "EC", Padded(Bytes(d)), Nil)

(* DERToPrivateKey: one of the three forms fits, if the number is a key.   *)
Parsed(pem) ==
  /\ <<pem.form, pem.alg>> \in {<<"PKCS1", "RSA">>, <<"PKCS8", "RSA">>, <<"PKCS8", "Ed25519">>,
                                <<"PKCS8", "EC">>, <<"EC", "EC">>}
  /\ pem.alg = "EC" => SetBytes(pem.bytes) \in Scalar

(* Mutant: the password is asked for but not that of the PEM. *)
OpensAny(pem, password) == pem.password # Nil => password # Nil

Opens(pem, password) ==
  pem.password # Nil => password # Nil /\ password = pem.password

(* GetPrivateKeyFromPEM: the key, or Nil for an error. *)
GetPrivateKeyFromPEM(pem, password) ==
  IF pem # Nil /\ Opens(pem, password) /\ Parsed(pem) /\ pem.alg = "EC"
  THEN SetBytes(pem.bytes) ELSE Nil

-----------------------------------------------------------------------------
Init ==
  /\ step = "start"
  /\ key = Nil /\ cert = Nil /\ pwd = Nil /\ raw = Nil
  /\ suite = Nil /\ digest = Nil /\ signature = Nil

(* Enroll: the CA answers with a certificate for the key of the request,   *)
(* which carries a signature of it.  That the answer is no base64 goes     *)
(* unnoticed.                                                              *)
Enroll ==
  /\ step = "start"
  /\ key' \in Scalar /\ cert' \in {key', Nil}
  /\ step' = "keystore"
  /\ UNCHANGED <<pwd, raw, suite, digest, signature>>

GetKeyCert ==
  /\ step = "keystore"
  /\ \E p \in Passwords \cup {Nil} : pwd' = p /\ raw' = privateKeyToPEM(key, p)
  /\ step' = "pem"
  /\ UNCHANGED <<key, cert, suite, digest, signature>>

(* Somebody comes with a key and a certificate of their own. *)
Bring ==
  /\ step = "start"
  /\ raw' \in Brought /\ cert' \in Scalar \cup {Nil}
  /\ step' = "pem"
  /\ UNCHANGED <<key, pwd, suite, digest, signature>>

(* GetMyCryptoSuiteFromBytes has no password to give.  Whether the key is  *)
(* that of the certificate it does not ask.                                *)
NewSuite ==
  /\ step = "pem"
  /\ LET d == GetPrivateKeyFromPEM(raw, Nil) IN
     \/ /\ cert = Nil \/ d = Nil
        /\ step' = "error" /\ UNCHANGED suite
     \/ /\ cert # Nil /\ d # Nil
        /\ suite' = [privKey |-> d, signCert |-> cert]
        /\ step' = "signer"
  /\ UNCHANGED <<key, cert, pwd, raw, digest, signature>>

(* myCryptoSigner.Sign; Serialize gives the certificate. *)
SignDigest ==
  /\ step = "signer"
  /\ \E e \in Digests : digest' = e /\ signature' \in Sign(suite.privKey, e)
  /\ step' = "signed"
  /\ UNCHANGED <<key, cert, pwd, raw, suite>>

Next == Enroll \/ GetKeyCert \/ Bring \/ NewSuite \/ SignDigest

Spec == Init /\ [][Next]_vars

-----------------------------------------------------------------------------
(* Properties. *)

(* A key that GetKeyCert wrote comes back from its PEM: with the password  *)
(* it was written under and with no other, or with any when there was      *)
(* none; so an enrolled identity has a signer if the certificate is one    *)
(* and the key is not under a password.                                    *)
KeyComesBack ==
  key # Nil =>
    /\ raw # Nil =>
         \A p \in Passwords \cup {Nil} :
           GetPrivateKeyFromPEM(raw, p) = IF pwd \in {Nil, p} THEN key ELSE Nil
    /\ step = "error" => cert = Nil \/ pwd # Nil
    /\ suite # Nil => suite.privKey = suite.signCert

(* What is signed verifies under the signer's key, thus under the          *)
(* certificate it serializes when that is the key's; peers refuse an S in  *)
(* the upper half.                                                         *)
SignatureCounts ==
  step = "signed" =>
    /\ Verifies(suite.privKey, digest, signature)
    /\ signature.s \in 1..halfOrder

IdentityInv == KeyComesBack /\ SignatureCounts
=============================================================================
