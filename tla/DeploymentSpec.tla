----------------------------- MODULE DeploymentSpec -----------------------------
(***************************************************************************)
(* internal/ccplatform/cds.go, scds.go and provider.go: packages of a      *)
(* chaincode, raw (ChaincodeDeploymentSpec) or signed by its owners (an    *)
(* envelope around SignedChaincodeDeploymentSpec).  Which of them some     *)
(* bytes are is found out by decoding them as both: what is one message    *)
(* may well parse as another.                                              *)
(*                                                                         *)
(* So bytes are modelled by their fields, as protobuf sees them: a field   *)
(* has a number and is an integer or bytes; one of the wrong kind is       *)
(* skipped; a string must be UTF-8.                                        *)
(***************************************************************************)
EXTENDS Naturals, Sequences

CONSTANTS
  Raws,       \* the raw packages there are: name, version, code
  Signeds,    \* the signed ones: a raw one, policy, owners
  Junk        \* bytes that are neither

VARIABLES
  raw,        \* a CDSPackage, initialized again and again
  signed,     \* a SignedCDSPackage, likewise
  rawBuf, signedBuf,    \* the bytes they were initialized with last
  chosen,     \* what GetCCPackage took rawBuf for, if that was done last
  ccdata      \* the ChaincodeData of an initialization, as LSCC stored it

vars == <<raw, signed, rawBuf, signedBuf, chosen, ccdata>>

-----------------------------------------------------------------------------
(* What is absent, a nil pointer; what an operation comes to that fails,   *)
(* or that dereferences nil.                                               *)
Nothing  == [kind |-> "nil"]
Error    == [kind |-> "error"]
Panicked == [kind |-> "panic"]

(* Bytes.  Tags and lengths are ASCII control characters: valid UTF-8, not *)
(* printable; so fields are UTF-8 if all that is in them is.               *)

Utf8(b) == b = Nothing \/ b.utf8

Text(s)   == [kind |-> "text", of |-> s, utf8 |-> TRUE]
Binary(x) == [kind |-> "binary", of |-> x, utf8 |-> FALSE]
Int(n)    == [kind |-> "int", of |-> n, utf8 |-> TRUE]
List(s)   == [kind |-> "list", of |-> s, utf8 |-> \A k \in DOMAIN s : Utf8(s[k])]
Msg(f, g, h) ==
  [kind |-> "message", of |-> <<f, g, h>>, utf8 |-> Utf8(f) /\ Utf8(g) /\ Utf8(h)]

(* A field of bytes, of a message that parsed; of a repeated field, where  *)
(* one value is expected, the last.                                        *)
Bytes(m, k) ==
  LET f == IF m = Nothing THEN Nothing ELSE m.of[k]
  IN  IF f.kind = "int" THEN Nothing
      ELSE IF f.kind # "list" THEN f
      ELSE IF f.of = <<>> THEN Nothing ELSE f.of[Len(f.of)]

Parses(b) == b = Nothing \/ b.kind = "message"

isPrintable(name) == name = Nothing \/ name.kind = "text"

(* What is written to a hash is put end to end. *)
Contents(b) ==
  IF b = Nothing THEN <<>>
  ELSE IF b.kind = "text" THEN [n \in DOMAIN b.of |-> Text(<<b.of[n]>>)] ELSE <<b>>
Hash(s) == [digest |-> s]

-----------------------------------------------------------------------------
(* Messages from bytes. *)

ChaincodeID(b) ==
  IF Parses(b) /\ \A k \in 1..3 : Utf8(Bytes(b, k))
  THEN [path |-> Bytes(b, 1), name |-> Bytes(b, 2), version |-> Bytes(b, 3)]
  ELSE Error

ChaincodeDeploymentSpec(b) ==
  LET spec == Bytes(b, 1)
      id == ChaincodeID(Bytes(spec, 2))
  IN  IF ~Parses(b) \/ ~Parses(spec) \/ ~Parses(Bytes(spec, 2)) \/ id = Error THEN Error
      ELSE [chaincodeId |-> IF Bytes(spec, 2) = Nothing THEN Nothing ELSE id,
            codePackage |-> Bytes(b, 3)]

SignedChaincodeDeploymentSpec(b) ==
  IF ~Parses(b) THEN Error
  ELSE [chaincodeDeploymentSpec |-> Bytes(b, 1), instantiationPolicy |-> Bytes(b, 2),
        ownerEndorsements |->
          IF b = Nothing THEN <<>> ELSE IF b.of[3] = Nothing THEN <<>> ELSE b.of[3].of]

ExtractSignedCCDepSpec(env) ==
  LET payload == Bytes(env, 1)
      header  == Bytes(payload, 1)
      sp == SignedChaincodeDeploymentSpec(Bytes(payload, 2))
  IN  IF ~Parses(payload) \/ header = Nothing THEN Error
      ELSE IF ~Parses(header) \/ ~Parses(Bytes(header, 1)) \/ sp = Error THEN Error
      ELSE [type |-> IF Bytes(header, 1) = Nothing THEN Nothing ELSE Bytes(header, 1).of[1],
            sDepSpec |-> sp]

CHAINCODE_PACKAGE == Int(6)

-----------------------------------------------------------------------------
(* The data of a package. *)

CodeHash(cds) == Hash(Contents(cds.codePackage))
MetaDataHash(cds) ==
  Hash(Contents(cds.chaincodeId.name) \o Contents(cds.chaincodeId.version))

(* Mutant: the policy is left out. *)
SignatureHashOwners(sds) ==
  LET upTo[n \in 0..Len(sds.ownerEndorsements)] ==
        IF n = 0 THEN <<>>
        ELSE upTo[n - 1] \o Contents(Bytes(sds.ownerEndorsements[n], 1))
  IN  Hash(upTo[Len(sds.ownerEndorsements)])

SignatureHash(sds) ==
  LET upTo[n \in 0..Len(sds.ownerEndorsements)] ==
        IF n = 0 THEN Contents(sds.instantiationPolicy)
        ELSE upTo[n - 1] \o Contents(Bytes(sds.ownerEndorsements[n], 1))
  IN  Hash(upTo[Len(sds.ownerEndorsements)])

(* Data and Id; a package without a chaincode has no name to hash. *)
getCDSData(cds) ==
  IF cds.chaincodeId = Nothing THEN Panicked
  ELSE LET data == [codeHash |-> CodeHash(cds), metaDataHash |-> MetaDataHash(cds)]
       IN  [data |-> data, id |-> Hash(<<data.codeHash, data.metaDataHash>>)]

getSignedCDSData(sds) ==
  LET cds == ChaincodeDeploymentSpec(sds.chaincodeDeploymentSpec)
  IN  IF cds.chaincodeId = Nothing THEN Panicked
      ELSE IF sds.instantiationPolicy = Nothing THEN Error
      ELSE LET data == [codeHash |-> CodeHash(cds), metaDataHash |-> MetaDataHash(cds),
                        signatureHash |-> SignatureHash(sds)]
           IN  [data |-> data,
                id |-> Hash(<<data.codeHash, data.metaDataHash, data.signatureHash>>)]

GetChaincodeData(p) ==
  [name |-> p.depSpec.chaincodeId.name, version |-> p.depSpec.chaincodeId.version,
   data |-> p.data, id |-> p.id,
   instantiationPolicy |->
     IF p.sDepSpec = Nothing THEN Nothing ELSE p.sDepSpec.instantiationPolicy]

-----------------------------------------------------------------------------
(* Packages.  What InitFromBuffer makes of some bytes: a package, Error or *)
(* Panicked.                                                               *)

FromBuffer(buf) ==
  LET cds == ChaincodeDeploymentSpec(buf)
      made == getCDSData(cds)
  IN  IF ~Parses(buf) \/ cds = Error THEN Error
      ELSE IF made = Panicked THEN Panicked
      ELSE [depSpec |-> cds, sDepSpec |-> Nothing, data |-> made.data, id |-> made.id]

SignedFromBuffer(buf) ==
  LET extracted == ExtractSignedCCDepSpec(buf)
      sds == extracted.sDepSpec
      cds == ChaincodeDeploymentSpec(sds.chaincodeDeploymentSpec)
      made == getSignedCDSData(sds)
  IN  IF ~Parses(buf) \/ extracted = Error THEN Error
      ELSE IF extracted.type # CHAINCODE_PACKAGE \/ cds = Error THEN Error
      ELSE IF made \in {Panicked, Error} THEN made
      ELSE [depSpec |-> cds, sDepSpec |-> sds, data |-> made.data, id |-> made.id]

Uninitialized == Nothing
Initialized(p) == p \notin {Uninitialized, Error, Panicked}

(* ValidateCC of either; data that was stored for a package of the other   *)
(* kind is decoded as this kind's, its other fields nil or skipped.        *)
DataEquals(p, d) ==
  /\ p.data.codeHash = d.codeHash /\ p.data.metaDataHash = d.metaDataHash
  /\ "signatureHash" \in DOMAIN p.data =>
       "signatureHash" \in DOMAIN d /\ p.data.signatureHash = d.signatureHash

ValidateCC(p, d) ==
  /\ Initialized(p)
  /\ isPrintable(d.name)
  /\ d.name = p.depSpec.chaincodeId.name /\ d.version = p.depSpec.chaincodeId.version
  /\ DataEquals(p, d.data)

(* Mutant: the raw package is preferred. *)
GetCCPackageRaw(buf) ==
  LET cds == FromBuffer(buf)
      scds == SignedFromBuffer(buf)
      good(p) == Initialized(p) /\ ValidateCC(p, GetChaincodeData(p))
  IN  IF Panicked \in {cds, scds} THEN Panicked
      ELSE IF good(cds) THEN cds ELSE IF good(scds) THEN scds ELSE Error

GetCCPackage(buf) ==
  LET cds == FromBuffer(buf)
      scds == SignedFromBuffer(buf)
      good(p) == Initialized(p) /\ ValidateCC(p, GetChaincodeData(p))
  IN  IF Panicked \in {cds, scds} THEN Panicked
      ELSE IF good(scds) THEN scds ELSE IF good(cds) THEN cds ELSE Error

-----------------------------------------------------------------------------
(* The bytes of packages, as the packaging tools write them. *)

RawBytes(r) == Msg(Msg(Int(1), Msg(r.path, r.name, r.version), Nothing), Nothing, r.code)

Envelope(type, data) ==
  LET header == Msg(Msg(type, Nothing, Nothing), Nothing, Nothing)
  IN  Msg(Msg(header, data, Nothing), Binary("signature"), Nothing)

SignedBytes(s) ==
  Envelope(CHAINCODE_PACKAGE,
           Msg(RawBytes(s.raw), s.policy,
               List([n \in DOMAIN s.owners |-> Msg(s.owners[n], Binary("signature"), Nothing)])))

Buffers == {RawBytes(r) : r \in Raws} \cup {SignedBytes(s) : s \in Signeds} \cup Junk

(* What the field of a message may hold that is bytes, or a string. *)
IsBytes(b) ==
  /\ b.kind \in {"nil", "text", "binary", "message"}
  /\ b.kind = "nil" => b = Nothing
  /\ b.kind = "text" => b = Text(b.of) /\ b.of \in Seq({b.of[n] : n \in DOMAIN b.of})
IsString(b) == IsBytes(b) /\ b.kind \in {"nil", "text"}

IsRaw(r) == IsString(r.path) /\ IsString(r.name) /\ IsString(r.version) /\ IsBytes(r.code)

(* Owners are told from the end of a policy, which the hash does not mark. *)
EndsItself(policy, others) ==
  \A p \in others :
    LET c == Contents(policy)
        d == Contents(p)
    IN  (Len(c) <= Len(d) /\ \A n \in DOMAIN c : c[n] = d[n]) => policy = p

-----------------------------------------------------------------------------
Init ==
  /\ raw = Uninitialized /\ signed = Uninitialized
  /\ rawBuf = Nothing /\ signedBuf = Nothing /\ chosen = Nothing /\ ccdata = Nothing

(* Mutant: a package that cannot be initialized is left as it was. *)
InitFromBufferKeep(p, q) == IF Initialized(q) THEN q ELSE p

(* A package that is reused is reset before anything can fail. *)
InitFromBuffer(p, q) == IF Initialized(q) THEN q ELSE Uninitialized

InitRaw(buf) ==
  /\ raw' = InitFromBuffer(raw, FromBuffer(buf)) /\ rawBuf' = buf /\ chosen' = Nothing
  /\ UNCHANGED <<signed, signedBuf, ccdata>>

InitSigned(buf) ==
  /\ signed' = InitFromBuffer(signed, SignedFromBuffer(buf)) /\ signedBuf' = buf
  /\ chosen' = Nothing
  /\ UNCHANGED <<raw, rawBuf, ccdata>>

(* LSCC keeps the data of a package that is instantiated. *)
Instantiate(p) ==
  /\ Initialized(p) /\ ccdata' = GetChaincodeData(p)
  /\ UNCHANGED <<raw, signed, rawBuf, signedBuf, chosen>>

(* GetCCPackage initializes a package of either kind, and keeps one.       *)
Recognize(buf) ==
  /\ raw' = InitFromBuffer(Uninitialized, FromBuffer(buf)) /\ rawBuf' = buf
  /\ signed' = InitFromBuffer(Uninitialized, SignedFromBuffer(buf)) /\ signedBuf' = buf
  /\ chosen' = GetCCPackage(buf)
  /\ UNCHANGED ccdata

Next ==
  \/ \E buf \in Buffers : InitRaw(buf) \/ InitSigned(buf) \/ Recognize(buf)
  \/ Instantiate(raw) \/ Instantiate(signed)

Spec == Init /\ [][Next]_vars

-----------------------------------------------------------------------------
(* GetCCPackage takes a package for what it is: a raw one for raw, one     *)
(* with an instantiation policy for signed although it may parse as raw    *)
(* too; and the chaincode it is of is the one that was packaged.           *)
KindIsRight ==
  chosen # Nothing =>
    /\ \A r \in Raws : rawBuf = RawBytes(r) =>
         /\ Initialized(chosen) /\ chosen.sDepSpec = Nothing
         /\ chosen.depSpec.chaincodeId.name = r.name
         /\ chosen.depSpec.codePackage = r.code
    /\ \A s \in Signeds : (rawBuf = SignedBytes(s) /\ s.policy # Nothing) =>
         /\ Initialized(chosen) /\ chosen.sDepSpec # Nothing
         /\ chosen.depSpec.chaincodeId.name = s.raw.name
         /\ chosen.depSpec.codePackage = s.raw.code

(* A package object is of the bytes it was initialized with last, and of   *)
(* none when that failed: no code of an earlier package is taken for that  *)
(* of a later one.  And one that ValidateCC accepts for what LSCC stored   *)
(* has its name, version and code and, if it is signed, its policy.        *)
PackageIsMine ==
  /\ Initialized(raw) => raw = FromBuffer(rawBuf)
  /\ Initialized(signed) => signed = SignedFromBuffer(signedBuf)
  /\ \A p \in {raw, signed} :
       (ccdata # Nothing /\ ValidateCC(p, ccdata)) =>
         /\ p.depSpec.chaincodeId.name = ccdata.name
         /\ p.depSpec.chaincodeId.version = ccdata.version
         /\ CodeHash(p.depSpec) = ccdata.data.codeHash
         /\ p.sDepSpec # Nothing => p.sDepSpec.instantiationPolicy = ccdata.instantiationPolicy

(* What is said of a package is true of it. *)
DeploymentInv == KindIsRight /\ PackageIsMine
=================================================================================
