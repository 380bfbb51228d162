------------------------------- MODULE Algorithms -------------------------------
(***************************************************************************)
(* What runs on the client's machine alone: heights and their encoding,    *)
(* the compiler of signature policies, the installers that ask for a code  *)
(* package, the read-write sets of a simulation, what the configurations   *)
(* of channels say, the keys and signatures of an identity, the packages   *)
(* of chaincode.                                                           *)
(* They share no state; AlgorithmProofs proves about them, MCAlgorithms    *)
(* runs them, one in a behaviour.                                          *)
(***************************************************************************)
EXTENDS Height

CONSTANTS
  Principal, Written,                               \* SignaturePolicy
  Caller, Installers, Start, Dirs, Module, Gopath,  \* Installer
  Simulations, Empty,                               \* Simulation
  Organization, Founders, Named,                    \* ChannelConfig
  Order, Passwords, Digests, Brought,               \* Identity
  Raws, Signeds, Junk,                              \* DeploymentSpec
  Trees, Root, NameOrder, Hidden, MetaLike, IndexDirs,  \* Payload
  GoodIndex, GoFile, Dist, Needs, Goroot, MaxGone,
  Nil, Failure, Panic

VARIABLES
  written, calls, pass, done, rules, IDNum, principals,                   \* SignaturePolicy
  installer, cwd, at, entryWD, modInfo, metadata, installed, overlapped,  \* Installer
  sim, pubBytes, pvtBytes, txRwSet, txPvtRwSet, stage,                    \* Simulation
  consortiums, application, returned,                                     \* ChannelConfig
  life, key, cert, pwd, pem, suite, digest, signature,                    \* Identity
  raw, signed, rawBuf, signedBuf, chosen, ccdata,                         \* DeploymentSpec
  files, gone, pc, cd, todo, dists, needs, listed, fileMap, names, dirMap, payload, result
                                                                          \* Payload

Policy == INSTANCE SignaturePolicy

Install == INSTANCE Installer WITH pc <- at, result <- installed, Error <- Failure

Sets == INSTANCE Simulation WITH at <- stage

Configs == INSTANCE ChannelConfig

Identities == INSTANCE Identity WITH N <- Order, step <- life, raw <- pem

Deploy == INSTANCE DeploymentSpec

Package == INSTANCE Payload WITH tree <- files

(* Policies are as they are parsed.                                        *)
ASSUME TextsAssumption == \A p \in Written : Policy!Parsed(p)

(* Who made the genesis block gave the organizations of its consortiums    *)
(* policies like those of CreateOrganization, and the orderer took them.   *)
ASSUME FoundersAssumption ==
  \A c \in DOMAIN Founders : Configs!Sound(Founders[c])

(* The sets a simulation makes are as Fabric's simulator makes them.       *)
ASSUME SimulationsAssumption ==
  \A s \in Simulations : Sets!Simulated(s)

(* The order of the curve is an odd prime, and keys have its size.         *)
ASSUME CurveAssumption ==
  /\ Order \in 2..Base ^ Width /\ Order % 2 = 1
  /\ \A x \in 1..Order - 1 : \E y \in 1..Order - 1 : (x * y) % Order = 1
ASSUME DigestsAssumption == Digests \subseteq Nat
ASSUME NilAssumption ==
  /\ Nil \notin 1..Order - 1
  /\ Nil \notin [form : {"EC", "PKCS8"}, alg : {"EC"}, bytes : [1..Width -> Byte],
                 password : Passwords \cup {Nil}]

(* Packages are as the packaging tools write them, and there is nothing in *)
(* the junk.  Nothing is assumed of what decodes as both kinds.            *)
ASSUME PackagesAssumption ==
  /\ \A r \in Raws : Deploy!IsRaw(r)
  /\ \A s \in Signeds :
       /\ Deploy!IsRaw(s.raw) /\ Deploy!IsBytes(s.policy)
       /\ s.owners \in Seq({s.owners[n] : n \in DOMAIN s.owners})
       /\ \A n \in DOMAIN s.owners : Deploy!IsBytes(s.owners[n])
ASSUME PoliciesAssumption ==
  LET policies == {s.policy : s \in Signeds} \ {Deploy!Nothing}
  IN  \A p \in policies : Deploy!EndsItself(p, policies)
ASSUME JunkAssumption ==
  \A b \in Junk : ~Deploy!Initialized(Deploy!FromBuffer(b))
                 /\ ~Deploy!Initialized(Deploy!SignedFromBuffer(b))

(* Files have a path of names each.  What the go command lists ends in     *)
(* .go, .c, .h or .s, which no index does, and is not hidden.              *)
ASSUME FilesAssumption ==
  LET paths == Seq(Package!Range(NameOrder))
  IN  /\ NameOrder \in Seq(Package!Range(NameOrder))
      /\ {"src", "META-INF"} \subseteq Package!Range(NameOrder)
      /\ Root \in paths
      /\ \A t \in Trees : Package!IsFiniteSet(t) /\ t \subseteq paths \ {<<>>}
      /\ None \notin {"ok", "error"} /\ None \notin UNION Trees
ASSUME MetadataAssumption ==
  /\ "META-INF" \in MetaLike /\ "src" \notin MetaLike
  /\ \A i \in IndexDirs : i \in Seq(Package!Range(NameOrder))
ASSUME ListedAssumption == GoFile \cap (GoodIndex \cup Hidden) = {}

-----------------------------------------------------------------------------
(* A property of SignaturePolicy. *)

(* FromString compiles the well-formed policies and refuses the others,    *)
(* refers to the identities of the envelope once each, and changes no      *)
(* meaning: a compiled policy is satisfied by the signers that satisfy the *)
(* written one.                                                            *)
CompilerInv == Policy!CompilerInv

(* A property of Installer. *)

(* GetInstalledChaincode packs the module of its own path and leaves the   *)
(* process in the directory it found it in, as long as no other packaging  *)
(* is under way.                                                           *)
InstallsItself == Install!InstallsItself

(* A property of Simulation. *)

(* Read-write sets come back from bytes as they were, and private sets     *)
(* verify against the hashes of the public one.                            *)
ReadBack == Sets!ReadBack

(* Properties of ChannelConfig. *)

(* The members of a channel govern it by the administrators of a majority, *)
(* only certificates of their MSPs read and write, and every member's      *)
(* administrators and clients do.                                          *)
MembersGovern == Configs!MembersGovern

(* When the peers of all members endorse, chaincode can be committed.      *)
EndorsersSuffice == Configs!EndorsersSuffice

(* A property of Identity. *)

(* A key comes back from the PEM GetKeyCert wrote, by its password only,   *)
(* and signatures verify and have S in the lower half.                     *)
IdentityInv == Identities!IdentityInv

(* A property of DeploymentSpec. *)

(* GetCCPackage takes signed and raw packages for what they are;           *)
(* ValidateCC accepts only what was instantiated, and InitFromBuffer       *)
(* leaves nothing of an earlier package.                                   *)
DeploymentInv == Deploy!DeploymentInv

(* A property of Payload. *)

(* GetDeploymentPayload writes sources below src/ and valid metadata below *)
(* META-INF/ only, every directory before what is in it, and all in one    *)
(* order, whatever order the maps gave them in; no file of the code is     *)
(* lacking or there twice, nor outside a module a dependency of any        *)
(* platform.                                                               *)
PackageInv == Package!PackageInv
=================================================================================
