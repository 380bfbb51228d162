# Specifications of fabricsdk-go

TLA+ models, model-checking runs and machine-checked proofs for `fabricsdk-go`,
a Go SDK for Hyperledger Fabric. Every definition is translated from the Go
source under `src/`; `PROJECT.json` gives the lines of each ("map"), every part
of the system with its status ("components"), what is hard to test in it
("hazards"), and the runs, mutants, theorems and findings.

    tlc -workers 2 -config MCDeliverGroup.cfg MCDeliverGroup.tla
    tlapm DeliverGroupProofs.tla

## 1. The system

The SDK is a library in its caller's process. A call of `gateway` builds
clients; `internal/chaincode` or `internal/channel` runs a protocol with them;
the clients talk over gRPC to Fabric peers and orderers. A separate HTTP client,
`caclient`, talks to a Fabric CA server. Peers, orderers, the CA, gRPC, the file
system and the `go` command are external: they are modelled as the code uses
them, with the failures it has to expect.

| part | state | operations | what makes it correct |
|---|---|---|---|
| deliver group (`internal/client/delivegroup`) | `Error` under a mutex, a WaitGroup that two calls share, one stream per peer | `Connect`, `Wait`, a goroutine per client in each | `nil` means committed VALID on every peer; the unlocked read of `Error` races with nobody; both calls return, and leave no goroutine behind |
| chaincode transactions (`internal/chaincode`) | per call: responses, errors, broadcast stream, deliver group | `Invoke`, `Query`, `SendTransaction`, `Approve`, `Commit` | only successful, identical endorsements are broadcast; a `nil` error is true |
| chaincode lifecycle | the definitions on the channel's ledger | `Approve`, `Commit`, list queries | what takes effect is what a majority asked for |
| orderer client (`internal/client/orderer`) | a broadcast stream; a deliver stream | `Send` and `getAck`; `GetSpecifiedBlock`, `GetNewestBlock` | an answer is the answer to this seek, not to an earlier one |
| configuration updates (`internal/channel`, `gateway/proposal.go`) | a fetched config, signatures exchanged out of band | initiate, sign, submit a proposal | an update is computed from, signed over and applied to one configuration |
| what configurations say (`internal/channel/config.go`) | the groups of the system channel and of a channel | create, add or remove an organization | the members, and nobody else, read, write and govern |
| channel and chaincode administration (`gateway/channel.go`, `internal/channel/update.go`, `internal/chaincode/install.go`) | what each peer has | create, join, install | a report says no more than what the peers have |
| transaction messages (`internal/utils`) | none | proposals, endorsements, envelopes, identifiers, hashes | a committing peer accepts what is assembled; transient data stays out of it |
| block decoding (`internal/blockutil`) | none | decoders of blocks, transactions, configurations | what is reported is what was encoded, or an error |
| read-write sets (`internal/rwsetutil/rw_util.go`) | none | to bytes and back, public and private | nothing is lost; the public set vouches for the private one |
| heights (`internal/rwsetutil/version.go`, `internal/utils/util.go`) | none | `Compare`, `AreSame`, `ToBytes`, order-preserving integers | a total order and a faithful encoding |
| policy compiler (`internal/chaincode/policy`) | a list of principals | `FromString` | the compiled policy means what was written |
| code packages (`internal/ccplatform/golang`) | the files on disk | `GetDeploymentPayload`, `ValidateCodePackage` | all of the code, once, in one order |
| installers (`internal/chaincode/chaincode.go`, `golang/list.go`) | the working directory of the process | `GetInstalledChaincode`, `moduleInfo` | what is sent is the module asked for; the directory is left as it was |
| deployment specs (`internal/ccplatform`) | a package object, initialized again and again | `InitFromBuffer`, `GetCCPackage`, `ValidateCC` | one kind of package is not taken for the other; nothing of an earlier package stays |
| identities (`internal/cryptoutil`, `caclient/keystore.go`) | a key, a certificate | generate, write and read PEM, sign | the key read is the key written; a peer accepts the signature |
| CA client (`caclient`) | HTTP client, the administrator's key | `Enroll`, `Register`, affiliations, identities | a `nil` error is a registration of one's own; retrying settles it |
| gateway factory, contract, connections, generated code | clients | dial and hand over | not modelled, see section 8 |

What makes it hard: goroutines that outlive the call that started them, a
WaitGroup used twice, an error variable written by many and read without its
lock, a deadline racing a result, commit events that begin at "newest" and so may
begin too late, acknowledgements lost with the work done, endorsements in
arrival order, peers at different heights, several organizations signing one
update while the configuration moves, policies written long before they are
evaluated, a file tree that changes while it is read, a working directory that
belongs to all goroutines, bytes that parse as more than one message.

## 2. How the modules fit together

    TxCommit   <= DeliverGroup  <- ChaincodeTx  . . . Lifecycle
    Governance <= ConfigUpdate  . . . DeliverStream  . . . PeerAdmin
                  ConfigUpdate  . . . ChannelConfig

    Wire <- TxMessage <- BlockDecode        CAClient . . . Identity
    Wire <- RwSet     <- BlockDecode        Payload  . . . Installer
            RwSet     <- Simulation
    Digits <- Height    Digits <- Identity

    Algorithms = Height | Installer | Simulation | ChannelConfig | Identity
                        | DeploymentSpec | Payload | SignaturePolicy

`A <= B`: B implements A under a refinement mapping, with A the abstract
specification. `B <- C`: C is built on B. `ChaincodeTx` INSTANCEs `DeliverGroup`
over shared variables and takes the steps of its caller, and
`ImplementsDeliverGroup` says it takes only those that `DeliverGroup` allows;
the modules below extend each other. `Algorithms` puts side by side what shares no
state, so that one module can prove about it. A dotted line is a step that is whole in
one module and detailed in another:

- `Lifecycle` has broadcast and wait as one step; `ChaincodeTx!NilErrorIsTrue` is
  what it relies on.
- `ConfigUpdate!Fetch` and `PeerAdmin!FetchBlock` return the block asked for;
  `DeliverStream!RightBlock` says so, which follows from its invariant.
- `ChaincodeTx` has an envelope as a set of equal endorsements; `TxMessage` has
  the bytes it is made of, and `BlockDecode` what a reader of the block makes of
  them.
- `ConfigUpdate` is about how a change of the membership is agreed on,
  `ChannelConfig` about what it writes into the configuration.
- `Installer` asks for the package that `Payload` makes.

Each component module holds VARIABLES, Init, one action per operation or step
and its properties; a module `MCx` and its `.cfg` files give the constants small
values; a module `xProofs` holds theorems and proofs. Those of `BlockDecode` and
`Lifecycle` are in `TransactionProofs`, those of `Algorithms` in
`AlgorithmProofs`.

## 3. Modules

**TxCommit.** What waiting for a transaction promises: peers commit it, each at
its own time and all with one verdict; the submitter is told "ok" only after all
peers it watches have committed it as valid.

**DeliverGroup** (`client/delivegroup/client.go`). `pc[c]` is where client `c`'s
goroutine is in `ClientConnect` or `ClientWait`, `wg` the WaitGroup's counter,
`ready` the channel that `WaitForWG` closes, `phase` and `ret` the caller. Every
unlock, channel operation and gRPC call is a step of its own: `setError` and
`Done` are two, the select in the caller takes `ready` or the context,
whichever it likes when it has both. The environment extends the chain, lets
peers commit it, answers seeks late, and breaks streams.

**ChaincodeTx** (`chaincode/invoke.go`, `approve.go`, `commit.go`, `config.go`).
One call, from the goroutines of `processProposal` (whose responses go to a
channel in any order) over `createSignedTx` to `broadcastProposalEnvelope` and
the deliver group. `Commit` asks its endorsers one after the other, `Approve` the
committer alone, both with their own tests of the answers.

**Lifecycle** (`chaincode/approve.go`, `commit.go`, `policy.go`, `request.go`).
Calls of several organizations, each endorsed by peers that hold a prefix of the
ledger, against what the lifecycle chaincode accepts.

**DeliverStream** (`client/orderer/deliver.go`, `channel/list.go`,
`utils/blockutil.go`). The stream as a queue of replies: block, then status. A
call sends its seek, reads the block and flushes the status; `FetchConfig` does so
twice.

**ConfigUpdate**, with **Governance** (`gateway/proposal.go`, `channel/`). Each
proposal goes through fetch, compute, sign, submit, with a pool of all signatures
ever made, of which the sponsor is handed any. A signature is an identity's, of
which an organization may have several, over an update; `Creator` is its
organization. `SigMaps` is the map that `ProposalSubmit` makes of them: keyed by
that organization, in any order, so that a later signature takes the place of an
earlier one, the sponsor's first one included. Any identity of the sponsor's
organization may submit, and adds a signature. An update is a record (base
version, change, encoding): two computations of the same change may differ in
bytes, as protobuf maps are serialized in any order. An envelope whose submitter
has given up may be ordered late. The orderer counts the members of which an
administrator's signature is there. `Governance` is the membership moving by
decisions of a majority of the members, each made by an administrator.
Signatures are handed in with the label `ProposalSign` gave them; a false label is
outside the model.

**ChannelConfig** (`channel/config.go`, `channel.go`, `gateway/proposal.go`,
`gateway/common.go`). The groups that `CreateOrganization` and the proposals
write, with their MSPs and their policies, and the evaluation of those policies
(external) for any set of signers. A change takes effect at once: agreeing on it
is the subject of `ConfigUpdate`.

**PeerAdmin** (`gateway/channel.go`, `channel/update.go`, `chaincode/install.go`).
Administrators that create a channel, join peers and install a chaincode; peers
keep what they did for a call that failed.

**Wire.** Messages and bytes. `Marshal` wraps a message so that bytes are never
taken for a message; `Carries` says whether bytes are a message of these fields;
hashes are injective constructors.

**TxMessage** (`utils/protoutil.go`, `txutil.go`, `unmarshal.go`, `common.go`,
`cryptoutil/signer.go`, `channel/update.go`). Proposal, proposal hash,
endorsement, assembly, identifiers, and the signed envelopes of the SDK's own.
Nonces and identities are sequences of bytes, because `ComputeTxID` hashes their
concatenation.

**BlockDecode** (`blockutil/`, `utils/`). The ordering service (external) cuts
blocks of the envelopes that clients of `TxMessage` made; the nested decoders are
operators that follow the code's order of unmarshalling and its dropped errors.

**RwSet** and **Simulation** (`rwsetutil/rw_util.go`). The conversions between
read-write sets and their messages; and their journey from a simulation to bytes
and to a reader, the private set beside the public one that hashes it.

**Payload** (`ccplatform/golang/`). `DescribeCode`, the walk file by file, the
dependency lists platform by platform, the directories collected in the order a
map is ranged over, and the writes, while a file may vanish.

**Installer** (`chaincode/chaincode.go`, `golang/list.go`). Calls that ask what to
install, several at a time. `moduleInfo` has a step for each call of the operating
system, from `os.Getwd` to the deferred `os.Chdir`, on the working directory that
all calls share; `overlapped` remembers that two packagings were under way at once.

**DeploymentSpec** (`ccplatform/cds.go`, `scds.go`, `provider.go`). Raw and signed
packages as protobuf fields: bytes decode as a message when the field numbers
agree, whatever they were written as, so that `GetCCPackage` has something to
confuse. Bytes carry whether they are valid UTF-8, as all that is in them decides it
and a string field must be.

**Identity** (`cryptoutil/`, `caclient/keystore.go`). A key's life from generation
over PEM, with or without a password, to a signature, on a group of prime order
`N` whose points are their discrete logarithms. A key is a number below `N`, of as
many digits as the curve's order has bytes.

**CAClient** (`caclient/`). Callers that send one HTTP request after the other; a
request whose answer is lost stays in `unsure` and may still be handled.

**SignaturePolicy** (`chaincode/policy/policydsl.go`). The three evaluations of
`FromString`, with numbers as floats in tenths, against the meaning of the written
policy: which sets of signers satisfy it. A text is the list of its calls in the
order in which they are evaluated, inner before outer; each evaluation rewrites the
list in place, the third one rule at a time, as all calls share one context.

**Digits.** A number as `Width` bytes to base `Base`, the most significant first:
what `encoding/binary` and `math/big` make of it, for `Height` and `Identity`.

**Height** (`rwsetutil/version.go`, `utils/util.go`). Comparison in arithmetic
modulo `Base ^ Width` and the encoding, at any word size.

**Algorithms.** `Height`, `Installer`, `Simulation`, `ChannelConfig`, `Identity`,
`DeploymentSpec`, `Payload` and `SignaturePolicy` with the variables of all, what is assumed of the simulations, of
the curve, of packages and of the organizations that a system channel begins with,
and names for the properties.

## 4. Runs

| run | question | bounds |
|---|---|---|
| `deliver_group` | Is "ok" true, is `Error` read without a race, is the WaitGroup used as its contract says, does the group implement `TxCommit`? Do both calls and all goroutines end on a network that may never answer? Does `Wait` see the commit when nothing fails? | 2 clients, 3 blocks, every failure |
| `chaincode_tx` | Is what is sent unanimously endorsed, is `nil` true, is every stream closed, is the group used as `DeliverGroup` demands, does every call return? | 2 endorsers, 4 status codes and nil, 2 payloads, 1 deliver client |
| `lifecycle` | Is what takes effect what a majority asked for? | 3 organizations, 3 definitions, 4 transactions, 2 calls at a time |
| `deliver_stream` | Does a seek find the stream quiet and its answer the one it asked for, and does every call return? | 4 blocks, any config blocks |
| `config_update` | Does the membership change only as agreed, does no organization that signed drop out of the envelope, and is a current proposal with its administrators' signatures applied in the end? | 3 organizations, one with an administrator and a second identity; 2 proposals, competing or equal; 1 stray envelope |
| `peer_admin` | Do reports of join and install say no more than the peers have, and does repeating a request get past a peer that is down? | 2 administrators, 2 peers, any of which may be down |
| `ca_client` | Are `nil` and "has registered" true when they are said, and does retrying settle a registration? | 2 callers, 1 name, 1 affiliation, 2 enrollments |
| `tx_message` | Does a committing peer accept what is assembled, is it free of transient data, do the decoders report what was encoded, and is a submitted update one of the channel it is sent for? | 2 proposals, 2 responses, 2 envelopes, 2 blocks of at most 2 |
| `algorithms` | Heights, policies, packages, installers, deployment specs, read-write sets, configurations, identities: see below | all inputs of eight bounded sets |

`MCTxMessage` EXTENDS `BlockDecode`, and with it `TxMessage` and `RwSet`. A
behaviour of this run has envelopes of one kind, transactions or updates, as the
two do not meet before they are ordered.

`MCAlgorithms` puts side by side what runs on the client's machine alone and
shares no state: it EXTENDS `Algorithms`; a behaviour runs one of them, and the
properties of the instances have names of their own there (`CompilerInv` is
`SignaturePolicy!CompilerInv`).

| property | question | inputs |
|---|---|---|
| `EncodingInv`, `CompareNear` | round trip, order, bounds; comparison | words of 2 digits to base 8; byte strings that are no encoding |
| `CompilerInv` | Does the compiled policy mean what was written? | 6 325 policies, up to 3 gates deep, well formed or not |
| `PackageInv` | Is a package whole, and the same for everybody? | up to 4 of 12 files, and one tree of 5; 2 platforms; 1 file vanishes |
| `InstallsItself` | Does an installer send the module asked for and leave the directory as it was? | 2 callers; relative, absolute, empty and GOPATH paths; given bytes and files |
| `DeploymentInv` | Is one kind of package taken for the other, and what stays of an earlier one? | names and versions of one concatenation, text and binary code, junk |
| `ReadBack` | Do read-write sets come back, and does the public set vouch for the private one? | 2 namespaces, 2 collections, empty values and deletions |
| `MembersGovern` | Do the members of a channel, and nobody else, read, write and govern it? | six organizations: two of one MSP identifier, one without a certificate, one of no known type |
| `IdentityInv` | Is the key read the key written, and is a signature accepted? | a curve of 13 points, bytes of three bits, keys of three formats |

An invariant called `...Inv`, and `ReportsAreTrue`, is the type invariant together
with the named parts its definition lists. Three more runs end in a violation:
section 6.

**Why the bounds are enough.** Two clients are the least at which one can fail
while the other runs on, and their goroutines are symmetric. Three blocks let the
transaction be in the block the seek starts at, before it and after it. Two
endorsers and two payloads give agreement and disagreement; the four status codes
lie on both sides of each of the code's tests (`== 200`, `>= 400`). One deliver
client in `ChaincodeTx` suffices as the group itself is checked with two and
proved for any number. Two proposals of two founders over three organizations
give conflict, staleness and a change of the majority; one organization with two
identities gives every displacement, of the sponsor's own signature and of another
organization's. Three organizations in
`Lifecycle` let two peers see a majority with and without the third approval, the
only way in which their endorsements differ; that takes four transactions and two
calls at once. `Base = 8`, `Width = 2`
keep what matters in 256 and 8: numbers on both sides of a change of encoded
length (7 and 8), of half the range (31, 32, 33), and the largest; the proofs
cover any size. In `TxMessage` one identity extends the other, so that nonces of
unequal length would make two identifiers collide. Two envelopes and two blocks
give a block of two transactions, a block after another, and one in which only
one of two results is a read-write set. The twelve files of `Payload`
have one for each branch of the walk; four at a time meet each other in every
combination of three branches and a vanishing fourth. Two callers of `Installer` are
all it takes to read each other's directory. On a curve of 13 points every key is
visited; seven of the twelve keys have a leading zero byte, and
half of the signatures a high S.

**Bounds in guards**: `MaxBlock` (chain), `MaxTx` (lifecycle ledger), `MaxCalls`
(calls in hand there), `MaxStray`
(envelopes without a submitter), `MaxEnrollments` (a limit Fabric CA has too),
`MaxProposals`, `MaxResponses`, `MaxEnvelopes`, `MaxBlocks` (ordered blocks),
`MaxBatch` (the channel's batch size), `MaxGone`. Deadlock checking is
off where a run may end for good, since a call returns or a bound is reached.

## 5. Fairness

Weak fairness for what the Go runtime schedules: a goroutine that can run, a
select with a ready case, a deferred cancel; and for gRPC ending a call whose
context is done. That is all the second half of `CallsEnd` has, that the goroutines
end. What is assumed beyond it stands in the property that needs it, as its
antecedent:

- The first half of `CallsEnd`, that the calls return: the timer of the deadline
  goes off. Nothing is assumed of the network.
- `WaitSeesCommit`: `NetFairness`, a network that delivers and peers that commit,
  and `[]NoFault`, no stream fails and no deadline passes. It asks whether the
  protocol, and not the network, can miss a commit; the answer is that it cannot
  when the transaction is ordered after the streams are at their place.
- `RequestsReach`: `Keen`, an administrator that makes one request of join or
  install over and over, against peers that answer it now and then unless they
  are down.

The rest is in a `FairSpec`. In `ChaincodeTx` endorsers and orderer answer, with
anything; without that `Invoke` may hang, as its calls use
`context.Background()`. In `DeliverStream` the orderer answers unless the
stream breaks. In `ConfigUpdate` and `CAClient` the caller retries, which
the SDK itself never does, and a request sent over and over is answered at some
time (strong fairness), whatever fails in between. `Progress` needs more of the
users of `ConfigUpdate`: administrators sign, and what the sponsor hands in again
and again is the signatures of administrators alone (`HandInAdmins`), since
another one may displace an administrator's. The SDK does not see to that.

## 6. Findings

| run | what the code does | what is said of it |
|---|---|---|
| `first_error_kept` | `setError` (`delivegroup/client.go:191`) overwrites an earlier error | "Only the first error that occurs will be set" (`:21`) |
| `channel_join_one` | `ChannelJoin` (`gateway/channel.go:67`) joins the first peer only and answers 200 | the request has repeated peers, and `example/channel_test.go:238` sends all of them |
| `endorsers_suffice` | `CreateOrganization` (`channel/config.go:110`) swaps the policies of peers' and orderers' organizations: one defined by this SDK as a peers' has no `Endorsement` policy, so a channel of such members accepts no chaincode definition | `example/chaincode_test.go:59` commits one on such a channel and expects 200 |

More came up in modelling, without a run of their own:

- `ProposalSubmit` keeps one signature per organization (`gateway/proposal.go:128`):
  of two over the same update the one handed in last is left, whoever made it. The
  signature of an identity that is no administrator displaces its administrator's,
  the sponsor's first one as well, and the orderer may refuse the envelope although
  enough administrators had signed; so does a signature under a false `Creator`,
  which nothing compares with the signature. `NoSignerLost` says what is kept all
  the same, `ImplementsGovernance` that nothing is accepted for it.
- The comment on `FetchConfig` (`channel/list.go:140`) says that it gets the
  channel's genesis block, the first one (获取通道创世区块（首区块）). It returns the last config
  block, which is what its callers compute updates from; on a channel whose
  configuration has changed the two differ.
- `Approve` overwrites the error of the collection configuration before it is looked
  at (`chaincode/approve.go:76`): collections that do not parse are left out, and the
  approval goes on without them. `CommittedWasMeant` asks only for those that parse.
- `unmarshalChaincodeAction` (`blockutil/block/block.go:233`) drops the error of the
  extension, which then reads as an action that is empty or filled in part.
  `TxMessage` makes no such extension.
- `createChannelOrg` (`gateway/common.go:78`) drops the error of a certificate that
  does not parse; the nil certificate makes a later call panic. In `ChannelConfig`
  that call changes nothing.
- Two packagings at once change the working directory under each other
  (`ccplatform/golang/list.go:158`): one may read the module of the other, and the
  directory may stay changed. `InstallsItself` is about calls that do not overlap.
- `OutOf(0, ...)` compiles to a policy nobody has to sign: `policydsl.go:140` tests
  `t < 0`, its comment says "t should be positive".
- `Compare` (`version.go:45`) takes the sign of a wrapped difference, and its
  comment claims the order of all heights; `CompareNear` says how far that is so.
- `ValidateCodePackage` refuses the directory entries that `GetDeploymentPayload`
  writes for the sake of "sane ownership and permissions" (`platform.go:306`,
  `:151`); it has no caller. `PackageInv` has it pass every entry of a file.
- `isMetadata` tests a prefix of the path (`package.go:161`), so a hidden file in or
  below a directory whose name only begins like `META-INF`, such as
  `META-INF-old/.keep`, is left out of a module's package without an error
  (`:101`), where any other file there would be refused as bad metadata. A proof
  of `SourcesWhole` without that exception failed, and TLC found the case.
- Name and version of a deployment spec are hashed end to end (`provider.go:99`), so
  ("cc", "1") and ("c", "c1") share a fingerprint; empty bytes make `getCDSData`
  panic.
- The label in `metadata.json` is the path (`chaincode.go:127`).
- `sanityCheckAndSignConfigTx` (`channel/update.go:49`) wraps an error that is nil
  at that point, so that most refusals return nil for both results. `UpdateIsSane`
  says that nothing is sent all the same.
- With its last organization removed a channel has policies that everybody
  satisfies; `MembersGovern` is about channels that have a member.
- `ChannelAddOrg` does not test the application group for nil; a proposal of no
  known type dereferences a nil envelope; `pemToX509Certs` takes what is not PEM
  for no certificates, without an error.
- `GetMyCryptoSuiteFromBytes` accepts a key and a certificate that do not belong
  together, and an encrypted key has no way into the gateway.

Met while reading, in code with no state to explore: `createCommonFactory` indexes
a slice it never allocates (`gateway/common.go:71`), so that a chaincode call panics
once its peers are reached; `ChaincodeCommit` passes it a nil committer;
`ChaincodeQuery` has no endorsers; an install from source or git through the
gateway panics, as the empty type has no packager; `ChannelList` and the query of
one committed definition (`list.go:223`) leave what they computed out of their
answer; `CheckCommitReadiness` leaves fields of the definition out and cannot be
given its name.

## 7. Proofs

| module | proved, for every value of the constants |
|---|---|
| `DeliverGroupProofs` | `Invariance`, `TypeCorrect`, `OkIsCommitted`, `ErrorReadIsRaceFree`, `ConnectionIsSet`, `InvalidIsOnLedger`, `ErrorFinal`, `WaitGroupReuse`, and `Refinement` (of `TxCommit`) |
| `ChaincodeTxProofs` | `Invariance`, `CallCorrect`, `SentEndorsed`, `NilErrorTrue`, and `GroupUsed` (`ImplementsDeliverGroup`) |
| `ConfigUpdateProofs` | `Invariance`, `OkIsApplied`, `SignersKept` (`NoSignerLost`), and `Refinement` (of `Governance`) |
| `DeliverStreamProofs` | `StreamCorrect`, `BlockIsRight` |
| `PeerAdminProofs` | `Invariance`, `ReportsTrue` |
| `CAClientProofs` | `Invariance`, `VerdictsTrue`, `AffiliationsFirst` |
| `TransactionProofs` | `EnvelopesTellTruth` (`EnvelopeInv`), `CommittersAccept`, `SecretsStay`, `UpdatesAreSane`, `DecodersTellTruth`; `CallersRely` (`CallerInv`) and `MembersMeantIt` (`CommittedWasMeant`) |
| `AlgorithmProofs` | `CompareOrders`, `SameOnlyIfEqual`, `EncodingFaithful`; `Invariance` and `PackagesItself`; `SetsReadBack`; `ChannelsGovernThemselves`; `IdentitiesWork` (`IdentityInv`); `PackagesAreTaken` (`DeploymentInv`); `PackagesAreWhole` (`PackageInv`); `PoliciesCompile` (`CompilerInv`) |

*DeliverGroup.* "ok means committed" is not inductive: `Wait` reads `Error` after
the WaitGroup drains, so the invariant has to say what a drained WaitGroup means.
`IInv` adds that `wg` is the number of live goroutines (`WgCounts`), that `ready`
is closed only at zero (`QuiescentInv`), what each phase of the caller implies
(`PhaseInv`), that a client that ended `ClientWait` without an error has seen the
transaction valid (`WorkDone`), that a connection is there when it is used
(`ConnInv`), and what a goroutine about to set an error has seen (`CauseInv`).
Counting goes by the cardinality of the set of live goroutines, hence the
assumption that `Client` is finite. Preservation has a lemma for the caller, for
the goroutines and for the channel. The refinement maps each peer's prefix of the
chain to the abstract ledger and the caller's result to the abstract outcome; only
`PeerCommit` and the two returns are not stutters.

*ChaincodeTx.* A call's `nil` rests on what the group says, so the group's own
inductive invariant is part of this one. `GroupStep` shows that every step of a
call is a step of `DeliverGroup` or leaves it alone, which gives `GroupUsed` at
once and lets `DeliverGroupProofs` be instantiated: its invariant is preserved by
whatever the call does (`GroupKeeps`). The rest, `CallInv`, says for each stage
what is known of responses and envelope (`Gathering`), what has been promised
(`Telling`), and where the group is (`GroupUse`, `Subscribing`, `Closing`), with a
lemma for each. `GroupAssumption` repeats the assumptions of the group.

*ConfigUpdate.* `IInv` says that a fetched config and a computed update with the
channel's current version are right about its members (`FreshConfig`,
`FreshUpdate`), and that whatever is in an envelope was signed. With these an
update the orderer accepts is a step of `Governance`, whichever signatures were
displaced on the way. `EnvelopeSigs` takes the map of `ProposalSubmit` apart: what
goes into the envelope is over its update, and of every organization of which such a
signature was handed in, one is there.
Assumptions: `Org` is finite; every identity has an organization
(`SignerAssumption`).

*DeliverStream.* The invariant is the conversation: between two seeks the stream is
quiet, and while one is out it holds a prefix of its reply, whole or broken off
(`Reading`, `Flushing`). `Meaning` ties what the caller holds to the chain of the
time of the call. The chain has any length and any config blocks; that there is a
last config block up to each block (`Greatest`) comes from the well-foundedness of
the numbers, and that a growing chain does not change it is `LastKept`.

*PeerAdmin.* `CallTrue` says that the responses so far are true of the peers named
so far, `Truth` what an answer says. Peers keep what they did, so both last.
`TotalTells` takes the counting in `ChaincodeInstall` apart: a total of 200 is one
of all peers, 204 of some and not all. The lists of a request are nonempty
(`ListsAssumption`).

*CAClient.* The hard case is a request that is handled after its caller has given
up. `IInv` relates each program counter and each request in `unsure` to the
server: past the affiliation step, the affiliation is there (`PastAffiliation`);
only who wants one asks for it (`AffiliationWanted`). Every action is an exchange
with the server followed by what the caller learns, and there is a lemma for each
half.

*TxMessage, BlockDecode.* Four of the properties are inductive together
(`MessageInv`), as the types in `EnvelopeInv` say where everything came from: a
proposal is what a client and a nonce make, an answer is signed by its endorser over
that proposal's hash and a result. Identifiers are unique because all nonces have one
length (`NonceAssumption`; `getRandomNonce` reads 24 bytes), so that what
`ComputeTxID` hashes can be cut in one place only (`Splits`). For the decoders
`BlockInv` adds how each envelope was made (`MadeInv`: its headers, the answers it was
assembled of, the signatures on an update) and that a block is a configuration in its
place or nothing but transactions (`ChainInv`). `DecodersTellTruth` then takes them
one message at a time, down to the round trip of a read-write set
(`ReadHeader`, `ReadAction`, `ReadInput`, `ReadTransaction`, `ReadUpdate`,
`ReadConfig`), and tells the two kinds apart by their types (`KindOfBlock`).

*Lifecycle.* `CallerInv` and `CommittedWasMeant` are inductive together. What an
endorser at some height saw approved is what was approved up to there, whatever the
ledger has grown by since (`Kept`, `ApprovalSays`). A call that is ordered late takes
effect only if what its endorsers saw is still so, and then a majority that had
approved there has approved still (`NewIsMeant`).

*Height.* `int(x - y)` has the right sign within half the range: linear arithmetic
once `Modulus = 2 * Half` is known. For the encoding, a number is cut into
`Rest(n, i)` and its last `i` digits; two numbers first differ at a greatest digit
(`FirstDigit`), and shorter numbers are smaller (`SizeMonotone`), which gives the
order of the bytes (`CodeKeepsOrder`). `ValueOfDigits` and `StreamIsRead` read back
what was written, whatever follows it. `ReadingInv` says how far the reader is in
the bytes of two heights, and that what it has read of any bytes fits. What is
needed of powers is `PowerAssumption`; the width of the size byte is
`Width < Base \div 2`.

*Installer.* Until two packagings overlap there is at most one (`Alone`), the
process is where that one's program counter says (`Place`), and what it found is of
its own path. The theorem holds for any directories and any modules.

*Simulation.* One conversion at a time: to messages, to bytes, and back
(`PublicBack`, `PrivateBack`), and the hashes of the public set against the private
one (`HashesMatch`). `NumCollections` counts by a recursion over the namespaces,
which is shown to have one solution (`UpToUnique`).

*ChannelConfig.* Every group that a creation or a proposal writes is `Sound`: its
policies name its own MSP. The rest is about majorities of sound groups.

*Identity.* A key without its leading zeros, padded to its width, is the digits of
the key, so that what reads a number back there reads it here (`KeyIsRead`,
`ValueOfDigits`); only its password opens what was written under one
(`WrittenOpens`). `KeyInv` carries this along a key's life. A signature verifies
because `s * u = e + r * d` leaves one `u` modulo the order: the nonce, or, when S
was turned over, its opposite, and both have the same x-coordinate
(`SignatureVerifies`). That every number below the order has an inverse is all that
is used of it being prime (`CurveAssumption`).

*DeploymentSpec.* What a field was made of decides how it is read (`MsgFields`,
`FieldIsRead`): a raw package that decodes as an envelope has no header type that is
a chaincode package's, a signed one may well parse as raw (`RawIsRaw`,
`SignedIsSigned`). `ObjectInv` says that an object is what its bytes make of it and
that what LSCC stored came of such an object. That `ValidateCC` tells policies apart
goes by the hash, which begins with the policy (`PolicyIsHashed`), the recursion over
the owners having a solution for any number of them (`SignatureHashIs`). The hash
does not mark where the policy ends and the owners begin, so that has to be assumed:
no policy is the beginning of another (`PoliciesAssumption`).

*Payload.* `PayloadInv` says for each stage what the map, the lists and the entries
written so far stand for: `Described` what the directory is, `Walking` what is still
ahead of the walk, `Listing` that each platform done has its dependencies listed,
`Mapping` that a file of the code is in the map under its name or still ahead,
`Collecting` that the directories of each name done are collected, and `Writing` that
the entries are a beginning of the sorted directories and then the sorted files.
Files may vanish at any moment, so all of this is said of the files that are left
and those that are gone, which together are the tree of the start (`OnDisk`).
An entry's name tells its file (`CalledTells`, `TakenTells`), so nothing that joins
the map takes anything out, in whichever order dependencies come. The order of the
entries does not depend on that of the map because `Less` is a strict total order,
so that sorting a set lists each member once and in one way only (`SortedIs`); the
walk up may stop at the first directory it knows because all above it are known as
well (`AscendIs`).

*SignaturePolicy.* That the compiled policy means what was written is said of the end
only. `CompilingInv` says what each call is meanwhile: before its turn in an
evaluation what the one before made of it, after it what this one does (`Once`,
`Twice`, `Built`). From the text to the third evaluation nothing is lost that counts,
as a principal, an inner call and the integer part of a threshold print as themselves
(`LaterIs`, `ThresholdIs`), and nothing becomes a rule that was none, so that the
policies refused are those that are not well formed (`WellFormedPasses`,
`PassesWellFormed`). In the third, `Numbered` says that every rule made is the
argument it came from, a principal standing under its number in the context, that
numbers grow in the order of evaluation across inner and outer calls, and that each
number handed out is some rule's. Satisfaction is then compared call by call
(`CallsMean`): a gate holds as written if and only if its rules, counted, reach the
compiled number. The two meanings are functions chosen by their defining equations,
and since the equations are equivalent so are the meanings (`MeaningKept`), whatever
the depth. Assumption: texts parse to gates whose calls come before those that name
them (`TextsAssumption`).

*Induction.* The library's induction theorems cannot be used here, as they take a
predicate as a parameter. Where a proof goes along a sequence or a number it takes
the least counterexample instead (`Least`, from the well-foundedness of the
numbers), and a recursive function is shown to exist that way before it is used
(`ValueIs`, `NumCollectionsIs`).

**Assumed of the constants**, besides finiteness and that a "none" is none of the
values: in `TxMessage` nonces of one length and identities that are not empty; in
`BlockDecode` that a result which parses as a read-write set is one a simulator made
(`ResultAssumption`), and that what callers hand to `Update` has lists where the
messages have repeated fields (`GivenAssumption`, `SignaturesAssumption`); in
`Lifecycle` that definitions are requests and that somebody endorses; in
`Algorithms` that a simulation is a list of namespaces with their keys
(`SimulationsAssumption`), that the organizations a consortium begins with are
sound (`FoundersAssumption`), that the curve is a field of odd order whose keys
have its size (`CurveAssumption`), that packages have strings and bytes where the
messages have them (`PackagesAssumption`), that no policy is the beginning of another
(`PoliciesAssumption`), that the junk initializes neither kind (`JunkAssumption`), that
trees are finite sets of paths (`FilesAssumption`), that a policy is a list of gates,
each naming earlier ones (`TextsAssumption`), that `META-INF` is a metadata directory and `src` is none
(`MetadataAssumption`), and that what the go
command lists is neither hidden nor an index (`ListedAssumption`: it is a .go, .c, .h
or .s file); in
`Digits` an even base and `PowerAssumption`. Each
holds of the program or is what its surroundings guarantee; TLC evaluates them all
on the instances of section 4.

**Only model-checked.** All liveness, as its proof needs ENABLED and fairness. Every
invariant and every action property of the runs is a theorem.

## 8. Not modelled

- *Connections* (`comm`, `client/peer`): options and a dial with a timeout. Every
  call dials, nothing is kept and nothing closed (`peer.go:91`): the number of
  connections only grows, and a property would restate that.
- *Gateway factory and contract*: straight-line code that dials and hands over;
  as it stands no chaincode call with an endorser returns from it. What
  `CommittedWasMeant` says of definitions holds below it.
- *A stalled broadcast stream* (`orderer.go:54`), opened without a deadline: in the
  models the orderer answers or the stream breaks. A stall with neither would hang
  every call.
- *Cryptography*: curves and hashes are what `Identity` and `Wire` say; ASN.1, the
  subjects and extensions of certificate requests are data no property tells apart.
- *Computing an update* (`configtxlator`) and genesis blocks: a library, and
  functions without a caller.
- *Queries* (`List`, `GetInfo`, `QueryInstalled`, `QueryApproved`,
  `QueryCommitted`, `CheckCommitReadiness`): read one peer and keep nothing.
- *Code without a caller*: `vendorDependencies`, `listDeps`, `listImports`, lscc
  proposals, `GetOldestBlock`, the unexported calls of the CA client.
- *Generated code* (`gateway/protoutil`).

## 9. Plan

Order of work: first what a caller is told about a transaction (`DeliverGroup`,
`ChaincodeTx`, `Lifecycle`), then what several organizations do to one channel
(`ConfigUpdate`, `PeerAdmin`, `DeliverStream`), then the CA client and the
algorithms, then messages, blocks and what is on the client's disk, then the
proofs of the components above. That much is done. Ahead: `CheckCommitReadiness` as an action of
`Lifecycle`, as it asks about another definition than `Commit` commits.
