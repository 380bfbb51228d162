----------------------------- MODULE MCAlgorithms -----------------------------
(***************************************************************************)
(* What runs on the client's machine alone: heights and their encoding,    *)
(* the compiler of signature policies, the code package and the installers *)
(* that ask for it, deployment specs, read-write sets, what the            *)
(* configurations of channels say, identities.  They share no state.  A    *)
(* behaviour runs one of them; the others stay at one of their initial     *)
(* states.                                                                 *)
(***************************************************************************)
EXTENDS Algorithms, SequencesExt

CONSTANTS
  orgA, orgB,                                   \* SignaturePolicy
  linux, local,                                 \* Payload
  bytes1,                                       \* Installer
  nsA, nsB, collA, collB, key1, key2, val1      \* Simulation

VARIABLE runs                                  \* the algorithm that runs

policy  == <<written, calls, pass, done, rules, IDNum, principals>>
package == <<files, gone, pc, cd, todo, dists, needs, listed, fileMap, names,
             dirMap, payload, result>>
install == <<installer, cwd, at, entryWD, modInfo, metadata, installed, overlapped>>
deploy  == <<raw, signed, rawBuf, signedBuf, chosen, ccdata>>
rwset   == <<sim, pubBytes, pvtBytes, txRwSet, txPvtRwSet, stage>>
config  == <<consortiums, application, returned>>
ident   == <<life, key, cert, pwd, pem, suite, digest, signature>>

-----------------------------------------------------------------------------
(* Heights. *)

(* On both sides of a change of size, and of half the range. *)
MCNumbers == {0, 1, 7, 8, 31, 32, 33, 63}

MCGarbage == BoundedSeq(Byte, 5)

-----------------------------------------------------------------------------
(* Policies. *)

(* With other constants, as these are made here. *)
Terms == INSTANCE SignaturePolicy WITH Written <- {}

Nest(g, args) == [kind |-> "nest", gate |-> g, args |-> args]

Leaves == {Terms!Signed(orgA), Terms!Signed(orgB), Terms!Word}
Firsts == {Terms!Number(t) : t \in {-10, 0, 10, 15, 20, 30}}
          \cup {Terms!String(Terms!Number(15)), Terms!String(Terms!Word)}

Gates(first, args) ==
  {Nest(g, s) : g \in {"And", "Or"}, s \in args}
  \cup {Nest("OutOf", <<x>> \o s) : x \in first, s \in args}

(* Gates of one or two principals; of up to two gates, leaves and numbers; *)
(* and some three deep.                                                    *)
Depth1 == Gates({Terms!Number(15), Terms!Number(30)},
                {<<Terms!Signed(orgA)>>, <<Terms!Signed(orgB)>>,
                 <<Terms!Signed(orgA), Terms!Signed(orgB)>>,
                 <<Terms!Signed(orgB), Terms!Signed(orgA)>>})
Depth2 == Gates(Firsts \cup {Terms!Signed(orgA), Nest("Or", <<Terms!Signed(orgA)>>)},
                BoundedSeq(Leaves \cup Depth1
                           \cup {Terms!Number(10), Terms!String(Terms!Number(10))}, 2))
Depth3 == Gates({Terms!Number(20)},
                {<<Nest("Or", <<x, Terms!Signed(orgA), y>>), Terms!Signed(orgB)>> :
                   x, y \in Depth1})

(* The calls of an expression that follow n others. *)
RECURSIVE Calls(_, _)
Calls(x, n) ==
  IF x.kind # "nest" THEN <<>>
  ELSE LET after[i \in 0..Len(x.args)] ==
             IF i = 0 THEN <<>>
             ELSE after[i - 1] \o Calls(x.args[i], n + Len(after[i - 1]))
           place(i) == n + Len(after[i])
       IN Append(after[Len(x.args)],
            Terms!Call(x.gate, [i \in DOMAIN x.args |->
                                 IF x.args[i].kind = "nest" THEN Terms!Nested(place(i))
                                                            ELSE x.args[i]]))

MCWritten == {<<>>} \cup {Calls(x, 0) : x \in Depth2 \cup Depth3}

-----------------------------------------------------------------------------
(* Code packages. *)

MCRoot == <<"cc">>
MCNames == <<".git", "META-INF-old", "META-INF", "a.json", "cc", "dep", "fmt",
             "go.mod", "indexes", "main.go", "src", "sub", "vendor">>
MCHidden == {".git"}
MCMetaLike == {"META-INF", "META-INF-old"}
MCIndexDirs == {<<"indexes">>}
MCGoodIndex == {"a.json"}
MCGoFile == {"main.go"}

(* Below the chaincode's directory: sources at its top, in a package below *)
(* it, in a hidden directory; metadata that is an index, that is not, in a *)
(* directory with a longer name, of the package below.  Beside it: a       *)
(* package it may import, as it may one it vendors.                        *)
MCFile == {
  <<"cc", "main.go">>, <<"cc", "go.mod">>, <<"cc", "sub", "main.go">>,
  <<"cc", ".git", "main.go">>,
  <<"cc", "META-INF", "indexes", "a.json">>, <<"cc", "META-INF", "a.json">>,
  <<"cc", "META-INF", "indexes", ".git">>,
  <<"cc", "META-INF-old", "indexes", "a.json">>, <<"cc", "META-INF-old", ".git">>,
  <<"cc", "sub", "META-INF", "indexes", "a.json">>,
  <<"cc", "vendor", "dep", "main.go">>, <<"dep", "main.go">>}

MaxFiles == 4
MCTrees ==
  {t \in SUBSET MCFile : Cardinality(t) \in 1..MaxFiles} \cup
  {{<<"cc", "main.go">>, <<"cc", "go.mod">>, <<"cc", "sub", "main.go">>,
    <<"cc", "sub", "META-INF", "indexes", "a.json">>, <<"dep", "main.go">>}}

MCGoroot == {<<"fmt">>}
MCNeeds == {{}, {<<"fmt">>, <<"dep">>}, {<<"cc", "vendor", "dep">>}}
MCDist == {linux, local}

-----------------------------------------------------------------------------
(* Installers: of a package, of a file that is there and of one that is    *)
(* not, of no kind, and of source: in a module, in a package of one, in    *)
(* GOPATH, and under the empty path.                                       *)

Path(abs, p) == [absolute |-> abs, names |-> p]
Source(path) == [kind |-> "source", type |-> "GOLANG", path |-> path]

MCStart == <<"w">>
MCDirs  == {MCStart, <<"w", "a">>, <<"w", "a", "b">>, <<"w", "b">>, <<"c">>}
MCModule ==
  [d \in MCDirs |->
     CASE d = <<"w", "a">>      -> [dir |-> <<"w", "a">>, importPath |-> Path(FALSE, <<"example", "a">>)]
       [] d = <<"w", "a", "b">> -> [dir |-> <<"w", "a">>, importPath |-> Path(FALSE, <<"example", "a", "b">>)]
       [] d = <<"c">>           -> [dir |-> <<"c">>, importPath |-> Path(FALSE, <<"example", "c">>)]
       [] OTHER                 -> Nil]
MCGopath == {Path(FALSE, <<"b">>), Path(FALSE, <<"x">>)}

MCInstallers ==
  {Source(Path(FALSE, p)) : p \in {<<"a">>, <<"a", "b">>, <<"b">>, <<"x">>, <<>>}}
  \cup {Source(Path(TRUE, <<"c">>)), [Source(Path(FALSE, <<"a">>)) EXCEPT !.type = "OTHER"]}
  \cup [kind : {"package"}, bytes : {bytes1}] \cup [kind : {"file"}, bytes : {bytes1, Failure}]
  \cup [kind : {"git"}]

-----------------------------------------------------------------------------
(* Deployment specs: names and versions whose concatenations are the same, *)
(* code that is text and code that is not; policies that are a message,    *)
(* that are text, none; owners that are text; and bytes of other things.   *)

(* With other constants, as these are made here. *)
Wrote == INSTANCE DeploymentSpec WITH Raws <- {}, Signeds <- {}, Junk <- {}

Cds(name, version, code) ==
  [path |-> Wrote!Text(<<"p">>), name |-> Wrote!Text(name),
   version |-> Wrote!Text(version), code |-> code]
Code == Wrote!Binary("code")

MCRaws == {Cds(<<"c", "c">>, <<"1">>, Code), Cds(<<"c">>, <<"c", "1">>, Code),
           Cds(<<"c", "c">>, <<"2">>, Wrote!Text(<<"x">>)),
           Cds(<<"c", "c">>, <<"1">>, Wrote!Nothing)}

Role == Wrote!Msg(Wrote!Int(0), Wrote!Text(<<"r">>), Wrote!Nothing)
Text == Cds(<<"c", "c">>, <<"2">>, Wrote!Text(<<"x">>))
TextPolicy == Wrote!Text(<<"r">>)
Owner  == <<Wrote!Binary("o1")>>
Owners == <<Wrote!Text(<<"o", "2">>), Wrote!Binary("o1")>>

MCSigneds ==
  [raw : {Cds(<<"c", "c">>, <<"1">>, Code), Text}, policy : {Role, TextPolicy}, owners : {Owner}]
  \cup [raw : {Text}, policy : {Wrote!Nothing, Role, TextPolicy}, owners : {<<>>, Owners}]

MCJunk ==
  LET nil == Wrote!Nothing
  IN  {nil, Wrote!Envelope(Wrote!Int(1), nil),
       Wrote!Msg(Wrote!Msg(nil, nil, nil), nil, nil), Wrote!Binary("x")}

-----------------------------------------------------------------------------
(* Simulations of up to two namespaces with up to two collections, with    *)
(* reads of keys that were there or not, and writes of values, of empty    *)
(* ones and of none.                                                       *)

Reads  == BoundedSeq({key1} \X {Nil, <<0, 0>>, <<1, 2>>}, 1)
Writes == BoundedSeq({key1, key2} \X {Nil, Empty, val1}, 1)
          \cup {<<<<key1, Nil>>, <<key2, val1>>>>, <<<<key1, Empty>>, <<key2, Nil>>>>}
Keys   == [reads : Reads, writes : Writes]
Some   == [reads |-> <<<<key1, <<1, 2>>>>>>, writes |-> <<<<key1, Empty>>, <<key2, val1>>>>]
Other  == [reads |-> <<>>, writes |-> <<<<key2, Nil>>>>]

Colls(K) ==
  {<<>>} \cup {<<[coll |-> collA, keys |-> k]>> : k \in K}
  \cup {<<[coll |-> collA, keys |-> k], [coll |-> collB, keys |-> Some]>> : k \in K}

MCSimulations ==
  {<<>>}
  \cup {<<[ns |-> nsA, keys |-> k, colls |-> c]>> : k \in Keys \cup {Nil}, c \in Colls({Some, Other})}
  \cup {<<[ns |-> nsA, keys |-> Other, colls |-> c]>> : c \in Colls(Keys)}
  \cup {<<[ns |-> nsA, keys |-> Other, colls |-> c], [ns |-> nsB, keys |-> k, colls |-> d]>> :
          k \in {Some, Nil}, c, d \in Colls({Some, Other})}

-----------------------------------------------------------------------------
(* Organizations: two peers', the second also as an orderers'; one with    *)
(* another's MSP identifier; one whose certificate does not parse; one of  *)
(* no known type.  Another tool has defined the first of the consortium.   *)

Described(name, id, type, root) ==
  [Name |-> name, ID |-> id, Type |-> type, RootCA |-> root]

MCOrganizations ==
  {Described("org1", "Org1MSP", "PEER",    "ca1"),
   Described("org2", "Org2MSP", "PEER",    "ca2"),
   Described("org2", "Org2MSP", "ORDERER", "ca2"),
   Described("org3", "Org1MSP", "PEER",    "ca3"),
   Described("org4", "Org4MSP", "PEER",    Nil),
   Described("org5", "Org5MSP", "OTHER",   "ca5")}

Or(roles) == [msp : {"Org0MSP"}, role : roles]

MCFounders ==
  [main |-> [org0 |->
     [msp      |-> [name |-> "Org0MSP", root |-> "ca0", admins |-> {}],
      policies |-> [Readers     |-> Or({"admin", "peer", "client"}),
                    Writers     |-> Or({"admin", "client"}),
                    Admins      |-> Or({"admin"}),
                    Endorsement |-> Or({"peer"})]]]]

-----------------------------------------------------------------------------
(* Identities, on a curve of 13 points with bytes of three bits: the keys  *)
(* below 8 have a leading zero.                                            *)

MCBrought == [form : {"PKCS1", "PKCS8", "EC"}, alg : {"EC", "RSA", "Ed25519"},
              bytes : {<<0, 0>>, <<1>>, <<0, 2>>, <<1, 4>>, <<1, 5>>}, password : {Nil, "p"}]
             \cup {Nil}

-----------------------------------------------------------------------------
HeightIdle == given = None /\ bytes = <<>> /\ pos = 0 /\ out = <<>> /\ step = "decode"

PolicyIdle ==
  /\ written = <<>> /\ calls = <<>> /\ pass = "first" /\ done = 0 /\ rules = <<>>
  /\ IDNum = 0 /\ principals = <<>>

PackageIdle ==
  /\ files = {MCRoot \o <<"main.go">>} /\ gone = {}
  /\ pc = "describe" /\ cd = None /\ todo = <<>>
  /\ dists = MCDist /\ needs = [d \in MCDist |-> {}] /\ listed = {}
  /\ fileMap = <<>> /\ names = {} /\ dirMap = {} /\ payload = <<>> /\ result = None

InstallIdle ==
  /\ installer = [c \in Caller |-> [kind |-> "git"]] /\ cwd = MCStart
  /\ at = [c \in Caller |-> "idle"] /\ overlapped = FALSE
  /\ entryWD = [c \in Caller |-> Nil] /\ modInfo = entryWD
  /\ metadata = entryWD /\ installed = entryWD

DeployIdle == Deploy!Init

SetsIdle ==
  /\ sim = <<>> /\ stage = "simulated"
  /\ pubBytes = Nil /\ pvtBytes = Nil /\ txRwSet = Nil /\ txPvtRwSet = Nil

ConfigIdle == Configs!Init

IdentIdle == Identities!Init

InitOne ==
  \/ /\ runs = "height" /\ Init
     /\ PolicyIdle /\ PackageIdle /\ InstallIdle /\ DeployIdle /\ SetsIdle /\ ConfigIdle /\ IdentIdle
  \/ /\ runs = "policy" /\ Policy!Init
     /\ HeightIdle /\ PackageIdle /\ InstallIdle /\ DeployIdle /\ SetsIdle /\ ConfigIdle /\ IdentIdle
  \/ /\ runs = "package" /\ Package!Init
     /\ HeightIdle /\ PolicyIdle /\ InstallIdle /\ DeployIdle /\ SetsIdle /\ ConfigIdle /\ IdentIdle
  \/ /\ runs = "install" /\ Install!Init
     /\ HeightIdle /\ PolicyIdle /\ PackageIdle /\ DeployIdle /\ SetsIdle /\ ConfigIdle /\ IdentIdle
  \/ /\ runs = "deploy" /\ Deploy!Init
     /\ HeightIdle /\ PolicyIdle /\ PackageIdle /\ InstallIdle /\ SetsIdle /\ ConfigIdle /\ IdentIdle
  \/ /\ runs = "rwset" /\ Sets!Init
     /\ HeightIdle /\ PolicyIdle /\ PackageIdle /\ InstallIdle /\ DeployIdle /\ ConfigIdle /\ IdentIdle
  \/ /\ runs = "config" /\ Configs!Init
     /\ HeightIdle /\ PolicyIdle /\ PackageIdle /\ InstallIdle /\ DeployIdle /\ SetsIdle /\ IdentIdle
  \/ /\ runs = "identity" /\ Identities!Init
     /\ HeightIdle /\ PolicyIdle /\ PackageIdle /\ InstallIdle /\ DeployIdle /\ SetsIdle /\ ConfigIdle

NextHeight  ==
  /\ runs = "height" /\ Next
  /\ UNCHANGED <<runs, policy, package, install, deploy, rwset, config, ident>>
NextPolicy  ==
  /\ runs = "policy" /\ Policy!Next
  /\ UNCHANGED <<runs, vars, package, install, deploy, rwset, config, ident>>
NextPackage ==
  /\ runs = "package" /\ Package!Next
  /\ UNCHANGED <<runs, vars, policy, install, deploy, rwset, config, ident>>
NextInstall ==
  /\ runs = "install" /\ Install!Next
  /\ UNCHANGED <<runs, vars, policy, package, deploy, rwset, config, ident>>
NextDeploy  ==
  /\ runs = "deploy" /\ Deploy!Next
  /\ UNCHANGED <<runs, vars, policy, package, install, rwset, config, ident>>
NextSets    ==
  /\ runs = "rwset" /\ Sets!Next
  /\ UNCHANGED <<runs, vars, policy, package, install, deploy, config, ident>>
NextConfig  ==
  /\ runs = "config" /\ Configs!Next
  /\ UNCHANGED <<runs, vars, policy, package, install, deploy, rwset, ident>>
NextIdent   ==
  /\ runs = "identity" /\ Identities!Next
  /\ UNCHANGED <<runs, vars, policy, package, install, deploy, rwset, config>>

NextOne ==
  \/ NextHeight
  \/ NextPolicy
  \/ NextPackage
  \/ NextInstall
  \/ NextDeploy
  \/ NextSets
  \/ NextConfig
  \/ NextIdent

SpecOne ==
  InitOne /\ [][NextOne]_<<runs, vars, policy, package, install, deploy, rwset, config, ident>>
===============================================================================
