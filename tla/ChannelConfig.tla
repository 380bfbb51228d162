----------------------------- MODULE ChannelConfig -----------------------------
(***************************************************************************)
(* internal/channel/config.go and channel.go: what the configurations say  *)
(* that ChannelCreate and the proposals of the gateway make.  Who may      *)
(* read, write, endorse and govern follows from the policies written into  *)
(* the groups of the organizations and from the identities their MSPs      *)
(* admit.                                                                  *)
(*                                                                         *)
(* How a change is agreed on is the subject of ConfigUpdate: here it takes *)
(* effect at once.  The library that writes the groups and the orderer are *)
(* external.  The groups of a new channel are those the consortium has     *)
(* under the names the request gives.                                      *)
(***************************************************************************)
EXTENDS Integers, FiniteSets, Functions

CONSTANTS
  Organization,  \* what requests describe: Name, ID, Type and RootCA, which
                 \* is Nil when the bytes of the certificate do not parse
  Founders,      \* the consortiums of the genesis block
  Named,         \* the consortiums that requests name
  Nil

VARIABLES
  consortiums,   \* the system channel: per consortium the groups in it
  application,   \* the channel's application group, Nil before it is created
  returned       \* what the latest call returned

vars == <<consortiums, application, returned>>

-----------------------------------------------------------------------------
(* Policies and groups. *)

OU == {"admin", "peer", "client", "orderer"}

(* OR('<mspId>.<role>', ...) *)
OR(mspId, roles) == [msp : {mspId}, role : roles]

getPeerOrgStandardRWPolicies(mspId) ==
  [Readers     |-> OR(mspId, {"admin", "peer", "client"}),
   Writers     |-> OR(mspId, {"admin", "client"}),
   Admins      |-> OR(mspId, {"admin"}),
   Endorsement |-> OR(mspId, {"peer"})]

getOrdererOrgStandardRWPolicy(mspid) ==
  [Readers |-> OR(mspid, {"member"}),
   Writers |-> OR(mspid, {"member"}),
   Admins  |-> OR(mspid, {"admin"})]

(* Node OUs are enabled, each attested by rootCA; no certificate is listed *)
(* as an administrator's.                                                  *)
createMSP(mspID, rootCA) == [name |-> mspID, root |-> rootCA, admins |-> {}]

HasType(o) == o.Type \in {"PEER", "ORDERER"}

(* Mutant: policies for the name of the organization, not for its MSP. *)
CreateOrganizationByName(o) ==
  [msp      |-> createMSP(o.ID, o.RootCA),
   policies |-> IF o.Type = "PEER" THEN getOrdererOrgStandardRWPolicy(o.Name)
                ELSE getPeerOrgStandardRWPolicies(o.Name)]

CreateOrganization(o) ==
  [msp      |-> createMSP(o.ID, o.RootCA),
   policies |-> IF o.Type = "PEER" THEN getOrdererOrgStandardRWPolicy(o.ID)
                ELSE getPeerOrgStandardRWPolicies(o.ID)]

Meta(rule, of) == [rule |-> rule, of |-> of]

(* Mutant: one administrator is enough. *)
PoliciesAnyAdmin ==
  [Readers              |-> Meta("ANY", "Readers"),
   Writers              |-> Meta("ANY", "Writers"),
   Admins               |-> Meta("ANY", "Admins"),
   Endorsement          |-> Meta("MAJORITY", "Endorsement"),
   LifecycleEndorsement |-> Meta("MAJORITY", "Endorsement")]

standardApplicationChannelPoliciesV2 ==
  [Readers              |-> Meta("ANY", "Readers"),
   Writers              |-> Meta("ANY", "Writers"),
   Admins               |-> Meta("MAJORITY", "Admins"),
   Endorsement          |-> Meta("MAJORITY", "Endorsement"),
   LifecycleEndorsement |-> Meta("MAJORITY", "Endorsement")]

-----------------------------------------------------------------------------
Init ==
  /\ consortiums = Founders /\ application = Nil
  /\ returned = "none"

Return(r) == returned' = r

Fails(r) == Return(r) /\ UNCHANGED <<consortiums, application>>

(* The orderer refuses two definitions of one MSP. *)
Coherent(groups) ==
  \A m, n \in DOMAIN groups :
    groups[m].msp.name = groups[n].msp.name => groups[m].msp = groups[n].msp

Without(groups, name) == Restrict(groups, DOMAIN groups \ {name})

With(groups, o) ==
  [n \in DOMAIN groups \cup {o.Name} |->
     IF n = o.Name THEN CreateOrganization(o) ELSE groups[n]]

(* CreateApplicationChannel; the definitions it makes of the members go no *)
(* further than their names.  The caller is not told what the orderer says.*)
CreateApplicationChannel(consortium, orgs) ==
  /\ application = Nil
  /\ \/ /\ \E o \in orgs : ~HasType(o)
        /\ Fails("error")
     \/ /\ \A o \in orgs : HasType(o)
        /\ LET names   == {o.Name : o \in orgs}
               members == consortiums[consortium]
               accepted ==
                 /\ consortium \in DOMAIN consortiums
                 /\ names \subseteq DOMAIN members
                 /\ names = {} => DOMAIN members = {}
           IN application' = IF accepted THEN Restrict(members, names) ELSE Nil
        /\ Return("ok") /\ UNCHANGED consortiums

(* SetOrganization encodes the certificates of the MSP: a nil one panics.  *)
ChannelAddOrg(o) ==
  /\ application # Nil
  /\ LET added   == With(application, o)
         refuses == o.Name \in DOMAIN application \/ ~HasType(o)
     IN
     \/ refuses /\ Fails("error")
     \/ ~refuses /\ o.RootCA = Nil /\ Fails("panic")
     \/ ~refuses /\ o.RootCA # Nil /\ ~Coherent(added) /\ Fails("refused")
     \/ /\ ~refuses /\ o.RootCA # Nil /\ Coherent(added)
        /\ application' = added
        /\ Return("ok") /\ UNCHANGED consortiums

ChannelRemoveOrg(name) ==
  /\ application # Nil
  /\ \/ name \notin DOMAIN application /\ Fails("error")
     \/ /\ name \in DOMAIN application
        /\ application' = Without(application, name)
        /\ Return("ok") /\ UNCHANGED consortiums

ConsortiumAddOrg(consortium, o) ==
  LET known   == HasType(o) /\ consortium \in DOMAIN consortiums
      added   == With(consortiums[consortium], o)
      refuses == known => o.Name \in DOMAIN consortiums[consortium]
  IN
  \/ refuses /\ Fails("error")
  \/ ~refuses /\ o.RootCA = Nil /\ Fails("panic")
  \/ ~refuses /\ o.RootCA # Nil /\ ~Coherent(added) /\ Fails("refused")
  \/ /\ ~refuses /\ o.RootCA # Nil /\ Coherent(added)
     /\ consortiums' = [consortiums EXCEPT ![consortium] = added]
     /\ Return("ok") /\ UNCHANGED application

ConsortiumRemoveOrg(consortium, name) ==
  LET known == consortium \in DOMAIN consortiums /\ name \in DOMAIN consortiums[consortium] IN
  \/ ~known /\ Fails("error")
  \/ /\ known
     /\ consortiums' = [consortiums EXCEPT ![consortium] = Without(@, name)]
     /\ Return("ok") /\ UNCHANGED application

Names == {o.Name : o \in Organization}
         \cup UNION {DOMAIN Founders[c] : c \in DOMAIN Founders}

Next ==
  \/ \E c \in Named :
       \/ \E orgs \in SUBSET Organization : CreateApplicationChannel(c, orgs)
       \/ \E o \in Organization : ConsortiumAddOrg(c, o)
       \/ \E name \in Names : ConsortiumRemoveOrg(c, name)
  \/ \E o \in Organization : ChannelAddOrg(o)
  \/ \E name \in Names : ChannelRemoveOrg(name)

Spec == Init /\ [][Next]_vars

-----------------------------------------------------------------------------
(* The evaluation of policies by peers and orderers: external.  A          *)
(* certificate is issued by a root under one organizational unit and used  *)
(* under the name of an MSP.                                               *)

Defined == {[name |-> o.ID, root |-> o.RootCA] : o \in Organization}
           \cup UNION {{[name |-> Founders[c][n].msp.name, root |-> Founders[c][n].msp.root] :
                          n \in DOMAIN Founders[c]} : c \in DOMAIN Founders}

Certificate ==
  {[msp |-> d.name, root |-> d.root, ou |-> ou] : d \in {x \in Defined : x.root # Nil}, ou \in OU}

Own(n) ==
  {id \in Certificate : id.msp = application[n].msp.name /\ id.root = application[n].msp.root}

Satisfies(id, principal) ==
  id.msp = principal.msp /\ principal.role \in {"member", id.ou}

(* The members whose policy of that name the signers satisfy; a policy     *)
(* that is not there nobody satisfies.                                     *)
Satisfied(policy, ids) ==
  {n \in DOMAIN application :
     /\ policy \in DOMAIN application[n].policies
     /\ \E m \in DOMAIN application : \E id \in ids \cap Own(m) :
          \E p \in application[n].policies[policy] : Satisfies(id, p)}

Evaluate(policy, ids) ==
  LET meta == standardApplicationChannelPoliciesV2[policy]
      n    == Cardinality(Satisfied(meta.of, ids))
  IN  IF meta.rule = "ANY" THEN n > 0 ELSE 2 * n > Cardinality(DOMAIN application)

(* A group whose own administrators sign for it, and which the certificates *)
(* of its own MSP read and write, its administrators' and clients' at least. *)
Standard(group) ==
  LET own == group.msp.name IN
  /\ {"Readers", "Writers", "Admins"} \subseteq DOMAIN group.policies
  /\ group.policies["Admins"] = OR(own, {"admin"})
  /\ \A policy \in {"Readers", "Writers"} :
       /\ \A p \in group.policies[policy] : p.msp = own
       /\ \A ou \in {"admin", "client"} :
            \E p \in group.policies[policy] : p.role \in {"member", ou}

Sound(groups) ==
  /\ IsFiniteSet(DOMAIN groups) /\ Coherent(groups)
  /\ \A n \in DOMAIN groups : Standard(groups[n])

(* A policy made of the policies of no member is satisfied by everybody.   *)
HasMembers == application # Nil /\ application # <<>>

-----------------------------------------------------------------------------
(* Properties. *)

Admins == {id \in Certificate : id.ou = "admin"}

(* Whatever proposals made of the consortium and the channel: its members  *)
(* govern it, by the administrators of a majority of them and not by       *)
(* fewer; nobody but certificates of their own MSPs reads or writes; and   *)
(* the administrators and clients of every member do.                      *)
MembersGovern ==
  HasMembers =>
    /\ \A ids \in SUBSET Admins :
         Evaluate("Admins", ids) <=>
           2 * Cardinality({n \in DOMAIN application : ids \cap Own(n) # {}})
             > Cardinality(DOMAIN application)
    /\ \A id \in Certificate : \A policy \in {"Readers", "Writers"} :
         Evaluate(policy, {id}) => \E n \in DOMAIN application : id \in Own(n)
    /\ \A n \in DOMAIN application : \A id \in Own(n) :
         id.ou \in {"admin", "client"} =>
           Evaluate("Readers", {id}) /\ Evaluate("Writers", {id})

(* What "support fabric v2.x" of CreateApplicationChannel takes: when all  *)
(* peers of all members endorse, a chaincode definition can be committed.  *)
EndorsersSuffice ==
  HasMembers => Evaluate("LifecycleEndorsement", {id \in Certificate : id.ou = "peer"})
=============================================================================
