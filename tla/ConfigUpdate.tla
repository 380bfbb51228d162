------------------------------ MODULE ConfigUpdate ------------------------------
(***************************************************************************)
(* gateway/proposal.go and internal/channel: changing the membership of a  *)
(* channel.  A sponsor fetches the config, computes the update and signs   *)
(* it (ProposalInitiate); other organizations sign the same bytes          *)
(* (ProposalSign); the sponsor hands the signatures in (ProposalSubmit)    *)
(* and Update sends one envelope to the orderer.  Several proposals are    *)
(* under way at once, each computed from a config that may be outdated by  *)
(* the time its envelope is ordered.                                       *)
(*                                                                         *)
(* The orderer is external: it applies an update that was computed from    *)
(* the current version and carries signatures of administrators of a       *)
(* majority of the members.  How signatures travel to the sponsor is up to *)
(* the users of the gateway: any of those made may be handed in, those     *)
(* over other updates and several of one organization included.  They are  *)
(* handed in as ProposalSign made them, labelled with the MSP of their     *)
(* signer.                                                                 *)
(***************************************************************************)
EXTENDS Integers, FiniteSets

CONSTANTS
  Org,        \* organizations
  Founders,   \* the members at the start
  Signer,     \* the identities the gateway signs with
  Msp,        \* the organization of each of them
  Admin,      \* those that are administrators of theirs
  Proposal,   \* the proposals made
  Plans,      \* what a proposal may be: its sponsor and its change
  Encoding,   \* serialization of an update does not fix the order of maps:
              \* the same change may be computed to different bytes
  Faults,     \* "fetch", "orderer": what may fail
  MaxStray,   \* bound on the envelopes without a waiting submitter
  None

ASSUME OrgAssumption ==
  IsFiniteSet(Org) /\ Founders \subseteq Org
ASSUME SignerAssumption ==
  Msp \in [Signer -> Org] /\ Admin \subseteq Signer
ASSUME PlansAssumption ==
  Plans \subseteq [sponsor : Org, kind : {"add", "remove"}, org : Org]

Update    == [base : Nat, kind : {"add", "remove"}, org : Org, enc : Encoding]
Signature == [by : Signer, over : Update]
Config    == [version : Nat, members : SUBSET Org]
Envelope  == [sponsor : Org, update : Update, sigs : SUBSET Signature]

ASSUME NoneAssumption ==
  None \notin Update /\ None \notin Signature /\ None \notin Config

VARIABLES
  members,   \* the channel's config: its members
  version,   \* and the version of the group they form
  history,   \* the updates that were applied
  plan,      \* per proposal: its sponsor and the change it wants
  stage,     \* how far it is
  config,    \* the config ProposalInitiate fetched
  update,    \* ProposalEnvelope.Proposal
  sign,      \* ProposalEnvelope.Sign: the signature of its initiator
  pool,      \* the signatures made
  handed,    \* the organizations of which its latest ProposalSubmit was
             \* handed a signature over the update
  env,       \* the signatures in the envelope that submit sent
  verdict,   \* the orderer on that envelope: "none", "applied", "refused"
  result,    \* what the latest call for the proposal returned
  stray      \* envelopes whose submitter stopped waiting for the verdict

channel == <<members, version, history>>
attempt == <<handed, env, verdict, result>>
vars    == <<channel, plan, stage, config, update, sign, pool, attempt, stray>>

TypeOK ==
  /\ members \subseteq Org /\ version \in Nat /\ history \subseteq Update
  /\ plan \in [Proposal -> Plans]
  /\ stage \in [Proposal -> {"new", "fetched", "open", "sent", "done"}]
  /\ config \in [Proposal -> Config \cup {None}]
  /\ update \in [Proposal -> Update \cup {None}]
  /\ sign \in [Proposal -> Signature \cup {None}]
  /\ pool \subseteq Signature
  /\ handed \in [Proposal -> SUBSET Org] /\ env \in [Proposal -> SUBSET Signature]
  /\ verdict \in [Proposal -> {"none", "applied", "refused"}]
  /\ result \in [Proposal -> {"none", "200", "500", "error"}]
  /\ stray \subseteq Envelope

Init ==
  /\ members = Founders /\ version = 0 /\ history = {}
  /\ plan \in [Proposal -> Plans]
  /\ stage = [p \in Proposal |-> "new"]
  /\ config = [p \in Proposal |-> None] /\ update = [p \in Proposal |-> None]
  /\ sign = [p \in Proposal |-> None] /\ pool = {}
  /\ handed = [p \in Proposal |-> {}] /\ env = [p \in Proposal |-> {}]
  /\ verdict = [p \in Proposal |-> "none"] /\ result = [p \in Proposal |-> "none"]
  /\ stray = {}

Goto(p, s)    == stage' = [stage EXCEPT ![p] = s]
Answer(p, r)  == result' = [result EXCEPT ![p] = r]
SigOf(s, u)   == [by |-> s, over |-> u]

(* ProposalSignature.Creator: signer.GetMSPId(). *)
Creator(g)    == Msp[g.by]

(* A call for p returns: its locals are gone. *)
Returns(p, r, next) ==
  /\ Answer(p, r) /\ Goto(p, next)
  /\ config' = [config EXCEPT ![p] = None]
  /\ handed' = [handed EXCEPT ![p] = {}]
  /\ env' = [env EXCEPT ![p] = {}]
  /\ verdict' = [verdict EXCEPT ![p] = "none"]

-----------------------------------------------------------------------------
(* ProposalInitiate. *)

(* FetchConfig returns a config that was current during the call           *)
(* (RightBlock of DeliverStream).                                          *)
Fetch(p) ==
  /\ stage[p] = "new"
  /\ config' = [config EXCEPT ![p] = [version |-> version, members |-> members]]
  /\ Goto(p, "fetched")
  /\ UNCHANGED <<channel, plan, update, sign, pool, attempt, stray>>

FetchFails(p) ==
  /\ stage[p] = "new" /\ "fetch" \in Faults
  /\ Returns(p, "error", "done")
  /\ UNCHANGED <<channel, plan, update, sign, pool, stray>>

(* Mutant: an organization that is already there is not refused. *)
MakesSenseAlways(p) == TRUE

(* ChannelAddOrg and ConsortiumAddOrg refuse an organization the fetched   *)
(* config has, ChannelRemoveOrg and ConsortiumRemoveOrg one it lacks.      *)
MakesSense(p) == (plan[p].org \in config[p].members) <=> (plan[p].kind = "remove")

(* The update is computed against the fetched config and signed.           *)
Initiate(p, s) ==
  /\ stage[p] = "fetched" /\ MakesSense(p)
  /\ Msp[s] = plan[p].sponsor
  /\ \E e \in Encoding :
       LET u == [base |-> config[p].version, kind |-> plan[p].kind,
                 org |-> plan[p].org, enc |-> e] IN
       /\ update' = [update EXCEPT ![p] = u]
       /\ sign' = [sign EXCEPT ![p] = SigOf(s, u)]
       /\ pool' = pool \cup {SigOf(s, u)}
  /\ Returns(p, "none", "open")
  /\ UNCHANGED <<channel, plan, stray>>

InitiateRefuses(p) ==
  /\ stage[p] = "fetched" /\ ~MakesSense(p)
  /\ Returns(p, "error", "done")
  /\ UNCHANGED <<channel, plan, update, sign, pool, stray>>

(* ProposalSign, by whoever the envelope was given to.                     *)
Sign(p, s) ==
  /\ update[p] # None
  /\ pool' = pool \cup {SigOf(s, update[p])}
  /\ UNCHANGED <<channel, plan, stage, config, update, sign, attempt, stray>>

-----------------------------------------------------------------------------
(* ProposalSubmit. *)

(* Mutants: the hash of the proposal is not compared; it is compared the   *)
(* wrong way round.                                                        *)
KeptAll(p, given) == given

KeptOthers(p, given) == {g \in given : g.over # update[p]}

(* The signatures whose ProposalHash is that of the envelope.              *)
Kept(p, given) == {g \in given : g.over = update[p]}

(* The map from Creator to Signature: the sponsor's first signature, then  *)
(* those kept, in the order they are handed in: a later one replaces an    *)
(* earlier one of the same organization, whoever made it.                  *)
SigMaps(p, given) ==
  LET kept     == Kept(p, given)
      creators == {Creator(g) : g \in kept}
      sponsor  == Creator(sign[p])
  IN  {m \in [creators \cup {sponsor} -> kept \cup {sign[p]}] :
         /\ \A c \in DOMAIN m : Creator(m[c]) = c
         /\ sponsor \in creators => m[sponsor] \in kept}

(* CreateUpdateEnvelope's envelope, to which sanityCheckAndSignConfigTx    *)
(* adds a signature of the submitter.                                      *)
Sigs(p, m, s) == {m[c] : c \in DOMAIN m} \cup {SigOf(s, update[p])}

(* The submitter s is of the sponsor's organization, and signs as well.    *)
Submit(p, given, s) ==
  /\ stage[p] = "open"
  /\ Msp[s] = Creator(sign[p])
  /\ \E m \in SigMaps(p, given) : env' = [env EXCEPT ![p] = Sigs(p, m, s)]
  /\ handed' = [handed EXCEPT ![p] =
                  {Creator(g) : g \in {h \in given : h.over = update[p]}}]
  /\ pool' = pool \cup {SigOf(s, update[p])}
  /\ Answer(p, "none") /\ Goto(p, "sent")
  /\ UNCHANGED <<channel, plan, config, update, sign, verdict, stray>>

(* No connection to the orderer, or Send failed: nothing was sent.         *)
SubmitFails(p) ==
  /\ stage[p] = "open" /\ "orderer" \in Faults
  /\ Answer(p, "500")
  /\ UNCHANGED <<channel, plan, stage, config, update, sign, pool, handed, env, verdict,
                 stray>>

(* getAck, and the Response.  After a failure the sponsor may submit the   *)
(* proposal again, with more signatures or the same.                       *)
Ack(p) ==
  /\ stage[p] = "sent" /\ verdict[p] = "applied"
  /\ Returns(p, "200", "done")
  /\ UNCHANGED <<channel, plan, update, sign, pool, stray>>

AckRefused(p) ==
  /\ stage[p] = "sent" /\ verdict[p] = "refused"
  /\ Returns(p, "500", "open")
  /\ UNCHANGED <<channel, plan, update, sign, pool, stray>>

(* Mutant: a stream that ends without an answer is taken for success. *)
AckLostIsOk(p) ==
  /\ stage[p] = "sent" /\ "orderer" \in Faults
  /\ Returns(p, "200", "done")
  /\ UNCHANGED <<channel, plan, update, sign, pool, stray>>

AckLost(p) ==
  /\ stage[p] = "sent" /\ "orderer" \in Faults
  /\ verdict[p] # "none" \/ Cardinality(stray) < MaxStray
  /\ Returns(p, "500", "open")
  /\ stray' = IF verdict[p] # "none" THEN stray
              ELSE stray \cup {[sponsor |-> plan[p].sponsor, update |-> update[p],
                                sigs |-> env[p]]}
  /\ UNCHANGED <<channel, plan, update, sign, pool>>

-----------------------------------------------------------------------------
(* The orderer: external. *)

(* The members an administrator of which signed. *)
Signers(u, sigs) ==
  {o \in members : \E s \in Admin : Msp[s] = o /\ SigOf(s, u) \in sigs}

Accepts(sponsor, u, sigs) ==
  /\ sponsor \in members /\ u.base = version
  /\ 2 * Cardinality(Signers(u, sigs)) > Cardinality(members)

Apply(u) ==
  /\ members' = IF u.kind = "add" THEN members \cup {u.org} ELSE members \ {u.org}
  /\ version' = version + 1
  /\ history' = history \cup {u}

Order(p) ==
  /\ stage[p] = "sent" /\ verdict[p] = "none"
  /\ \/ /\ Accepts(plan[p].sponsor, update[p], env[p])
        /\ Apply(update[p])
        /\ verdict' = [verdict EXCEPT ![p] = "applied"]
     \/ /\ ~Accepts(plan[p].sponsor, update[p], env[p])
        /\ verdict' = [verdict EXCEPT ![p] = "refused"]
        /\ UNCHANGED channel
  /\ UNCHANGED <<plan, stage, config, update, sign, pool, handed, env, result, stray>>

OrderStray(e) ==
  /\ stray' = stray \ {e}
  /\ IF Accepts(e.sponsor, e.update, e.sigs) THEN Apply(e.update) ELSE UNCHANGED channel
  /\ UNCHANGED <<plan, stage, config, update, sign, pool, attempt>>

-----------------------------------------------------------------------------
Sponsor(p) ==
  \/ Fetch(p) \/ FetchFails(p) \/ InitiateRefuses(p)
  \/ \E s \in Signer : Initiate(p, s) \/ \E given \in SUBSET pool : Submit(p, given, s)
  \/ SubmitFails(p) \/ Ack(p) \/ AckRefused(p) \/ AckLost(p)

Next ==
  \/ \E p \in Proposal : Sponsor(p) \/ Order(p) \/ \E s \in Signer : Sign(p, s)
  \/ \E e \in stray : OrderStray(e)

(* Calls end, administrators sign what they are given, the sponsor sooner  *)
(* or later hands in the signatures of all that did, and no others that    *)
(* might displace them, and the orderer answers.                           *)
Goes(p) ==
  \/ Fetch(p) \/ InitiateRefuses(p) \/ \E s \in Signer : Initiate(p, s)
  \/ Ack(p) \/ AckRefused(p)

HandInAdmins(p) ==
  \E s \in Signer : Submit(p, {g \in pool : g.by \in Admin}, s)

Fairness ==
  \A p \in Proposal :
    /\ WF_vars(Goes(p)) /\ WF_vars(Order(p)) /\ SF_vars(HandInAdmins(p))
    /\ \A s \in Admin : WF_vars(Sign(p, s))

Spec     == Init /\ [][Next]_vars
FairSpec == Spec /\ Fairness

-----------------------------------------------------------------------------
(* Properties. *)

G == INSTANCE Governance WITH signed <- pool

(* Proposals computed from outdated configs, signatures mixed up, lost     *)
(* acknowledgements and repeated submissions included, the membership      *)
(* changes only as Governance allows: an update applies to the config it   *)
(* was computed from, has effect, and was signed by administrators of a    *)
(* majority of its members.                                                *)
ImplementsGovernance == G!Spec

(* ProposalSubmit answers 200 only for a proposal that was applied.        *)
OkMeansApplied ==
  \A p \in Proposal : result[p] = "200" => update[p] \in history

(* The envelope carries nothing but signatures over its own update, and    *)
(* every organization of which such a signature was handed in is           *)
(* represented by one: signatures over another proposal displace none,     *)
(* only one over the same proposal displaces another of its organization.  *)
NoSignerLost ==
  \A p \in Proposal : stage[p] = "sent" =>
    /\ \A g \in env[p] : g.over = update[p]
    /\ handed[p] \subseteq {Creator(g) : g \in env[p]}

(* The inductive invariant: a config or an update that is not outdated     *)
(* agrees with the channel about who is a member; what is sent was signed. *)
Fresh(u) ==
  u.base <= version /\ (u.base = version => (u.org \in members <=> u.kind = "remove"))

FreshConfig(p) ==
  stage[p] = "fetched" =>
    /\ config[p] # None /\ config[p].version <= version
    /\ config[p].version = version => config[p].members = members

FreshUpdate(p) ==
  /\ stage[p] \in {"open", "sent"} => update[p] # None
  /\ update[p] # None =>
       /\ Fresh(update[p])
       /\ sign[p] \in pool /\ sign[p].over = update[p]
       /\ Creator(sign[p]) = plan[p].sponsor

IInv ==
  /\ TypeOK
  /\ \A p \in Proposal :
       /\ FreshConfig(p) /\ FreshUpdate(p)
       /\ env[p] \subseteq pool
       /\ verdict[p] = "applied" => update[p] \in history
  /\ \A e \in stray : e.sigs \subseteq pool /\ Fresh(e.update)
  /\ OkMeansApplied

(* An open proposal of a member, computed from the current config, does    *)
(* not stay open: it, or one it conflicts with, is applied.                *)
Current(p) ==
  /\ stage[p] \in {"open", "sent"} /\ update[p].base = version
  /\ plan[p].sponsor \in members

Progress ==
  \A n \in 0 .. Cardinality(Proposal) - 1 :
    (version = n /\ \E p \in Proposal : Current(p)) ~> version > n
=============================================================================
