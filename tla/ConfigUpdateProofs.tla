-------------------------- MODULE ConfigUpdateProofs --------------------------
(***************************************************************************)
(* Proofs about ConfigUpdate, for any organizations, proposals and faults. *)
(***************************************************************************)
EXTENDS ConfigUpdate, FiniteSetTheorems, TLAPS

(* The initial state satisfies the invariant. *)
LEMMA InitIInv == Init => IInv
<1> SUFFICES ASSUME Init PROVE IInv
  OBVIOUS
<1>1. TypeOK
  BY OrgAssumption DEF Init, TypeOK
<1>2. \A p \in Proposal : FreshConfig(p) /\ FreshUpdate(p)
  BY DEF Init, FreshConfig, FreshUpdate
<1>3. QED
  BY <1>1, <1>2 DEF Init, IInv, OkMeansApplied

(* What ProposalSubmit puts in the envelope: signatures over the update    *)
(* and nothing else, and one of each organization that handed one in.      *)
LEMMA EnvelopeSigs ==
  ASSUME IInv, NEW p \in Proposal, update[p] # None, NEW s \in Signer,
         NEW given \in SUBSET pool, NEW m \in SigMaps(p, given)
  PROVE  /\ Sigs(p, m, s) \subseteq pool \cup {SigOf(s, update[p])}
         /\ \A g \in Sigs(p, m, s) : g.over = update[p]
         /\ \A g \in given : g.over = update[p] =>
              Creator(g) \in {Creator(h) : h \in Sigs(p, m, s)}
<1> DEFINE kept == Kept(p, given)
           sigs == Sigs(p, m, s)
           keys == {Creator(g) : g \in kept} \cup {Creator(sign[p])}
<1>1. sign[p] \in pool /\ sign[p].over = update[p]
  BY DEF IInv, FreshUpdate
<1>2. kept \subseteq pool /\ \A g \in kept : g.over = update[p]
  BY DEF Kept
<1>3. m \in [keys -> kept \cup {sign[p]}] /\ \A c \in keys : Creator(m[c]) = c
  BY DEF SigMaps
<1>4. \A g \in sigs : g \in kept \cup {sign[p], SigOf(s, update[p])}
  BY <1>3 DEF Sigs
<1>5. SigOf(s, update[p]).over = update[p]
  BY DEF SigOf
<1>6. ASSUME NEW g \in given, g.over = update[p]
      PROVE  Creator(g) \in {Creator(h) : h \in sigs}
  <2>1. Creator(g) \in keys
    BY <1>6 DEF Kept
  <2>2. m[Creator(g)] \in sigs /\ Creator(m[Creator(g)]) = Creator(g)
    BY <1>3, <2>1 DEF Sigs
  <2>3. QED
    BY <2>2
<1>7. QED
  BY <1>1, <1>2, <1>4, <1>5, <1>6

-----------------------------------------------------------------------------
(* The invariant, action by action. *)

LEMMA FetchIInv == ASSUME IInv, NEW p \in Proposal, Fetch(p) PROVE IInv'
<1> USE DEF Fetch, Goto, channel, attempt
<1>1. TypeOK'
  BY DEF IInv, TypeOK, Config
<1>2. \A q \in Proposal : FreshConfig(q)'
  BY NoneAssumption DEF IInv, TypeOK, FreshConfig, Config
<1>3. \A q \in Proposal : FreshUpdate(q)'
  BY DEF IInv, TypeOK, FreshUpdate, Fresh, Creator
<1>4. QED
  BY <1>1, <1>2, <1>3 DEF IInv, OkMeansApplied, Fresh

(* The calls that end without a change of the update: the failed ones and  *)
(* the acknowledged ones.                                                  *)
LEMMA ReturnIInv ==
  ASSUME IInv, NEW p \in Proposal,
         NEW r \in {"200", "500", "error"}, NEW next \in {"open", "done"},
         Returns(p, r, next), next = "open" => stage[p] = "sent",
         r = "200" => verdict[p] = "applied",
         UNCHANGED <<channel, plan, update, sign, pool>>,
         stray' \subseteq Envelope,
         \A e \in stray' : e \in stray \/ (/\ stage[p] = "sent" /\ e.sigs = env[p]
                                           /\ e.update = update[p])
  PROVE  IInv'
<1> USE DEF Returns, Answer, Goto, channel
<1>1. TypeOK'
  BY DEF IInv, TypeOK
<1>2. \A q \in Proposal : FreshConfig(q)'
  BY DEF IInv, TypeOK, FreshConfig
<1>3. \A q \in Proposal : FreshUpdate(q)'
  BY DEF IInv, TypeOK, FreshUpdate, Fresh, Creator
<1>4. \A e \in stray' : e.sigs \subseteq pool' /\ Fresh(e.update)'
  BY DEF IInv, TypeOK, FreshUpdate, Fresh
<1>5. OkMeansApplied'
  BY DEF IInv, TypeOK, OkMeansApplied
<1>6. QED
  BY <1>1, <1>2, <1>3, <1>4, <1>5 DEF IInv, TypeOK

LEMMA InitiateIInv ==
  ASSUME IInv, NEW p \in Proposal, NEW s \in Signer, Initiate(p, s) PROVE IInv'
<1> PICK e \in Encoding :
      LET u == [base |-> config[p].version, kind |-> plan[p].kind,
                org |-> plan[p].org, enc |-> e] IN
      /\ update' = [update EXCEPT ![p] = u]
      /\ sign' = [sign EXCEPT ![p] = SigOf(s, u)]
      /\ pool' = pool \cup {SigOf(s, u)}
  BY DEF Initiate
<1> DEFINE u == [base |-> config[p].version, kind |-> plan[p].kind,
                 org |-> plan[p].org, enc |-> e]
           own == SigOf(s, u)
<1> USE DEF Initiate, Returns, Answer, Goto, channel
<1>1. config[p] \in Config /\ plan[p] \in Plans
  BY DEF IInv, TypeOK, FreshConfig
<1>2. /\ u \in Update /\ own \in Signature
      /\ own.over = u /\ Creator(own) = plan[p].sponsor
  BY <1>1, PlansAssumption DEF Config, Update, Signature, SigOf, Creator
<1>3. Fresh(u)
  BY <1>1 DEF IInv, FreshConfig, Fresh, MakesSense, Config
<1>4. TypeOK'
  BY <1>2 DEF IInv, TypeOK
<1>5. \A q \in Proposal : FreshConfig(q)'
  BY DEF IInv, TypeOK, FreshConfig
<1>6. \A q \in Proposal : FreshUpdate(q)'
  <2> SUFFICES ASSUME NEW q \in Proposal PROVE FreshUpdate(q)'
    OBVIOUS
  <2>1. CASE q = p
    <3>1. update'[p] = u /\ sign'[p] = own /\ plan' = plan /\ own \in pool'
      BY DEF IInv, TypeOK
    <3>2. u # None
      BY <1>2, NoneAssumption
    <3> HIDE DEF u, own
    <3>3. Creator(sign[p])' = plan'[p].sponsor
      BY <1>2, <3>1 DEF Creator
    <3>4. Fresh(update[p])' /\ sign'[p].over = update'[p]
      BY <1>2, <1>3, <3>1 DEF Fresh
    <3>5. QED
      BY <2>1, <3>1, <3>2, <3>3, <3>4 DEF FreshUpdate
  <2>2. CASE q # p
    BY <2>2 DEF IInv, TypeOK, FreshUpdate, Fresh, Creator
  <2>3. QED
    BY <2>1, <2>2
<1>7. OkMeansApplied'
  BY DEF IInv, TypeOK, OkMeansApplied
<1>8. \A q \in Proposal : env'[q] \subseteq pool' /\ (verdict'[q] = "applied" => update'[q] \in history')
  BY DEF IInv, TypeOK
<1>9. \A r \in stray' : r.sigs \subseteq pool' /\ Fresh(r.update)'
  BY DEF IInv, Fresh
<1>10. QED
  BY <1>4, <1>5, <1>6, <1>7, <1>8, <1>9 DEF IInv

LEMMA SignIInv ==
  ASSUME IInv, NEW p \in Proposal, NEW s \in Signer, Sign(p, s) PROVE IInv'
<1> USE DEF Sign, channel, attempt
<1>1. SigOf(s, update[p]) \in Signature
  BY DEF IInv, TypeOK, SigOf, Signature
<1>2. TypeOK'
  BY <1>1 DEF IInv, TypeOK
<1>3. \A q \in Proposal : FreshConfig(q)' /\ FreshUpdate(q)'
  BY DEF IInv, FreshConfig, FreshUpdate, Fresh, Creator
<1>4. QED
  BY <1>2, <1>3 DEF IInv, OkMeansApplied, Fresh

LEMMA SubmitIInv ==
  ASSUME IInv, NEW p \in Proposal, NEW given \in SUBSET pool, NEW s \in Signer,
         Submit(p, given, s)
  PROVE  IInv'
<1> USE DEF Submit, Answer, Goto, channel
<1>1. PICK m \in SigMaps(p, given) : env' = [env EXCEPT ![p] = Sigs(p, m, s)]
  OBVIOUS
<1>2. update[p] # None /\ update[p] \in Update
  BY DEF IInv, TypeOK, FreshUpdate
<1>3. Sigs(p, m, s) \subseteq pool'
  BY <1>2, EnvelopeSigs
<1>4. pool' \subseteq Signature /\ pool \subseteq pool'
  BY <1>2 DEF IInv, TypeOK, SigOf, Signature
<1>5. {Creator(g) : g \in {h \in given : h.over = update[p]}} \subseteq Org
  BY SignerAssumption DEF IInv, TypeOK, Signature, Creator
<1>6. TypeOK'
  BY <1>1, <1>3, <1>4, <1>5 DEF IInv, TypeOK
<1>7. \A q \in Proposal : FreshConfig(q)' /\ FreshUpdate(q)'
  BY <1>2, <1>4 DEF IInv, TypeOK, FreshConfig, FreshUpdate, Fresh, Creator
<1>8. \A q \in Proposal : env'[q] \subseteq pool'
  BY <1>1, <1>3, <1>4 DEF IInv, TypeOK
<1>9. OkMeansApplied'
  BY DEF IInv, TypeOK, OkMeansApplied
<1>10. QED
  BY <1>4, <1>6, <1>7, <1>8, <1>9 DEF IInv, Fresh

LEMMA SubmitFailsIInv ==
  ASSUME IInv, NEW p \in Proposal, SubmitFails(p) PROVE IInv'
<1> USE DEF SubmitFails, Answer, channel
<1>1. TypeOK'
  BY DEF IInv, TypeOK
<1>2. \A q \in Proposal : FreshConfig(q)' /\ FreshUpdate(q)'
  BY DEF IInv, TypeOK, FreshConfig, FreshUpdate, Fresh, Creator
<1>3. OkMeansApplied'
  BY DEF IInv, TypeOK, OkMeansApplied
<1>4. QED
  BY <1>1, <1>2, <1>3 DEF IInv, Fresh

(* When an update is applied, whatever was computed from the config before *)
(* it becomes outdated.                                                    *)
LEMMA ApplyFresh ==
  ASSUME IInv, NEW u \in Update, Apply(u)
  PROVE  /\ members' \subseteq Org /\ version' \in Nat /\ history' \subseteq Update
         /\ \A w \in Update : Fresh(w) => Fresh(w)'
         /\ \A p \in Proposal : UNCHANGED <<stage, config>> => FreshConfig(p)'
<1> USE DEF Apply
<1>1. members' \subseteq Org /\ version' = version + 1 /\ version \in Nat /\ history' \subseteq Update
  BY DEF IInv, TypeOK, Update
<1>2. \A w \in Update : Fresh(w) => Fresh(w)'
  BY <1>1 DEF Fresh, Update
<1>3. ASSUME NEW p \in Proposal, UNCHANGED <<stage, config>>, stage[p] = "fetched"
      PROVE  config[p] # None /\ config[p].version <= version' /\ config[p].version # version'
  BY <1>1, <1>3 DEF IInv, TypeOK, FreshConfig, Config
<1>4. QED
  BY <1>1, <1>2, <1>3 DEF FreshConfig

LEMMA OrderIInv == ASSUME IInv, NEW p \in Proposal, Order(p) PROVE IInv'
<1> USE DEF Order
<1>1. update[p] \in Update
  BY DEF IInv, TypeOK, FreshUpdate
<1>2. CASE /\ Apply(update[p])
           /\ verdict' = [verdict EXCEPT ![p] = "applied"]
  <2>1. TypeOK'
    BY <1>1, <1>2, ApplyFresh DEF IInv, TypeOK
  <2>2. \A q \in Proposal : FreshConfig(q)'
    BY <1>1, <1>2, ApplyFresh
  <2>3. \A q \in Proposal : FreshUpdate(q)'
    BY <1>1, <1>2, ApplyFresh DEF IInv, TypeOK, FreshUpdate, Creator
  <2>4. \A q \in Proposal : verdict'[q] = "applied" => update'[q] \in history'
    BY <1>2 DEF IInv, TypeOK, Apply
  <2>5. \A e \in stray' : e.sigs \subseteq pool' /\ Fresh(e.update)'
    BY <1>1, <1>2, ApplyFresh DEF IInv, TypeOK, Envelope
  <2>6. OkMeansApplied'
    BY <1>2 DEF IInv, OkMeansApplied, Apply
  <2>7. QED
    BY <2>1, <2>2, <2>3, <2>4, <2>5, <2>6 DEF IInv
<1>3. CASE /\ verdict' = [verdict EXCEPT ![p] = "refused"]
           /\ UNCHANGED channel
  <2>1. TypeOK'
    BY <1>3 DEF IInv, TypeOK, channel
  <2>2. \A q \in Proposal : FreshConfig(q)' /\ FreshUpdate(q)'
    BY <1>3 DEF IInv, FreshConfig, FreshUpdate, Fresh, Creator, channel
  <2>3. QED
    BY <1>3, <2>1, <2>2 DEF IInv, TypeOK, OkMeansApplied, Fresh, channel
<1>4. QED
  BY <1>2, <1>3

LEMMA OrderStrayIInv == ASSUME IInv, NEW e \in stray, OrderStray(e) PROVE IInv'
<1> USE DEF OrderStray, attempt
<1>1. e.update \in Update
  BY DEF IInv, TypeOK, Envelope
<1>2. CASE Apply(e.update)
  <2>1. TypeOK'
    BY <1>1, <1>2, ApplyFresh DEF IInv, TypeOK
  <2>2. \A q \in Proposal : FreshConfig(q)'
    BY <1>1, <1>2, ApplyFresh
  <2>3. \A q \in Proposal : FreshUpdate(q)'
    BY <1>1, <1>2, ApplyFresh DEF IInv, TypeOK, FreshUpdate, Creator
  <2>4. \A s \in stray' : s.sigs \subseteq pool' /\ Fresh(s.update)'
    BY <1>1, <1>2, ApplyFresh DEF IInv, TypeOK, Envelope
  <2>5. QED
    BY <1>2, <2>1, <2>2, <2>3, <2>4 DEF IInv, OkMeansApplied, Apply
<1>3. CASE UNCHANGED channel
  <2>1. TypeOK'
    BY <1>3 DEF IInv, TypeOK, channel
  <2>2. \A q \in Proposal : FreshConfig(q)' /\ FreshUpdate(q)'
    BY <1>3 DEF IInv, FreshConfig, FreshUpdate, Fresh, Creator, channel
  <2>3. QED
    BY <1>3, <2>1, <2>2 DEF IInv, OkMeansApplied, Fresh, channel
<1>4. QED
  BY <1>2, <1>3

LEMMA NextIInv == IInv /\ [Next]_vars => IInv'
<1> SUFFICES ASSUME IInv, [Next]_vars PROVE IInv'
  OBVIOUS
<1>1. CASE UNCHANGED vars
  BY <1>1 DEF vars, channel, attempt, IInv, TypeOK, FreshConfig, FreshUpdate, Fresh,
              Creator, OkMeansApplied
<1>2. ASSUME NEW p \in Proposal, Sponsor(p) PROVE IInv'
  <2>1. CASE FetchFails(p) \/ InitiateRefuses(p)
    BY <2>1, ReturnIInv DEF FetchFails, InitiateRefuses, IInv, TypeOK
  <2>2. CASE Ack(p) \/ AckRefused(p)
    BY <2>2, ReturnIInv DEF Ack, AckRefused, IInv, TypeOK
  <2>3. CASE AckLost(p)
    <3>1. update[p] \in Update /\ plan[p].sponsor \in Org /\ env[p] \subseteq Signature
      BY <2>3, PlansAssumption DEF AckLost, IInv, TypeOK, FreshUpdate
    <3>2. [sponsor |-> plan[p].sponsor, update |-> update[p], sigs |-> env[p]] \in Envelope
      BY <3>1 DEF Envelope
    <3>3. stray' \subseteq Envelope
      BY <2>3, <3>2 DEF AckLost, IInv, TypeOK
    <3>4. QED
      BY <2>3, <3>3, ReturnIInv DEF AckLost
  <2>4. CASE \E s \in Signer : \/ Initiate(p, s)
                             \/ \E given \in SUBSET pool : Submit(p, given, s)
    BY <2>4, InitiateIInv, SubmitIInv
  <2>5. QED
    BY <1>2, <2>1, <2>2, <2>3, <2>4, FetchIInv, SubmitFailsIInv DEF Sponsor
<1>3. QED
  BY <1>1, <1>2, SignIInv, OrderIInv, OrderStrayIInv DEF Next

(* The inductive invariant holds: no config and no update that is up to    *)
(* date is mistaken about the membership, and nothing is sent that nobody  *)
(* signed.                                                                 *)
THEOREM Invariance == Spec => []IInv
  BY InitIInv, NextIInv, PTL DEF Spec

(* ProposalSubmit answers 200 only for a proposal that was applied.        *)
THEOREM OkIsApplied == Spec => []OkMeansApplied
<1>1. IInv => OkMeansApplied
  BY DEF IInv
<1>2. QED
  BY <1>1, Invariance, PTL

-----------------------------------------------------------------------------
(* An envelope carries signatures over its update only, and one of each    *)
(* organization that handed one in: signatures over another proposal       *)
(* displace none.                                                          *)
THEOREM SignersKept == Spec => []NoSignerLost
<1>1. Init => NoSignerLost
  BY DEF Init, NoSignerLost
<1>2. ASSUME IInv, NoSignerLost, [Next]_vars PROVE NoSignerLost'
  <2>1. ASSUME NEW p \in Proposal, NEW given \in SUBSET pool, NEW s \in Signer,
               Submit(p, given, s)
        PROVE  NoSignerLost'
    <3>1. update[p] # None /\ update' = update
      BY <1>2, <2>1 DEF Submit, IInv, FreshUpdate
    <3>2. PICK m \in SigMaps(p, given) : env' = [env EXCEPT ![p] = Sigs(p, m, s)]
      BY <2>1 DEF Submit
    <3>3. /\ env'[p] = Sigs(p, m, s)
          /\ handed'[p] = {Creator(g) : g \in {h \in given : h.over = update[p]}}
          /\ \A q \in Proposal \ {p} : /\ env'[q] = env[q] /\ handed'[q] = handed[q]
                                      /\ stage'[q] = stage[q]
      BY <1>2, <2>1, <3>2 DEF Submit, Goto, IInv, TypeOK
    <3>4. /\ \A g \in env'[p] : g.over = update'[p]
          /\ handed'[p] \subseteq {Creator(g) : g \in env'[p]}
      BY <1>2, <3>1, <3>3, EnvelopeSigs
    <3>5. QED
      BY <1>2, <3>1, <3>3, <3>4 DEF NoSignerLost, Creator
  <2>2. ASSUME NEW p \in Proposal, Fetch(p) PROVE NoSignerLost'
    BY <1>2, <2>2 DEF Fetch, Goto, attempt, IInv, TypeOK, NoSignerLost, Creator
  <2>3. ASSUME NEW p \in Proposal, NEW r, NEW next \in {"open", "done"},
               Returns(p, r, next), \A q \in Proposal \ {p} : update'[q] = update[q]
        PROVE  NoSignerLost'
    BY <1>2, <2>3 DEF Returns, Goto, IInv, TypeOK, NoSignerLost, Creator
  <2>4. ASSUME NEW p \in Proposal, Sponsor(p) PROVE NoSignerLost'
    <3>1. CASE FetchFails(p) \/ InitiateRefuses(p) \/ Ack(p) \/ AckRefused(p) \/ AckLost(p)
      BY <2>3, <3>1 DEF FetchFails, InitiateRefuses, Ack, AckRefused, AckLost
    <3>2. ASSUME NEW s \in Signer, Initiate(p, s) PROVE NoSignerLost'
      BY <1>2, <2>3, <3>2 DEF Initiate, IInv, TypeOK
    <3>3. CASE SubmitFails(p)
      BY <1>2, <3>3 DEF SubmitFails, NoSignerLost, Creator
    <3>4. QED
      BY <2>1, <2>2, <2>4, <3>1, <3>2, <3>3 DEF Sponsor
  <2>5. ASSUME NEW p \in Proposal, Order(p) \/ \E s \in Signer : Sign(p, s)
        PROVE  NoSignerLost'
    BY <1>2, <2>5 DEF Order, Sign, attempt, NoSignerLost, Creator
  <2>6. CASE (\E e \in stray : OrderStray(e)) \/ UNCHANGED vars
    BY <1>2, <2>6 DEF OrderStray, vars, attempt, NoSignerLost, Creator
  <2>7. QED
    BY <1>2, <2>4, <2>5, <2>6 DEF Next
<1>3. QED
  BY <1>1, <1>2, Invariance, PTL DEF Spec

-----------------------------------------------------------------------------
(* The refinement. *)

(* An update the orderer accepts is a change that Governance allows.       *)
LEMMA AcceptedIsAgreed ==
  ASSUME IInv, NEW u \in Update, NEW sponsor, NEW sigs \in SUBSET pool,
         Fresh(u), Accepts(sponsor, u, sigs), Apply(u), UNCHANGED pool
  PROVE  G!Next
<1>1. IsFiniteSet(members)
  BY OrgAssumption, FS_Subset DEF IInv, TypeOK
<1>2. Signers(u, sigs) \subseteq G!Signers(u) /\ G!Signers(u) \subseteq members
  BY DEF Signers, SigOf, G!Signers
<1>3. /\ Cardinality(Signers(u, sigs)) <= Cardinality(G!Signers(u))
      /\ Cardinality(Signers(u, sigs)) \in Nat /\ Cardinality(G!Signers(u)) \in Nat
      /\ Cardinality(members) \in Nat
  <2>1. IsFiniteSet(G!Signers(u))
    BY <1>1, <1>2, FS_Subset
  <2>2. IsFiniteSet(Signers(u, sigs))
    BY <1>2, <2>1, FS_Subset
  <2>3. QED
    BY <1>1, <1>2, <2>1, <2>2, FS_Subset, FS_CardinalityType
<1>4. 2 * Cardinality(G!Signers(u)) > Cardinality(members)
  BY <1>3 DEF Accepts
<1>5. PICK s \in Admin : SigOf(s, u) \in pool
  <2>1. Signers(u, sigs) # {}
    BY <1>3, FS_EmptySet DEF Accepts
  <2>2. QED
    BY <2>1 DEF Signers
<1>6. G!Change(u)
  <2>1. /\ G!Cardinality(G!Signers(u)) = Cardinality(G!Signers(u))
        /\ G!Cardinality(members) = Cardinality(members)
    BY DEF Cardinality, G!Cardinality
  <2>2. QED
    BY <1>4, <2>1 DEF G!Change, Accepts, Apply, Fresh, Update
<1>7. SigOf(s, u).over = u
  BY DEF SigOf
<1>8. QED
  BY <1>5, <1>6, <1>7 DEF G!Next

(* ConfigUpdate implements Governance: stale proposals, mixed signatures,  *)
(* lost acknowledgements and resubmission included, the membership changes *)
(* only as administrators of a majority of the current members signed.     *)
THEOREM Refinement == Spec => ImplementsGovernance
<1>1. Init => G!Init
  BY DEF Init, G!Init
<1>2. ASSUME IInv, IInv', [Next]_vars PROVE [G!Next]_(G!vars)
  <2> USE DEF G!vars
  <2>1. ASSUME pool \subseteq pool', UNCHANGED channel PROVE G!Next
    <3>1. pool' \subseteq G!Signature
      BY <1>2 DEF IInv, TypeOK, Signature, Update, G!Signature, G!Update
    <3>2. QED
      BY <2>1, <3>1 DEF G!Next, G!Sign, channel
  <2>2. ASSUME NEW p \in Proposal, Sponsor(p) PROVE G!Next
    BY <2>1, <2>2 DEF Sponsor, Fetch, FetchFails, Initiate, InitiateRefuses, Submit,
                      SubmitFails, Ack, AckRefused, AckLost
  <2>3. ASSUME NEW p \in Proposal, NEW s \in Signer, Sign(p, s) PROVE G!Next
    BY <2>1, <2>3 DEF Sign
  <2>4. ASSUME NEW p \in Proposal, Order(p) PROVE G!Next
    <3>1. update[p] \in Update /\ Fresh(update[p]) /\ env[p] \in SUBSET pool
      BY <1>2, <2>4 DEF Order, IInv, TypeOK, FreshUpdate
    <3>2. CASE Accepts(plan[p].sponsor, update[p], env[p]) /\ Apply(update[p])
      BY <1>2, <2>4, <3>1, <3>2, AcceptedIsAgreed DEF Order
    <3>3. CASE UNCHANGED channel
      BY <2>1, <2>4, <3>3 DEF Order
    <3>4. QED
      BY <2>4, <3>2, <3>3 DEF Order
  <2>5. ASSUME NEW e \in stray, OrderStray(e) PROVE G!Next
    <3>1. e.update \in Update /\ Fresh(e.update) /\ e.sigs \in SUBSET pool
      BY <1>2, <2>5 DEF IInv, TypeOK, Envelope
    <3>2. CASE Accepts(e.sponsor, e.update, e.sigs) /\ Apply(e.update)
      BY <1>2, <2>5, <3>1, <3>2, AcceptedIsAgreed DEF OrderStray
    <3>3. CASE UNCHANGED channel
      BY <2>1, <2>5, <3>3 DEF OrderStray
    <3>4. QED
      BY <2>5, <3>2, <3>3 DEF OrderStray
  <2>6. CASE UNCHANGED vars
    BY <2>6 DEF vars, channel
  <2>7. QED
    BY <1>2, <2>2, <2>3, <2>4, <2>5, <2>6 DEF Next
<1>3. QED
  BY <1>1, <1>2, Invariance, PTL DEF Spec, ImplementsGovernance, G!Spec
=============================================================================
