----------------------------- MODULE CAClientProofs -----------------------------
(***************************************************************************)
(* CAClient proved for any callers, names, affiliations and enrollments.   *)
(***************************************************************************)
EXTENDS CAClient, TLAPS

(* Client.send returns nil only for the server's own success. *)
LEMMA NilErrorIsDone ==
  ASSUME NEW r \in Reply, NilError(r)
  PROVE  r = Done
  BY DEF Reply, NilError, Done

(* A request whose reply reads as success was possible and was carried out. *)
LEMMA NilErrorIsDoneByServer ==
  ASSUME NEW c, NEW o, NEW r \in Reply, NilError(r), Exchange(c, o, r)
  PROVE  Can(c, o) /\ Do(c, o) /\ UNCHANGED <<req, unsure>>
<1>1. r = Done
  BY NilErrorIsDone
<1>2. r # Refused /\ r \notin Faulty
  BY <1>1 DEF Done, Refused, Faulty
<1> QED
  BY <1>1, <1>2 DEF Exchange

(* What one exchange may do to the server: carry the request out, if it    *)
(* can be, or nothing; a write that may be handled later is remembered.    *)
LEMMA ExchangeEffect ==
  ASSUME NEW c, NEW o, NEW r, Exchange(c, o, r)
  PROVE  /\ req' = req
         /\ (Can(c, o) /\ Do(c, o)) \/ UNCHANGED server
         /\ unsure' = unsure \/ (o \in Writes /\ unsure' = unsure \cup {<<c, o>>})
  BY DEF Exchange

(* Every operation keeps the server's state well typed, never takes a name *)
(* from its owner, and never loses an affiliation.                         *)
LEMMA ServerStep ==
  ASSUME TypeOK, req' = req, NEW c \in Caller, NEW o \in Ops,
         (Can(c, o) /\ Do(c, o)) \/ UNCHANGED server
  PROVE  /\ users' \in [Name -> Caller \cup {None}]
         /\ affs' \subseteq Affil \cup {None}
         /\ (o # "addAffiliation" \/ req[c].aff # None) => affs' \subseteq Affil
         /\ left' \in 0..MaxEnrollments
         /\ affs \subseteq affs'
         /\ \A n \in Name : users[n] # None => users'[n] = users[n]
         /\ \A n \in Name : users'[n] # users[n] => o = "addIdentity" /\ users'[n] = c
<1>0. req[c].name \in Name /\ req[c].aff \in Affil \cup {None}
  BY DEF TypeOK, Request
<1>1. CASE UNCHANGED server
  <2>1. users' = users /\ affs' = affs /\ left' = left
    BY <1>1 DEF server
  <2> QED
    BY <2>1 DEF TypeOK
<1>2. CASE Can(c, o) /\ Do(c, o)
  <2>1. users' \in [Name -> Caller \cup {None}]
    BY <1>2, <1>0 DEF Do, TypeOK
  <2>2. affs \subseteq affs' /\ affs' \subseteq Affil \cup {None}
    BY <1>2, <1>0 DEF Do, TypeOK
  <2>3. (o # "addAffiliation" \/ req[c].aff # None) => affs' \subseteq Affil
    BY <1>2, <1>0 DEF Do, TypeOK
  <2>4. left' \in 0..MaxEnrollments
    <3>1. o = "enroll" => left > 0
      BY <1>2 DEF Can
    <3>2. left' = IF o = "enroll" THEN left - 1 ELSE left
      BY <1>2 DEF Do
    <3> QED
      BY <3>1, <3>2, EnrollAssumption DEF TypeOK
  <2>5. \A n \in Name : users[n] # None => users'[n] = users[n]
    BY <1>2, <1>0 DEF Do, Can, TypeOK
  <2>6. \A n \in Name : users'[n] # users[n] => o = "addIdentity" /\ users'[n] = c
    BY <1>2, <1>0 DEF Do, Can, TypeOK
  <2> QED
    BY <2>1, <2>2, <2>3, <2>4, <2>5, <2>6
<1> QED
  BY <1>1, <1>2
(* A request in hand, answered, given up on or handled late, disturbs no   *)
(* fact that was established for any caller.                               *)
LEMMA RequestKeeps ==
  ASSUME IInv, req' = req, NEW c \in Caller, NEW o \in Ops,
         pc[c] = o \/ <<c, o>> \in unsure,
         (Can(c, o) /\ Do(c, o)) \/ UNCHANGED server,
         unsure' \subseteq unsure \/ (o \in Writes /\ unsure' = unsure \cup {<<c, o>>})
  PROVE  /\ users' \in [Name -> Caller \cup {None}]
         /\ affs' \subseteq Affil /\ left' \in 0..MaxEnrollments
         /\ unsure' \subseteq Caller \X Writes
         /\ AffiliationFirst'
         /\ \A d \in Caller :
              /\ verdict[d] = "ok" =>
                   users'[req[d].name] = d /\ req[d].aff \in affs' \cup {None}
              /\ verdict[d] = "exists" => users'[req[d].name] # None
              /\ \/ pc[d] \in {"getIdentity", "addIdentity"}
                 \/ <<d, "addIdentity">> \in unsure'
                 => req[d].aff \in affs' \cup {None}
              /\ <<d, "addAffiliation">> \in unsure' => req[d].aff # None
<1> USE DEF IInv
<1>1. TypeOK
  OBVIOUS
<1>2. o # "addAffiliation" \/ req[c].aff # None
  BY DEF AffiliationWanted
<1>3. o = "addIdentity" => req[c].aff \in affs \cup {None}
  BY DEF PastAffiliation
<1>4. /\ users' \in [Name -> Caller \cup {None}]
      /\ affs' \subseteq Affil /\ left' \in 0..MaxEnrollments
      /\ affs \subseteq affs'
      /\ \A n \in Name : users[n] # None => users'[n] = users[n]
      /\ \A n \in Name : users'[n] # users[n] => o = "addIdentity" /\ users'[n] = c
  BY <1>1, <1>2, ServerStep
<1>5. \A d \in Caller : req[d].name \in Name
  BY <1>1 DEF TypeOK, Request
<1>6. unsure' \subseteq Caller \X Writes
  BY <1>1 DEF TypeOK
<1>7. \A d \in Caller, p \in Writes :
        <<d, p>> \in unsure' => <<d, p>> \in unsure \/ (d = c /\ p = o)
  OBVIOUS
<1>8. AffiliationFirst'
  <2> SUFFICES ASSUME NEW n \in Name, users'[n] # None
               PROVE  req[users'[n]].aff \in affs' \cup {None}
    BY DEF AffiliationFirst
  <2>1. CASE users'[n] = users[n]
    BY <2>1, <1>4 DEF AffiliationFirst
  <2>2. CASE users'[n] # users[n]
    BY <2>2, <1>3, <1>4
  <2> QED
    BY <2>1, <2>2
<1>9. ASSUME NEW d \in Caller
      PROVE  /\ verdict[d] = "ok" =>
                  users'[req[d].name] = d /\ req[d].aff \in affs' \cup {None}
             /\ verdict[d] = "exists" => users'[req[d].name] # None
  BY <1>4, <1>5, NoneAssumption DEF NilMeansMine, ExistsIsTrue
<1>10. ASSUME NEW d \in Caller,
              pc[d] \in {"getIdentity", "addIdentity"} \/ <<d, "addIdentity">> \in unsure'
       PROVE  req[d].aff \in affs' \cup {None}
  <2>1. CASE d = c /\ o = "addIdentity"
    BY <2>1, <1>3, <1>4
  <2>2. CASE ~(d = c /\ o = "addIdentity")
    BY <2>2, <1>4, <1>7, <1>10 DEF PastAffiliation, Writes
  <2> QED
    BY <2>1, <2>2
<1>11. ASSUME NEW d \in Caller, <<d, "addAffiliation">> \in unsure'
       PROVE  req[d].aff # None
  BY <1>2, <1>7, <1>11 DEF AffiliationWanted, Writes
<1> QED
  BY <1>4, <1>6, <1>8, <1>9, <1>10, <1>11

(* The rest of a step is what the caller learns from the answer.           *)
LEMMA AnswerKeeps ==
  ASSUME IInv, NEW c \in Caller, NEW o \in Ops, NEW r, pc[c] = o, Exchange(c, o, r),
         \/ \E p \in Ops :
              /\ Goto(c, p)
              /\ p \in {"getIdentity", "addIdentity"} => req[c].aff \in affs' \cup {None}
              /\ p \in {"getAffiliation", "addAffiliation"} => req[c].aff # None
         \/ Return(c, "error")
         \/ Return(c, "exists") /\ users'[req[c].name] # None
         \/ Return(c, "ok") /\ users'[req[c].name] = c /\ req[c].aff \in affs' \cup {None}
  PROVE  IInv'
<1>1. /\ req' = req
      /\ (Can(c, o) /\ Do(c, o)) \/ UNCHANGED server
      /\ unsure' = unsure \/ (o \in Writes /\ unsure' = unsure \cup {<<c, o>>})
  BY ExchangeEffect
<1>2. /\ users' \in [Name -> Caller \cup {None}]
      /\ affs' \subseteq Affil /\ left' \in 0..MaxEnrollments
      /\ unsure' \subseteq Caller \X Writes
      /\ AffiliationFirst'
      /\ \A d \in Caller :
           /\ verdict[d] = "ok" =>
                users'[req[d].name] = d /\ req[d].aff \in affs' \cup {None}
           /\ verdict[d] = "exists" => users'[req[d].name] # None
           /\ \/ pc[d] \in {"getIdentity", "addIdentity"}
              \/ <<d, "addIdentity">> \in unsure'
              => req[d].aff \in affs' \cup {None}
           /\ <<d, "addAffiliation">> \in unsure' => req[d].aff # None
  BY <1>1, RequestKeeps
<1>3. /\ pc' \in [Caller -> Ops \cup {"idle", "done"}]
      /\ verdict' \in [Caller -> {"none", "ok", "exists", "error"}]
      /\ \A d \in Caller : d # c => pc'[d] = pc[d] /\ verdict'[d] = verdict[d]
  BY DEF Goto, Return, IInv, TypeOK
<1>4. TypeOK'
  BY <1>1, <1>2, <1>3 DEF IInv, TypeOK
<1>5. /\ pc'[c] \in {"getIdentity", "addIdentity"} => req[c].aff \in affs' \cup {None}
      /\ pc'[c] \in {"getAffiliation", "addAffiliation"} => req[c].aff # None
      /\ verdict'[c] = "ok" =>
           users'[req[c].name] = c /\ req[c].aff \in affs' \cup {None}
      /\ verdict'[c] = "exists" => users'[req[c].name] # None
  <2>1. CASE \E p \in Ops :
               /\ Goto(c, p)
               /\ p \in {"getIdentity", "addIdentity"} => req[c].aff \in affs' \cup {None}
               /\ p \in {"getAffiliation", "addAffiliation"} => req[c].aff # None
    <3>1. verdict' = verdict /\ \E p \in Ops : pc'[c] = p
                                   /\ (p \in {"getIdentity", "addIdentity"} => req[c].aff \in affs' \cup {None})
                                   /\ (p \in {"getAffiliation", "addAffiliation"} => req[c].aff # None)
      BY <2>1 DEF Goto, IInv, TypeOK
    <3> QED
      BY <1>2, <3>1
  <2>2. CASE \E v \in {"error", "exists", "ok"} :
               /\ Return(c, v)
               /\ v = "exists" => users'[req[c].name] # None
               /\ v = "ok" => users'[req[c].name] = c /\ req[c].aff \in affs' \cup {None}
    <3>1. pc'[c] = "done" /\ \E v \in {"error", "exists", "ok"} :
               /\ verdict'[c] = v
               /\ (v = "exists" => users'[req[c].name] # None)
               /\ (v = "ok" => users'[req[c].name] = c /\ req[c].aff \in affs' \cup {None})
      BY <2>2 DEF Return, IInv, TypeOK
    <3> QED
      BY <3>1
  <2> QED
    BY <2>1, <2>2
<1>6. PastAffiliation'
  BY <1>1, <1>2, <1>3, <1>5 DEF PastAffiliation
<1>7. AffiliationWanted'
  BY <1>1, <1>2, <1>3, <1>5 DEF AffiliationWanted, IInv
<1>8. NilMeansMine' /\ ExistsIsTrue'
  BY <1>1, <1>2, <1>3, <1>5 DEF NilMeansMine, ExistsIsTrue
<1> QED
  BY <1>2, <1>4, <1>6, <1>7, <1>8 DEF IInv

LEMMA InitEstablishes == Init => IInv
  BY EnrollAssumption, NoneAssumption
     DEF Init, IInv, TypeOK, PastAffiliation, AffiliationWanted, AffiliationFirst,
         NilMeansMine, ExistsIsTrue, Ops, Writes

LEMMA StepKeeps == IInv /\ [Next]_vars => IInv'
<1> SUFFICES ASSUME IInv, [Next]_vars PROVE IInv'
  OBVIOUS
<1>1. ASSUME NEW c \in Caller, Call(c) PROVE IInv'
  <2>1. /\ req' = req /\ verdict' = verdict /\ users' = users /\ affs' = affs
        /\ left' = left /\ unsure' = unsure
    BY <1>1 DEF Call, Goto, server
  <2>2. \E p \in {"getAffiliation", "getIdentity", "enroll"} :
          /\ pc' = [pc EXCEPT ![c] = p]
          /\ p = "getAffiliation" => req[c].aff # None
          /\ p = "getIdentity" => req[c].aff = None
    BY <1>1 DEF Call, Goto, AfterKey
  <2>3. TypeOK'
    BY <2>1, <2>2 DEF IInv, TypeOK, Ops
  <2>4. PastAffiliation'
    BY <2>1, <2>2 DEF IInv, TypeOK, PastAffiliation
  <2>5. AffiliationWanted'
    BY <2>1, <2>2 DEF IInv, TypeOK, AffiliationWanted
  <2>6. AffiliationFirst' /\ NilMeansMine' /\ ExistsIsTrue'
    BY <2>1 DEF IInv, AffiliationFirst, NilMeansMine, ExistsIsTrue
  <2> QED
    BY <2>3, <2>4, <2>5, <2>6 DEF IInv
<1>2. ASSUME NEW c \in Caller, NEW r \in Reply, EnrollAdmin(c, r) PROVE IInv'
  <2>1. Exchange(c, "enroll", r) /\ pc[c] = "enroll"
    BY <1>2 DEF EnrollAdmin
  <2>2. Goto(c, AfterKey(c)) \/ Return(c, "error")
    BY <1>2 DEF EnrollAdmin
  <2>3. /\ AfterKey(c) \in Ops
        /\ AfterKey(c) \in {"getIdentity", "addIdentity"} => req[c].aff \in affs' \cup {None}
        /\ AfterKey(c) \in {"getAffiliation", "addAffiliation"} => req[c].aff # None
    BY DEF AfterKey, Ops
  <2> QED
    BY <2>1, <2>2, <2>3, AnswerKeeps DEF Ops
<1>3. ASSUME NEW c \in Caller, NEW r \in Reply, GetAffiliation(c, r) PROVE IInv'
  <2>1. Exchange(c, "getAffiliation", r) /\ pc[c] = "getAffiliation"
    BY <1>3 DEF GetAffiliation
  <2>2. req[c].aff # None
    BY <2>1 DEF IInv, AffiliationWanted
  <2>3. CASE NilError(r)
    <3>1. req[c].aff \in affs'
      BY <2>1, <2>3, NilErrorIsDoneByServer DEF Can, Do
    <3>2. Goto(c, "getIdentity")
      BY <1>3, <2>3 DEF GetAffiliation
    <3> QED
      BY <2>1, <3>1, <3>2, AnswerKeeps DEF Ops
  <2>4. CASE ~NilError(r)
    <3>1. Goto(c, "addAffiliation")
      BY <1>3, <2>4 DEF GetAffiliation
    <3> QED
      BY <2>1, <2>2, <3>1, AnswerKeeps DEF Ops
  <2> QED
    BY <2>3, <2>4
<1>4. ASSUME NEW c \in Caller, NEW r \in Reply, AddAffiliation(c, r) PROVE IInv'
  <2>1. Exchange(c, "addAffiliation", r) /\ pc[c] = "addAffiliation"
    BY <1>4 DEF AddAffiliation
  <2>2. CASE NilError(r)
    <3>1. req[c].aff \in affs'
      BY <2>1, <2>2, NilErrorIsDoneByServer DEF Do
    <3>2. Goto(c, "getIdentity")
      BY <1>4, <2>2 DEF AddAffiliation
    <3> QED
      BY <2>1, <3>1, <3>2, AnswerKeeps DEF Ops
  <2>3. CASE ~NilError(r)
    BY <1>4, <2>1, <2>3, AnswerKeeps DEF AddAffiliation, Ops
  <2> QED
    BY <2>2, <2>3
<1>5. ASSUME NEW c \in Caller, NEW r \in Reply, GetIdentity(c, r) PROVE IInv'
  <2>1. Exchange(c, "getIdentity", r) /\ pc[c] = "getIdentity"
    BY <1>5 DEF GetIdentity
  <2>2. CASE NilError(r)
    <3>1. users'[req[c].name] # None
      BY <2>1, <2>2, NilErrorIsDoneByServer DEF Can, Do
    <3> QED
      BY <1>5, <2>1, <2>2, <3>1, AnswerKeeps DEF GetIdentity, Ops
  <2>3. CASE ~NilError(r)
    <3>1. Goto(c, "addIdentity") /\ affs' = affs
      BY <1>5, <2>1, <2>3 DEF GetIdentity, Exchange, Do, server
    <3>2. req[c].aff \in affs' \cup {None}
      BY <2>1, <3>1 DEF IInv, PastAffiliation
    <3> QED
      BY <2>1, <3>1, <3>2, AnswerKeeps DEF Ops
  <2> QED
    BY <2>2, <2>3
<1>6. ASSUME NEW c \in Caller, NEW r \in Reply, AddIdentity(c, r) PROVE IInv'
  <2>1. Exchange(c, "addIdentity", r) /\ pc[c] = "addIdentity"
    BY <1>6 DEF AddIdentity
  <2>2. CASE NilError(r)
    <3>1. req[c].name \in Name /\ users \in [Name -> Caller \cup {None}]
      BY DEF IInv, TypeOK, Request
    <3>2. users'[req[c].name] = c /\ affs' = affs
      BY <2>1, <2>2, <3>1, NilErrorIsDoneByServer DEF Do
    <3>3. req[c].aff \in affs' \cup {None}
      BY <2>1, <3>2 DEF IInv, PastAffiliation
    <3> QED
      BY <1>6, <2>1, <2>2, <3>2, <3>3, AnswerKeeps DEF AddIdentity, Ops
  <2>3. CASE ~NilError(r)
    BY <1>6, <2>1, <2>3, AnswerKeeps DEF AddIdentity, Ops
  <2> QED
    BY <2>2, <2>3
<1>7. ASSUME NEW c \in Caller, NEW o \in Writes, Late(c, o) PROVE IInv'
  <2>1. /\ req' = req /\ pc' = pc /\ verdict' = verdict /\ unsure' \subseteq unsure
        /\ <<c, o>> \in unsure /\ o \in Ops
    BY <1>7 DEF Late, client, Writes, Ops
  <2>2. (Can(c, o) /\ Do(c, o)) \/ UNCHANGED server
    BY <1>7 DEF Late
  <2>3. /\ users' \in [Name -> Caller \cup {None}]
        /\ affs' \subseteq Affil /\ left' \in 0..MaxEnrollments
        /\ unsure' \subseteq Caller \X Writes
        /\ AffiliationFirst'
        /\ \A d \in Caller :
             /\ verdict[d] = "ok" =>
                  users'[req[d].name] = d /\ req[d].aff \in affs' \cup {None}
             /\ verdict[d] = "exists" => users'[req[d].name] # None
             /\ \/ pc[d] \in {"getIdentity", "addIdentity"}
                \/ <<d, "addIdentity">> \in unsure'
                => req[d].aff \in affs' \cup {None}
             /\ <<d, "addAffiliation">> \in unsure' => req[d].aff # None
    BY <2>1, <2>2, RequestKeeps
  <2>4. TypeOK'
    BY <2>1, <2>3 DEF IInv, TypeOK
  <2>5. PastAffiliation' /\ AffiliationWanted'
    BY <2>1, <2>3 DEF IInv, PastAffiliation, AffiliationWanted
  <2>6. NilMeansMine' /\ ExistsIsTrue'
    BY <2>1, <2>3 DEF NilMeansMine, ExistsIsTrue
  <2> QED
    BY <2>3, <2>4, <2>5, <2>6 DEF IInv
<1>8. CASE UNCHANGED vars
  BY <1>8 DEF vars, client, server, IInv, TypeOK, PastAffiliation, AffiliationWanted,
              AffiliationFirst, NilMeansMine, ExistsIsTrue
<1> QED
  BY <1>1, <1>2, <1>3, <1>4, <1>5, <1>6, <1>7, <1>8 DEF Next, Step

(* The inductive invariant: what the program counter and the requests in   *)
(* doubt imply about the server.                                           *)
THEOREM Invariance == Spec => []IInv
<1>1. Init => IInv
  BY InitEstablishes
<1>2. IInv /\ [Next]_vars => IInv'
  BY StepKeeps
<1> QED
  BY <1>1, <1>2, PTL DEF Spec

(* A nil error from Register is a registration with the caller's own       *)
(* secret, under its affiliation, whatever else was lost or came late; and *)
(* "has registered" is only ever said of a registered name.                *)
THEOREM VerdictsTrue == Spec => [](NilMeansMine /\ ExistsIsTrue)
<1>1. IInv => NilMeansMine /\ ExistsIsTrue
  BY DEF IInv
<1> QED
  BY <1>1, Invariance, PTL

(* No identity precedes its affiliation on the server.                     *)
THEOREM AffiliationsFirst == Spec => []AffiliationFirst
<1>1. IInv => AffiliationFirst
  BY DEF IInv
<1> QED
  BY <1>1, Invariance, PTL

================================================================================
