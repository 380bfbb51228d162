-------------------------------- MODULE CAClient --------------------------------
(***************************************************************************)
(* caclient: goroutines, or programs, that register identities with one    *)
(* Fabric CA server.  Register is a sequence of HTTP requests, each sent   *)
(* by Client.send:                                                         *)
(*                                                                         *)
(*   Enroll (the administrator, when the caller brings no key),            *)
(*   getAffiliation, addAffiliation if that failed,                        *)
(*   getIdentity, addIdentity if that failed.                              *)
(*                                                                         *)
(* Any failure of a lookup reads as "does not exist", nothing is held      *)
(* between two requests, and a request whose answer is lost may be handled *)
(* at any later time or never.  The server is external; so is the caller   *)
(* that retries.                                                           *)
(***************************************************************************)
EXTENDS Integers

CONSTANTS
  Caller,          \* who calls Register, each with a secret of its own
  Name, Affil,     \* identities and affiliations that may be asked for
  None,            \* no affiliation; nobody
  MaxEnrollments   \* how often the administrator's secret can be used

ASSUME NoneAssumption == None \notin Caller \cup Affil
ASSUME EnrollAssumption == MaxEnrollments \in Nat

VARIABLES
  req,      \* what each caller asks for
  pc,       \* the request Register is at; "idle" before and "done" after
  verdict,  \* what Register returned: "none" yet, "ok", "exists" or "error"
  users,    \* server: whose secret a name is registered with
  affs,     \* server: the affiliations
  left,     \* server: enrollments left to the administrator
  unsure    \* requests sent that no answer tells the fate of

client == <<pc, verdict>>
server == <<users, affs, left>>
vars   == <<req, client, server, unsure>>

Request == [name : Name, aff : Affil \cup {None}, authorized : BOOLEAN]
Ops     == {"enroll", "getAffiliation", "addAffiliation", "getIdentity", "addIdentity"}
Writes  == {"enroll", "addAffiliation", "addIdentity"}

TypeOK ==
  /\ req \in [Caller -> Request]
  /\ pc \in [Caller -> Ops \cup {"idle", "done"}]
  /\ verdict \in [Caller -> {"none", "ok", "exists", "error"}]
  /\ users \in [Name -> Caller \cup {None}]
  /\ affs \subseteq Affil
  /\ left \in 0..MaxEnrollments
  /\ unsure \subseteq Caller \X Writes

Init ==
  /\ req \in [Caller -> Request]
  /\ pc = [c \in Caller |-> "idle"]
  /\ verdict = [c \in Caller |-> "none"]
  /\ users = [n \in Name |-> None]
  /\ affs = {}
  /\ left = MaxEnrollments
  /\ unsure = {}

-----------------------------------------------------------------------------
(* The server. *)

(* Whether the server can do what is asked now. *)
Can(c, o) ==
  CASE o = "enroll"         -> left > 0
    [] o = "getAffiliation" -> req[c].aff \in affs
    [] o = "addAffiliation" -> TRUE
    [] o = "getIdentity"    -> users[req[c].name] # None
    [] o = "addIdentity"    -> users[req[c].name] = None

(* Whether it may refuse: a second addAffiliation is an error to some.     *)
MayRefuse(c, o) ==
  IF o = "addAffiliation" THEN req[c].aff \in affs ELSE ~Can(c, o)

Do(c, o) ==
  /\ users' = IF o = "addIdentity" THEN [users EXCEPT ![req[c].name] = c] ELSE users
  /\ affs' = IF o = "addAffiliation" THEN affs \cup {req[c].aff} ELSE affs
  /\ left' = IF o = "enroll" THEN left - 1 ELSE left

(* A request given up on reaches the server after all. *)
Late(c, o) ==
  /\ <<c, o>> \in unsure
  /\ unsure' = unsure \ {<<c, o>>}
  /\ IF Can(c, o) THEN Do(c, o) ELSE UNCHANGED server
  /\ UNCHANGED <<req, client>>

-----------------------------------------------------------------------------
(* Client.send. *)

(* What comes back: nothing, or a status and a body, which a proxy may     *)
(* have written.                                                           *)
Reply ==
  [arrived : BOOLEAN, status : {200, 502}, body : {"empty", "garbage", "json"}, errors : BOOLEAN]

Done    == [arrived |-> TRUE, status |-> 200, body |-> "json", errors |-> FALSE]
Refused == [arrived |-> TRUE, status |-> 502, body |-> "json", errors |-> TRUE]
Faulty  == {r \in Reply : ~r.arrived \/ r.status >= 400 \/ r.body # "json"} \ {Refused}

(* Mutant: the status is not looked at. *)
NilErrorAnyStatus(r) == r.arrived /\ r.body = "json" /\ ~r.errors

(* send returns nil. *)
NilError(r) ==
  /\ r.arrived                          \* httpCli.Do, ReadAll
  /\ r.body # "garbage"                 \* json.Unmarshal
  /\ ~(r.body = "json" /\ r.errors)     \* len(res.Errors) > 0
  /\ r.status < 400
  /\ r.body # "empty"                   \* res == nil

(* One request and its reply. *)
Exchange(c, o, r) ==
  \/ /\ r = Done /\ Can(c, o)
     /\ Do(c, o)
     /\ UNCHANGED <<req, unsure>>
  \/ /\ r = Refused /\ MayRefuse(c, o)
     /\ UNCHANGED <<req, server, unsure>>
  \/ /\ r \in Faulty
     /\ unsure' = IF o \in Writes THEN unsure \cup {<<c, o>>} ELSE unsure
     /\ UNCHANGED <<req, server>>

-----------------------------------------------------------------------------
(* Register. *)

Goto(c, o) == pc' = [pc EXCEPT ![c] = o] /\ UNCHANGED verdict

Return(c, v) ==
  /\ pc' = [pc EXCEPT ![c] = "done"]
  /\ verdict' = [verdict EXCEPT ![c] = v]

AfterKey(c) == IF req[c].aff # None THEN "getAffiliation" ELSE "getIdentity"

(* Register is called, and called again when it failed. *)
Call(c) ==
  /\ pc[c] = "idle" \/ (pc[c] = "done" /\ verdict[c] = "error")
  /\ Goto(c, IF req[c].authorized THEN AfterKey(c) ELSE "enroll")
  /\ UNCHANGED <<req, server, unsure>>

EnrollAdmin(c, r) ==
  /\ pc[c] = "enroll" /\ Exchange(c, "enroll", r)
  /\ IF NilError(r) THEN Goto(c, AfterKey(c)) ELSE Return(c, "error")

GetAffiliation(c, r) ==
  /\ pc[c] = "getAffiliation" /\ Exchange(c, "getAffiliation", r)
  /\ Goto(c, IF NilError(r) THEN "getIdentity" ELSE "addAffiliation")

(* Mutant: a failed addAffiliation does not end the call. *)
AddAffiliationGoesOn(c, r) ==
  /\ pc[c] = "addAffiliation" /\ Exchange(c, "addAffiliation", r)
  /\ Goto(c, "getIdentity")

AddAffiliation(c, r) ==
  /\ pc[c] = "addAffiliation" /\ Exchange(c, "addAffiliation", r)
  /\ IF NilError(r) THEN Goto(c, "getIdentity") ELSE Return(c, "error")

(* Mutants: every failure to look the identity up is taken for             *)
(* "registered"; the look-up is not used.                                  *)
GetIdentityInverted(c, r) ==
  /\ pc[c] = "getIdentity" /\ Exchange(c, "getIdentity", r)
  /\ IF ~NilError(r) THEN Return(c, "exists") ELSE Goto(c, "addIdentity")

GetIdentityUnused(c, r) ==
  /\ pc[c] = "getIdentity" /\ Exchange(c, "getIdentity", r)
  /\ Goto(c, "addIdentity")

GetIdentity(c, r) ==
  /\ pc[c] = "getIdentity" /\ Exchange(c, "getIdentity", r)
  /\ IF NilError(r) THEN Return(c, "exists") ELSE Goto(c, "addIdentity")

AddIdentity(c, r) ==
  /\ pc[c] = "addIdentity" /\ Exchange(c, "addIdentity", r)
  /\ Return(c, IF NilError(r) THEN "ok" ELSE "error")

Step(c, r) ==
  \/ EnrollAdmin(c, r)
  \/ GetAffiliation(c, r)
  \/ AddAffiliation(c, r)
  \/ GetIdentity(c, r)
  \/ AddIdentity(c, r)

Next ==
  \/ \E c \in Caller : Call(c) \/ \E r \in Reply : Step(c, r)
  \/ \E c \in Caller, o \in Writes : Late(c, o)

Spec == Init /\ [][Next]_vars

(* The caller goes on until it is told, and the network is not always      *)
(* down: a request sent over and over is answered by the server one day.   *)
FairSpec ==
  /\ Spec
  /\ \A c \in Caller :
       /\ WF_vars(Call(c))
       /\ WF_vars(\E r \in Reply : Step(c, r))
       /\ SF_vars(\E r \in {Done, Refused} : GetAffiliation(c, r))
       /\ SF_vars(\E r \in {Done, Refused} : AddAffiliation(c, r))
       /\ SF_vars(\E r \in {Done, Refused} : GetIdentity(c, r))
       /\ SF_vars(\E r \in {Done, Refused} : AddIdentity(c, r))

-----------------------------------------------------------------------------
(* Properties. *)

(* When Register returns nil the name is registered with this caller's     *)
(* secret, whoever else was registering it, and the affiliation it was     *)
(* registered under is there.                                              *)
NilMeansMine ==
  \A c \in Caller : verdict[c] = "ok" =>
    /\ users[req[c].name] = c
    /\ req[c].aff \in affs \cup {None}

(* ErrIsRegistered(err) holds only of a name that is registered: a network *)
(* failure or a refusal of the look-up never reads as "registered".        *)
ExistsIsTrue ==
  \A c \in Caller : verdict[c] = "exists" => users[req[c].name] # None

(* No identity reaches the server before the affiliation it names, even    *)
(* when the request that registers it is one Register had given up on.     *)
AffiliationFirst ==
  \A n \in Name : users[n] # None => req[users[n]].aff \in affs \cup {None}

(* Calling Register again after an error settles the matter: a caller with *)
(* a key is told "ok" or "exists" one day, also when the call that failed  *)
(* had registered the identity.                                            *)
RetrySettles ==
  \A c \in Caller :
    req[c].authorized ~> verdict[c] \in {"ok", "exists"}

(* NilMeansMine and the rest of the server's state are tied together by    *)
(* what the program counter already knows.                                 *)
PastAffiliation ==
  \A c \in Caller :
    \/ pc[c] \in {"getIdentity", "addIdentity"}
    \/ <<c, "addIdentity">> \in unsure
    \/ verdict[c] = "ok"
    => req[c].aff \in affs \cup {None}

AffiliationWanted ==
  \A c \in Caller :
    \/ pc[c] \in {"getAffiliation", "addAffiliation"}
    \/ <<c, "addAffiliation">> \in unsure
    => req[c].aff # None

IInv ==
  /\ TypeOK
  /\ PastAffiliation /\ AffiliationWanted
  /\ AffiliationFirst /\ NilMeansMine /\ ExistsIsTrue
=================================================================================
