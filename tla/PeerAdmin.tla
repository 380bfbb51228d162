------------------------------- MODULE PeerAdmin -------------------------------
(***************************************************************************)
(* Administrators that create a channel, join peers to it and install a    *)
(* chaincode on peers:                                                     *)
(*                                                                         *)
(*   create    gateway.ChannelCreate                                       *)
(*   joinAll   channel.Join        every peer of the request, in order     *)
(*   join      gateway.ChannelJoin, which asks the first peer only         *)
(*   install   gateway.ChaincodeInstall, every peer in order               *)
(*                                                                         *)
(* The peers keep what they did for a call that failed half way, and a     *)
(* peer that is asked again for what it has refuses.  Peers and orderer    *)
(* are external.                                                           *)
(***************************************************************************)
EXTENDS Integers, Sequences, FiniteSets

CONSTANTS
  Admin, Peer,
  Lists,     \* the peers a request may name: sequences of peers
  None

ASSUME ListsAssumption == Lists \subseteq Seq(Peer) \ {<<>>}

VARIABLES
  down,        \* peers that never answer
  channel,     \* orderer: the channel is "none", "ordered" or "open"
  joined,      \* peers that have joined it
  installed,   \* peers that have the chaincode
  call,        \* the call of each administrator, or None
  answer       \* what the last one returned, or None

peers == <<joined, installed>>
vars  == <<down, channel, peers, call, answer>>

NoAnswer == 0    \* in place of a status: no connection, or a broken one

Init ==
  /\ down \in SUBSET Peer
  /\ channel = "none"
  /\ joined = {} /\ installed = {}
  /\ call = [a \in Admin |-> None]
  /\ answer = [a \in Admin |-> None]

-----------------------------------------------------------------------------
(* Peers. *)

Has(op, p) == p \in (IF op = "install" THEN installed ELSE joined)

Do(op, p) ==
  /\ joined' = IF op = "install" THEN joined ELSE joined \cup {p}
  /\ installed' = IF op = "install" THEN installed \cup {p} ELSE installed

(* What a peer that can do it answers. *)
Verdict(op, p) == IF Has(op, p) THEN 500 ELSE 200

(* p is asked.  It may refuse for reasons of its own, and the answer may   *)
(* be lost with the work done.                                             *)
Exchange(op, p, status) ==
  \/ p \notin down /\ status \in {Verdict(op, p), NoAnswer} /\ Do(op, p)
  \/ p \notin down /\ status = 500 /\ UNCHANGED peers
  \/ status = NoAnswer /\ UNCHANGED peers

-----------------------------------------------------------------------------
(* Calls and what they return. *)

Start(a, op, list) ==
  /\ call[a] = None
  /\ call' = [call EXCEPT ![a] =
       [op |-> op, list |-> list, block |-> FALSE, responses |-> <<>>]]
  /\ answer' = [answer EXCEPT ![a] = None]
  /\ UNCHANGED <<down, channel, peers>>

Return(a, err, status, responses) ==
  /\ call' = [call EXCEPT ![a] = None]
  /\ answer' = [answer EXCEPT ![a] =
       [op |-> call[a].op, list |-> call[a].list, err |-> err, status |-> status,
        responses |-> responses]]

Fail(a) == Return(a, TRUE, NoAnswer, <<>>)

Doing(a, op) == call[a] # None /\ call[a].op = op

(* The peer whose turn it is. *)
Turn(a) == call[a].list[Len(call[a].responses) + 1]

Last(a) == Len(call[a].responses) + 1 = Len(call[a].list)

(* ChannelCreate answers 500 for an error of the broadcast.                *)
Create(a, status) ==
  /\ Doing(a, "create")
  /\ \/ status = 200 /\ channel # "open" /\ channel' = "ordered"
     \/ status = 500 /\ channel' \in {channel, IF channel = "none" THEN "ordered" ELSE channel}
  /\ Return(a, FALSE, status, <<>>)
  /\ UNCHANGED <<down, peers>>

Open ==
  /\ channel = "ordered"
  /\ channel' = "open"
  /\ UNCHANGED <<down, peers, call, answer>>

(* GetSpecifiedBlock(0): no block, no join.  Either way it may just fail.  *)
FetchBlock(a) ==
  /\ \/ Doing(a, "join") \/ Doing(a, "joinAll")
  /\ ~call[a].block /\ channel = "open"
  /\ call' = [call EXCEPT ![a].block = TRUE]
  /\ UNCHANGED <<down, channel, peers, answer>>

FetchFails(a) ==
  /\ \/ Doing(a, "join") \/ Doing(a, "joinAll")
  /\ ~call[a].block
  /\ Fail(a)
  /\ UNCHANGED <<down, channel, peers>>

(* Join2: the first peer's answer is the answer. *)
JoinFirst(a, status) ==
  /\ Doing(a, "join") /\ call[a].block
  /\ Exchange("join", Turn(a), status)
  /\ IF status = NoAnswer THEN Fail(a) ELSE Return(a, FALSE, status, <<>>)
  /\ UNCHANGED <<down, channel>>

Successes(r) == Cardinality({i \in DOMAIN r : r[i] = 200})

(* Mutant: answers are counted instead of successes. *)
TotalAnswers(r) == IF r = <<>> THEN 500 ELSE 200

Total(r) ==
  IF Successes(r) = 0 THEN 500 ELSE IF Successes(r) # Len(r) THEN 204 ELSE 200

(* The next response, and after the last one the report: Join says 200     *)
(* whatever the peers said.                                                *)
Add(a, status) ==
  LET responses == Append(call[a].responses, status)
      total == IF call[a].op = "install" THEN Total(responses) ELSE 200
  IN  IF Last(a)
        THEN Return(a, FALSE, total, responses)
        ELSE call' = [call EXCEPT ![a].responses = responses] /\ UNCHANGED answer

(* Mutant: a peer that does not answer ends the call. *)
JoinPeerStops(a, status) ==
  /\ Doing(a, "joinAll") /\ call[a].block
  /\ Exchange("join", Turn(a), status)
  /\ IF status = NoAnswer THEN Fail(a) ELSE Add(a, status)
  /\ UNCHANGED <<down, channel>>

(* Join goes on with the next peer whatever this one answers. *)
JoinPeer(a, status) ==
  /\ Doing(a, "joinAll") /\ call[a].block
  /\ Exchange("join", Turn(a), status)
  /\ Add(a, IF status = NoAnswer THEN 500 ELSE status)
  /\ UNCHANGED <<down, channel>>

(* Mutant: a peer that refuses ends the call too. *)
InstallPeerStrict(a, status) ==
  /\ Doing(a, "install")
  /\ Exchange("install", Turn(a), status)
  /\ IF status # 200 THEN Fail(a) ELSE Add(a, status)
  /\ UNCHANGED <<down, channel>>

(* Install gives up at the first peer that does not answer, and with it    *)
(* what the peers before answered.                                         *)
InstallPeer(a, status) ==
  /\ Doing(a, "install")
  /\ Exchange("install", Turn(a), status)
  /\ IF status = NoAnswer THEN Fail(a) ELSE Add(a, status)
  /\ UNCHANGED <<down, channel>>

Statuses == {NoAnswer, 200, 500}

Step(a, status) ==
  \/ Create(a, status)
  \/ JoinFirst(a, status)
  \/ JoinPeer(a, status)
  \/ InstallPeer(a, status)

Ops == {"create", "join", "joinAll", "install"}

Next ==
  \/ \E a \in Admin, op \in Ops, list \in Lists : Start(a, op, list)
  \/ \E a \in Admin : FetchBlock(a) \/ FetchFails(a)
  \/ \E a \in Admin, status \in Statuses : Step(a, status)
  \/ Open

Spec == Init /\ [][Next]_vars

-----------------------------------------------------------------------------
(* Properties. *)

TypeOK ==
  /\ channel \in {"none", "ordered", "open"}
  /\ joined \subseteq Peer /\ installed \subseteq Peer
  /\ \A a \in Admin : call[a] # None =>
       /\ call[a] \in [op : Ops, list : Lists, block : BOOLEAN, responses : Seq(Statuses)]
       /\ Len(call[a].responses) < Len(call[a].list)
  /\ \A a \in Admin : answer[a] # None => answer[a] \in
       [op : Ops, list : Lists, err : BOOLEAN, status : Statuses \cup {204},
        responses : Seq(Statuses)]

Said(r, done) ==
  /\ Len(r.responses) = Len(r.list)
  /\ \A i \in DOMAIN r.list : r.responses[i] = 200 => r.list[i] \in done

(* The i-th response of Join is that of the i-th peer of the request: it    *)
(* says 200 only if that peer, and not another, has joined.                 *)
JoinReport ==
  \A a \in Admin : LET r == answer[a] IN
    r # None /\ r.op = "joinAll" /\ ~r.err => Said(r, joined)

(* ChaincodeInstall says 200 only if every peer has the chaincode and 204   *)
(* only if some do; each result speaks of its own peer.                     *)
InstallReport ==
  \A a \in Admin : LET r == answer[a] IN
    r # None /\ r.op = "install" /\ ~r.err =>
      /\ Said(r, installed)
      /\ r.status = 200 => \A i \in DOMAIN r.list : r.list[i] \in installed
      /\ r.status = 204 => \E i, j \in DOMAIN r.list :
                             r.list[i] \in installed /\ r.responses[j] # 200

(* What Join and Install report is true of the peers, then and later. *)
ReportsAreTrue == TypeOK /\ JoinReport /\ InstallReport

(* ChannelJoin takes peers and says 200: they have joined.  The code asks   *)
(* the first.                                                               *)
ChannelJoinJoins ==
  \A a \in Admin : LET r == answer[a] IN
    r # None /\ r.op = "join" /\ r.status = 200 =>
      \A i \in DOMAIN r.list : r.list[i] \in joined

(* a keeps making one request, its calls get on, and a peer that is up     *)
(* answers it now and then.                                                *)
Keen(a, op, list) ==
  /\ WF_vars(FetchBlock(a) \/ FetchFails(a) \/ \E status \in Statuses : Step(a, status))
  /\ SF_vars(Start(a, op, list))
  /\ SF_vars(Doing(a, op) /\ call[a].list = list /\ FetchBlock(a))
  /\ \A i \in DOMAIN list :
       SF_vars(/\ Doing(a, op) /\ call[a].list = list /\ Len(call[a].responses) = i - 1
               /\ list[i] \notin down /\ Step(a, Verdict(op, list[i])))

(* Join called again and again once there is a channel gets every peer of  *)
(* the request that answers at all into it: one that is down does not keep *)
(* out those named after it.                                               *)
JoinReaches ==
  \A a \in Admin, list \in Lists : \A i \in DOMAIN list :
    Keen(a, "joinAll", list) =>
      ((channel = "open" /\ list[i] \notin down) ~> list[i] \in joined)

(* Install reaches a peer if those named before it answer: a peer that has *)
(* the chaincode already does not keep it from those named after it.       *)
InstallReaches ==
  \A a \in Admin, list \in Lists : \A i \in DOMAIN list :
    Keen(a, "install", list) =>
      ((\A j \in 1..i : list[j] \notin down) ~> list[i] \in installed)

(* A request that is made again and again gets to the peers it names. *)
RequestsReach == JoinReaches /\ InstallReaches
================================================================================
