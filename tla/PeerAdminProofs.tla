----------------------------- MODULE PeerAdminProofs -----------------------------
(***************************************************************************)
(* PeerAdmin proved for any administrators, peers and requests: what Join  *)
(* and Install report is true of the peers.                                *)
(***************************************************************************)
EXTENDS PeerAdmin, FiniteSetTheorems, TLAPS

(* The variables hold a value for every administrator. *)
Tables ==
  /\ call = [a \in Admin |-> call[a]]
  /\ answer = [a \in Admin |-> answer[a]]

(* The peers that have what a call of this operation is about. *)
Reached(op) == IF op = "install" THEN installed ELSE joined

(* p has it after a step. *)
Gets(op, p) == p \in (IF op = "install" THEN installed' ELSE joined')

(* The responses so far speak of the peers named so far. *)
CallTrue(a) ==
  call[a] # None =>
    \A i \in DOMAIN call[a].responses :
      call[a].responses[i] = 200 => call[a].list[i] \in Reached(call[a].op)

(* What an answer says. *)
Truth(r) ==
  r # None /\ ~r.err =>
    /\ r.op = "joinAll" => Said(r, joined)
    /\ r.op = "install" =>
         /\ Said(r, installed)
         /\ r.status = 200 => \A i \in DOMAIN r.list : r.list[i] \in installed
         /\ r.status = 204 => \E i, j \in DOMAIN r.list :
                                r.list[i] \in installed /\ r.responses[j] # 200

IInv == TypeOK /\ Tables /\ \A a \in Admin : CallTrue(a) /\ Truth(answer[a])

CallType(a) ==
  call[a] # None =>
    /\ call[a] \in [op : Ops, list : Lists, block : BOOLEAN, responses : Seq(Statuses)]
    /\ Len(call[a].responses) < Len(call[a].list)

Answers == [op : Ops, list : Lists, err : BOOLEAN, status : Statuses \cup {204},
            responses : Seq(Statuses)]

(* The places of a function at which it has a value are all its places.    *)
LEMMA Everywhere ==
  ASSUME NEW D, NEW f, NEW v
  PROVE  {i \in D : f[i] = v} = D <=> \A i \in D : f[i] = v
  OBVIOUS

(* What a total says of the responses it is made of. *)
SumsUp(t, r) ==
  /\ t = 200 => \A i \in DOMAIN r : r[i] = 200
  /\ t = 204 => \E i, j \in DOMAIN r : r[i] = 200 /\ r[j] # 200

(* ChaincodeInstall's total is that of all responses only if they are all  *)
(* alike.                                                                  *)
LEMMA TotalTells ==
  ASSUME NEW r \in Seq(Statuses), r # <<>>
  PROVE  Total(r) \in {200, 204, 500} /\ SumsUp(Total(r), r)
<1> DEFINE S == {i \in DOMAIN r : r[i] = 200}
<1>1. /\ DOMAIN r = 1..Len(r) /\ Len(r) \in Nat \ {0}
      /\ IsFiniteSet(DOMAIN r) /\ Cardinality(DOMAIN r) = Len(r)
  <2>1. DOMAIN r = 1..Len(r) /\ Len(r) \in Nat \ {0}
    OBVIOUS
  <2>2. IsFiniteSet(1..Len(r)) /\ Cardinality(1..Len(r)) = Len(r)
    BY <2>1, FS_Interval
  <2> QED
    BY <2>1, <2>2
<1>2. IsFiniteSet(S) /\ Successes(r) = Cardinality(S)
  BY <1>1, FS_Subset DEF Successes
<1>3. Successes(r) = Len(r) => \A i \in DOMAIN r : r[i] = 200
  <2>1. S \in SUBSET DOMAIN r
    OBVIOUS
  <2>2. Cardinality(DOMAIN r) = Cardinality(S) => DOMAIN r = S
    BY <1>1, <2>1, FS_Subset
  <2>3. DOMAIN r = S => \A i \in DOMAIN r : r[i] = 200
    BY Everywhere, Zenon
  <2> HIDE DEF S
  <2> QED
    BY <1>1, <1>2, <2>2, <2>3
<1>4. Successes(r) # 0 => \E i \in DOMAIN r : r[i] = 200
  BY <1>2, FS_EmptySet
<1>5. Successes(r) # Len(r) => \E j \in DOMAIN r : r[j] # 200
  <2>1. (\A j \in DOMAIN r : r[j] = 200) => S = DOMAIN r
    BY Everywhere, Zenon
  <2> HIDE DEF S
  <2> QED
    BY <1>1, <1>2, <2>1
<1>6. Total(r) \in {200, 204, 500}
  BY DEF Total
<1>7. Total(r) = 200 => Successes(r) = Len(r)
  BY DEF Total
<1>8. Total(r) = 204 => Successes(r) # 0 /\ Successes(r) # Len(r)
  BY DEF Total
<1> QED
  BY <1>3, <1>4, <1>5, <1>6, <1>7, <1>8 DEF SumsUp

(* Peers keep what they have, and one that answers 200 has what it was     *)
(* asked for.                                                              *)
LEMMA ExchangeTells ==
  ASSUME TypeOK, NEW op, NEW p \in Peer, NEW status, Exchange(op, p, status)
  PROVE  /\ joined \subseteq joined' /\ joined' \subseteq Peer
         /\ installed \subseteq installed' /\ installed' \subseteq Peer
         /\ status \in Statuses
         /\ status = 200 => Gets(op, p)
  BY DEF TypeOK, Exchange, Do, Verdict, Has, peers, NoAnswer, Statuses, Gets

(* The peers and the channel of a step. *)
Grows ==
  /\ joined \subseteq joined' /\ joined' \subseteq Peer
  /\ installed \subseteq installed' /\ installed' \subseteq Peer
  /\ channel' \in {"none", "ordered", "open"}

(* What was true of the peers stays true while they keep what they have:   *)
(* a step of one administrator has to answer for itself only.              *)
LEMMA OneMoves ==
  ASSUME IInv, NEW a \in Admin, Grows, Tables',
         \A b \in Admin \ {a} : call'[b] = call[b] /\ answer'[b] = answer[b],
         CallType(a)', CallTrue(a)',
         answer'[a] # None => answer'[a] \in Answers, Truth(answer[a])'
  PROVE  IInv'
<1>1. ASSUME NEW b \in Admin  PROVE  CallType(b)' /\ (answer'[b] # None => answer'[b] \in Answers)
  BY <1>1 DEF IInv, TypeOK, CallType, Answers
<1>2. TypeOK'
  BY <1>1 DEF TypeOK, CallType, Answers, Grows
<1>3. ASSUME NEW b \in Admin \ {a}  PROVE  CallTrue(b)' /\ Truth(answer[b])'
  <2>1. CallTrue(b) /\ Truth(answer[b])
    BY DEF IInv
  <2>2. CallTrue(b)'
    BY <2>1 DEF CallTrue, Reached, Grows
  <2>3. Truth(answer[b])'
    BY <2>1 DEF Truth, Said, Grows
  <2> QED
    BY <2>2, <2>3
<1> QED
  BY <1>2, <1>3 DEF IInv

(* A call that returns has to answer for its report.                       *)
LEMMA ReportKeeps ==
  ASSUME IInv, NEW a \in Admin, Grows, NEW r \in Answers, Truth(r)',
         call' = [call EXCEPT ![a] = None], answer' = [answer EXCEPT ![a] = r]
  PROVE  IInv'
<1>1. /\ call' = [b \in Admin |-> call'[b]] /\ call'[a] = None
      /\ \A b \in Admin \ {a} : call'[b] = call[b]
  BY DEF IInv, Tables
<1>2. /\ answer' = [b \in Admin |-> answer'[b]] /\ answer'[a] = r
      /\ \A b \in Admin \ {a} : answer'[b] = answer[b]
  BY DEF IInv, Tables
<1>3. Truth(answer[a])'
  BY <1>2 DEF Truth, Said
<1> QED
  BY <1>1, <1>2, <1>3, OneMoves DEF Tables, CallType, CallTrue

LEMMA ReturnKeeps ==
  ASSUME IInv, NEW a \in Admin, call[a] # None, Grows,
         NEW err \in BOOLEAN, NEW status \in Statuses \cup {204},
         NEW responses \in Seq(Statuses), Return(a, err, status, responses),
         NEW r, r = [op |-> call[a].op, list |-> call[a].list, err |-> err, status |-> status,
                     responses |-> responses],
         Truth(r)'
  PROVE  IInv'
<1>1. r \in Answers
  BY DEF IInv, TypeOK, Answers
<1>2. call' = [call EXCEPT ![a] = None] /\ answer' = [answer EXCEPT ![a] = r]
  BY DEF Return
<1>3. IInv /\ Grows /\ Truth(r)' /\ a \in Admin
  OBVIOUS
<1> QED
  BY ONLY <1>1, <1>2, <1>3, ReportKeeps

(* Giving up is no report.                                                 *)
LEMMA FailKeeps ==
  ASSUME IInv, NEW a \in Admin, call[a] # None, Grows, Fail(a)
  PROVE  IInv'
<1>1. PICK r : r = [op |-> call[a].op, list |-> call[a].list, err |-> TRUE,
                    status |-> NoAnswer, responses |-> <<>>]
  OBVIOUS
<1>2. Truth(r)'
  BY <1>1 DEF Truth
<1>3. <<>> \in Seq(Statuses) /\ NoAnswer \in Statuses
  BY DEF Statuses
<1> QED
  BY <1>1, <1>2, <1>3, ReturnKeeps DEF Fail

(* A sequence that gets one more element.                                  *)
LEMMA Appended ==
  ASSUME NEW S, NEW s \in Seq(S), NEW x \in S, NEW t, t = Append(s, x)
  PROVE  /\ t \in Seq(S) /\ t # <<>>
         /\ Len(t) = Len(s) + 1 /\ Len(s) \in Nat /\ DOMAIN t = 1..Len(t)
         /\ t[Len(t)] = x /\ \A i \in 1..Len(s) : t[i] = s[i]
  OBVIOUS

(* A response that is added is about the peer whose turn it was; the last  *)
(* one makes the report.                                                   *)
LEMMA AddKeeps ==
  ASSUME IInv, NEW a \in Admin, call[a] # None, call[a].op \in {"joinAll", "install"},
         Grows, NEW status \in Statuses, Add(a, status),
         status = 200 => Gets(call[a].op, Turn(a))
  PROVE  IInv'
<1>1. PICK responses, op, list :
        responses = Append(call[a].responses, status) /\ op = call[a].op /\ list = call[a].list
  OBVIOUS
<1>2. PICK total : total = IF op = "install" THEN Total(responses) ELSE 200
  OBVIOUS
<1>3. /\ call[a] \in [op : Ops, list : Lists, block : BOOLEAN, responses : Seq(Statuses)]
      /\ Len(call[a].responses) < Len(list)
      /\ list \in Seq(Peer)
  BY <1>1, ListsAssumption DEF IInv, TypeOK
<1>4. /\ responses \in Seq(Statuses) /\ responses # <<>>
      /\ Len(responses) = Len(call[a].responses) + 1 /\ Len(call[a].responses) \in Nat
      /\ DOMAIN responses = 1..Len(responses) /\ responses[Len(responses)] = status
      /\ \A i \in 1..Len(call[a].responses) : responses[i] = call[a].responses[i]
  <2>1. call[a].responses \in Seq(Statuses)
    BY <1>3
  <2> QED
    BY <1>1, <2>1, Appended
<1>5. Len(responses) <= Len(list) /\ Turn(a) = list[Len(responses)] /\ Len(list) \in Nat
  BY <1>1, <1>3, <1>4 DEF Turn
<1>6. \A i \in DOMAIN responses :
        responses[i] = 200 => list[i] \in (IF op = "install" THEN installed' ELSE joined')
  <2>1. ASSUME NEW i \in DOMAIN responses, responses[i] = 200
        PROVE  list[i] \in (IF op = "install" THEN installed' ELSE joined')
    <3>1. CASE i = Len(responses)
      BY <1>1, <1>4, <1>5, <2>1, <3>1 DEF Gets
    <3>2. CASE i \in 1..Len(call[a].responses)
      <4>1. call[a].responses[i] = 200 /\ i \in DOMAIN call[a].responses
        BY <1>3, <1>4, <2>1, <3>2
      <4> QED
        BY <1>1, <4>1 DEF IInv, CallTrue, Reached, Grows
    <3> QED
      BY <1>4, <3>1, <3>2
  <2> QED
    BY <2>1
<1>7. CASE Last(a)
  <2>1. PICK r : r = [op |-> call[a].op, list |-> call[a].list, err |-> FALSE,
                      status |-> total, responses |-> responses]
    OBVIOUS
  <2>2. Len(responses) = Len(list) /\ DOMAIN list = DOMAIN responses
    BY <1>1, <1>3, <1>4, <1>7 DEF Last
  <2>3. total \in Statuses \cup {204}
    BY <1>2, <1>4, TotalTells DEF Statuses
  <2>4. Return(a, FALSE, total, responses)
    BY <1>1, <1>2, <1>7 DEF Add
  <2>5. op = "install" => SumsUp(total, responses)
    <3>1. SumsUp(Total(responses), responses)
      <4>1. responses \in Seq(Statuses) /\ responses # <<>>
        BY <1>4, Zenon
      <4> QED
        BY <4>1, TotalTells
    <3>2. op = "install" => total = Total(responses)
      BY <1>2
    <3> QED
      BY <3>1, <3>2, Zenon
  <2>6. Truth(r)'
    <3>1. /\ r.op = op /\ r.list = list /\ r.responses = responses /\ r.status = total
          /\ op \in {"joinAll", "install"}
      BY <1>1, <2>1
    <3>2. CASE op = "joinAll"
      <4>1. \A i \in DOMAIN list : responses[i] = 200 => list[i] \in joined'
        BY <1>6, <2>2, <3>2
      <4> QED
        BY <2>2, <3>1, <3>2, <4>1 DEF Truth, Said
    <3>3. CASE op = "install"
      <4>1. \A i \in DOMAIN list : responses[i] = 200 => list[i] \in installed'
        BY <1>6, <2>2, <3>3
      <4>2. total = 200 => \A i \in DOMAIN list : list[i] \in installed'
        BY <2>2, <2>5, <3>3, <4>1 DEF SumsUp
      <4>3. total = 204 =>
              \E i, j \in DOMAIN list : list[i] \in installed' /\ responses[j] # 200
        BY <2>2, <2>5, <3>3, <4>1 DEF SumsUp
      <4> QED
        BY <2>2, <3>1, <3>3, <4>1, <4>2, <4>3 DEF Truth, Said
    <3> QED
      BY <3>1, <3>2, <3>3
  <2>7. responses \in Seq(Statuses)
    BY <1>4
  <2>8. r \in Answers
    BY <2>1, <2>3, <2>7 DEF IInv, TypeOK, Answers
  <2>9. call' = [call EXCEPT ![a] = None] /\ answer' = [answer EXCEPT ![a] = r]
    BY <2>1, <2>4 DEF Return
  <2> QED
    BY <2>6, <2>8, <2>9, ReportKeeps
<1>8. CASE ~Last(a)
  <2>1. call' = [call EXCEPT ![a].responses = responses] /\ answer' = answer
    BY <1>1, <1>8 DEF Add
  <2>2. /\ Tables'
        /\ call'[a] = [call[a] EXCEPT !.responses = responses]
        /\ \A b \in Admin \ {a} : call'[b] = call[b]
    BY <2>1 DEF IInv, Tables
  <2>3. Len(responses) < Len(list)
    BY <1>1, <1>3, <1>4, <1>5, <1>8 DEF Last
  <2>4. /\ call'[a] \in [op : Ops, list : Lists, block : BOOLEAN, responses : Seq(Statuses)]
        /\ call'[a].op = op /\ call'[a].list = list /\ call'[a].responses = responses
    BY <1>1, <1>3, <1>4, <2>2
  <2>5. CallType(a)' /\ CallTrue(a)'
    BY <1>6, <2>3, <2>4 DEF CallType, CallTrue, Reached
  <2>6. (answer'[a] # None => answer'[a] \in Answers) /\ Truth(answer[a])'
    BY <2>1 DEF IInv, TypeOK, Answers, Truth, Said, Grows
  <2> QED
    BY <2>1, <2>2, <2>5, <2>6, OneMoves
<1> QED
  BY <1>7, <1>8

(* The rest of the actions, each by what it does to the peers and to its   *)
(* own call.                                                               *)
LEMMA CallerKeeps ==
  ASSUME IInv, NEW a \in Admin, NEW status \in Statuses,
         FetchBlock(a) \/ FetchFails(a) \/ Step(a, status)
  PROVE  IInv'
<1>0. CASE FetchFails(a)
  <2>1. Grows /\ call[a] # None /\ Fail(a)
    BY <1>0 DEF FetchFails, Grows, peers, IInv, TypeOK, Doing
  <2> QED
    BY <2>1, FailKeeps
<1>1. CASE FetchBlock(a)
  <2>1. /\ Grows /\ Tables'
        /\ answer' = answer /\ call[a] # None
        /\ call'[a] = [call[a] EXCEPT !.block = TRUE]
        /\ \A b \in Admin \ {a} : call'[b] = call[b]
    BY <1>1 DEF FetchBlock, Grows, peers, IInv, TypeOK, Tables, Doing
  <2>2. call[a] \in [op : Ops, list : Lists, block : BOOLEAN, responses : Seq(Statuses)]
    BY <2>1 DEF IInv, TypeOK
  <2>3. /\ call'[a] \in [op : Ops, list : Lists, block : BOOLEAN, responses : Seq(Statuses)]
        /\ call'[a].op = call[a].op /\ call'[a].list = call[a].list
        /\ call'[a].responses = call[a].responses
    BY <2>1, <2>2
  <2>4. CallType(a)' /\ CallTrue(a)'
    BY <2>1, <2>3 DEF CallType, CallTrue, Reached, IInv, TypeOK, Grows
  <2>5. (answer'[a] # None => answer'[a] \in Answers) /\ Truth(answer[a])'
    BY <2>1 DEF IInv, TypeOK, Answers, Truth, Said, Grows
  <2> QED
    BY <2>1, <2>4, <2>5, OneMoves
<1>2. CASE Create(a, status)
  <2>1. /\ Grows /\ call[a] # None /\ call[a].op = "create"
        /\ Return(a, FALSE, status, <<>>)
    <3>1. /\ Doing(a, "create") /\ Return(a, FALSE, status, <<>>)
          /\ UNCHANGED peers
      BY <1>2 DEF Create
    <3>2. channel = "open" => channel' = "open"
      BY <1>2 DEF Create
    <3>3. channel' \in {"none", "ordered", "open"}
      BY <1>2 DEF Create, IInv, TypeOK
    <3> QED
      BY <3>1, <3>2, <3>3 DEF Grows, peers, IInv, TypeOK, Doing
  <2>2. PICK r : r = [op |-> call[a].op, list |-> call[a].list, err |-> FALSE,
                      status |-> status, responses |-> <<>>]
    OBVIOUS
  <2>3. Truth(r)' /\ <<>> \in Seq(Statuses)
    BY <2>1, <2>2 DEF Truth
  <2> QED
    BY <2>1, <2>2, <2>3, ReturnKeeps
<1>3. ASSUME NEW o, Exchange(o, Turn(a), status), call[a] # None, channel' = channel
      PROVE  Grows /\ (status = 200 => Gets(o, Turn(a)))
  <2>1. Turn(a) \in Peer
    <3>1. /\ call[a].list \in Seq(Peer) /\ call[a].responses \in Seq(Statuses)
          /\ Len(call[a].responses) < Len(call[a].list)
      BY <1>3, ListsAssumption DEF IInv, TypeOK
    <3>2. Len(call[a].responses) + 1 \in 1..Len(call[a].list)
      BY <3>1
    <3> QED
      BY <3>1, <3>2 DEF Turn
  <2>2. PICK p \in Peer : p = Turn(a)
    BY <2>1
  <2>3. TypeOK /\ Exchange(o, p, status)
    BY <1>3, <2>2 DEF IInv
  <2>4. /\ joined \subseteq joined' /\ joined' \subseteq Peer
        /\ installed \subseteq installed' /\ installed' \subseteq Peer
        /\ status = 200 => Gets(o, p)
    BY <2>3, ExchangeTells
  <2> QED
    BY <1>3, <2>2, <2>3, <2>4 DEF Grows, TypeOK, Gets
<1>4. CASE JoinFirst(a, status)
  <2>1. Grows /\ call[a] # None /\ call[a].op = "join"
    BY <1>3, <1>4 DEF JoinFirst, Doing
  <2>2. CASE Fail(a)
    BY <2>1, <2>2, FailKeeps
  <2>3. CASE Return(a, FALSE, status, <<>>)
    <3>1. PICK r : r = [op |-> call[a].op, list |-> call[a].list, err |-> FALSE,
                        status |-> status, responses |-> <<>>]
      OBVIOUS
    <3>2. Truth(r)' /\ <<>> \in Seq(Statuses)
      BY <2>1, <3>1 DEF Truth
    <3> QED
      BY <2>1, <2>3, <3>1, <3>2, ReturnKeeps
  <2> QED
    BY <1>4, <2>2, <2>3 DEF JoinFirst
<1>5. CASE JoinPeer(a, status)
  <2>1. /\ Grows /\ call[a] # None /\ call[a].op = "joinAll"
        /\ status = 200 => Gets("join", Turn(a))
    BY <1>3, <1>5 DEF JoinPeer, Doing
  <2>2. PICK told \in Statuses : Add(a, told) /\ (told = 200 => status = 200)
    BY <1>5 DEF JoinPeer, Statuses, NoAnswer
  <2> QED
    BY <2>1, <2>2, AddKeeps DEF Gets
<1>6. CASE InstallPeer(a, status)
  <2>1. /\ Grows /\ call[a] # None /\ call[a].op = "install"
        /\ status = 200 => Gets("install", Turn(a))
    BY <1>3, <1>6 DEF InstallPeer, Doing
  <2> QED
    BY <1>6, <2>1, FailKeeps, AddKeeps DEF InstallPeer
<1> QED
  BY <1>0, <1>1, <1>2, <1>4, <1>5, <1>6 DEF Step

(* The responses of a call, and the report made of them, speak of the      *)
(* peers they are from.                                                    *)
THEOREM Invariance == Spec => []IInv
<1>1. Init => IInv
  BY DEF Init, IInv, TypeOK, Tables, CallTrue, Truth
<1>2. IInv /\ [Next]_vars => IInv'
  <2> SUFFICES ASSUME IInv, [Next]_vars  PROVE IInv'
    OBVIOUS
  <2>1. CASE \E a \in Admin, op \in Ops, list \in Lists : Start(a, op, list)
    <3>1. PICK a \in Admin, op \in Ops, list \in Lists : Start(a, op, list)
      BY <2>1
    <3>2. /\ Grows /\ Tables'
          /\ call'[a] = [op |-> op, list |-> list, block |-> FALSE, responses |-> <<>>]
          /\ answer'[a] = None
          /\ \A b \in Admin \ {a} : call'[b] = call[b] /\ answer'[b] = answer[b]
      BY <3>1 DEF Start, Grows, peers, IInv, TypeOK, Tables
    <3>3. CallType(a)' /\ CallTrue(a)'
      <4>1. list \in Seq(Peer) /\ list # <<>> /\ <<>> \in Seq(Statuses)
        BY ListsAssumption
      <4>2. Len(list) > 0 /\ Len(<<>>) = 0 /\ DOMAIN <<>> = {}
        BY <4>1
      <4> QED
        BY <3>2, <4>1, <4>2 DEF CallType, CallTrue
    <3> QED
      BY <3>2, <3>3, OneMoves DEF Truth
  <2>2. CASE \E a \in Admin : FetchBlock(a) \/ FetchFails(a)
    BY <2>2, CallerKeeps DEF Statuses
  <2>3. CASE \E a \in Admin, status \in Statuses : Step(a, status)
    BY <2>3, CallerKeeps
  <2>4. CASE Open
    BY <2>4 DEF Open, peers, IInv, TypeOK, Tables, CallTrue, Truth, Said, Reached
  <2>5. CASE UNCHANGED vars
    BY <2>5 DEF vars, peers, IInv, TypeOK, Tables, CallTrue, Truth, Said, Reached
  <2> QED
    BY <2>1, <2>2, <2>3, <2>4, <2>5 DEF Next
<1> QED
  BY <1>1, <1>2, PTL DEF Spec

(* Join's i-th response speaks of the i-th peer; Install's total of 200    *)
(* means every peer has the chaincode, and 204 that some have it.          *)
THEOREM ReportsTrue == Spec => []ReportsAreTrue
<1>1. IInv => ReportsAreTrue
  BY DEF IInv, Truth, ReportsAreTrue, JoinReport, InstallReport
<1> QED
  BY <1>1, Invariance, PTL
==================================================================================
