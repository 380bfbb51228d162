--------------------------- MODULE ChaincodeTxProofs ---------------------------
(***************************************************************************)
(* ChaincodeTx proved for any endorsers, answers, clients and faults: what *)
(* is sent is endorsed alike by all, the deliver group is used as its own  *)
(* specification demands, and from what is proved of the group, a nil      *)
(* error is true.                                                          *)
(***************************************************************************)
EXTENDS ChaincodeTx, FiniteSetTheorems, TLAPS

Proved == INSTANCE DeliverGroupProofs

-----------------------------------------------------------------------------
(* The group of this module and the one that is proved about are the same  *)
(* module over the same variables.                                         *)
LEMMA SameStep ==
  ASSUME [DG!Next]_(DG!vars)
  PROVE  [Proved!Next]_(Proved!vars)
<1> USE DEF DG!caller, Proved!caller, DG!group, Proved!group, DG!threads,
            Proved!threads, DG!streams, Proved!streams,
            DG!chain, Proved!chain
<1>1. DG!Connect => Proved!Connect
  BY DEF DG!Connect, Proved!Connect, DG!Launch, Proved!Launch,
         DG!Cardinality, Proved!Cardinality
<1>2. DG!ConnectReturns => Proved!ConnectReturns
  BY DEF DG!ConnectReturns, Proved!ConnectReturns, DG!ConnectReady,
         Proved!ConnectReady, DG!ConnectTimeout, Proved!ConnectTimeout,
         DG!Return, Proved!Return
<1>3. DG!Broadcast => Proved!Broadcast
  BY DEF DG!Broadcast, Proved!Broadcast
<1>4. DG!Abandon => Proved!Abandon
  BY DEF DG!Abandon, Proved!Abandon, DG!Return, Proved!Return
<1>5. DG!Wait => Proved!Wait
  BY DEF DG!Wait, Proved!Wait, DG!Launch, Proved!Launch, DG!Return,
         Proved!Return, DG!Cardinality, Proved!Cardinality
<1>6. DG!WaitReturns => Proved!WaitReturns
  BY DEF DG!WaitReturns, Proved!WaitReturns, DG!WaitReady, Proved!WaitReady,
         DG!WaitTimeout, Proved!WaitTimeout, DG!Return, Proved!Return
<1>7. DG!Cancel => Proved!Cancel
  BY DEF DG!Cancel, Proved!Cancel
<1>8. DG!Deadline => Proved!Deadline
  BY DEF DG!Deadline, Proved!Deadline
<1>9. DG!WaitForWG => Proved!WaitForWG
  BY DEF DG!WaitForWG, Proved!WaitForWG
<1>10. DG!Channel => Proved!Channel
  BY DEF DG!Channel, Proved!Channel, DG!OrderTx, Proved!OrderTx,
         DG!OrderOther, Proved!OrderOther, DG!PeerCommit, Proved!PeerCommit,
         DG!ServeSeek, Proved!ServeSeek, DG!SeekStart, Proved!SeekStart,
         DG!Grow, Proved!Grow
<1>11. ASSUME NEW c \in Client, DG!Goroutine(c)  PROVE Proved!Goroutine(c)
  <2> USE DEF DG!Goto, Proved!Goto, DG!Fail, Proved!Fail,
              DG!MayFail, Proved!MayFail, DG!StreamDone, Proved!StreamDone
  <2>1. DG!DialOk(c) => Proved!DialOk(c)
    BY DEF DG!DialOk, Proved!DialOk
  <2>2. DG!SendOk(c) => Proved!SendOk(c)
    BY DEF DG!SendOk, Proved!SendOk
  <2>3. DG!RecvBlock(c) => Proved!RecvBlock(c)
    BY DEF DG!RecvBlock, Proved!RecvBlock, DG!Inspect, Proved!Inspect
  <2>4. DG!StreamError(c) => Proved!StreamError(c)
    BY DEF DG!StreamError, Proved!StreamError, DG!DialError,
           Proved!DialError, DG!SendError, Proved!SendError, DG!RecvError,
           Proved!RecvError
  <2>5. DG!RecvOther(c) => Proved!RecvOther(c)
    BY DEF DG!RecvOther, Proved!RecvOther
  <2>6. DG!setError(c) => Proved!setError(c)
    BY DEF DG!setError, Proved!setError
  <2>7. DG!Done(c) => Proved!Done(c)
    BY DEF DG!Done, Proved!Done
  <2> QED
    BY <1>11, <2>1, <2>2, <2>3, <2>4, <2>5, <2>6, <2>7 DEF DG!Goroutine, Proved!Goroutine
<1>12. UNCHANGED DG!vars => UNCHANGED Proved!vars
  BY DEF DG!vars, Proved!vars
<1> QED
  BY <1>1, <1>2, <1>3, <1>4, <1>5, <1>6, <1>7, <1>8, <1>9, <1>10, <1>11, <1>12
     DEF DG!Next, Proved!Next, DG!Caller, Proved!Caller

(* The group's inductive invariant, from DeliverGroupProofs.               *)
LEMMA GroupKeeps ==
  ASSUME Proved!IInv, [DG!Next]_(DG!vars)
  PROVE  Proved!IInv'
<1>1. Proved!IsFiniteSet(Client) /\ NoError \notin Proved!Errors
  BY GroupAssumption
     DEF IsFiniteSet, Proved!IsFiniteSet, DG!Errors, Proved!Errors, DG!Causes, Proved!Causes
<1>2. [Proved!Next]_(Proved!vars)
  BY SameStep
<1> QED
  BY <1>1, <1>2, GroupAssumption, Proved!NextIInv

Inv == CallInv /\ Proved!IInv

-----------------------------------------------------------------------------
(* How the steps of a call are steps of the group. *)

(* The actions of the call that leave the group alone. *)
Apart ==
  \/ Propose \/ ProposeFails \/ (\E e \in Endorser : CallNext(e) \/ Answer(e))
  \/ Collect \/ createSignedTx \/ GetBroadcastClient \/ Send \/ AckSuccess \/ Reject

LEMMA ApartFrame == ASSUME Apart PROVE UNCHANGED groupVars
<1> USE DEF Apart
<1>1. ASSUME NEW e \in Endorser, CallNext(e) \/ Answer(e)
      PROVE  UNCHANGED groupVars
  BY <1>1 DEF CallNext, Answer, GoroutineError, SequentialError, GoroutineResponse,
    SequentialResponse
<1>2. CASE Propose \/ ProposeFails \/ Collect \/ createSignedTx
  BY <1>2 DEF Propose, ProposeFails, Collect, createSignedTx
<1>3. CASE GetBroadcastClient \/ Send \/ AckSuccess \/ Reject
  BY <1>3 DEF GetBroadcastClient, Send, AckSuccess, Reject
<1> QED
  BY <1>1, <1>2, <1>3

(* Next by what its actions do to the group. *)
LEMMA NextCases ==
  ASSUME Next
  PROVE  \/ Apart \/ ConnectGroup \/ ConnectReturns \/ SendFails \/ AckFails
         \/ WaitGroup \/ WaitReturns \/ Accept \/ GroupDeadline \/ Group
BY DEF Next, Caller, Apart

LEMMA GroupStep ==
  ASSUME CallInv, [Next]_vars
  PROVE  [DG!Next]_(DG!vars)
<1>1. ASSUME UNCHANGED groupVars  PROVE UNCHANGED DG!vars
  BY <1>1 DEF groupVars, DG!vars, DG!caller, DG!group, DG!threads, DG!streams, DG!chain
<1>2. CASE Apart \/ UNCHANGED vars
  BY <1>1, <1>2, ApartFrame DEF vars
<1>3. CASE ConnectGroup \/ ConnectReturns \/ WaitGroup \/ WaitReturns
  BY <1>3 DEF ConnectGroup, ConnectReturns, WaitGroup, WaitReturns, DG!Next, DG!Caller
<1>4. CASE SendFails \/ AckFails
  BY <1>1, <1>4 DEF SendFails, AckFails, CloseOnError, LeaveGroup, DG!Next, DG!Caller
<1>5. CASE Accept
  <2>1. CASE timed
    <3>1. (phase = "connected" \/ ret = "abandoned") /\ ~sent
      BY <1>5, <2>1 DEF Accept, CallInv, GroupUse
    <3>2. sent' = TRUE
      BY <1>5, <2>1 DEF Accept, CallInv, TypeOK
    <3>3. DG!Broadcast
      BY <1>5, <3>1, <3>2
         DEF Accept, DG!Broadcast, DG!caller, DG!group, DG!threads, DG!streams, DG!chain
    <3> QED
      BY <3>3 DEF DG!Next, DG!Caller
  <2>2. CASE ~timed
    <3>1. sent' = sent
      BY <1>5, <2>2, TimedAssumption DEF Accept, CallInv, GroupUse, TypeOK, DG!TypeOK
    <3>2. UNCHANGED groupVars
      BY <1>5, <3>1 DEF Accept, groupVars
    <3> QED
      BY <1>1, <3>2
  <2> QED
    BY <2>1, <2>2
<1>6. CASE GroupDeadline \/ Group
  BY <1>6 DEF GroupDeadline, Group, DG!Next, DG!Caller
<1> QED
  BY <1>2, <1>3, <1>4, <1>5, <1>6, NextCases

(* What goes on in the group by itself changes neither the result of its   *)
(* calls nor, before they return, the place of the caller.                 *)
LEMMA GroupFrame ==
  ASSUME GroupDeadline \/ Group
  PROVE  /\ UNCHANGED own /\ ret' = ret /\ sent' = sent /\ phase # "new"
         /\ phase' = phase \/ (phase = "returned" /\ phase' = "closed")
<1>1. ASSUME NEW c \in Client, DG!Goroutine(c)
      PROVE  ret' = ret /\ sent' = sent /\ phase' = phase
  BY <1>1 DEF DG!Goroutine, DG!DialOk, DG!SendOk, DG!RecvBlock, DG!StreamError,
    DG!DialError, DG!SendError, DG!RecvError, DG!RecvOther, DG!setError, DG!Done,
    DG!caller
<1>2. ASSUME DG!Channel \/ DG!WaitForWG
      PROVE  ret' = ret /\ sent' = sent /\ phase' = phase
  BY <1>2 DEF DG!Channel, DG!WaitForWG, DG!OrderTx, DG!OrderOther, DG!PeerCommit,
    DG!ServeSeek, DG!caller
<1> QED
  BY <1>1, <1>2 DEF GroupDeadline, Group, DG!Cancel, DG!Deadline
-----------------------------------------------------------------------------
(* The inductive invariant. *)

LEMMA InitInv == Init => Inv
<1> SUFFICES ASSUME Init PROVE Inv
  OBVIOUS
<1>1. DG!Init <=> Proved!Init
  BY DEF DG!Init, Proved!Init
<1>2. Proved!IsFiniteSet(Client) /\ NoError \notin Proved!Errors
  BY GroupAssumption
     DEF IsFiniteSet, Proved!IsFiniteSet, DG!Errors, Proved!Errors, DG!Causes, Proved!Causes
<1>3. Proved!IInv
  BY <1>1, <1>2, GroupAssumption, Proved!InitIInv DEF Init
<1>4. DG!TypeOK
  BY <1>3 DEF Proved!IInv, Proved!TypeOK, DG!TypeOK, Proved!Phases, DG!Phases,
    Proved!Results, DG!Results, Proved!Errors, DG!Errors, Proved!Causes, DG!Causes
<1>5. asked \subseteq Endorser
  BY CommitterAssumption DEF Init
<1>6. TypeOK
  <2>1. 0 \in 0..Cardinality(Endorser)
    BY EndorserAssumption, FS_CardinalityType
  <2>2. <<>> \in Seq(Response)
    OBVIOUS
  <2> QED
    BY <1>4, <1>5, <2>1, <2>2 DEF Init, TypeOK, Stages
<1>7. Gathering /\ Telling /\ Closing
  BY DEF Init, Gathering, Telling, Closing, StreamClosed, BeforeSend
<1>8. GroupUse /\ Subscribing
  BY DEF Init, DG!Init, GroupUse, Subscribing, SubscribedBeforeSend
<1> QED
  BY <1>3, <1>6, <1>7, <1>8 DEF Inv, CallInv

(* A response that arrives adds its endorser to those that responded. *)
LEMMA Arrival ==
  ASSUME resps \in Seq(Response), NEW r \in Response, resps' = Append(resps, r)
  PROVE  /\ resps' \in Seq(Response)
         /\ Responded' = Responded \cup {r.peer}
         /\ Succeeded /\ r.status = SUCCESS => Succeeded'
<1>1. /\ resps' \in Seq(Response) /\ Len(resps') = Len(resps) + 1 /\ Len(resps) \in Nat
      /\ \A n \in 1..Len(resps) : resps'[n] = resps[n]
      /\ resps'[Len(resps) + 1] = r
  OBVIOUS
<1>2. 1..Len(resps') = 1..Len(resps) \cup {Len(resps) + 1}
  BY <1>1
<1>3. ASSUME NEW p \in Responded'  PROVE p \in Responded \cup {r.peer}
  BY <1>1, <1>2, <1>3 DEF Responded
<1>4. ASSUME NEW p \in Responded  PROVE p \in Responded'
  BY <1>1, <1>2, <1>4 DEF Responded
<1>5. r.peer \in Responded'
  BY <1>1, <1>2 DEF Responded
<1>6. Succeeded /\ r.status = SUCCESS => Succeeded'
  BY <1>1, <1>2 DEF Succeeded
<1> QED
  BY <1>1, <1>3, <1>4, <1>5, <1>6

(* The ways an endorser may answer. *)
AnswersWith(e, r) == GoroutineResponse(e, r) \/ SequentialResponse(e, r)

LEMMA AnswerCases ==
  ASSUME NEW e \in Endorser, Answer(e)
  PROVE  \/ GoroutineError(e) \/ SequentialError(e)
         \/ \E r \in Response : r.peer = e /\ AnswersWith(e, r)
BY DEF Answer, AnswersWith, Response
LEMMA GroupTypes ==
  ASSUME Inv, [Next]_vars
  PROVE  Proved!IInv' /\ DG!TypeOK'
<1>1. Proved!IInv'
  BY GroupStep, GroupKeeps DEF Inv
<1> QED
  BY <1>1 DEF Proved!IInv, Proved!TypeOK, DG!TypeOK, Proved!Phases, DG!Phases,
    Proved!Results, DG!Results, Proved!Errors, DG!Errors, Proved!Causes, DG!Causes

(* Every step keeps the types. *)
LEMMA TypeStep ==
  ASSUME Inv, [Next]_vars
  PROVE  TypeOK'
<1> USE DEF TypeOK, call, endorsing, ordering, Return, Proceed
<1>1. TypeOK /\ DG!TypeOK'
  BY GroupTypes DEF Inv, CallInv
<1>2. CASE UNCHANGED own
  BY <1>1, <1>2 DEF own
<1>3. CASE Propose \/ \E e \in Endorser : CallNext(e)
  <2>1. ep' \in [Endorser -> {"idle", "calling", "done"}] /\ stage' \in Stages
    BY <1>1, <1>3 DEF Propose, CallNext, Stages
  <2>2. UNCHANGED <<call, errs, resps, ordering, out>>
    BY <1>3 DEF Propose, CallNext
  <2> QED
    BY <1>1, <2>1, <2>2
<1>4. ASSUME NEW e \in Endorser, GoroutineError(e) \/ SequentialError(e)  PROVE TypeOK'
  <2>1. ep' \in [Endorser -> {"idle", "calling", "done"}] /\ stage' \in Stages
        /\ out' \in {"pending", "nil", "error", "panic"}
    BY <1>1, <1>4 DEF GoroutineError, SequentialError, Answered, Stages
  <2>2. errs' \in 0..Cardinality(Endorser)
    <3>1. Cardinality(asked) \in Nat /\ Cardinality(Endorser) \in Nat
          /\ Cardinality(asked) <= Cardinality(Endorser)
      BY <1>1, EndorserAssumption, FS_Subset, FS_CardinalityType
    <3> QED
      BY <1>1, <1>4, <3>1 DEF GoroutineError, SequentialError, Room
  <2>3. UNCHANGED <<call, resps, ordering>>
    BY <1>4 DEF GoroutineError, SequentialError
  <2> QED
    BY <1>1, <2>1, <2>2, <2>3
<1>5. ASSUME NEW e \in Endorser, NEW r \in Response, AnswersWith(e, r)  PROVE TypeOK'
  <2> USE DEF AnswersWith, GoroutineResponse, SequentialResponse
  <2>1. resps' = Append(resps, r)
    BY <1>5
  <2>2. resps' \in Seq(Response)
    BY <1>1, <2>1, Arrival
  <2>3. ep' \in [Endorser -> {"idle", "calling", "done"}]
    BY <1>1, <1>5 DEF Answered
  <2>4. stage' \in Stages /\ out' \in {"pending", "nil", "error", "panic"}
    BY <1>1, <1>5 DEF Stages
  <2>5. UNCHANGED <<call, errs, ordering>>
    BY <1>5
  <2> QED
    BY <1>1, <2>2, <2>3, <2>4, <2>5
<1>6. CASE ProposeFails \/ Collect \/ createSignedTx
  <2>1. stage' \in Stages /\ out' \in {"pending", "nil", "error", "panic"}
    BY <1>1, <1>6 DEF ProposeFails, Collect, createSignedTx, InvokeOrQuery, Stages
  <2>2. UNCHANGED <<call, endorsing, ordering>>
    BY <1>6 DEF ProposeFails, Collect, createSignedTx
  <2> QED
    BY <1>1, <2>1, <2>2
<1>7. CASE \/ GetBroadcastClient \/ Send \/ AckSuccess \/ Reject \/ Accept
           \/ ConnectReturns \/ SendFails \/ AckFails \/ WaitGroup \/ WaitReturns
  <2> USE DEF GetBroadcastClient, Send, AckSuccess, Reject, Accept, ConnectReturns,
          SendFails, AckFails, CloseOnError, WaitGroup, WaitReturns
  <2>1. stage' \in Stages /\ out' \in {"pending", "nil", "error", "panic"}
    BY <1>1, <1>7 DEF Stages
  <2>2. bc' \in {"none", "open", "closed"}
        /\ orderer' \in {"none", "wire", "accepted", "rejected"}
    BY <1>1, <1>7
  <2>3. UNCHANGED <<call, endorsing>>
    BY <1>7
  <2> QED
    BY <1>1, <2>1, <2>2, <2>3
<1> QED
  BY <1>1, <1>2, <1>3, <1>4, <1>5, <1>6, <1>7, NextCases, GroupFrame, AnswerCases
     DEF Apart, ConnectGroup, vars

(* What an unchanged call with unchanged responses knows stays known. *)
LEMMA SameResponses ==
  ASSUME UNCHANGED <<call, endorsing>>
  PROVE  (Endorsed' <=> Endorsed) /\ Responded' = Responded /\ (Succeeded' <=> Succeeded)
BY DEF Endorsed, Responded, Succeeded, call, endorsing

(* Gathering is kept by every step. *)
LEMMA GatheringStep ==
  ASSUME Inv, [Next]_vars
  PROVE  Gathering'
<1> USE DEF call, endorsing, ordering, Return, Proceed
<1>1. TypeOK /\ Gathering /\ Telling
  BY DEF Inv, CallInv
<1>2. CASE UNCHANGED own
  BY <1>1, <1>2, SameResponses DEF own, Gathering
<1>3. CASE Propose
  <2>1. orderer' = "none" /\ stage' = "endorse"
    BY <1>1, <1>3 DEF Propose, Telling, BeforeSend
  <2>2. resps' = <<>> /\ errs' = 0
    BY <1>1, <1>3 DEF Propose, Gathering
  <2>3. \A e \in Endorser : ep'[e] # "idle" => e \in asked'
    BY <1>3 DEF Propose
  <2>4. \A e \in Endorser : ep'[e] # "done"
    BY <1>3 DEF Propose
  <2>5. Responded' = {} /\ Succeeded'
    BY <2>2 DEF Responded, Succeeded
  <2> QED
    BY <2>1, <2>2, <2>3, <2>4, <2>5 DEF Gathering
<1>4. ASSUME NEW e \in Endorser, CallNext(e)  PROVE Gathering'
  <2>1. orderer' = "none" /\ stage' = "endorse" /\ stage = "endorse"
    BY <1>1, <1>4 DEF CallNext, Telling, BeforeSend
  <2>2. UNCHANGED <<call, errs, resps>>
    BY <1>4 DEF CallNext
  <2>3. Responded' = Responded /\ (Succeeded' <=> Succeeded)
    BY <2>2 DEF Responded, Succeeded
  <2>4. /\ \A d \in Endorser : ep'[d] # "idle" => d \in asked
        /\ \A d \in Endorser : ep'[d] = "done" <=> ep[d] = "done"
    BY <1>1, <1>4, <2>1 DEF CallNext, Gathering, TypeOK
  <2> QED
    BY <1>1, <2>1, <2>2, <2>3, <2>4 DEF Gathering
<1>5. ASSUME NEW e \in Endorser, GoroutineError(e) \/ SequentialError(e)
      PROVE  Gathering'
  <2>1. orderer' = "none" /\ stage = "endorse" /\ UNCHANGED <<call, resps>>
    BY <1>1, <1>5 DEF GoroutineError, SequentialError, Telling, BeforeSend
  <2>2. CASE GoroutineError(e)
    <3>1. stage' = "endorse" /\ op' \in Concurrent /\ errs' # 0
      BY <1>1, <2>1, <2>2 DEF GoroutineError, TypeOK
    <3>2. \A d \in Endorser : ep'[d] # "idle" => d \in asked
      BY <1>1, <2>1, <2>2 DEF GoroutineError, Answered, Gathering, TypeOK
    <3> QED
      BY <2>1, <3>1, <3>2 DEF Gathering
  <2>3. CASE SequentialError(e)
    BY <2>1, <2>3 DEF SequentialError, Gathering
  <2> QED
    BY <1>5, <2>2, <2>3
<1>6. ASSUME NEW e \in Endorser, NEW r \in Response, r.peer = e, AnswersWith(e, r)
      PROVE  Gathering'
  <2> USE DEF AnswersWith, GoroutineResponse, SequentialResponse
  <2>1. /\ orderer' = "none" /\ stage = "endorse" /\ UNCHANGED <<call, errs>>
        /\ resps' = Append(resps, r) /\ Answered(e)
    BY <1>1, <1>6 DEF Telling, BeforeSend
  <2>2. Responded' = Responded \cup {e} /\ (Succeeded /\ r.status = SUCCESS => Succeeded')
    BY <1>1, <1>6, <2>1, Arrival DEF TypeOK
  <2>3. stage' \in {"endorse", "done"}
    BY <1>6, <2>1
  <2>4. stage' = "endorse" /\ op \notin Concurrent => r.status = SUCCESS
    BY <1>6, <2>1
  <2>5. /\ \A d \in Endorser : ep'[d] # "idle" => d \in asked
        /\ {d \in Endorser : ep'[d] = "done"} = {d \in Endorser : ep[d] = "done"} \cup {e}
    BY <1>1, <1>6, <2>1 DEF Answered, Gathering, TypeOK
  <2> QED
    BY <1>1, <2>1, <2>2, <2>3, <2>4, <2>5 DEF Gathering
<1>7. CASE Collect
  <2>1. orderer' = "none" /\ stage = "endorse" /\ UNCHANGED <<call, endorsing>>
    BY <1>1, <1>7 DEF Collect, Telling, BeforeSend
  <2>2. stage' \in {"sign", "done"}
    BY <1>7 DEF Collect, InvokeOrQuery
  <2>3. ASSUME stage' = "sign"
        PROVE  op \in Writes /\ errs = 0 /\ (op # "Invoke" => op \notin Concurrent)
    <3>1. op \in {"Approve", "Commit"} => errs = 0
      BY <1>1, <2>1 DEF Gathering, Concurrent
    <3>2. op \in {"Approve", "Commit"} \/ (op \in {"Invoke", "Query"} /\ InvokeOrQuery)
      BY <1>7, <2>3 DEF Collect
    <3>3. ASSUME InvokeOrQuery  PROVE ~(errs > 0) /\ op # "Query"
      BY <2>3, <3>3 DEF InvokeOrQuery
    <3>4. errs \in Nat
      BY <1>1, EndorserAssumption, FS_CardinalityType DEF TypeOK
    <3>5. errs = 0
      BY <3>1, <3>2, <3>3, <3>4
    <3> QED
      BY <3>2, <3>3, <3>5 DEF Writes, Concurrent
  <2>4. errs = 0 => Responded = asked
    BY <1>1, <1>7, <2>1 DEF Collect, AllAnswered, Gathering, TypeOK
  <2> QED
    BY <1>1, <2>1, <2>2, <2>3, <2>4, SameResponses DEF Gathering
<1>8. CASE createSignedTx
  <2>1. orderer' = "none" /\ stage = "sign" /\ UNCHANGED <<call, endorsing>>
    BY <1>1, <1>8 DEF createSignedTx, Telling, BeforeSend
  <2>2. stage' = "done" \/ (stage' = "dial" /\ resps # <<>> /\ Rejected = {})
    BY <1>8 DEF createSignedTx
  <2>3. ASSUME resps # <<>>, Rejected = {}  PROVE Endorsed
    <3>1. Len(resps) \in Nat /\ 1 \in 1..Len(resps)
          /\ \A n \in 1..Len(resps) : resps[n] \in Response
      BY <1>1, <2>3 DEF TypeOK
    <3>2. \A n \in 1..Len(resps) : Acceptable(resps[n])
      BY <2>3 DEF Rejected
    <3>3. ASSUME NEW n \in 1..Len(resps)
          PROVE  resps[n].status \in 200..399 /\ resps[n].payload = resps[1].payload
      <4>1. /\ resps[n].status # NilResponse /\ resps[n].status >= 200
            /\ resps[n].status < 400 /\ resps[n].payload = resps[1].payload
        BY <3>2 DEF Acceptable
      <4>2. resps[n].status \in Int
        BY <3>1, <4>1, StatusAssumption DEF Response
      <4>3. \A i \in Int : i >= 200 /\ i < 400 => i \in 200..399
        OBVIOUS
      <4> QED
        BY ONLY <4>1, <4>2, <4>3
    <3>4. resps[1].peer \in asked
      BY <1>1, <2>1, <3>1 DEF Gathering, Responded
    <3> QED
      BY <1>1, <2>1, <3>1, <3>3, <3>4 DEF Gathering, Endorsed
  <2> QED
    BY <2>1, <2>2, <2>3, SameResponses DEF Gathering
<1>9. CASE \/ GetBroadcastClient \/ Send \/ AckSuccess \/ Reject \/ Accept
           \/ ConnectReturns \/ SendFails \/ AckFails \/ WaitGroup \/ WaitReturns
  <2> USE DEF GetBroadcastClient, Send, AckSuccess, Reject, Accept, ConnectReturns,
          SendFails, AckFails, CloseOnError, WaitGroup, WaitReturns
  <2>1. UNCHANGED <<call, endorsing>>
    BY <1>9
  <2>2. stage \in {"dial", "connect", "send", "ack", "wait"} \/ orderer # "none"
    BY <1>9
  <2>3. Endorsed'
    BY <1>1, <2>1, <2>2, SameResponses DEF Gathering
  <2>4. stage' \in {"dial", "connect", "send", "ack", "wait", "done"}
    BY <1>1, <1>9 DEF Telling, BeforeSend, TypeOK, Stages
  <2> QED
    BY <2>3, <2>4 DEF Gathering
<1>10. CASE ProposeFails
  BY <1>1, <1>10 DEF ProposeFails, Gathering, Telling, BeforeSend
<1> QED
  BY <1>1, <1>2, <1>3, <1>4, <1>5, <1>6, <1>7, <1>8, <1>9, <1>10,
     NextCases, GroupFrame, AnswerCases
     DEF Apart, ConnectGroup, vars
(* A call that has signed its envelope got no failure status. *)
LEMMA FirstSucceeded ==
  ASSUME TypeOK, Endorsed
  PROVE  ~(resps[1].status >= ERRORTHRESHOLD)
<1>1. Responded # {} /\ Len(resps) \in Nat
  BY DEF TypeOK, Endorsed
<1>2. 1 \in 1..Len(resps)
  BY <1>1 DEF Responded
<1>3. resps[1].status \in 200..399
  BY <1>2 DEF Endorsed
<1> QED
  BY <1>3 DEF ERRORTHRESHOLD

(* An endorser's answer ends no writing call with a nil error. *)
LEMMA AnswerTells ==
  ASSUME NEW e \in Endorser, Answer(e)
  PROVE  /\ stage = "endorse" /\ UNCHANGED <<call, ordering, groupVars>>
         /\ \/ stage' = "endorse" /\ out' = out
            \/ stage' = "done" /\ out' \in {"error", "panic"}
<1>1. CASE GoroutineError(e) \/ SequentialError(e)
  BY <1>1 DEF GoroutineError, SequentialError, Return
<1>2. ASSUME NEW r \in Response, AnswersWith(e, r)
      PROVE  /\ stage = "endorse" /\ UNCHANGED <<call, ordering, groupVars>>
             /\ \/ stage' = "endorse" /\ out' = out
                \/ stage' = "done" /\ out' \in {"error", "panic"}
  BY <1>2 DEF AnswersWith, GoroutineResponse, SequentialResponse, Return
<1> QED
  BY <1>1, <1>2, AnswerCases

(* What the first response says once a call has returned does not change.  *)
LEMMA TellingStep ==
  ASSUME Inv, [Next]_vars
  PROVE  Telling'
<1> USE DEF call, endorsing, ordering, Return, Proceed, BeforeSend
<1>1. TypeOK /\ Gathering /\ Telling
  BY DEF Inv, CallInv
<1>2. ASSUME UNCHANGED own, ret' = ret  PROVE Telling'
  BY <1>1, <1>2 DEF own, Telling
<1>3. ASSUME NEW e \in Endorser, Answer(e)  PROVE Telling'
  BY <1>1, <1>3, AnswerTells DEF Telling
<1>4. ASSUME Propose \/ ProposeFails \/ \E e \in Endorser : CallNext(e)
      PROVE  Telling'
  BY <1>1, <1>4 DEF Propose, ProposeFails, CallNext, Telling
<1>5. CASE Collect
  <2>1. orderer' = "none" /\ UNCHANGED <<call, endorsing>> /\ stage = "endorse"
    BY <1>1, <1>5 DEF Collect, Telling
  <2>2. \/ stage' = "sign" /\ out' = out
        \/ stage' = "done" /\ out' \in {"error", "panic"}
        \/ stage' = "done" /\ out' = "nil" /\ op \notin Writes
        \/ stage' = "done" /\ out' = "nil" /\ resps[1].status >= ERRORTHRESHOLD
    BY <1>5 DEF Collect, InvokeOrQuery, Writes
  <2> QED
    BY <1>1, <2>1, <2>2 DEF Telling
<1>6. CASE createSignedTx
  BY <1>1, <1>6 DEF createSignedTx, Telling
<1>7. CASE GetBroadcastClient \/ Send \/ SendFails \/ AckFails
  <2>1. /\ UNCHANGED <<call, endorsing>>
        /\ stage \in {"dial", "send", "ack"} /\ stage' \in {"connect", "send", "ack", "done"}
        /\ stage' = "done" <=> out' # "pending"
        /\ out' \in {"pending", "error"}
        /\ orderer' = "wire" \/ orderer' = orderer
        /\ stage' = "ack" => orderer' = "wire"
        /\ stage' \in {"connect", "send"} => stage = "dial" /\ orderer' = orderer
    BY <1>1, <1>7 DEF GetBroadcastClient, Send, SendFails, AckFails, CloseOnError, Telling
  <2> QED
    BY <1>1, <2>1 DEF Telling
<1>8. CASE ConnectReturns
  BY <1>1, <1>8 DEF ConnectReturns, Telling
<1>9. CASE AckSuccess
  <2>1. ~(resps[1].status >= ERRORTHRESHOLD)
    BY <1>1, <1>9, FirstSucceeded DEF AckSuccess, Gathering
  <2> QED
    BY <1>1, <1>9, <2>1 DEF AckSuccess, Telling
<1>10. CASE WaitGroup \/ WaitReturns
  <2>1. ~(resps[1].status >= ERRORTHRESHOLD)
    BY <1>1, <1>10, FirstSucceeded DEF WaitGroup, WaitReturns, Gathering
  <2>2. stage = "wait" /\ UNCHANGED <<call, endorsing, ordering>>
    BY <1>10 DEF WaitGroup, WaitReturns
  <2>3. \/ stage' = "wait" /\ out' = out
        \/ stage' = "done" /\ out' = "error"
        \/ stage' = "done" /\ out' = "nil" /\ ret' = "ok"
    BY <1>10, <2>2 DEF WaitGroup, WaitReturns, DG!Wait, DG!Return
  <2> QED
    BY <1>1, <2>1, <2>2, <2>3 DEF Telling
<1>11. CASE Accept \/ Reject
  <2>1. /\ orderer = "wire" /\ orderer' \in {"accepted", "rejected"}
        /\ UNCHANGED <<call, endorsing, stage, out>>
    BY <1>11 DEF Accept, Reject
  <2> QED
    BY <1>1, <2>1 DEF Telling
<1>12. CASE ConnectGroup
  BY <1>2, <1>12 DEF ConnectGroup, DG!Connect
<1>13. CASE UNCHANGED vars
  BY <1>2, <1>13 DEF vars, groupVars
<1> QED
  BY <1>2, <1>3, <1>4, <1>5, <1>6, <1>7, <1>8, <1>9, <1>10, <1>11, <1>12, <1>13,
     NextCases, GroupFrame
     DEF Apart

(* The group is where the stage of the call says. *)
LEMMA GroupUseStep ==
  ASSUME Inv, [Next]_vars
  PROVE  GroupUse'
<1> USE DEF call, ordering, Return, Proceed
<1>1. TypeOK /\ Telling /\ GroupUse /\ timed \in BOOLEAN /\ sent \in BOOLEAN
  BY TimedAssumption DEF Inv, CallInv, TypeOK, DG!TypeOK
<1>2. CASE GroupDeadline \/ Group
  <2>1. /\ UNCHANGED own /\ ret' = ret /\ sent' = sent /\ phase # "new"
        /\ phase' = phase \/ (phase = "returned" /\ phase' = "closed")
    BY <1>2, GroupFrame
  <2> QED
    BY <1>1, <2>1 DEF own, GroupUse
<1>3. CASE UNCHANGED vars
  BY <1>1, <1>3 DEF vars, own, groupVars, GroupUse
<1>4. ASSUME UNCHANGED <<call, ordering, groupVars>>,
             \/ stage \in {"propose", "endorse", "sign"}
                /\ stage' \in {"endorse", "sign", "dial", "done"}
             \/ stage' = "done"
      PROVE  GroupUse'
  BY <1>1, <1>4 DEF groupVars, GroupUse
<1>5. ASSUME NEW e \in Endorser, Answer(e)  PROVE GroupUse'
  BY <1>4, <1>5, AnswerTells
<1>6. CASE \/ Propose \/ ProposeFails \/ (\E e \in Endorser : CallNext(e))
           \/ Collect \/ createSignedTx
  <2>1. UNCHANGED <<call, ordering, groupVars>>
    BY <1>6 DEF Propose, ProposeFails, CallNext, Collect, createSignedTx
  <2>2. /\ stage \in {"propose", "endorse", "sign"}
        /\ stage' \in {"endorse", "sign", "dial", "done"}
    BY <1>6 DEF Propose, ProposeFails, CallNext, Collect, InvokeOrQuery, createSignedTx
  <2> QED
    BY <1>4, <2>1, <2>2
<1>7. CASE GetBroadcastClient
  BY <1>1, <1>7 DEF GetBroadcastClient, groupVars, GroupUse
<1>8. CASE ConnectGroup
  BY <1>1, <1>8 DEF ConnectGroup, own, DG!Connect, GroupUse
<1>9. CASE ConnectReturns
  <2>1. /\ stage = "connect" /\ UNCHANGED <<call, ordering>> /\ sent' = sent
        /\ phase' \in {"connected", "returned"}
        /\ stage' = IF phase' = "connected" THEN "send" ELSE "done"
    BY <1>9 DEF ConnectReturns, DG!ConnectReturns, DG!ConnectReady, DG!ConnectTimeout,
      DG!Return
  <2>2. orderer' = "none"
    BY <1>1, <2>1 DEF Telling, BeforeSend
  <2> QED
    BY <1>1, <2>1, <2>2 DEF GroupUse
<1>10. CASE Send \/ AckSuccess \/ Reject
  BY <1>1, <1>10 DEF Send, AckSuccess, Reject, groupVars, GroupUse, Telling, BeforeSend
<1>11. CASE SendFails \/ AckFails
  <2>1. /\ stage' = "done" /\ UNCHANGED <<call, orderer>>
        /\ IF timed THEN DG!Abandon ELSE UNCHANGED groupVars
    BY <1>11 DEF SendFails, AckFails, CloseOnError, LeaveGroup
  <2> QED
    BY <1>1, <2>1 DEF groupVars, DG!Abandon, DG!Return, GroupUse
<1>12. CASE Accept
  BY <1>1, <1>12 DEF Accept, GroupUse
<1>13. CASE WaitGroup \/ WaitReturns
  <2>1. /\ stage = "wait" /\ UNCHANGED <<call, ordering>> /\ sent' = sent
        /\ stage' = "done" \/ (stage' = "wait" /\ phase' \in {"connected", "waiting"})
    BY <1>13 DEF WaitGroup, WaitReturns, DG!Wait, DG!Return, DG!WaitReturns,
      DG!WaitReady, DG!WaitTimeout
  <2>2. orderer' = "accepted"
    BY <1>1, <2>1 DEF Telling
  <2> QED
    BY <1>1, <2>1, <2>2 DEF GroupUse
<1> QED
  BY <1>2, <1>3, <1>5, <1>6, <1>7, <1>8, <1>9, <1>10, <1>11, <1>12, <1>13, NextCases
     DEF Apart

(* The broadcast stream is closed on every path but that of Connect.       *)
LEMMA ClosingStep ==
  ASSUME Inv, [Next]_vars
  PROVE  Closing'
<1> USE DEF call, ordering, Return, Proceed, StreamClosed
<1>1. TypeOK /\ Telling /\ Closing
  BY DEF Inv, CallInv
<1>2. ASSUME UNCHANGED own, ret' = ret  PROVE Closing'
  BY <1>1, <1>2 DEF own, Closing
<1>3. ASSUME UNCHANGED ordering,
             stage \in {"propose", "endorse", "sign"}, stage' # "wait"
      PROVE  Closing'
  BY <1>1, <1>3 DEF Closing
<1>4. ASSUME NEW e \in Endorser, Answer(e)  PROVE Closing'
  BY <1>3, <1>4, AnswerTells
<1>5. CASE \/ Propose \/ ProposeFails \/ (\E e \in Endorser : CallNext(e))
           \/ Collect \/ createSignedTx
  <2>1. UNCHANGED ordering /\ stage \in {"propose", "endorse", "sign"} /\ stage' # "wait"
    BY <1>5 DEF Propose, ProposeFails, CallNext, Collect, InvokeOrQuery, createSignedTx
  <2> QED
    BY <1>3, <2>1
<1>6. CASE GetBroadcastClient
  BY <1>1, <1>6 DEF GetBroadcastClient, Closing, Telling
<1>7. CASE ConnectReturns
  <2>1. stage = "connect" /\ UNCHANGED ordering
        /\ \/ stage' = "send" /\ out' = out
           \/ stage' = "done" /\ phase' # "connected"
    BY <1>7 DEF ConnectReturns
  <2>2. phase' # "connected" => ret' \in {"connectError", "connectTimeout"}
    BY <1>7 DEF ConnectReturns, DG!ConnectReturns, DG!ConnectReady, DG!ConnectTimeout,
      DG!Return
  <2>3. out = "pending"
    BY <1>1, <2>1 DEF Telling
  <2> QED
    BY <2>1, <2>2, <2>3 DEF Closing
<1>8. CASE Send
  BY <1>1, <1>8 DEF Send, groupVars, Closing, Telling
<1>9. CASE AckSuccess \/ SendFails \/ AckFails
  <2>1. bc' = "closed" /\ stage' \in {"wait", "done"}
    BY <1>9 DEF AckSuccess, SendFails, AckFails, CloseOnError
  <2> QED
    BY <2>1 DEF Closing
<1>10. CASE WaitGroup \/ WaitReturns
  <2>1. bc' = "closed" /\ stage' \in {"wait", "done"}
    BY <1>1, <1>10 DEF WaitGroup, WaitReturns, Closing
  <2> QED
    BY <2>1 DEF Closing
<1>11. CASE Accept \/ Reject
  BY <1>1, <1>11 DEF Accept, Reject, groupVars, Closing
<1>12. CASE ConnectGroup
  BY <1>2, <1>12 DEF ConnectGroup, DG!Connect
<1>13. CASE UNCHANGED vars
  BY <1>2, <1>13 DEF vars, groupVars
<1> QED
  BY <1>2, <1>4, <1>5, <1>6, <1>7, <1>8, <1>9, <1>10, <1>11, <1>12, <1>13,
     NextCases, GroupFrame
     DEF Apart
(* No step takes a stream or a seek envelope back. *)
LEMMA StreamsStay ==
  ASSUME DG!TypeOK, [DG!Next]_(DG!vars), NEW c \in Client
  PROVE  (conn[c] => conn'[c]) /\ (seek[c] => seek'[c])
<1> USE DEF DG!caller, DG!group, DG!threads, DG!streams, DG!chain
<1>1. ASSUME NEW d \in Client, DG!Goroutine(d)
      PROVE  (conn[c] => conn'[c]) /\ (seek[c] => seek'[c])
  BY <1>1 DEF DG!Goroutine, DG!DialOk, DG!SendOk, DG!RecvBlock, DG!StreamError,
    DG!DialError, DG!SendError, DG!RecvError, DG!RecvOther, DG!setError, DG!Done,
    DG!Fail, DG!TypeOK
<1>2. DG!Channel \/ DG!WaitForWG \/ DG!Deadline => conn' = conn /\ seek' = seek
  BY DEF DG!Channel, DG!WaitForWG, DG!Deadline, DG!OrderTx, DG!OrderOther,
    DG!PeerCommit, DG!ServeSeek
<1>3. DG!Caller => conn' = conn /\ seek' = seek
  BY DEF DG!Caller, DG!Connect, DG!ConnectReturns, DG!ConnectReady, DG!ConnectTimeout,
    DG!Broadcast, DG!Abandon, DG!Wait, DG!WaitReturns, DG!WaitReady, DG!WaitTimeout,
    DG!Cancel
<1> QED
  BY <1>1, <1>2, <1>3 DEF DG!Next, DG!vars

Subscribed(c) == (pc[c] \in {"exit", "idle"}) => ((seek[c] /\ conn[c]) \/ dgError # NoError)

(* While Connect waits, a goroutine ends subscribed or with an error.      *)
LEMMA GoroutineSubscribes ==
  ASSUME Proved!IInv, DG!TypeOK, phase = "connecting",
         NEW d \in Client, DG!Goroutine(d), NEW c \in Client, Subscribed(c)
  PROVE  Subscribed(c)'
<1> USE DEF DG!caller, DG!group, DG!threads, DG!streams, DG!chain, DG!Goto, DG!Fail
<1>1. pc[c] # "recv" /\ (pc[c] = "send" => conn[c]) /\ pc[d] # "recv"
  BY DEF Proved!IInv, Proved!PhaseInv, Proved!ConnInv
<1>2. CASE DG!DialOk(d)
  BY <1>2 DEF DG!DialOk, DG!TypeOK, Subscribed
<1>3. CASE DG!SendOk(d)
  BY <1>1, <1>3 DEF DG!SendOk, DG!TypeOK, Subscribed
<1>4. CASE DG!RecvBlock(d) \/ DG!RecvOther(d)
  <2>1. pc[d] = "recv" \/ (pc' = [pc EXCEPT ![d] = "fail"] /\ UNCHANGED <<seek, conn, dgError>>)
    BY <1>4 DEF DG!RecvBlock, DG!RecvOther
  <2> QED
    BY <1>1, <2>1 DEF DG!TypeOK, Subscribed
<1>5. CASE DG!StreamError(d)
  <2>1. pc' = [pc EXCEPT ![d] = "fail"] /\ UNCHANGED <<seek, conn, dgError>>
    BY <1>5 DEF DG!StreamError, DG!DialError, DG!SendError, DG!RecvError
  <2> QED
    BY <2>1 DEF DG!TypeOK, Subscribed
<1>6. CASE DG!setError(d)
  <2>1. dgError' \in DG!Errors
    BY <1>6 DEF DG!setError, DG!TypeOK, DG!Errors
  <2> QED
    BY <2>1, GroupAssumption DEF Subscribed
<1>7. CASE DG!Done(d)
  BY <1>7 DEF DG!Done, DG!TypeOK, Subscribed
<1> QED
  BY <1>2, <1>3, <1>4, <1>5, <1>6, <1>7 DEF DG!Goroutine

(* Connect returns nil only with every client subscribed. *)
LEMMA ConnectedIsSubscribed ==
  ASSUME Proved!IInv, DG!ConnectReturns, phase' = "connected",
         \A c \in Client : Subscribed(c)
  PROVE  \A c \in Client : seek'[c] /\ conn'[c]
<1>1. /\ ready = "closed" /\ dgError = NoError /\ UNCHANGED <<seek, conn>>
  BY DEF DG!ConnectReturns, DG!ConnectReady, DG!ConnectTimeout, DG!Return,
    DG!threads, DG!streams
<1>2. Proved!IsFiniteSet(Client) /\ NoError \notin Proved!Errors
  BY GroupAssumption
     DEF IsFiniteSet, Proved!IsFiniteSet, DG!Errors, Proved!Errors, DG!Causes, Proved!Causes
<1>3. \A c \in Client : pc[c] = "idle"
  BY <1>1, <1>2, GroupAssumption, Proved!DrainedIsIdle
     DEF Proved!IInv, Proved!QuiescentInv
<1> QED
  BY <1>1, <1>3 DEF Subscribed
LEMMA SubscribingStep ==
  ASSUME Inv, [Next]_vars
  PROVE  Subscribing'
<1> DEFINE Both(c) == seek[c] /\ conn[c]
<1>1. /\ TypeOK /\ DG!TypeOK /\ Telling /\ GroupUse /\ Subscribing /\ Proved!IInv
      /\ [DG!Next]_(DG!vars)
  BY GroupStep DEF Inv, CallInv, TypeOK
<1>2. \A c \in Client : Both(c) => Both(c)'
  BY <1>1, StreamsStay
<1>3. ASSUME phase' = "connecting", NEW c \in Client  PROVE Subscribed(c)'
  <2>1. CASE DG!Connect
    BY <2>1 DEF DG!Connect, DG!Launch, Subscribed
  <2>2. CASE ~DG!Connect
    <3>1. phase = "connecting"
      BY <1>1, <1>3, <2>2
         DEF DG!Next, DG!Caller, DG!ConnectReturns, DG!ConnectReady, DG!ConnectTimeout,
             DG!Broadcast, DG!Abandon, DG!Wait, DG!WaitReturns, DG!WaitReady,
             DG!WaitTimeout, DG!Cancel, DG!Deadline, DG!WaitForWG, DG!Channel,
             DG!OrderTx, DG!OrderOther, DG!PeerCommit, DG!ServeSeek, DG!Goroutine,
             DG!DialOk, DG!SendOk, DG!RecvBlock, DG!StreamError, DG!DialError,
             DG!SendError, DG!RecvError, DG!RecvOther, DG!setError, DG!Done,
             DG!caller, DG!vars, DG!Return
    <3>2. Subscribed(c)
      BY <1>1, <3>1 DEF Subscribing, Subscribed
    <3>3. ASSUME NEW d \in Client, DG!Goroutine(d)  PROVE Subscribed(c)'
      BY <1>1, <3>1, <3>2, <3>3, GoroutineSubscribes
    <3>4. \/ UNCHANGED <<pc, seek, conn, dgError>>
          \/ \E d \in Client : DG!Goroutine(d)
      BY <1>1, <1>3, <2>2, <3>1
         DEF DG!Next, DG!Caller, DG!ConnectReturns, DG!ConnectReady, DG!ConnectTimeout,
             DG!Broadcast, DG!Abandon, DG!Wait, DG!WaitReturns, DG!WaitReady,
             DG!WaitTimeout, DG!Cancel, DG!Deadline, DG!WaitForWG, DG!Channel,
             DG!OrderTx, DG!OrderOther, DG!PeerCommit, DG!ServeSeek,
             DG!vars, DG!threads, DG!streams, DG!group
    <3> QED
      BY <3>2, <3>3, <3>4 DEF Subscribed
  <2> QED
    BY <2>1, <2>2
<1>4. ASSUME phase' = "connected"  PROVE \A c \in Client : Both(c)'
  <2>1. CASE DG!ConnectReturns
    <3>1. \A c \in Client : Subscribed(c)
      BY <1>1, <2>1
         DEF DG!ConnectReturns, DG!ConnectReady, DG!ConnectTimeout, Subscribing, Subscribed
    <3> QED
      BY <1>1, <1>4, <2>1, <3>1, ConnectedIsSubscribed
  <2>2. CASE ~DG!ConnectReturns
    <3>1. phase = "connected"
      BY <1>1, <1>4, <2>2
         DEF DG!Next, DG!Caller, DG!Connect,
             DG!Broadcast, DG!Abandon, DG!Wait, DG!WaitReturns, DG!WaitReady,
             DG!WaitTimeout, DG!Cancel, DG!Deadline, DG!WaitForWG, DG!Channel,
             DG!OrderTx, DG!OrderOther, DG!PeerCommit, DG!ServeSeek, DG!Goroutine,
             DG!DialOk, DG!SendOk, DG!RecvBlock, DG!StreamError, DG!DialError,
             DG!SendError, DG!RecvError, DG!RecvOther, DG!setError, DG!Done,
             DG!caller, DG!vars, DG!Return
    <3> QED
      BY <1>1, <1>2, <3>1 DEF Subscribing
  <2> QED
    BY <2>1, <2>2
<1>5. SubscribedBeforeSend'
  <2> SUFFICES ASSUME orderer' # "none", timed'  PROVE \A c \in Client : Both(c)'
    BY DEF SubscribedBeforeSend
  <2>1. timed
    BY NextCases, GroupFrame, AnswerTells
       DEF Apart, Propose, ProposeFails, CallNext, Collect, createSignedTx,
           GetBroadcastClient, Send, AckSuccess, Reject, Accept, ConnectGroup,
           ConnectReturns, SendFails, AckFails, CloseOnError, WaitGroup, WaitReturns,
           own, vars, call
  <2>2. CASE orderer # "none"
    BY <1>1, <1>2, <2>1, <2>2 DEF Subscribing, SubscribedBeforeSend
  <2>3. CASE orderer = "none"
    <3>1. Send
      BY <2>3, NextCases, GroupFrame, AnswerTells
         DEF Apart, Propose, ProposeFails, CallNext, Collect, createSignedTx,
             GetBroadcastClient, AckSuccess, Reject, Accept, ConnectGroup,
             ConnectReturns, SendFails, AckFails, CloseOnError, WaitGroup, WaitReturns,
             own, vars, ordering
    <3>2. phase = "connected"
      BY <1>1, <2>1, <3>1 DEF Send, GroupUse
    <3> QED
      BY <1>1, <1>2, <3>2 DEF Subscribing
  <2> QED
    BY <2>2, <2>3
<1> QED
  BY <1>3, <1>4, <1>5 DEF Subscribing, Subscribed

LEMMA NextInv == Inv /\ [Next]_vars => Inv'
<1> SUFFICES ASSUME Inv, [Next]_vars PROVE Inv'
  OBVIOUS
<1>1. Proved!IInv' /\ TypeOK' /\ Gathering' /\ Telling'
  BY GroupTypes, TypeStep, GatheringStep, TellingStep
<1>2. GroupUse' /\ Subscribing' /\ Closing'
  BY GroupUseStep, SubscribingStep, ClosingStep
<1> QED
  BY <1>1, <1>2 DEF Inv, CallInv

-----------------------------------------------------------------------------
(* Theorems. *)

(* The inductive invariant holds of every call and its group.              *)
THEOREM Invariance == Spec => []Inv
<1> QED
  BY InitInv, NextInv, PTL DEF Spec

(* Whatever the endorsers, the group and the orderer do: types hold, no    *)
(* envelope is sent before every deliver client is subscribed, and the     *)
(* broadcast stream outlives the call only where Connect failed.           *)
THEOREM CallCorrect == Spec => []CallInv
<1>1. Inv => CallInv
  BY DEF Inv
<1> QED
  BY <1>1, Invariance, PTL

(* Nothing reaches the orderer that not every endorser answered alike and  *)
(* with success.                                                           *)
THEOREM SentEndorsed == Spec => []SentIsEndorsed
<1>1. Inv => SentIsEndorsed
  <2>1. Endorsed =>
          /\ op \in Writes /\ asked # {}
          /\ {resps[n].peer : n \in 1..Len(resps)} = asked
          /\ \A m, n \in 1..Len(resps) :
               /\ resps[n].status \in 200..399 /\ resps[n].payload = resps[m].payload
               /\ op # "Invoke" => resps[n].status = SUCCESS
    BY DEF Endorsed, Responded, Succeeded
  <2> QED
    BY <2>1 DEF Inv, CallInv, Gathering, SentIsEndorsed
<1> QED
  BY <1>1, Invariance, PTL

(* A nil error of a writing call is true of the orderer and, with a        *)
(* timeout, of every peer: from Telling, and what is proved of the group.  *)
THEOREM NilErrorTrue == Spec => []NilErrorIsTrue
<1>1. Inv => NilErrorIsTrue
  <2> SUFFICES ASSUME Inv, out = "nil", op \in Writes
               PROVE  IF resps[1].status >= ERRORTHRESHOLD THEN orderer = "none"
                      ELSE /\ orderer = "accepted"
                           /\ timed => \A c \in Client : DG!HasTx(c) /\ txValid
    BY DEF NilErrorIsTrue
  <2>1. IF resps[1].status >= ERRORTHRESHOLD THEN orderer = "none"
        ELSE orderer = "accepted" /\ (timed => ret = "ok")
    BY DEF Inv, CallInv, Telling
  <2>2. ret = "ok" => \A c \in Client : DG!HasTx(c) /\ txValid
    BY DEF Inv, Proved!IInv, Proved!OkMeansCommitted, Proved!HasTx, DG!HasTx
  <2> QED
    BY <2>1, <2>2
<1> QED
  BY <1>1, Invariance, PTL

(* Every step of a call is a step the group allows its caller, or none.    *)
THEOREM GroupUsed == Spec => ImplementsDeliverGroup
<1>1. Init => DG!Init
  BY DEF Init
<1>2. Inv /\ [Next]_vars => [DG!Next]_(DG!vars)
  BY GroupStep DEF Inv
<1> QED
  BY <1>1, <1>2, Invariance, PTL DEF Spec, ImplementsDeliverGroup, DG!Spec
=============================================================================
