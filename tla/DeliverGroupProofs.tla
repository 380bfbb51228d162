-------------------------- MODULE DeliverGroupProofs --------------------------
(***************************************************************************)
(* Proofs about DeliverGroup, for any finite set of clients, any bound on  *)
(* the chain and any set of faults.                                        *)
(***************************************************************************)
EXTENDS DeliverGroup, FiniteSetTheorems, TLAPS

(* Live is a finite set, and its size is the number Launch adds when every *)
(* client has a goroutine.                                                 *)
LEMMA LiveFinite ==
  /\ IsFiniteSet(Live) /\ Cardinality(Live) \in Nat
  /\ IsFiniteSet(Client) /\ Cardinality(Client) \in Nat
<1>1. Live \subseteq Client
  BY DEF Live
<1>2. QED
  BY <1>1, ClientAssumption, FS_Subset, FS_CardinalityType

(* The initial state satisfies the invariant. *)
LEMMA InitIInv == Init => IInv
<1> SUFFICES ASSUME Init PROVE IInv
  OBVIOUS
<1> USE DEF Init
<1>1. Live = {}
  BY DEF Live
<1>2. TypeOK
  <2>1. top \in 1..MaxBlock /\ txAt \in 0..top /\ height \in [Client -> 1..top]
    BY MaxBlockAssumption
  <2>2. QED
    BY <2>1 DEF TypeOK, Phases, Results, Causes
<1>3. WgCounts
  BY <1>1, FS_EmptySet DEF WgCounts
<1>4. QuiescentInv /\ PhaseInv /\ WorkDone /\ ConnInv /\ CauseInv
  BY <1>1 DEF QuiescentInv, PhaseInv, WorkDone, ConnInv, CauseInv
<1>5. OkMeansCommitted /\ InvalidIsReal
  BY DEF OkMeansCommitted, InvalidIsReal
<1>6. QED
  BY <1>2, <1>3, <1>4, <1>5 DEF IInv

(* Every step keeps the count of live goroutines: a launch starts one for  *)
(* each client when there are none, Done ends one, no other step does.     *)
LEMMA CountStep ==
  ASSUME TypeOK, WgCounts, PhaseInv, Next
  PROVE  wg' \in Nat /\ WgCounts'
<1> USE DEF WgCounts
<1>1. ASSUME Connect \/ (Wait /\ Client # {})
      PROVE  wg' \in Nat /\ wg' = Cardinality(Live')
  <2>1. Live = {} /\ wg = 0
    BY <1>1, FS_EmptySet DEF PhaseInv, Connect, Wait
  <2>2. Live' = Client
    BY <1>1 DEF Live, Connect, Wait, Launch
  <2>3. wg' = wg + Cardinality(Client)
    BY <1>1 DEF Connect, Wait, Launch
  <2>4. QED
    BY <2>1, <2>2, <2>3, LiveFinite
<1>2. ASSUME NEW c \in Client, Done(c)
      PROVE  wg' \in Nat /\ wg' = Cardinality(Live')
  <2>1. c \in Live /\ Live' = Live \ {c} /\ wg' = wg - 1
    BY <1>2 DEF Live, Done, Goto, TypeOK
  <2>2. Cardinality(Live \ {c}) = Cardinality(Live) - 1 /\ IsFiniteSet(Live \ {c})
    BY <2>1, LiveFinite, FS_RemoveElement
  <2>3. Cardinality(Live \ {c}) \in Nat
    BY <2>2, FS_CardinalityType
  <2>4. QED
    BY <2>1, <2>2, <2>3
<1>3. ASSUME wg' = wg, Live' = Live
      PROVE  wg' \in Nat /\ wg' = Cardinality(Live')
  BY <1>3 DEF TypeOK
<1>4. ASSUME NEW c \in Client,
             \/ DialOk(c) \/ SendOk(c) \/ RecvBlock(c)
             \/ StreamError(c) \/ RecvOther(c) \/ setError(c)
      PROVE  wg' = wg /\ Live' = Live
  BY <1>4 DEF DialOk, SendOk, RecvBlock, Inspect, StreamError, DialError, SendError,
    RecvError, RecvOther, setError, Goto, Fail, Live, TypeOK, group
<1>5. ASSUME \/ ConnectReturns \/ Broadcast \/ Abandon \/ WaitReturns \/ Cancel
             \/ Deadline \/ WaitForWG \/ Channel \/ (Wait /\ Client = {})
      PROVE  wg' = wg /\ Live' = Live
  BY <1>5 DEF ConnectReturns, ConnectReady, ConnectTimeout, Broadcast, Abandon,
    WaitReturns, WaitReady, WaitTimeout, Cancel, Deadline, WaitForWG, Channel,
    OrderTx, OrderOther, PeerCommit, ServeSeek, Wait, Live, group, threads
<1>6. QED
  BY <1>1, <1>2, <1>3, <1>4, <1>5 DEF Next, Caller, Goroutine

(* Every step keeps the types. *)
LEMMA TypeStep ==
  ASSUME TypeOK, WgCounts, PhaseInv, Next
  PROVE  TypeOK'
<1> USE DEF caller, group, threads, streams, chain, Return, Launch, Goto, Fail
<1>1. wg' \in Nat
  BY CountStep
<1>2. ASSUME Caller \/ Deadline \/ WaitForWG  PROVE TypeOK'
  <2>1. CASE Connect \/ Wait
    <3>1. phase' \in Phases /\ ret' \in Results /\ ready' \in {"none", "open", "closed"}
      BY <2>1 DEF TypeOK, Phases, Results, Connect, Wait
    <3>2. pc' \in [Client -> {"idle", "dial", "send", "recv", "fail", "exit"}]
      BY <2>1 DEF TypeOK, Connect, Wait
    <3>3. QED
      BY <1>1, <2>1, <3>1, <3>2 DEF TypeOK, Connect, Wait
  <2>2. CASE ConnectReturns \/ WaitReturns \/ Abandon
    <3>1. phase' \in Phases /\ ret' \in Results
      BY <2>2 DEF TypeOK, Phases, Results, ConnectReturns, ConnectReady,
        ConnectTimeout, WaitReturns, WaitReady, WaitTimeout, Abandon
    <3>2. UNCHANGED <<ctx, group, threads, streams, sent, chain>>
      BY <2>2 DEF ConnectReturns, ConnectReady,
        ConnectTimeout, WaitReturns, WaitReady, WaitTimeout, Abandon
    <3>3. QED
      BY <3>1, <3>2 DEF TypeOK
  <2>3. CASE Broadcast \/ Cancel \/ Deadline \/ WaitForWG
    BY <2>3 DEF TypeOK, Phases, Broadcast, Cancel, Deadline, WaitForWG
  <2>4. QED
    BY <1>2, <2>1, <2>2, <2>3 DEF Caller
<1>3. ASSUME NEW c \in Client, DialOk(c) \/ SendOk(c) \/ Done(c)
      PROVE  TypeOK'
  BY <1>1, <1>3 DEF TypeOK, DialOk, SendOk, Done
<1>4. ASSUME NEW c \in Client, StreamError(c) \/ RecvOther(c)
      PROVE  TypeOK'
  <2>1. PICK why \in Causes : Fail(c, why)
    BY <1>4 DEF StreamError, DialError, SendError, RecvError, RecvOther, Causes
  <2>2. UNCHANGED <<caller, group, conn, streams, sent, chain>>
    BY <1>4 DEF StreamError, DialError, SendError, RecvError, RecvOther
  <2>3. QED
    BY <2>1, <2>2 DEF TypeOK
<1>5. ASSUME NEW c \in Client, RecvBlock(c)  PROVE TypeOK'
  <2>1. pc' \in [Client -> {"idle", "dial", "send", "recv", "fail", "exit"}]
    BY <1>5 DEF RecvBlock, Inspect, TypeOK
  <2>2. cause' \in [Client -> Causes] /\ feed' \in [Client -> Nat]
    BY <1>5 DEF RecvBlock, Inspect, TypeOK, Causes
  <2>3. QED
    BY <1>5, <2>1, <2>2 DEF RecvBlock, TypeOK
<1>6. ASSUME NEW c \in Client, setError(c)  PROVE TypeOK'
  <2>1. dgError' \in Errors
    BY <1>6 DEF setError, TypeOK, Errors
  <2>2. QED
    BY <1>6, <2>1 DEF setError, TypeOK
<1>7. ASSUME Channel  PROVE TypeOK'
  <2>1. CASE OrderTx \/ OrderOther
    <3>1. top' \in 1..MaxBlock /\ txAt' \in 0..top' /\ height' \in [Client -> 1..top']
      BY <2>1, MaxBlockAssumption DEF TypeOK, OrderTx, OrderOther, Grow
    <3>2. QED
      BY <2>1, <3>1 DEF TypeOK, OrderTx, OrderOther
  <2>2. ASSUME NEW c \in Client, PeerCommit(c) \/ ServeSeek(c)  PROVE TypeOK'
    <3>1. height' \in [Client -> 1..top] /\ top' = top /\ feed' \in [Client -> Nat]
      BY <2>2, MaxBlockAssumption DEF TypeOK, PeerCommit, ServeSeek, SeekStart
    <3>2. QED
      BY <2>2, <3>1 DEF TypeOK, PeerCommit, ServeSeek
  <2>3. QED
    BY <1>7, <2>1, <2>2 DEF Channel
<1>8. QED
  BY <1>2, <1>3, <1>4, <1>5, <1>6, <1>7 DEF Next, Goroutine

(* A drained WaitGroup means there is no goroutine left. *)
LEMMA DrainedIsIdle ==
  ASSUME TypeOK, WgCounts, wg = 0
  PROVE  \A c \in Client : pc[c] = "idle"
<1>1. Live = {}
  BY LiveFinite, FS_EmptySet DEF WgCounts
<1>2. QED
  BY <1>1 DEF Live

(* What a peer has committed stays committed, with the same verdict. *)
LEMMA LedgerStep ==
  ASSUME TypeOK, Next
  PROVE  \A c \in Client : HasTx(c) => HasTx(c)' /\ txValid' = txValid
<1> SUFFICES ASSUME NEW c \in Client, HasTx(c)
             PROVE  HasTx(c)' /\ txValid' = txValid
  OBVIOUS
<1>1. CASE UNCHANGED chain
  BY <1>1 DEF HasTx, chain
<1>2. CASE OrderTx \/ OrderOther
  BY <1>2 DEF HasTx, OrderTx, OrderOther
<1>3. ASSUME NEW d \in Client, PeerCommit(d)
      PROVE  HasTx(c)' /\ txValid' = txValid
  BY <1>3 DEF HasTx, PeerCommit, TypeOK
<1>4. QED
  BY <1>1, <1>2, <1>3 DEF Next, Caller, Channel, Goroutine, StreamError,
    ConnectReturns, WaitReturns, Connect, ConnectReady, ConnectTimeout,
    Broadcast, Abandon, Wait, WaitReady, WaitTimeout, Cancel, Deadline,
    WaitForWG, ServeSeek, DialOk, DialError, SendOk, SendError, RecvBlock,
    RecvError, RecvOther, setError, Done

(* Only setError writes Error, and it writes an error. *)
LEMMA ErrorStep ==
  ASSUME TypeOK, Next, dgError # NoError
  PROVE  dgError' # NoError
<1>1. ASSUME NEW c \in Client, setError(c)  PROVE dgError' # NoError
  BY <1>1, NoErrorAssumption DEF setError, TypeOK, Errors
<1>2. CASE dgError' = dgError
  BY <1>2
<1>3. QED
  BY <1>1, <1>2 DEF Next, Caller, Channel, Goroutine, StreamError,
    ConnectReturns, WaitReturns, Connect, ConnectReady, ConnectTimeout,
    Broadcast, Abandon, Wait, WaitReady, WaitTimeout, Cancel, Deadline,
    WaitForWG, OrderTx, OrderOther, PeerCommit, ServeSeek, DialOk, DialError,
    SendOk, SendError, RecvBlock, RecvError, RecvOther, Done, group

(* The parts of the invariant that are not types or counting. *)
Parts == /\ QuiescentInv /\ PhaseInv /\ WorkDone /\ ConnInv /\ CauseInv
         /\ OkMeansCommitted /\ InvalidIsReal

(* The steps of the calling goroutine keep the parts of the invariant. *)
LEMMA CallerStep ==
  ASSUME IInv, Caller \/ Deadline \/ WaitForWG
  PROVE  Parts'
<1> USE DEF IInv, Parts, caller, group, threads, streams, chain, Return, Launch,
            HasTx, TypeOK, QuiescentInv, PhaseInv, WorkDone, ConnInv, CauseInv,
            OkMeansCommitted, InvalidIsReal, Finished, Live
<1>1. CASE Connect
  BY <1>1 DEF Connect
<1>2. CASE ConnectReady
  <2>1. \A c \in Client : pc[c] = "idle"
    BY <1>2, DrainedIsIdle DEF ConnectReady
  <2>2. QED
    BY <1>2, <2>1 DEF ConnectReady
<1>3. CASE ConnectTimeout \/ WaitTimeout \/ Abandon
  BY <1>3 DEF ConnectTimeout, WaitTimeout, Abandon
<1>4. CASE Wait
  BY <1>4 DEF Wait
<1>5. CASE WaitReady
  <2>1. \A c \in Client : pc[c] = "idle"
    BY <1>5, DrainedIsIdle DEF WaitReady
  <2>2. QED
    BY <1>5, <2>1 DEF WaitReady
<1>6. CASE Broadcast \/ Cancel \/ Deadline \/ WaitForWG
  BY <1>6 DEF Broadcast, Cancel, Deadline, WaitForWG
<1>7. QED
  BY <1>1, <1>2, <1>3, <1>4, <1>5, <1>6 DEF Caller, ConnectReturns, WaitReturns

(* So do the steps of the group's goroutines. *)
LEMMA GoroutineStep ==
  ASSUME IInv, NEW c \in Client, Goroutine(c)
  PROVE  Parts'
<1> USE DEF IInv, Parts, caller, group, threads, streams, chain, Goto, Fail,
            HasTx, TypeOK, QuiescentInv, PhaseInv, WorkDone, ConnInv, CauseInv,
            OkMeansCommitted, InvalidIsReal, Finished, Live
<1>1. CASE DialOk(c) \/ SendOk(c)
  BY <1>1 DEF DialOk, SendOk
<1>2. CASE RecvBlock(c)
  BY <1>2 DEF RecvBlock, Inspect
<1>3. CASE StreamError(c) \/ RecvOther(c)
  BY <1>3 DEF StreamError, DialError, SendError, RecvError, RecvOther
<1>4. CASE setError(c)
  <2>1. dgError' # NoError
    <3>1. dgError' = [client |-> c, cause |-> cause[c]] /\ cause[c] \in Causes
      BY <1>4 DEF setError
    <3>2. QED
      BY <3>1, NoErrorAssumption DEF Errors
  <2>2. InvalidIsReal'
    <3>1. dgError'.client = c /\ dgError'.cause = cause[c]
      BY <1>4 DEF setError
    <3>2. HasTx(c)' = HasTx(c) /\ txValid' = txValid
      BY <1>4 DEF setError
    <3>3. cause[c] = "invalid" => HasTx(c) /\ ~txValid
      BY <1>4 DEF setError
    <3>4. QED
      BY <3>1, <3>2, <3>3 DEF InvalidIsReal
  <2>3. QuiescentInv' /\ PhaseInv' /\ ConnInv' /\ CauseInv' /\ OkMeansCommitted'
    BY <1>4 DEF setError
  <2>4. WorkDone'
    BY <1>4, <2>1 DEF setError
  <2>5. QED
    BY <2>2, <2>3, <2>4
<1>5. CASE Done(c)
  <2>1. ready # "closed"
    BY <1>5, DrainedIsIdle DEF Done
  <2>2. QED
    BY <1>5, <2>1 DEF Done
<1>6. QED
  BY <1>1, <1>2, <1>3, <1>4, <1>5 DEF Goroutine

(* And the steps of the channel. *)
LEMMA ChannelStep ==
  ASSUME IInv, Channel
  PROVE  Parts'
<1>1. \A c \in Client : HasTx(c) => HasTx(c)' /\ txValid' = txValid
  BY LedgerStep DEF IInv, Next
<1>2. UNCHANGED <<caller, group, threads>>
  BY DEF Channel, OrderTx, OrderOther, PeerCommit, ServeSeek
<1>3. InvalidIsReal'
  <2>1. dgError # NoError => dgError.client \in Client
    BY DEF IInv, TypeOK, Errors
  <2>2. dgError' = dgError
    BY <1>2 DEF group
  <2>3. QED
    BY <1>1, <2>1, <2>2 DEF IInv, InvalidIsReal
<1>4. QuiescentInv' /\ PhaseInv' /\ ConnInv'
  BY <1>2 DEF IInv, caller, group, threads, QuiescentInv, PhaseInv, ConnInv, Live
<1>5. WorkDone' /\ CauseInv' /\ OkMeansCommitted'
  BY <1>1, <1>2 DEF IInv, caller, group, threads, WorkDone, CauseInv,
    OkMeansCommitted, Finished
<1>6. QED
  BY <1>3, <1>4, <1>5 DEF Parts

(* A step of the specification, or a stuttering one, keeps the invariant. *)
LEMMA NextIInv == IInv /\ [Next]_vars => IInv'
<1> SUFFICES ASSUME IInv, [Next]_vars PROVE IInv'
  OBVIOUS
<1>1. CASE Next
  <2>1. TypeOK' /\ WgCounts'
    BY <1>1, CountStep, TypeStep DEF IInv
  <2>2. Parts'
    BY <1>1, CallerStep, GoroutineStep, ChannelStep DEF Next
  <2>3. QED
    BY <2>1, <2>2 DEF IInv, Parts
<1>2. CASE UNCHANGED vars
  BY <1>2 DEF IInv, vars, caller, group, threads, streams, chain, TypeOK,
    WgCounts, QuiescentInv, PhaseInv, WorkDone, ConnInv, CauseInv, Finished,
    OkMeansCommitted, InvalidIsReal, HasTx, Live
<1>3. QED
  BY <1>1, <1>2

(* The inductive invariant holds in every reachable state: among others,   *)
(* the WaitGroup counts exactly the goroutines of Connect and Wait.        *)
THEOREM Invariance == Spec => []IInv
<1>1. QED
  BY InitIInv, NextIInv, PTL DEF Spec

(* Type correctness of the group, its goroutines and the channel. *)
THEOREM TypeCorrect == Spec => []TypeOK
<1>1. IInv => TypeOK
  BY DEF IInv
<1>2. QED
  BY <1>1, Invariance, PTL

(* Wait returns nil only if every peer committed the transaction VALID. *)
THEOREM OkIsCommitted == Spec => []OkMeansCommitted
<1>1. IInv => OkMeansCommitted
  BY DEF IInv
<1>2. QED
  BY <1>1, Invariance, PTL

(* The unlocked read of dg.Error in Connect and Wait races with nobody. *)
THEOREM ErrorReadIsRaceFree == Spec => []ErrorReadQuiescent
<1>1. IInv => ErrorReadQuiescent
  BY DrainedIsIdle DEF IInv, QuiescentInv, ErrorReadQuiescent
<1>2. QED
  BY <1>1, Invariance, PTL

(* ClientWait never calls Recv on a nil Connection. *)
THEOREM ConnectionIsSet == Spec => []NoNilConnection
<1>1. IInv => NoNilConnection
  BY DEF IInv, ConnInv, NoNilConnection
<1>2. QED
  BY <1>1, Invariance, PTL

(* An "invalidated" error is the verdict on the ledger of its peer. *)
THEOREM InvalidIsOnLedger == Spec => []InvalidIsReal
<1>1. IInv => InvalidIsReal
  BY DEF IInv
<1>2. QED
  BY <1>1, Invariance, PTL

(* An error of any client is final: the call is never told ok after it. *)
THEOREM ErrorFinal == Spec => ErrorIsFinal
<1> DEFINE Keeps == dgError # NoError => dgError' # NoError /\ (ret' = "ok" => ret = "ok")
<1>1. IInv /\ [Next]_vars => [Keeps]_vars
  <2> SUFFICES ASSUME IInv, Next, dgError # NoError
               PROVE  dgError' # NoError /\ (ret' = "ok" => ret = "ok")
    OBVIOUS
  <2>1. dgError' # NoError
    BY ErrorStep DEF IInv
  <2>2. ret' = "ok" => ret = "ok"
    BY DEF IInv, PhaseInv, Next, Caller, Channel, Goroutine, StreamError,
      ConnectReturns, WaitReturns, Connect, ConnectReady, ConnectTimeout,
      Broadcast, Abandon, Wait, WaitReady, WaitTimeout, Cancel, Deadline,
      WaitForWG, OrderTx, OrderOther, PeerCommit, ServeSeek, DialOk, DialError,
      SendOk, SendError, RecvBlock, RecvError, RecvOther, setError, Done,
      Return, caller
  <2>3. QED
    BY <2>1, <2>2
<1>2. QED
  BY <1>1, Invariance, PTL DEF Spec, ErrorIsFinal

(* Connect and Wait obey the contract of the WaitGroup they share: Add is  *)
(* called on a drained counter that no goroutine is waiting on.            *)
THEOREM WaitGroupReuse == Spec => WaitGroupContract
<1> DEFINE Keeps == wg' > wg => wg = 0 /\ ready # "open"
<1>1. IInv /\ [Next]_vars => [Keeps]_vars
  <2> SUFFICES ASSUME IInv, Next, wg' > wg
               PROVE  wg = 0 /\ ready # "open"
    OBVIOUS
  <2>1. Connect \/ Wait
    BY DEF IInv, TypeOK, Next, Caller, Channel, Goroutine, StreamError,
      ConnectReturns, WaitReturns, ConnectReady, ConnectTimeout,
      Broadcast, Abandon, WaitReady, WaitTimeout, Cancel, Deadline,
      WaitForWG, OrderTx, OrderOther, PeerCommit, ServeSeek, DialOk, DialError,
      SendOk, SendError, RecvBlock, RecvError, RecvOther, setError, Done, group
  <2>2. wg = 0
    BY <2>1, FS_EmptySet DEF IInv, PhaseInv, WgCounts, Connect, Wait
  <2>3. QED
    BY <2>1, <2>2 DEF IInv, PhaseInv, Connect, Wait
<1>2. QED
  BY <1>1, Invariance, PTL DEF Spec, WaitGroupContract

(* A step that leaves the chain alone leaves the abstract ledger alone, and *)
(* one that leaves the result alone leaves the abstract outcome alone.     *)
LEMMA LedgerUnchanged == UNCHANGED chain => Ledger' = Ledger
  BY DEF Ledger, HasTx, chain

LEMMA OutcomeUnchanged == UNCHANGED ret => Outcome' = Outcome
  BY DEF Outcome

(* A call that returns is one abstract answer. *)
LEMMA ReturnRefines ==
  ASSUME IInv, IInv', UNCHANGED chain, ret = "none", ret' # "none"
  PROVE  Abstract!Succeed \/ Abstract!GiveUp
<1>1. Ledger' = Ledger /\ Outcome = "pending"
  BY LedgerUnchanged DEF Outcome
<1>2. CASE ret' = "ok"
  <2>1. \A c \in Client : HasTx(c) /\ txValid
    BY <1>2 DEF IInv, OkMeansCommitted, HasTx, chain
  <2>2. \A c \in Client : Ledger[c] = "valid"
    BY <2>1 DEF Ledger
  <2>3. Outcome' = "ok"
    BY <1>2 DEF Outcome
  <2>4. QED
    BY <1>1, <2>2, <2>3 DEF Abstract!Succeed
<1>3. CASE ret' # "ok"
  <2>1. Outcome' = "failed"
    BY <1>3 DEF Outcome
  <2>2. QED
    BY <1>1, <2>1 DEF Abstract!GiveUp
<1>4. QED
  BY <1>2, <1>3

(* The peer that commits the transaction's block commits it abstractly. *)
LEMMA PeerCommitRefines ==
  ASSUME TypeOK, NEW c \in Client, PeerCommit(c)
  PROVE  Ledger' = Ledger \/ \E v \in {"valid", "invalid"} : Abstract!Commit(c, v)
<1> DEFINE v == IF txValid THEN "valid" ELSE "invalid"
<1>1. \A d \in Client : d # c => HasTx(d)' = HasTx(d)
  BY DEF PeerCommit, HasTx, TypeOK
<1>2. txValid' = txValid /\ Outcome' = Outcome
  BY DEF PeerCommit, Outcome, caller
<1>3. CASE HasTx(c)' = HasTx(c)
  <2>1. \A d \in Client : HasTx(d)' = HasTx(d)
    BY <1>1, <1>3
  <2>2. QED
    BY <1>2, <2>1 DEF Ledger
<1>4. CASE HasTx(c)' # HasTx(c)
  <2>1. ~HasTx(c) /\ HasTx(c)'
    BY <1>4 DEF PeerCommit, HasTx, TypeOK
  <2>2. Ledger[c] = "absent" /\ \A d \in Client : Ledger[d] \in {"absent", v}
    BY <2>1 DEF Ledger
  <2>3. Ledger' = [Ledger EXCEPT ![c] = v]
    BY <1>1, <1>2, <2>1 DEF Ledger
  <2>4. QED
    BY <1>2, <2>2, <2>3 DEF Abstract!Commit
<1>5. QED
  BY <1>3, <1>4

(* Ordering a block reaches no ledger: peers commit it later. *)
LEMMA OrderRefines ==
  ASSUME TypeOK, OrderTx \/ OrderOther
  PROVE  Ledger' = Ledger /\ Outcome' = Outcome
<1>1. Outcome' = Outcome
  BY DEF OrderTx, OrderOther, Outcome, caller
<1>2. CASE OrderOther
  BY <1>1, <1>2 DEF OrderOther, Ledger, HasTx
<1>3. CASE OrderTx
  <2>1. \A c \in Client : ~HasTx(c)
    BY <1>3 DEF OrderTx, HasTx
  <2>2. top \in Nat /\ \A c \in Client : height[c] \in 1..top
    BY MaxBlockAssumption DEF TypeOK
  <2>3. \A c \in Client : ~HasTx(c)'
    BY <1>3, <2>2 DEF OrderTx, Grow, HasTx
  <2>4. QED
    BY <1>1, <2>1, <2>3 DEF Ledger
<1>4. QED
  BY <1>2, <1>3

(* The group implements TxCommit: every step of the goroutines is a commit *)
(* of one peer, the one answer to the caller, or invisible.                *)
THEOREM Refinement == Spec => ImplementsTxCommit
<1>1. Init => Abstract!Init
  BY DEF Init, Abstract!Init, Ledger, Outcome, HasTx
<1>2. IInv /\ IInv' /\ [Next]_vars => [Abstract!Next]_<<Ledger, Outcome>>
  <2> SUFFICES ASSUME IInv, IInv', [Next]_vars
               PROVE  Abstract!Next \/ (Ledger' = Ledger /\ Outcome' = Outcome)
    OBVIOUS
  <2>1. CASE ConnectReturns \/ WaitReturns \/ Abandon \/ Wait
    <3>1. UNCHANGED chain /\ ret = "none"
      BY <2>1 DEF IInv, PhaseInv, ConnectReturns, ConnectReady, ConnectTimeout,
        WaitReturns, WaitReady, WaitTimeout, Abandon, Wait
    <3>2. QED
      BY <3>1, ReturnRefines, LedgerUnchanged, OutcomeUnchanged DEF Abstract!Next
  <2>2. ASSUME NEW c \in Client, PeerCommit(c)
        PROVE  Abstract!Next \/ (Ledger' = Ledger /\ Outcome' = Outcome)
    <3>1. Outcome' = Outcome
      BY <2>2 DEF PeerCommit, Outcome, caller
    <3>2. QED
      BY <2>2, <3>1, PeerCommitRefines DEF Abstract!Next, IInv
  <2>3. CASE OrderTx \/ OrderOther
    BY <2>3, OrderRefines DEF IInv
  <2>4. CASE UNCHANGED <<chain, ret>>
    BY <2>4, LedgerUnchanged, OutcomeUnchanged
  <2>5. QED
    BY <2>1, <2>2, <2>3, <2>4 DEF Next, Caller, Channel, Goroutine, StreamError,
      Connect, Broadcast, Cancel, Deadline, WaitForWG, ServeSeek, DialOk,
      DialError, SendOk, SendError, RecvBlock, RecvError, RecvOther, setError,
      Done, vars, caller
<1>3. QED
  BY <1>1, <1>2, Invariance, PTL DEF Spec, ImplementsTxCommit, Abstract!Spec

=============================================================================
