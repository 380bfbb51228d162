------------------------------ MODULE ChaincodeTx ------------------------------
(***************************************************************************)
(* internal/chaincode: one call of Invoke, Query, SendTransaction, Approve *)
(* or Commit.  The proposal goes to the endorsers, in parallel             *)
(* (processProposal), one after the other (Commit) or to the committer     *)
(* alone (Approve); their responses are assembled into a signed envelope   *)
(* (createSignedTx); broadcastProposalEnvelope sends it to the orderer     *)
(* and, with a timeout, waits in a DeliverGroup for the commit.            *)
(*                                                                         *)
(* The group is the module DeliverGroup; its variables are shared, and the *)
(* steps of its caller are taken here at the places the code calls it.     *)
(***************************************************************************)
EXTENDS Integers, Sequences, FiniteSets

CONSTANTS
  Client, MaxBlock, Faults, NoError,   \* see DeliverGroup
  Endorser,      \* the peers that may be asked to endorse
  Committer,     \* the peer Approve asks
  Status,        \* status codes a response may carry
  NilResponse,   \* the status of a ProposalResponse whose Response is nil
  Payload,       \* the response payloads endorsers may produce
  Timed,         \* the calls made with a timeout: TRUE, FALSE or both
  Ops            \* the operations called

ASSUME EndorserAssumption == IsFiniteSet(Endorser)
ASSUME CommitterAssumption == Committer \in Endorser
ASSUME StatusAssumption == Status \subseteq Int /\ NilResponse \notin Int
ASSUME TimedAssumption == Timed \subseteq BOOLEAN
ASSUME OpsAssumption ==
  Ops \subseteq {"Invoke", "Query", "SendTransaction", "Approve", "Commit"}

SUCCESS == 200
ERRORTHRESHOLD == 400   \* shim.ERRORTHRESHOLD

VARIABLES
  op, timed,   \* the operation, and whether its timeout is positive
  asked,       \* the endorsers of the call: cf.Endorsers, or {cf.Committer}
  stage,       \* how far the call got
  ep,          \* per endorser: its ProcessProposal is "idle", "calling", "done"
  errs,        \* how many errors were sent to errorCh
  resps,       \* responses in order of arrival: responsesCh, then the slice
  bc,          \* the broadcast stream: "none", "open" or "closed"
  orderer,     \* the envelope is with the orderer: "none" (not sent), "wire",
               \* "accepted" or "rejected"
  out,         \* the error returned: "pending", "nil", "error" or "panic"
  phase, ret, ctx, wg, ready, dgError, pc, cause, conn, seek, feed, sent,
  top, txAt, txValid, height     \* the DeliverGroup and the channel

DG == INSTANCE DeliverGroup

(* What DeliverGroup assumes of its constants. *)
ASSUME GroupAssumption ==
  IsFiniteSet(Client) /\ MaxBlock \in Nat \ {0} /\ NoError \notin DG!Errors

endorsing == <<ep, errs, resps>>
ordering  == <<bc, orderer>>
call      == <<op, timed, asked>>
groupVars == <<phase, ret, ctx, wg, ready, dgError, pc, cause, conn, seek, feed,
               sent, top, txAt, txValid, height>>
own       == <<call, stage, endorsing, ordering, out>>
vars      == <<own, groupVars>>

Concurrent == {"Invoke", "Query", "SendTransaction"}
Writes     == {"Invoke", "Approve", "Commit"}
Stages     == {"propose", "endorse", "sign", "dial", "connect", "send", "ack", "wait", "done"}
Response   == [peer : Endorser, status : Status \cup {NilResponse}, payload : Payload]

TypeOK ==
  /\ op \in Ops /\ timed \in Timed /\ asked \subseteq Endorser
  /\ stage \in Stages
  /\ ep \in [Endorser -> {"idle", "calling", "done"}]
  /\ errs \in 0..Cardinality(Endorser) /\ resps \in Seq(Response)
  /\ bc \in {"none", "open", "closed"}
  /\ orderer \in {"none", "wire", "accepted", "rejected"}
  /\ out \in {"pending", "nil", "error", "panic"}
  /\ DG!TypeOK

Init ==
  /\ op \in Ops /\ timed \in Timed
  /\ asked \in IF op = "Approve" THEN {{Committer}} ELSE SUBSET Endorser
  /\ stage = "propose"
  /\ ep = [e \in Endorser |-> "idle"]
  /\ errs = 0 /\ resps = <<>>
  /\ bc = "none" /\ orderer = "none" /\ out = "pending"
  /\ DG!Init

Return(err) == stage' = "done" /\ out' = err
Proceed(next) == stage' = next /\ UNCHANGED out

-----------------------------------------------------------------------------
(* Endorsement. *)

(* The proposal is created and signed; processProposal then starts all its *)
(* goroutines before it waits for any.                                     *)
Propose ==
  /\ stage = "propose"
  /\ Proceed("endorse")
  /\ ep' = [e \in Endorser |->
              IF op \in Concurrent /\ e \in asked THEN "calling" ELSE "idle"]
  /\ UNCHANGED <<call, errs, resps, ordering, groupVars>>

ProposeFails ==
  /\ stage = "propose" /\ "sign" \in Faults
  /\ Return("error")
  /\ UNCHANGED <<call, endorsing, ordering, groupVars>>

(* Approve's one call, and the next iteration of Commit's loop.  The order *)
(* of cf.Endorsers is arbitrary.                                           *)
CallNext(e) ==
  /\ stage = "endorse" /\ op \notin Concurrent
  /\ e \in asked /\ ep[e] = "idle"
  /\ \A d \in asked : ep[d] # "calling"
  /\ ep' = [ep EXCEPT ![e] = "calling"]
  /\ UNCHANGED <<call, stage, errs, resps, ordering, out, groupVars>>

Answered(e) == ep[e] = "calling" /\ ep' = [ep EXCEPT ![e] = "done"]

(* Mutant: unbuffered channels. *)
Unbuffered == 0

(* responsesCh and errorCh each have room for every goroutine, so that     *)
(* none blocks although nobody reads before wg.Wait returns.               *)
Room == Cardinality(asked)

GoroutineResponse(e, r) ==
  /\ stage = "endorse" /\ op \in Concurrent /\ Answered(e)
  /\ Len(resps) < Room
  /\ resps' = Append(resps, r)
  /\ UNCHANGED <<call, stage, errs, ordering, out, groupVars>>

GoroutineError(e) ==
  /\ "endorse" \in Faults
  /\ stage = "endorse" /\ op \in Concurrent /\ Answered(e)
  /\ errs < Room
  /\ errs' = errs + 1
  /\ UNCHANGED <<call, stage, resps, ordering, out, groupVars>>

(* Approve and Commit look at each response as it comes.  Approve checks   *)
(* for a nil Response, Commit dereferences it.                             *)
SequentialResponse(e, r) ==
  /\ stage = "endorse" /\ op \notin Concurrent /\ Answered(e)
  /\ resps' = Append(resps, r)
  /\ \/ r.status = NilResponse /\ Return(IF op = "Approve" THEN "error" ELSE "panic")
     \/ r.status = SUCCESS     /\ UNCHANGED <<stage, out>>
     \/ r.status \notin {SUCCESS, NilResponse} /\ Return("error")
  /\ UNCHANGED <<call, errs, ordering, groupVars>>

SequentialError(e) ==
  /\ "endorse" \in Faults
  /\ stage = "endorse" /\ op \notin Concurrent /\ Answered(e)
  /\ Return("error")
  /\ UNCHANGED <<call, errs, resps, ordering, groupVars>>

AllAnswered == \A e \in asked : ep[e] = "done"

(* The end of processProposal, and what its three callers do with it.  The *)
(* first response to arrive speaks for all.                                *)
InvokeOrQuery ==
  IF errs > 0 \/ resps = <<>> THEN Return("error")
  ELSE IF resps[1].status = NilResponse THEN Return("panic")
  ELSE IF resps[1].status >= ERRORTHRESHOLD THEN Return("nil")
  ELSE IF op = "Query" THEN Return("nil")
  ELSE Proceed("sign")

Collect ==
  /\ stage = "endorse" /\ AllAnswered
  /\ \/ op \in {"Invoke", "Query"}   /\ InvokeOrQuery
     \/ op = "SendTransaction"       /\ Return(IF errs > 0 THEN "error" ELSE "nil")
     \/ op \in {"Approve", "Commit"} /\ Proceed("sign")
  /\ UNCHANGED <<call, endorsing, ordering, groupVars>>

-----------------------------------------------------------------------------
(* createSignedTx and broadcastProposalEnvelope. *)

(* Mutant: the payloads are not compared. *)
AcceptableAnyPayload(r) ==
  r.status # NilResponse /\ r.status >= 200 /\ r.status < 400

(* The checks of createSignedTx on one response, against the first. *)
Acceptable(r) ==
  /\ r.status # NilResponse /\ r.status >= 200 /\ r.status < 400
  /\ r.payload = resps[1].payload

Rejected == {n \in 1..Len(resps) : ~Acceptable(resps[n])}
FirstRejected == CHOOSE n \in Rejected : \A m \in Rejected : n <= m

createSignedTx ==
  /\ stage = "sign"
  /\ \/ /\ resps # <<>> /\ Rejected = {}
        /\ Proceed("dial")
     \/ /\ resps = <<>> \/ "sign" \in Faults
        /\ Return("error")
     \/ /\ Rejected # {}
        /\ Return(IF resps[FirstRejected].status = NilResponse THEN "panic" ELSE "error")
  /\ UNCHANGED <<call, endorsing, ordering, groupVars>>

(* Mutant: the group connects only after the envelope was sent. *)
GetBroadcastClientSendsFirst ==
  /\ stage = "dial"
  /\ bc' = "open" /\ Proceed("send")
  /\ UNCHANGED <<call, endorsing, orderer, groupVars>>

GetBroadcastClient ==
  /\ stage = "dial"
  /\ \/ bc' = "open" /\ Proceed(IF timed THEN "connect" ELSE "send")
     \/ "orderer" \in Faults /\ Return("error") /\ UNCHANGED bc
  /\ UNCHANGED <<call, endorsing, orderer, groupVars>>

(* dg.Connect(ctx): on an error the broadcast stream is left open. *)
ConnectGroup ==
  /\ stage = "connect"
  /\ DG!Connect
  /\ UNCHANGED own

(* Mutant: the error of dg.Connect is dropped. *)
ConnectReturnsAnyway ==
  /\ stage = "connect"
  /\ DG!ConnectReturns
  /\ Proceed("send")
  /\ UNCHANGED <<call, endorsing, ordering>>

ConnectReturns ==
  /\ stage = "connect"
  /\ DG!ConnectReturns
  /\ IF phase' = "connected" THEN Proceed("send") ELSE Return("error")
  /\ UNCHANGED <<call, endorsing, ordering>>

(* broadcastClient.Send: the stream's Send, then getAck.  Its context has  *)
(* no deadline.  A failed Send closes the stream and ends the call, which  *)
(* abandons the group.                                                     *)
LeaveGroup == IF timed THEN DG!Abandon ELSE UNCHANGED groupVars

CloseOnError ==
  /\ bc' = "closed" /\ Return("error") /\ LeaveGroup
  /\ UNCHANGED <<call, endorsing, orderer>>

Send ==
  /\ stage = "send"
  /\ orderer' = "wire" /\ Proceed("ack")
  /\ UNCHANGED <<call, endorsing, bc, groupVars>>

SendFails == stage = "send" /\ "orderer" \in Faults /\ CloseOnError

(* Mutant: getAck does not look at the status. *)
AckSuccessAnyStatus ==
  /\ stage = "ack" /\ orderer \in {"accepted", "rejected"}
  /\ bc' = "closed"
  /\ IF timed THEN Proceed("wait") ELSE Return("nil")
  /\ UNCHANGED <<call, endorsing, orderer, groupVars>>

AckSuccess ==
  /\ stage = "ack" /\ orderer = "accepted"
  /\ bc' = "closed"
  /\ IF timed THEN Proceed("wait") ELSE Return("nil")
  /\ UNCHANGED <<call, endorsing, orderer, groupVars>>

(* A status other than SUCCESS, or no acknowledgement at all: the stream   *)
(* broke, whatever the orderer did or will do with the envelope.           *)
AckFails ==
  /\ stage = "ack" /\ (orderer = "rejected" \/ "orderer" \in Faults)
  /\ CloseOnError

WaitGroup ==
  /\ stage = "wait"
  /\ DG!Wait
  /\ IF phase' = "returned" THEN Return("nil") ELSE UNCHANGED <<stage, out>>
  /\ UNCHANGED <<call, endorsing, ordering>>

WaitReturns ==
  /\ stage = "wait"
  /\ DG!WaitReturns
  /\ Return(IF ret' = "ok" THEN "nil" ELSE "error")
  /\ UNCHANGED <<call, endorsing, ordering>>

-----------------------------------------------------------------------------
(* The orderer: external.  It judges an envelope it was sent, perhaps      *)
(* after the caller stopped waiting for its answer.                        *)
Accept ==
  /\ orderer = "wire" /\ orderer' = "accepted"
  /\ sent' = timed
  /\ UNCHANGED <<call, stage, endorsing, bc, out>>
  /\ UNCHANGED <<phase, ret, ctx, wg, ready, dgError, pc, cause, conn, seek, feed,
                 top, txAt, txValid, height>>

Reject ==
  /\ orderer = "wire" /\ orderer' = "rejected"
  /\ UNCHANGED <<call, stage, endorsing, bc, out, groupVars>>

(* What goes on in the group and the channel while the caller waits or     *)
(* after it left.  A call without a timeout has no group.                  *)
GroupDeadline == phase # "new" /\ DG!Deadline /\ UNCHANGED own

Group ==
  /\ phase # "new"
  /\ \/ DG!Cancel \/ DG!WaitForWG \/ DG!Channel
     \/ \E c \in Client : DG!Goroutine(c)
  /\ UNCHANGED own

-----------------------------------------------------------------------------
Answer(e) ==
  \/ GoroutineError(e) \/ SequentialError(e)
  \/ \E r \in [peer : {e}, status : Status \cup {NilResponse}, payload : Payload] :
       GoroutineResponse(e, r) \/ SequentialResponse(e, r)

Caller ==
  \/ Propose \/ ProposeFails
  \/ \E e \in Endorser : CallNext(e)
  \/ Collect \/ createSignedTx \/ GetBroadcastClient
  \/ ConnectGroup \/ ConnectReturns
  \/ Send \/ SendFails \/ AckSuccess \/ AckFails
  \/ WaitGroup \/ WaitReturns

Next == Caller \/ (\E e \in Endorser : Answer(e)) \/ Accept \/ Reject
          \/ GroupDeadline \/ Group

(* Endorsers and orderer answer; the group is scheduled as DeliverGroup    *)
(* says, with every step of it a step of this system.                      *)
Fairness ==
  /\ WF_vars(Caller) /\ WF_vars(Accept \/ Reject)
  /\ \A e \in Endorser : WF_vars(Answer(e))
  /\ WF_vars(GroupDeadline)

Spec     == Init /\ [][Next]_vars
FairSpec == Spec /\ Fairness

-----------------------------------------------------------------------------
(* Properties. *)

(* The call uses the group as the group's own specification says a caller  *)
(* does: Connect first, the broadcast between Connect and Wait, one answer.*)
ImplementsDeliverGroup == DG!Spec

(* An envelope is sent only when every endorser of the call answered, and  *)
(* answered alike and with success; for Approve and Commit, with SUCCESS.  *)
(* Neither an error of one endorser nor the order of arrival matters.      *)
SentIsEndorsed ==
  orderer # "none" =>
    /\ op \in Writes /\ asked # {}
    /\ {resps[n].peer : n \in 1..Len(resps)} = asked
    /\ \A m, n \in 1..Len(resps) :
         /\ resps[n].status \in 200..399 /\ resps[n].payload = resps[m].payload
         /\ op # "Invoke" => resps[n].status = SUCCESS

(* A nil error of a writing call means what it seems to: either the first  *)
(* response carries a failure status and nothing was sent, or the orderer  *)
(* accepted the transaction and, with a timeout, every peer of the group   *)
(* committed it as valid.                                                  *)
NilErrorIsTrue ==
  out = "nil" /\ op \in Writes =>
    IF resps[1].status >= ERRORTHRESHOLD THEN orderer = "none"
    ELSE /\ orderer = "accepted"
         /\ timed => \A c \in Client : DG!HasTx(c) /\ txValid

(* No envelope is sent before every deliver client has its seek envelope   *)
(* on its stream: a commit event cannot be missed by subscribing late.     *)
SubscribedBeforeSend ==
  orderer # "none" /\ timed => \A c \in Client : conn[c] /\ seek[c]

(* The broadcast stream does not outlive the call, except when Connect     *)
(* fails: that path returns without Close.                                 *)
StreamClosed ==
  out # "pending" /\ bc = "open" => ret \in {"connectError", "connectTimeout"}

-----------------------------------------------------------------------------
(* The inductive invariant. *)

Responded == {resps[n].peer : n \in 1..Len(resps)}
Succeeded == \A n \in 1..Len(resps) : resps[n].status = SUCCESS

Endorsed ==
  /\ op \in Writes /\ asked # {} /\ Responded = asked
  /\ \A m, n \in 1..Len(resps) :
       resps[n].status \in 200..399 /\ resps[n].payload = resps[m].payload
  /\ op # "Invoke" => Succeeded

BeforeSend == {"propose", "endorse", "sign", "dial", "connect", "send"}

(* What each stage knows of the responses that were gathered. *)
Gathering ==
  /\ stage = "propose" => resps = <<>> /\ errs = 0 /\ \A e \in Endorser : ep[e] = "idle"
  /\ stage = "endorse" =>
       /\ \A e \in Endorser : ep[e] # "idle" => e \in asked
       /\ errs = 0 => Responded = {e \in Endorser : ep[e] = "done"}
       /\ op \notin Concurrent => errs = 0 /\ Succeeded
  /\ stage = "sign" => /\ op \in Writes /\ Responded = asked
                       /\ op # "Invoke" => Succeeded
  /\ stage \in {"dial", "connect", "send", "ack", "wait"} \/ orderer # "none" => Endorsed

(* What the stage and the error tell of the envelope. *)
Telling ==
  /\ stage = "done" <=> out # "pending"
  /\ stage \in BeforeSend => orderer = "none"
  /\ stage = "ack" => orderer # "none"
  /\ stage = "wait" => orderer = "accepted" /\ timed
  /\ out = "nil" /\ op \in Writes =>
       IF resps[1].status >= ERRORTHRESHOLD THEN orderer = "none"
       ELSE orderer = "accepted" /\ (timed => ret = "ok")

(* Where the group is when the call is at a stage. *)
GroupUse ==
  /\ stage \in {"propose", "endorse", "sign", "dial"} => phase = "new"
  /\ stage = "connect" => timed /\ phase \in {"new", "connecting"}
  /\ stage \in {"send", "ack"} => phase = IF timed THEN "connected" ELSE "new"
  /\ stage = "wait" => phase \in {"connected", "waiting"}
  /\ orderer = "wire" /\ timed => phase = "connected" \/ ret = "abandoned"
  /\ sent <=> orderer = "accepted" /\ timed

(* A goroutine of Connect that is done has subscribed or left an error. *)
Subscribing ==
  /\ phase = "connecting" =>
       \A c \in Client : pc[c] \in {"exit", "idle"} =>
          (seek[c] /\ conn[c]) \/ dgError # NoError
  /\ phase = "connected" => \A c \in Client : seek[c] /\ conn[c]
  /\ SubscribedBeforeSend

Closing ==
  /\ stage \in {"propose", "endorse", "sign", "dial"} => bc = "none"
  /\ stage = "wait" => bc = "closed"
  /\ StreamClosed

(* What holds of a call and its group at every step: types, streams that   *)
(* are subscribed in time, a broadcast stream that is closed, and what     *)
(* each stage knows of the responses, the envelope and the group.          *)
CallInv ==
  TypeOK /\ Gathering /\ Telling /\ GroupUse /\ Subscribing /\ Closing

-----------------------------------------------------------------------------
(* Liveness. *)

(* Every call returns, or panics: processProposal cannot block on its      *)
(* channels, Commit's loop ends, and no wait outlives the deadline.        *)
CallReturns == <>(out # "pending")
=============================================================================
