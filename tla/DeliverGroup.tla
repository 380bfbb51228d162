----------------------------- MODULE DeliverGroup -----------------------------
(***************************************************************************)
(* internal/client/delivegroup/client.go: the group of deliver clients     *)
(* with which a submitter waits until its transaction is committed on      *)
(* every peer.  Connect starts one ClientConnect goroutine per client and  *)
(* Wait one ClientWait goroutine per client; the caller selects between    *)
(* readyCh, closed once the WaitGroup drains, and its context.             *)
(*                                                                         *)
(* The caller's half (Broadcast, Wait only after a successful broadcast,   *)
(* the deferred cancel) is broadcastProposalEnvelope of                    *)
(* internal/chaincode/config.go.  The channel, its peers and gRPC are      *)
(* external: a growing chain, peers that commit it at their own pace, and  *)
(* streams that may fail in the ways of Faults.                            *)
(***************************************************************************)
EXTENDS Integers, FiniteSets

CONSTANTS
  Client,     \* the deliver clients of the group, one per peer
  MaxBlock,   \* bound on the length of the chain
  Faults,     \* which failures the environment may produce
  NoError     \* the nil value of DeliverGroup.Error

Causes == {"connect", "recv", "invalid", "status", "unexpected"}
Errors == [client : Client, cause : Causes]

ASSUME ClientAssumption == IsFiniteSet(Client)
ASSUME MaxBlockAssumption == MaxBlock \in Nat \ {0}
ASSUME NoErrorAssumption == NoError \notin Errors

VARIABLES
  phase,    \* where the calling goroutine is
  ret,      \* what the group's calls returned to it
  ctx,      \* the context: "live" or "done" (deadline passed or cancelled)
  wg,       \* the counter of DeliverGroup.wg
  ready,    \* readyCh of the latest call: "none", "open" or "closed"
  dgError,  \* DeliverGroup.Error
  pc,       \* per client: where its goroutine is ("idle": there is none)
  cause,    \* per client: the goroutine's local err
  conn,     \* per client: dc.Connection is set
  seek,     \* per client: the seek envelope is on the stream
  feed,     \* per client: next block the peer sends, 0 before it reads the seek
  sent,     \* the envelope reached the orderer
  top,      \* number of blocks on the chain
  txAt,     \* the block holding the transaction, 0 if not ordered
  txValid,  \* its validation code is VALID
  height    \* per client: number of blocks its peer has committed

caller  == <<phase, ret, ctx>>
group   == <<wg, ready, dgError>>
threads == <<pc, cause, conn>>
streams == <<seek, feed>>
chain   == <<top, txAt, txValid, height>>
vars    == <<caller, group, threads, streams, sent, chain>>

Phases  == {"new", "connecting", "connected", "waiting", "returned", "closed"}
Results == {"none", "ok", "abandoned",
            "connectError", "connectTimeout", "waitError", "waitTimeout"}

(* Goroutines that have not yet called wg.Done. *)
Live == {c \in Client : pc[c] # "idle"}

TypeOK ==
  /\ phase \in Phases /\ ret \in Results /\ ctx \in {"live", "done"}
  /\ wg \in Nat /\ ready \in {"none", "open", "closed"}
  /\ dgError \in Errors \cup {NoError}
  /\ pc \in [Client -> {"idle", "dial", "send", "recv", "fail", "exit"}]
  /\ cause \in [Client -> Causes]
  /\ conn \in [Client -> BOOLEAN] /\ seek \in [Client -> BOOLEAN]
  /\ feed \in [Client -> Nat]
  /\ sent \in BOOLEAN /\ txValid \in BOOLEAN
  /\ top \in 1..MaxBlock /\ txAt \in 0..top /\ height \in [Client -> 1..top]

(* NewDeliverGroup, on a channel whose peers hold the genesis block. *)
Init ==
  /\ phase = "new" /\ ret = "none" /\ ctx = "live"
  /\ wg = 0 /\ ready = "none" /\ dgError = NoError
  /\ pc = [c \in Client |-> "idle"]
  /\ cause = [c \in Client |-> "connect"]
  /\ conn = [c \in Client |-> FALSE]
  /\ seek = [c \in Client |-> FALSE]
  /\ feed = [c \in Client |-> 0]
  /\ sent = FALSE
  /\ top = 1 /\ txAt = 0 /\ txValid = FALSE
  /\ height = [c \in Client |-> 1]

-----------------------------------------------------------------------------
(* The calling goroutine. *)

(* Mutant: wg.Add(1) once instead of wg.Add(len(dg.Clients)). *)
LaunchAddsOne(start) ==
  /\ wg' = wg + 1
  /\ pc' = [c \in Client |-> start]
  /\ ready' = "open"

(* What Connect and Wait share: wg.Add, one goroutine per client at its    *)
(* first statement, and WaitForWG on a fresh readyCh.                      *)
Launch(start) ==
  /\ wg' = wg + Cardinality(Client)
  /\ pc' = [c \in Client |-> start]
  /\ ready' = "open"

Return(result) == phase' = "returned" /\ ret' = result

Connect ==
  /\ phase = "new"
  /\ phase' = "connecting"
  /\ Launch("dial")
  /\ UNCHANGED <<ret, ctx, dgError, cause, conn, streams, sent, chain>>

(* Mutant: Connect returns nil on timeout. *)
ConnectTimeoutContinues ==
  /\ phase = "connecting" /\ ctx = "done"
  /\ phase' = "connected"
  /\ UNCHANGED <<ret, ctx, group, threads, streams, sent, chain>>

(* The select of Connect and of Wait: readyCh first, then ctx.Done.  Both  *)
(* cases may be ready, and then either is taken.                           *)
ConnectReady ==
  /\ phase = "connecting" /\ ready = "closed"
  /\ IF dgError # NoError THEN Return("connectError")
                          ELSE phase' = "connected" /\ UNCHANGED ret
  /\ UNCHANGED <<ctx, group, threads, streams, sent, chain>>

ConnectTimeout ==
  /\ phase = "connecting" /\ ctx = "done"
  /\ Return("connectTimeout")
  /\ UNCHANGED <<ctx, group, threads, streams, sent, chain>>

(* The envelope reaches the orderer: while the caller is in Send, or after  *)
(* it gave up waiting for the acknowledgement.                             *)
Broadcast ==
  /\ phase = "connected" \/ ret = "abandoned"
  /\ ~sent
  /\ sent' = TRUE
  /\ UNCHANGED <<caller, group, threads, streams, chain>>

(* The broadcast reported an error, whether or not the orderer got it. *)
Abandon ==
  /\ phase = "connected"
  /\ Return("abandoned")
  /\ UNCHANGED <<ctx, group, threads, streams, sent, chain>>

Wait ==
  /\ phase = "connected" /\ sent
  /\ IF Client = {}
       THEN Return("ok") /\ UNCHANGED <<wg, pc, ready>>
       ELSE phase' = "waiting" /\ Launch("recv") /\ UNCHANGED ret
  /\ UNCHANGED <<ctx, dgError, cause, conn, streams, sent, chain>>

(* Mutants: Wait does not look at dg.Error, or returns nil on timeout. *)
WaitReadyIgnoresError ==
  /\ phase = "waiting" /\ ready = "closed"
  /\ Return("ok")
  /\ UNCHANGED <<ctx, group, threads, streams, sent, chain>>

WaitTimeoutIsOk ==
  /\ phase = "waiting" /\ ctx = "done"
  /\ Return("ok")
  /\ UNCHANGED <<ctx, group, threads, streams, sent, chain>>

WaitReady ==
  /\ phase = "waiting" /\ ready = "closed"
  /\ Return(IF dgError # NoError THEN "waitError" ELSE "ok")
  /\ UNCHANGED <<ctx, group, threads, streams, sent, chain>>

WaitTimeout ==
  /\ phase = "waiting" /\ ctx = "done"
  /\ Return("waitTimeout")
  /\ UNCHANGED <<ctx, group, threads, streams, sent, chain>>

(* The deferred cancelFunc, and the deadline of context.WithTimeout. *)
Cancel ==
  /\ phase = "returned"
  /\ phase' = "closed" /\ ctx' = "done"
  /\ UNCHANGED <<ret, group, threads, streams, sent, chain>>

Deadline ==
  /\ "deadline" \in Faults /\ ctx = "live"
  /\ ctx' = "done"
  /\ UNCHANGED <<phase, ret, group, threads, streams, sent, chain>>

-----------------------------------------------------------------------------
(* The goroutines of the group. *)

WaitForWG ==
  /\ ready = "open" /\ wg = 0
  /\ ready' = "closed"
  /\ UNCHANGED <<caller, wg, dgError, threads, streams, sent, chain>>

Goto(c, label) == pc' = [pc EXCEPT ![c] = label]

Fail(c, why) == Goto(c, "fail") /\ cause' = [cause EXCEPT ![c] = why]

(* Mutant: the streams are opened with context.Background(). *)
StreamDoneNever == FALSE

(* ClientConnect opens the stream with the caller's ctx. *)
StreamDone == ctx = "done"

(* gRPC may report this failure: the environment may produce it, or the    *)
(* context of the stream is done.                                          *)
MayFail(fault) == fault \in Faults \/ StreamDone

(* ClientConnect: DeliverFiltered, then Send.  SendError is also the       *)
(* outcome when createDeliverEnvelope could not sign and returned nil.     *)
DialOk(c) ==
  /\ pc[c] = "dial" /\ ctx = "live"
  /\ conn' = [conn EXCEPT ![c] = TRUE]
  /\ Goto(c, "send")
  /\ UNCHANGED <<caller, group, cause, streams, sent, chain>>

DialError(c) ==
  /\ pc[c] = "dial" /\ MayFail("dial")
  /\ Fail(c, "connect")
  /\ UNCHANGED <<caller, group, conn, streams, sent, chain>>

SendOk(c) ==
  /\ pc[c] = "send"
  /\ seek' = [seek EXCEPT ![c] = TRUE]
  /\ Goto(c, "exit")
  /\ UNCHANGED <<caller, group, cause, conn, feed, sent, chain>>

SendError(c) ==
  /\ pc[c] = "send" /\ MayFail("send")
  /\ Fail(c, "connect")
  /\ UNCHANGED <<caller, group, conn, streams, sent, chain>>

(* Mutants: the validation code is ignored; a transaction that is not      *)
(* VALID is passed over as if it were another.                             *)
InspectAnyCode(c) ==
  \/ feed[c] # txAt /\ UNCHANGED <<pc, cause>>
  \/ feed[c] = txAt /\ Goto(c, "exit") /\ UNCHANGED cause

InspectValidOnly(c) ==
  \/ ~(feed[c] = txAt /\ txValid) /\ UNCHANGED <<pc, cause>>
  \/ feed[c] = txAt /\ txValid /\ Goto(c, "exit") /\ UNCHANGED cause

(* ClientWait: a filtered block without the group's TxID is passed over,   *)
(* the one with it ends the goroutine, with an error unless it is VALID.   *)
Inspect(c) ==
  \/ feed[c] # txAt /\ UNCHANGED <<pc, cause>>
  \/ feed[c] = txAt /\ txValid /\ Goto(c, "exit") /\ UNCHANGED cause
  \/ feed[c] = txAt /\ ~txValid /\ Fail(c, "invalid")

RecvBlock(c) ==
  /\ pc[c] = "recv" /\ feed[c] \in 1..height[c]
  /\ feed' = [feed EXCEPT ![c] = @ + 1]
  /\ Inspect(c)
  /\ UNCHANGED <<caller, group, conn, seek, sent, chain>>

RecvError(c) ==
  /\ pc[c] = "recv" /\ MayFail("recv")
  /\ Fail(c, "recv")
  /\ UNCHANGED <<caller, group, conn, streams, sent, chain>>

RecvOther(c) ==
  /\ pc[c] = "recv" /\ seek[c]
  /\ \E kind \in {"status", "unexpected"} \cap Faults : Fail(c, kind)
  /\ UNCHANGED <<caller, group, conn, streams, sent, chain>>

(* setError holds the mutex from start to end, so it is one step. *)
setError(c) ==
  /\ pc[c] = "fail"
  /\ dgError' = [client |-> c, cause |-> cause[c]]
  /\ Goto(c, "exit")
  /\ UNCHANGED <<caller, wg, ready, cause, conn, streams, sent, chain>>

(* The deferred wg.Done. *)
Done(c) ==
  /\ pc[c] = "exit"
  /\ wg' = wg - 1
  /\ Goto(c, "idle")
  /\ UNCHANGED <<caller, ready, dgError, cause, conn, streams, sent, chain>>

-----------------------------------------------------------------------------
(* The channel: external. *)

Grow == top < MaxBlock /\ top' = top + 1

OrderTx ==
  /\ sent /\ txAt = 0
  /\ Grow /\ txAt' = top + 1 /\ txValid' \in BOOLEAN
  /\ UNCHANGED <<caller, group, threads, streams, sent, height>>

OrderOther ==
  /\ Grow
  /\ UNCHANGED <<caller, group, threads, streams, sent, txAt, txValid, height>>

PeerCommit(c) ==
  /\ height[c] < top
  /\ height' = [height EXCEPT ![c] = @ + 1]
  /\ UNCHANGED <<caller, group, threads, streams, sent, top, txAt, txValid>>

(* createDeliverEnvelope seeks from Newest up to MaxUint64, blocking until  *)
(* ready: the stream starts at the peer's last block, whichever that is    *)
(* when the peer reads the envelope, and follows the chain from there.     *)
SeekStart(c) == height[c]

ServeSeek(c) ==
  /\ seek[c] /\ feed[c] = 0
  /\ feed' = [feed EXCEPT ![c] = SeekStart(c)]
  /\ UNCHANGED <<caller, group, threads, seek, sent, chain>>

-----------------------------------------------------------------------------
ConnectReturns == ConnectReady \/ ConnectTimeout
WaitReturns    == WaitReady \/ WaitTimeout
Caller  == Connect \/ ConnectReturns \/ Broadcast \/ Abandon
             \/ Wait \/ WaitReturns \/ Cancel
StreamError(c) == DialError(c) \/ SendError(c) \/ RecvError(c)
Goroutine(c) == DialOk(c) \/ SendOk(c) \/ RecvBlock(c) \/ StreamError(c)
                  \/ RecvOther(c) \/ setError(c) \/ Done(c)
Channel == OrderTx \/ OrderOther \/ \E c \in Client : PeerCommit(c) \/ ServeSeek(c)

Next == Caller \/ Deadline \/ WaitForWG \/ Channel \/ \E c \in Client : Goroutine(c)

(* The Go scheduler runs every goroutine that is not blocked; gRPC fails   *)
(* every operation on a stream whose context is done.                      *)
GoFairness ==
  /\ WF_vars(ConnectReturns) /\ WF_vars(WaitReturns)
  /\ WF_vars(Cancel) /\ WF_vars(WaitForWG)
  /\ \A c \in Client : /\ WF_vars(setError(c)) /\ WF_vars(Done(c))
                       /\ WF_vars(StreamDone /\ StreamError(c))

(* A network that delivers: peers commit, read the seek and send blocks. *)
NetFairness ==
  \A c \in Client : /\ WF_vars(PeerCommit(c)) /\ WF_vars(ServeSeek(c))
                    /\ WF_vars(DialOk(c)) /\ WF_vars(SendOk(c))
                    /\ WF_vars(RecvBlock(c))

Spec     == Init /\ [][Next]_vars
FairSpec == Spec /\ GoFairness

-----------------------------------------------------------------------------
(* The abstract specification, and the state of this one it stands for. *)

HasTx(c) == txAt # 0 /\ height[c] >= txAt

Ledger == [c \in Client |-> IF ~HasTx(c) THEN "absent"
                            ELSE IF txValid THEN "valid" ELSE "invalid"]
Outcome == IF ret = "none" THEN "pending" ELSE IF ret = "ok" THEN "ok" ELSE "failed"

Abstract == INSTANCE TxCommit WITH Peer <- Client, ledger <- Ledger, outcome <- Outcome

(* The group keeps the promise of TxCommit: whatever the streams, the      *)
(* deadline and the goroutines do, the caller of Connect and Wait is told  *)
(* once, and told ok only of a transaction valid on every peer.            *)
ImplementsTxCommit == Abstract!Spec

-----------------------------------------------------------------------------
(* Safety. *)

(* Wait reports success only when every peer of the group has committed    *)
(* the transaction, and committed it as valid (ClientWait returns without  *)
(* setError only on a VALID FilteredTransaction with the group's TxID).    *)
OkMeansCommitted == ret = "ok" => \A c \in Client : HasTx(c) /\ txValid

(* Connect and Wait read dg.Error without the mutex.  It is safe because   *)
(* readyCh closes only when no goroutine of the group is left that could   *)
(* still be in setError.                                                   *)
ErrorReadQuiescent ==
  ready = "closed" => \A c \in Client : pc[c] = "idle"

(* ClientWait calls dc.Connection.Recv: no goroutine gets there on a nil   *)
(* Connection, as Connect must have succeeded on every client first.       *)
NoNilConnection == \A c \in Client : pc[c] = "recv" => conn[c]

(* An error that says the transaction was invalidated is true of the       *)
(* ledger: the peer that reported it holds the transaction, not VALID.     *)
InvalidIsReal ==
  (dgError # NoError /\ dgError.cause = "invalid") => HasTx(dgError.client) /\ ~txValid

(* "An error from any of the peers/deliver clients will result in the      *)
(* invoke command returning an error": once Error is set it stays set,     *)
(* across Connect and Wait, and the caller is no longer told ok.           *)
ErrorIsFinal ==
  [][dgError # NoError => dgError' # NoError /\ (ret' = "ok" => ret = "ok")]_vars

(* The contract of sync.WaitGroup that one group is used by two calls:     *)
(* Wait adds to the counter only after Connect's goroutines are all done   *)
(* and Connect's own wg.Wait has returned.                                 *)
WaitGroupContract == [][wg' > wg => wg = 0 /\ ready # "open"]_vars

(* "Only the first error that occurs will be set": what the comment on     *)
(* DeliverGroup says of Error.  setError overwrites it.                    *)
FirstErrorKept == [][dgError # NoError => dgError' = dgError]_vars

-----------------------------------------------------------------------------
(* The inductive invariant. *)

(* The WaitGroup counts the goroutines that have not finished. *)
WgCounts == wg = Cardinality(Live)

(* A goroutine that is past its work left its result: the stream it        *)
(* opened, the commit it saw, or an error.                                 *)
Finished(c) == pc[c] \in {"exit", "idle"}
WorkDone ==
  \A c \in Client : Finished(c) =>
    /\ phase = "connecting" => conn[c] \/ dgError # NoError
    /\ phase = "waiting" => (HasTx(c) /\ txValid) \/ dgError # NoError

(* Which goroutines a phase of the caller allows, and what it has learnt.  *)
PhaseInv ==
  /\ phase = "new" => Live = {} /\ ready = "none" /\ dgError = NoError
  /\ phase = "connected" => /\ Live = {} /\ ready = "closed"
                            /\ dgError = NoError /\ \A c \in Client : conn[c]
  /\ phase = "waiting" => \A c \in Client : conn[c]
  /\ phase \in {"new", "connecting", "connected", "waiting"} <=> ret = "none"
  /\ phase = "connecting" => \A c \in Client : pc[c] # "recv"
  /\ phase = "waiting" => \A c \in Client : pc[c] \notin {"dial", "send"}

ConnInv == \A c \in Client : pc[c] \in {"send", "recv"} => conn[c]

(* What a goroutine about to call setError with "invalid" has seen. *)
CauseInv ==
  \A c \in Client : pc[c] = "fail" /\ cause[c] = "invalid" => HasTx(c) /\ ~txValid

QuiescentInv == ready = "closed" => wg = 0

IInv ==
  /\ TypeOK /\ WgCounts /\ QuiescentInv /\ PhaseInv /\ WorkDone
  /\ ConnInv /\ CauseInv
  /\ OkMeansCommitted /\ InvalidIsReal

-----------------------------------------------------------------------------
(* Liveness. *)

(* Connect and Wait both return, whatever the network does: at the latest  *)
(* when the deadline of the context, if it has one that comes, passes.  A  *)
(* call that timed out leaves goroutines behind, blocked in Dial, Send or  *)
(* Recv, and one in WaitForWG.  They all end, as the streams were opened   *)
(* with the context.                                                       *)
CallsEnd ==
  /\ WF_vars(Deadline) =>
       /\ phase = "connecting" ~> phase # "connecting"
       /\ phase = "waiting" ~> phase # "waiting"
  /\ phase = "returned" ~> (Live = {} /\ ready = "closed")

(* On a network that delivers, as long as no stream fails and the deadline *)
(* does not pass, Wait ends with the transaction's verdict, provided every *)
(* peer resolved SeekNewest at or before the transaction's block.  The     *)
(* code does not wait for that: a peer that reads the seek later starts    *)
(* after the block.                                                        *)
NoFault ==
  /\ phase \in {"connecting", "waiting"} => ctx = "live"
  /\ \A c \in Client : pc[c] = "fail" => cause[c] = "invalid"

WaitSeesCommit ==
  (NetFairness /\ []NoFault) =>
    ((/\ phase = "waiting" /\ txAt # 0
      /\ \A c \in Client : pc[c] = "recv" => feed[c] \in 1..txAt)
     ~> ret = (IF txValid THEN "ok" ELSE "waitError"))

=============================================================================
