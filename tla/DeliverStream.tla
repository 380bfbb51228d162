----------------------------- MODULE DeliverStream -----------------------------
(***************************************************************************)
(* internal/client/orderer/deliver.go: a DeliverService asks an orderer    *)
(* for blocks over one stream.  Every call sends a seek envelope, reads    *)
(* the block, and flushes the status that follows it; so each reply must   *)
(* be consumed to the end before the next call sends its seek.             *)
(*                                                                         *)
(* The callers are those of internal/channel: FetchBlock and Join, which   *)
(* ask for one block, and FetchConfig, which asks on the same stream for   *)
(* the newest block and then for the config block it names.  The orderer   *)
(* and the stream are external.                                            *)
(***************************************************************************)
EXTENDS Integers, Sequences

CONSTANTS
  MaxBlock,  \* bound on the chain: blocks 0..MaxBlock
  Faults,    \* "break", "send", "refuse", "metadata": what may go wrong
  None,      \* no block
  Newest     \* the seek position seekNewest

ASSUME MaxBlockAssumption == MaxBlock \in Nat
ASSUME NoneAssumption == None \notin Nat /\ Newest \notin Nat

VARIABLES
  op,       \* "FetchConfig", or "FetchBlock" (Join is FetchBlock of block 0)
  num,      \* the block FetchBlock asks for
  at,       \* where the caller is
  got,      \* the last block read
  out,      \* what the call returned
  up, down, \* seeks on their way to the orderer, messages on their way back
  owed,     \* the orderer sent a block and owes the status after it
  alive,    \* the stream works
  top,      \* newest block of the channel
  configs,  \* the numbers of its config blocks
  since     \* top when the call began

client == <<op, num, at, got, out>>
stream == <<up, down, owed, alive>>
chain  == <<top, configs, since>>
vars   == <<client, stream, chain>>

Blocks  == 0..MaxBlock
Block(n)   == [type |-> "block", num |-> n]
Status(ok) == [type |-> "status", ok |-> ok]
Messages   == {Block(n) : n \in Blocks} \cup {Status(ok) : ok \in BOOLEAN}

(* The config in force at block n. *)
LastConfig(n) == CHOOSE c \in configs : c <= n /\ \A d \in configs : d <= n => d <= c

TypeOK ==
  /\ op \in {"FetchConfig", "FetchBlock"} /\ num \in Blocks
  /\ at \in {"newest", "readNewest", "flushNewest", "specified", "read", "flush", "done"}
  /\ got \in Blocks \cup {None}
  /\ out \in {"pending", "ok", "error", "noIndex"}
  /\ up \in Seq(Blocks \cup {Newest}) /\ down \in Seq(Messages)
  /\ owed \in BOOLEAN /\ alive \in BOOLEAN
  /\ top \in Blocks /\ configs \subseteq 0..top /\ 0 \in configs /\ since \in 0..top

(* GetDeliverClient opened the stream; the channel exists. *)
Init ==
  /\ op \in {"FetchConfig", "FetchBlock"} /\ num \in Blocks
  /\ at = IF op = "FetchConfig" THEN "newest" ELSE "specified"
  /\ got = None /\ out = "pending"
  /\ up = <<>> /\ down = <<>> /\ owed = FALSE /\ alive = TRUE
  /\ top \in Blocks /\ configs \in {C \in SUBSET (0..top) : 0 \in C}
  /\ since = top

Return(result) == at' = "done" /\ out' = result
Goto(label)    == at' = label /\ UNCHANGED out

-----------------------------------------------------------------------------
(* The calls. *)

(* seekNewest and seekSpecified.  A seek envelope that could not be signed *)
(* is nil, and sending it fails as on a broken stream.                     *)
Seeks == [newest |-> "readNewest", specified |-> "read"]

Seek(position) ==
  /\ up' = Append(up, position)
  /\ Goto(Seeks[at])
  /\ UNCHANGED <<op, num, got, down, owed, alive, chain>>

SeekNewest    == at = "newest" /\ Seek(Newest)
SeekSpecified == at = "specified" /\ Seek(num)

SeekFails ==
  /\ at \in DOMAIN Seeks /\ ("send" \in Faults \/ ~alive)
  /\ alive' = FALSE
  /\ Return("error")
  /\ UNCHANGED <<op, num, got, up, down, owed, chain>>

(* readBlock: its first Recv. *)
Flushes == [readNewest |-> "flushNewest", read |-> "flush"]

ReadBlock ==
  /\ at \in DOMAIN Flushes /\ down # <<>> /\ Head(down).type = "block"
  /\ got' = Head(down).num /\ down' = Tail(down)
  /\ Goto(Flushes[at])
  /\ UNCHANGED <<op, num, up, owed, alive, chain>>

ReadStatus ==
  /\ at \in DOMAIN Flushes /\ down # <<>> /\ Head(down).type = "status"
  /\ down' = Tail(down)
  /\ Return("error")
  /\ UNCHANGED <<op, num, got, up, owed, alive, chain>>

ReadError ==
  /\ at \in DOMAIN Flushes /\ down = <<>> /\ ~alive
  /\ Return("error")
  /\ UNCHANGED <<op, num, got, stream, chain>>

(* Mutants: no second Recv; a second Recv that goes on until the stream    *)
(* ends.                                                                   *)
FlushNothing == UNCHANGED down

FlushToTheEnd == down = <<>> /\ ~alive /\ UNCHANGED down

(* Its second Recv, whose outcome is ignored. *)
Flush ==
  \/ down # <<>> /\ down' = Tail(down)
  \/ down = <<>> /\ ~alive /\ UNCHANGED down

(* Mutant: FetchConfig takes the newest block for the config block. *)
ConfigIndexNewest(n) == n

(* GetLastConfigIndexFromBlock. *)
ConfigIndex(n) == LastConfig(n)

FlushNewest ==
  /\ at = "flushNewest" /\ Flush
  /\ num' = ConfigIndex(got)
  /\ Goto("specified")
  /\ UNCHANGED <<op, got, up, owed, alive, chain>>

NoConfigIndex ==
  /\ at = "flushNewest" /\ "metadata" \in Faults /\ Flush
  /\ Return("noIndex")
  /\ UNCHANGED <<op, num, got, up, owed, alive, chain>>

FlushSpecified ==
  /\ at = "flush" /\ Flush
  /\ Return("ok")
  /\ UNCHANGED <<op, num, got, up, owed, alive, chain>>

-----------------------------------------------------------------------------
(* The orderer and the stream: external.  Start and Stop of a seek are the *)
(* same position, so the reply is one block and a status; the orderer      *)
(* blocks until the position exists.  A refusal ends the stream.           *)
Position(seek) == IF seek = Newest THEN top ELSE seek

ServeBlock ==
  /\ alive /\ up # <<>> /\ ~owed /\ Position(Head(up)) <= top
  /\ down' = Append(down, Block(Position(Head(up))))
  /\ up' = Tail(up) /\ owed' = TRUE
  /\ UNCHANGED <<client, alive, chain>>

ServeStatus ==
  /\ alive /\ owed
  /\ down' = Append(down, Status(TRUE)) /\ owed' = FALSE
  /\ UNCHANGED <<client, up, alive, chain>>

Refuse ==
  /\ "refuse" \in Faults /\ alive /\ up # <<>> /\ ~owed
  /\ down' = Append(down, Status(FALSE)) /\ alive' = FALSE
  /\ UNCHANGED <<client, up, owed, chain>>

(* What was in flight may be lost with the stream. *)
Break ==
  /\ "break" \in Faults /\ alive
  /\ alive' = FALSE
  /\ \E n \in 0..Len(down) : down' = SubSeq(down, 1, n)
  /\ UNCHANGED <<client, up, owed, chain>>

Grow ==
  /\ top < MaxBlock
  /\ top' = top + 1
  /\ configs' \in {configs, configs \cup {top + 1}}
  /\ UNCHANGED <<client, stream, since>>

-----------------------------------------------------------------------------
Read == ReadBlock \/ ReadStatus \/ ReadError
Caller == SeekNewest \/ SeekSpecified \/ SeekFails \/ Read
            \/ FlushNewest \/ NoConfigIndex \/ FlushSpecified
Orderer == ServeBlock \/ ServeStatus \/ Refuse

Next == Caller \/ Orderer \/ Break \/ Grow

(* The caller runs, and an orderer that is there answers.  Nothing makes   *)
(* the chain grow.                                                         *)
Fairness == WF_vars(Caller) /\ WF_vars(Orderer)

Spec     == Init /\ [][Next]_vars
FairSpec == Spec /\ Fairness

-----------------------------------------------------------------------------
(* Properties. *)

(* A block that is returned is the one asked for; what FetchConfig returns *)
(* was the channel's config at some moment of the call (of which the       *)
(* caller knows no more: it may be outdated when it arrives), not the      *)
(* genesis block that the comment at list.go:140 speaks of.                *)
RightBlock ==
  out = "ok" =>
    IF op = "FetchBlock" THEN got = num
    ELSE \E n \in since..top : got = LastConfig(n)

(* Apart from a newest block without the index of a config block, a call   *)
(* fails only if the stream did: never because of what the call before it  *)
(* left behind.                                                            *)
NoSpuriousError ==
  out = "error" => ~alive

(* A seek is sent on a quiet stream: the whole reply to the seek before it *)
(* has been read, unless the stream broke before all of it was sent.       *)
QuietSeek ==
  at \in DOMAIN Seeks => up = <<>> /\ down = <<>> /\ (alive => ~owed)

-----------------------------------------------------------------------------
(* The inductive invariant. *)

(* The seek that is out, and the block that answers it. *)
Asked     == IF at = "readNewest" THEN Newest ELSE num
Answer(n) == IF at = "readNewest" THEN n \in since..top ELSE n = num

(* Before a block is read: the seek is on its way or refused, or the reply *)
(* has begun.  A broken stream holds any beginning of it.                  *)
Reading ==
  \/ up = <<Asked>> /\ down = <<>> /\ (alive => ~owed)
  \/ up = <<Asked>> /\ ~alive /\ down = <<Status(FALSE)>>
  \/ up = <<>> /\ ~alive /\ down = <<>>
  \/ /\ up = <<>>
     /\ \E n \in Blocks : Answer(n) /\ \/ down = <<Block(n)>> /\ (owed \/ ~alive)
                                       \/ down = <<Block(n), Status(TRUE)>> /\ ~owed

(* After it: only the status is left. *)
Flushing ==
  /\ up = <<>>
  /\ \/ down = <<>> /\ (owed \/ ~alive)
     \/ down = <<Status(TRUE)>> /\ ~owed

Conversation ==
  /\ at \in DOMAIN Flushes => Reading
  /\ at \in {"flushNewest", "flush"} => Flushing

(* What the caller has, and what it is about to ask for. *)
ConfigOfTheCall(n) == \E b \in since..top : n = LastConfig(b)

Meaning ==
  /\ at = "done" <=> out # "pending"
  /\ at \in {"newest", "readNewest", "flushNewest"} => op = "FetchConfig"
  /\ at = "flushNewest" => got \in since..top
  /\ /\ op = "FetchConfig"
     /\ at \in {"specified", "read", "flush"} \/ out = "ok"
     => ConfigOfTheCall(num)
  /\ at = "flush" \/ out = "ok" => got = num

(* The stream between two calls, and between the two seeks of FetchConfig: *)
(* it is quiet, and no call fails for what was left on it.                 *)
StreamInv == TypeOK /\ QuietSeek /\ NoSpuriousError /\ Conversation /\ Meaning

-----------------------------------------------------------------------------
(* Liveness. *)

(* Every call for a block that exists returns. *)
Returns == (op = "FetchConfig" \/ num <= top) ~> out # "pending"
=============================================================================
