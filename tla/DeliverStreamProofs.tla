--------------------------- MODULE DeliverStreamProofs ---------------------------
(***************************************************************************)
(* DeliverStream proved for a channel of any length and any faults: each   *)
(* seek finds the stream quiet, no call fails for what another left, and   *)
(* the block that is returned is the one that was asked for.               *)
(***************************************************************************)
EXTENDS DeliverStream, SequenceTheorems, WellFoundedInduction, TLAPS

(* A nonempty set of numbers up to n has a greatest one: the least of the  *)
(* distances to n.                                                         *)
LEMMA Greatest ==
  ASSUME NEW n \in Nat, NEW C \in SUBSET (0..n), C # {}
  PROVE  \E m \in C : \A d \in C : d <= m
<1> DEFINE T == {n - c : c \in C}
<1>1. T \subseteq Nat /\ T # {}
  <2>1. PICK c \in C : TRUE
    OBVIOUS
  <2>2. n - c \in T
    BY <2>1
  <2>3. \A y \in T : y \in Nat
    OBVIOUS
  <2> QED
    BY <2>2, <2>3
<1>2. PICK x \in T : \A y \in T : ~ (<<y, x>> \in OpToRel(<, Nat))
  BY <1>1, NatLessThanWellFounded, WFMin
<1>3. \A y \in T : ~(y < x)
  BY <1>1, <1>2 DEF OpToRel
<1>4. PICK m \in C : x = n - m
  OBVIOUS
<1>5. ASSUME NEW d \in C  PROVE d <= m
  <2>1. ~(n - d < n - m)
    BY <1>3, <1>4
  <2> QED
    BY <2>1
<1> QED
  BY <1>5

IsLast(c, n) == c \in configs /\ c <= n /\ \A d \in configs : d <= n => d <= c

(* Block 0 is a config block, so that every block has one in force.        *)
LEMMA LastIs ==
  ASSUME configs \subseteq Nat, 0 \in configs, NEW n \in Nat
  PROVE  IsLast(LastConfig(n), n)
<1> DEFINE C == {c \in configs : c <= n}
<1>1. C \in SUBSET (0..n) /\ C # {}
  <2>1. 0 \in C
    OBVIOUS
  <2>2. \A c \in C : c \in 0..n
    OBVIOUS
  <2> QED
    BY <2>1, <2>2
<1>2. PICK m \in C : \A d \in C : d <= m
  BY <1>1, Greatest
<1>3. \E c \in configs : c <= n /\ \A d \in configs : d <= n => d <= c
  BY <1>2
<1> QED
  BY <1>3 DEF LastConfig, IsLast

(* The config in force at a block does not change as the chain grows.      *)
LEMMA LastKept ==
  ASSUME TypeOK, Grow, NEW n \in 0..top
  PROVE  LastConfig(n)' = LastConfig(n)
<1>1. top \in Nat /\ configs \subseteq 0..top /\ 0 \in configs
  BY MaxBlockAssumption DEF TypeOK, Blocks
<1>2. configs \subseteq configs' /\ configs' \subseteq configs \cup {top + 1}
  BY DEF Grow
<1>3. configs' \subseteq Nat /\ 0 \in configs' /\ configs \subseteq Nat
  BY <1>1, <1>2
<1>4. IsLast(LastConfig(n), n)
  BY <1>1, <1>3, LastIs
<1>5. IsLast(LastConfig(n), n)'
  <2> DEFINE C == {c \in configs' : c <= n}
  <2>1. C \in SUBSET (0..n) /\ C # {} /\ n \in Nat
    <3>1. n \in Nat /\ 0 \in C
      BY <1>1, <1>3
    <3>2. \A c \in C : c \in 0..n
      BY <1>3, <3>1
    <3> QED
      BY <3>1, <3>2
  <2>2. PICK m \in C : \A d \in C : d <= m
    BY <2>1, Greatest
  <2>3. \E c \in configs' : c <= n /\ \A d \in configs' : d <= n => d <= c
    BY <2>2
  <2> QED
    BY <2>3 DEF LastConfig, IsLast
<1> DEFINE a == LastConfig(n)
           b == LastConfig(n)'
<1>6. /\ a \in configs /\ a <= n /\ \A d \in configs : d <= n => d <= a
      /\ b \in configs' /\ b <= n /\ \A d \in configs' : d <= n => d <= b
  BY <1>4, <1>5 DEF IsLast
<1> HIDE DEF a, b
<1>7. a \in Int /\ b \in Int /\ n \in Int /\ n <= top
  BY <1>1, <1>3, <1>6
<1>8. b \in configs
  BY <1>1, <1>2, <1>6, <1>7
<1>9. a <= b /\ b <= a
  BY <1>2, <1>6, <1>8
<1>10. a = b
  BY <1>7, <1>9
<1> QED
  BY <1>10 DEF a, b

-----------------------------------------------------------------------------
(* The inductive invariant. *)

LEMMA InitInv == Init => StreamInv
<1> SUFFICES ASSUME Init PROVE StreamInv
  OBVIOUS
<1>1. TypeOK
  <2>1. top \in Nat /\ top \in 0..top /\ 0 \in Nat
    BY MaxBlockAssumption DEF Init, Blocks
  <2>2. <<>> \in Seq(Blocks \cup {Newest}) /\ <<>> \in Seq(Messages)
    OBVIOUS
  <2> QED
    BY <2>1, <2>2 DEF Init, TypeOK
<1>2. QuietSeek /\ NoSpuriousError /\ Conversation
  BY DEF Init, QuietSeek, NoSpuriousError, Conversation, Flushes
<1>3. Meaning
  BY DEF Init, Meaning
<1> QED
  BY <1>1, <1>2, <1>3 DEF StreamInv

LEMMA TypeStep ==
  ASSUME TypeOK, Meaning, [Next]_vars
  PROVE  TypeOK'
<1> USE DEF TypeOK, client, stream, chain, Return, Goto
<1>1. top \in Nat /\ since \in Nat /\ Blocks \subseteq Nat
  BY MaxBlockAssumption DEF Blocks
<1>2. CASE SeekNewest \/ SeekSpecified
  <2>1. PICK position \in Blocks \cup {Newest} : Seek(position) /\ at \in DOMAIN Seeks
    BY <1>2 DEF SeekNewest, SeekSpecified, Seeks
  <2>2. up' \in Seq(Blocks \cup {Newest})
    BY <2>1 DEF Seek
  <2>3. at' \in {"readNewest", "read"}
    BY <2>1 DEF Seek, Seeks
  <2> QED
    BY <2>1, <2>2, <2>3 DEF Seek
<1>3. CASE SeekFails \/ ReadError
  BY <1>3 DEF SeekFails, ReadError
<1>4. CASE ReadBlock
  <2>1. Head(down) \in Messages /\ Tail(down) \in Seq(Messages)
    BY <1>4 DEF ReadBlock
  <2>2. Head(down).num \in Blocks
    BY <1>4, <2>1 DEF ReadBlock, Messages, Block, Status
  <2>3. at' \in {"flushNewest", "flush"}
    BY <1>4 DEF ReadBlock, Flushes
  <2> QED
    BY <1>4, <2>1, <2>2, <2>3 DEF ReadBlock
<1>5. CASE ReadStatus
  <2>1. Tail(down) \in Seq(Messages)
    BY <1>5 DEF ReadStatus
  <2> QED
    BY <1>5, <2>1 DEF ReadStatus
<1>6. ASSUME Flush  PROVE down' \in Seq(Messages)
  <2>1. down # <<>> => Tail(down) \in Seq(Messages)
    OBVIOUS
  <2>2. down' = down \/ (down # <<>> /\ down' = Tail(down))
    BY <1>6 DEF Flush
  <2> QED
    BY <2>1, <2>2
<1>7. CASE FlushNewest
  <2>1. got \in Nat /\ configs \subseteq Nat /\ 0 \in configs
    BY <1>1, <1>7 DEF Meaning, FlushNewest
  <2>2. ConfigIndex(got) \in configs
    BY <2>1, LastIs DEF ConfigIndex, IsLast
  <2>3. configs \subseteq Blocks
    <3>1. \A c \in 0..top : c \in 0..MaxBlock
      BY <1>1, MaxBlockAssumption DEF Blocks
    <3> QED
      BY <3>1 DEF Blocks
  <2> QED
    BY <1>6, <1>7, <2>2, <2>3 DEF FlushNewest
<1>8. CASE NoConfigIndex \/ FlushSpecified
  BY <1>6, <1>8 DEF NoConfigIndex, FlushSpecified
<1>9. CASE ServeBlock
  <2>1. Head(up) \in Blocks \cup {Newest} /\ Tail(up) \in Seq(Blocks \cup {Newest})
    BY <1>9 DEF ServeBlock
  <2>2. Position(Head(up)) \in Blocks
    BY <2>1 DEF Position
  <2>3. Block(Position(Head(up))) \in Messages
    BY <2>2 DEF Messages
  <2>4. down' \in Seq(Messages)
    BY <1>9, <2>3 DEF ServeBlock
  <2> QED
    BY <1>9, <2>1, <2>4 DEF ServeBlock
<1>10. CASE ServeStatus \/ Refuse
  <2>1. PICK ok \in BOOLEAN : down' = Append(down, Status(ok))
    BY <1>10 DEF ServeStatus, Refuse
  <2>2. Status(ok) \in Messages
    BY DEF Messages
  <2>3. down' \in Seq(Messages)
    BY <2>1, <2>2
  <2> QED
    BY <1>10, <2>3 DEF ServeStatus, Refuse
<1>11. CASE Break
  <2>1. PICK n \in 0..Len(down) : down' = SubSeq(down, 1, n)
    BY <1>11 DEF Break
  <2>2. down' \in Seq(Messages)
    BY <2>1
  <2> QED
    BY <1>11, <2>2 DEF Break
<1>12. CASE Grow
  BY <1>1, <1>12, MaxBlockAssumption DEF Grow, Blocks
<1>13. CASE UNCHANGED vars
  BY <1>13 DEF vars
<1> QED
  BY <1>2, <1>3, <1>4, <1>5, <1>7, <1>8, <1>9, <1>10, <1>11, <1>12, <1>13
     DEF Next, Caller, Orderer, Read
-----------------------------------------------------------------------------
(* Sequences of one and two messages, and the tables of the calls.         *)

LEMMA AppendToOne ==
  ASSUME NEW x, NEW y
  PROVE  Append(<<x>>, y) = <<x, y>>
<1> DEFINE S == {x, y}
           s == Append(<<x>>, y)
           t == <<x, y>>
<1>1. <<x>> \in Seq(S) /\ y \in S /\ Len(<<x>>) = 1 /\ <<x>>[1] = x
  OBVIOUS
<1>2. s \in Seq(S) /\ Len(s) = 2 /\ s[1] = x /\ s[2] = y
  BY <1>1, AppendProperties
<1>3. t \in Seq(S) /\ Len(t) = 2 /\ t[1] = x /\ t[2] = y
  OBVIOUS
<1> HIDE DEF S, s, t
<1>4. s = t
  <2>1. \A i \in 1..Len(s) : s[i] = t[i]
    BY <1>2, <1>3
  <2> QED
    BY <1>2, <1>3, <2>1, SeqEqual
<1> QED
  BY <1>4 DEF s, t

LEMMA PrefixOfOne ==
  ASSUME NEW x, NEW n \in 0..Len(<<x>>)
  PROVE  SubSeq(<<x>>, 1, n) \in {<<>>, <<x>>}
<1>1. <<x>> \in Seq({x}) /\ Len(<<x>>) = 1
  OBVIOUS
<1>2. SubSeq(<<x>>, 1, 0) = <<>> /\ SubSeq(<<x>>, 1, 1) = <<x>>
  <2>1. SubSeq(<<x>>, 1, 0) = <<>>
    OBVIOUS
  <2>2. SubSeq(<<x>>, 1, 1) = <<x>>
    BY <1>1, SubSeqFull
  <2> QED
    BY <2>1, <2>2
<1>3. n \in {0, 1}
  BY <1>1
<1> QED
  BY <1>2, <1>3

LEMMA PrefixOfTwo ==
  ASSUME NEW x, NEW y, NEW n \in 0..Len(<<x, y>>)
  PROVE  SubSeq(<<x, y>>, 1, n) \in {<<>>, <<x>>, <<x, y>>}
<1> DEFINE S == {x, y}
           s == SubSeq(<<x, y>>, 1, 1)
           t == <<x>>
<1>1. <<x, y>> \in Seq(S) /\ Len(<<x, y>>) = 2 /\ <<x, y>>[1] = x
  OBVIOUS
<1>2. s \in Seq(S) /\ Len(s) = 1 /\ s[1] = x
  BY <1>1, SubSeqProperties
<1>3. t \in Seq(S) /\ Len(t) = 1 /\ t[1] = x
  OBVIOUS
<1>4. SubSeq(<<x, y>>, 1, 0) = <<>> /\ SubSeq(<<x, y>>, 1, 2) = <<x, y>>
  <2>1. SubSeq(<<x, y>>, 1, 0) = <<>>
    OBVIOUS
  <2>2. SubSeq(<<x, y>>, 1, 2) = <<x, y>>
    BY <1>1, SubSeqFull
  <2> QED
    BY <2>1, <2>2
<1>5. n \in {0, 1, 2}
  BY <1>1
<1> HIDE DEF S, s, t
<1>6. s = t
  <2>1. \A i \in 1..Len(s) : s[i] = t[i]
    BY <1>2, <1>3
  <2> QED
    BY <1>2, <1>3, <2>1, SeqEqual
<1>7. SubSeq(<<x, y>>, 1, 1) = <<x>>
  BY <1>6 DEF s, t
<1> QED
  BY <1>4, <1>5, <1>7

LEMMA Ends ==
  ASSUME NEW x, NEW y
  PROVE  /\ <<x>> # <<>> /\ Head(<<x>>) = x /\ Tail(<<x>>) = <<>>
         /\ <<x, y>> # <<>> /\ Head(<<x, y>>) = x /\ Tail(<<x, y>>) = <<y>>
         /\ Append(<<>>, x) = <<x>>
<1>1. <<x>> # <<>> /\ Head(<<x>>) = x /\ Tail(<<x>>) = <<>>
  OBVIOUS
<1>2. <<x, y>> # <<>> /\ Head(<<x, y>>) = x
  OBVIOUS
<1>3. Tail(<<x, y>>) = <<y>>
  OBVIOUS
<1>4. Append(<<>>, x) = <<x>>
  OBVIOUS
<1> QED
  BY <1>1, <1>2, <1>3, <1>4

LEMMA Kinds ==
  /\ \A n : Block(n).type = "block" /\ Block(n).num = n
  /\ \A ok : Status(ok).type = "status"
BY DEF Block, Status

LEMMA Tables ==
  /\ DOMAIN Seeks = {"newest", "specified"}
  /\ Seeks["newest"] = "readNewest" /\ Seeks["specified"] = "read"
  /\ DOMAIN Flushes = {"readNewest", "read"}
  /\ Flushes["readNewest"] = "flushNewest" /\ Flushes["read"] = "flush"
BY DEF Seeks, Flushes

Talk == QuietSeek /\ NoSpuriousError /\ Conversation

(* The caller's half: what it reads is the reply to its last seek.         *)
LEMMA CallerTalks ==
  ASSUME StreamInv, Caller
  PROVE  Talk'
<1> USE DEF client, stream, chain, Return, Goto, Talk, QuietSeek, NoSpuriousError,
            Conversation
<1> USE Tables
<1>1. TypeOK /\ Talk /\ Meaning
  BY DEF StreamInv
<1>2. CASE SeekNewest \/ SeekSpecified
  <2>1. /\ up' = <<Asked'>> /\ down' = <<>> /\ (alive' => ~owed')
        /\ at' \in {"readNewest", "read"} /\ out' = out /\ alive' = alive
    <3>1. PICK position : Seek(position) /\ at' = Seeks[at]
                          /\ position = (IF at = "newest" THEN Newest ELSE num)
      BY <1>2 DEF SeekNewest, SeekSpecified, Seek
    <3>2. up' = <<position>>
      BY <1>1, <1>2, <3>1, Ends DEF SeekNewest, SeekSpecified, Seek
    <3>3. at' = IF at = "newest" THEN "readNewest" ELSE "read"
      BY <1>2, <3>1 DEF SeekNewest, SeekSpecified
    <3> QED
      BY <1>1, <1>2, <3>1, <3>2, <3>3 DEF SeekNewest, SeekSpecified, Seek, Asked
  <2> QED
    BY <1>1, <2>1 DEF Reading
<1>3. CASE SeekFails \/ ReadError
  BY <1>3 DEF SeekFails, ReadError
<1>4. CASE ReadBlock
  <2>1. Reading /\ down # <<>> /\ Head(down).type = "block"
    BY <1>1, <1>4 DEF ReadBlock
  <2>2. up = <<>> /\ \E n \in Blocks : \/ down = <<Block(n)>> /\ (owed \/ ~alive)
                                       \/ down = <<Block(n), Status(TRUE)>> /\ ~owed
    <3>1. Head(<<Status(FALSE)>>).type = "status"
      <4>1. Head(<<Status(FALSE)>>) = Status(FALSE)
        BY Ends
      <4> QED
        BY <4>1, Kinds
    <3>2. down # <<>> /\ down # <<Status(FALSE)>>
      BY <2>1, <3>1
    <3> QED
      BY <2>1, <3>2 DEF Reading
  <2>3. \/ Tail(down) = <<>> /\ (owed \/ ~alive)
        \/ Tail(down) = <<Status(TRUE)>> /\ ~owed
    <3>1. \A n \in Blocks : /\ Tail(<<Block(n)>>) = <<>>
                            /\ Tail(<<Block(n), Status(TRUE)>>) = <<Status(TRUE)>>
      BY Ends
    <3> QED
      BY <2>2, <3>1
  <2>4. Flushing' /\ at' \in {"flushNewest", "flush"} /\ out' = out /\ alive' = alive
    BY <1>4, <2>2, <2>3 DEF ReadBlock, Flushing
  <2> QED
    BY <1>1, <2>4
<1>5. CASE ReadStatus
  <2>1. Reading /\ down # <<>> /\ Head(down).type = "status"
    BY <1>1, <1>5 DEF ReadStatus
  <2>2. ~alive
    <3>1. \A n \in Blocks : /\ Head(<<Block(n)>>).type = "block"
                            /\ Head(<<Block(n), Status(TRUE)>>).type = "block"
      BY Ends, Kinds
    <3> QED
      BY <2>1, <3>1 DEF Reading
  <2> QED
    BY <1>5, <2>2 DEF ReadStatus
<1>6. CASE FlushNewest \/ NoConfigIndex \/ FlushSpecified
  <2>1. Flushing /\ Flush /\ UNCHANGED <<up, owed, alive>> /\ out = "pending"
    BY <1>1, <1>6 DEF FlushNewest, NoConfigIndex, FlushSpecified, Meaning
  <2>2. down' = <<>> /\ (alive => ~owed)
    BY <2>1, Ends DEF Flushing, Flush
  <2>3. at' \in {"specified", "done"} /\ out' # "error"
    BY <1>6, <2>1 DEF FlushNewest, NoConfigIndex, FlushSpecified
  <2> QED
    BY <2>1, <2>2, <2>3 DEF Flushing
<1> QED
  BY <1>2, <1>3, <1>4, <1>5, <1>6 DEF Caller, Read

(* The orderer's half, and what may happen to the stream.                  *)
LEMMA OrdererTalks ==
  ASSUME StreamInv, Orderer \/ Break
  PROVE  Talk'
<1> USE Tables DEF client, chain, Talk, QuietSeek, NoSpuriousError, Conversation
<1>1. TypeOK /\ Talk /\ alive
  BY DEF StreamInv, Orderer, ServeBlock, ServeStatus, Refuse, Break
<1>2. UNCHANGED <<client, chain>> /\ (Asked' = Asked) /\ \A n \in Blocks : Answer(n)' = Answer(n)
  BY DEF Orderer, ServeBlock, ServeStatus, Refuse, Break, Asked, Answer
<1>3. CASE ServeBlock
  <2>1. at \notin DOMAIN Seeks /\ at \notin {"flushNewest", "flush"} /\ alive' = alive
    BY <1>1, <1>3 DEF ServeBlock, Flushing
  <2>2. ASSUME at \in DOMAIN Flushes  PROVE Reading'
    <3>1. up = <<Asked>> /\ down = <<>>
      BY <1>1, <1>3, <2>2 DEF ServeBlock, Reading
    <3> DEFINE n == Position(Asked)
    <3>2. n \in Blocks /\ Answer(n)
      BY <1>1, MaxBlockAssumption, NoneAssumption
         DEF TypeOK, Position, Asked, Answer, Blocks
    <3>3. up' = <<>> /\ down' = <<Block(n)>> /\ owed'
      BY <1>3, <3>1 DEF ServeBlock
    <3> QED
      BY <1>2, <3>2, <3>3 DEF Reading
  <2> QED
    BY <1>1, <1>2, <2>1, <2>2
<1>4. CASE ServeStatus
  <2>1. owed /\ ~owed' /\ alive' = alive /\ up' = up /\ down' = Append(down, Status(TRUE))
    BY <1>4 DEF ServeStatus
  <2>2. ASSUME at \in DOMAIN Flushes  PROVE Reading'
    <3>1. up = <<>> /\ \E n \in Blocks : Answer(n) /\ down = <<Block(n)>>
      BY <1>1, <2>1, <2>2 DEF Reading
    <3>2. \E n \in Blocks : Answer(n)' /\ down' = <<Block(n), Status(TRUE)>>
      BY <1>2, <2>1, <3>1, AppendToOne
    <3> QED
      BY <2>1, <3>1, <3>2 DEF Reading
  <2>3. ASSUME at \in {"flushNewest", "flush"}  PROVE Flushing'
    BY <1>1, <2>1, <2>3, Ends DEF Flushing
  <2> QED
    BY <1>1, <1>2, <2>1, <2>2, <2>3
<1>5. CASE Refuse
  <2>1. at \notin DOMAIN Seeks /\ at \notin {"flushNewest", "flush"} /\ ~alive'
    BY <1>1, <1>5 DEF Refuse, Flushing
  <2>2. ASSUME at \in DOMAIN Flushes  PROVE Reading'
    <3>1. up = <<Asked>> /\ down = <<>>
      BY <1>1, <1>5, <2>2 DEF Refuse, Reading
    <3> QED
      BY <1>2, <1>5, <3>1 DEF Refuse, Reading
  <2> QED
    BY <1>2, <2>1, <2>2
<1>6. CASE Break
  <2>1. PICK n \in 0..Len(down) : down' = SubSeq(down, 1, n)
    BY <1>6 DEF Break
  <2>2. up' = up /\ owed' = owed /\ ~alive'
    BY <1>6 DEF Break
  <2>3. down = <<>> => down' = <<>>
    BY <2>1
  <2>4. \A x : down = <<x>> => down' = <<>> \/ down' = <<x>>
    BY <2>1, PrefixOfOne
  <2>5. \A x, y : down = <<x, y>> => down' = <<>> \/ down' = <<x>> \/ down' = <<x, y>>
    BY <2>1, PrefixOfTwo
  <2>6. ASSUME at \in DOMAIN Flushes  PROVE Reading'
    <3>1. CASE up = <<Asked>>
      BY <1>1, <1>2, <2>2, <2>3, <2>6, <3>1 DEF Reading
    <3>2. CASE up = <<>>
      <4>1. CASE down = <<>>
        BY <2>2, <2>3, <3>2, <4>1 DEF Reading
      <4>2. CASE down # <<>>
        <5>1. PICK m \in Blocks : Answer(m) /\ (\/ down = <<Block(m)>>
                                                \/ down = <<Block(m), Status(TRUE)>> /\ ~owed)
          <6>1. <<Asked>> # <<>>
            BY Ends
          <6>2. Reading
            BY <1>1, <2>6
          <6> QED
            BY <3>2, <4>2, <6>1, <6>2 DEF Reading
        <5>2. Answer(m)'
          BY <1>2, <5>1
        <5>3. \/ down' = <<>> \/ down' = <<Block(m)>>
              \/ down' = <<Block(m), Status(TRUE)>> /\ ~owed
          BY <2>4, <2>5, <5>1
        <5> QED
          BY <2>2, <3>2, <5>2, <5>3 DEF Reading
      <4> QED
        BY <4>1, <4>2
    <3> QED
      BY <1>1, <2>6, <3>1, <3>2 DEF Reading
  <2>7. ASSUME at \in {"flushNewest", "flush"}  PROVE Flushing'
    BY <1>1, <2>2, <2>3, <2>4, <2>7 DEF Flushing
  <2> QED
    BY <1>1, <1>2, <2>2, <2>3, <2>6, <2>7
<1> QED
  BY <1>3, <1>4, <1>5, <1>6 DEF Orderer

LEMMA GrowTalks ==
  ASSUME StreamInv, Grow
  PROVE  Talk'
<1> USE DEF client, stream, Talk, QuietSeek, NoSpuriousError, Conversation
<1>1. TypeOK /\ Talk /\ UNCHANGED <<client, stream>> /\ Asked' = Asked
  BY DEF StreamInv, Grow, Asked
<1>2. \A n \in Blocks : Answer(n) => Answer(n)'
  BY <1>1, MaxBlockAssumption DEF Grow, Answer, TypeOK, Blocks
<1>3. Reading => Reading'
  BY <1>1, <1>2 DEF Reading
<1>4. Flushing' <=> Flushing
  BY <1>1 DEF Flushing
<1> QED
  BY <1>1, <1>3, <1>4
(* What the caller has and asks for keeps its meaning as the chain grows.  *)
LEMMA MeaningStep ==
  ASSUME StreamInv, [Next]_vars
  PROVE  Meaning'
<1> USE Tables DEF client, chain, Return, Goto
<1>1. TypeOK /\ Conversation /\ Meaning
  BY DEF StreamInv
<1>2. ASSUME UNCHANGED <<client, chain>>  PROVE Meaning'
  BY <1>1, <1>2 DEF Meaning, ConfigOfTheCall, LastConfig
<1>3. ASSUME UNCHANGED chain, num' = num
      PROVE  ConfigOfTheCall(num)' = ConfigOfTheCall(num)
  BY <1>3 DEF ConfigOfTheCall, LastConfig
<1>4. CASE SeekNewest \/ SeekSpecified
  <2>1. /\ at' = Seeks[at] /\ at \in {"newest", "specified"} /\ out' = out
        /\ UNCHANGED <<op, num, got, chain>>
    BY <1>4 DEF SeekNewest, SeekSpecified, Seek
  <2> QED
    BY <1>1, <1>3, <2>1 DEF Meaning
<1>5. CASE SeekFails \/ ReadStatus \/ ReadError \/ NoConfigIndex
  <2>1. at' = "done" /\ out' \in {"error", "noIndex"}
    BY <1>5 DEF SeekFails, ReadStatus, ReadError, NoConfigIndex
  <2> QED
    BY <2>1 DEF Meaning
<1>6. CASE ReadBlock
  <2>1. /\ at' = Flushes[at] /\ at \in {"readNewest", "read"} /\ out' = out
        /\ got' = Head(down).num /\ UNCHANGED <<op, num, chain>>
    BY <1>6 DEF ReadBlock
  <2>2. Answer(got')
    <3>1. /\ Reading /\ down # <<>> /\ Head(down).type = "block"
      BY <1>1, <1>6 DEF ReadBlock, Conversation
    <3>2. Head(<<Status(FALSE)>>).type = "status"
      <4>1. Head(<<Status(FALSE)>>) = Status(FALSE)
        BY Ends
      <4> QED
        BY <4>1, Kinds
    <3>3. PICK n \in Blocks : Answer(n) /\ (down = <<Block(n)>> \/ down = <<Block(n), Status(TRUE)>>)
      BY <3>1, <3>2 DEF Reading
    <3>4. Head(<<Block(n)>>).num = n /\ Head(<<Block(n), Status(TRUE)>>).num = n
      BY Ends, Kinds
    <3> QED
      BY <2>1, <3>3, <3>4
  <2> QED
    BY <1>1, <1>3, <2>1, <2>2 DEF Meaning, Answer
<1>7. CASE FlushNewest
  <2>1. /\ at = "flushNewest" /\ at' = "specified" /\ num' = LastConfig(got) /\ out' = out
        /\ UNCHANGED <<op, got, chain>>
    BY <1>7 DEF FlushNewest, ConfigIndex
  <2>2. got \in since..top
    BY <1>1, <2>1 DEF Meaning
  <2>3. LastConfig(got)' = LastConfig(got)
    BY <2>1 DEF LastConfig
  <2>4. ConfigOfTheCall(num)'
    BY <2>1, <2>2, <2>3 DEF ConfigOfTheCall, LastConfig
  <2> QED
    BY <1>1, <2>1, <2>4 DEF Meaning
<1>8. CASE FlushSpecified
  <2>1. /\ at = "flush" /\ at' = "done" /\ out' = "ok"
        /\ UNCHANGED <<op, num, got, chain>>
    BY <1>8 DEF FlushSpecified
  <2> QED
    BY <1>1, <1>3, <2>1 DEF Meaning
<1>9. CASE Grow
  <2>1. UNCHANGED <<client, since>> /\ top' = top + 1 /\ top \in Nat /\ since \in 0..top
    BY <1>1, <1>9, MaxBlockAssumption DEF Grow, TypeOK, Blocks
  <2>2. since..top \subseteq since'..top'
    BY <2>1
  <2>3. ASSUME ConfigOfTheCall(num)  PROVE ConfigOfTheCall(num)'
    <3>1. PICK b \in since..top : num = LastConfig(b)
      BY <2>3 DEF ConfigOfTheCall
    <3>2. b \in 0..top
      BY <2>1
    <3>3. LastConfig(b)' = LastConfig(b)
      BY <1>1, <1>9, <3>2, LastKept
    <3>4. num' = LastConfig(b)' /\ b \in since'..top'
      BY <2>1, <2>2, <3>1, <3>3
    <3> QED
      BY <3>4 DEF ConfigOfTheCall
  <2> QED
    BY <1>1, <2>1, <2>2, <2>3 DEF Meaning
<1>10. CASE Orderer \/ Break \/ UNCHANGED vars
  BY <1>2, <1>10 DEF Orderer, ServeBlock, ServeStatus, Refuse, Break, vars
<1> QED
  BY <1>4, <1>5, <1>6, <1>7, <1>8, <1>9, <1>10 DEF Next, Caller, Read

LEMMA NextInv == StreamInv /\ [Next]_vars => StreamInv'
<1> SUFFICES ASSUME StreamInv, [Next]_vars PROVE StreamInv'
  OBVIOUS
<1>1. TypeOK' /\ Meaning'
  BY TypeStep, MeaningStep DEF StreamInv
<1>2. Talk'
  <2>1. ASSUME UNCHANGED vars  PROVE Talk'
    BY <2>1 DEF StreamInv, Talk, QuietSeek, NoSpuriousError, Conversation, Reading, Flushing,
      Asked, Answer, vars, client, stream, chain
  <2> QED
    BY <2>1, CallerTalks, OrdererTalks, GrowTalks DEF Next
<1> QED
  BY <1>1, <1>2 DEF StreamInv, Talk

-----------------------------------------------------------------------------
(* Theorems. *)

(* Every seek goes out on a quiet stream, and no call fails for what the   *)
(* call before it left there.                                              *)
THEOREM StreamCorrect == Spec => []StreamInv
<1> QED
  BY InitInv, NextInv, PTL DEF Spec

(* FetchBlock returns the block it names, and FetchConfig a config that    *)
(* was in force at some moment of the call.                                *)
THEOREM BlockIsRight == Spec => []RightBlock
<1>1. StreamInv => RightBlock
  <2> SUFFICES ASSUME StreamInv, out = "ok"
               PROVE  IF op = "FetchBlock" THEN got = num
                      ELSE \E n \in since..top : got = LastConfig(n)
    BY DEF RightBlock
  <2>1. got = num /\ (op = "FetchConfig" => ConfigOfTheCall(num))
    BY DEF StreamInv, Meaning
  <2>2. op \in {"FetchConfig", "FetchBlock"}
    BY DEF StreamInv, TypeOK
  <2> QED
    BY <2>1, <2>2 DEF ConfigOfTheCall
<1> QED
  BY <1>1, StreamCorrect, PTL
================================================================================
