--------------------------------- MODULE Height ---------------------------------
(***************************************************************************)
(* internal/rwsetutil/version.go, internal/utils/util.go: the heights of   *)
(* transactions, their comparison in 64-bit arithmetic, and the            *)
(* order-preserving encoding that is the byte representation of a height.  *)
(*                                                                         *)
(* The code has Base = 256 and Width = 8.                                  *)
(***************************************************************************)
EXTENDS Digits

CONSTANTS
  Numbers,    \* the numbers that heights are made of
  Garbage,    \* byte strings to decode that ToBytes need not have made
  None

Modulus == Base ^ Width
Half    == Modulus \div 2
Cont    == Base \div 2      \* first byte of a varint that has another one

ASSUME NumbersAssumption == Numbers \subseteq 0..Modulus - 1
ASSUME GarbageAssumption == Garbage \subseteq Seq(Byte)

Heights == [BlockNum : Numbers, TxNum : Numbers]

(* What a decoder yields: a number or a height, and the bytes it took.     *)
Uint == 0..Modulus - 1
Decoded == [num : Uint, n : 1..Width + 1]
DecodedHeight == [height : [BlockNum : Uint, TxNum : Uint], n : 2..2 * (Width + 1)]

ASSUME NoneAssumption == None \notin Heights \cup Decoded \cup DecodedHeight

VARIABLES
  given,   \* the heights to encode, or None
  bytes,   \* their encodings, one after the other
  pos,     \* bytes decoded
  out,     \* heights decoded
  step     \* "encode", "decode", "done" or "error"

vars == <<given, bytes, pos, out, step>>

-----------------------------------------------------------------------------
(* Comparison. *)

(* int(x - y) of two uint64. *)
Diff(x, y) ==
  LET d == IF x >= y THEN x - y ELSE x - y + Modulus
  IN IF d < Half THEN d ELSE d - Modulus

Sign(d) == IF d > 0 THEN 1 ELSE -1

(* Mutant: the transaction numbers are compared first. *)
CompareTxFirst(h, h1) ==
  IF h.TxNum # h1.TxNum THEN Sign(Diff(h.TxNum, h1.TxNum))
  ELSE IF h.BlockNum # h1.BlockNum THEN Sign(Diff(h.BlockNum, h1.BlockNum))
  ELSE 0

Compare(h, h1) ==
  IF h.BlockNum # h1.BlockNum THEN Sign(Diff(h.BlockNum, h1.BlockNum))
  ELSE IF h.TxNum # h1.TxNum THEN Sign(Diff(h.TxNum, h1.TxNum))
  ELSE 0

(* Pointers: either may be nil. *)
AreSame(h1, h2) ==
  IF h1 = None THEN h2 = None ELSE h2 # None /\ Compare(h1, h2) = 0

-----------------------------------------------------------------------------
(* Encoding. *)

(* Mutant: the least significant byte comes first. *)
EncodeLittleEndian(n) == <<Size(n)>> \o [i \in 1..Size(n) |-> Digit(n, i - 1)]

EncodeOrderPreservingVarUint64(n) ==
  <<Size(n)>> \o [i \in 1..Size(n) |-> Digit(n, Size(n) - i)]

ToBytes(h) ==
  EncodeOrderPreservingVarUint64(h.BlockNum) \o EncodeOrderPreservingVarUint64(h.TxNum)

(* Mutant: a number may have more bytes than a uint64. *)
DecodeAnySize(b) ==
  IF b = <<>> \/ b[1] >= Cont \/ b[1] > Len(b) - 1 THEN None
  ELSE [num |-> Value(SubSeq(b, 2, b[1] + 1)), n |-> b[1] + 1]

(* A number and the bytes it took, or None for an error: the size is not   *)
(* one byte, is too large, or is more than there is.                       *)
DecodeOrderPreservingVarUint64(b) ==
  IF b = <<>> \/ b[1] >= Cont \/ b[1] > Width \/ b[1] > Len(b) - 1 THEN None
  ELSE [num |-> Value(SubSeq(b, 2, b[1] + 1)), n |-> b[1] + 1]

From(b, n) == SubSeq(b, n + 1, Len(b))

NewHeightFromBytes(b) ==
  LET block == DecodeOrderPreservingVarUint64(b) IN
  IF block = None THEN None
  ELSE LET tx == DecodeOrderPreservingVarUint64(From(b, block.n)) IN
       IF tx = None THEN None
       ELSE [height |-> [BlockNum |-> block.num, TxNum |-> tx.num], n |-> block.n + tx.n]

-----------------------------------------------------------------------------
Init ==
  /\ \/ given \in Heights \X Heights /\ bytes = <<>> /\ step = "encode"
     \/ given = None /\ bytes \in Garbage /\ step = "decode"
  /\ pos = 0 /\ out = <<>>

Encode ==
  /\ step = "encode"
  /\ bytes' = ToBytes(given[1]) \o ToBytes(given[2])
  /\ step' = "decode"
  /\ UNCHANGED <<given, pos, out>>

(* The reader takes heights off the bytes until there are none left.       *)
Decode ==
  /\ step = "decode"
  /\ LET r == NewHeightFromBytes(From(bytes, pos)) IN
       IF r = None THEN step' = "error" /\ UNCHANGED <<pos, out>>
       ELSE /\ pos' = pos + r.n
            /\ out' = Append(out, r.height)
            /\ step' = IF pos' = Len(bytes) THEN "done" ELSE "decode"
  /\ UNCHANGED <<given, bytes>>

Next == Encode \/ Decode

Spec == Init /\ [][Next]_vars

-----------------------------------------------------------------------------
(* Properties. *)

Less(h, h1) ==
  h.BlockNum < h1.BlockNum \/ (h.BlockNum = h1.BlockNum /\ h.TxNum < h1.TxNum)

(* bytes.Compare(b, c) < 0 *)
BytesLess(b, c) ==
  \E k \in 0..Len(b) :
    /\ k <= Len(c) /\ \A i \in 1..k : b[i] = c[i]
    /\ \/ k = Len(b) /\ k < Len(c)
       \/ k < Len(b) /\ k < Len(c) /\ b[k + 1] < c[k + 1]

(* What ToBytes wrote, NewHeightFromBytes reads, and nothing of what comes *)
(* after it: encodings can be put one after the other.                     *)
RoundTrip ==
  given # None =>
    /\ step # "error"
    /\ step = "done" => out = given

(* The encodings of two heights compare, byte by byte, as the heights do,  *)
(* whatever the number of bytes that are left out.                         *)
OrderKept ==
  given # None =>
    (BytesLess(ToBytes(given[1]), ToBytes(given[2])) <=> Less(given[1], given[2]))

(* From any bytes at all, decoding takes only what is there and yields     *)
(* numbers that fit a uint64.                                              *)
DecodeInBounds ==
  /\ pos <= Len(bytes)
  /\ \A i \in DOMAIN out : out[i].BlockNum < Modulus /\ out[i].TxNum < Modulus

(* Decoding gives back what was encoded, and stays within what is there;   *)
(* and what is encoded keeps the order.                                    *)
EncodingInv == RoundTrip /\ DecodeInBounds /\ OrderKept

(* AreSame tells equal heights, and nil ones, from others. *)
SameIsEqual ==
  given # None =>
    \A h1, h2 \in {given[1], given[2], None} : AreSame(h1, h2) <=> h1 = h2

IsOrder(h, h1) ==
  Compare(h, h1) = (IF h = h1 THEN 0 ELSE IF Less(h, h1) THEN -1 ELSE 1)

Near(x, y) == x - y < Half /\ y - x < Half

(* Compare is the order of heights as long as block numbers, and numbers   *)
(* in a block, are less than half the range apart.  Its comment says so of *)
(* all heights; farther apart the sign of int(x - y) is the wrong one.     *)
CompareNear ==
  given # None =>
    LET h == given[1]  h1 == given[2] IN
      Near(h.BlockNum, h1.BlockNum) /\ Near(h.TxNum, h1.TxNum) => IsOrder(h, h1)
=================================================================================
