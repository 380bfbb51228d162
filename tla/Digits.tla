--------------------------------- MODULE Digits ---------------------------------
(***************************************************************************)
(* Numbers as bytes, the most significant first, as encoding/binary and    *)
(* math/big write and read them.                                           *)
(*                                                                         *)
(* The code has Base = 256; Width is 8 for a uint64 and the size of the    *)
(* curve for a key.                                                        *)
(***************************************************************************)
EXTENDS Integers, Sequences

CONSTANTS
  Base,       \* how many values a byte has
  Width       \* bytes of a number

Byte == 0..Base - 1

ASSUME BaseAssumption == Base \in Nat /\ Base % 2 = 0
ASSUME WidthAssumption == Width \in Nat \ {0} /\ Width < Base \div 2

(* What powers are, as far as they are needed.                             *)
ASSUME PowerAssumption ==
  Base ^ 0 = 1 /\ \A i \in 0..Width - 1 : Base ^ (i + 1) = Base * Base ^ i

Digit(n, i) == (n \div Base ^ i) % Base

(* Bytes of n without leading zeros: none for 0. *)
Size(n) == CHOOSE s \in 0..Width : n < Base ^ s /\ (s > 0 => n >= Base ^ (s - 1))

Value(b) ==
  LET v[i \in 0..Len(b)] == IF i = 0 THEN 0 ELSE v[i - 1] * Base + b[i] IN v[Len(b)]
=================================================================================
