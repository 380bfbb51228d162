---------------------------- MODULE AlgorithmProofs ----------------------------
(***************************************************************************)
(* Proofs about what runs on the client's machine, for any constants: how  *)
(* heights compare, whose module an installer packs, what comes back of    *)
(* read-write sets, who governs a channel that was configured here, that   *)
(* keys come back from PEM and signatures verify, what chaincode packages  *)
(* are taken for, what a code package holds, and what a signature policy   *)
(* compiles to.                                                            *)
(***************************************************************************)
EXTENDS Algorithms, FiniteSetTheorems, SequenceTheorems, TLAPS

-----------------------------------------------------------------------------
(* A nonempty set of numbers has a least one. *)
LEMMA Least ==
  ASSUME NEW C \in SUBSET Nat, C # {}
  PROVE  \E m \in C : \A d \in C : m <= d
<1>1. PICK m \in C : \A d \in C : ~ (<<d, m>> \in OpToRel(<, Nat))
  BY NatLessThanWellFounded, WFMin
<1>2. \A d \in C : ~(d < m)
  BY <1>1 DEF OpToRel
<1> QED
  BY <1>2

(* Powers of the base, and half the range of a number.                     *)
Pow(i) == Base ^ i

LEMMA Powers ==
  /\ Pow(0) = 1
  /\ \A i \in 0..Width - 1 : Pow(i + 1) = Base * Pow(i)
  /\ Base \in Nat /\ Base >= 4 /\ Width \in Nat \ {0} /\ Width < Cont /\ Base = 2 * Cont
  /\ Cont \in Nat
<1>1. Pow(0) = 1 /\ \A i \in 0..Width - 1 : Pow(i + 1) = Base * Pow(i)
  BY PowerAssumption DEF Pow
<1>2. Base \in Nat /\ Base % 2 = 0 /\ Width \in Nat \ {0} /\ Width < Cont
  BY BaseAssumption, WidthAssumption DEF Cont
<1>3. Base = 2 * Cont /\ Cont \in Nat
  BY <1>2 DEF Cont
<1> QED
  BY <1>1, <1>2, <1>3

LEMMA PowPositive ==
  ASSUME NEW i \in 0..Width
  PROVE  Pow(i) \in Nat /\ Pow(i) > 0
<1> DEFINE C == {j \in 0..Width : ~(Pow(j) \in Nat /\ Pow(j) > 0)}
<1>1. C = {}
  <2> SUFFICES ASSUME C # {} PROVE FALSE
    OBVIOUS
  <2>1. C \in SUBSET Nat
    BY Powers
  <2>2. PICK m \in C : \A d \in C : m <= d
    BY <2>1, Least
  <2>3. m \in 0..Width /\ ~(Pow(m) \in Nat /\ Pow(m) > 0)
    OBVIOUS
  <2>4. m # 0
    BY <2>3, Powers
  <2>5. PICK j \in Nat : m = j + 1 /\ j \in 0..Width - 1 /\ j \in 0..Width
    BY <2>3, <2>4, Powers
  <2>6. Pow(j) \in Nat /\ Pow(j) > 0
    BY <2>2, <2>5
  <2>7. Pow(m) = Base * Pow(j)
    BY <2>5, Powers
  <2>8. \A x, y \in Nat : x >= 4 /\ y > 0 => x * y \in Nat /\ x * y > 0
    OBVIOUS
  <2> QED
    BY <2>3, <2>6, <2>7, <2>8, Powers
<1> QED
  BY <1>1

LEMMA PowMonotone ==
  ASSUME NEW i \in 0..Width, NEW k \in i..Width
  PROVE  Pow(i) <= Pow(k)
<1> DEFINE C == {j \in i..Width : ~(Pow(i) <= Pow(j))}
<1>1. C = {}
  <2> SUFFICES ASSUME C # {} PROVE FALSE
    OBVIOUS
  <2>1. C \in SUBSET Nat
    BY Powers
  <2>2. PICK m \in C : \A d \in C : m <= d
    BY <2>1, Least
  <2>3. m \in i..Width /\ ~(Pow(i) <= Pow(m)) /\ Pow(i) \in Nat
    BY PowPositive
  <2>4. m # i
    BY <2>3
  <2>5. PICK j \in Nat : m = j + 1 /\ j \in 0..Width - 1 /\ j \in i..Width /\ j \in 0..Width
    BY <2>3, <2>4, Powers
  <2>6. Pow(i) <= Pow(j) /\ Pow(j) \in Nat
    BY <2>2, <2>5, PowPositive
  <2>7. Pow(m) = Base * Pow(j)
    BY <2>5, Powers
  <2>8. \A x, y \in Nat : x >= 4 => x * y >= y
    OBVIOUS
  <2>9. Pow(m) >= Pow(j)
    BY <2>6, <2>7, <2>8, Powers
  <2> QED
    BY <2>3, <2>6, <2>9, <2>7, Powers
<1> QED
  BY <1>1

LEMMA ModulusIs == Modulus \in Nat /\ Modulus = Pow(Width) /\ Width \in 0..Width
<1>1. Modulus = Pow(Width) /\ Width \in 0..Width
  BY Powers DEF Modulus, Pow
<1> QED
  BY <1>1, PowPositive

LEMMA HalfIs == Modulus = 2 * Half /\ Half \in Nat
<1>1. PICK k \in Nat : k = Width - 1 /\ Width = k + 1 /\ k \in 0..Width - 1 /\ k \in 0..Width
  BY Powers
<1>2. PICK p \in Nat : p = Pow(k)
  BY <1>1, PowPositive
<1>3. Modulus = (2 * Cont) * p
  BY <1>1, <1>2, ModulusIs, Powers
<1>4. PICK c \in Nat : c = Cont
  BY Powers
<1>5. PICK q \in Nat : q = c * p
  OBVIOUS
<1>6. (2 * c) * p = 2 * q
  BY <1>5
<1>7. Modulus = 2 * q
  BY <1>3, <1>4, <1>6
<1>8. Half = q
  BY <1>7 DEF Half
<1> QED
  BY <1>7, <1>8


-----------------------------------------------------------------------------
(* Height: Compare and AreSame for numbers of any width.  How int(x - y)   *)
(* and its sign come out, and from that where Compare is the order.        *)

(* The difference wraps around to the right sign within half the range and *)
(* is zero only for equal numbers.                                         *)
LEMMA DiffSign ==
  ASSUME NEW x \in 0..Modulus - 1, NEW y \in 0..Modulus - 1, x # y
  PROVE  /\ Sign(Diff(x, y)) \in {-1, 1}
         /\ Near(x, y) => (Sign(Diff(x, y)) = 1 <=> x > y)
         /\ ~Near(x, y) => (Sign(Diff(x, y)) = 1 <=> x < y /\ x - y # -Half)
  BY ModulusIs, HalfIs DEF Sign, Diff, Near

(* What a height is made of. *)
LEMMA HeightParts ==
  ASSUME NEW h \in Heights
  PROVE  /\ h.BlockNum \in 0..Modulus - 1 /\ h.TxNum \in 0..Modulus - 1
         /\ h = [BlockNum |-> h.BlockNum, TxNum |-> h.TxNum]
  BY NumbersAssumption DEF Heights

(* Compare is the order of heights whose parts are less than half the      *)
(* range apart.                                                            *)
LEMMA CompareIsOrderNear ==
  ASSUME NEW h \in Heights, NEW h1 \in Heights,
         Near(h.BlockNum, h1.BlockNum), Near(h.TxNum, h1.TxNum)
  PROVE  IsOrder(h, h1)
<1>1. /\ h.BlockNum \in 0..Modulus - 1 /\ h.TxNum \in 0..Modulus - 1
      /\ h1.BlockNum \in 0..Modulus - 1 /\ h1.TxNum \in 0..Modulus - 1
  BY HeightParts
<1>2. CASE h.BlockNum # h1.BlockNum
  <2>1. /\ Sign(Diff(h.BlockNum, h1.BlockNum)) \in {-1, 1}
        /\ Sign(Diff(h.BlockNum, h1.BlockNum)) = 1 <=> h.BlockNum > h1.BlockNum
    BY <1>1, <1>2, DiffSign
  <2> QED  BY <1>1, <1>2, <2>1, ModulusIs, HalfIs DEF IsOrder, Compare, Less
<1>3. CASE h.BlockNum = h1.BlockNum /\ h.TxNum # h1.TxNum
  <2>1. /\ Sign(Diff(h.TxNum, h1.TxNum)) \in {-1, 1}
        /\ Sign(Diff(h.TxNum, h1.TxNum)) = 1 <=> h.TxNum > h1.TxNum
    BY <1>1, <1>3, DiffSign
  <2> QED  BY <1>1, <1>3, <2>1, ModulusIs, HalfIs DEF IsOrder, Compare, Less
<1>4. CASE h.BlockNum = h1.BlockNum /\ h.TxNum = h1.TxNum
  <2>1. h = h1  BY <1>4, HeightParts
  <2> QED  BY <1>4, <2>1 DEF IsOrder, Compare
<1> QED  BY <1>2, <1>3, <1>4

(* Compare says 0 of equal heights only, however far apart they are.       *)
LEMMA CompareZero ==
  ASSUME NEW h \in Heights, NEW h1 \in Heights
  PROVE  Compare(h, h1) = 0 <=> h = h1
<1>1. /\ h.BlockNum \in 0..Modulus - 1 /\ h.TxNum \in 0..Modulus - 1
      /\ h1.BlockNum \in 0..Modulus - 1 /\ h1.TxNum \in 0..Modulus - 1
  BY HeightParts
<1>2. CASE h.BlockNum # h1.BlockNum
  <2>1. Sign(Diff(h.BlockNum, h1.BlockNum)) \in {-1, 1}  BY <1>1, <1>2, DiffSign
  <2> QED  BY <1>2, <2>1 DEF Compare
<1>3. CASE h.BlockNum = h1.BlockNum /\ h.TxNum # h1.TxNum
  <2>1. Sign(Diff(h.TxNum, h1.TxNum)) \in {-1, 1}  BY <1>1, <1>3, DiffSign
  <2> QED  BY <1>3, <2>1 DEF Compare
<1>4. CASE h.BlockNum = h1.BlockNum /\ h.TxNum = h1.TxNum
  <2>1. h = h1  BY <1>4, HeightParts
  <2> QED  BY <1>4, <2>1 DEF Compare
<1> QED  BY <1>2, <1>3, <1>4

-----------------------------------------------------------------------------
Given == given # None => given \in Heights \X Heights

LEMMA GivenInvariant == Spec => []Given
<1>1. Init => Given  BY DEF Init, Given
<1>2. Given /\ [Next]_vars => Given'  BY DEF Given, Next, Encode, Decode, vars
<1> QED  BY <1>1, <1>2, PTL DEF Spec

(* Compare orders any two heights whose block numbers, and whose numbers   *)
(* within a block, are less than half the range apart.                     *)
THEOREM CompareOrders == Spec => []CompareNear
<1>1. Given => CompareNear
  <2> SUFFICES ASSUME Given, given # None,
                      Near(given[1].BlockNum, given[2].BlockNum),
                      Near(given[1].TxNum, given[2].TxNum)
               PROVE  IsOrder(given[1], given[2])
    BY DEF CompareNear
  <2>1. given[1] \in Heights /\ given[2] \in Heights  BY DEF Given
  <2> QED  BY <2>1, CompareIsOrderNear
<1> QED  BY <1>1, GivenInvariant, PTL

(* AreSame, which asks Compare, is equality of heights and of nil, also    *)
(* where Compare has the order wrong.                                      *)
THEOREM SameOnlyIfEqual == Spec => []SameIsEqual
<1>1. Given => SameIsEqual
  <2> SUFFICES ASSUME Given, given # None,
                      NEW h1 \in {given[1], given[2], None},
                      NEW h2 \in {given[1], given[2], None}
               PROVE  AreSame(h1, h2) <=> h1 = h2
    BY DEF SameIsEqual
  <2>1. given[1] \in Heights /\ given[2] \in Heights  BY DEF Given
  <2>2. CASE h1 = None \/ h2 = None  BY <2>2 DEF AreSame
  <2>3. CASE h1 # None /\ h2 # None
    <3>1. h1 \in Heights /\ h2 \in Heights  BY <2>1, <2>3
    <3> QED  BY <2>3, <3>1, CompareZero DEF AreSame
  <2> QED  BY <2>2, <2>3
<1> QED  BY <1>1, GivenInvariant, PTL

-----------------------------------------------------------------------------
(* Height: what is encoded is decoded, and keeps its order, for any base,  *)
(* width and numbers: how many bytes a number has, what they are worth,    *)
(* what is read of them, and where two encodings first differ.             *)

(* What is left of a number without its last i digits. *)
Rest(n, i) == n \div Pow(i)

LEMMA RestStep ==
  ASSUME NEW n \in Nat, NEW i \in 0..Width - 1
  PROVE  /\ Rest(n, i) \in Nat /\ Rest(n, i + 1) \in Nat
         /\ Digit(n, i) \in 0..Base - 1
         /\ Rest(n, i) = Rest(n, i + 1) * Base + Digit(n, i)
<1>1. Digit(n, i) = Rest(n, i) % Base
  BY DEF Digit, Rest, Pow
<1>2. PICK p : p = Pow(i)
  OBVIOUS
<1>3. p \in Nat /\ p > 0 /\ Pow(i + 1) = Base * p /\ Base \in Nat /\ Base > 0
  BY <1>2, PowPositive, Powers
<1>4. \A a, b \in Nat \ {0} : (n \div a) \div b = n \div (b * a)
  OBVIOUS
<1>5. Rest(n, i + 1) = Rest(n, i) \div Base
  BY <1>2, <1>3, <1>4 DEF Rest
<1>6. PICK q : q = Rest(n, i)
  OBVIOUS
<1>7. q \in Nat
  BY <1>2, <1>3, <1>6 DEF Rest
<1>8. PICK x, r : x = q \div Base /\ r = q % Base
  OBVIOUS
<1>9. q = x * Base + r /\ x \in Nat /\ r \in 0..Base - 1
  BY <1>3, <1>7, <1>8
<1>10. Rest(n, i) = q /\ Rest(n, i + 1) = x /\ Digit(n, i) = r
  BY <1>1, <1>5, <1>6, <1>8
<1> QED
  BY <1>7, <1>9, <1>10

LEMMA RestEnds ==
  ASSUME NEW n \in Nat, NEW s \in 0..Width, n < Pow(s)
  PROVE  Rest(n, s) = 0 /\ Rest(n, 0) = n
<1>1. \A p \in Nat \ {0} : n < p => n \div p = 0
  OBVIOUS
<1>2. Pow(s) \in Nat \ {0}
  BY PowPositive
<1>3. n \div 1 = n
  OBVIOUS
<1> QED
  BY <1>1, <1>2, <1>3, Powers DEF Rest

(* Size. *)
LEMMA SizeIs ==
  ASSUME NEW n \in 0..Modulus - 1
  PROVE  /\ Size(n) \in 0..Width /\ n < Pow(Size(n))
         /\ Size(n) > 0 => n >= Pow(Size(n) - 1)
<1> DEFINE C == {s \in 0..Width : n < Pow(s)}
<1>0. Modulus = Pow(Width) /\ Width \in 0..Width
  BY Powers DEF Modulus, Pow
<1>1. Width \in C /\ C \in SUBSET Nat
  BY <1>0, PowPositive, Powers
<1>2. PICK s \in C : \A d \in C : s <= d
  BY <1>1, Least
<1>3. s \in 0..Width /\ n < Pow(s)
  OBVIOUS
<1>4. s > 0 => n >= Pow(s - 1)
  <2> SUFFICES ASSUME s > 0 PROVE n >= Pow(s - 1)
    OBVIOUS
  <2>1. s - 1 \in 0..Width /\ s - 1 \notin C
    BY <1>2, <1>3, Powers
  <2>2. ~(n < Pow(s - 1)) /\ Pow(s - 1) \in Nat /\ n \in Nat
    BY <1>0, <2>1, PowPositive
  <2> QED
    BY <2>2
<1>5. \E z \in 0..Width : n < Base ^ z /\ (z > 0 => n >= Base ^ (z - 1))
  BY <1>3, <1>4 DEF Pow
<1> QED
  BY <1>5 DEF Size, Pow

(* The more bytes, the larger the number. *)
LEMMA SizeMonotone ==
  ASSUME NEW a \in 0..Modulus - 1, NEW c \in 0..Modulus - 1, a < c
  PROVE  Size(a) <= Size(c)
<1> SUFFICES ASSUME Size(c) < Size(a) PROVE FALSE
  BY SizeIs
<1>1. /\ Size(a) \in 0..Width /\ Size(c) \in 0..Width
      /\ c < Pow(Size(c)) /\ a >= Pow(Size(a) - 1)
  BY SizeIs
<1>2. Size(c) \in 0..Width /\ Size(a) - 1 \in Size(c)..Width /\ Size(a) - 1 \in 0..Width
  BY <1>1, Powers
<1>3. Pow(Size(c)) <= Pow(Size(a) - 1)
  BY <1>2, PowMonotone
<1>4. Pow(Size(c)) \in Nat /\ Pow(Size(a) - 1) \in Nat /\ a \in Int /\ c \in Int
  BY <1>2, PowPositive
<1> QED
  BY <1>1, <1>3, <1>4

(* Of two numbers the less has, at the first digit that differs, the less. *)
LEMMA FirstDigit ==
  ASSUME NEW s \in 0..Width, NEW a \in Nat, NEW c \in Nat, a < c, c < Pow(s)
  PROVE  \E j \in 0..s - 1 : /\ Digit(a, j) < Digit(c, j)
                             /\ \A m \in j + 1..s - 1 : Digit(a, m) = Digit(c, m)
<1> DEFINE C == {j \in 0..s : Rest(a, s - j) # Rest(c, s - j)}
<1>1. a < Pow(s) /\ Pow(s) \in Nat
  BY PowPositive
<1>2. /\ Rest(a, s) = 0 /\ Rest(c, s) = 0
      /\ Rest(a, 0) = a /\ Rest(c, 0) = c
  BY <1>1, RestEnds
<1>3. s \in C /\ 0 \notin C /\ C \in SUBSET Nat
  BY <1>2
<1>4. PICK i \in C : \A d \in C : i <= d
  BY <1>3, Least
<1>5. PICK j \in 0..s - 1 : j = s - i
  BY <1>3
<1>6. Rest(a, j) # Rest(c, j) /\ \A m \in j + 1..s : Rest(a, m) = Rest(c, m)
  <2>1. Rest(a, j) # Rest(c, j)
    BY <1>5
  <2>2. ASSUME NEW m \in j + 1..s PROVE Rest(a, m) = Rest(c, m)
    <3>1. s - m \in 0..s /\ s - m < i /\ s - (s - m) = m
      BY <1>5
    <3>2. s - m \notin C
      <4>1. \A d \in C : ~(d < i)
        BY <1>3, <1>4
      <4> HIDE DEF C
      <4> QED
        BY <3>1, <4>1
    <3>3. PICK d : d = s - m
      OBVIOUS
    <3>4. d \in 0..s /\ d \notin C /\ s - d = m
      BY <3>1, <3>2, <3>3
    <3> QED
      BY <3>4
  <2> QED
    BY <2>1, <2>2
<1>7. \A m \in 0..s - 1 : /\ Rest(a, m) = Rest(a, m + 1) * Base + Digit(a, m)
                          /\ Rest(c, m) = Rest(c, m + 1) * Base + Digit(c, m)
                          /\ Digit(a, m) \in 0..Base - 1 /\ Digit(c, m) \in 0..Base - 1
                          /\ Rest(a, m + 1) \in Nat /\ Rest(c, m + 1) \in Nat
                          /\ Rest(a, m) \in Nat /\ Rest(c, m) \in Nat
  <2> SUFFICES ASSUME NEW n \in {a, c}, NEW m \in 0..s - 1
               PROVE  /\ Rest(n, m) = Rest(n, m + 1) * Base + Digit(n, m)
                      /\ Digit(n, m) \in 0..Base - 1
                      /\ Rest(n, m + 1) \in Nat /\ Rest(n, m) \in Nat
    OBVIOUS
  <2>1. m \in 0..Width - 1 /\ n \in Nat
    BY Powers
  <2> QED
    BY <2>1, RestStep
<1>8. Base \in Nat
  BY Powers
<1>9. ASSUME NEW m \in j + 1..s - 1 PROVE Digit(a, m) = Digit(c, m)
  <2>1. m \in 0..s - 1 /\ m \in j + 1..s /\ m + 1 \in j + 1..s
    OBVIOUS
  <2>2. Rest(a, m) = Rest(c, m) /\ Rest(a, m + 1) = Rest(c, m + 1)
    BY <1>6, <2>1
  <2>3. PICK z, x, y : z = Rest(a, m + 1) * Base /\ x = Digit(a, m) /\ y = Digit(c, m)
    OBVIOUS
  <2>4. x \in Nat /\ y \in Nat /\ z \in Nat
    <3>1. Rest(a, m + 1) \in Nat /\ x \in Nat /\ y \in Nat
      BY <1>7, <1>8, <2>1, <2>3
    <3>2. \A u, v \in Nat : u * v \in Nat
      OBVIOUS
    <3> QED
      BY <1>8, <2>3, <3>1, <3>2
  <2>5. z + x = z + y
    BY <1>7, <2>1, <2>2, <2>3
  <2> QED
    BY <2>3, <2>4, <2>5
<1>10. Digit(a, j) < Digit(c, j)
  <2>1. Rest(a, j) <= Rest(c, j)
    <3>1. Pow(j) \in Nat \ {0}
      <4>1. j \in 0..Width
        BY Powers
      <4> QED
        BY <4>1, PowPositive
    <3>2. \A p \in Nat \ {0} : a \div p <= c \div p
      OBVIOUS
    <3> QED
      BY <3>1, <3>2 DEF Rest
  <2>2. Rest(a, j + 1) = Rest(c, j + 1)
    BY <1>6
  <2>3. PICK z \in Nat : z = Rest(a, j + 1) * Base
    BY <1>7, <1>8
  <2> QED
    BY <1>6, <1>7, <2>1, <2>2, <2>3
<1> QED
  BY <1>9, <1>10

(* The recursion in Value, which has a solution for every string of bytes. *)
Sums(b, v) ==
  v = [i \in 0..Len(b) |-> IF i = 0 THEN 0 ELSE v[i - 1] * Base + b[i]]

LEMMA ValueChosen ==
  ASSUME NEW b
  PROVE  Value(b) = (CHOOSE v : Sums(b, v))[Len(b)]
BY Zenon DEF Value, Sums

LEMMA ValueIs ==
  ASSUME NEW b, Len(b) \in Nat
  PROVE  \E v : Sums(b, v) /\ Value(b) = v[Len(b)]
<1> DEFINE Part(n, f) ==
             f = [i \in 0..n |-> IF i = 0 THEN 0 ELSE f[i - 1] * Base + b[i]]
           C == {n \in 0..Len(b) : ~ \E f : Part(n, f)}
<1>1. \E f : Part(0, f)
  <2>1. PICK f : f = [i \in 0..0 |-> 0]
    OBVIOUS
  <2>2. Part(0, f)
    BY <2>1
  <2> QED
    BY <2>2
<1>2. ASSUME NEW m \in 1..Len(b), NEW f, Part(m - 1, f)
      PROVE  \E g : Part(m, g)
  <2>1. PICK z : z = f[m - 1] * Base + b[m]
    OBVIOUS
  <2>2. PICK g : g = [i \in 0..m |-> IF i = m THEN z ELSE f[i]]
    OBVIOUS
  <2>3. ASSUME NEW i \in 0..m
        PROVE  g[i] = IF i = 0 THEN 0 ELSE g[i - 1] * Base + b[i]
    <3>1. CASE i = m
      <4>1. g[i - 1] = f[m - 1] /\ g[i] = z /\ i # 0
        BY <2>2, <3>1
      <4> QED
        BY <2>1, <3>1, <4>1
    <3>2. CASE i # m
      <4>1. i \in 0..m - 1
        BY <3>2
      <4>2. f[i] = IF i = 0 THEN 0 ELSE f[i - 1] * Base + b[i]
        BY <1>2, <4>1
      <4>3. g[i] = f[i] /\ (i # 0 => g[i - 1] = f[i - 1])
        BY <2>2, <4>1
      <4> QED
        BY <4>2, <4>3
    <3> QED
      BY <3>1, <3>2
  <2>4. Part(m, g)
    <3>1. g = [i \in 0..m |-> g[i]]
      BY <2>2
    <3> QED
      BY <2>3, <3>1
  <2> QED
    BY <2>4
<1>3. C = {}
  <2> HIDE DEF Part
  <2> SUFFICES ASSUME C # {} PROVE FALSE
    OBVIOUS
  <2>0. C \in SUBSET Nat
    OBVIOUS
  <2>1. PICK m \in C : \A d \in C : m <= d
    BY <2>0, Least
  <2>2. m \in 0..Len(b) /\ ~ \E f : Part(m, f)
    OBVIOUS
  <2>3. m # 0
    BY <1>1, <2>2
  <2>4. m \in 1..Len(b) /\ m - 1 \in 0..Len(b) /\ m - 1 \notin C
    BY <2>1, <2>2, <2>3
  <2>5. PICK k : k = m - 1
    OBVIOUS
  <2>6. \E f : Part(k, f)
    BY <2>4, <2>5
  <2> QED
    BY <1>2, <2>2, <2>4, <2>5, <2>6
<1>4. \E f : Sums(b, f)
  <2>1. PICK l : l = Len(b)
    OBVIOUS
  <2>2. \E f : Part(l, f)
    <3> HIDE DEF Part
    <3> QED
      BY <1>3, <2>1
  <2> QED
    BY <2>1, <2>2 DEF Sums
<1>5. Sums(b, CHOOSE v : Sums(b, v))
  BY <1>4, Zenon
<1> QED
  BY <1>5, ValueChosen

(* Of any bytes, no more than fit. *)
LEMMA ValueBounded ==
  ASSUME NEW b \in Seq(Byte), Len(b) <= Width
  PROVE  Value(b) \in 0..Modulus - 1
<1>1. PICK L \in Nat : L = Len(b) /\ L <= Width
  BY LenProperties
<1>2. PICK v : Sums(b, v) /\ Value(b) = v[Len(b)]
  BY <1>1, ValueIs
<1>3. ASSUME NEW i \in 0..L
      PROVE  v[i] = IF i = 0 THEN 0 ELSE v[i - 1] * Base + b[i]
  BY <1>1, <1>2 DEF Sums
<1>4. \A i \in 1..L : b[i] \in 0..Base - 1
  BY <1>1, ElementOfSeq DEF Byte
<1> DEFINE C == {i \in 0..L : ~(v[i] \in Nat /\ v[i] < Pow(i))}
<1>5. C = {}
  <2> SUFFICES ASSUME C # {} PROVE FALSE
    OBVIOUS
  <2>0. C \in SUBSET Nat
    OBVIOUS
  <2>1. PICK m \in C : \A d \in C : m <= d
    BY <2>0, Least
  <2>2. m \in 0..L /\ ~(v[m] \in Nat /\ v[m] < Pow(m))
    OBVIOUS
  <2>3. m # 0
    BY <1>3, <2>2, Powers
  <2>4. PICK j \in 0..L : m = j + 1 /\ j \in 0..Width - 1 /\ j \in 0..Width
    BY <1>1, <2>2, <2>3, Powers
  <2>5. v[j] \in Nat /\ v[j] < Pow(j)
    BY <2>1, <2>4
  <2>6. v[m] = v[j] * Base + b[m] /\ Pow(m) = Base * Pow(j) /\ b[m] \in 0..Base - 1
    BY <1>3, <1>4, <2>2, <2>3, <2>4, Powers
  <2>7. PICK x, p, d, e : x = v[j] /\ p = Pow(j) /\ d = b[m] /\ e = Base
    OBVIOUS
  <2>8. x \in Nat /\ p \in Nat /\ e \in Nat /\ d \in Nat /\ d < e /\ x < p
    <3>1. x \in Nat /\ x < p
      BY <2>5, <2>7
    <3>2. p \in Nat
      BY <2>4, <2>7, PowPositive
    <3>3. e \in Nat
      BY <2>7, Powers
    <3>4. d \in Nat /\ d < e
      BY <2>6, <2>7, <3>3
    <3> QED
      BY <3>1, <3>2, <3>3, <3>4
  <2>9. x * e + d \in Nat /\ x * e + d < e * p
    BY ONLY <2>8
  <2>10. v[m] = x * e + d /\ Pow(m) = e * p
    BY <2>6, <2>7
  <2> QED
    BY <2>2, <2>9, <2>10
<1>6. v[L] \in Nat /\ v[L] < Pow(L)
  BY <1>1, <1>5
<1>7. Pow(L) <= Pow(Width) /\ Pow(Width) = Modulus /\ Pow(L) \in Nat /\ Pow(Width) \in Nat
  <2>1. L \in 0..Width /\ Width \in L..Width /\ Width \in 0..Width
    BY <1>1, Powers
  <2>2. Pow(Width) = Modulus
    BY DEF Pow, Modulus
  <2> QED
    BY <2>1, <2>2, PowMonotone, PowPositive
<1> QED
  BY <1>1, <1>2, <1>6, <1>7

(* Of its digits, a number. *)
LEMMA ValueOfDigits ==
  ASSUME NEW n \in Nat, NEW s \in 0..Width, n < Pow(s),
         NEW b, Len(b) = s, \A i \in 1..s : b[i] = Digit(n, s - i)
  PROVE  Value(b) = n
<1>1. PICK v : Sums(b, v) /\ Value(b) = v[Len(b)]
  BY ValueIs, Powers
<1>2. ASSUME NEW i \in 0..s
      PROVE  v[i] = IF i = 0 THEN 0 ELSE v[i - 1] * Base + b[i]
  BY <1>1 DEF Sums
<1>3. Rest(n, s) = 0 /\ Rest(n, 0) = n
  BY RestEnds
<1> DEFINE C == {i \in 0..s : v[i] # Rest(n, s - i)}
<1>4. C = {}
  <2> SUFFICES ASSUME C # {} PROVE FALSE
    OBVIOUS
  <2>0. C \in SUBSET Nat
    BY Powers
  <2>1. PICK m \in C : \A d \in C : m <= d
    BY <2>0, Least
  <2>2. m \in 0..s /\ v[m] # Rest(n, s - m)
    OBVIOUS
  <2>3. m # 0
    BY <1>2, <1>3, <2>2
  <2>4. PICK j \in 0..s : m = j + 1 /\ j \notin C
    BY <2>1, <2>2, <2>3
  <2>5. PICK k \in 0..Width - 1 : k = s - m /\ k + 1 = s - j
    BY <2>2, <2>4, Powers
  <2>6. v[j] = Rest(n, k + 1)
    BY <2>4, <2>5
  <2>7. v[m] = v[j] * Base + b[m] /\ b[m] = Digit(n, k)
    BY <1>2, <2>2, <2>3, <2>4, <2>5
  <2>8. Rest(n, k) = Rest(n, k + 1) * Base + Digit(n, k)
    BY <2>5, RestStep
  <2> QED
    BY <2>2, <2>5, <2>6, <2>7, <2>8
<1>5. v[s] = Rest(n, s - s)
  BY <1>4, Powers
<1> QED
  BY <1>1, <1>3, <1>5, Powers

Code(n) == EncodeOrderPreservingVarUint64(n)

(* The bytes of a number. *)
LEMMA CodeIs ==
  ASSUME NEW n \in Uint
  PROVE  /\ Code(n) \in Seq(Byte) /\ Len(Code(n)) = Size(n) + 1
         /\ Code(n)[1] = Size(n)
         /\ \A i \in 1..Size(n) : Code(n)[i + 1] = Digit(n, Size(n) - i)
<1>1. PICK s \in 0..Width : s = Size(n)
  BY SizeIs DEF Uint
<1>2. n \in Nat
  BY ModulusIs DEF Uint
<1>3. PICK d : d = [i \in 1..s |-> Digit(n, s - i)]
  OBVIOUS
<1>4. \A i \in 1..s : Digit(n, s - i) \in Byte
  <2> SUFFICES ASSUME NEW i \in 1..s
               PROVE  Digit(n, s - i) \in Byte
    OBVIOUS
  <2>1. PICK k \in 0..Width - 1 : k = s - i
    BY Powers
  <2> QED
    BY <1>2, <2>1, RestStep DEF Byte
<1>5. d \in Seq(Byte) /\ Len(d) = s
  <2>1. d \in [1..s -> Byte]
    BY <1>3, <1>4
  <2>2. s \in Nat
    BY Powers
  <2>3. d \in Seq(Byte)
    BY <2>1, <2>2, SeqDef
  <2>4. Len(d) \in Nat /\ DOMAIN d = 1..Len(d)
    BY <2>3, LenProperties
  <2>5. PICK k \in Nat : k = Len(d)
    BY <2>4
  <2>6. 1..k = 1..s
    BY <1>3, <2>4, <2>5
  <2>7. k = s
    BY ONLY k \in Nat, <2>2, <2>6
  <2> QED
    BY <2>3, <2>5, <2>7
<1>6. <<s>> \in Seq(Byte) /\ Len(<<s>>) = 1 /\ <<s>>[1] = s
  <2>1. s \in Byte
    BY Powers DEF Byte
  <2> QED
    BY <2>1
<1>7. PICK p : p = <<s>>
  OBVIOUS
<1>8. /\ p \o d \in Seq(Byte) /\ Len(p \o d) = Len(p) + Len(d)
      /\ \A i \in 1..Len(p) + Len(d) : (p \o d)[i] = IF i <= Len(p) THEN p[i] ELSE d[i - Len(p)]
  <2>1. p \in Seq(Byte)
    BY <1>6, <1>7
  <2> QED
    BY ONLY <1>5, <2>1, ConcatProperties
<1>9. PICK e : e = p \o d
  OBVIOUS
<1>10. Code(n) = e
  BY <1>1, <1>3, <1>7, <1>9 DEF Code, EncodeOrderPreservingVarUint64
<1>11. Len(p) = 1 /\ p[1] = s
  BY <1>6, <1>7
<1>12. e[1] = s /\ Len(e) = s + 1
  BY <1>5, <1>8, <1>9, <1>11, Powers
<1>13. ASSUME NEW i \in 1..s
       PROVE  e[i + 1] = Digit(n, s - i)
  <2>1. e[i + 1] = d[i]
    BY <1>5, <1>8, <1>9, <1>11, Powers
  <2> QED
    BY <1>3, <2>1
<1> QED
  BY <1>1, <1>8, <1>9, <1>10, <1>12, <1>13

StartsWith(b, e) == Len(e) <= Len(b) /\ \A i \in 1..Len(e) : b[i] = e[i]

(* What decoding yields of any bytes fits, and took no more than there is. *)
LEMMA DecodeBounded ==
  ASSUME NEW b \in Seq(Byte), NEW r, r = DecodeOrderPreservingVarUint64(b), r # None
  PROVE  r \in Decoded /\ r.n <= Len(b) /\ r = [num |-> r.num, n |-> r.n]
<1>1. PICK l \in Nat : l = Len(b)
  BY LenProperties
<1>2. ~(b = <<>> \/ b[1] >= Cont \/ b[1] > Width \/ b[1] > Len(b) - 1)
      /\ r = [num |-> Value(SubSeq(b, 2, b[1] + 1)), n |-> b[1] + 1]
  BY DEF DecodeOrderPreservingVarUint64
<1>3. l > 0 /\ b[1] \in Byte
  BY <1>1, <1>2, EmptySeq, ElementOfSeq
<1>4. PICK k \in 0..Width : k = b[1] /\ k + 1 <= l
  BY <1>1, <1>2, <1>3, Powers DEF Byte
<1>5. PICK c : c = SubSeq(b, 2, k + 1)
  OBVIOUS
<1>6. c \in Seq(Byte) /\ Len(c) <= Width
  <2>1. \A i \in 2..k + 1 : b[i] \in Byte
    BY <1>1, <1>4, ElementOfSeq
  <2>2. /\ SubSeq(b, 2, k + 1) \in Seq(Byte)
        /\ Len(SubSeq(b, 2, k + 1)) = IF 2 <= k + 1 THEN k + 1 - 2 + 1 ELSE 0
    <3>1. k + 1 \in Int
      BY Powers
    <3> QED
      BY <2>1, <3>1, SubSeqProperties
  <2> QED
    BY <1>5, <2>2, Powers
<1>7. Value(c) \in 0..Modulus - 1
  BY <1>6, ValueBounded
<1>8. r = [num |-> Value(c), n |-> k + 1]
  BY <1>2, <1>4, <1>5
<1> QED
  BY <1>1, <1>4, <1>7, <1>8, Powers DEF Decoded, Uint

(* What was encoded is what is decoded, whatever comes after it. *)
LEMMA DecodeIs ==
  ASSUME NEW n \in Uint, NEW b \in Seq(Byte), StartsWith(b, Code(n))
  PROVE  DecodeOrderPreservingVarUint64(b) = [num |-> n, n |-> Size(n) + 1]
<1>1. PICK s \in 0..Width : s = Size(n) /\ n < Pow(s)
  BY SizeIs DEF Uint
<1>2. PICK e : e = Code(n)
  OBVIOUS
<1>3. /\ Len(e) = s + 1 /\ e[1] = s
      /\ \A i \in 1..s : e[i + 1] = Digit(n, s - i)
  BY <1>1, <1>2, CodeIs
<1>4. /\ s + 1 <= Len(b) /\ Len(b) \in Nat /\ s \in Nat /\ s <= Width /\ s < Cont
      /\ \A i \in 1..s + 1 : b[i] = e[i]
  BY <1>2, <1>3, LenProperties, Powers DEF StartsWith
<1>5. b # <<>> /\ b[1] = s
  BY <1>3, <1>4
<1>6. PICK c : c = SubSeq(b, 2, s + 1)
  OBVIOUS
<1>7. Len(c) = s /\ \A i \in 1..s : c[i] = b[i + 1]
  <2>1. \A i \in 2..s + 1 : b[i] \in Byte
    BY <1>4, ElementOfSeq
  <2>2. /\ Len(SubSeq(b, 2, s + 1)) = IF 2 <= s + 1 THEN s + 1 - 2 + 1 ELSE 0
        /\ \A i \in 1 .. s + 1 - 2 + 1 : SubSeq(b, 2, s + 1)[i] = b[2 + i - 1]
    <3>1. s + 1 \in Int
      BY <1>4
    <3> QED
      BY <2>1, <3>1, SubSeqProperties
  <2> QED
    BY <1>4, <1>6, <2>2
<1>8. ASSUME NEW i \in 1..s
      PROVE  c[i] = Digit(n, s - i)
  <2>1. PICK j \in 1..s + 1 : j = i + 1
    BY ONLY s \in 0..Width
  <2>2. c[i] = b[j] /\ e[j] = Digit(n, s - i)
    BY <1>3, <1>7, <2>1
  <2> QED
    BY <1>4, <2>1, <2>2
<1>9. n \in Nat
  BY ModulusIs DEF Uint
<1>10. Value(c) = n
  BY <1>1, <1>7, <1>8, <1>9, ValueOfDigits
<1>11. ~(b = <<>> \/ b[1] >= Cont \/ b[1] > Width \/ b[1] > Len(b) - 1)
  BY <1>4, <1>5, Powers
<1>12. DecodeOrderPreservingVarUint64(b) = [num |-> Value(c), n |-> s + 1]
  BY <1>5, <1>6, <1>11 DEF DecodeOrderPreservingVarUint64
<1> QED
  BY <1>1, <1>10, <1>12

LEMMA HeightNumbers ==
  ASSUME NEW h \in Heights
  PROVE  /\ h.BlockNum \in Uint /\ h.TxNum \in Uint
         /\ h = [BlockNum |-> h.BlockNum, TxNum |-> h.TxNum]
BY NumbersAssumption DEF Heights, Uint

(* The bytes of a height: those of its numbers. *)
LEMMA ToBytesIs ==
  ASSUME NEW h \in Heights
  PROVE  \E x, y, b :
           /\ x = Code(h.BlockNum) /\ y = Code(h.TxNum) /\ b = ToBytes(h)
           /\ x \in Seq(Byte) /\ y \in Seq(Byte) /\ b \in Seq(Byte)
           /\ Len(x) = Size(h.BlockNum) + 1 /\ Len(y) = Size(h.TxNum) + 1
           /\ Len(x) \in Nat \ {0} /\ Len(y) \in Nat \ {0} /\ Len(b) = Len(x) + Len(y)
           /\ \A i \in 1..Len(x) + Len(y) : b[i] = IF i <= Len(x) THEN x[i] ELSE y[i - Len(x)]
<1>1. h.BlockNum \in Uint /\ h.TxNum \in Uint
  BY HeightNumbers
<1>2. PICK x, y : x = Code(h.BlockNum) /\ y = Code(h.TxNum)
  OBVIOUS
<1>3. x \in Seq(Byte) /\ Len(x) = Size(h.BlockNum) + 1
  BY <1>1, <1>2, CodeIs
<1>4. y \in Seq(Byte) /\ Len(y) = Size(h.TxNum) + 1
  BY <1>1, <1>2, CodeIs
<1>5. Size(h.BlockNum) \in Nat /\ Size(h.TxNum) \in Nat
  BY <1>1, SizeIs, Powers DEF Uint
<1>6. PICK b : b = x \o y
  OBVIOUS
<1>7. b = ToBytes(h)
  BY <1>2, <1>6 DEF ToBytes, Code
<1>8. /\ x \o y \in Seq(Byte) /\ Len(x \o y) = Len(x) + Len(y)
      /\ \A i \in 1..Len(x) + Len(y) : (x \o y)[i] = IF i <= Len(x) THEN x[i] ELSE y[i - Len(x)]
  BY ONLY <1>3, <1>4, ConcatProperties
<1>9. Len(x) \in Nat \ {0} /\ Len(y) \in Nat \ {0}
  BY <1>3, <1>4, <1>5
<1>10. /\ b \in Seq(Byte) /\ Len(b) = Len(x) + Len(y)
       /\ \A i \in 1..Len(x) + Len(y) : b[i] = IF i <= Len(x) THEN x[i] ELSE y[i - Len(x)]
  BY <1>6, <1>8
<1> WITNESS x, y, b
<1> QED
  BY <1>2, <1>3, <1>4, <1>7, <1>9, <1>10, Zenon

(* From leaves out what was read. *)
LEMMA FromIs ==
  ASSUME NEW b \in Seq(Byte), NEW p \in 0..Len(b)
  PROVE  /\ From(b, p) \in Seq(Byte) /\ Len(From(b, p)) = Len(b) - p
         /\ \A i \in 1..Len(b) - p : From(b, p)[i] = b[p + i]
<1>1. PICK l \in Nat : l = Len(b)
  BY LenProperties
<1>2. \A i \in p + 1..l : b[i] \in Byte
  BY <1>1, ElementOfSeq
<1>3. /\ SubSeq(b, p + 1, l) \in Seq(Byte)
      /\ Len(SubSeq(b, p + 1, l)) = IF p + 1 <= l THEN l - (p + 1) + 1 ELSE 0
      /\ \A i \in 1 .. l - (p + 1) + 1 : SubSeq(b, p + 1, l)[i] = b[(p + 1) + i - 1]
  <2>1. p + 1 \in Int /\ l \in Int
    BY <1>1
  <2> QED
    BY <1>2, <2>1, SubSeqProperties
<1> QED
  BY <1>1, <1>3 DEF From

(* A height that was written is read, whatever comes after it. *)
LEMMA HeightIsRead ==
  ASSUME NEW h \in Heights, NEW b \in Seq(Byte), StartsWith(b, ToBytes(h))
  PROVE  /\ NewHeightFromBytes(b) = [height |-> h, n |-> Len(ToBytes(h))]
         /\ NewHeightFromBytes(b) # None
<1>1. PICK m, k : m = h.BlockNum /\ k = h.TxNum
  OBVIOUS
<1>2. m \in Uint /\ k \in Uint /\ h = [BlockNum |-> m, TxNum |-> k]
  BY <1>1, HeightNumbers
<1>3. PICK x, y, t :
        /\ x = Code(h.BlockNum) /\ y = Code(h.TxNum) /\ t = ToBytes(h)
        /\ x \in Seq(Byte) /\ y \in Seq(Byte) /\ t \in Seq(Byte)
        /\ Len(x) = Size(h.BlockNum) + 1 /\ Len(y) = Size(h.TxNum) + 1
        /\ Len(x) \in Nat \ {0} /\ Len(y) \in Nat \ {0} /\ Len(t) = Len(x) + Len(y)
        /\ \A i \in 1..Len(x) + Len(y) : t[i] = IF i <= Len(x) THEN x[i] ELSE y[i - Len(x)]
  BY ToBytesIs
<1>4. t = ToBytes(h) /\ x = Code(m) /\ y = Code(k)
  BY <1>1, <1>3
<1>5. /\ x \in Seq(Byte) /\ y \in Seq(Byte) /\ t \in Seq(Byte)
      /\ Len(x) = Size(m) + 1 /\ Len(y) = Size(k) + 1
      /\ Len(x) \in Nat \ {0} /\ Len(y) \in Nat \ {0}
      /\ Len(t) = Len(x) + Len(y)
      /\ \A i \in 1..Len(x) + Len(y) : t[i] = IF i <= Len(x) THEN x[i] ELSE y[i - Len(x)]
  BY <1>1, <1>3
<1>6. /\ Len(t) <= Len(b) /\ \A i \in 1..Len(t) : b[i] = t[i]
      /\ Len(b) \in Nat
  BY <1>4, LenProperties DEF StartsWith
<1>7. StartsWith(b, x)
  <2>1. Len(x) <= Len(t) /\ Len(x) <= Len(b)
    BY <1>5, <1>6
  <2>2. ASSUME NEW i \in 1..Len(x)
        PROVE  b[i] = x[i]
    <3>1. i \in 1..Len(t) /\ i \in 1..Len(x) + Len(y) /\ i <= Len(x)
      BY <1>5, <2>1
    <3> QED
      BY <1>5, <1>6, <3>1
  <2> QED
    BY <2>1, <2>2 DEF StartsWith
<1>8. DecodeOrderPreservingVarUint64(b) = [num |-> m, n |-> Len(x)]
  BY <1>2, <1>4, <1>5, <1>7, DecodeIs
<1>9. PICK p \in 0..Len(b) : p = Len(x)
  BY <1>5, <1>6
<1>10. PICK c : c = From(b, p)
  OBVIOUS
<1>11. /\ c \in Seq(Byte) /\ Len(c) = Len(b) - p
       /\ \A i \in 1..Len(b) - p : c[i] = b[p + i]
  BY <1>10, FromIs
<1>12. StartsWith(c, y)
  <2>1. Len(y) <= Len(c)
    BY <1>5, <1>6, <1>9, <1>11
  <2>2. ASSUME NEW i \in 1..Len(y)
        PROVE  c[i] = y[i]
    <3>1. p + i \in 1..Len(t) /\ i \in 1..Len(b) - p /\ p + i > Len(x) /\ (p + i) - Len(x) = i
      BY <1>5, <1>6, <1>9
    <3>2. c[i] = b[p + i] /\ b[p + i] = t[p + i]
      BY <1>6, <1>11, <3>1
    <3>3. PICK j : j = p + i
      OBVIOUS
    <3>4. t[j] = y[j - Len(x)]
      BY <1>5, <3>1, <3>3
    <3> QED
      BY <3>1, <3>2, <3>3, <3>4
  <2> QED
    BY <2>1, <2>2 DEF StartsWith
<1>13. DecodeOrderPreservingVarUint64(c) = [num |-> k, n |-> Len(y)]
  BY <1>2, <1>4, <1>5, <1>11, <1>12, DecodeIs
<1>13a. Len(x) \in 1..Width + 1 /\ Len(y) \in 1..Width + 1
  <2>1. PICK i \in 0..Width : i = Size(m)
    BY <1>2, SizeIs DEF Uint
  <2>2. PICK j \in 0..Width : j = Size(k)
    BY <1>2, SizeIs DEF Uint
  <2>3. Len(x) = i + 1 /\ Len(y) = j + 1
    BY <1>5, <2>1, <2>2
  <2>4. Width \in Nat
    BY Powers
  <2> QED
    BY <2>3, <2>4
<1>14. [num |-> m, n |-> Len(x)] # None /\ [num |-> k, n |-> Len(y)] # None
  <2>1. [num |-> m, n |-> Len(x)] \in Decoded /\ [num |-> k, n |-> Len(y)] \in Decoded
    BY <1>2, <1>13a DEF Decoded
  <2> QED
    BY <2>1, NoneAssumption
<1>15. NewHeightFromBytes(b) =
         [height |-> [BlockNum |-> m, TxNum |-> k], n |-> Len(x) + Len(y)]
  <2>1. PICK u, w : u = [num |-> m, n |-> Len(x)] /\ w = [num |-> k, n |-> Len(y)]
    OBVIOUS
  <2>2. u.num = m /\ u.n = p /\ w.num = k /\ w.n = Len(y)
    BY <1>9, <2>1
  <2>3. /\ DecodeOrderPreservingVarUint64(b) = u /\ u # None
        /\ DecodeOrderPreservingVarUint64(From(b, u.n)) = w /\ w # None
    BY <1>8, <1>10, <1>13, <1>14, <2>1, <2>2
  <2>4. NewHeightFromBytes(b) =
          [height |-> [BlockNum |-> u.num, TxNum |-> w.num], n |-> u.n + w.n]
    BY <2>3 DEF NewHeightFromBytes
  <2> QED
    BY <1>9, <2>2, <2>4
<1>16. NewHeightFromBytes(b) # None
  <2>1. Width \in Nat
    BY Powers
  <2>2. PICK j : j = Len(x) + Len(y)
    OBVIOUS
  <2>3. j \in 2..2 * (Width + 1)
    BY ONLY <1>13a, <2>1, <2>2
  <2>4. [BlockNum |-> m, TxNum |-> k] \in [BlockNum : Uint, TxNum : Uint]
    BY <1>2
  <2>5. [height |-> [BlockNum |-> m, TxNum |-> k], n |-> j] \in DecodedHeight
    BY <2>3, <2>4 DEF DecodedHeight
  <2> QED
    BY <1>15, <2>2, <2>5, NoneAssumption
<1> QED
  BY <1>2, <1>4, <1>5, <1>15, <1>16

(* From any bytes a height that fits, of what is there. *)
LEMMA HeightBounded ==
  ASSUME NEW b \in Seq(Byte), NEW r, r = NewHeightFromBytes(b), r # None
  PROVE  /\ r \in DecodedHeight /\ r.n \in 1..Len(b)
         /\ r.height.BlockNum < Modulus /\ r.height.TxNum < Modulus
<1>1. PICK u : u = DecodeOrderPreservingVarUint64(b)
  OBVIOUS
<1>2. u # None
  BY <1>1 DEF NewHeightFromBytes
<1>3. u \in Decoded /\ u.n <= Len(b)
  BY <1>1, <1>2, DecodeBounded
<1>4. PICK p : p = u.n
  OBVIOUS
<1>5. p \in 1..Width + 1 /\ p \in 0..Len(b) /\ Len(b) \in Nat
  BY <1>3, <1>4, LenProperties, Powers DEF Decoded
<1>6. PICK c : c = From(b, p)
  OBVIOUS
<1>7. c \in Seq(Byte) /\ Len(c) = Len(b) - p
  BY <1>5, <1>6, FromIs
<1>8. PICK w : w = DecodeOrderPreservingVarUint64(c)
  OBVIOUS
<1>9. w # None /\ r = [height |-> [BlockNum |-> u.num, TxNum |-> w.num], n |-> u.n + w.n]
  BY <1>1, <1>2, <1>4, <1>6, <1>8 DEF NewHeightFromBytes
<1>10. w \in Decoded /\ w.n <= Len(c)
  BY <1>7, <1>8, <1>9, DecodeBounded
<1>11. u.num \in Uint /\ w.num \in Uint /\ w.n \in 1..Width + 1 /\ u.n \in 1..Width + 1
  BY <1>3, <1>10 DEF Decoded
<1>12. PICK j : j = u.n + w.n
  OBVIOUS
<1>13. j \in 2..2 * (Width + 1) /\ j \in 1..Len(b)
  BY <1>4, <1>5, <1>7, <1>10, <1>11, <1>12, Powers
<1>14. PICK g : g = [BlockNum |-> u.num, TxNum |-> w.num]
  OBVIOUS
<1>15. g \in [BlockNum : Uint, TxNum : Uint] /\ r = [height |-> g, n |-> j]
  BY <1>9, <1>11, <1>12, <1>14
<1>16. r \in DecodedHeight /\ r.n = j /\ r.height = g
  BY <1>13, <1>15 DEF DecodedHeight
<1>17. \A i \in Uint : i < Modulus
  BY ModulusIs DEF Uint
<1> QED
  BY <1>11, <1>13, <1>14, <1>16, <1>17

(* b comes before c, by a byte that differs. *)
Before(b, c) ==
  \E k \in Nat : /\ k < Len(b) /\ k < Len(c) /\ b[k + 1] < c[k + 1]
                 /\ \A i \in 1..k : b[i] = c[i]

LEMMA CodeKeepsOrder ==
  ASSUME NEW a \in Uint, NEW c \in Uint, a < c
  PROVE  Before(Code(a), Code(c))
<1>1. PICK s \in 0..Width : s = Size(a) /\ a < Pow(s)
  BY SizeIs DEF Uint
<1>2. PICK t \in 0..Width : t = Size(c) /\ c < Pow(t)
  BY SizeIs DEF Uint
<1>3. s <= t
  BY <1>1, <1>2, SizeMonotone DEF Uint
<1>4. PICK x : x = Code(a)
  OBVIOUS
<1>5. PICK y : y = Code(c)
  OBVIOUS
<1>6. Len(x) = s + 1 /\ x[1] = s /\ \A i \in 1..s : x[i + 1] = Digit(a, s - i)
  BY <1>1, <1>4, CodeIs
<1>7. Len(y) = t + 1 /\ y[1] = t /\ \A i \in 1..t : y[i + 1] = Digit(c, t - i)
  BY <1>2, <1>5, CodeIs
<1>8. CASE s < t
  <2>1. 0 < Len(x) /\ 0 < Len(y) /\ x[0 + 1] < y[0 + 1]
    BY <1>6, <1>7, <1>8, Powers
  <2> QED
    BY <1>4, <1>5, <2>1 DEF Before
<1>9. CASE s = t
  <2>1. a \in Nat /\ c \in Nat
    BY ModulusIs DEF Uint
  <2>2. PICK j \in 0..s - 1 : /\ Digit(a, j) < Digit(c, j)
                              /\ \A m \in j + 1..s - 1 : Digit(a, m) = Digit(c, m)
    BY <1>2, <1>9, <2>1, FirstDigit
  <2>3. PICK k \in 1..s : k = s - j /\ s - k = j
    BY Powers
  <2>4. x[k + 1] < y[k + 1] /\ k < Len(x) /\ k < Len(y)
    BY <1>6, <1>7, <1>9, <2>2, <2>3
  <2>5. ASSUME NEW i \in 1..k
        PROVE  x[i] = y[i]
    <3>1. CASE i = 1
      BY <1>6, <1>7, <1>9, <3>1
    <3>2. CASE i # 1
      <4>1. PICK l \in 1..s : i = l + 1 /\ l < k
        BY <2>3, <3>2
      <4>2. PICK m \in j + 1..s - 1 : m = s - l
        BY <2>3, <4>1
      <4>3. x[l + 1] = Digit(a, m) /\ y[l + 1] = Digit(c, m)
        BY <1>6, <1>7, <1>9, <4>1, <4>2
      <4> QED
        BY <2>2, <4>1, <4>3
    <3> QED
      BY <3>1, <3>2
  <2> QED
    BY <1>4, <1>5, <2>4, <2>5 DEF Before
<1> QED
  BY <1>3, <1>8, <1>9, Powers

LEMMA ToBytesKeepsOrder ==
  ASSUME NEW h \in Heights, NEW g \in Heights, Less(h, g)
  PROVE  Before(ToBytes(h), ToBytes(g))
<1>1. PICK hx, hy, b :
        /\ hx = Code(h.BlockNum) /\ hy = Code(h.TxNum) /\ b = ToBytes(h)
        /\ hx \in Seq(Byte) /\ hy \in Seq(Byte) /\ b \in Seq(Byte)
        /\ Len(hx) = Size(h.BlockNum) + 1 /\ Len(hy) = Size(h.TxNum) + 1
        /\ Len(hx) \in Nat \ {0} /\ Len(hy) \in Nat \ {0} /\ Len(b) = Len(hx) + Len(hy)
        /\ \A i \in 1..Len(hx) + Len(hy) : b[i] = IF i <= Len(hx) THEN hx[i] ELSE hy[i - Len(hx)]
  BY ToBytesIs
<1>2. PICK gx, gy, c :
        /\ gx = Code(g.BlockNum) /\ gy = Code(g.TxNum) /\ c = ToBytes(g)
        /\ gx \in Seq(Byte) /\ gy \in Seq(Byte) /\ c \in Seq(Byte)
        /\ Len(gx) = Size(g.BlockNum) + 1 /\ Len(gy) = Size(g.TxNum) + 1
        /\ Len(gx) \in Nat \ {0} /\ Len(gy) \in Nat \ {0} /\ Len(c) = Len(gx) + Len(gy)
        /\ \A i \in 1..Len(gx) + Len(gy) : c[i] = IF i <= Len(gx) THEN gx[i] ELSE gy[i - Len(gx)]
  BY ToBytesIs
<1>3. b = ToBytes(h) /\ c = ToBytes(g)
  BY <1>1, <1>2
<1>5. /\ Len(hx) \in Nat /\ Len(hy) \in Nat /\ Len(b) = Len(hx) + Len(hy)
      /\ \A i \in 1..Len(hx) + Len(hy) : b[i] = IF i <= Len(hx) THEN hx[i] ELSE hy[i - Len(hx)]
  BY <1>1
<1>6. /\ Len(gx) \in Nat /\ Len(gy) \in Nat /\ Len(c) = Len(gx) + Len(gy)
      /\ \A i \in 1..Len(gx) + Len(gy) : c[i] = IF i <= Len(gx) THEN gx[i] ELSE gy[i - Len(gx)]
  BY <1>2
<1>7. /\ h.BlockNum \in Uint /\ h.TxNum \in Uint
      /\ g.BlockNum \in Uint /\ g.TxNum \in Uint
  BY HeightNumbers
<1>8. CASE h.BlockNum < g.BlockNum
  <2>1. Before(hx, gx)
    BY <1>1, <1>2, <1>7, <1>8, CodeKeepsOrder
  <2>2. PICK k \in Nat : /\ k < Len(hx) /\ k < Len(gx) /\ hx[k + 1] < gx[k + 1]
                         /\ \A i \in 1..k : hx[i] = gx[i]
    BY <2>1 DEF Before
  <2>3. \A i \in 1..k + 1 : b[i] = hx[i] /\ c[i] = gx[i]
    BY <1>5, <1>6, <2>2
  <2>4. k < Len(b) /\ k < Len(c) /\ b[k + 1] < c[k + 1] /\ \A i \in 1..k : b[i] = c[i]
    BY <1>5, <1>6, <2>2, <2>3
  <2> QED
    BY <1>3, <2>4 DEF Before
<1>9. CASE h.BlockNum = g.BlockNum /\ h.TxNum < g.TxNum
  <2>1. hx = gx
    BY <1>1, <1>2, <1>9
  <2>2. Before(hy, gy)
    BY <1>1, <1>2, <1>7, <1>9, CodeKeepsOrder
  <2>3. PICK k \in Nat : /\ k < Len(hy) /\ k < Len(gy) /\ hy[k + 1] < gy[k + 1]
                         /\ \A i \in 1..k : hy[i] = gy[i]
    BY <2>2 DEF Before
  <2>4. PICK l \in Nat : l = Len(hx)
    BY <1>5
  <2>5. \A i \in 1..l : b[i] = hx[i] /\ c[i] = hx[i]
    BY <1>5, <1>6, <2>1, <2>4
  <2>6. \A i \in 1..k + 1 : b[l + i] = hy[i] /\ c[l + i] = gy[i]
    <3> SUFFICES ASSUME NEW i \in 1..k + 1
                 PROVE  b[l + i] = hy[i] /\ c[l + i] = gy[i]
      OBVIOUS
    <3>1. PICK j : j = l + i
      OBVIOUS
    <3>2. /\ j \in 1..Len(hx) + Len(hy) /\ j \in 1..Len(gx) + Len(gy)
          /\ ~(j <= l) /\ j - l = i
      BY <1>5, <1>6, <2>1, <2>3, <2>4, <3>1
    <3>3. b[j] = hy[j - l] /\ c[j] = gy[j - l]
      BY <1>5, <1>6, <2>1, <2>4, <3>2
    <3> QED
      BY <3>1, <3>2, <3>3
  <2>7. PICK m \in Nat : m = l + k
    OBVIOUS
  <2>8. m < Len(b) /\ m < Len(c)
    BY <1>5, <1>6, <2>1, <2>3, <2>4, <2>7
  <2>9. b[m + 1] < c[m + 1]
    <3>1. b[l + (k + 1)] = hy[k + 1] /\ c[l + (k + 1)] = gy[k + 1]
      BY <2>6
    <3>2. m + 1 = l + (k + 1)
      BY <2>7
    <3> QED
      BY <2>3, <3>1, <3>2
  <2>10. ASSUME NEW i \in 1..m
         PROVE  b[i] = c[i]
    <3>1. CASE i <= l
      BY <2>5, <3>1
    <3>2. CASE ~(i <= l)
      <4>1. PICK j \in 1..k : i = l + j
        BY <2>4, <2>7, <3>2
      <4>2. b[l + j] = hy[j] /\ c[l + j] = gy[j] /\ hy[j] = gy[j]
        BY <2>3, <2>6, <4>1
      <4> QED
        BY <4>1, <4>2
    <3> QED
      BY <3>1, <3>2
  <2> QED
    BY <1>3, <2>8, <2>9, <2>10 DEF Before
<1> QED
  BY <1>8, <1>9 DEF Less

(* BytesLess is of the first byte that differs. *)
LEMMA BeforeIsLess ==
  ASSUME NEW b \in Seq(Byte), NEW c \in Seq(Byte), Before(b, c)
  PROVE  BytesLess(b, c) /\ ~BytesLess(c, b)
<1>1. PICK k \in Nat : /\ k < Len(b) /\ k < Len(c) /\ b[k + 1] < c[k + 1]
                       /\ \A i \in 1..k : b[i] = c[i]
  BY DEF Before
<1>2. Len(b) \in Nat /\ Len(c) \in Nat
  BY LenProperties
<1>3. \A i \in 1..Len(b) : b[i] \in Int
  BY ElementOfSeq, Powers DEF Byte
<1>4. \A i \in 1..Len(c) : c[i] \in Int
  BY ElementOfSeq, Powers DEF Byte
<1>5. BytesLess(b, c)
  <2>1. k \in 0..Len(b) /\ k <= Len(c) /\ k < Len(b) /\ k < Len(c)
    BY <1>1, <1>2
  <2> QED
    BY <1>1, <2>1 DEF BytesLess
<1>6. ASSUME BytesLess(c, b)
      PROVE  FALSE
  <2>1. PICK j \in 0..Len(c) :
          /\ j <= Len(b) /\ \A i \in 1..j : c[i] = b[i]
          /\ \/ j = Len(c) /\ j < Len(b)
             \/ j < Len(c) /\ j < Len(b) /\ c[j + 1] < b[j + 1]
    BY <1>6 DEF BytesLess
  <2>2. CASE j <= k
    <3>1. j < Len(c) /\ j < Len(b) /\ c[j + 1] < b[j + 1]
      BY <1>1, <1>2, <2>1, <2>2
    <3>2. j + 1 \in 1..Len(b) /\ j + 1 \in 1..Len(c)
      BY <1>2, <2>1, <3>1
    <3>3. b[j + 1] <= c[j + 1]
      <4>1. CASE j = k
        BY <1>1, <1>3, <1>4, <3>2, <4>1
      <4>2. CASE j # k
        <5>1. j + 1 \in 1..k
          BY <2>1, <2>2, <4>2
        <5> QED
          BY <1>1, <1>3, <3>2, <5>1
      <4> QED
        BY <4>1, <4>2
    <3> QED
      BY <1>3, <1>4, <3>1, <3>2, <3>3
  <2>3. CASE k < j
    <3>1. k + 1 \in 1..j /\ k + 1 \in 1..Len(b) /\ k + 1 \in 1..Len(c)
      BY <1>1, <1>2, <2>1, <2>3
    <3>2. c[k + 1] = b[k + 1]
      BY <2>1, <3>1
    <3> QED
      BY <1>1, <1>3, <1>4, <3>1, <3>2
  <2> QED
    BY <2>1, <2>2, <2>3
<1> QED
  BY <1>5, <1>6

LEMMA NotLessThanItself ==
  ASSUME NEW b \in Seq(Byte)
  PROVE  ~BytesLess(b, b)
<1>1. Len(b) \in Nat /\ \A i \in 1..Len(b) : b[i] \in Int
  BY LenProperties, ElementOfSeq, Powers DEF Byte
<1> QED
  BY <1>1 DEF BytesLess

(* The encodings compare as the heights. *)
LEMMA BytesCompare ==
  ASSUME NEW h \in Heights, NEW g \in Heights
  PROVE  BytesLess(ToBytes(h), ToBytes(g)) <=> Less(h, g)
<1>1. ToBytes(h) \in Seq(Byte) /\ ToBytes(g) \in Seq(Byte)
  BY ToBytesIs
<1>2. CASE Less(h, g)
  BY <1>1, <1>2, ToBytesKeepsOrder, BeforeIsLess
<1>3. CASE Less(g, h)
  <2>1. ~Less(h, g)
    <3>1. /\ h.BlockNum \in Int /\ h.TxNum \in Int
          /\ g.BlockNum \in Int /\ g.TxNum \in Int
      BY HeightNumbers, ModulusIs DEF Uint
    <3> QED
      BY <1>3, <3>1 DEF Less
  <2>2. Before(ToBytes(g), ToBytes(h))
    BY <1>3, ToBytesKeepsOrder
  <2> QED
    BY <1>1, <2>1, <2>2, BeforeIsLess
<1>4. CASE ~Less(h, g) /\ ~Less(g, h)
  <2>1. /\ h.BlockNum \in Int /\ h.TxNum \in Int
        /\ g.BlockNum \in Int /\ g.TxNum \in Int
    BY HeightNumbers, ModulusIs DEF Uint
  <2>2. h.BlockNum = g.BlockNum /\ h.TxNum = g.TxNum
    BY <1>4, <2>1 DEF Less
  <2>3. h = g
    BY <2>2, HeightNumbers
  <2> QED
    BY <1>1, <1>4, <2>3, NotLessThanItself
<1> QED
  BY <1>2, <1>3, <1>4

Fits == [BlockNum : Uint, TxNum : Uint]
Stream(g) == ToBytes(g[1]) \o ToBytes(g[2])

(* Two heights to encode: nothing is read before they are, and then one    *)
(* after the other.                                                        *)
WasWritten ==
  /\ given \in Heights \X Heights
  /\ step \in {"encode", "decode", "done"}
  /\ step = "encode" => pos = 0 /\ out = <<>>
  /\ step # "encode" => bytes = Stream(given)
  /\ step = "decode" =>
       (pos = 0 /\ out = <<>>) \/ (pos = Len(ToBytes(given[1])) /\ out = <<given[1]>>)
  /\ step = "done" => out = given

(* What is read, fits; what was written, is read. *)
ReadingInv ==
  /\ bytes \in Seq(Byte) /\ pos \in 0..Len(bytes) /\ out \in Seq(Fits)
  /\ (given = None /\ step # "encode") \/ WasWritten

(* The bytes of two heights, and what is left of them after the first. *)
LEMMA StreamIs ==
  ASSUME NEW g \in Heights \X Heights
  PROVE  \E x, y, b :
           /\ x = ToBytes(g[1]) /\ y = ToBytes(g[2]) /\ b = Stream(g)
           /\ x \in Seq(Byte) /\ y \in Seq(Byte) /\ b \in Seq(Byte)
           /\ Len(x) \in Nat /\ Len(y) \in Nat \ {0} /\ Len(b) = Len(x) + Len(y)
           /\ \A i \in 1..Len(x) + Len(y) : b[i] = IF i <= Len(x) THEN x[i] ELSE y[i - Len(x)]
<1>0. g[1] \in Heights /\ g[2] \in Heights
  OBVIOUS
<1>1. PICK h, k : h = g[1] /\ k = g[2] /\ h \in Heights /\ k \in Heights
  BY <1>0
<1>2. PICK x, y : x = ToBytes(h) /\ y = ToBytes(k)
  OBVIOUS
<1>3. x \in Seq(Byte) /\ Len(x) \in Nat
  BY <1>1, <1>2, ToBytesIs, LenProperties
<1>4. y \in Seq(Byte) /\ Len(y) \in Nat \ {0}
  <2>1. PICK u, w, b :
          /\ u = Code(k.BlockNum) /\ w = Code(k.TxNum) /\ b = ToBytes(k)
          /\ u \in Seq(Byte) /\ w \in Seq(Byte) /\ b \in Seq(Byte)
          /\ Len(u) = Size(k.BlockNum) + 1 /\ Len(w) = Size(k.TxNum) + 1
          /\ Len(u) \in Nat \ {0} /\ Len(w) \in Nat \ {0} /\ Len(b) = Len(u) + Len(w)
          /\ \A i \in 1..Len(u) + Len(w) : b[i] = IF i <= Len(u) THEN u[i] ELSE w[i - Len(u)]
    BY <1>1, ToBytesIs
  <2> QED
    BY <1>2, <2>1
<1>5. PICK b : b = x \o y
  OBVIOUS
<1>6. /\ x \o y \in Seq(Byte) /\ Len(x \o y) = Len(x) + Len(y)
      /\ \A i \in 1..Len(x) + Len(y) : (x \o y)[i] = IF i <= Len(x) THEN x[i] ELSE y[i - Len(x)]
  BY ONLY <1>3, <1>4, ConcatProperties
<1>7. b = Stream(g)
  BY <1>1, <1>2, <1>5 DEF Stream
<1>8. /\ b \in Seq(Byte) /\ Len(b) = Len(x) + Len(y)
      /\ \A i \in 1..Len(x) + Len(y) : b[i] = IF i <= Len(x) THEN x[i] ELSE y[i - Len(x)]
  BY <1>5, <1>6
<1> QED
  BY <1>1, <1>2, <1>3, <1>4, <1>7, <1>8

(* The first height is read off two, the second off what is left. *)
LEMMA StreamIsRead ==
  ASSUME NEW g \in Heights \X Heights, NEW n, n = Len(ToBytes(g[1]))
  PROVE  /\ NewHeightFromBytes(From(Stream(g), 0)) = [height |-> g[1], n |-> n]
         /\ NewHeightFromBytes(From(Stream(g), n)) = [height |-> g[2], n |-> Len(Stream(g)) - n]
         /\ NewHeightFromBytes(From(Stream(g), 0)) # None
         /\ NewHeightFromBytes(From(Stream(g), n)) # None
         /\ n \in Nat /\ n < Len(Stream(g)) /\ Stream(g) \in Seq(Byte)
<1>1. PICK x, y, b :
        /\ x = ToBytes(g[1]) /\ y = ToBytes(g[2]) /\ b = Stream(g)
        /\ x \in Seq(Byte) /\ y \in Seq(Byte) /\ b \in Seq(Byte)
        /\ Len(x) \in Nat /\ Len(y) \in Nat \ {0} /\ Len(b) = Len(x) + Len(y)
        /\ \A i \in 1..Len(x) + Len(y) : b[i] = IF i <= Len(x) THEN x[i] ELSE y[i - Len(x)]
  BY StreamIs
<1>2. PICK h, k : h = g[1] /\ k = g[2] /\ h \in Heights /\ k \in Heights
  <2>1. g[1] \in Heights /\ g[2] \in Heights
    OBVIOUS
  <2> QED
    BY <2>1
<1>3. n = Len(x) /\ n \in 0..Len(b) /\ 0 \in 0..Len(b) /\ n < Len(b) /\ Len(b) \in Nat
  BY <1>1
<1>4. PICK all : all = From(b, 0)
  OBVIOUS
<1>5. /\ all \in Seq(Byte) /\ Len(all) = Len(b) - 0
      /\ \A i \in 1..Len(b) - 0 : all[i] = b[0 + i]
  BY <1>1, <1>3, <1>4, FromIs
<1>6. StartsWith(all, ToBytes(h))
  <2>1. Len(x) <= Len(all)
    BY <1>1, <1>5
  <2>2. \A i \in 1..Len(x) : all[i] = x[i]
    <3> SUFFICES ASSUME NEW i \in 1..Len(x) PROVE all[i] = x[i]
      OBVIOUS
    <3>1. i \in 1..Len(b) - 0 /\ 0 + i = i /\ i \in 1..Len(x) + Len(y) /\ i <= Len(x)
      BY <1>1
    <3> QED
      BY <1>1, <1>5, <3>1
  <2> QED
    BY <1>1, <1>2, <2>1, <2>2 DEF StartsWith
<1>7. /\ NewHeightFromBytes(all) = [height |-> h, n |-> Len(ToBytes(h))]
      /\ NewHeightFromBytes(all) # None
  BY <1>2, <1>5, <1>6, HeightIsRead
<1>8. PICK rest : rest = From(b, n)
  OBVIOUS
<1>9. /\ rest \in Seq(Byte) /\ Len(rest) = Len(b) - n
      /\ \A i \in 1..Len(b) - n : rest[i] = b[n + i]
  BY <1>1, <1>3, <1>8, FromIs
<1>10. StartsWith(rest, ToBytes(k))
  <2>1. Len(y) <= Len(rest)
    BY <1>1, <1>3, <1>9
  <2>2. \A i \in 1..Len(y) : rest[i] = y[i]
    <3> SUFFICES ASSUME NEW i \in 1..Len(y) PROVE rest[i] = y[i]
      OBVIOUS
    <3>1. PICK j : j = n + i
      OBVIOUS
    <3>2. i \in 1..Len(b) - n /\ j \in 1..Len(x) + Len(y) /\ ~(j <= Len(x)) /\ j - Len(x) = i
      BY <1>1, <1>3, <3>1
    <3>3. b[j] = y[j - Len(x)]
      BY <1>1, <3>2
    <3> QED
      BY <1>9, <3>1, <3>2, <3>3
  <2> QED
    BY <1>1, <1>2, <2>1, <2>2 DEF StartsWith
<1>11. /\ NewHeightFromBytes(rest) = [height |-> k, n |-> Len(ToBytes(k))]
       /\ NewHeightFromBytes(rest) # None
  BY <1>2, <1>9, <1>10, HeightIsRead
<1>12. Len(y) = Len(b) - n
  BY <1>1, <1>3
<1>13. NewHeightFromBytes(From(b, 0)) = [height |-> g[1], n |-> n]
  BY <1>1, <1>2, <1>3, <1>4, <1>7
<1>14. NewHeightFromBytes(From(b, n)) = [height |-> g[2], n |-> Len(b) - n]
  BY <1>1, <1>2, <1>8, <1>11, <1>12
<1>15. NewHeightFromBytes(From(b, 0)) # None /\ NewHeightFromBytes(From(b, n)) # None
  BY <1>4, <1>7, <1>8, <1>11
<1> QED
  BY <1>1, <1>3, <1>13, <1>14, <1>15

LEMMA InitReadingInv == Init => ReadingInv
<1> SUFFICES ASSUME Init PROVE ReadingInv
  OBVIOUS
<1>1. bytes \in Seq(Byte) /\ Len(bytes) \in Nat
  <2>1. \A b \in Seq(Byte) : Len(b) \in Nat
    BY LenProperties
  <2> QED
    BY <2>1, EmptySeq, GarbageAssumption DEF Init
<1>2. out \in Seq(Fits) /\ pos \in 0..Len(bytes)
  BY <1>1, EmptySeq DEF Init
<1>3. (given = None /\ step # "encode") \/ WasWritten
  BY DEF Init, WasWritten
<1> QED
  BY <1>1, <1>2, <1>3 DEF ReadingInv

LEMMA EncodeReadingInv == ASSUME ReadingInv, Encode PROVE ReadingInv'
<1>1. /\ step = "encode" /\ given \in Heights \X Heights /\ pos = 0 /\ out = <<>>
  BY DEF ReadingInv, Encode, WasWritten
<1>2. bytes' = Stream(given) /\ step' = "decode" /\ given' = given /\ pos' = pos /\ out' = out
  BY DEF Encode, Stream
<1>3. Stream(given) \in Seq(Byte)
  BY <1>1, StreamIs
<1>4. bytes' \in Seq(Byte) /\ Len(bytes') \in Nat
  <2>1. \A b \in Seq(Byte) : Len(b) \in Nat
    BY LenProperties
  <2> QED
    BY <1>2, <1>3, <2>1
<1>5. pos' \in 0..Len(bytes') /\ out' \in Seq(Fits)
  BY <1>1, <1>2, <1>4 DEF ReadingInv
<1>6. WasWritten'
  <2>1. given' = given /\ step' = "decode" /\ pos' = 0 /\ out' = <<>> /\ bytes' = Stream(given)
    BY <1>1, <1>2
  <2>2. Stream(given') = Stream(given)
    BY <2>1
  <2> QED
    BY <1>1, <2>1, <2>2 DEF WasWritten
<1> QED
  BY <1>4, <1>5, <1>6 DEF ReadingInv

LEMMA AppendOne ==
  ASSUME NEW h, NEW k
  PROVE  Append(<<h>>, k) = <<h, k>>
<1>1. PICK s : s = <<h>>
  OBVIOUS
<1>2. PICK t : t = <<h, k>>
  OBVIOUS
<1>3. /\ s \in Seq({h, k}) /\ Len(s) = 1 /\ s[1] = h
      /\ t \in Seq({h, k}) /\ Len(t) = 2 /\ t[1] = h /\ t[2] = k
  BY <1>1, <1>2
<1>4. PICK a : a = Append(s, k)
  OBVIOUS
<1>5. /\ a \in Seq({h, k}) /\ Len(a) = Len(s) + 1
      /\ \A i \in 1..Len(s) : a[i] = s[i]
      /\ a[Len(s) + 1] = k
  <2>1. s \in Seq({h, k}) /\ k \in {h, k}
    BY <1>3
  <2> QED
    BY <1>4, <2>1, AppendProperties
<1>6. Len(a) = Len(t) /\ \A i \in 1..Len(a) : a[i] = t[i]
  BY <1>3, <1>5
<1>7. a = t
  BY <1>3, <1>5, <1>6, SeqEqual
<1> QED
  BY <1>1, <1>2, <1>4, <1>7

LEMMA DecodeReadingInv == ASSUME ReadingInv, Decode PROVE ReadingInv'
<1>1. PICK r : r = NewHeightFromBytes(From(bytes, pos))
  OBVIOUS
<1>2. /\ step = "decode" /\ given' = given /\ bytes' = bytes
      /\ IF r = None THEN step' = "error" /\ pos' = pos /\ out' = out
         ELSE /\ pos' = pos + r.n /\ out' = Append(out, r.height)
              /\ step' = IF pos' = Len(bytes) THEN "done" ELSE "decode"
  BY <1>1 DEF Decode
<1>3. bytes \in Seq(Byte) /\ pos \in 0..Len(bytes) /\ out \in Seq(Fits) /\ Len(bytes) \in Nat
  BY LenProperties DEF ReadingInv
<1>4. bytes' \in Seq(Byte) /\ pos' \in 0..Len(bytes') /\ out' \in Seq(Fits)
  <2>1. CASE r = None
    BY <1>2, <1>3, <2>1
  <2>2. CASE r # None
    <3>1. PICK c : c = From(bytes, pos)
      OBVIOUS
    <3>2. c \in Seq(Byte) /\ Len(c) = Len(bytes) - pos
      BY <1>3, <3>1, FromIs
    <3>3. /\ r \in DecodedHeight /\ r.n \in 1..Len(c)
          /\ r.height.BlockNum < Modulus /\ r.height.TxNum < Modulus
      BY <1>1, <2>2, <3>1, <3>2, HeightBounded
    <3>4. r.height \in Fits
      BY <3>3 DEF DecodedHeight, Fits
    <3>5. Append(out, r.height) \in Seq(Fits)
      BY <1>3, <3>4, AppendProperties
    <3>6. pos + r.n \in 0..Len(bytes)
      BY <1>3, <3>2, <3>3
    <3> QED
      BY <1>2, <1>3, <2>2, <3>5, <3>6
  <2> QED
    BY <2>1, <2>2
<1>5. (given = None /\ step # "encode")' \/ WasWritten'
  <2>1. CASE given = None
    BY <1>2, <2>1
  <2>2. CASE WasWritten
    <3>0. given \in Heights \X Heights
      BY <2>2 DEF WasWritten
    <3>1. PICK n : n = Len(ToBytes(given[1]))
      OBVIOUS
    <3>2. PICK b : b = Stream(given)
      OBVIOUS
    <3>3. /\ NewHeightFromBytes(From(Stream(given), 0)) = [height |-> given[1], n |-> n]
          /\ NewHeightFromBytes(From(Stream(given), n)) =
               [height |-> given[2], n |-> Len(Stream(given)) - n]
          /\ NewHeightFromBytes(From(Stream(given), 0)) # None
          /\ NewHeightFromBytes(From(Stream(given), n)) # None
          /\ n \in Nat /\ n < Len(Stream(given)) /\ Stream(given) \in Seq(Byte)
      BY <3>0, <3>1, StreamIsRead
    <3>4. bytes = b /\ ((pos = 0 /\ out = <<>>) \/ (pos = n /\ out = <<given[1]>>))
      <4>1. step = "decode"
        BY <1>2
      <4>2. bytes = Stream(given)
        BY <2>2, <4>1 DEF WasWritten
      <4>3. (pos = 0 /\ out = <<>>) \/ (pos = Len(ToBytes(given[1])) /\ out = <<given[1]>>)
        BY <2>2, <4>1 DEF WasWritten
      <4> QED
        BY <3>1, <3>2, <4>2, <4>3
    <3>5. PICK h, k : h = given[1] /\ k = given[2] /\ h \in Heights /\ k \in Heights
      <4>1. given[1] \in Heights /\ given[2] \in Heights
        BY <3>0
      <4> QED
        BY <4>1
    <3>6. Len(b) \in Nat /\ n \in Nat /\ n < Len(b)
      BY <1>3, <3>2, <3>3, <3>4
    <3>7. CASE pos = 0 /\ out = <<>>
      <4>1. r = [height |-> h, n |-> n] /\ r # None
        BY <1>1, <3>2, <3>3, <3>4, <3>5, <3>7
      <4>2. r # None /\ r.n = n /\ r.height = h
        BY <4>1
      <4>3. pos' = n /\ out' = <<h>> /\ step' = "decode"
        <5>1. Append(<<>>, h) = <<h>>
          OBVIOUS
        <5> QED
          BY <1>2, <3>4, <3>6, <3>7, <4>2, <5>1
      <4>4. given' = given /\ bytes' = b
        BY <1>2, <3>4
      <4> QED
        BY <3>0, <3>1, <3>2, <3>5, <4>3, <4>4 DEF WasWritten, Stream
    <3>8. CASE pos = n /\ out = <<given[1]>>
      <4>1. r = [height |-> k, n |-> Len(b) - n] /\ r # None
        BY <1>1, <3>2, <3>3, <3>4, <3>5, <3>8
      <4>2. r # None /\ r.n = Len(b) - n /\ r.height = k
        BY <4>1
      <4>3. pos' = Len(b) /\ out' = <<h, k>> /\ step' = "done"
        <5>1. Append(<<h>>, k) = <<h, k>>
          BY AppendOne
        <5>2. n + (Len(b) - n) = Len(b)
          BY <3>6
        <5> QED
          BY <1>2, <3>4, <3>5, <3>8, <4>2, <5>1, <5>2
      <4>4. given' = given /\ bytes' = b /\ <<h, k>> = given
        BY <1>2, <3>0, <3>4, <3>5
      <4> QED
        BY <3>0, <3>2, <4>3, <4>4 DEF WasWritten, Stream
    <3> QED
      BY <3>4, <3>7, <3>8
  <2> QED
    BY <2>1, <2>2 DEF ReadingInv
<1> QED
  BY <1>4, <1>5 DEF ReadingInv

LEMMA ReadingInvariant == Spec => []ReadingInv
<1>1. ReadingInv /\ [Next]_vars => ReadingInv'
  <2>1. ReadingInv /\ UNCHANGED vars => ReadingInv'
    BY DEF ReadingInv, WasWritten, Stream, vars
  <2> QED
    BY <2>1, EncodeReadingInv, DecodeReadingInv DEF Next
<1> QED
  BY <1>1, InitReadingInv, PTL DEF Spec

(* What was encoded is decoded, decoding stays within what is there, and   *)
(* what is encoded keeps the order of the heights.                         *)
THEOREM EncodingFaithful == Spec => []EncodingInv
<1>1. ReadingInv => RoundTrip
  BY DEF ReadingInv, RoundTrip, WasWritten
<1>2. ReadingInv => DecodeInBounds
  <2> SUFFICES ASSUME ReadingInv PROVE DecodeInBounds
    OBVIOUS
  <2>1. pos <= Len(bytes)
    BY LenProperties DEF ReadingInv
  <2>2. ASSUME NEW i \in DOMAIN out
        PROVE  out[i].BlockNum < Modulus /\ out[i].TxNum < Modulus
    <3>1. out \in Seq(Fits)
      BY DEF ReadingInv
    <3>2. DOMAIN out = 1..Len(out)
      BY <3>1, LenProperties
    <3>3. out[i] \in Fits
      BY <2>2, <3>1, <3>2, ElementOfSeq
    <3>4. \A x \in Uint : x < Modulus
      BY ModulusIs DEF Uint
    <3> QED
      BY <3>3, <3>4 DEF Fits
  <2> QED
    BY <2>1, <2>2 DEF DecodeInBounds
<1>3. ReadingInv => OrderKept
  <2> SUFFICES ASSUME ReadingInv, given # None
               PROVE  BytesLess(ToBytes(given[1]), ToBytes(given[2])) <=> Less(given[1], given[2])
    BY DEF OrderKept
  <2>1. given[1] \in Heights /\ given[2] \in Heights
    BY DEF ReadingInv, WasWritten
  <2> QED
    BY <2>1, BytesCompare
<1> QED
  BY <1>1, <1>2, <1>3, ReadingInvariant, PTL DEF EncodingInv

-----------------------------------------------------------------------------
(* Installer, for any callers, paths and modules: while packagings do not  *)
(* overlap, the working directory of the process is whose turn it is, and  *)
(* given back.                                                             *)

(* The variables hold a value for every call. *)
Tables ==
  /\ at = [c \in Caller |-> at[c]]
  /\ entryWD = [c \in Caller |-> entryWD[c]]
  /\ modInfo = [c \in Caller |-> modInfo[c]]
  /\ metadata = [c \in Caller |-> metadata[c]]
  /\ installed = [c \in Caller |-> installed[c]]

Found == {"env", "list"}
Inside == {"getwd", "chdir", "env", "list", "back", "return"}

(* Only code in a module or GOPATH is packaged. *)
FromSource(c) ==
  at[c] \notin {"idle", "done"} => installer[c].kind = "source"

(* What moduleInfo finds for a path when nobody moves the process. *)
Finding(c) ==
  IF Install!Home(c) \in Dirs /\ installer[c].path # Install!NoPath
  THEN Module[Install!Home(c)] ELSE Nil

(* The working directory belongs to the one packaging under way. *)
Place(c) ==
  /\ at[c] \in {"getwd", "chdir", "return"} => cwd = Start
  /\ at[c] \in {"chdir", "env", "list", "back"} => entryWD[c] = Start
  /\ at[c] \in Found =>
       /\ Install!Home(c) \in Dirs /\ installer[c].path # Install!NoPath
       /\ cwd = Install!Home(c)
  /\ at[c] = "list" => Module[cwd] # Nil
  /\ at[c] \in {"back", "return"} => modInfo[c] \in {Failure, Finding(c)}
  /\ at[c] \notin {"idle", "done"} /\ metadata[c] # Nil =>
       /\ installer[c].path # Install!NoPath
       /\ metadata[c].path = IF Finding(c) = Nil THEN installer[c].path
                             ELSE Finding(c).importPath

(* One packaging at a time. *)
Alone == \A c, d \in Install!Packagings : c = d

(* A call that is done sends what it was asked to. *)
Sends(c) ==
  installed[c] \notin {Nil, Failure, Panic} =>
    IF installer[c].kind = "source"
    THEN overlapped \/ Install!Mine(c, installed[c])
    ELSE installed[c] = installer[c].bytes

IInv ==
  /\ Tables
  /\ \A c \in Caller : FromSource(c) /\ Sends(c) /\ (at[c] = "idle" => metadata[c] = Nil)
  /\ ~overlapped =>
       /\ Alone
       /\ \A c \in Caller : Place(c)
       /\ Install!Packagings = {} => cwd = Start

(* The steps a packaging takes before the end of moduleInfo. *)
ModuleInfoStep(c) ==
  \/ Install!Getwd(c) \/ Install!Chdir(c) \/ Install!GoEnv(c)
  \/ Install!ListModuleInfo(c) \/ Install!ChdirBack(c)

(* A table in which the entry of one call is replaced. *)
LEMMA Put ==
  ASSUME NEW c \in Caller, NEW f, f = [d \in Caller |-> f[d]], NEW v, NEW g,
         g = [f EXCEPT ![c] = v]
  PROVE  /\ g = [d \in Caller |-> g[d]]
         /\ g[c] = v /\ \A d \in Caller \ {c} : g[d] = f[d]
  OBVIOUS

(* What a step of moduleInfo leaves alone. *)
LEMMA ModuleInfoFrame ==
  ASSUME Tables, NEW c \in Caller, ModuleInfoStep(c)
  PROVE  /\ Tables'
         /\ at[c] \in Inside /\ at'[c] \in Inside
         /\ \A d \in Caller \ {c} : /\ at'[d] = at[d]
                                   /\ entryWD'[d] = entryWD[d] /\ modInfo'[d] = modInfo[d]
         /\ Install!Packagings' = Install!Packagings
         /\ UNCHANGED <<installer, metadata, installed, overlapped>>
<1>1. ASSUME NEW s, Install!Goto(c, s)
      PROVE  /\ at' = [d \in Caller |-> at'[d]]
             /\ at'[c] = s /\ \A d \in Caller \ {c} : at'[d] = at[d]
  BY <1>1, Put DEF Install!Goto, Tables
<1>2. /\ at' = [d \in Caller |-> at'[d]]
      /\ \A d \in Caller \ {c} : at'[d] = at[d]
      /\ at[c] \in Inside /\ at'[c] \in Inside
  BY <1>1
     DEF ModuleInfoStep, Install!Getwd, Install!Chdir, Install!GoEnv,
         Install!ListModuleInfo, Install!ChdirBack, Inside
<1>3. /\ entryWD' = [d \in Caller |-> entryWD'[d]] /\ modInfo' = [d \in Caller |-> modInfo'[d]]
      /\ \A d \in Caller \ {c} : entryWD'[d] = entryWD[d] /\ modInfo'[d] = modInfo[d]
  BY DEF Tables, ModuleInfoStep, Install!Getwd, Install!Chdir, Install!GoEnv,
         Install!ListModuleInfo, Install!ChdirBack, Install!found
<1>4. UNCHANGED <<installer, metadata, installed, overlapped>>
  BY DEF ModuleInfoStep, Install!Getwd, Install!Chdir, Install!GoEnv,
         Install!ListModuleInfo, Install!ChdirBack
<1>5. Install!Packagings' = Install!Packagings
  BY <1>2 DEF Install!Packagings, Inside
<1> QED
  BY <1>2, <1>3, <1>4, <1>5 DEF Tables

(* A step of moduleInfo changes nothing of other calls, and what it makes  *)
(* of its own call is what the path leads to.                              *)
LEMMA ModuleInfoKeeps ==
  ASSUME IInv, NEW c \in Caller, ModuleInfoStep(c)
  PROVE  IInv'
<1>1. /\ Tables'
      /\ at[c] \in Inside /\ at'[c] \in Inside
      /\ \A d \in Caller \ {c} : /\ at'[d] = at[d]
                                /\ entryWD'[d] = entryWD[d] /\ modInfo'[d] = modInfo[d]
      /\ Install!Packagings' = Install!Packagings
      /\ UNCHANGED <<installer, metadata, installed, overlapped>>
  BY ModuleInfoFrame DEF IInv
<1>2. c \in Install!Packagings
  BY <1>1 DEF Install!Packagings, Inside
<1>3. ASSUME NEW d \in Caller
      PROVE  (FromSource(d) /\ Sends(d) /\ (at[d] = "idle" => metadata[d] = Nil))'
  BY <1>1
     DEF IInv, FromSource, Sends, Install!Mine, Install!Home, Install!Target,
         Inside
<1>4. ASSUME ~overlapped  PROVE  Place(c)'
  <2>0. Place(c) /\ Install!Home(c)' = Install!Home(c) /\ Finding(c)' = Finding(c)
    BY <1>1, <1>4 DEF IInv, Install!Home, Finding
  <2>. USE <2>0, <1>1 DEF Install!Goto, Place, IInv, Tables, Found
  <2>1. CASE Install!Getwd(c)
    BY <2>1 DEF Install!Getwd
  <2>2. CASE Install!Chdir(c)
    BY <2>2 DEF Install!Chdir, Install!Home, Finding
  <2>3. CASE Install!GoEnv(c)
    BY <2>3 DEF Install!GoEnv, Finding
  <2>4. CASE Install!ListModuleInfo(c)
    BY <2>4 DEF Install!ListModuleInfo, Finding
  <2>5. CASE Install!ChdirBack(c)
    BY <2>5 DEF Install!ChdirBack, Install!found
  <2> QED
    BY <2>1, <2>2, <2>3, <2>4, <2>5 DEF ModuleInfoStep
<1>5. ASSUME ~overlapped, NEW d \in Caller \ {c}  PROVE  Place(d)'
  <2>1. at[d] \in {"idle", "done"}
    BY <1>2, <1>5 DEF IInv, Alone, Install!Packagings
  <2> QED
    BY <2>1, <1>1, <1>5 DEF Place, Found
<1> QED
  BY <1>1, <1>2, <1>3, <1>4, <1>5 DEF IInv, Alone

(* A call that begins to package begins alone, or overlaps another.        *)
LEMMA BeginKeeps ==
  ASSUME IInv, NEW c \in Caller, Install!GetInstalledChaincode(c)
  PROVE  IInv'
<1>1. /\ at[c] = "idle" /\ metadata[c] = Nil /\ c \notin Install!Packagings
      /\ UNCHANGED <<installer, cwd, entryWD, modInfo, metadata>>
  BY DEF Install!GetInstalledChaincode, Install!found, Install!Packagings, IInv
<1>2. CASE installer[c].kind = "source" /\ installer[c].type = "GOLANG"
  <2>1. /\ Install!Goto(c, "getwd") /\ installed' = installed
        /\ overlapped' = (overlapped \/ Install!Packagings # {})
    BY <1>2 DEF Install!GetInstalledChaincode
  <2>2. /\ Tables'
        /\ at'[c] = "getwd" /\ \A d \in Caller \ {c} : at'[d] = at[d]
    <3>. Tables
      BY DEF IInv
    <3>1. at = [d \in Caller |-> at[d]] /\ at' = [at EXCEPT ![c] = "getwd"]
      BY <2>1 DEF Install!Goto, Tables
    <3>2. /\ at' = [d \in Caller |-> at'[d]]
          /\ at'[c] = "getwd" /\ \A d \in Caller \ {c} : at'[d] = at[d]
      BY <3>1
    <3>3. UNCHANGED <<entryWD, modInfo, metadata, installed>>
      BY <1>1, <2>1
    <3>4. /\ entryWD' = [d \in Caller |-> entryWD'[d]]
          /\ modInfo' = [d \in Caller |-> modInfo'[d]]
      BY <3>3 DEF Tables
    <3>5. /\ metadata' = [d \in Caller |-> metadata'[d]]
          /\ installed' = [d \in Caller |-> installed'[d]]
      BY <3>3 DEF Tables
    <3> QED
      BY ONLY <3>2, <3>4, <3>5 DEF Tables
  <2>3. Install!Packagings' = Install!Packagings \cup {c}
    BY <2>2 DEF Install!Packagings
  <2>4. ASSUME NEW d \in Caller
        PROVE  (FromSource(d) /\ Sends(d) /\ (at[d] = "idle" => metadata[d] = Nil))'
    <3>1. FromSource(d)' /\ (at[d] = "idle" => metadata[d] = Nil)'
      BY <1>1, <1>2, <2>2 DEF IInv, FromSource
    <3>2. Sends(d) /\ installed'[d] = installed[d] /\ (overlapped => overlapped')
      BY <2>1 DEF IInv
    <3> QED
      BY <1>1, <2>1, <3>1, <3>2 DEF Sends, Install!Mine, Install!Home, Install!Target
  <2>5. ASSUME ~overlapped'  PROVE  Alone' /\ \A d \in Caller : Place(d)'
    <3>1. ~overlapped /\ Install!Packagings = {} /\ cwd = Start
      BY <2>1, <2>5 DEF IInv
    <3>2. Alone'
      BY <2>3, <3>1 DEF Alone
    <3>3. Place(c)'
      BY <1>1, <2>2, <3>1 DEF Place, Found
    <3>4. ASSUME NEW d \in Caller \ {c}  PROVE  Place(d)'
      BY <2>2, <3>1 DEF Place, Found, Install!Packagings
    <3> QED
      BY <3>2, <3>3, <3>4
  <2> QED
    BY <2>2, <2>3, <2>4, <2>5 DEF IInv
<1>3. CASE ~(installer[c].kind = "source" /\ installer[c].type = "GOLANG")
  <2>1. /\ Install!Finish(c, IF installer[c].kind \in {"package", "file"}
                     THEN installer[c].bytes ELSE Panic)
        /\ overlapped' = overlapped
    BY <1>3 DEF Install!GetInstalledChaincode
  <2>2. /\ Tables'
        /\ at'[c] = "done"
        /\ \A d \in Caller \ {c} : at'[d] = at[d] /\ installed'[d] = installed[d]
        /\ installed'[c] = IF installer[c].kind \in {"package", "file"}
                          THEN installer[c].bytes ELSE Panic
    BY <1>1, <2>1, Put DEF Install!Finish, Install!Goto, IInv, Tables
  <2>3. Install!Packagings' = Install!Packagings
    BY <1>1, <2>2 DEF Install!Packagings
  <2>4. ASSUME NEW d \in Caller
        PROVE  (FromSource(d) /\ Sends(d) /\ (at[d] = "idle" => metadata[d] = Nil))'
    BY <1>1, <1>3, <2>1, <2>2
       DEF IInv, FromSource, Sends, Install!Mine, Install!Home, Install!Target
  <2>5. ASSUME ~overlapped, NEW d \in Caller  PROVE  Place(d)'
    BY <1>1, <2>1, <2>2, <2>5
       DEF IInv, Place, Found, Finding, Install!Home, Install!Target
  <2> QED
    BY <1>1, <2>1, <2>2, <2>3, <2>4, <2>5 DEF IInv, Alone
<1> QED
  BY <1>2, <1>3

(* A packaging that ends leaves the working directory as it found it, with *)
(* a package of its own path unless others were under way.                 *)
LEMMA FinishKeeps ==
  ASSUME IInv, NEW c \in Caller, NEW r, at[c] = "return", Install!Finish(c, r),
         UNCHANGED <<installer, cwd, Install!found, metadata, overlapped>>,
         r = Failure \/ overlapped \/ Install!Mine(c, r)
  PROVE  IInv'
<1>1. /\ Tables'
      /\ at'[c] = "done" /\ installed'[c] = r
      /\ \A d \in Caller \ {c} : at'[d] = at[d] /\ installed'[d] = installed[d]
      /\ UNCHANGED <<entryWD, modInfo>>
  BY Put DEF Install!Finish, Install!Goto, IInv, Tables, Install!found
<1>2. c \in Install!Packagings /\ Install!Packagings' = Install!Packagings \ {c}
  BY <1>1 DEF Install!Packagings
<1>3. ASSUME NEW d \in Caller
      PROVE  (FromSource(d) /\ Sends(d) /\ (at[d] = "idle" => metadata[d] = Nil))'
  <2>1. CASE d = c
    <3>1. installer[d].kind = "source"
      BY <2>1 DEF IInv, FromSource
    <3>2. FromSource(d)' /\ (at[d] = "idle" => metadata[d] = Nil)'
      BY <1>1, <2>1 DEF FromSource
    <3>3. installed'[d] # Failure => overlapped' \/ Install!Mine(d, installed[d])'
      BY <1>1, <2>1 DEF Install!Mine, Install!Home, Install!Target
    <3> QED
      BY <3>1, <3>2, <3>3 DEF Sends
  <2>2. CASE d # c
    BY <1>1, <2>2 DEF IInv, FromSource, Sends, Install!Mine, Install!Home, Install!Target
  <2> QED
    BY <2>1, <2>2
<1>4. ASSUME ~overlapped  PROVE  Alone' /\ cwd' = Start /\ \A d \in Caller : Place(d)'
  <2>1. cwd = Start /\ Alone'
    BY <1>2, <1>4 DEF IInv, Alone, Place
  <2>2. ASSUME NEW d \in Caller  PROVE  Place(d)'
    <3>1. Place(d)
      BY <1>4 DEF IInv
    <3>2. Install!Home(d)' = Install!Home(d) /\ Finding(d)' = Finding(d)
      BY DEF Install!Home, Finding
    <3> QED
      BY <1>1, <3>1, <3>2 DEF Place, Found
  <2> QED
    BY <2>1, <2>2
<1> QED
  BY <1>1, <1>3, <1>4 DEF IInv

(* Metadata is written of what moduleInfo found.                           *)
LEMMA WriteMetadataKeeps ==
  ASSUME IInv, NEW c \in Caller, Install!WriteMetadata(c)
  PROVE  IInv'
<1>1. CASE modInfo[c] = Failure \/ installer[c].path = Install!NoPath
  BY <1>1, FinishKeeps DEF Install!WriteMetadata, Install!found
<1>2. CASE ~(modInfo[c] = Failure \/ installer[c].path = Install!NoPath)
  <2> DEFINE m == [path  |-> IF modInfo[c] = Nil THEN installer[c].path
                             ELSE modInfo[c].importPath,
                   label |-> installer[c].path, type |-> installer[c].type]
  <2>1. /\ at[c] = "return" /\ Install!Goto(c, "getwd") /\ metadata' = [metadata EXCEPT ![c] = m]
        /\ UNCHANGED <<installer, cwd, entryWD, modInfo, installed, overlapped>>
    BY <1>2 DEF Install!WriteMetadata, Install!found
  <2>2. /\ Tables'
        /\ at'[c] = "getwd" /\ metadata'[c].path = m.path
        /\ \A d \in Caller \ {c} : at'[d] = at[d] /\ metadata'[d] = metadata[d]
    <3> HIDE DEF m
    <3>1. /\ metadata' = [d \in Caller |-> metadata'[d]] /\ metadata'[c] = m
          /\ \A d \in Caller \ {c} : metadata'[d] = metadata[d]
      BY <2>1, Put DEF IInv, Tables
    <3>2. /\ at' = [d \in Caller |-> at'[d]] /\ at'[c] = "getwd"
          /\ \A d \in Caller \ {c} : at'[d] = at[d]
      BY <2>1, Put DEF IInv, Tables, Install!Goto
    <3> QED
      BY <2>1, <3>1, <3>2 DEF IInv, Tables
  <2>3. Install!Packagings' = Install!Packagings
    BY <2>1, <2>2 DEF Install!Packagings
  <2>4. ASSUME NEW d \in Caller
        PROVE  (FromSource(d) /\ Sends(d) /\ (at[d] = "idle" => metadata[d] = Nil))'
    BY <2>1, <2>2
       DEF IInv, FromSource, Sends, Install!Mine, Install!Home, Install!Target
  <2>5. ASSUME ~overlapped, NEW d \in Caller  PROVE  Place(d)'
    <3>1. Place(d) /\ Install!Home(d)' = Install!Home(d) /\ Finding(d)' = Finding(d)
      BY <2>1, <2>5 DEF IInv, Install!Home, Finding
    <3>2. CASE d = c
      BY <1>2, <2>1, <2>2, <3>1, <3>2 DEF Place, Found
    <3>3. CASE d # c
      BY <2>1, <2>2, <3>1, <3>3 DEF Place, Found
    <3> QED
      BY <3>2, <3>3
  <2>6. ~overlapped /\ Install!Packagings = {} => cwd = Start
    BY DEF IInv
  <2> QED
    BY <2>1, <2>2, <2>3, <2>4, <2>5, <2>6 DEF IInv, Alone
<1> QED
  BY <1>1, <1>2

(* The code is that of the module the metadata names: moduleInfo finds the *)
(* same the second time.                                                   *)
LEMMA WriteCodeKeeps ==
  ASSUME IInv, NEW c \in Caller, Install!WriteCode(c)
  PROVE  IInv'
<1> DEFINE r == IF modInfo[c] = Failure THEN Failure
                ELSE IF modInfo[c] # Nil
                  THEN [metadata |-> metadata[c], source |-> modInfo[c].dir]
                ELSE IF installer[c].path \in Gopath
                  THEN [metadata |-> metadata[c], source |-> installer[c].path]
                ELSE Failure
<1>1. /\ at[c] = "return" /\ metadata[c] # Nil /\ Install!Finish(c, r)
      /\ UNCHANGED <<installer, cwd, Install!found, metadata, overlapped>>
  BY DEF Install!WriteCode
<1>2. ASSUME ~overlapped, modInfo[c] # Failure  PROVE  r = Failure \/ Install!Mine(c, r)
  <2>1. /\ modInfo[c] = Finding(c) /\ installer[c].path # Install!NoPath
        /\ metadata[c].path = IF Finding(c) = Nil THEN installer[c].path
                              ELSE Finding(c).importPath
    BY <1>1, <1>2 DEF IInv, Place
  <2>2. CASE Finding(c) # Nil
    BY <1>2, <2>1, <2>2 DEF Install!Mine, Finding
  <2>3. CASE Finding(c) = Nil
    BY <1>2, <2>1, <2>3 DEF Install!Mine, Finding
  <2> QED
    BY <2>2, <2>3
<1>3. r = Failure \/ overlapped \/ Install!Mine(c, r)
  BY <1>2
<1> HIDE DEF r
<1> QED
  BY <1>1, <1>3, FinishKeeps

(* Who packages when is told by the steps of the calls.                    *)
THEOREM Invariance == Install!Spec => []IInv
<1>1. Install!Init => IInv
  <2> SUFFICES ASSUME Install!Init  PROVE IInv
    OBVIOUS
  <2>1. Tables /\ Install!Packagings = {} /\ cwd = Start
    BY DEF Install!Init, Tables, Install!Packagings
  <2>2. \A c \in Caller : at[c] = "idle" /\ metadata[c] = Nil /\ installed[c] = Nil
    BY DEF Install!Init
  <2> QED
    BY <2>1, <2>2 DEF IInv, Alone, Place, FromSource, Sends, Found
<1>2. IInv /\ [Install!Next]_(Install!vars) => IInv'
  <2> SUFFICES ASSUME IInv, [Install!Next]_(Install!vars)  PROVE IInv'
    OBVIOUS
  <2>1. CASE Install!Next
    BY <2>1, BeginKeeps, ModuleInfoKeeps, WriteMetadataKeeps, WriteCodeKeeps
       DEF Install!Next, ModuleInfoStep
  <2>2. CASE UNCHANGED Install!vars
    <3>1. /\ installer' = installer /\ cwd' = cwd /\ at' = at /\ entryWD' = entryWD
          /\ modInfo' = modInfo /\ metadata' = metadata /\ installed' = installed
          /\ overlapped' = overlapped
      BY <2>2 DEF Install!vars, Install!found
    <3>2. Tables' /\ Install!Packagings' = Install!Packagings /\ Alone' = Alone
      BY <3>1 DEF IInv, Tables, Alone, Install!Packagings
    <3>3. ASSUME NEW c \in Caller
          PROVE  FromSource(c)' = FromSource(c) /\ Sends(c)' = Sends(c)
      BY <3>1 DEF FromSource, Sends, Install!Mine, Install!Home, Install!Target
    <3>4. ASSUME NEW c \in Caller  PROVE Place(c)' = Place(c)
      BY <3>1 DEF Place, Found, Finding, Install!Home, Install!Target
    <3> QED
      BY <3>1, <3>2, <3>3, <3>4 DEF IInv
  <2> QED
    BY <2>1, <2>2
<1> QED
  BY <1>1, <1>2, PTL DEF Install!Spec

(* As long as packagings are made one after another, each sends the module *)
(* of its own path, and the process is back in its directory; packages     *)
(* that are not made here are sent as they are.                            *)
THEOREM PackagesItself == Install!Spec => []InstallsItself
<1>1. IInv => InstallsItself
  BY DEF IInv, Sends, InstallsItself, Install!InstallsItself
<1> QED
  BY <1>1, Invariance, PTL
-----------------------------------------------------------------------------
(* Simulation, for any simulations: the read-write sets come back from     *)
(* bytes, one conversion after the other, and the public one vouches for   *)
(* the private one.                                                        *)

(* What is made of a list, element by element, is as long. *)
LEMMA AsLong ==
  ASSUME NEW s, Sets!IsList(s), NEW f, DOMAIN f = DOMAIN s, f = [i \in DOMAIN f |-> f[i]]
  PROVE  Len(f) = Len(s) /\ Len(f) \in Nat
<1>1. PICK n \in Nat : n = Len(s)
  BY DEF Sets!IsList
<1>2. DOMAIN f = 1..n
  BY <1>1 DEF Sets!IsList
<1>3. \A i \in 1..n : f[i] \in {f[j] : j \in 1..n}
  OBVIOUS
<1>4. PICK S : S = {f[j] : j \in 1..n}
  OBVIOUS
<1>5. f \in [1..n -> S]
  BY <1>2, <1>3, <1>4
<1>6. f \in Seq(S)
  BY ONLY <1>5, n \in Nat, SeqDef
<1>7. Len(f) \in Nat /\ DOMAIN f = 1..Len(f)
  BY ONLY <1>6, LenProperties
<1>8. 1..n = 1..Len(f)
  BY <1>2, <1>7
<1> QED
  BY <1>1, <1>7, <1>8

(* The keys of a namespace or a collection, written and read. *)
LEMMA KeysBack ==
  ASSUME NEW k, Sets!Accesses(k),
         NEW kv, kv = Sets!Unmarshal(Sets!MarshalKV(Sets!KVOf(k)))
  PROVE  /\ Sets!SameKeys(kv, k)
         /\ Sets!MarshalKV(kv) = Sets!MarshalKV(Sets!KVOf(k))
         /\ DOMAIN kv.writes = DOMAIN k.writes
         /\ kv.writes = [w \in DOMAIN kv.writes |-> kv.writes[w]]
         /\ \A w \in DOMAIN k.writes :
              /\ kv.writes[w].key = k.writes[w][1]
              /\ kv.writes[w].isDelete <=> k.writes[w][2] = Nil
              /\ kv.writes[w].isDelete \in BOOLEAN
              /\ kv.writes[w].value =
                   IF k.writes[w][2] = Empty THEN Nil ELSE k.writes[w][2]
<1>1. PICK R : R = [r \in DOMAIN k.reads |-> Sets!NewKVRead(k.reads[r][1], k.reads[r][2])]
  OBVIOUS
<1>2. PICK W : W = [w \in DOMAIN k.writes |->
                      [key |-> k.writes[w][1], isDelete |-> k.writes[w][2] = Nil,
                       value |-> k.writes[w][2]]]
  OBVIOUS
<1>3. Sets!KVOf(k) = [reads |-> R, writes |-> W]
  BY <1>1, <1>2 DEF Sets!KVOf, Sets!newPvtKVWriteAndHash, Sets!newKVWrite
<1>4. PICK V : V = [w \in DOMAIN k.writes |->
                      [W[w] EXCEPT !.value = IF @ = Empty THEN Nil ELSE @]]
  OBVIOUS
<1>5. DOMAIN W = DOMAIN k.writes /\ DOMAIN V = DOMAIN k.writes /\ V = [w \in DOMAIN V |-> V[w]]
  BY <1>2, <1>4
<1>6. Sets!MarshalKV(Sets!KVOf(k)) = Sets!Marshal([reads |-> R, writes |-> V])
  BY <1>3, <1>4, <1>5 DEF Sets!MarshalKV
<1>7. kv = [reads |-> R, writes |-> V]
  BY <1>6 DEF Sets!Marshal, Sets!Unmarshal
<1>8. ASSUME NEW w \in DOMAIN k.writes
      PROVE  /\ V[w].key = k.writes[w][1]
             /\ V[w].isDelete <=> k.writes[w][2] = Nil
             /\ V[w].isDelete \in BOOLEAN
             /\ V[w].value = IF k.writes[w][2] = Empty THEN Nil ELSE k.writes[w][2]
             /\ [V[w] EXCEPT !.value = IF @ = Empty THEN Nil ELSE @] = V[w]
  <2>0. PICK x, y : x = k.writes[w][1] /\ y = k.writes[w][2]
    OBVIOUS
  <2>1. PICK b \in BOOLEAN : b <=> y = Nil
    OBVIOUS
  <2>2. W[w] = [key |-> x, isDelete |-> b, value |-> y]
    BY <1>2, <2>0, <2>1
  <2>3. PICK z : z = IF y = Empty THEN Nil ELSE y
    OBVIOUS
  <2>4. V[w] = [W[w] EXCEPT !.value = IF @ = Empty THEN Nil ELSE @]
    BY <1>4
  <2>5. V[w] = [key |-> x, isDelete |-> b, value |-> z]
    BY <2>2, <2>3, <2>4
  <2>6. (IF z = Empty THEN Nil ELSE z) = z
    BY <2>3
  <2>7. [V[w] EXCEPT !.value = IF @ = Empty THEN Nil ELSE @] = V[w]
    BY <2>5, <2>6
  <2>8. V[w].key = x /\ (V[w].isDelete <=> b) /\ V[w].value = z
        /\ V[w].isDelete \in BOOLEAN
    BY <2>5
  <2> QED
    BY <2>0, <2>1, <2>3, <2>7, <2>8
<1>9. Sets!MarshalKV(kv) = Sets!MarshalKV(Sets!KVOf(k))
  <2>1. [w \in DOMAIN V |-> [V[w] EXCEPT !.value = IF @ = Empty THEN Nil ELSE @]] = V
    BY <1>5, <1>8
  <2>2. Sets!MarshalKV(kv) = Sets!Marshal([reads |-> R, writes |-> V])
    <3>1. kv.writes = V /\ [kv EXCEPT !.writes = V] = [reads |-> R, writes |-> V]
      BY <1>7
    <3>2. Sets!MarshalKV(kv) = Sets!Marshal([kv EXCEPT !.writes = V])
      <4>1. PICK M : M = [w \in DOMAIN kv.writes |->
                            [kv.writes[w] EXCEPT !.value = IF @ = Empty THEN Nil ELSE @]]
        OBVIOUS
      <4>2. M = V
        BY <1>5, <2>1, <3>1, <4>1
      <4>3. Sets!MarshalKV(kv) = Sets!Marshal([kv EXCEPT !.writes = M])
        BY <4>1 DEF Sets!MarshalKV
      <4> QED
        BY <4>2, <4>3
    <3> QED
      BY <3>1, <3>2
  <2> QED
    BY <1>6, <2>2
<1>10. Sets!SameKeys(kv, k)
  <2>1. kv.reads = R /\ kv.writes = V
    BY <1>7
  <2>2. Len(V) = Len(k.writes)
    BY <1>5, AsLong DEF Sets!Accesses
  <2>3. DOMAIN R = DOMAIN k.reads /\ R = [r \in DOMAIN R |-> R[r]]
    BY <1>1
  <2>4. Len(R) = Len(k.reads)
    BY <2>3, AsLong DEF Sets!Accesses
  <2>5. ASSUME NEW r \in DOMAIN k.reads
        PROVE  /\ R[r].key = k.reads[r][1]
               /\ Sets!NewVersion(R[r].version) = k.reads[r][2]
    <3>1. PICK v : v = k.reads[r][2]
      OBVIOUS
    <3>2. R[r] = [key |-> k.reads[r][1], version |-> Sets!newProtoVersion(v)]
      BY <1>1, <3>1 DEF Sets!NewKVRead
    <3>3. Sets!NewVersion(Sets!newProtoVersion(v)) = v
      <4>1. CASE v = Nil
        BY <4>1 DEF Sets!NewVersion, Sets!newProtoVersion
      <4>2. CASE v # Nil
        <5>1. v = <<v[1], v[2]>> /\ Sets!newProtoVersion(v) # Nil
          BY <3>1, <4>2 DEF Sets!Accesses
        <5>2. Sets!newProtoVersion(v) = [blockNum |-> v[1], txNum |-> v[2]]
          BY <4>2 DEF Sets!newProtoVersion
        <5> QED
          BY <5>1, <5>2 DEF Sets!NewVersion
      <4> QED
        BY <4>1, <4>2
    <3> QED
      BY <3>1, <3>2, <3>3
  <2>6. \A w \in DOMAIN k.writes :
          /\ V[w].key = k.writes[w][1]
          /\ V[w].isDelete <=> k.writes[w][2] = Nil
          /\ V[w].value \in {k.writes[w][2]} \cup (IF k.writes[w][2] = Empty THEN {Nil} ELSE {})
    <3> SUFFICES ASSUME NEW w \in DOMAIN k.writes
                 PROVE  V[w].value \in {k.writes[w][2]} \cup (IF k.writes[w][2] = Empty THEN {Nil} ELSE {})
      BY <1>8
    <3>1. V[w].value = IF k.writes[w][2] = Empty THEN Nil ELSE k.writes[w][2]
      BY <1>8
    <3> QED
      BY <3>1
  <2> QED
    BY <2>1, <2>2, <2>4, <2>5, <2>6 DEF Sets!SameKeys
<1>11. kv.writes = V
  BY <1>7
<1>12. \A w \in DOMAIN k.writes :
         /\ kv.writes[w].key = k.writes[w][1]
         /\ kv.writes[w].isDelete <=> k.writes[w][2] = Nil
         /\ kv.writes[w].isDelete \in BOOLEAN
         /\ kv.writes[w].value = IF k.writes[w][2] = Empty THEN Nil ELSE k.writes[w][2]
  BY <1>8, <1>11
<1>13. DOMAIN kv.writes = DOMAIN k.writes /\ kv.writes = [w \in DOMAIN kv.writes |-> kv.writes[w]]
  BY <1>5, <1>11
<1> QED
  BY <1>9, <1>10, <1>12, <1>13

(* The hashed writes of a collection, against the writes as they are read. *)
LEMMA HashesMatch ==
  ASSUME NEW k, Sets!Accesses(k), NEW h, h = Sets!HashedOf(k),
         NEW kv, kv = Sets!Unmarshal(Sets!MarshalKV(Sets!KVOf(k)))
  PROVE  Sets!Vouches(h, kv)
<1>1. PICK H : H = [w \in DOMAIN k.writes |->
                      [keyHash |-> Sets!Sha256(k.writes[w][1]), isDelete |-> k.writes[w][2] = Nil,
                       valueHash |-> IF k.writes[w][2] = Nil THEN Nil
                                     ELSE Sets!Sha256(k.writes[w][2])]]
  OBVIOUS
<1>2. h.hashedWrites = H
  BY <1>1 DEF Sets!HashedOf, Sets!newPvtKVWriteAndHash
<1>3. /\ DOMAIN kv.writes = DOMAIN k.writes
      /\ kv.writes = [w \in DOMAIN kv.writes |-> kv.writes[w]]
      /\ \A w \in DOMAIN k.writes :
           /\ kv.writes[w].key = k.writes[w][1]
           /\ kv.writes[w].isDelete <=> k.writes[w][2] = Nil
           /\ kv.writes[w].isDelete \in BOOLEAN
           /\ kv.writes[w].value = IF k.writes[w][2] = Empty THEN Nil ELSE k.writes[w][2]
  BY KeysBack
<1>4. DOMAIN H = DOMAIN k.writes /\ H = [w \in DOMAIN H |-> H[w]]
  BY <1>1
<1>5. Sets!IsList(k.writes)
  BY DEF Sets!Accesses
<1>6. Len(H) = Len(k.writes) /\ Len(kv.writes) = Len(k.writes)
  <2>1. PICK s : s = k.writes
    OBVIOUS
  <2>2. PICK f : f = kv.writes
    OBVIOUS
  <2>3. Len(H) = Len(s)
    BY <1>4, <1>5, <2>1, AsLong
  <2>4. Len(f) = Len(s)
    BY <1>3, <1>5, <2>1, <2>2, AsLong
  <2> QED
    BY <2>1, <2>2, <2>3, <2>4
<1>7. ASSUME NEW w \in DOMAIN k.writes
      PROVE  /\ H[w].keyHash = Sets!Sha256(kv.writes[w].key)
             /\ H[w].isDelete = kv.writes[w].isDelete
             /\ H[w].valueHash =
                  IF kv.writes[w].isDelete THEN Nil
                  ELSE Sets!Sha256(IF kv.writes[w].value = Nil THEN Empty ELSE kv.writes[w].value)
  <2>1. PICK x, y : x = k.writes[w][1] /\ y = k.writes[w][2]
    OBVIOUS
  <2>2. PICK p : p = kv.writes[w]
    OBVIOUS
  <2>3. H[w] = [keyHash |-> Sets!Sha256(x), isDelete |-> y = Nil,
                valueHash |-> IF y = Nil THEN Nil ELSE Sets!Sha256(y)]
    BY <1>1, <2>1
  <2>4. /\ p.key = x /\ (p.isDelete <=> y = Nil) /\ p.isDelete \in BOOLEAN
        /\ p.value = IF y = Empty THEN Nil ELSE y
    BY <1>3, <2>1, <2>2
  <2>5. H[w].keyHash = Sets!Sha256(p.key)
    BY <2>3, <2>4
  <2>6. H[w].isDelete = p.isDelete
    <3>1. H[w].isDelete = (y = Nil)
      BY <2>3
    <3> QED
      BY <2>4, <3>1
  <2>7. H[w].valueHash =
          IF p.isDelete THEN Nil ELSE Sets!Sha256(IF p.value = Nil THEN Empty ELSE p.value)
    <3>1. H[w].valueHash = IF y = Nil THEN Nil ELSE Sets!Sha256(y)
      BY <2>3
    <3>2. y # Nil => (IF p.value = Nil THEN Empty ELSE p.value) = y
      BY <2>4
    <3> QED
      BY <2>4, <3>1, <3>2
  <2> QED
    BY <2>2, <2>5, <2>6, <2>7
<1> QED
  BY <1>2, <1>4, <1>6, <1>7 DEF Sets!Vouches

(* Only the public set can have a nil part. *)
LEMMA SetsWritten ==
  ASSUME NEW s
  PROVE  /\ (\E n \in DOMAIN s : s[n].keys = Nil) =>
              Sets!TxRwSetToProtoBytes(Sets!Public(s)) = Sets!Error
         /\ (\A n \in DOMAIN s : s[n].keys # Nil) =>
              Sets!TxRwSetToProtoBytes(Sets!Public(s)) =
                Sets!Marshal([dataModel |-> "KV",
                              nsRwset |-> [n \in DOMAIN s |->
                                             Sets!nsRwSetToProtoMsg(Sets!Public(s)[n])]])
         /\ Sets!TxPvtRwSetToProtoBytes(Sets!Private(s)) =
              Sets!Marshal([dataModel |-> "KV",
                            nsPvtRwset |-> [n \in DOMAIN s |->
                                              Sets!nsPvtRwSetToProtoMsg(Sets!Private(s)[n])]])
<1>1. PICK t : t = Sets!Public(s)
  OBVIOUS
<1>2. DOMAIN t = DOMAIN s
  BY <1>1 DEF Sets!Public
<1>3. ASSUME NEW k
      PROVE  Sets!KVOf(k) # Sets!Absent /\ Sets!HashedOf(k) # Sets!Absent
  <2>1. DOMAIN Sets!KVOf(k) = {"reads", "writes"}
    BY DEF Sets!KVOf
  <2>2. DOMAIN Sets!HashedOf(k) = {"hashedReads", "hashedWrites"}
    BY DEF Sets!HashedOf
  <2>3. DOMAIN Sets!Absent = {"absent"}
    BY DEF Sets!Absent
  <2> QED
    BY <2>1, <2>2, <2>3
<1>4. ASSUME NEW n \in DOMAIN s
      PROVE  /\ t[n].kvRwSet = IF s[n].keys = Nil THEN Sets!Absent ELSE Sets!KVOf(s[n].keys)
             /\ DOMAIN t[n].collHashedRwSets = DOMAIN s[n].colls
             /\ \A c \in DOMAIN s[n].colls :
                  t[n].collHashedRwSets[c].hashedRwSet = Sets!HashedOf(s[n].colls[c].keys)
  BY <1>1 DEF Sets!Public
<1>5. (\E n \in DOMAIN t :
           \/ t[n].kvRwSet = Sets!Absent
           \/ \E c \in DOMAIN t[n].collHashedRwSets :
                t[n].collHashedRwSets[c].hashedRwSet = Sets!Absent)
         <=> \E n \in DOMAIN s : s[n].keys = Nil
  BY <1>2, <1>3, <1>4
<1>6. Sets!TxRwSetToProtoBytes(t) =
        IF \E n \in DOMAIN s : s[n].keys = Nil THEN Sets!Error
        ELSE Sets!Marshal([dataModel |-> "KV",
                           nsRwset |-> [n \in DOMAIN s |-> Sets!nsRwSetToProtoMsg(t[n])]])
  BY <1>2, <1>5 DEF Sets!TxRwSetToProtoBytes
<1>7. PICK u : u = Sets!Private(s)
  OBVIOUS
<1>8. DOMAIN u = DOMAIN s
  BY <1>7 DEF Sets!Private
<1>9. \A n \in DOMAIN s :
         /\ DOMAIN u[n].collPvtRwSets = DOMAIN s[n].colls
         /\ \A c \in DOMAIN s[n].colls :
              u[n].collPvtRwSets[c].kvRwSet = Sets!KVOf(s[n].colls[c].keys)
  BY <1>7 DEF Sets!Private
<1>10. ~ \E n \in DOMAIN u : \E c \in DOMAIN u[n].collPvtRwSets :
            u[n].collPvtRwSets[c].kvRwSet = Sets!Absent
  BY <1>3, <1>8, <1>9
<1>11. Sets!TxPvtRwSetToProtoBytes(u) =
         Sets!Marshal([dataModel |-> "KV",
                       nsPvtRwset |-> [n \in DOMAIN s |-> Sets!nsPvtRwSetToProtoMsg(u[n])]])
  BY <1>8, <1>10 DEF Sets!TxPvtRwSetToProtoBytes
<1> QED
  BY <1>1, <1>6, <1>7, <1>11

(* A public set as it is read back. *)
LEMMA PublicBack ==
  ASSUME NEW s, \A n \in DOMAIN s : s[n].keys # Nil,
         NEW t, t = Sets!ProtoUnmarshal(Sets!TxRwSetToProtoBytes(Sets!Public(s)))
  PROVE  /\ DOMAIN t = DOMAIN s /\ t = [n \in DOMAIN t |-> t[n]]
         /\ \A n \in DOMAIN s :
              /\ t[n].nameSpace = s[n].ns
              /\ t[n].kvRwSet = Sets!Unmarshal(Sets!MarshalKV(Sets!KVOf(s[n].keys)))
              /\ DOMAIN t[n].collHashedRwSets = DOMAIN s[n].colls
              /\ t[n].collHashedRwSets =
                   [c \in DOMAIN t[n].collHashedRwSets |-> t[n].collHashedRwSets[c]]
              /\ \A c \in DOMAIN s[n].colls :
                   /\ t[n].collHashedRwSets[c].collectionName = s[n].colls[c].coll
                   /\ t[n].collHashedRwSets[c].hashedRwSet = Sets!HashedOf(s[n].colls[c].keys)
                   /\ t[n].collHashedRwSets[c].pvtRwSetHash =
                        Sets!Sha256(Sets!MarshalKV(Sets!KVOf(s[n].colls[c].keys)))
<1>1. PICK p : p = Sets!Public(s)
  OBVIOUS
<1>2. PICK M : M = [n \in DOMAIN s |-> Sets!nsRwSetToProtoMsg(p[n])]
  OBVIOUS
<1>3. PICK msg : msg = [dataModel |-> "KV", nsRwset |-> M]
  OBVIOUS
<1>4. Sets!TxRwSetToProtoBytes(p) = Sets!Marshal(msg)
  BY <1>1, <1>2, <1>3, SetsWritten
<1>5. DOMAIN Sets!Marshal(msg) = {"bytes"} /\ Sets!Unmarshal(Sets!Marshal(msg)) = msg
      /\ Sets!Marshal(msg).bytes = msg
  BY DEF Sets!Marshal, Sets!Unmarshal
<1>6. DOMAIN msg = {"dataModel", "nsRwset"} /\ msg.nsRwset = M
  BY <1>3
<1>7. Sets!IsTxRwSet(Sets!Marshal(msg))
  BY <1>5, <1>6 DEF Sets!IsTxRwSet, Sets!Carries
<1>8. t = [n \in DOMAIN M |-> Sets!nsRwSetFromProtoMsg(M[n])]
  <2>1. t = Sets!ProtoUnmarshal(Sets!Marshal(msg))
    BY <1>1, <1>4
  <2>2. PICK b : b = Sets!Marshal(msg)
    OBVIOUS
  <2>3. Sets!IsTxRwSet(b) /\ Sets!Unmarshal(b).nsRwset = M
    BY <1>5, <1>6, <1>7, <2>2
  <2>4. Sets!ProtoUnmarshal(b) = [n \in DOMAIN M |-> Sets!nsRwSetFromProtoMsg(M[n])]
    BY <2>3 DEF Sets!ProtoUnmarshal, Sets!TxRwSetFromProtoBytes
  <2> QED
    BY <2>1, <2>2, <2>4
<1>9. DOMAIN M = DOMAIN s
  BY <1>2
<1>10. ASSUME NEW n \in DOMAIN s
       PROVE  /\ t[n].nameSpace = s[n].ns
              /\ t[n].kvRwSet = Sets!Unmarshal(Sets!MarshalKV(Sets!KVOf(s[n].keys)))
              /\ DOMAIN t[n].collHashedRwSets = DOMAIN s[n].colls
              /\ t[n].collHashedRwSets =
                   [c \in DOMAIN t[n].collHashedRwSets |-> t[n].collHashedRwSets[c]]
              /\ \A c \in DOMAIN s[n].colls :
                   /\ t[n].collHashedRwSets[c].collectionName = s[n].colls[c].coll
                   /\ t[n].collHashedRwSets[c].hashedRwSet = Sets!HashedOf(s[n].colls[c].keys)
                   /\ t[n].collHashedRwSets[c].pvtRwSetHash =
                        Sets!Sha256(Sets!MarshalKV(Sets!KVOf(s[n].colls[c].keys)))
  <2>1. PICK x : x = s[n]
    OBVIOUS
  <2>2. PICK D : D = DOMAIN x.colls
    OBVIOUS
  <2>3. PICK C : C = [c \in D |->
           [collectionName |-> x.colls[c].coll, hashedRwSet |-> Sets!HashedOf(x.colls[c].keys),
            pvtRwSetHash |-> Sets!Sha256(Sets!MarshalKV(Sets!KVOf(x.colls[c].keys)))]]
    OBVIOUS
  <2>4. p[n] = [nameSpace |-> x.ns, kvRwSet |-> Sets!KVOf(x.keys), collHashedRwSets |-> C]
    BY <1>1, <2>1, <2>2, <2>3 DEF Sets!Public
  <2>5. PICK N : N = [c \in D |-> Sets!collHashedRwSetToProtoMsg(C[c])]
    OBVIOUS
  <2>6. Sets!nsRwSetToProtoMsg(p[n]) =
          [namespace |-> x.ns, rwset |-> Sets!MarshalKV(Sets!KVOf(x.keys)),
           collectionHashedRwset |-> N]
    <3>1. PICK q : q = p[n]
      OBVIOUS
    <3>2. DOMAIN C = D
      BY <2>3
    <3>3. q.nameSpace = x.ns /\ q.kvRwSet = Sets!KVOf(x.keys) /\ q.collHashedRwSets = C
      BY <2>4, <3>1
    <3>4. Sets!nsRwSetToProtoMsg(q) =
            [namespace |-> x.ns, rwset |-> Sets!MarshalKV(Sets!KVOf(x.keys)),
             collectionHashedRwset |-> N]
      BY <2>5, <3>2, <3>3 DEF Sets!nsRwSetToProtoMsg
    <3> QED
      BY <3>1, <3>4
  <2>7. PICK m : m = Sets!nsRwSetToProtoMsg(p[n])
    OBVIOUS
  <2>8. t[n] = Sets!nsRwSetFromProtoMsg(m)
    BY <1>2, <1>8, <1>9, <2>7
  <2>9. /\ m.namespace = x.ns /\ m.rwset = Sets!MarshalKV(Sets!KVOf(x.keys))
        /\ m.collectionHashedRwset = N
    BY <2>6, <2>7
  <2>10. DOMAIN N = D
    BY <2>5
  <2>11. PICK B : B = [c \in D |-> Sets!collHashedRwSetFromProtoMsg(N[c])]
    OBVIOUS
  <2>12. t[n] = [nameSpace |-> x.ns,
                 kvRwSet |-> Sets!Unmarshal(Sets!MarshalKV(Sets!KVOf(x.keys))),
                 collHashedRwSets |-> B]
    BY <2>8, <2>9, <2>10, <2>11 DEF Sets!nsRwSetFromProtoMsg
  <2>13. \A y : Sets!collHashedRwSetFromProtoMsg(Sets!collHashedRwSetToProtoMsg(y)) =
                  [collectionName |-> y.collectionName, pvtRwSetHash |-> y.pvtRwSetHash,
                   hashedRwSet |-> y.hashedRwSet]
    BY DEF Sets!collHashedRwSetFromProtoMsg, Sets!collHashedRwSetToProtoMsg,
           Sets!Marshal, Sets!Unmarshal
  <2>14. ASSUME NEW c \in D
         PROVE  /\ B[c].collectionName = x.colls[c].coll
                /\ B[c].hashedRwSet = Sets!HashedOf(x.colls[c].keys)
                /\ B[c].pvtRwSetHash = Sets!Sha256(Sets!MarshalKV(Sets!KVOf(x.colls[c].keys)))
    <3>1. PICK y : y = C[c]
      OBVIOUS
    <3>2. B[c] = Sets!collHashedRwSetFromProtoMsg(Sets!collHashedRwSetToProtoMsg(y))
      BY <2>5, <2>11, <3>1
    <3>3. /\ y.collectionName = x.colls[c].coll
          /\ y.hashedRwSet = Sets!HashedOf(x.colls[c].keys)
          /\ y.pvtRwSetHash = Sets!Sha256(Sets!MarshalKV(Sets!KVOf(x.colls[c].keys)))
      BY <2>3, <3>1
    <3> QED
      BY <2>13, <3>2, <3>3
  <2>15. /\ t[n].nameSpace = x.ns /\ t[n].collHashedRwSets = B
         /\ t[n].kvRwSet = Sets!Unmarshal(Sets!MarshalKV(Sets!KVOf(x.keys)))
    BY <2>12
  <2>16. DOMAIN B = D /\ B = [c \in DOMAIN B |-> B[c]]
    BY <2>11
  <2> QED
    BY <2>1, <2>2, <2>14, <2>15, <2>16
<1> QED
  BY <1>8, <1>9, <1>10

(* A private set as it is read back. *)
LEMMA PrivateBack ==
  ASSUME NEW s,
         NEW t, t = Sets!TxPvtRwSetFromProtoBytes(Nil, Sets!TxPvtRwSetToProtoBytes(Sets!Private(s)))
  PROVE  /\ DOMAIN t = DOMAIN s /\ t = [n \in DOMAIN t |-> t[n]]
         /\ \A n \in DOMAIN s :
              /\ t[n].nameSpace = s[n].ns
              /\ DOMAIN t[n].collPvtRwSets = DOMAIN s[n].colls
              /\ \A c \in DOMAIN s[n].colls :
                   /\ t[n].collPvtRwSets[c].collectionName = s[n].colls[c].coll
                   /\ t[n].collPvtRwSets[c].kvRwSet =
                        Sets!Unmarshal(Sets!MarshalKV(Sets!KVOf(s[n].colls[c].keys)))
<1>1. PICK p : p = Sets!Private(s)
  OBVIOUS
<1>2. PICK M : M = [n \in DOMAIN s |-> Sets!nsPvtRwSetToProtoMsg(p[n])]
  OBVIOUS
<1>3. PICK msg : msg = [dataModel |-> "KV", nsPvtRwset |-> M]
  OBVIOUS
<1>4. Sets!TxPvtRwSetToProtoBytes(p) = Sets!Marshal(msg)
  BY <1>1, <1>2, <1>3, SetsWritten
<1>5. DOMAIN Sets!Marshal(msg) = {"bytes"} /\ Sets!Unmarshal(Sets!Marshal(msg)) = msg
      /\ Sets!Marshal(msg).bytes = msg
  BY DEF Sets!Marshal, Sets!Unmarshal
<1>6. DOMAIN msg = {"dataModel", "nsPvtRwset"} /\ msg.nsPvtRwset = M
  BY <1>3
<1>7. t = [n \in DOMAIN M |-> Sets!nsPvtRwSetFromProtoMsg(M[n])]
  <2>1. PICK b : b = Sets!Marshal(msg)
    OBVIOUS
  <2>2. t = Sets!TxPvtRwSetFromProtoBytes(Nil, b)
    BY <1>1, <1>4, <2>1
  <2>3. Sets!Carries(b, {"dataModel", "nsPvtRwset"}) /\ Sets!Unmarshal(b).nsPvtRwset = M
    BY <1>5, <1>6, <2>1 DEF Sets!Carries
  <2> QED
    BY <2>2, <2>3 DEF Sets!TxPvtRwSetFromProtoBytes
<1>8. DOMAIN M = DOMAIN s
  BY <1>2
<1>9. ASSUME NEW n \in DOMAIN s
      PROVE  /\ t[n].nameSpace = s[n].ns
             /\ DOMAIN t[n].collPvtRwSets = DOMAIN s[n].colls
             /\ \A c \in DOMAIN s[n].colls :
                  /\ t[n].collPvtRwSets[c].collectionName = s[n].colls[c].coll
                  /\ t[n].collPvtRwSets[c].kvRwSet =
                       Sets!Unmarshal(Sets!MarshalKV(Sets!KVOf(s[n].colls[c].keys)))
  <2>1. PICK x : x = s[n]
    OBVIOUS
  <2>2. PICK D : D = DOMAIN x.colls
    OBVIOUS
  <2>3. PICK C : C = [c \in D |-> [collectionName |-> x.colls[c].coll,
                                   kvRwSet |-> Sets!KVOf(x.colls[c].keys)]]
    OBVIOUS
  <2>4. p[n] = [nameSpace |-> x.ns, collPvtRwSets |-> C]
    BY <1>1, <2>1, <2>2, <2>3 DEF Sets!Private
  <2>5. PICK N : N = [c \in D |-> [collectionName |-> C[c].collectionName,
                                   rwset |-> Sets!MarshalKV(C[c].kvRwSet)]]
    OBVIOUS
  <2>6. PICK q : q = p[n]
    OBVIOUS
  <2>7. PICK m : m = Sets!nsPvtRwSetToProtoMsg(q)
    OBVIOUS
  <2>8. m.namespace = x.ns /\ m.collectionPvtRwset = N
    <3>1. DOMAIN C = D
      BY <2>3
    <3>2. q.nameSpace = x.ns /\ q.collPvtRwSets = C
      BY <2>4, <2>6
    <3>3. m = [namespace |-> x.ns, collectionPvtRwset |-> N]
      BY <2>5, <2>7, <3>1, <3>2 DEF Sets!nsPvtRwSetToProtoMsg
    <3> QED
      BY <3>3
  <2>9. DOMAIN N = D
    BY <2>5
  <2>10. PICK B : B = [c \in D |-> [collectionName |-> N[c].collectionName,
                                    kvRwSet |-> Sets!Unmarshal(N[c].rwset)]]
    OBVIOUS
  <2>11. t[n] = Sets!nsPvtRwSetFromProtoMsg(m)
    BY <1>2, <1>7, <1>8, <2>6, <2>7
  <2>12. t[n] = [nameSpace |-> x.ns, collPvtRwSets |-> B]
    BY <2>8, <2>9, <2>10, <2>11 DEF Sets!nsPvtRwSetFromProtoMsg
  <2>13. \A c \in D : /\ B[c].collectionName = x.colls[c].coll
                      /\ B[c].kvRwSet = Sets!Unmarshal(Sets!MarshalKV(Sets!KVOf(x.colls[c].keys)))
    BY <2>3, <2>5, <2>10
  <2>14. t[n].nameSpace = x.ns /\ t[n].collPvtRwSets = B /\ DOMAIN B = D
    BY <2>10, <2>12
  <2> QED
    BY <2>1, <2>2, <2>13, <2>14
<1> QED
  BY <1>7, <1>8, <1>9

(* Simulation has its own name for the number of elements. *)
LEMMA SameCardinality ==
  ASSUME NEW S
  PROVE  Sets!Cardinality(S) = Cardinality(S)
BY DEF Sets!Cardinality, Cardinality, Sets!IsFiniteSet, IsFiniteSet

(* The recursion in NumCollections. *)
UpTo(t, f) ==
  f = [n \in 0..Len(t) |-> IF n = 0 THEN 0 ELSE f[n - 1] + Len(t[n].collHashedRwSets)]

LEMMA NumCollectionsIs ==
  ASSUME NEW t, t # Nil
  PROVE  Sets!NumCollections(t) = (CHOOSE f : UpTo(t, f))[Len(t)]
BY Zenon DEF Sets!NumCollections, UpTo

(* It has at most one solution.                                            *)
LEMMA UpToUnique ==
  ASSUME NEW t, Len(t) \in Nat, NEW f, UpTo(t, f), NEW g, UpTo(t, g)
  PROVE  f[Len(t)] = g[Len(t)]
<1>1. PICK L \in Nat : L = Len(t)
  OBVIOUS
<1>2. PICK C : C = {n \in 0..L : f[n] # g[n]}
  OBVIOUS
<1>3. /\ f = [n \in 0..L |-> IF n = 0 THEN 0 ELSE f[n - 1] + Len(t[n].collHashedRwSets)]
      /\ g = [n \in 0..L |-> IF n = 0 THEN 0 ELSE g[n - 1] + Len(t[n].collHashedRwSets)]
  BY <1>1 DEF UpTo
<1>4. ASSUME NEW n \in 0..L
      PROVE  /\ n = 0 => f[n] = 0 /\ g[n] = 0
             /\ n # 0 => /\ f[n] = f[n - 1] + Len(t[n].collHashedRwSets)
                         /\ g[n] = g[n - 1] + Len(t[n].collHashedRwSets)
  <2>1. f[n] = IF n = 0 THEN 0 ELSE f[n - 1] + Len(t[n].collHashedRwSets)
    BY <1>3
  <2>2. g[n] = IF n = 0 THEN 0 ELSE g[n - 1] + Len(t[n].collHashedRwSets)
    BY <1>3
  <2> QED
    BY <2>1, <2>2
<1>5. C = {}
  <2> SUFFICES ASSUME C # {} PROVE FALSE
    OBVIOUS
  <2>1. C \in SUBSET Nat
    BY <1>2
  <2>2. PICK m \in C : \A d \in C : m <= d
    BY <2>1, Least
  <2>3. m \in 0..L /\ f[m] # g[m]
    BY <1>2
  <2>4. m # 0
    BY <1>4, <2>3
  <2>5. m - 1 \in 0..L /\ m - 1 \notin C
    BY <2>2, <2>3, <2>4
  <2>6. f[m - 1] = g[m - 1]
    BY <1>2, <2>5
  <2> QED
    BY <1>4, <2>3, <2>4, <2>6
<1> QED
  BY <1>1, <1>2, <1>5

(* NumCollections counts the collections of all namespaces. *)
LEMMA NumCollectionsCounts ==
  ASSUME NEW t, t # Nil, NEW L \in Nat, Len(t) = L,
         NEW D, D = [m \in 1..L |-> DOMAIN t[m].collHashedRwSets],
         \A m \in 1..L : /\ Len(t[m].collHashedRwSets) \in Nat
                         /\ D[m] = 1..Len(t[m].collHashedRwSets)
  PROVE  Sets!NumCollections(t) = Cardinality(UNION {{m} \X D[m] : m \in 1..L})
<1>0. PICK P : P = [m \in 1..L |-> {m} \X D[m]]
  OBVIOUS
<1> DEFINE Pairs(n) == UNION {P[m] : m \in 1..n}
           G == [n \in 0..L |-> Cardinality(Pairs(n))]
<1>1. ASSUME NEW m \in 1..L
      PROVE  IsFiniteSet(P[m]) /\ Cardinality(P[m]) = Len(t[m].collHashedRwSets)
  <2>1. PICK k \in Nat : k = Len(t[m].collHashedRwSets)
    OBVIOUS
  <2>2. PICK K : K = 1..k
    OBVIOUS
  <2>3. IsFiniteSet(K) /\ Cardinality(K) = k
    BY <2>2, FS_Interval
  <2>4. IsFiniteSet({m}) /\ Cardinality({m}) = 1
    BY FS_Singleton
  <2>5. IsFiniteSet({m} \X K) /\ Cardinality({m} \X K) = Cardinality({m}) * Cardinality(K)
    BY ONLY <2>3, <2>4, FS_Product, Zenon
  <2>6. Cardinality({m} \X K) = k
    BY <2>3, <2>4, <2>5
  <2>7. P[m] = {m} \X K
    BY <1>0, <2>1, <2>2
  <2> QED
    BY <2>1, <2>5, <2>6, <2>7
<1>2. ASSUME NEW n \in 0..L
      PROVE  IsFiniteSet(Pairs(n))
  <2>1. PICK S : S = {P[m] : m \in 1..n}
    OBVIOUS
  <2>2. IsFiniteSet(1..n)
    BY FS_Interval
  <2>3. PICK F : F = [m \in 1..n |-> P[m]]
    OBVIOUS
  <2>4. F \in Surjection(1..n, S)
    BY <2>1, <2>3 DEF Surjection
  <2>5. IsFiniteSet(S)
    BY <2>2, <2>4, FS_Surjection
  <2>6. \A X \in S : IsFiniteSet(X)
    BY <1>1, <2>1
  <2>7. IsFiniteSet(UNION S)
    BY <2>5, <2>6, FS_UNION
  <2> QED
    BY <2>1, <2>7
<1>3. ASSUME NEW n \in 1..L
      PROVE  Cardinality(Pairs(n)) = Cardinality(Pairs(n - 1)) + Len(t[n].collHashedRwSets)
  <2>1. PICK A : A = Pairs(n - 1)
    OBVIOUS
  <2>2. PICK B : B = P[n]
    OBVIOUS
  <2>3. Pairs(n) = A \cup B
    <3>1. 1..n = 1..(n - 1) \cup {n}
      OBVIOUS
    <3> QED
      BY <2>1, <2>2, <3>1
  <2>4. A \cap B = {}
    <3>1. \A m \in 1..L : \A x \in P[m] : x[1] = m
      BY <1>0
    <3>2. \A x \in A : x[1] \in 1..(n - 1)
      BY <2>1, <3>1
    <3>3. \A x \in B : x[1] = n
      BY <2>2, <3>1
    <3> QED
      BY <3>2, <3>3
  <2>5. IsFiniteSet(A) /\ IsFiniteSet(B) /\ Cardinality(B) = Len(t[n].collHashedRwSets)
    <3>1. IsFiniteSet(A)
      <4>1. n - 1 \in 0..L
        OBVIOUS
      <4>2. IsFiniteSet(Pairs(n - 1))
        BY <1>2, <4>1
      <4> QED
        BY <2>1, <4>2
    <3>2. IsFiniteSet(B) /\ Cardinality(B) = Len(t[n].collHashedRwSets)
      BY <1>1, <2>2
    <3> QED
      BY <3>1, <3>2
  <2>6. Cardinality(A \cup B) = Cardinality(A) + Cardinality(B)
    <3>1. Cardinality(A \cup B) = Cardinality(A) + Cardinality(B) - Cardinality(A \cap B)
      BY <2>5, FS_Union
    <3>2. Cardinality(A) \in Nat /\ Cardinality(B) \in Nat /\ Cardinality(A \cap B) = 0
      BY <2>4, <2>5, FS_CardinalityType, FS_EmptySet
    <3> QED
      BY <3>1, <3>2
  <2> QED
    BY <2>1, <2>3, <2>5, <2>6
<1>4. Cardinality(Pairs(0)) = 0
  <2>1. Pairs(0) = {}
    OBVIOUS
  <2> QED
    BY <2>1, FS_EmptySet
<1>5. PICK g : g = G
  OBVIOUS
<1>6. \A n \in 0..L : g[n] = IF n = 0 THEN 0 ELSE g[n - 1] + Len(t[n].collHashedRwSets)
  <2> SUFFICES ASSUME NEW n \in 0..L
               PROVE  g[n] = IF n = 0 THEN 0 ELSE g[n - 1] + Len(t[n].collHashedRwSets)
    OBVIOUS
  <2>1. g[n] = Cardinality(Pairs(n))
    BY <1>5
  <2>2. CASE n = 0
    BY <1>4, <2>1, <2>2
  <2>3. CASE n # 0
    <3>1. n \in 1..L /\ n - 1 \in 0..L
      BY <2>3
    <3>2. g[n - 1] = Cardinality(Pairs(n - 1))
      BY <1>5, <3>1
    <3> HIDE DEF Pairs
    <3> QED
      BY <1>3, <2>1, <2>3, <3>1, <3>2
  <2> QED
    BY <2>2, <2>3
<1>7. UpTo(t, g)
  <2>1. g = [n \in 0..L |-> g[n]]
    BY <1>5
  <2> HIDE DEF G, Pairs
  <2> QED
    BY <1>6, <2>1 DEF UpTo
<1>8. UpTo(t, CHOOSE f : UpTo(t, f))
  BY <1>7, Zenon
<1>9. PICK f : f = CHOOSE h : UpTo(t, h)
  OBVIOUS
<1>10. f[Len(t)] = g[Len(t)]
  BY <1>7, <1>8, <1>9, UpToUnique
<1>11. Sets!NumCollections(t) = f[Len(t)]
  BY <1>9, NumCollectionsIs
<1>12. g[L] = Cardinality(Pairs(L))
  BY <1>5
<1>13. Pairs(L) = UNION {{m} \X D[m] : m \in 1..L}
  BY <1>0
<1> QED
  BY <1>10, <1>11, <1>12, <1>13

(* What GetPvtDataHash finds, where namespaces and collections are named   *)
(* once.                                                                   *)
LEMMA HashFound ==
  ASSUME NEW t, NEW n \in DOMAIN t, DOMAIN t \subseteq Nat,
         \A m \in DOMAIN t : t[m].nameSpace = t[n].nameSpace => m = n,
         NEW c \in DOMAIN t[n].collHashedRwSets, DOMAIN t[n].collHashedRwSets \subseteq Nat,
         \A d \in DOMAIN t[n].collHashedRwSets :
           t[n].collHashedRwSets[d].collectionName = t[n].collHashedRwSets[c].collectionName => d = c
  PROVE  Sets!GetPvtDataHash(t, t[n].nameSpace, t[n].collHashedRwSets[c].collectionName) =
           t[n].collHashedRwSets[c].pvtRwSetHash
<1>1. ASSUME NEW m \in Nat
      PROVE  Sets!Min({m}) = m
  <2>1. \A x \in {m} : m <= x
    OBVIOUS
  <2>2. \A x \in {m} : x = m
    OBVIOUS
  <2> QED
    BY <2>1, <2>2 DEF Sets!Min
<1>2. {m \in DOMAIN t : t[m].nameSpace = t[n].nameSpace} = {n}
  OBVIOUS
<1>3. PICK C : C = t[n].collHashedRwSets
  OBVIOUS
<1>4. PICK name : name = C[c].collectionName
  OBVIOUS
<1>5. {d \in DOMAIN C : C[d].collectionName = name} = {c}
  BY <1>3, <1>4
<1>6. Sets!getPvtDataHash(t[n], name) = C[c].pvtRwSetHash
  <2>1. Sets!Min({c}) = c
    BY <1>1
  <2> QED
    BY <1>3, <1>5, <2>1 DEF Sets!getPvtDataHash
<1>7. Sets!GetPvtDataHash(t, t[n].nameSpace, name) = Sets!getPvtDataHash(t[n], name)
  <2>1. Sets!Min({n}) = n
    BY <1>1
  <2> QED
    BY <1>2, <2>1 DEF Sets!GetPvtDataHash
<1> QED
  BY <1>3, <1>4, <1>6, <1>7

(* Both sets of a simulation with no nil part, read back. *)
LEMMA BothBack ==
  ASSUME NEW s, Sets!Simulated(s), \A n \in DOMAIN s : s[n].keys # Nil,
         NEW t, t = Sets!ProtoUnmarshal(Sets!TxRwSetToProtoBytes(Sets!Public(s))),
         NEW u, u = Sets!TxPvtRwSetFromProtoBytes(Nil, Sets!TxPvtRwSetToProtoBytes(Sets!Private(s)))
  PROVE  /\ Sets!NumCollections(t) =
              Sets!Cardinality(UNION {{n} \X DOMAIN s[n].colls : n \in DOMAIN s})
         /\ Len(t) = Len(s) /\ Len(u) = Len(s)
         /\ \A n \in DOMAIN s :
              /\ t[n].nameSpace = s[n].ns /\ u[n].nameSpace = s[n].ns
              /\ Sets!SameKeys(t[n].kvRwSet, s[n].keys)
              /\ Len(t[n].collHashedRwSets) = Len(s[n].colls)
              /\ \A c \in DOMAIN s[n].colls :
                   /\ u[n].collPvtRwSets[c].collectionName = s[n].colls[c].coll
                   /\ Sets!SameKeys(u[n].collPvtRwSets[c].kvRwSet, s[n].colls[c].keys)
<1>1. /\ DOMAIN t = DOMAIN s /\ t = [n \in DOMAIN t |-> t[n]]
      /\ \A n \in DOMAIN s :
           /\ t[n].nameSpace = s[n].ns
           /\ t[n].kvRwSet = Sets!Unmarshal(Sets!MarshalKV(Sets!KVOf(s[n].keys)))
           /\ DOMAIN t[n].collHashedRwSets = DOMAIN s[n].colls
           /\ t[n].collHashedRwSets =
                [c \in DOMAIN t[n].collHashedRwSets |-> t[n].collHashedRwSets[c]]
  BY PublicBack
<1>2. /\ DOMAIN u = DOMAIN s /\ u = [n \in DOMAIN u |-> u[n]]
      /\ \A n \in DOMAIN s :
           /\ u[n].nameSpace = s[n].ns
           /\ DOMAIN u[n].collPvtRwSets = DOMAIN s[n].colls
           /\ \A c \in DOMAIN s[n].colls :
                /\ u[n].collPvtRwSets[c].collectionName = s[n].colls[c].coll
                /\ u[n].collPvtRwSets[c].kvRwSet =
                     Sets!Unmarshal(Sets!MarshalKV(Sets!KVOf(s[n].colls[c].keys)))
  BY PrivateBack
<1>3. Sets!IsList(s)
  BY DEF Sets!Simulated
<1>4. Len(t) = Len(s) /\ Len(u) = Len(s) /\ Len(s) \in Nat
  BY <1>1, <1>2, <1>3, AsLong
<1>5. ASSUME NEW n \in DOMAIN s
      PROVE  /\ Sets!SameKeys(t[n].kvRwSet, s[n].keys)
             /\ Sets!IsList(s[n].colls)
             /\ \A c \in DOMAIN s[n].colls : Sets!Accesses(s[n].colls[c].keys)
  <2>1. PICK k : k = s[n].keys
    OBVIOUS
  <2>2. Sets!Accesses(k)
    BY <2>1 DEF Sets!Simulated
  <2>3. PICK kv : kv = Sets!Unmarshal(Sets!MarshalKV(Sets!KVOf(k)))
    OBVIOUS
  <2>4. Sets!SameKeys(kv, k)
    BY <2>2, <2>3, KeysBack
  <2>5. t[n].kvRwSet = kv
    BY <1>1, <2>1, <2>3
  <2>6. /\ Sets!IsList(s[n].colls)
        /\ \A c \in DOMAIN s[n].colls : Sets!Accesses(s[n].colls[c].keys)
    BY DEF Sets!Simulated
  <2> QED
    BY <2>1, <2>4, <2>5, <2>6
<1>6. ASSUME NEW n \in DOMAIN s
      PROVE  Len(t[n].collHashedRwSets) = Len(s[n].colls)
  <2>1. PICK f : f = t[n].collHashedRwSets
    OBVIOUS
  <2>2. PICK g : g = s[n].colls
    OBVIOUS
  <2>3. DOMAIN f = DOMAIN g /\ f = [c \in DOMAIN f |-> f[c]] /\ Sets!IsList(g)
    BY <1>1, <1>5, <2>1, <2>2
  <2>4. Len(f) = Len(g)
    BY <2>3, AsLong
  <2> QED
    BY <2>1, <2>2, <2>4
<1>7. ASSUME NEW n \in DOMAIN s, NEW c \in DOMAIN s[n].colls
      PROVE  Sets!SameKeys(u[n].collPvtRwSets[c].kvRwSet, s[n].colls[c].keys)
  <2>1. PICK k : k = s[n].colls[c].keys
    OBVIOUS
  <2>2. Sets!Accesses(k)
    BY <1>5, <2>1
  <2>3. PICK kv : kv = Sets!Unmarshal(Sets!MarshalKV(Sets!KVOf(k)))
    OBVIOUS
  <2>4. Sets!SameKeys(kv, k)
    BY <2>2, <2>3, KeysBack
  <2>5. u[n].collPvtRwSets[c].kvRwSet = kv
    BY <1>2, <2>1, <2>3
  <2> QED
    BY <2>1, <2>4, <2>5
<1>8. Sets!NumCollections(t) = Sets!Cardinality(UNION {{n} \X DOMAIN s[n].colls : n \in DOMAIN s})
  <2>1. PICK L \in Nat : L = Len(s)
    BY <1>4
  <2>2. DOMAIN s = 1..L /\ Len(t) = L
    BY <1>3, <1>4, <2>1 DEF Sets!IsList
  <2>3. PICK D : D = [m \in 1..L |-> DOMAIN t[m].collHashedRwSets]
    OBVIOUS
  <2>4. \A m \in 1..L : /\ Len(t[m].collHashedRwSets) \in Nat
                        /\ D[m] = 1..Len(t[m].collHashedRwSets)
                        /\ D[m] = DOMAIN s[m].colls
    BY <1>1, <1>5, <1>6, <2>2, <2>3 DEF Sets!IsList
  <2>5. t # Nil
    BY DEF Sets!Simulated
  <2>6. Sets!NumCollections(t) = Cardinality(UNION {{m} \X D[m] : m \in 1..L})
    BY <2>2, <2>3, <2>4, <2>5, NumCollectionsCounts
  <2>7. UNION {{m} \X D[m] : m \in 1..L} = UNION {{n} \X DOMAIN s[n].colls : n \in DOMAIN s}
    BY <2>2, <2>4
  <2> QED
    BY <2>6, <2>7, SameCardinality
<1> QED
  BY <1>1, <1>2, <1>4, <1>5, <1>6, <1>7, <1>8

(* A holder of the private set can check it. *)
LEMMA BothMatch ==
  ASSUME NEW s, Sets!Simulated(s), \A n \in DOMAIN s : s[n].keys # Nil,
         NEW t, t = Sets!ProtoUnmarshal(Sets!TxRwSetToProtoBytes(Sets!Public(s))),
         NEW u, u = Sets!TxPvtRwSetFromProtoBytes(Nil, Sets!TxPvtRwSetToProtoBytes(Sets!Private(s))),
         NEW n \in DOMAIN u, NEW c \in DOMAIN u[n].collPvtRwSets
  PROVE  /\ Sets!GetPvtDataHash(t, u[n].nameSpace, u[n].collPvtRwSets[c].collectionName) =
              Sets!Sha256(Sets!MarshalKV(u[n].collPvtRwSets[c].kvRwSet))
         /\ Sets!Vouches(t[n].collHashedRwSets[c].hashedRwSet, u[n].collPvtRwSets[c].kvRwSet)
<1>1. /\ DOMAIN t = DOMAIN s /\ t = [m \in DOMAIN t |-> t[m]]
      /\ \A m \in DOMAIN s :
           /\ t[m].nameSpace = s[m].ns
           /\ t[m].kvRwSet = Sets!Unmarshal(Sets!MarshalKV(Sets!KVOf(s[m].keys)))
           /\ DOMAIN t[m].collHashedRwSets = DOMAIN s[m].colls
           /\ t[m].collHashedRwSets =
                [d \in DOMAIN t[m].collHashedRwSets |-> t[m].collHashedRwSets[d]]
           /\ \A d \in DOMAIN s[m].colls :
                /\ t[m].collHashedRwSets[d].collectionName = s[m].colls[d].coll
                /\ t[m].collHashedRwSets[d].hashedRwSet = Sets!HashedOf(s[m].colls[d].keys)
                /\ t[m].collHashedRwSets[d].pvtRwSetHash =
                     Sets!Sha256(Sets!MarshalKV(Sets!KVOf(s[m].colls[d].keys)))
  BY PublicBack
<1>2. /\ DOMAIN u = DOMAIN s
      /\ \A m \in DOMAIN s :
           /\ u[m].nameSpace = s[m].ns
           /\ DOMAIN u[m].collPvtRwSets = DOMAIN s[m].colls
           /\ \A d \in DOMAIN s[m].colls :
                /\ u[m].collPvtRwSets[d].collectionName = s[m].colls[d].coll
                /\ u[m].collPvtRwSets[d].kvRwSet =
                     Sets!Unmarshal(Sets!MarshalKV(Sets!KVOf(s[m].colls[d].keys)))
  BY PrivateBack
<1>3. n \in DOMAIN s /\ c \in DOMAIN s[n].colls
  BY <1>2
<1>4. PICK k : k = s[n].colls[c].keys
  OBVIOUS
<1>5. Sets!Accesses(k)
  BY <1>3, <1>4 DEF Sets!Simulated
<1>6. PICK kv : kv = Sets!Unmarshal(Sets!MarshalKV(Sets!KVOf(k)))
  OBVIOUS
<1>7. /\ u[n].collPvtRwSets[c].kvRwSet = kv
      /\ t[n].collHashedRwSets[c].hashedRwSet = Sets!HashedOf(k)
  BY <1>1, <1>2, <1>3, <1>4, <1>6
<1>8. Sets!GetPvtDataHash(t, u[n].nameSpace, u[n].collPvtRwSets[c].collectionName) =
        Sets!Sha256(Sets!MarshalKV(kv))
  <2>1. DOMAIN t \subseteq Nat /\ DOMAIN t[n].collHashedRwSets \subseteq Nat
    <3>1. DOMAIN s \subseteq Nat /\ DOMAIN s[n].colls \subseteq Nat
      BY <1>3 DEF Sets!Simulated, Sets!IsList
    <3> QED
      BY <1>1, <1>3, <3>1
  <2>2. \A m \in DOMAIN t : t[m].nameSpace = t[n].nameSpace => m = n
    <3>1. \A m \in DOMAIN s : s[m].ns = s[n].ns => m = n
      BY <1>3 DEF Sets!Simulated
    <3> QED
      BY <1>1, <1>3, <3>1
  <2>3. \A d \in DOMAIN t[n].collHashedRwSets :
          t[n].collHashedRwSets[d].collectionName = t[n].collHashedRwSets[c].collectionName => d = c
    <3>1. \A d \in DOMAIN s[n].colls : s[n].colls[d].coll = s[n].colls[c].coll => d = c
      BY <1>3 DEF Sets!Simulated
    <3> QED
      BY <1>1, <1>3, <3>1
  <2>4. n \in DOMAIN t /\ c \in DOMAIN t[n].collHashedRwSets
    BY <1>1, <1>3
  <2>5. Sets!GetPvtDataHash(t, t[n].nameSpace, t[n].collHashedRwSets[c].collectionName) =
          t[n].collHashedRwSets[c].pvtRwSetHash
    BY <2>1, <2>2, <2>3, <2>4, HashFound
  <2>6. /\ t[n].nameSpace = u[n].nameSpace
        /\ t[n].collHashedRwSets[c].collectionName = u[n].collPvtRwSets[c].collectionName
        /\ t[n].collHashedRwSets[c].pvtRwSetHash = Sets!Sha256(Sets!MarshalKV(Sets!KVOf(k)))
    <3>1. t[n].nameSpace = s[n].ns /\ u[n].nameSpace = s[n].ns
      BY <1>1, <1>2, <1>3
    <3>2. t[n].collHashedRwSets[c].collectionName = s[n].colls[c].coll
      BY <1>1, <1>3
    <3>3. u[n].collPvtRwSets[c].collectionName = s[n].colls[c].coll
      BY <1>2, <1>3
    <3>4. t[n].collHashedRwSets[c].pvtRwSetHash =
            Sets!Sha256(Sets!MarshalKV(Sets!KVOf(s[n].colls[c].keys)))
      BY <1>1, <1>3
    <3> QED
      BY <1>4, <3>1, <3>2, <3>3, <3>4
  <2>7. Sets!MarshalKV(kv) = Sets!MarshalKV(Sets!KVOf(k))
    BY <1>5, <1>6, KeysBack
  <2> QED
    BY <2>5, <2>6, <2>7
<1>9. Sets!Vouches(Sets!HashedOf(k), kv)
  BY <1>5, <1>6, HashesMatch
<1> QED
  BY <1>7, <1>8, <1>9

(* What was written is the simulation's, what was read is what was written. *)
SetsInv ==
  /\ sim \in Simulations
  /\ stage \in {"simulated", "written", "read"}
  /\ stage # "simulated" =>
       /\ pubBytes = Sets!TxRwSetToProtoBytes(Sets!Public(sim))
       /\ pvtBytes = Sets!TxPvtRwSetToProtoBytes(Sets!Private(sim))
  /\ stage = "read" =>
       /\ pubBytes # Sets!Error
       /\ txRwSet = Sets!ProtoUnmarshal(pubBytes)
       /\ txPvtRwSet = Sets!TxPvtRwSetFromProtoBytes(Nil, pvtBytes)

LEMMA SetsInvariant == Sets!Spec => []SetsInv
<1>1. Sets!Init => SetsInv
  BY DEF Sets!Init, SetsInv
<1>2. SetsInv /\ [Sets!Next]_(Sets!vars) => SetsInv'
  <2> SUFFICES ASSUME SetsInv, [Sets!Next]_(Sets!vars)
               PROVE  SetsInv'
    OBVIOUS
  <2>1. CASE Sets!ToProtoBytes
    BY <2>1 DEF SetsInv, Sets!ToProtoBytes
  <2>2. CASE Sets!FromProtoBytes
    BY <2>2 DEF SetsInv, Sets!FromProtoBytes
  <2>3. CASE UNCHANGED Sets!vars
    BY <2>3 DEF SetsInv, Sets!vars
  <2> QED
    BY <2>1, <2>2, <2>3 DEF Sets!Next
<1> QED
  BY <1>1, <1>2, PTL DEF Sets!Spec

LEMMA SetsInvTells == SetsInv => ReadBack
<1> SUFFICES ASSUME SetsInv
             PROVE  Sets!SetsComeBack /\ Sets!PrivateVerifies
  BY DEF ReadBack, Sets!ReadBack
<1>1. PICK s : s = sim
  OBVIOUS
<1>2. Sets!Simulated(s)
  BY <1>1, SimulationsAssumption DEF SetsInv
<1>3. Sets!Marshal([dataModel |-> "KV",
                    nsRwset |-> [n \in DOMAIN s |-> Sets!nsRwSetToProtoMsg(Sets!Public(s)[n])]])
        # Sets!Error
  BY DEF Sets!Marshal, Sets!Error
<1>4. Sets!Marshal([dataModel |-> "KV",
                    nsPvtRwset |-> [n \in DOMAIN s |-> Sets!nsPvtRwSetToProtoMsg(Sets!Private(s)[n])]])
        # Sets!Error
  BY DEF Sets!Marshal, Sets!Error
<1>5. stage # "simulated" =>
        /\ pubBytes = Sets!Error <=> \E n \in DOMAIN sim : sim[n].keys = Nil
        /\ pvtBytes # Sets!Error
  <2>1. (\E n \in DOMAIN s : s[n].keys = Nil) =>
          Sets!TxRwSetToProtoBytes(Sets!Public(s)) = Sets!Error
    BY SetsWritten
  <2>2. (\A n \in DOMAIN s : s[n].keys # Nil) =>
          Sets!TxRwSetToProtoBytes(Sets!Public(s)) # Sets!Error
    BY <1>3, SetsWritten
  <2>3. Sets!TxPvtRwSetToProtoBytes(Sets!Private(s)) # Sets!Error
    BY <1>4, SetsWritten
  <2> QED
    BY <1>1, <2>1, <2>2, <2>3 DEF SetsInv
<1>6. CASE stage = "read"
  <2>1. PICK t, u : t = txRwSet /\ u = txPvtRwSet
    OBVIOUS
  <2>2. /\ t = Sets!ProtoUnmarshal(Sets!TxRwSetToProtoBytes(Sets!Public(s)))
        /\ u = Sets!TxPvtRwSetFromProtoBytes(Nil, Sets!TxPvtRwSetToProtoBytes(Sets!Private(s)))
        /\ \A n \in DOMAIN s : s[n].keys # Nil
    BY <1>1, <1>5, <1>6, <2>1 DEF SetsInv
  <2>3. Sets!SetsComeBack
    <3>1. /\ Sets!NumCollections(t) =
               Sets!Cardinality(UNION {{n} \X DOMAIN s[n].colls : n \in DOMAIN s})
          /\ Len(t) = Len(s) /\ Len(u) = Len(s)
          /\ \A n \in DOMAIN s :
               /\ t[n].nameSpace = s[n].ns /\ u[n].nameSpace = s[n].ns
               /\ Sets!SameKeys(t[n].kvRwSet, s[n].keys)
               /\ Len(t[n].collHashedRwSets) = Len(s[n].colls)
               /\ \A c \in DOMAIN s[n].colls :
                    /\ u[n].collPvtRwSets[c].collectionName = s[n].colls[c].coll
                    /\ Sets!SameKeys(u[n].collPvtRwSets[c].kvRwSet, s[n].colls[c].keys)
      BY <1>2, <2>2, BothBack
    <3> QED
      BY <1>1, <1>6, <2>1, <3>1 DEF Sets!SetsComeBack
  <2>4. Sets!PrivateVerifies
    <3>1. ASSUME NEW n \in DOMAIN u, NEW c \in DOMAIN u[n].collPvtRwSets
          PROVE  /\ Sets!GetPvtDataHash(t, u[n].nameSpace, u[n].collPvtRwSets[c].collectionName) =
                      Sets!Sha256(Sets!MarshalKV(u[n].collPvtRwSets[c].kvRwSet))
                 /\ Sets!Vouches(t[n].collHashedRwSets[c].hashedRwSet, u[n].collPvtRwSets[c].kvRwSet)
      BY <1>2, <2>2, BothMatch
    <3> QED
      BY <1>6, <2>1, <3>1, Zenon DEF Sets!PrivateVerifies
  <2> QED
    BY <2>3, <2>4
<1>7. CASE stage # "read"
  <2>1. stage = "written" =>
          (Sets!Error \in {pubBytes, pvtBytes} <=> \E n \in DOMAIN sim : sim[n].keys = Nil)
    BY <1>5
  <2> QED
    BY <1>7, <2>1 DEF Sets!SetsComeBack, Sets!PrivateVerifies
<1> QED
  BY <1>6, <1>7

(* Read-write sets come back from bytes as the simulation made them, with  *)
(* every collection counted, and a private set verifies against the hashes *)
(* of the public one.                                                      *)
THEOREM SetsReadBack == Sets!Spec => []ReadBack
BY SetsInvariant, SetsInvTells, PTL

-----------------------------------------------------------------------------
(* ChannelConfig, for any organizations and consortiums: whatever proposals *)
(* make of them, every group has policies of its own MSP.                  *)

(* ChannelConfig has its own names for what FiniteSets defines. *)
LEMMA SameFiniteSets ==
  ASSUME NEW S
  PROVE  /\ Configs!IsFiniteSet(S) <=> IsFiniteSet(S)
         /\ Configs!Cardinality(S) = Cardinality(S)
<1>1. Configs!IsFiniteSet(S) <=> IsFiniteSet(S)
  BY DEF Configs!IsFiniteSet, IsFiniteSet
<1>2. Configs!Cardinality(S) = Cardinality(S)
  BY DEF Configs!Cardinality, Cardinality
<1> QED
  BY <1>1, <1>2

(* What the proposals keep of the consortiums and of the channel. *)
GroupsSound ==
  /\ \A c \in DOMAIN consortiums : Configs!Sound(consortiums[c])
  /\ application # Nil => Configs!Sound(application)

(* CreateOrganization writes such a group, whatever the type. *)
LEMMA CreatedStandard ==
  ASSUME NEW o
  PROVE  Configs!Standard(Configs!CreateOrganization(o))
<1> DEFINE own == o.ID
           g == Configs!CreateOrganization(o)
<1>1. g.msp.name = own
  BY DEF Configs!CreateOrganization, Configs!createMSP
<1>2. CASE o.Type = "PEER"
  <2>1. g.policies = Configs!getOrdererOrgStandardRWPolicy(own)
    BY <1>2 DEF Configs!CreateOrganization
  <2> HIDE DEF g, own
  <2>2. /\ \A p \in Configs!OR(own, {"member"}) : p.msp = own
        /\ [msp |-> own, role |-> "member"] \in Configs!OR(own, {"member"})
    BY DEF Configs!OR
  <2>3. \E p \in Configs!OR(own, {"member"}) : p.role = "member"
    BY <2>2
  <2> HIDE DEF Configs!OR
  <2>4. /\ DOMAIN g.policies = {"Readers", "Writers", "Admins"}
        /\ g.policies["Admins"] = Configs!OR(own, {"admin"})
        /\ g.policies["Readers"] = Configs!OR(own, {"member"})
        /\ g.policies["Writers"] = Configs!OR(own, {"member"})
    BY <2>1 DEF Configs!getOrdererOrgStandardRWPolicy
  <2> QED
    BY <1>1, <2>2, <2>3, <2>4 DEF Configs!Standard, g
<1>3. CASE o.Type # "PEER"
  <2>1. g.policies = Configs!getPeerOrgStandardRWPolicies(own)
    BY <1>3 DEF Configs!CreateOrganization
  <2> HIDE DEF g, own
  <2>2. ASSUME NEW roles, {"admin", "client"} \subseteq roles
        PROVE  /\ \A p \in Configs!OR(own, roles) : p.msp = own
               /\ \A ou \in {"admin", "client"} : \E p \in Configs!OR(own, roles) : p.role = ou
    <3>1. \A ou \in {"admin", "client"} : [msp |-> own, role |-> ou] \in Configs!OR(own, roles)
      BY <2>2 DEF Configs!OR
    <3>2. \A ou : [msp |-> own, role |-> ou].role = ou
      OBVIOUS
    <3> QED
      BY <3>1, <3>2 DEF Configs!OR
  <2>4. /\ {"Readers", "Writers", "Admins"} \subseteq DOMAIN g.policies
        /\ g.policies["Admins"] = Configs!OR(own, {"admin"})
        /\ g.policies["Readers"] = Configs!OR(own, {"admin", "peer", "client"})
        /\ g.policies["Writers"] = Configs!OR(own, {"admin", "client"})
    BY <2>1 DEF Configs!getPeerOrgStandardRWPolicies
  <2>5. \A policy \in {"Readers", "Writers"} :
          /\ \A p \in g.policies[policy] : p.msp = own
          /\ \A ou \in {"admin", "client"} : \E p \in g.policies[policy] : p.role = ou
    BY <2>2, <2>4
  <2> QED
    BY <1>1, <2>4, <2>5 DEF Configs!Standard, g
<1> QED
  BY <1>2, <1>3

(* Adding and leaving out a group. *)
LEMMA WithSound ==
  ASSUME NEW groups, Configs!Sound(groups), NEW o,
         Configs!Coherent(Configs!With(groups, o))
  PROVE  Configs!Sound(Configs!With(groups, o))
<1>1. /\ DOMAIN Configs!With(groups, o) = DOMAIN groups \cup {o.Name}
      /\ \A n \in DOMAIN groups \cup {o.Name} : Configs!With(groups, o)[n] =
           IF n = o.Name THEN Configs!CreateOrganization(o) ELSE groups[n]
  BY DEF Configs!With
<1>2. Configs!IsFiniteSet(DOMAIN groups \cup {o.Name})
  BY FS_AddElement, SameFiniteSets DEF Configs!Sound
<1>3. \A n \in DOMAIN groups \cup {o.Name} : Configs!Standard(Configs!With(groups, o)[n])
  BY <1>1, CreatedStandard DEF Configs!Sound
<1> QED
  BY <1>1, <1>2, <1>3 DEF Configs!Sound

LEMMA RestrictSound ==
  ASSUME NEW groups, Configs!Sound(groups), NEW S \in SUBSET DOMAIN groups
  PROVE  Configs!Sound(Configs!Restrict(groups, S))
<1>1. /\ DOMAIN Configs!Restrict(groups, S) = S
      /\ \A n \in S : Configs!Restrict(groups, S)[n] = groups[n]
  BY DEF Configs!Restrict
<1>2. Configs!IsFiniteSet(S)
  BY FS_Subset, SameFiniteSets DEF Configs!Sound
<1> QED
  BY <1>1, <1>2 DEF Configs!Sound, Configs!Coherent

LEMMA ConfigsInvariant == Configs!Spec => []GroupsSound
<1>1. Configs!Init => GroupsSound
  BY FoundersAssumption DEF Configs!Init, GroupsSound
<1>2. GroupsSound /\ [Configs!Next]_(Configs!vars) => GroupsSound'
  <2> SUFFICES ASSUME GroupsSound, [Configs!Next]_(Configs!vars)  PROVE GroupsSound'
    OBVIOUS
  <2>1. ASSUME NEW c, NEW orgs, Configs!CreateApplicationChannel(c, orgs)  PROVE GroupsSound'
    BY <2>1, RestrictSound
       DEF GroupsSound, Configs!CreateApplicationChannel, Configs!Fails
  <2>2. ASSUME NEW c, NEW o, Configs!ConsortiumAddOrg(c, o)  PROVE GroupsSound'
    BY <2>2, WithSound DEF GroupsSound, Configs!ConsortiumAddOrg, Configs!Fails
  <2>3. ASSUME NEW c, NEW name, Configs!ConsortiumRemoveOrg(c, name)  PROVE GroupsSound'
    BY <2>3, RestrictSound
       DEF GroupsSound, Configs!ConsortiumRemoveOrg, Configs!Fails,
           Configs!Without
  <2>4. ASSUME NEW o, Configs!ChannelAddOrg(o)  PROVE GroupsSound'
    BY <2>4, WithSound DEF GroupsSound, Configs!ChannelAddOrg, Configs!Fails
  <2>5. ASSUME NEW name, Configs!ChannelRemoveOrg(name)  PROVE GroupsSound'
    BY <2>5, RestrictSound
       DEF GroupsSound, Configs!ChannelRemoveOrg, Configs!Fails, Configs!Without
  <2>6. CASE UNCHANGED Configs!vars
    BY <2>6 DEF GroupsSound, Configs!vars
  <2> QED
    BY <2>1, <2>2, <2>3, <2>4, <2>5, <2>6 DEF Configs!Next
<1> QED
  BY <1>1, <1>2, PTL DEF Configs!Spec

(* Where the groups are sound, whose administrators sign is who governs.   *)
LEMMA AdminsSatisfied ==
  ASSUME Configs!Sound(application), NEW ids \in SUBSET Configs!Admins
  PROVE  Configs!Satisfied("Admins", ids)
           = {n \in DOMAIN application : ids \cap Configs!Own(n) # {}}
<1>1. ASSUME NEW n \in DOMAIN application
      PROVE  /\ "Admins" \in DOMAIN application[n].policies
             /\ application[n].policies["Admins"]
                  = Configs!OR(application[n].msp.name, {"admin"})
  BY DEF Configs!Sound, Configs!Standard
<1>2. ASSUME NEW n \in DOMAIN application, NEW id \in ids
      PROVE  (\E p \in application[n].policies["Admins"] : Configs!Satisfies(id, p))
               <=> id.msp = application[n].msp.name
  <2>1. id.ou = "admin"
    BY DEF Configs!Admins
  <2>2. [msp |-> application[n].msp.name, role |-> "admin"]
          \in application[n].policies["Admins"]
    BY <1>1 DEF Configs!OR
  <2>3. ASSUME NEW p \in application[n].policies["Admins"]
        PROVE  p.msp = application[n].msp.name /\ p.role = "admin"
    <3>1. p \in [msp : {application[n].msp.name}, role : {"admin"}]
      BY <1>1 DEF Configs!OR
    <3> QED
      BY <3>1
  <2> QED
    BY <2>1, <2>2, <2>3 DEF Configs!Satisfies
<1>3. ASSUME NEW n \in DOMAIN application, NEW m \in DOMAIN application,
             NEW id \in ids \cap Configs!Own(m), id.msp = application[n].msp.name
      PROVE  id \in Configs!Own(n)
  BY <1>3 DEF Configs!Own, Configs!Sound, Configs!Coherent
<1>4. \A n \in DOMAIN application : \A id \in Configs!Own(n) : id.msp = application[n].msp.name
  BY DEF Configs!Own
<1> QED
  BY <1>1, <1>2, <1>3, <1>4 DEF Configs!Satisfied

(* Who satisfies a policy of one member that is enough for the channel.    *)
LEMMA AnySatisfied ==
  ASSUME Configs!Sound(application), NEW policy \in {"Readers", "Writers"}, NEW id
  PROVE  Configs!Evaluate(policy, {id}) <=> Configs!Satisfied(policy, {id}) # {}
<1> DEFINE S == Configs!Satisfied(policy, {id})
           meta == Configs!standardApplicationChannelPoliciesV2[policy]
<1>1. meta.rule = "ANY" /\ meta.of = policy
  BY DEF Configs!standardApplicationChannelPoliciesV2, Configs!Meta
<1>2. S \subseteq DOMAIN application /\ IsFiniteSet(DOMAIN application)
  BY SameFiniteSets DEF Configs!Satisfied, Configs!Sound
<1>3. Configs!Cardinality(S) = Cardinality(S) /\ Cardinality(S) \in Nat
      /\ (Cardinality(S) = 0 <=> S = {})
  BY <1>2, FS_Subset, FS_CardinalityType, FS_EmptySet, SameFiniteSets
<1>4. Configs!Evaluate(policy, {id}) <=> Configs!Cardinality(S) > 0
  BY <1>1 DEF Configs!Evaluate
<1> QED
  BY <1>3, <1>4

(* Whatever is proposed of consortium and channel, in any order: the       *)
(* administrators of a majority of the members govern the channel, nobody  *)
(* from outside reads or writes, and their own administrators and clients  *)
(* do, also where two members share an MSP.                                *)
THEOREM ChannelsGovernThemselves == Configs!Spec => []MembersGovern
<1>1. GroupsSound => MembersGovern
  <2> SUFFICES ASSUME GroupsSound, Configs!HasMembers
               PROVE  MembersGovern
    BY DEF MembersGovern, Configs!MembersGovern
  <2>0. Configs!Sound(application)
    BY DEF GroupsSound, Configs!HasMembers
  <2>1. ASSUME NEW ids \in SUBSET Configs!Admins
        PROVE  Configs!Evaluate("Admins", ids) <=>
                 2 * Configs!Cardinality({n \in DOMAIN application : ids \cap Configs!Own(n) # {}})
                   > Configs!Cardinality(DOMAIN application)
    <3>1. Configs!standardApplicationChannelPoliciesV2["Admins"].rule = "MAJORITY"
          /\ Configs!standardApplicationChannelPoliciesV2["Admins"].of = "Admins"
      BY DEF Configs!standardApplicationChannelPoliciesV2, Configs!Meta
    <3> QED
      BY <2>0, <3>1, AdminsSatisfied DEF Configs!Evaluate
  <2>2. ASSUME NEW id \in Configs!Certificate, NEW policy \in {"Readers", "Writers"},
               Configs!Evaluate(policy, {id})
        PROVE  \E n \in DOMAIN application : id \in Configs!Own(n)
    <3>1. PICK n \in Configs!Satisfied(policy, {id}) : TRUE
      BY <2>0, <2>2, AnySatisfied
    <3>2. \E m \in DOMAIN application : {id} \cap Configs!Own(m) # {}
      BY <3>1 DEF Configs!Satisfied
    <3> QED
      BY <3>2
  <2>3. ASSUME NEW n \in DOMAIN application, NEW id \in Configs!Own(n),
               id.ou \in {"admin", "client"}, NEW policy \in {"Readers", "Writers"}
        PROVE  Configs!Evaluate(policy, {id})
    <3>1. Configs!Standard(application[n]) /\ id.msp = application[n].msp.name
      BY <2>0 DEF Configs!Sound, Configs!Own
    <3>2. PICK p \in application[n].policies[policy] : p.role \in {"member", id.ou}
      BY <2>3, <3>1 DEF Configs!Standard
    <3>3. Configs!Satisfies(id, p) /\ policy \in DOMAIN application[n].policies
      BY <3>1, <3>2 DEF Configs!Standard, Configs!Satisfies
    <3>4. n \in Configs!Satisfied(policy, {id})
      BY <3>2, <3>3 DEF Configs!Satisfied
    <3> QED
      BY <2>0, <3>4, AnySatisfied
  <2> QED
    BY <2>1, <2>2, <2>3 DEF MembersGovern, Configs!MembersGovern
<1> QED
  BY <1>1, ConfigsInvariant, PTL

-----------------------------------------------------------------------------
(* Identity: the numbers of keys as bytes. *)

Scalar == 1..Order - 1

LEMMA SameDigits ==
  /\ \A n, i : Identities!Digit(n, i) = Digit(n, i)
  /\ \A n : Identities!Size(n) = Size(n)
  /\ \A b : Identities!SetBytes(b) = Value(b)
<1>1. \A n, i : Identities!Digit(n, i) = Digit(n, i)
  BY DEF Identities!Digit, Digit
<1>2. \A n : Identities!Size(n) = Size(n)
  BY DEF Identities!Size, Size
<1>3. \A b : Identities!SetBytes(b) = Value(b)
  BY Zenon DEF Identities!SetBytes, Identities!Value, Value
<1> QED
  BY <1>1, <1>2, <1>3

(* The number of a key fits. *)
LEMMA ScalarFits ==
  ASSUME NEW d \in Scalar
  PROVE  d \in Uint /\ d \in Nat /\ d < Pow(Width) /\ Order \in Nat
<1>1. Modulus \in Nat /\ Modulus = Pow(Width) /\ Modulus = Base ^ Width
  BY ModulusIs DEF Modulus
<1>2. Order \in Nat /\ Order <= Modulus
  BY <1>1, CurveAssumption
<1> QED
  BY <1>1, <1>2 DEF Uint, Scalar

(* A key, padded to its width, has all its digits, and reads as itself. *)
LEMMA KeyIsRead ==
  ASSUME NEW d \in Scalar
  PROVE  /\ Identities!SetBytes(Identities!Padded(Identities!Bytes(d))) = d
         /\ Identities!Padded(Identities!Bytes(d)) \in [1..Width -> Byte]
<1>1. d \in Uint /\ d \in Nat /\ d < Pow(Width)
  BY ScalarFits
<1>2. PICK s \in 0..Width : s = Size(d) /\ d < Pow(s)
  BY <1>1, SizeIs DEF Uint
<1>3. s \in Nat /\ Width \in Nat
  BY Powers
<1>4. PICK b : b = [i \in 1..s |-> Digit(d, s - i)]
  OBVIOUS
<1>5. b = Identities!Bytes(d)
  BY <1>2, <1>4, SameDigits DEF Identities!Bytes
<1>6. \A i \in 0..Width - 1 : Digit(d, i) \in Byte
  BY <1>1, RestStep DEF Byte
<1>7. Len(b) = s
  <2>1. \A i \in 1..s : Digit(d, s - i) \in Byte
    <3> SUFFICES ASSUME NEW i \in 1..s PROVE Digit(d, s - i) \in Byte
      OBVIOUS
    <3>1. PICK k \in 0..Width - 1 : k = s - i
      BY <1>3
    <3> QED
      BY <1>6, <3>1
  <2>2. b \in [1..s -> Byte]
    BY <1>4, <2>1
  <2>3. b \in Seq(Byte)
    BY <1>3, <2>2, SeqDef
  <2>4. Len(b) \in Nat /\ DOMAIN b = 1..Len(b)
    BY <2>3, LenProperties
  <2>5. PICK k \in Nat : k = Len(b)
    BY <2>4
  <2>6. 1..k = 1..s
    BY <1>4, <2>4, <2>5
  <2>7. k = s
    BY ONLY k \in Nat, <1>3, <2>6
  <2> QED
    BY <2>5, <2>7
<1>8. PICK p : p = Identities!Padded(b)
  OBVIOUS
<1>9. p = [i \in 1..Width |-> IF i <= Width - s THEN 0 ELSE b[i - (Width - s)]]
  BY <1>7, <1>8 DEF Identities!Padded
<1>10. ASSUME NEW i \in 1..Width
       PROVE  p[i] = Digit(d, Width - i)
  <2>1. CASE i <= Width - s
    <3>1. PICK j \in s..Width - 1 : j = Width - i /\ j \in 0..Width - 1 /\ j \in 0..Width
      BY <1>3, <2>1
    <3>2. d < Pow(j)
      <4>1. Pow(s) <= Pow(j) /\ Pow(s) \in Nat /\ Pow(j) \in Nat
        BY <3>1, PowMonotone, PowPositive, Powers
      <4> QED
        BY <1>1, <1>2, <4>1
    <3>3. Rest(d, j) = 0
      BY <1>1, <3>1, <3>2, RestEnds
    <3>4. Digit(d, j) = Rest(d, j) % Base
      BY DEF Digit, Rest, Pow
    <3>5. 0 % Base = 0
      BY Powers
    <3>6. p[i] = 0
      BY <1>9, <2>1
    <3> QED
      BY <3>1, <3>3, <3>4, <3>5, <3>6
  <2>2. CASE ~(i <= Width - s)
    <3>1. PICK k \in 1..s : k = i - (Width - s) /\ s - k = Width - i
      BY <1>3, <2>2
    <3>2. p[i] = b[k]
      BY <1>9, <2>2, <3>1
    <3> QED
      BY <1>4, <3>1, <3>2
  <2> QED
    BY <2>1, <2>2
<1>11. p \in [1..Width -> Byte]
  <2>1. \A i \in 1..Width : p[i] \in Byte
    <3> SUFFICES ASSUME NEW i \in 1..Width PROVE p[i] \in Byte
      OBVIOUS
    <3>1. PICK k \in 0..Width - 1 : k = Width - i
      BY <1>3
    <3> QED
      BY <1>6, <1>10, <3>1
  <2> QED
    BY <1>9, <2>1
<1>12. Len(p) = Width
  <2>1. p \in Seq(Byte)
    BY <1>3, <1>11, SeqDef
  <2>2. Len(p) \in Nat /\ DOMAIN p = 1..Len(p)
    BY <2>1, LenProperties
  <2>3. PICK k \in Nat : k = Len(p)
    BY <2>2
  <2>4. 1..k = 1..Width
    BY <1>9, <2>2, <2>3
  <2>5. k = Width
    BY ONLY k \in Nat, <1>3, <2>4
  <2> QED
    BY <2>3, <2>5
<1>13. Value(p) = d
  <2>1. Width \in 0..Width
    BY <1>3
  <2> QED
    BY <1>1, <1>10, <1>12, <2>1, ValueOfDigits
<1> QED
  BY <1>5, <1>8, <1>11, <1>13, SameDigits

-----------------------------------------------------------------------------
(* What is left of a number by the order. *)
LEMMA Remainder ==
  ASSUME NEW a \in Nat
  PROVE  \E q \in Nat : a = (q * Order) + (a % Order) /\ a % Order \in 0..Order - 1
<1>1. PICK n \in Nat : n = Order /\ n > 0
  BY ScalarFits, CurveAssumption, ModulusIs DEF Modulus
<1>2. a % n \in 0..n - 1 /\ a \div n \in Nat /\ a = ((a \div n) * n) + (a % n)
  BY <1>1
<1> QED
  BY <1>1, <1>2

LEMMA Inverts ==
  ASSUME NEW x \in Scalar
  PROVE  /\ Identities!Inverted(x) \in Scalar
         /\ (x * Identities!Inverted(x)) % Order = 1
BY CurveAssumption DEF Scalar, Identities!Inverted, Identities!Scalar

(* A number below n that is another one and some of n, or some of n less. *)
LEMMA Only ==
  ASSUME NEW n \in Nat, NEW u \in 0..n - 1, NEW k \in 1..n - 1, NEW z \in Int
  PROVE  /\ u = k + (n * z) => u = k
         /\ u = (n * z) - k => u = n - k
<1>1. ASSUME z >= 1  PROVE n * z >= n
  BY <1>1
<1>2. ASSUME z <= -1  PROVE n * z <= -n
  BY <1>2
<1>3. ASSUME z >= 2  PROVE n * z >= n + n
  BY <1>3
<1>4. ASSUME z <= 0  PROVE n * z <= 0
  BY <1>4
<1>5. z = 0 => n * z = 0
  OBVIOUS
<1>6. z = 1 => n * z = n
  OBVIOUS
<1>7. n * z \in Int
  OBVIOUS
<1>8. PICK p \in Int : p = n * z
  BY <1>7
<1>9. ASSUME u = k + p  PROVE u = k
  <2>1. ~(z >= 1) /\ ~(z <= -1)
    BY <1>1, <1>2, <1>8, <1>9
  <2> QED
    BY <1>5, <1>8, <1>9, <2>1
<1>10. ASSUME u = p - k  PROVE u = n - k
  <2>1. ~(z >= 2) /\ ~(z <= 0)
    BY <1>3, <1>4, <1>8, <1>10
  <2> QED
    BY <1>6, <1>8, <1>10, <2>1
<1> QED
  BY <1>8, <1>9, <1>10

(* A signature, with S in the lower half or turned over, verifies. *)
LEMMA SignatureVerifies ==
  ASSUME NEW d \in Scalar, NEW e \in Nat, NEW sig \in Identities!Sign(d, e)
  PROVE  Identities!Verifies(d, e, sig) /\ sig.s \in 1..Identities!halfOrder
<1>1. PICK n \in Nat, h \in Nat : n = Order /\ n = (2 * h) + 1 /\ h = Identities!halfOrder /\ h > 0
  <2>1. PICK n \in Nat : n = Order /\ n > 1
    BY ScalarFits, CurveAssumption, ModulusIs DEF Modulus
  <2>2. n = ((n \div 2) * 2) + 1 /\ n \div 2 \in Nat
    BY <2>1, CurveAssumption
  <2>3. Identities!halfOrder = n \div 2
    BY <2>1 DEF Identities!halfOrder
  <2> QED
    BY <2>1, <2>2, <2>3
<1>2. PICK g \in Identities!Signatures(d, e) :
        g.s # 0 /\ sig = [g EXCEPT !.s = Identities!ToLowS(g.s)]
  BY DEF Identities!Sign
<1>3. PICK k \in Scalar :
        g = [r |-> Identities!X(k),
             s |-> (Identities!Inverted(k) * (e + (Identities!X(k) * d))) % Order]
  BY <1>2 DEF Identities!Signatures, Identities!Scalar, Scalar
<1>4. k \in Nat /\ k \in 1..n - 1 /\ d \in Nat
  BY <1>1, ScalarFits DEF Scalar
<1>5. PICK r \in Nat : r = Identities!X(k) /\ r = (IF 2 * k > n THEN n - k ELSE k)
                       /\ r \in 1..h
  <2>1. Identities!X(k) = IF 2 * k > n THEN n - k ELSE k
    BY <1>1 DEF Identities!X
  <2>2. (IF 2 * k > n THEN n - k ELSE k) \in 1..h
    BY <1>1, <1>4
  <2>3. \A x \in 1..h : x \in Nat
    BY <1>1
  <2> QED
    BY <2>1, <2>2, <2>3
<1>6. PICK ki \in Nat : ki = Identities!Inverted(k) /\ (k * ki) % n = 1
  BY <1>1, Inverts, ScalarFits
<1>7. PICK m \in Nat : m = e + (r * d)
  BY <1>4
<1>8. PICK s0 : s0 = (ki * m) % n
  OBVIOUS
<1>9. g.r = r /\ g.s = s0 /\ s0 # 0
  BY <1>1, <1>2, <1>3, <1>5, <1>6, <1>7, <1>8
<1>10. PICK q1 \in Nat : k * ki = (q1 * n) + 1
  <2>1. k * ki \in Nat
    BY <1>4
  <2> QED
    BY <1>1, <1>6, <2>1, Remainder
<1>11. PICK q2 \in Nat : ki * m = (q2 * n) + s0 /\ s0 \in 0..n - 1
  <2>1. ki * m \in Nat
    OBVIOUS
  <2> QED
    BY <1>1, <1>8, <2>1, Remainder
<1>12. s0 \in 1..n - 1
  BY <1>9, <1>11
<1>13. PICK s : s = Identities!ToLowS(s0)
  OBVIOUS
<1>14. s = (IF s0 <= h THEN s0 ELSE n - s0)
  BY <1>1, <1>13 DEF Identities!ToLowS, Identities!IsLowS
<1>15. s \in 1..h /\ s \in Scalar /\ s \in Nat /\ r \in Scalar
  BY <1>1, <1>5, <1>12, <1>14 DEF Scalar
<1>16. sig.r = r /\ sig.s = s
  BY <1>2, <1>3, <1>9, <1>13
<1>17. PICK si \in Nat : si = Identities!Inverted(s) /\ (s * si) % n = 1
  BY <1>1, <1>15, Inverts, ScalarFits
<1>18. PICK q \in Nat : s * si = (q * n) + 1
  <2>1. s * si \in Nat
    BY <1>15
  <2> QED
    BY <1>1, <1>17, <2>1, Remainder
<1>19. PICK u : u = (si * m) % n
  OBVIOUS
<1>20. PICK q4 \in Nat : si * m = (q4 * n) + u /\ u \in 0..n - 1
  <2>1. si * m \in Nat
    OBVIOUS
  <2> QED
    BY <1>1, <1>19, <2>1, Remainder
<1>21. u = k \/ u = n - k
  <2>1. PICK p \in Int, q3 \in Int :
          /\ s0 * p = (q3 * n) + 1
          /\ (s = s0 /\ p = si) \/ (s = n - s0 /\ p = 0 - si)
    <3>1. CASE s = s0
      <4>1. s0 * si = (q * n) + 1
        BY <1>18, <3>1
      <4> QED
        BY <3>1, <4>1
    <3>2. CASE s = n - s0
      <4>1. PICK p \in Int : p = 0 - si
        OBVIOUS
      <4>2. PICK q3 \in Int : q3 = q - si
        OBVIOUS
      <4>3. s0 = n - s
        BY <1>1, <1>12, <3>2
      <4>4. s0 * p = (q3 * n) + 1
        BY ONLY <1>15, <1>18, <4>1, <4>2, <4>3, n \in Nat, si \in Nat, q \in Nat
      <4> QED
        BY <3>2, <4>1, <4>2, <4>4
    <3> QED
      BY <1>14, <3>1, <3>2
  <2>2. PICK w \in Int : w = (k * q2) - (m * q1)
    BY <1>4
  <2>3. m = (k * s0) + (n * w)
    <3>1. m * (k * ki) = k * (ki * m)
      BY <1>4
    <3>2. m * ((q1 * n) + 1) = k * ((q2 * n) + s0)
      BY <1>10, <1>11, <3>1
    <3>3. n * w = (n * (k * q2)) - (n * (m * q1))
      BY ONLY <2>2, m \in Nat, <1>4, n \in Nat, q1 \in Nat, q2 \in Nat
    <3>4. m * ((q1 * n) + 1) = (n * (m * q1)) + m
      BY ONLY m \in Nat, n \in Nat, q1 \in Nat
    <3>5. k * ((q2 * n) + s0) = (n * (k * q2)) + (k * s0)
      BY ONLY <1>4, <1>12, n \in Nat, q2 \in Nat
    <3>6. n * (k * q2) \in Int /\ n * (m * q1) \in Int /\ k * s0 \in Int
      BY ONLY <1>4, <1>12, n \in Nat, q1 \in Nat, q2 \in Nat, m \in Nat
    <3>7. PICK A \in Int, B \in Int, C \in Int :
            A = n * (k * q2) /\ B = n * (m * q1) /\ C = k * s0
      BY <3>6
    <3>8. B + m = A + C
      BY <3>2, <3>4, <3>5, <3>7
    <3>9. n * w = A - B
      BY <3>3, <3>7
    <3>10. m = C + (A - B)
      BY ONLY <3>8, m \in Nat, A \in Int, B \in Int, C \in Int
    <3> QED
      BY <3>7, <3>9, <3>10
  <2>4. PICK t \in Int : t = (k * q3) + (p * w)
    BY <1>4
  <2>5. p * m = k + (n * t)
    <3>1. p * m = (k * (s0 * p)) + (n * (p * w))
      BY ONLY <2>3, m \in Nat, <1>4, <1>12, n \in Nat, w \in Int, p \in Int
    <3>2. p * m = (k * ((q3 * n) + 1)) + (n * (p * w))
      BY <2>1, <3>1
    <3> QED
      BY ONLY <3>2, <2>4, m \in Nat, <1>4, n \in Nat, w \in Int, p \in Int, q3 \in Int, t \in Int
  <2>6. CASE p = si
    <3>1. PICK z \in Int : z = t - q4
      OBVIOUS
    <3>2. n * z = (n * t) - (q4 * n)
      BY ONLY <3>1, n \in Nat, t \in Int, q4 \in Nat
    <3>3. (q4 * n) + u = k + (n * t)
      BY <1>20, <2>5, <2>6
    <3>4. u = k + (n * z)
      BY <1>4, <1>20, <3>2, <3>3
    <3> QED
      BY <1>4, <1>20, <3>4, Only
  <2>7. CASE p = 0 - si
    <3>0. (0 - t) - q4 \in Int
      BY ONLY t \in Int, q4 \in Nat
    <3>1. PICK z \in Int : z = (0 - t) - q4
      BY <3>0
    <3>2. n * z = (0 - (n * t)) - (q4 * n)
      BY ONLY <3>1, n \in Nat, t \in Int, q4 \in Nat
    <3>3. (0 - si) * m = 0 - (si * m)
      OBVIOUS
    <3>4. 0 - ((q4 * n) + u) = k + (n * t)
      BY <1>20, <2>5, <2>7, <3>3
    <3>5. u = (n * z) - k
      BY <1>4, <1>20, <3>2, <3>4
    <3> QED
      BY <1>4, <1>20, <3>5, Only
  <2> QED
    BY <2>1, <2>6, <2>7
<1>22. u # 0 /\ Identities!X(u) = r
  <2>1. Identities!X(u) = IF 2 * u > n THEN n - u ELSE u
    BY <1>1 DEF Identities!X
  <2>2. u \in 1..n - 1
    BY <1>4, <1>21
  <2>3. (IF 2 * u > n THEN n - u ELSE u) = (IF 2 * k > n THEN n - k ELSE k)
    BY <1>1, <1>4, <1>21
  <2> QED
    BY <1>5, <2>1, <2>2, <2>3
<1>23. u = (Identities!Inverted(sig.s) * (e + (sig.r * d))) % Order
  BY <1>1, <1>7, <1>16, <1>17, <1>19
<1>24. sig.r \in Identities!Scalar /\ sig.s \in Identities!Scalar
  BY <1>15, <1>16 DEF Identities!Scalar, Scalar
<1>25. Identities!Verifies(d, e, sig)
  BY <1>16, <1>22, <1>23, <1>24 DEF Identities!Verifies
<1> QED
  BY <1>1, <1>15, <1>16, <1>25

-----------------------------------------------------------------------------
(* Identity: what is written, read and signed. *)

(* What GetKeyCert writes opens with its password, or with any if it has   *)
(* none, and with no other.                                                *)
LEMMA WrittenOpens ==
  ASSUME NEW d \in Scalar, NEW p \in Passwords \cup {Nil}, NEW q \in Passwords \cup {Nil}
  PROVE  Identities!GetPrivateKeyFromPEM(Identities!privateKeyToPEM(d, p), q)
           = IF p \in {Nil, q} THEN d ELSE Nil
<1>1. PICK b \in [1..Width -> Byte] :
        b = Identities!Padded(Identities!Bytes(d)) /\ Identities!SetBytes(b) = d
  BY KeyIsRead
<1>2. PICK form \in {"EC", "PKCS8"} :
        Identities!privateKeyToPEM(d, p) = Identities!PEM(form, "EC", b, p)
  BY <1>1 DEF Identities!privateKeyToPEM
<1>3. PICK file : file = Identities!privateKeyToPEM(d, p)
  OBVIOUS
<1>4. file = [form |-> form, alg |-> "EC", bytes |-> b, password |-> p]
  BY <1>2, <1>3 DEF Identities!PEM
<1>5. file # Nil
  BY <1>4, NilAssumption
<1>6. file.form = form /\ file.alg = "EC" /\ file.bytes = b /\ file.password = p
  BY <1>4
<1>7. Identities!Parsed(file)
  <2>1. <<file.form, file.alg>> \in {<<"PKCS8", "EC">>, <<"EC", "EC">>}
    BY <1>6
  <2>2. Identities!SetBytes(file.bytes) \in Identities!Scalar
    BY <1>1, <1>6 DEF Scalar, Identities!Scalar
  <2> QED
    BY <2>1, <2>2 DEF Identities!Parsed
<1>8. Identities!Opens(file, q) <=> p \in {Nil, q}
  BY <1>6 DEF Identities!Opens
<1>9. Identities!GetPrivateKeyFromPEM(file, q) =
        IF Identities!Opens(file, q) THEN d ELSE Nil
  BY <1>1, <1>5, <1>6, <1>7 DEF Identities!GetPrivateKeyFromPEM
<1> QED
  BY <1>3, <1>8, <1>9

(* A key that is read is one. *)
LEMMA ReadIsKey ==
  ASSUME NEW file, NEW q, Identities!GetPrivateKeyFromPEM(file, q) # Nil
  PROVE  Identities!GetPrivateKeyFromPEM(file, q) \in Scalar
BY DEF Identities!GetPrivateKeyFromPEM, Identities!Parsed, Scalar, Identities!Scalar

(* What comes of a key that was enrolled, and whose keys sign. *)
KeyInv ==
  /\ key \in Scalar \cup {Nil}
  /\ life \in {"start", "keystore", "pem", "signer", "signed", "error"}
  /\ life = "start" => key = Nil
  /\ life \in {"start", "keystore"} => pem = Nil
  /\ life \in {"start", "keystore", "pem"} => suite = Nil
  /\ key # Nil =>
       /\ cert \in {key, Nil}
       /\ life \notin {"start", "keystore"} =>
            pwd \in Passwords \cup {Nil} /\ pem = Identities!privateKeyToPEM(key, pwd)
       /\ life = "error" => cert = Nil \/ pwd # Nil
       /\ suite # Nil => suite.privKey = suite.signCert
  /\ life \in {"signer", "signed"} => suite.privKey \in Scalar
  /\ Identities!SignatureCounts

LEMMA InitKeyInv == Identities!Init => KeyInv
BY DEF Identities!Init, KeyInv, Identities!SignatureCounts

LEMMA EnrollKeyInv == ASSUME KeyInv, Identities!Enroll PROVE KeyInv'
<1>1. /\ life = "start" /\ key' \in Scalar /\ cert' \in {key', Nil} /\ life' = "keystore"
      /\ pwd' = pwd /\ pem' = pem /\ suite' = suite
  BY DEF Identities!Enroll, Scalar, Identities!Scalar
<1>2. pem' = Nil /\ suite' = Nil
  BY <1>1 DEF KeyInv
<1>3. Identities!SignatureCounts'
  BY <1>1 DEF Identities!SignatureCounts
<1> QED
  BY <1>1, <1>2, <1>3 DEF KeyInv

LEMMA GetKeyCertKeyInv == ASSUME KeyInv, Identities!GetKeyCert PROVE KeyInv'
<1>1. PICK p \in Passwords \cup {Nil} :
        pwd' = p /\ pem' = Identities!privateKeyToPEM(key, p)
  BY DEF Identities!GetKeyCert
<1>2. /\ life = "keystore" /\ life' = "pem" /\ key' = key /\ cert' = cert /\ suite' = suite
  BY DEF Identities!GetKeyCert
<1>3. Identities!SignatureCounts'
  BY <1>2 DEF Identities!SignatureCounts
<1>4. suite' = Nil /\ key' \in Scalar \cup {Nil} /\ (key' # Nil => cert' \in {key', Nil})
  BY <1>2 DEF KeyInv
<1>5. pwd' \in Passwords \cup {Nil} /\ pem' = Identities!privateKeyToPEM(key', pwd')
  BY <1>1, <1>2
<1> QED
  BY <1>2, <1>3, <1>4, <1>5 DEF KeyInv

LEMMA BringKeyInv == ASSUME KeyInv, Identities!Bring PROVE KeyInv'
<1>1. life = "start" /\ life' = "pem" /\ key' = key /\ pwd' = pwd /\ suite' = suite
  BY DEF Identities!Bring
<1>2. key' = Nil /\ suite' = Nil
  BY <1>1 DEF KeyInv
<1>3. Identities!SignatureCounts'
  BY <1>1 DEF Identities!SignatureCounts
<1> QED
  BY <1>1, <1>2, <1>3 DEF KeyInv

LEMMA NewSuiteKeyInv == ASSUME KeyInv, Identities!NewSuite PROVE KeyInv'
<1>1. PICK d : d = Identities!GetPrivateKeyFromPEM(pem, Nil)
  OBVIOUS
<1>2. /\ life = "pem" /\ key' = key /\ cert' = cert /\ pwd' = pwd /\ pem' = pem
      /\ \/ (cert = Nil \/ d = Nil) /\ life' = "error" /\ suite' = suite
         \/ /\ cert # Nil /\ d # Nil
            /\ suite' = [privKey |-> d, signCert |-> cert] /\ life' = "signer"
  BY <1>1 DEF Identities!NewSuite
<1>3. suite = Nil /\ key' \in Scalar \cup {Nil}
  BY <1>2 DEF KeyInv
<1>4. ASSUME key # Nil
      PROVE  /\ cert \in {key, Nil} /\ pwd \in Passwords \cup {Nil}
             /\ pem = Identities!privateKeyToPEM(key, pwd)
             /\ d = IF pwd = Nil THEN key ELSE Nil
  <2>1. /\ cert \in {key, Nil} /\ pwd \in Passwords \cup {Nil}
        /\ pem = Identities!privateKeyToPEM(key, pwd)
    BY <1>2, <1>4 DEF KeyInv
  <2>2. key \in Scalar
    BY <1>4 DEF KeyInv
  <2>3. Nil \in Passwords \cup {Nil}
    OBVIOUS
  <2>4. d = IF pwd \in {Nil, Nil} THEN key ELSE Nil
    BY <1>1, <2>1, <2>2, <2>3, WrittenOpens
  <2> QED
    BY <2>1, <2>4
<1>5. pem' = Identities!privateKeyToPEM(key', pwd') <=> pem = Identities!privateKeyToPEM(key, pwd)
  BY <1>2
<1>6. Identities!SignatureCounts'
  BY <1>2 DEF Identities!SignatureCounts
<1>7. CASE (cert = Nil \/ d = Nil) /\ life' = "error" /\ suite' = suite
  <2>1. key # Nil => cert = Nil \/ pwd # Nil
    BY <1>4, <1>7
  <2> QED
    BY <1>2, <1>3, <1>4, <1>5, <1>6, <1>7, <2>1 DEF KeyInv
<1>8. CASE /\ cert # Nil /\ d # Nil
           /\ suite' = [privKey |-> d, signCert |-> cert] /\ life' = "signer"
  <2>1. suite'.privKey = d /\ suite'.signCert = cert
    BY <1>8
  <2>2. d \in Scalar
    BY <1>1, <1>8, ReadIsKey
  <2>3. key # Nil => suite'.privKey = suite'.signCert
    BY <1>4, <1>8, <2>1
  <2> QED
    BY <1>2, <1>3, <1>4, <1>5, <1>6, <1>8, <2>1, <2>2, <2>3 DEF KeyInv
<1> QED
  BY <1>2, <1>7, <1>8

LEMMA SignDigestKeyInv == ASSUME KeyInv, Identities!SignDigest PROVE KeyInv'
<1>1. PICK e \in Digests : digest' = e /\ signature' \in Identities!Sign(suite.privKey, e)
  BY DEF Identities!SignDigest
<1>2. /\ life = "signer" /\ life' = "signed"
      /\ key' = key /\ cert' = cert /\ pwd' = pwd /\ pem' = pem /\ suite' = suite
  BY DEF Identities!SignDigest
<1>3. suite.privKey \in Scalar /\ e \in Nat
  BY <1>2, DigestsAssumption DEF KeyInv
<1>4. /\ Identities!Verifies(suite.privKey, e, signature')
      /\ signature'.s \in 1..Identities!halfOrder
  BY <1>1, <1>3, SignatureVerifies
<1>5. Identities!SignatureCounts'
  BY <1>1, <1>2, <1>4 DEF Identities!SignatureCounts
<1>6. pem' = Identities!privateKeyToPEM(key', pwd') <=> pem = Identities!privateKeyToPEM(key, pwd)
  BY <1>2
<1> QED
  BY <1>2, <1>3, <1>5, <1>6 DEF KeyInv

LEMMA KeyInvariant == Identities!Spec => []KeyInv
<1>1. KeyInv /\ [Identities!Next]_Identities!vars => KeyInv'
  <2>1. KeyInv /\ UNCHANGED Identities!vars => KeyInv'
    BY DEF KeyInv, Identities!vars, Identities!SignatureCounts
  <2> QED
    BY <2>1, EnrollKeyInv, GetKeyCertKeyInv, BringKeyInv, NewSuiteKeyInv, SignDigestKeyInv
       DEF Identities!Next
<1> QED
  BY <1>1, InitKeyInv, PTL DEF Identities!Spec

(* The key that was written comes back, by its password only, and what it  *)
(* signs a peer accepts.                                                   *)
THEOREM IdentitiesWork == Identities!Spec => []IdentityInv
<1>1. KeyInv => Identities!KeyComesBack
  <2> SUFFICES ASSUME KeyInv, key # Nil PROVE Identities!KeyComesBack
    BY DEF Identities!KeyComesBack
  <2>1. key \in Scalar
    BY DEF KeyInv
  <2>2. ASSUME pem # Nil, NEW p \in Passwords \cup {Nil}
        PROVE  Identities!GetPrivateKeyFromPEM(pem, p) = IF pwd \in {Nil, p} THEN key ELSE Nil
    <3>1. pwd \in Passwords \cup {Nil} /\ pem = Identities!privateKeyToPEM(key, pwd)
      BY <2>2 DEF KeyInv
    <3> QED
      BY <2>1, <3>1, WrittenOpens
  <2> QED
    BY <2>2 DEF KeyInv, Identities!KeyComesBack
<1>2. KeyInv => Identities!SignatureCounts
  BY DEF KeyInv
<1> QED
  BY <1>1, <1>2, KeyInvariant, PTL DEF IdentityInv, Identities!IdentityInv

-----------------------------------------------------------------------------
(* DeploymentSpec: bytes are read as what they were made of; the hash of   *)
(* signed packages begins with the policy.  So a package is taken for raw  *)
(* or signed as it was written, and LSCC's data tell one from another.     *)

(* A message has the fields it was made of. *)
LEMMA MsgFields ==
  ASSUME NEW f, NEW g, NEW h, NEW m, m = Deploy!Msg(f, g, h)
  PROVE  /\ m.kind = "message" /\ m # Deploy!Nothing /\ Deploy!Parses(m)
         /\ m.of[1] = f /\ m.of[2] = g /\ m.of[3] = h
<1>1. m = [kind |-> "message", of |-> <<f, g, h>>,
           utf8 |-> Deploy!Utf8(f) /\ Deploy!Utf8(g) /\ Deploy!Utf8(h)]
  BY DEF Deploy!Msg
<1>2. m.kind = "message" /\ m.of = <<f, g, h>>
  BY <1>1
<1>3. m # Deploy!Nothing
  BY <1>2 DEF Deploy!Nothing
<1> QED
  BY <1>2, <1>3 DEF Deploy!Parses

LEMMA FieldIsRead ==
  ASSUME NEW m, m # Deploy!Nothing, NEW k, NEW f, m.of[k] = f, f.kind \notin {"int", "list"}
  PROVE  Deploy!Bytes(m, k) = f
BY DEF Deploy!Bytes

(* What is a string is read as one. *)
LEMMA StringsAreText ==
  ASSUME NEW f, Deploy!IsString(f)
  PROVE  Deploy!Utf8(f) /\ Deploy!isPrintable(f) /\ f.kind \notin {"int", "list"}
<1>1. CASE f.kind = "nil"
  BY <1>1 DEF Deploy!IsString, Deploy!IsBytes, Deploy!Utf8, Deploy!isPrintable
<1>2. CASE f.kind = "text"
  <2>1. f = [kind |-> "text", of |-> f.of, utf8 |-> TRUE]
    BY <1>2 DEF Deploy!IsString, Deploy!IsBytes, Deploy!Text
  <2>2. f.utf8
    BY <2>1
  <2> QED
    BY <1>2, <2>2 DEF Deploy!Utf8, Deploy!isPrintable
<1> QED
  BY <1>1, <1>2 DEF Deploy!IsString

(* The deployment spec of a raw package. *)
SpecOf(r) ==
  [chaincodeId |-> [path |-> r.path, name |-> r.name, version |-> r.version],
   codePackage |-> r.code]

LEMMA RawIsRead ==
  ASSUME NEW r, Deploy!IsRaw(r)
  PROVE  \E b, c : /\ b = Deploy!RawBytes(r)
                   /\ b.kind = "message" /\ b # Deploy!Nothing
                   /\ c = Deploy!Bytes(b, 1) /\ c.kind = "message" /\ c # Deploy!Nothing
                   /\ Deploy!Bytes(c, 1) = Deploy!Nothing
                   /\ Deploy!ChaincodeDeploymentSpec(b) = SpecOf(r)
<1>1. PICK i : i = Deploy!Int(1)
  OBVIOUS
<1>2. PICK d : d = Deploy!Msg(r.path, r.name, r.version)
  OBVIOUS
<1>3. PICK n : n = Deploy!Nothing
  OBVIOUS
<1>4. PICK c : c = Deploy!Msg(i, d, n)
  OBVIOUS
<1>5. PICK b : b = Deploy!Msg(c, n, r.code)
  OBVIOUS
<1>6. b = Deploy!RawBytes(r)
  BY <1>1, <1>2, <1>3, <1>4, <1>5 DEF Deploy!RawBytes
<1>7. /\ b.kind = "message" /\ b # Deploy!Nothing /\ Deploy!Parses(b)
      /\ b.of[1] = c /\ b.of[3] = r.code
  BY <1>5, MsgFields
<1>8. /\ c.kind = "message" /\ c # Deploy!Nothing /\ Deploy!Parses(c)
      /\ c.of[1] = i /\ c.of[2] = d
  BY <1>4, MsgFields
<1>9. /\ d.kind = "message" /\ d # Deploy!Nothing /\ Deploy!Parses(d)
      /\ d.of[1] = r.path /\ d.of[2] = r.name /\ d.of[3] = r.version
  BY <1>2, MsgFields
<1>10. Deploy!Bytes(b, 1) = c /\ Deploy!Bytes(c, 2) = d
  BY <1>7, <1>8, <1>9, FieldIsRead
<1>11. Deploy!Bytes(b, 3) = r.code
  <2>1. r.code.kind \notin {"int", "list"}
    BY DEF Deploy!IsRaw, Deploy!IsBytes
  <2> QED
    BY <1>7, <2>1, FieldIsRead
<1>12. Deploy!Bytes(c, 1) = Deploy!Nothing
  <2>1. i.kind = "int"
    BY <1>1 DEF Deploy!Int
  <2> QED
    BY <1>8, <2>1 DEF Deploy!Bytes
<1>13. /\ Deploy!IsString(r.path) /\ Deploy!IsString(r.name) /\ Deploy!IsString(r.version)
  BY DEF Deploy!IsRaw
<1>14. Deploy!Bytes(d, 1) = r.path /\ Deploy!Bytes(d, 2) = r.name /\ Deploy!Bytes(d, 3) = r.version
  BY <1>9, <1>13, StringsAreText, FieldIsRead
<1>15. \A k \in 1..3 : Deploy!Utf8(Deploy!Bytes(d, k))
  <2>1. \A k \in 1..3 : k = 1 \/ k = 2 \/ k = 3
    OBVIOUS
  <2>2. Deploy!Utf8(r.path) /\ Deploy!Utf8(r.name) /\ Deploy!Utf8(r.version)
    BY <1>13, StringsAreText
  <2> QED
    BY <1>14, <2>1, <2>2
<1>16. PICK id : id = [path |-> r.path, name |-> r.name, version |-> r.version]
  OBVIOUS
<1>17. Deploy!ChaincodeID(d) = id
  BY <1>9, <1>14, <1>15, <1>16 DEF Deploy!ChaincodeID
<1>18. id # Deploy!Error
  BY <1>16 DEF Deploy!Error
<1>19. Deploy!ChaincodeDeploymentSpec(b) = [chaincodeId |-> id, codePackage |-> r.code]
  BY <1>7, <1>8, <1>9, <1>10, <1>11, <1>17, <1>18 DEF Deploy!ChaincodeDeploymentSpec
<1> QED
  BY <1>6, <1>7, <1>8, <1>10, <1>12, <1>16, <1>19 DEF SpecOf

(* What InitFromBuffer makes of raw and of signed packages. *)
RawShape(p) ==
  /\ p.sDepSpec = Deploy!Nothing
  /\ p.data = [codeHash |-> Deploy!CodeHash(p.depSpec),
               metaDataHash |-> Deploy!MetaDataHash(p.depSpec)]

SignedShape(p) ==
  /\ p.sDepSpec # Deploy!Nothing
  /\ p.data = [codeHash |-> Deploy!CodeHash(p.depSpec),
               metaDataHash |-> Deploy!MetaDataHash(p.depSpec),
               signatureHash |-> Deploy!SignatureHash(p.sDepSpec)]

LEMMA FromBufferMakes ==
  ASSUME NEW buf, NEW cds, cds = Deploy!ChaincodeDeploymentSpec(buf), cds # Deploy!Error
  PROVE  /\ cds.chaincodeId = Deploy!Nothing /\ Deploy!Parses(buf)
              => Deploy!FromBuffer(buf) = Deploy!Panicked
         /\ cds.chaincodeId # Deploy!Nothing /\ Deploy!Parses(buf) =>
              \E p : /\ p = Deploy!FromBuffer(buf)
                     /\ Deploy!Initialized(p) /\ p # Deploy!Panicked
                     /\ p.depSpec = cds /\ RawShape(p)
<1>1. PICK data, id :
        /\ data = [codeHash |-> Deploy!CodeHash(cds), metaDataHash |-> Deploy!MetaDataHash(cds)]
        /\ id = Deploy!Hash(<<data.codeHash, data.metaDataHash>>)
  OBVIOUS
<1>2. PICK made : made = [data |-> data, id |-> id]
  OBVIOUS
<1>3. made # Deploy!Panicked /\ made.data = data /\ made.id = id
  BY <1>2 DEF Deploy!Panicked
<1>4. Deploy!getCDSData(cds) = IF cds.chaincodeId = Deploy!Nothing THEN Deploy!Panicked ELSE made
  BY <1>1, <1>2 DEF Deploy!getCDSData
<1>5. PICK p : p = [depSpec |-> cds, sDepSpec |-> Deploy!Nothing, data |-> data, id |-> id]
  OBVIOUS
<1>6. p # Deploy!Nothing /\ p # Deploy!Error /\ p # Deploy!Panicked
  BY <1>5 DEF Deploy!Nothing, Deploy!Error, Deploy!Panicked
<1>7. Deploy!Initialized(p)
  BY <1>6 DEF Deploy!Initialized, Deploy!Uninitialized
<1>8. p.depSpec = cds /\ p.sDepSpec = Deploy!Nothing /\ p.data = data
  BY <1>5
<1>9. RawShape(p)
  BY <1>1, <1>8 DEF RawShape
<1>10. ASSUME Deploy!Parses(buf), cds.chaincodeId = Deploy!Nothing
       PROVE  Deploy!FromBuffer(buf) = Deploy!Panicked
  BY <1>4, <1>10 DEF Deploy!FromBuffer
<1>11. ASSUME Deploy!Parses(buf), cds.chaincodeId # Deploy!Nothing
       PROVE  Deploy!FromBuffer(buf) = p
  BY <1>3, <1>4, <1>5, <1>11 DEF Deploy!FromBuffer
<1> QED
  BY <1>6, <1>7, <1>8, <1>9, <1>10, <1>11

LEMMA RawPackage ==
  ASSUME NEW buf, NEW p, p = Deploy!FromBuffer(buf), Deploy!Initialized(p)
  PROVE  RawShape(p)
<1>1. PICK cds : cds = Deploy!ChaincodeDeploymentSpec(buf)
  OBVIOUS
<1>2. Deploy!Parses(buf) /\ cds # Deploy!Error
  BY <1>1 DEF Deploy!FromBuffer, Deploy!Initialized
<1>3. cds.chaincodeId # Deploy!Nothing
  BY <1>1, <1>2, FromBufferMakes DEF Deploy!Initialized
<1> QED
  BY <1>1, <1>2, <1>3, FromBufferMakes

LEMMA SignedMakes ==
  ASSUME NEW buf, NEW extracted, NEW sds, NEW cds,
         extracted = Deploy!ExtractSignedCCDepSpec(buf), sds = extracted.sDepSpec,
         cds = Deploy!ChaincodeDeploymentSpec(sds.chaincodeDeploymentSpec),
         extracted # Deploy!Error, Deploy!Parses(buf)
  PROVE  \E p : /\ p = Deploy!SignedFromBuffer(buf)
                /\ Deploy!Initialized(p) <=>
                     /\ extracted.type = Deploy!CHAINCODE_PACKAGE /\ cds # Deploy!Error
                     /\ cds.chaincodeId # Deploy!Nothing /\ sds.instantiationPolicy # Deploy!Nothing
                /\ Deploy!Initialized(p) =>
                     /\ p.depSpec = cds /\ p.sDepSpec = sds
                     /\ p.data = [codeHash |-> Deploy!CodeHash(cds),
                                  metaDataHash |-> Deploy!MetaDataHash(cds),
                                  signatureHash |-> Deploy!SignatureHash(sds)]
<1>1. PICK data, id :
        /\ data = [codeHash |-> Deploy!CodeHash(cds), metaDataHash |-> Deploy!MetaDataHash(cds),
                   signatureHash |-> Deploy!SignatureHash(sds)]
        /\ id = Deploy!Hash(<<data.codeHash, data.metaDataHash, data.signatureHash>>)
  OBVIOUS
<1>2. PICK made : made = [data |-> data, id |-> id]
  OBVIOUS
<1>3. made # Deploy!Panicked /\ made # Deploy!Error /\ made.data = data /\ made.id = id
  BY <1>2 DEF Deploy!Panicked, Deploy!Error
<1>4. PICK got : got = Deploy!getSignedCDSData(sds)
  OBVIOUS
<1>5. got = IF cds.chaincodeId = Deploy!Nothing THEN Deploy!Panicked
            ELSE IF sds.instantiationPolicy = Deploy!Nothing THEN Deploy!Error ELSE made
  BY <1>1, <1>2, <1>4 DEF Deploy!getSignedCDSData
<1>6. PICK p : p = [depSpec |-> cds, sDepSpec |-> sds, data |-> data, id |-> id]
  OBVIOUS
<1>7. p # Deploy!Nothing /\ p # Deploy!Error /\ p # Deploy!Panicked
  BY <1>6 DEF Deploy!Nothing, Deploy!Error, Deploy!Panicked
<1>8. Deploy!Initialized(p)
  BY <1>7 DEF Deploy!Initialized, Deploy!Uninitialized
<1>9. p.depSpec = cds /\ p.sDepSpec = sds /\ p.data = data
  BY <1>6
<1>10. ~Deploy!Initialized(Deploy!Error) /\ ~Deploy!Initialized(Deploy!Panicked)
  BY DEF Deploy!Initialized
<1>11. PICK q : q = Deploy!SignedFromBuffer(buf)
  OBVIOUS
<1>12. q = IF extracted.type # Deploy!CHAINCODE_PACKAGE \/ cds = Deploy!Error THEN Deploy!Error
           ELSE IF got \in {Deploy!Panicked, Deploy!Error} THEN got
           ELSE [depSpec |-> cds, sDepSpec |-> sds, data |-> got.data, id |-> got.id]
  BY <1>4, <1>11 DEF Deploy!SignedFromBuffer
<1>13. CASE /\ extracted.type = Deploy!CHAINCODE_PACKAGE /\ cds # Deploy!Error
            /\ cds.chaincodeId # Deploy!Nothing /\ sds.instantiationPolicy # Deploy!Nothing
  <2>1. got = made
    BY <1>5, <1>13
  <2>2. q = p
    BY <1>3, <1>6, <1>12, <1>13, <2>1
  <2> QED
    BY <1>1, <1>8, <1>9, <1>11, <1>13, <2>2
<1>14. CASE ~(/\ extracted.type = Deploy!CHAINCODE_PACKAGE /\ cds # Deploy!Error
              /\ cds.chaincodeId # Deploy!Nothing /\ sds.instantiationPolicy # Deploy!Nothing)
  <2>1. q \in {Deploy!Error, Deploy!Panicked}
    BY <1>5, <1>12, <1>14
  <2> QED
    BY <1>10, <1>11, <1>14, <2>1
<1> QED
  BY <1>13, <1>14

LEMMA SignedPackage ==
  ASSUME NEW buf, NEW p, p = Deploy!SignedFromBuffer(buf), Deploy!Initialized(p)
  PROVE  SignedShape(p)
<1>1. PICK extracted, sds, cds :
        /\ extracted = Deploy!ExtractSignedCCDepSpec(buf) /\ sds = extracted.sDepSpec
        /\ cds = Deploy!ChaincodeDeploymentSpec(sds.chaincodeDeploymentSpec)
  OBVIOUS
<1>2. Deploy!Parses(buf) /\ extracted # Deploy!Error
  BY <1>1 DEF Deploy!SignedFromBuffer, Deploy!Initialized
<1>3. /\ p.depSpec = cds /\ p.sDepSpec = sds
      /\ p.data = [codeHash |-> Deploy!CodeHash(cds),
                   metaDataHash |-> Deploy!MetaDataHash(cds),
                   signatureHash |-> Deploy!SignatureHash(sds)]
  BY <1>1, <1>2, SignedMakes
<1>4. sds # Deploy!Nothing
  BY <1>1, <1>2 DEF Deploy!ExtractSignedCCDepSpec, Deploy!SignedChaincodeDeploymentSpec,
                    Deploy!Nothing, Deploy!Error
<1> QED
  BY <1>3, <1>4 DEF SignedShape

LEMMA GoodIfPrintable ==
  ASSUME NEW p, Deploy!Initialized(p), Deploy!isPrintable(p.depSpec.chaincodeId.name)
  PROVE  Deploy!ValidateCC(p, Deploy!GetChaincodeData(p))
<1>1. PICK d : d = Deploy!GetChaincodeData(p)
  OBVIOUS
<1>2. /\ d.name = p.depSpec.chaincodeId.name /\ d.version = p.depSpec.chaincodeId.version
      /\ d.data = p.data
  BY <1>1 DEF Deploy!GetChaincodeData
<1>3. Deploy!DataEquals(p, d.data)
  BY <1>2 DEF Deploy!DataEquals
<1> QED
  BY <1>1, <1>2, <1>3 DEF Deploy!ValidateCC

(* A raw package is recognized as one. *)
LEMMA RawIsRaw ==
  ASSUME NEW r, Deploy!IsRaw(r)
  PROVE  \E p : /\ Deploy!GetCCPackage(Deploy!RawBytes(r)) = p
                /\ Deploy!SignedFromBuffer(Deploy!RawBytes(r)) = Deploy!Error
                /\ Deploy!Initialized(p) /\ p.depSpec = SpecOf(r) /\ p.sDepSpec = Deploy!Nothing
<1>1. PICK b, c : /\ b = Deploy!RawBytes(r)
                  /\ b.kind = "message" /\ b # Deploy!Nothing
                  /\ c = Deploy!Bytes(b, 1) /\ c.kind = "message" /\ c # Deploy!Nothing
                  /\ Deploy!Bytes(c, 1) = Deploy!Nothing
                  /\ Deploy!ChaincodeDeploymentSpec(b) = SpecOf(r)
  BY RawIsRead
<1>2. PICK cds : cds = SpecOf(r)
  OBVIOUS
<1>3. PICK id : id = cds.chaincodeId
  OBVIOUS
<1>4. id = [path |-> r.path, name |-> r.name, version |-> r.version]
  BY <1>2, <1>3 DEF SpecOf
<1>5. id # Deploy!Nothing /\ id.name = r.name
  BY <1>4 DEF Deploy!Nothing
<1>6. cds # Deploy!Error
  BY <1>2 DEF SpecOf, Deploy!Error
<1>7. Deploy!Parses(b)
  BY <1>1 DEF Deploy!Parses
<1>8. PICK p : /\ p = Deploy!FromBuffer(b) /\ Deploy!Initialized(p) /\ p # Deploy!Panicked
               /\ p.depSpec = cds /\ RawShape(p)
  BY <1>1, <1>2, <1>3, <1>5, <1>6, <1>7, FromBufferMakes
<1>9. Deploy!SignedFromBuffer(b) = Deploy!Error
  <2>1. Deploy!ExtractSignedCCDepSpec(b) = Deploy!Error
    BY <1>1 DEF Deploy!ExtractSignedCCDepSpec
  <2> QED
    BY <2>1 DEF Deploy!SignedFromBuffer
<1>10. Deploy!isPrintable(p.depSpec.chaincodeId.name)
  BY <1>3, <1>5, <1>8, StringsAreText DEF Deploy!IsRaw
<1>11. Deploy!ValidateCC(p, Deploy!GetChaincodeData(p))
  BY <1>8, <1>10, GoodIfPrintable
<1>12. Deploy!Error # Deploy!Panicked /\ ~Deploy!Initialized(Deploy!Error)
  BY DEF Deploy!Error, Deploy!Panicked, Deploy!Initialized
<1>13. Deploy!GetCCPackage(b) = p
  BY <1>8, <1>9, <1>11, <1>12 DEF Deploy!GetCCPackage
<1> QED
  BY <1>1, <1>2, <1>8, <1>9, <1>13 DEF RawShape

(* What is in a signed package. *)
OwnersOf(s) ==
  [n \in DOMAIN s.owners |-> Deploy!Msg(s.owners[n], Deploy!Binary("signature"), Deploy!Nothing)]

SignedSpecOf(s) ==
  [chaincodeDeploymentSpec |-> Deploy!RawBytes(s.raw), instantiationPolicy |-> s.policy,
   ownerEndorsements |-> OwnersOf(s)]

LEMMA SignedIsRead ==
  ASSUME NEW s \in Signeds
  PROVE  \E b, c, d, e :
           /\ b = Deploy!SignedBytes(s) /\ Deploy!Parses(b)
           /\ c = Deploy!Bytes(b, 1) /\ Deploy!Parses(c)
           /\ d = Deploy!Bytes(c, 2) /\ d # Deploy!Nothing
           /\ e = Deploy!ExtractSignedCCDepSpec(b) /\ e # Deploy!Error
           /\ e.type = Deploy!CHAINCODE_PACKAGE /\ e.sDepSpec = SignedSpecOf(s)
<1>1. PICK t, n, g : t = Deploy!CHAINCODE_PACKAGE /\ n = Deploy!Nothing /\ g = Deploy!Binary("signature")
  OBVIOUS
<1>2. PICK r : r = Deploy!RawBytes(s.raw) /\ r.kind = "message" /\ r # Deploy!Nothing
  <2>1. Deploy!IsRaw(s.raw)
    BY PackagesAssumption
  <2> QED
    BY <2>1, RawIsRead
<1>3. PICK o : o = Deploy!List(OwnersOf(s))
  OBVIOUS
<1>4. o.kind = "list" /\ o.of = OwnersOf(s) /\ o # Deploy!Nothing
  <2>1. o.kind = "list" /\ o.of = OwnersOf(s)
    BY <1>3 DEF Deploy!List
  <2> QED
    BY <2>1 DEF Deploy!Nothing
<1>5. PICK d : d = Deploy!Msg(r, s.policy, o)
  OBVIOUS
<1>6. PICK k : k = Deploy!Msg(t, n, n)
  OBVIOUS
<1>7. PICK h : h = Deploy!Msg(k, n, n)
  OBVIOUS
<1>8. PICK c : c = Deploy!Msg(h, d, n)
  OBVIOUS
<1>9. PICK b : b = Deploy!Msg(c, g, n)
  OBVIOUS
<1>10. b = Deploy!SignedBytes(s)
  BY <1>1, <1>2, <1>3, <1>5, <1>6, <1>7, <1>8, <1>9
     DEF Deploy!SignedBytes, Deploy!Envelope, OwnersOf
<1>11. b.kind = "message" /\ b # Deploy!Nothing /\ Deploy!Parses(b) /\ b.of[1] = c
  BY <1>9, MsgFields
<1>12. c.kind = "message" /\ c # Deploy!Nothing /\ Deploy!Parses(c) /\ c.of[1] = h /\ c.of[2] = d
  BY <1>8, MsgFields
<1>13. h.kind = "message" /\ h # Deploy!Nothing /\ Deploy!Parses(h) /\ h.of[1] = k
  BY <1>7, MsgFields
<1>14. k.kind = "message" /\ k # Deploy!Nothing /\ Deploy!Parses(k) /\ k.of[1] = t
  BY <1>6, MsgFields
<1>15. /\ d.kind = "message" /\ d # Deploy!Nothing /\ Deploy!Parses(d)
       /\ d.of[1] = r /\ d.of[2] = s.policy /\ d.of[3] = o
  BY <1>5, MsgFields
<1>16. /\ Deploy!Bytes(b, 1) = c /\ Deploy!Bytes(c, 1) = h /\ Deploy!Bytes(c, 2) = d
       /\ Deploy!Bytes(h, 1) = k
  BY <1>11, <1>12, <1>13, <1>14, <1>15, FieldIsRead
<1>17. Deploy!Bytes(d, 1) = r /\ Deploy!Bytes(d, 2) = s.policy
  <2>1. s.policy.kind \notin {"int", "list"}
    BY PackagesAssumption DEF Deploy!IsBytes
  <2> QED
    BY <1>2, <1>15, <2>1, FieldIsRead
<1>18. PICK p : p = SignedSpecOf(s)
  OBVIOUS
<1>19. Deploy!SignedChaincodeDeploymentSpec(d) = p
  BY <1>2, <1>4, <1>15, <1>17, <1>18 DEF Deploy!SignedChaincodeDeploymentSpec, SignedSpecOf
<1>20. p # Deploy!Error
  BY <1>18 DEF SignedSpecOf, Deploy!Error
<1>21. PICK e : e = [type |-> t, sDepSpec |-> p]
  OBVIOUS
<1>22. e # Deploy!Error /\ e.type = t /\ e.sDepSpec = p
  BY <1>21 DEF Deploy!Error
<1>23. Deploy!ExtractSignedCCDepSpec(b) = e
  BY <1>11, <1>12, <1>13, <1>14, <1>16, <1>19, <1>20, <1>21 DEF Deploy!ExtractSignedCCDepSpec
<1> QED
  BY <1>1, <1>10, <1>11, <1>12, <1>15, <1>16, <1>18, <1>22, <1>23

(* A signed package with a policy is recognized as one. *)
LEMMA SignedIsSigned ==
  ASSUME NEW s \in Signeds
  PROVE  \E p : /\ p = Deploy!SignedFromBuffer(Deploy!SignedBytes(s))
                /\ Deploy!Initialized(p) <=> s.policy # Deploy!Nothing
                /\ Deploy!Initialized(p) =>
                     /\ p.sDepSpec = SignedSpecOf(s) /\ p.depSpec = SpecOf(s.raw)
                     /\ Deploy!GetCCPackage(Deploy!SignedBytes(s)) = p
<1>1. PICK b, c, d, e :
           /\ b = Deploy!SignedBytes(s) /\ Deploy!Parses(b)
           /\ c = Deploy!Bytes(b, 1) /\ Deploy!Parses(c)
           /\ d = Deploy!Bytes(c, 2) /\ d # Deploy!Nothing
           /\ e = Deploy!ExtractSignedCCDepSpec(b) /\ e # Deploy!Error
           /\ e.type = Deploy!CHAINCODE_PACKAGE /\ e.sDepSpec = SignedSpecOf(s)
  BY SignedIsRead
<1>2. PICK sds, cds : sds = SignedSpecOf(s) /\ cds = SpecOf(s.raw)
  OBVIOUS
<1>3. Deploy!IsRaw(s.raw)
  BY PackagesAssumption
<1>4. Deploy!ChaincodeDeploymentSpec(sds.chaincodeDeploymentSpec) = cds
  <2>1. sds.chaincodeDeploymentSpec = Deploy!RawBytes(s.raw)
    BY <1>2 DEF SignedSpecOf
  <2> QED
    BY <1>2, <1>3, <2>1, RawIsRead
<1>5. PICK id : id = cds.chaincodeId
  OBVIOUS
<1>6. id = [path |-> s.raw.path, name |-> s.raw.name, version |-> s.raw.version]
  BY <1>2, <1>5 DEF SpecOf
<1>7. id # Deploy!Nothing /\ id.name = s.raw.name
  BY <1>6 DEF Deploy!Nothing
<1>8. cds # Deploy!Error
  BY <1>2 DEF SpecOf, Deploy!Error
<1>9. sds.instantiationPolicy = s.policy
  BY <1>2 DEF SignedSpecOf
<1>10. PICK p : /\ p = Deploy!SignedFromBuffer(b)
                /\ Deploy!Initialized(p) <=>
                     /\ e.type = Deploy!CHAINCODE_PACKAGE /\ cds # Deploy!Error
                     /\ cds.chaincodeId # Deploy!Nothing /\ sds.instantiationPolicy # Deploy!Nothing
                /\ Deploy!Initialized(p) => p.depSpec = cds /\ p.sDepSpec = sds
  <2>1. e = Deploy!ExtractSignedCCDepSpec(b) /\ sds = e.sDepSpec
    BY <1>1, <1>2
  <2>2. cds = Deploy!ChaincodeDeploymentSpec(sds.chaincodeDeploymentSpec)
    BY <1>4
  <2>3. \E q : /\ q = Deploy!SignedFromBuffer(b)
               /\ Deploy!Initialized(q) <=>
                    /\ e.type = Deploy!CHAINCODE_PACKAGE /\ cds # Deploy!Error
                    /\ cds.chaincodeId # Deploy!Nothing /\ sds.instantiationPolicy # Deploy!Nothing
               /\ Deploy!Initialized(q) =>
                    /\ q.depSpec = cds /\ q.sDepSpec = sds
                    /\ q.data = [codeHash |-> Deploy!CodeHash(cds),
                                 metaDataHash |-> Deploy!MetaDataHash(cds),
                                 signatureHash |-> Deploy!SignatureHash(sds)]
    BY ONLY <1>1, <2>1, <2>2, SignedMakes
  <2> QED
    BY <2>3
<1>11. Deploy!Initialized(p) <=> s.policy # Deploy!Nothing
  BY <1>1, <1>5, <1>7, <1>8, <1>9, <1>10
<1>12. ASSUME Deploy!Initialized(p)
       PROVE  p.sDepSpec = sds /\ p.depSpec = cds
  BY <1>10, <1>12
<1>13. ASSUME Deploy!Initialized(p)
       PROVE  Deploy!GetCCPackage(b) = p
  <2>1. Deploy!isPrintable(p.depSpec.chaincodeId.name)
    BY <1>3, <1>5, <1>7, <1>12, <1>13, StringsAreText DEF Deploy!IsRaw
  <2>2. Deploy!ValidateCC(p, Deploy!GetChaincodeData(p))
    BY <1>13, <2>1, GoodIfPrintable
  <2>3. Deploy!FromBuffer(b) # Deploy!Panicked
    <3>1. PICK other : other = Deploy!ChaincodeDeploymentSpec(b)
      OBVIOUS
    <3>2. CASE other = Deploy!Error
      BY <3>1, <3>2 DEF Deploy!FromBuffer, Deploy!Error, Deploy!Panicked
    <3>3. CASE other # Deploy!Error
      <4>1. PICK i : i = Deploy!ChaincodeID(d)
        OBVIOUS
      <4>2. i # Deploy!Nothing
        BY <4>1 DEF Deploy!ChaincodeID, Deploy!Nothing, Deploy!Error
      <4>3. other.chaincodeId = i
        BY <1>1, <3>1, <3>3, <4>1 DEF Deploy!ChaincodeDeploymentSpec
      <4> QED
        BY <1>1, <3>1, <3>3, <4>2, <4>3, FromBufferMakes
    <3> QED
      BY <3>2, <3>3
  <2>4. p # Deploy!Panicked
    BY <1>13 DEF Deploy!Initialized
  <2> QED
    BY <1>10, <1>13, <2>2, <2>3, <2>4 DEF Deploy!GetCCPackage
<1> QED
  BY <1>1, <1>2, <1>10, <1>11, <1>12, <1>13

(* The recursion in SignatureHash has a solution for any owners. *)
Hashed(sds, v) ==
  v = [n \in 0..Len(sds.ownerEndorsements) |->
         IF n = 0 THEN Deploy!Contents(sds.instantiationPolicy)
         ELSE v[n - 1] \o Deploy!Contents(Deploy!Bytes(sds.ownerEndorsements[n], 1))]

LEMMA SignatureHashChosen ==
  ASSUME NEW sds
  PROVE  Deploy!SignatureHash(sds)
           = Deploy!Hash((CHOOSE v : Hashed(sds, v))[Len(sds.ownerEndorsements)])
BY Zenon DEF Deploy!SignatureHash, Hashed

LEMMA SignatureHashIs ==
  ASSUME NEW sds, Len(sds.ownerEndorsements) \in Nat
  PROVE  \E v : Hashed(sds, v) /\
                Deploy!SignatureHash(sds) = Deploy!Hash(v[Len(sds.ownerEndorsements)])
<1>1. PICK L \in Nat : L = Len(sds.ownerEndorsements)
  OBVIOUS
<1>2. PICK h : h = Deploy!Contents(sds.instantiationPolicy)
  OBVIOUS
<1>3. PICK c : c = [n \in 1..L |-> Deploy!Contents(Deploy!Bytes(sds.ownerEndorsements[n], 1))]
  OBVIOUS
<1> DEFINE Part(n, f) == f = [i \in 0..n |-> IF i = 0 THEN h ELSE f[i - 1] \o c[i]]
           C == {n \in 0..L : ~ \E f : Part(n, f)}
<1>4. \E f : Part(0, f)
  <2>1. PICK f : f = [i \in 0..0 |-> h]
    OBVIOUS
  <2>2. Part(0, f)
    BY <2>1
  <2> QED
    BY <2>2
<1>5. ASSUME NEW m \in 1..L, NEW f, Part(m - 1, f)
      PROVE  \E g : Part(m, g)
  <2>1. PICK z : z = f[m - 1] \o c[m]
    OBVIOUS
  <2>2. PICK g : g = [i \in 0..m |-> IF i = m THEN z ELSE f[i]]
    OBVIOUS
  <2>3. ASSUME NEW i \in 0..m
        PROVE  g[i] = IF i = 0 THEN h ELSE g[i - 1] \o c[i]
    <3>1. CASE i = m
      <4>1. g[i - 1] = f[m - 1] /\ g[i] = z /\ i # 0
        BY <2>2, <3>1
      <4> QED
        BY <2>1, <3>1, <4>1
    <3>2. CASE i # m
      <4>1. i \in 0..m - 1
        BY <3>2
      <4>2. f[i] = IF i = 0 THEN h ELSE f[i - 1] \o c[i]
        BY <1>5, <4>1
      <4>3. g[i] = f[i] /\ (i # 0 => g[i - 1] = f[i - 1])
        BY <2>2, <4>1
      <4> QED
        BY <4>2, <4>3
    <3> QED
      BY <3>1, <3>2
  <2>4. Part(m, g)
    <3>1. g = [i \in 0..m |-> g[i]]
      BY <2>2
    <3> QED
      BY <2>3, <3>1
  <2> QED
    BY <2>4
<1> HIDE DEF Part
<1>6. C = {}
  <2> SUFFICES ASSUME C # {} PROVE FALSE
    OBVIOUS
  <2>1. C \in SUBSET Nat
    OBVIOUS
  <2>2. PICK m \in C : \A d \in C : m <= d
    BY <2>1, Least
  <2>3. m \in 1..L /\ m - 1 \in 0..L /\ ~(m <= m - 1)
    BY <1>4, <2>2
  <2>4. \E f : Part(m - 1, f)
    BY <2>2, <2>3
  <2> QED
    BY <1>5, <2>3, <2>4
<1>7. PICK v : Part(L, v)
  <2>1. L \in 0..L
    OBVIOUS
  <2> QED
    BY <1>6, <2>1
<1>8. Hashed(sds, v)
  <2>1. v = [i \in 0..L |-> IF i = 0 THEN h ELSE v[i - 1] \o c[i]]
    BY <1>7 DEF Part
  <2>2. \A i \in 1..L : c[i] = Deploy!Contents(Deploy!Bytes(sds.ownerEndorsements[i], 1))
    BY <1>3
  <2>3. ASSUME NEW i \in 0..L
        PROVE  (IF i = 0 THEN h ELSE v[i - 1] \o c[i])
                 = IF i = 0 THEN Deploy!Contents(sds.instantiationPolicy)
                   ELSE v[i - 1] \o Deploy!Contents(Deploy!Bytes(sds.ownerEndorsements[i], 1))
    <3>1. i # 0 => i \in 1..L
      OBVIOUS
    <3> QED
      BY <1>2, <2>2, <3>1
  <2>4. v = [i \in 0..L |->
               IF i = 0 THEN Deploy!Contents(sds.instantiationPolicy)
               ELSE v[i - 1] \o Deploy!Contents(Deploy!Bytes(sds.ownerEndorsements[i], 1))]
    <3> HIDE DEF Part, C
    <3> QED
      BY ONLY <2>1, <2>3
  <2> QED
    BY <1>1, <2>4, Zenon DEF Hashed
<1>9. \E w : Hashed(sds, w) /\ (CHOOSE x : Hashed(sds, x)) = w
  BY <1>8
<1> QED
  BY <1>9, SignatureHashChosen

(* What is hashed of some bytes is a sequence. *)
LEMMA ContentsAre ==
  ASSUME NEW b, Deploy!IsBytes(b), NEW E, NEW c, c = Deploy!Contents(b),
         \A i \in DOMAIN c : c[i] \in E
  PROVE  c \in Seq(E) /\ Len(c) \in Nat /\ DOMAIN c = 1..Len(c)
<1>1. \E n \in Nat : c \in [1..n -> E]
  <2>1. CASE b = Deploy!Nothing
    <3>1. c = <<>>
      BY <2>1 DEF Deploy!Contents
    <3> QED
      BY <3>1
  <2>2. CASE b # Deploy!Nothing /\ b.kind = "text"
    <3>1. b.of \in Seq({b.of[n] : n \in DOMAIN b.of})
      BY <2>2 DEF Deploy!IsBytes
    <3>2. PICK n \in Nat : DOMAIN b.of = 1..n
      BY <3>1, LenProperties
    <3>3. c = [i \in 1..n |-> Deploy!Text(<<b.of[i]>>)]
      BY <2>2, <3>2 DEF Deploy!Contents
    <3>4. c = [i \in 1..n |-> c[i]] /\ \A i \in 1..n : c[i] \in E
      BY <3>3
    <3> QED
      BY <3>4
  <2>3. CASE b # Deploy!Nothing /\ b.kind # "text"
    <3>1. c = <<b>>
      BY <2>3 DEF Deploy!Contents
    <3>2. c \in [1..1 -> E]
      BY <3>1
    <3> QED
      BY <3>2
  <2> QED
    BY <2>1, <2>2, <2>3
<1>2. c \in Seq(E)
  BY <1>1, SeqDef
<1> QED
  BY <1>2, LenProperties

Begins(c, h) == Len(c) <= Len(h) /\ \A i \in 1..Len(c) : h[i] = c[i]

(* What is hashed of owners begins with the policy. *)
LEMMA PolicyIsHashed ==
  ASSUME NEW s \in Signeds
  PROVE  \E c, h : /\ c = Deploy!Contents(s.policy)
                   /\ Deploy!SignatureHash(SignedSpecOf(s)) = Deploy!Hash(h)
                   /\ Len(c) \in Nat /\ DOMAIN c = 1..Len(c) /\ Len(h) \in Nat
                   /\ Begins(c, h)
<1>1. PICK sds : sds = SignedSpecOf(s)
  OBVIOUS
<1>2. PICK own : own = s.owners
  OBVIOUS
<1>3. /\ own \in Seq({own[n] : n \in DOMAIN own}) /\ Deploy!IsBytes(s.policy)
      /\ \A n \in DOMAIN own : Deploy!IsBytes(own[n])
  BY <1>2, PackagesAssumption
<1>4. PICK L \in Nat : L = Len(own) /\ DOMAIN own = 1..L
  BY <1>3, LenProperties
<1>5. sds.instantiationPolicy = s.policy /\ sds.ownerEndorsements = OwnersOf(s)
  BY <1>1 DEF SignedSpecOf
<1>6. PICK oe : oe = OwnersOf(s)
  OBVIOUS
<1>7. oe = [n \in 1..L |-> Deploy!Msg(own[n], Deploy!Binary("signature"), Deploy!Nothing)]
  BY <1>2, <1>4, <1>6 DEF OwnersOf
<1>8. Len(oe) = L
  <2>1. oe \in [1..L -> {oe[n] : n \in 1..L}]
    BY <1>7
  <2>2. oe \in Seq({oe[n] : n \in 1..L})
    BY <2>1, SeqDef
  <2>3. Len(oe) \in Nat /\ DOMAIN oe = 1..Len(oe)
    BY <2>2, LenProperties
  <2>4. PICK k \in Nat : k = Len(oe)
    BY <2>3
  <2>5. 1..k = 1..L
    BY <1>7, <2>3, <2>4
  <2>6. k = L
    BY ONLY k \in Nat, L \in Nat, <2>5
  <2> QED
    BY <2>4, <2>6
<1>9. ASSUME NEW n \in 1..L
      PROVE  Deploy!Bytes(oe[n], 1) = own[n]
  <2>1. PICK g, z, f, m : /\ g = Deploy!Binary("signature") /\ z = Deploy!Nothing /\ f = own[n]
                          /\ m = Deploy!Msg(f, g, z)
    OBVIOUS
  <2>2. oe[n] = m
    BY <1>7, <2>1
  <2>3. m # Deploy!Nothing /\ m.of[1] = f
    BY <2>1, MsgFields
  <2>4. f.kind \notin {"int", "list"}
    BY <1>3, <1>4, <2>1 DEF Deploy!IsBytes
  <2>5. Deploy!Bytes(m, 1) = f
    BY <2>3, <2>4, FieldIsRead
  <2> QED
    BY <2>1, <2>2, <2>5
<1>10. PICK c : c = Deploy!Contents(s.policy)
  OBVIOUS
<1>11. PICK o : o = [n \in 1..L |-> Deploy!Contents(own[n])]
  OBVIOUS
<1>12. PICK E : E = {c[i] : i \in DOMAIN c} \cup UNION {{o[n][i] : i \in DOMAIN o[n]} : n \in 1..L}
  OBVIOUS
<1>13. c \in Seq(E) /\ Len(c) \in Nat /\ DOMAIN c = 1..Len(c)
  <2>1. \A i \in DOMAIN c : c[i] \in E
    BY <1>12
  <2>2. PICK b : b = s.policy
    OBVIOUS
  <2>3. c = Deploy!Contents(b) /\ Deploy!IsBytes(b)
    BY <1>3, <1>10, <2>2
  <2> QED
    BY <2>1, <2>3, ContentsAre
<1>14. ASSUME NEW n \in 1..L
       PROVE  o[n] \in Seq(E)
  <2>1. PICK b, d : b = own[n] /\ d = o[n]
    OBVIOUS
  <2>2. d = Deploy!Contents(b) /\ Deploy!IsBytes(b)
    BY <1>3, <1>4, <1>11, <2>1
  <2>3. \A i \in DOMAIN d : d[i] \in E
    BY <1>12, <2>1
  <2>4. d \in Seq(E)
    BY <2>2, <2>3, ContentsAre
  <2> QED
    BY <2>1, <2>4
<1>15. PICK v : /\ Hashed(sds, v)
                /\ Deploy!SignatureHash(sds) = Deploy!Hash(v[L])
  BY <1>5, <1>6, <1>8, SignatureHashIs
<1>16. ASSUME NEW n \in 0..L
       PROVE  v[n] = IF n = 0 THEN c ELSE v[n - 1] \o o[n]
  <2>1. v = [k \in 0..L |->
               IF k = 0 THEN c ELSE v[k - 1] \o Deploy!Contents(Deploy!Bytes(oe[k], 1))]
    BY <1>5, <1>6, <1>8, <1>10, <1>15 DEF Hashed
  <2>2. v[n] = IF n = 0 THEN c ELSE v[n - 1] \o Deploy!Contents(Deploy!Bytes(oe[n], 1))
    BY <2>1
  <2>3. n # 0 => n \in 1..L
    OBVIOUS
  <2> QED
    BY <1>9, <1>11, <2>2, <2>3
<1> DEFINE C == {n \in 0..L : ~(v[n] \in Seq(E) /\ Begins(c, v[n]))}
<1>17. C = {}
  <2> SUFFICES ASSUME C # {} PROVE FALSE
    OBVIOUS
  <2>1. C \in SUBSET Nat
    OBVIOUS
  <2>2. PICK m \in C : \A d \in C : m <= d
    BY <2>1, Least
  <2>3. m \in 0..L /\ ~(v[m] \in Seq(E) /\ Begins(c, v[m]))
    OBVIOUS
  <2>4. m # 0
    BY <1>13, <1>16, <2>3 DEF Begins
  <2>5. PICK k \in 0..L : k = m - 1 /\ m \in 1..L /\ ~(m <= k)
    BY <2>3, <2>4
  <2>6. PICK x, y, z : x = v[k] /\ y = o[m] /\ z = v[m]
    OBVIOUS
  <2>7. x \in Seq(E) /\ Begins(c, x)
    BY <2>2, <2>5, <2>6
  <2>8. y \in Seq(E) /\ z = x \o y
    BY <1>14, <1>16, <2>4, <2>5, <2>6
  <2>9. /\ z \in Seq(E) /\ Len(z) = Len(x) + Len(y) /\ Len(x) \in Nat /\ Len(y) \in Nat
        /\ \A i \in 1..Len(x) : z[i] = x[i]
    BY <2>7, <2>8, ConcatProperties, LenProperties
  <2>10. Begins(c, z)
    BY <1>13, <2>7, <2>9 DEF Begins
  <2> QED
    BY <2>3, <2>6, <2>9, <2>10
<1>18. v[L] \in Seq(E) /\ Begins(c, v[L])
  <2>1. L \in 0..L
    OBVIOUS
  <2> QED
    BY <1>17, <2>1
<1>19. PICK h : h = v[L]
  OBVIOUS
<1>20. Len(h) \in Nat
  BY <1>18, <1>19, LenProperties
<1> QED
  BY <1>1, <1>10, <1>13, <1>15, <1>18, <1>19, <1>20

(* What is hashed alike has one policy. *)
LEMMA SamePolicy ==
  ASSUME NEW s \in Signeds, NEW t \in Signeds,
         s.policy # Deploy!Nothing, t.policy # Deploy!Nothing,
         Deploy!SignatureHash(SignedSpecOf(s)) = Deploy!SignatureHash(SignedSpecOf(t))
  PROVE  s.policy = t.policy
<1>1. PICK c, h : /\ c = Deploy!Contents(s.policy)
                  /\ Deploy!SignatureHash(SignedSpecOf(s)) = Deploy!Hash(h)
                  /\ Len(c) \in Nat /\ DOMAIN c = 1..Len(c) /\ Len(h) \in Nat
                  /\ Begins(c, h)
  BY PolicyIsHashed
<1>2. PICK d, g : /\ d = Deploy!Contents(t.policy)
                  /\ Deploy!SignatureHash(SignedSpecOf(t)) = Deploy!Hash(g)
                  /\ Len(d) \in Nat /\ DOMAIN d = 1..Len(d) /\ Len(g) \in Nat
                  /\ Begins(d, g)
  BY PolicyIsHashed
<1>3. h = g
  <2>1. Deploy!Hash(h) = Deploy!Hash(g)
    BY <1>1, <1>2
  <2>2. Deploy!Hash(h).digest = h /\ Deploy!Hash(g).digest = g
    BY DEF Deploy!Hash
  <2> QED
    BY <2>1, <2>2
<1> DEFINE policies == {x.policy : x \in Signeds} \ {Deploy!Nothing}
<1>4. s.policy \in policies /\ t.policy \in policies
  OBVIOUS
<1>5. Deploy!EndsItself(s.policy, policies) /\ Deploy!EndsItself(t.policy, policies)
  BY <1>4, PoliciesAssumption
<1> HIDE DEF policies
<1>6. CASE Len(c) <= Len(d)
  <2>1. \A n \in DOMAIN c : c[n] = d[n]
    BY <1>1, <1>2, <1>3, <1>6 DEF Begins
  <2> QED
    BY <1>1, <1>2, <1>4, <1>5, <1>6, <2>1 DEF Deploy!EndsItself
<1>7. CASE Len(d) <= Len(c)
  <2>1. \A n \in DOMAIN d : d[n] = c[n]
    BY <1>1, <1>2, <1>3, <1>7 DEF Begins
  <2> QED
    BY <1>1, <1>2, <1>4, <1>5, <1>7, <2>1 DEF Deploy!EndsItself
<1> QED
  BY <1>1, <1>2, <1>6, <1>7

(* Whatever a package object holds is what its bytes say, and what LSCC    *)
(* stored is the data of such a package.                                   *)
Made(d, q) == Deploy!Initialized(q) /\ d = Deploy!GetChaincodeData(q)

ObjectInv ==
  /\ Deploy!Initialized(raw) =>
       raw = Deploy!FromBuffer(rawBuf) /\ rawBuf \in Deploy!Buffers
  /\ Deploy!Initialized(signed) =>
       signed = Deploy!SignedFromBuffer(signedBuf) /\ signedBuf \in Deploy!Buffers
  /\ chosen # Deploy!Nothing => chosen = Deploy!GetCCPackage(rawBuf)
  /\ ccdata # Deploy!Nothing =>
       \E buf \in Deploy!Buffers :
         Made(ccdata, Deploy!FromBuffer(buf)) \/ Made(ccdata, Deploy!SignedFromBuffer(buf))

LEMMA NothingIsNoPackage == ~Deploy!Initialized(Deploy!Nothing)
BY DEF Deploy!Initialized, Deploy!Uninitialized

LEMMA InitMakes ==
  ASSUME NEW p, NEW q, NEW r, r = Deploy!InitFromBuffer(p, q), Deploy!Initialized(r)
  PROVE  r = q
BY NothingIsNoPackage DEF Deploy!InitFromBuffer, Deploy!Uninitialized

LEMMA InitObjectInv == Deploy!Init => ObjectInv
BY NothingIsNoPackage DEF Deploy!Init, ObjectInv, Deploy!Uninitialized

LEMMA InitRawObjectInv ==
  ASSUME ObjectInv, NEW buf \in Deploy!Buffers, Deploy!InitRaw(buf)
  PROVE  ObjectInv'
<1>1. /\ raw' = Deploy!InitFromBuffer(raw, Deploy!FromBuffer(buf)) /\ rawBuf' = buf
      /\ chosen' = Deploy!Nothing /\ signed' = signed /\ signedBuf' = signedBuf /\ ccdata' = ccdata
  BY DEF Deploy!InitRaw
<1>2. Deploy!Initialized(raw') => raw' = Deploy!FromBuffer(buf)
  BY <1>1, InitMakes
<1> QED
  BY <1>1, <1>2 DEF ObjectInv

LEMMA InitSignedObjectInv ==
  ASSUME ObjectInv, NEW buf \in Deploy!Buffers, Deploy!InitSigned(buf)
  PROVE  ObjectInv'
<1>1. /\ signed' = Deploy!InitFromBuffer(signed, Deploy!SignedFromBuffer(buf))
      /\ signedBuf' = buf
      /\ chosen' = Deploy!Nothing /\ raw' = raw /\ rawBuf' = rawBuf /\ ccdata' = ccdata
  BY DEF Deploy!InitSigned
<1>2. Deploy!Initialized(signed') => signed' = Deploy!SignedFromBuffer(buf)
  BY <1>1, InitMakes
<1> QED
  BY <1>1, <1>2 DEF ObjectInv

LEMMA RecognizeObjectInv ==
  ASSUME ObjectInv, NEW buf \in Deploy!Buffers, Deploy!Recognize(buf)
  PROVE  ObjectInv'
<1>1. /\ raw' = Deploy!InitFromBuffer(Deploy!Uninitialized, Deploy!FromBuffer(buf))
      /\ rawBuf' = buf
      /\ signed' = Deploy!InitFromBuffer(Deploy!Uninitialized, Deploy!SignedFromBuffer(buf))
      /\ signedBuf' = buf
      /\ chosen' = Deploy!GetCCPackage(buf) /\ ccdata' = ccdata
  BY DEF Deploy!Recognize
<1>2. Deploy!Initialized(raw') => raw' = Deploy!FromBuffer(buf)
  BY <1>1, InitMakes
<1>3. Deploy!Initialized(signed') => signed' = Deploy!SignedFromBuffer(buf)
  BY <1>1, InitMakes
<1> QED
  BY <1>1, <1>2, <1>3 DEF ObjectInv

LEMMA InstantiateObjectInv ==
  ASSUME ObjectInv, NEW p \in {raw, signed}, Deploy!Instantiate(p)
  PROVE  ObjectInv'
<1>1. /\ Deploy!Initialized(p) /\ ccdata' = Deploy!GetChaincodeData(p)
      /\ raw' = raw /\ signed' = signed /\ rawBuf' = rawBuf /\ signedBuf' = signedBuf
      /\ chosen' = chosen
  BY DEF Deploy!Instantiate
<1>2. \E buf \in Deploy!Buffers : p = Deploy!FromBuffer(buf) \/ p = Deploy!SignedFromBuffer(buf)
  BY <1>1 DEF ObjectInv
<1>3. \E buf \in Deploy!Buffers :
        Made(ccdata', Deploy!FromBuffer(buf)) \/ Made(ccdata', Deploy!SignedFromBuffer(buf))
  BY <1>1, <1>2 DEF Made
<1> QED
  BY <1>1, <1>3 DEF ObjectInv

LEMMA ObjectInvariant == Deploy!Spec => []ObjectInv
<1>1. ObjectInv /\ [Deploy!Next]_Deploy!vars => ObjectInv'
  <2>1. ObjectInv /\ UNCHANGED Deploy!vars => ObjectInv'
    BY DEF ObjectInv, Deploy!vars
  <2>2. ASSUME ObjectInv, Deploy!Next PROVE ObjectInv'
    <3>1. CASE \E buf \in Deploy!Buffers :
                 Deploy!InitRaw(buf) \/ Deploy!InitSigned(buf) \/ Deploy!Recognize(buf)
      BY <2>2, <3>1, InitRawObjectInv, InitSignedObjectInv, RecognizeObjectInv
    <3>2. CASE Deploy!Instantiate(raw) \/ Deploy!Instantiate(signed)
      BY <2>2, <3>2, InstantiateObjectInv
    <3> QED
      BY <2>2, <3>1, <3>2 DEF Deploy!Next
  <2> QED
    BY <2>1, <2>2
<1> QED
  BY <1>1, InitObjectInv, PTL DEF Deploy!Spec

(* What was signed and is initialized comes of one of the signed packages. *)
LEMMA SignedComesOfSigned ==
  ASSUME NEW buf \in Deploy!Buffers, NEW p, p = Deploy!SignedFromBuffer(buf),
         Deploy!Initialized(p)
  PROVE  \E s \in Signeds : s.policy # Deploy!Nothing /\ p.sDepSpec = SignedSpecOf(s)
<1>1. buf \notin Junk
  BY JunkAssumption
<1>2. ASSUME NEW r \in Raws, buf = Deploy!RawBytes(r)
      PROVE  FALSE
  <2>1. Deploy!SignedFromBuffer(buf) = Deploy!Error
    BY <1>2, PackagesAssumption, RawIsRaw
  <2> QED
    BY <2>1 DEF Deploy!Initialized
<1>3. PICK s \in Signeds : buf = Deploy!SignedBytes(s)
  BY <1>1, <1>2 DEF Deploy!Buffers
<1>4. PICK q : /\ q = Deploy!SignedFromBuffer(Deploy!SignedBytes(s))
               /\ Deploy!Initialized(q) <=> s.policy # Deploy!Nothing
               /\ Deploy!Initialized(q) => q.sDepSpec = SignedSpecOf(s)
  BY SignedIsSigned
<1> QED
  BY <1>3, <1>4

(* ValidateCC takes no package for another, nor a raw for a signed one.    *)
LEMMA ValidIsStored ==
  ASSUME NEW b \in Deploy!Buffers, NEW p,
         (p = Deploy!FromBuffer(b)) \/ (p = Deploy!SignedFromBuffer(b)),
         NEW d, NEW c \in Deploy!Buffers,
         Made(d, Deploy!FromBuffer(c)) \/ Made(d, Deploy!SignedFromBuffer(c)),
         Deploy!ValidateCC(p, d)
  PROVE  /\ p.depSpec.chaincodeId.name = d.name
         /\ p.depSpec.chaincodeId.version = d.version
         /\ Deploy!CodeHash(p.depSpec) = d.data.codeHash
         /\ p.sDepSpec # Deploy!Nothing => p.sDepSpec.instantiationPolicy = d.instantiationPolicy
<1>1. Deploy!Initialized(p) /\ Deploy!DataEquals(p, d.data)
  BY DEF Deploy!ValidateCC
<1>2. RawShape(p) \/ SignedShape(p)
  BY <1>1, RawPackage, SignedPackage
<1>3. Deploy!CodeHash(p.depSpec) = p.data.codeHash
  BY <1>2 DEF RawShape, SignedShape
<1>4. ASSUME p.sDepSpec # Deploy!Nothing
      PROVE  p.sDepSpec.instantiationPolicy = d.instantiationPolicy
  <2>1. p = Deploy!SignedFromBuffer(b)
    BY <1>1, <1>4, RawPackage DEF RawShape
  <2>2. SignedShape(p)
    BY <1>1, <2>1, SignedPackage
  <2>3. /\ "signatureHash" \in DOMAIN p.data
        /\ p.data.signatureHash = Deploy!SignatureHash(p.sDepSpec)
    BY <2>2 DEF SignedShape
  <2>4. /\ "signatureHash" \in DOMAIN d.data
        /\ p.data.signatureHash = d.data.signatureHash
    BY <1>1, <2>3 DEF Deploy!DataEquals
  <2>5. PICK q : /\ (q = Deploy!FromBuffer(c)) \/ (q = Deploy!SignedFromBuffer(c))
                 /\ Deploy!Initialized(q) /\ d = Deploy!GetChaincodeData(q)
    BY DEF Made
  <2>6. /\ d.data = q.data
        /\ d.instantiationPolicy =
             IF q.sDepSpec = Deploy!Nothing THEN Deploy!Nothing ELSE q.sDepSpec.instantiationPolicy
    BY <2>5 DEF Deploy!GetChaincodeData
  <2>7. ~RawShape(q)
    BY <2>4, <2>6 DEF RawShape
  <2>8. q = Deploy!SignedFromBuffer(c) /\ SignedShape(q)
    BY <2>5, <2>7, RawPackage, SignedPackage
  <2>9. PICK s \in Signeds : s.policy # Deploy!Nothing /\ p.sDepSpec = SignedSpecOf(s)
    BY <1>1, <2>1, SignedComesOfSigned
  <2>10. PICK t \in Signeds : t.policy # Deploy!Nothing /\ q.sDepSpec = SignedSpecOf(t)
    BY <2>5, <2>8, SignedComesOfSigned
  <2>11. q.data.signatureHash = Deploy!SignatureHash(q.sDepSpec) /\ q.sDepSpec # Deploy!Nothing
    BY <2>8 DEF SignedShape
  <2>12. s.policy = t.policy
    BY <2>3, <2>4, <2>6, <2>9, <2>10, <2>11, SamePolicy
  <2>13. /\ p.sDepSpec.instantiationPolicy = s.policy
         /\ q.sDepSpec.instantiationPolicy = t.policy
    BY <2>9, <2>10 DEF SignedSpecOf
  <2> QED
    BY <2>6, <2>11, <2>12, <2>13
<1> QED
  BY <1>3, <1>1, <1>4 DEF Deploy!ValidateCC, Deploy!DataEquals

(* What is said of a package, whatever was done with package objects, is   *)
(* true of it.                                                             *)
THEOREM PackagesAreTaken == Deploy!Spec => []DeploymentInv
<1>1. ObjectInv => Deploy!KindIsRight
  <2> SUFFICES ASSUME ObjectInv, chosen # Deploy!Nothing PROVE Deploy!KindIsRight
    BY DEF Deploy!KindIsRight
  <2>1. chosen = Deploy!GetCCPackage(rawBuf)
    BY DEF ObjectInv
  <2>2. ASSUME NEW r \in Raws, rawBuf = Deploy!RawBytes(r)
        PROVE  /\ Deploy!Initialized(chosen) /\ chosen.sDepSpec = Deploy!Nothing
               /\ chosen.depSpec.chaincodeId.name = r.name
               /\ chosen.depSpec.codePackage = r.code
    <3>1. Deploy!IsRaw(r)
      BY PackagesAssumption
    <3>2. /\ Deploy!Initialized(chosen) /\ chosen.depSpec = SpecOf(r)
          /\ chosen.sDepSpec = Deploy!Nothing
      BY <2>1, <2>2, <3>1, RawIsRaw
    <3> QED
      BY <3>2 DEF SpecOf
  <2>3. ASSUME NEW s \in Signeds, rawBuf = Deploy!SignedBytes(s), s.policy # Deploy!Nothing
        PROVE  /\ Deploy!Initialized(chosen) /\ chosen.sDepSpec # Deploy!Nothing
               /\ chosen.depSpec.chaincodeId.name = s.raw.name
               /\ chosen.depSpec.codePackage = s.raw.code
    <3>1. /\ Deploy!Initialized(chosen) /\ chosen.depSpec = SpecOf(s.raw)
          /\ chosen.sDepSpec = SignedSpecOf(s)
      BY <2>1, <2>3, SignedIsSigned
    <3>2. SignedSpecOf(s) # Deploy!Nothing
      BY DEF SignedSpecOf, Deploy!Nothing
    <3> QED
      BY <3>1, <3>2 DEF SpecOf
  <2> QED
    BY <2>2, <2>3 DEF Deploy!KindIsRight
<1>2. ObjectInv => Deploy!PackageIsMine
  <2> SUFFICES ASSUME ObjectInv PROVE Deploy!PackageIsMine
    OBVIOUS
  <2>1. ASSUME NEW p \in {raw, signed}, ccdata # Deploy!Nothing, Deploy!ValidateCC(p, ccdata)
        PROVE  /\ p.depSpec.chaincodeId.name = ccdata.name
               /\ p.depSpec.chaincodeId.version = ccdata.version
               /\ Deploy!CodeHash(p.depSpec) = ccdata.data.codeHash
               /\ p.sDepSpec # Deploy!Nothing =>
                    p.sDepSpec.instantiationPolicy = ccdata.instantiationPolicy
    <3>1. Deploy!Initialized(p)
      BY <2>1 DEF Deploy!ValidateCC
    <3>2. PICK b \in Deploy!Buffers :
            (p = Deploy!FromBuffer(b)) \/ (p = Deploy!SignedFromBuffer(b))
      BY <2>1, <3>1 DEF ObjectInv
    <3>3. PICK c \in Deploy!Buffers :
            Made(ccdata, Deploy!FromBuffer(c)) \/ Made(ccdata, Deploy!SignedFromBuffer(c))
      BY <2>1 DEF ObjectInv
    <3> QED
      BY <2>1, <3>2, <3>3, ValidIsStored
  <2> QED
    BY <2>1 DEF ObjectInv, Deploy!PackageIsMine
<1> QED
  BY <1>1, <1>2, ObjectInvariant, PTL DEF DeploymentInv, Deploy!DeploymentInv

-----------------------------------------------------------------------------
(* Payload: paths, how they compare, and that Sorted lists each once.      *)
(* A path is a sequence of names. *)
PathNames  == Package!Range(NameOrder)
Paths == Seq(PathNames)

(* p is the beginning of q. *)
Agree(p, q, n) == \A k \in 1..n : p[k] = q[k]

LEMMA StrictPrefixIs ==
  ASSUME NEW p \in Paths, NEW q \in Paths
  PROVE  Package!IsStrictPrefix(p, q) <=> Len(p) < Len(q) /\ Agree(p, q, Len(p))
<1>1. Len(p) \in Nat /\ Len(q) \in Nat /\ p \in Seq(PathNames) /\ q \in Seq(PathNames)
  BY LenProperties DEF Paths
<1>2. ASSUME Len(p) <= Len(q)
      PROVE  SubSeq(p, 1, Len(p)) = SubSeq(q, 1, Len(p)) <=> Agree(p, q, Len(p))
  <2>1. SubSeq(p, 1, Len(p)) = p
    BY <1>1, SubSeqFull
  <2>2. \A i \in 1..Len(p) : q[i] \in PathNames
    BY <1>1, <1>2, ElementOfSeq
  <2>3. /\ SubSeq(q, 1, Len(p)) \in Seq(PathNames) /\ Len(SubSeq(q, 1, Len(p))) = Len(p)
        /\ \A k \in 1..Len(p) : SubSeq(q, 1, Len(p))[k] = q[k]
    BY <1>1, <1>2, <2>2, SubSeqProperties
  <2> QED
    BY <1>1, <2>1, <2>3, SeqEqual DEF Agree
<1>3. ASSUME Agree(p, q, Len(p)), Len(p) = Len(q) PROVE p = q
  BY <1>1, <1>3, SeqEqual DEF Agree
<1> QED
  BY <1>1, <1>2, <1>3 DEF Package!IsStrictPrefix, Package!IsPrefix

LEMMA AboveIs ==
  ASSUME NEW p \in Paths, NEW q
  PROVE  q \in Package!Above(p) <=>
           q \in Paths /\ Len(q) \in 1..Len(p) - 1 /\ Agree(q, p, Len(q))
<1>1. Len(p) \in Nat /\ p \in Seq(PathNames)
  BY LenProperties DEF Paths
<1>2. ASSUME NEW n \in 1..Len(p) - 1
      PROVE  /\ SubSeq(p, 1, n) \in Paths /\ Len(SubSeq(p, 1, n)) = n
             /\ Agree(SubSeq(p, 1, n), p, n)
  <2>1. \A i \in 1..n : p[i] \in PathNames
    BY <1>1, ElementOfSeq
  <2> QED
    BY <1>1, <2>1, SubSeqProperties DEF Agree, Paths
<1>3. ASSUME q \in Paths, Len(q) \in 1..Len(p) - 1, Agree(q, p, Len(q))
      PROVE  q = SubSeq(p, 1, Len(q))
  <2>1. PICK n, r : n = Len(q) /\ r = SubSeq(p, 1, n)
    OBVIOUS
  <2>2. r \in Seq(PathNames) /\ Len(r) = n /\ Agree(r, p, n)
    BY <1>2, <1>3, <2>1 DEF Paths
  <2>3. q \in Seq(PathNames) /\ \A k \in 1..Len(q) : q[k] = r[k]
    BY <1>3, <2>1, <2>2 DEF Agree, Paths
  <2>4. q = r
    BY <2>1, <2>2, <2>3, SeqEqual
  <2> QED
    BY <2>1, <2>4
<1> QED
  BY <1>2, <1>3 DEF Package!Above

(* What is put end to end. *)
LEMMA JoinIs ==
  ASSUME NEW p \in Paths, NEW q \in Paths
  PROVE  /\ p \o q \in Paths /\ Len(p \o q) = Len(p) + Len(q)
         /\ Agree(p \o q, p, Len(p))
         /\ \A k \in 1..Len(q) : (p \o q)[Len(p) + k] = q[k]
<1>1. Len(p) \in Nat /\ Len(q) \in Nat /\ p \in Seq(PathNames) /\ q \in Seq(PathNames)
  BY LenProperties DEF Paths
<1>2. /\ p \o q \in Seq(PathNames) /\ Len(p \o q) = Len(p) + Len(q)
      /\ \A i \in 1..Len(p) + Len(q) :
           (p \o q)[i] = IF i <= Len(p) THEN p[i] ELSE q[i - Len(p)]
  BY ONLY <1>1, ConcatProperties
<1>3. ASSUME NEW k \in 1..Len(q)
      PROVE  Len(p) + k \in 1..Len(p) + Len(q) /\ ~(Len(p) + k <= Len(p))
             /\ (Len(p) + k) - Len(p) = k
  BY <1>1
<1> QED
  BY <1>1, <1>2, <1>3 DEF Agree, Paths

LEMMA RelIs ==
  ASSUME NEW m \in Paths, NEW p \in Paths, Len(m) <= Len(p)
  PROVE  /\ Package!Rel(m, p) \in Paths /\ Len(Package!Rel(m, p)) = Len(p) - Len(m)
         /\ \A k \in 1..Len(p) - Len(m) : Package!Rel(m, p)[k] = p[Len(m) + k]
<1>1. Len(m) \in Nat /\ Len(p) \in Nat /\ p \in Seq(PathNames)
  BY LenProperties DEF Paths
<1>2. \A i \in Len(m) + 1..Len(p) : p[i] \in PathNames
  BY <1>1, ElementOfSeq
<1>3. PICK a \in Int, b \in Int : a = Len(m) + 1 /\ b = Len(p)
  BY <1>1
<1>4. /\ SubSeq(p, a, b) \in Seq(PathNames)
      /\ Len(SubSeq(p, a, b)) = IF a <= b THEN b - a + 1 ELSE 0
      /\ \A i \in 1..b - a + 1 : SubSeq(p, a, b)[i] = p[a + i - 1]
  BY <1>2, <1>3, SubSeqProperties
<1>5. Package!Rel(m, p) = SubSeq(p, a, b)
  BY <1>3 DEF Package!Rel
<1> QED
  BY <1>1, <1>3, <1>4, <1>5 DEF Paths

(* The directory and the name of a file. *)
LEMMA DirIs ==
  ASSUME NEW p \in Paths, Len(p) >= 1
  PROVE  /\ Package!Dir(p) \in Paths /\ Len(Package!Dir(p)) = Len(p) - 1
         /\ Agree(Package!Dir(p), p, Len(p) - 1)
         /\ Package!Last(p) = p[Len(p)] /\ Package!Last(p) \in PathNames
<1>1. Len(p) \in Nat /\ p \in Seq(PathNames)
  BY LenProperties DEF Paths
<1>2. \A i \in 1..Len(p) : p[i] \in PathNames
  BY <1>1, ElementOfSeq
<1>3. PICK b \in Int : b = Len(p) - 1
  BY <1>1
<1>4. /\ SubSeq(p, 1, b) \in Seq(PathNames)
      /\ Len(SubSeq(p, 1, b)) = IF 1 <= b THEN b - 1 + 1 ELSE 0
      /\ \A i \in 1..b - 1 + 1 : SubSeq(p, 1, b)[i] = p[1 + i - 1]
  <2>1. \A i \in 1..b : p[i] \in PathNames
    BY <1>2, <1>3, <1>1
  <2> QED
    BY <1>3, <2>1, SubSeqProperties
<1>5. Package!Dir(p) = SubSeq(p, 1, b)
  BY <1>3 DEF Package!Dir, Package!Front
<1> QED
  BY <1>1, <1>2, <1>3, <1>4, <1>5 DEF Paths, Agree, Package!Last

LEMMA RankIs ==
  ASSUME NEW x \in PathNames
  PROVE  Package!Rank(x) \in Nat /\ NameOrder[Package!Rank(x)] = x
<1>1. NameOrder \in Seq(PathNames)
  BY FilesAssumption DEF PathNames
<1>2. DOMAIN NameOrder = 1..Len(NameOrder) /\ Len(NameOrder) \in Nat
  BY <1>1, LenProperties
<1>3. \E i \in 1..Len(NameOrder) : NameOrder[i] = x
  BY <1>2 DEF PathNames, Package!Range
<1>4. Package!Rank(x) \in 1..Len(NameOrder) /\ NameOrder[Package!Rank(x)] = x
  BY <1>3 DEF Package!Rank
<1> QED
  BY <1>2, <1>4

(* Where p and q first differ p comes first, or ends. *)
First(p, q, i) ==
  /\ i \in 1..Len(p) + 1 /\ i <= Len(q)
  /\ Agree(p, q, i - 1)
  /\ i = Len(p) + 1 \/ (i <= Len(p) /\ Package!Rank(p[i]) < Package!Rank(q[i]))

LEMMA LessIs ==
  ASSUME NEW p \in Paths, NEW q \in Paths
  PROVE  Package!Less(p, q) <=> \E i : First(p, q, i)
<1>1. Len(p) \in Nat /\ Len(q) \in Nat
  BY LenProperties DEF Paths
<1>2. Package!Less(p, q) <=>
        \/ Len(p) < Len(q) /\ Agree(p, q, Len(p))
        \/ \E i \in 1..Len(p) \cap 1..Len(q) :
             Agree(p, q, i - 1) /\ Package!Rank(p[i]) < Package!Rank(q[i])
  BY StrictPrefixIs DEF Package!Less, Agree
<1>3. Len(p) < Len(q) /\ Agree(p, q, Len(p)) <=> First(p, q, Len(p) + 1)
  BY <1>1 DEF First
<1>4. ASSUME NEW i
      PROVE  First(p, q, i) <=>
               \/ i = Len(p) + 1 /\ First(p, q, Len(p) + 1)
               \/ /\ i \in 1..Len(p) \cap 1..Len(q) /\ Agree(p, q, i - 1)
                  /\ Package!Rank(p[i]) < Package!Rank(q[i])
  BY <1>1 DEF First
<1> QED
  BY <1>2, <1>3, <1>4

LEMMA LessIrreflexive ==
  ASSUME NEW p \in Paths PROVE ~Package!Less(p, p)
<1> SUFFICES ASSUME NEW i, First(p, p, i) PROVE FALSE
  BY LessIs
<1>1. Len(p) \in Nat /\ p \in Seq(PathNames)
  BY LenProperties DEF Paths
<1>2. i \in 1..Len(p) /\ Package!Rank(p[i]) < Package!Rank(p[i])
  BY <1>1 DEF First
<1>3. Package!Rank(p[i]) \in Nat
  BY <1>1, <1>2, ElementOfSeq, RankIs
<1> QED
  BY <1>2, <1>3

LEMMA LessTransitive ==
  ASSUME NEW p \in Paths, NEW q \in Paths, NEW r \in Paths,
         Package!Less(p, q), Package!Less(q, r)
  PROVE  Package!Less(p, r)
<1>1. /\ Len(p) \in Nat /\ Len(q) \in Nat /\ Len(r) \in Nat
      /\ p \in Seq(PathNames) /\ q \in Seq(PathNames) /\ r \in Seq(PathNames)
  BY LenProperties DEF Paths
<1>2. PICK i : First(p, q, i)
  BY LessIs
<1>3. PICK j : First(q, r, j)
  BY LessIs
<1>4. /\ i \in Nat /\ j \in Nat /\ 1 <= i /\ 1 <= j /\ i <= Len(p) + 1 /\ j <= Len(q) + 1
      /\ i <= Len(q) /\ j <= Len(r)
      /\ Agree(p, q, i - 1) /\ Agree(q, r, j - 1)
  BY <1>1, <1>2, <1>3 DEF First
<1>5. /\ i <= Len(p) => Package!Rank(p[i]) < Package!Rank(q[i])
      /\ j <= Len(q) => Package!Rank(q[j]) < Package!Rank(r[j])
  BY <1>1, <1>2, <1>3 DEF First
<1>6. CASE i < j
  <2>1. Agree(p, r, i - 1)
    BY <1>4, <1>6 DEF Agree
  <2>2. q[i] = r[i] /\ i <= Len(r)
    BY <1>1, <1>4, <1>6 DEF Agree
  <2>3. First(p, r, i)
    BY <1>1, <1>4, <1>5, <2>1, <2>2 DEF First
  <2> QED
    BY <2>3, LessIs
<1>7. CASE i = j
  <2>1. Agree(p, r, i - 1)
    BY <1>4, <1>7 DEF Agree
  <2>2. ASSUME i <= Len(p) PROVE Package!Rank(p[i]) < Package!Rank(r[i])
    <3>1. p[i] \in PathNames /\ q[i] \in PathNames /\ r[i] \in PathNames
      BY <1>1, <1>4, <1>7, <2>2, ElementOfSeq
    <3>2. /\ Package!Rank(p[i]) \in Nat /\ Package!Rank(q[i]) \in Nat
          /\ Package!Rank(r[i]) \in Nat
      BY <3>1, RankIs
    <3> QED
      BY <1>4, <1>5, <1>7, <2>2, <3>2
  <2>3. First(p, r, i)
    BY <1>1, <1>4, <1>7, <2>1, <2>2 DEF First
  <2> QED
    BY <2>3, LessIs
<1>8. CASE i > j
  <2>1. Agree(p, r, j - 1)
    BY <1>4, <1>8 DEF Agree
  <2>2. p[j] = q[j] /\ j <= Len(p) /\ j <= Len(q)
    BY <1>1, <1>4, <1>8 DEF Agree
  <2>3. First(p, r, j)
    BY <1>1, <1>4, <1>5, <2>1, <2>2 DEF First
  <2> QED
    BY <2>3, LessIs
<1> QED
  BY <1>4, <1>6, <1>7, <1>8

LEMMA LessTotal ==
  ASSUME NEW p \in Paths, NEW q \in Paths, p # q
  PROVE  Package!Less(p, q) \/ Package!Less(q, p)
<1>1. /\ Len(p) \in Nat /\ Len(q) \in Nat /\ p \in Seq(PathNames) /\ q \in Seq(PathNames)
  BY LenProperties DEF Paths
<1> DEFINE C == {k \in Nat \ {0} : k > Len(p) \/ k > Len(q) \/ p[k] # q[k]}
<1>2. Len(p) + 1 \in C
  BY <1>1
<1>3. PICK m \in C : \A d \in C : m <= d
  <2>1. C \in SUBSET Nat /\ C # {}
    BY <1>2
  <2> HIDE DEF C
  <2> QED
    BY <2>1, Least
<1>4. /\ m \in Nat /\ m >= 1 /\ m <= Len(p) + 1 /\ m <= Len(q) + 1
      /\ \A k \in 1..m - 1 : k <= Len(p) /\ k <= Len(q) /\ p[k] = q[k]
  <2>1. m \in Nat /\ m >= 1 /\ Len(q) + 1 \in C
    BY <1>1
  <2>2. ASSUME NEW k \in 1..m - 1 PROVE k <= Len(p) /\ k <= Len(q) /\ p[k] = q[k]
    <3>1. k \in Nat \ {0} /\ ~(m <= k)
      BY <2>1
    <3>2. k \notin C
      BY <1>3, <3>1
    <3> QED
      BY <1>1, <3>1, <3>2
  <2>3. m <= Len(p) + 1 /\ m <= Len(q) + 1
    BY <1>2, <1>3, <2>1
  <2> QED
    BY <2>1, <2>2, <2>3
<1>5. Agree(p, q, m - 1) /\ Agree(q, p, m - 1)
  BY <1>4 DEF Agree
<1>6. CASE m > Len(p) /\ m > Len(q)
  <2>1. Len(p) = Len(q) /\ \A k \in 1..Len(p) : p[k] = q[k]
    BY <1>1, <1>4, <1>6
  <2>2. p = q
    BY <1>1, <2>1, SeqEqual
  <2> QED
    BY <2>2
<1>7. CASE m > Len(p) /\ m <= Len(q)
  <2>1. First(p, q, m)
    BY <1>1, <1>4, <1>5, <1>7 DEF First
  <2> QED
    BY <2>1, LessIs
<1>8. CASE m > Len(q) /\ m <= Len(p)
  <2>1. First(q, p, m)
    BY <1>1, <1>4, <1>5, <1>8 DEF First
  <2> QED
    BY <2>1, LessIs
<1>9. CASE m <= Len(p) /\ m <= Len(q)
  <2>1. p[m] # q[m] /\ p[m] \in PathNames /\ q[m] \in PathNames
    <3>1. p[m] # q[m]
      BY <1>1, <1>4, <1>9
    <3> QED
      BY <1>1, <1>4, <1>9, <3>1, ElementOfSeq
  <2>2. /\ Package!Rank(p[m]) \in Nat /\ Package!Rank(q[m]) \in Nat
        /\ Package!Rank(p[m]) # Package!Rank(q[m])
    BY <2>1, RankIs
  <2>3. First(p, q, m) \/ First(q, p, m)
    BY <1>1, <1>4, <1>5, <1>9, <2>2 DEF First
  <2> QED
    BY <2>3, LessIs
<1> QED
  BY <1>1, <1>4, <1>6, <1>7, <1>8, <1>9

(* Payload has its own names for what is finite and how many there are. *)
LEMMA SameFinite ==
  ASSUME NEW S
  PROVE  /\ Package!Cardinality(S) = Cardinality(S)
         /\ Package!IsFiniteSet(S) <=> IsFiniteSet(S)
BY DEF Package!Cardinality, Cardinality, Package!IsFiniteSet, IsFiniteSet

(* How many come before p, in S. *)
Earlier(S, p) == {q \in S : Package!Less(q, p)}

LEMMA EarlierIs ==
  ASSUME NEW S, S \subseteq Paths, IsFiniteSet(S), NEW p \in S
  PROVE  /\ Cardinality(Earlier(S, p)) \in 0..Cardinality(S) - 1
         /\ \A q \in S : Package!Less(q, p) =>
              Cardinality(Earlier(S, q)) < Cardinality(Earlier(S, p))
<1>1. /\ Earlier(S, p) \in SUBSET S /\ p \notin Earlier(S, p)
      /\ IsFiniteSet(Earlier(S, p))
  BY LessIrreflexive, FS_Subset DEF Earlier
<1>2. /\ Cardinality(S) \in Nat /\ Cardinality(Earlier(S, p)) \in Nat
      /\ Cardinality(Earlier(S, p)) <= Cardinality(S)
      /\ Cardinality(Earlier(S, p)) # Cardinality(S)
  BY <1>1, FS_Subset, FS_CardinalityType
<1>3. ASSUME NEW q \in S, Package!Less(q, p)
      PROVE  Cardinality(Earlier(S, q)) < Cardinality(Earlier(S, p))
  <2>1. q \in Earlier(S, p) /\ q \notin Earlier(S, q)
    BY <1>3, LessIrreflexive DEF Earlier
  <2>2. Earlier(S, q) \in SUBSET Earlier(S, p)
    <3> SUFFICES ASSUME NEW r \in S, Package!Less(r, q) PROVE Package!Less(r, p)
      BY DEF Earlier
    <3> QED
      BY <1>3, LessTransitive
  <2>3. /\ IsFiniteSet(Earlier(S, q))
        /\ Cardinality(Earlier(S, q)) <= Cardinality(Earlier(S, p))
        /\ Cardinality(Earlier(S, q)) # Cardinality(Earlier(S, p))
    BY ONLY <1>1, <2>1, <2>2, FS_Subset
  <2> QED
    BY ONLY <1>1, <2>3, FS_CardinalityType
<1> QED
  BY <1>2, <1>3

(* Sorted lists the paths of a finite set once each, in order. *)
Lists(T, S) ==
  /\ T \in Seq(S) /\ Len(T) = Cardinality(S) /\ DOMAIN T = 1..Cardinality(S)
  /\ \A p \in S : \E i \in 1..Cardinality(S) : T[i] = p
  /\ \A i, j \in 1..Cardinality(S) : i < j => Package!Less(T[i], T[j])
  /\ \A i, j \in 1..Cardinality(S) : T[i] = T[j] => i = j

LEMMA SortedIs ==
  ASSUME NEW S, S \subseteq Paths, IsFiniteSet(S)
  PROVE  Lists(Package!Sorted(S), S)
<1> DEFINE N == Cardinality(S)
           f == [p \in S |-> Cardinality(Earlier(S, p)) + 1]
           T == Package!Sorted(S)
<1>1. N \in Nat
  BY FS_CardinalityType
<1>2. \A p, q \in S : Package!Less(q, p) => f[q] < f[p]
  BY EarlierIs
<1>3. f \in [S -> 1..N]
  BY <1>1, EarlierIs
<1>4. f \in Surjection(S, 1..N)
  <2>1. \A p, q \in S : f[p] = f[q] => p = q
    <3> SUFFICES ASSUME NEW p \in S, NEW q \in S, p # q PROVE f[p] # f[q]
      OBVIOUS
    <3>1. Package!Less(p, q) \/ Package!Less(q, p)
      BY LessTotal
    <3>2. f[p] \in Int /\ f[q] \in Int
      BY <1>1, <1>3
    <3>3. f[p] < f[q] \/ f[q] < f[p]
      BY <1>2, <3>1
    <3> HIDE DEF f
    <3> QED
      BY <3>2, <3>3
  <2> HIDE DEF f
  <2>2. f \in Injection(S, 1..N)
    BY <1>3, <2>1 DEF Injection, IsInjective
  <2>3. IsFiniteSet(1..N) /\ Cardinality(1..N) = N
    BY <1>1, FS_Interval
  <2> QED
    BY <2>2, <2>3, FS_Injection
<1>5. /\ T = [i \in 1..N |-> T[i]]
      /\ \A i \in 1..N : T[i] = CHOOSE p \in S : f[p] = i
  <2>1. T = [i \in 1..N |-> CHOOSE p \in S : Cardinality(Earlier(S, p)) = i - 1]
    <3>1. Package!Cardinality(S) = N
      BY SameFinite
    <3>2. ASSUME NEW i \in 1..N, NEW p \in S
          PROVE  Package!Cardinality({q \in S : Package!Less(q, p)}) = i - 1
                   <=> Cardinality(Earlier(S, p)) = i - 1
      BY SameFinite DEF Earlier
    <3>3. ASSUME NEW i \in 1..N
          PROVE  (CHOOSE p \in S : Package!Cardinality({q \in S : Package!Less(q, p)}) = i - 1)
                   = (CHOOSE p \in S : Cardinality(Earlier(S, p)) = i - 1)
      BY <3>2
    <3>4. T = [i \in 1..N |-> CHOOSE p \in S : Package!Cardinality({q \in S : Package!Less(q, p)}) = i - 1]
      BY <3>1, Zenon DEF Package!Sorted
    <3> QED
      BY <3>3, <3>4
  <2>2. ASSUME NEW i \in 1..N, NEW p \in S
        PROVE  Cardinality(Earlier(S, p)) = i - 1 <=> f[p] = i
    BY EarlierIs, <1>1
  <2>3. ASSUME NEW i \in 1..N
        PROVE  (CHOOSE p \in S : Cardinality(Earlier(S, p)) = i - 1) = (CHOOSE p \in S : f[p] = i)
    <3> HIDE DEF f
    <3> QED
      BY <2>2
  <2> DEFINE g(i) == CHOOSE p \in S : Cardinality(Earlier(S, p)) = i - 1
  <2> HIDE DEF f, T, g
  <2>4. T = [i \in 1..N |-> g(i)]
    BY <2>1 DEF g
  <2>5. \A i \in 1..N : T[i] = g(i)
    BY <2>4
  <2>6. T = [i \in 1..N |-> T[i]]
    BY <2>4, <2>5
  <2>7. \A i \in 1..N : T[i] = CHOOSE p \in S : f[p] = i
    BY <2>3, <2>5 DEF g
  <2> QED
    BY <2>6, <2>7
<1> HIDE DEF f, T
<1>6. \A i \in 1..N : T[i] \in S /\ f[T[i]] = i
  <2> SUFFICES ASSUME NEW i \in 1..N PROVE T[i] \in S /\ f[T[i]] = i
    OBVIOUS
  <2>1. \E p \in S : f[p] = i
    BY <1>4 DEF Surjection
  <2> QED
    BY <1>5, <2>1
<1>7. \A p \in S : f[p] \in 1..N /\ T[f[p]] = p
  <2>1. ASSUME NEW p \in S, NEW q \in S, f[p] = f[q] PROVE p = q
    BY <1>1, <1>2, <1>3, <2>1, LessTotal
  <2> QED
    BY <1>3, <1>6, <2>1
<1>8. ASSUME NEW i \in 1..N, NEW j \in 1..N, i < j PROVE Package!Less(T[i], T[j])
  <2>1. T[i] # T[j] /\ T[i] \in S /\ T[j] \in S
    BY <1>6, <1>8
  <2>2. ~Package!Less(T[j], T[i])
    BY <1>2, <1>6, <1>8
  <2> QED
    BY <2>1, <2>2, LessTotal
<1>9. T \in Seq(S) /\ Len(T) = N
  <2>1. T = [i \in 1..N |-> T[i]]
    BY <1>5
  <2>2. \A i \in 1..N : T[i] \in S
    BY <1>6
  <2>3. T \in [1..N -> S]
    BY ONLY <2>1, <2>2
  <2>4. T \in Seq(S)
    BY ONLY <1>1, <2>3
  <2> QED
    BY ONLY <1>1, <2>3, <2>4
<1>10. \A i, j \in 1..N : T[i] = T[j] => i = j
  BY <1>6
<1>11. DOMAIN T = 1..N
  BY ONLY <1>5
<1> QED
  BY <1>7, <1>8, <1>9, <1>10, <1>11 DEF Lists, T

-----------------------------------------------------------------------------
(* Payload: what files are called, and which the walk takes, whatever the  *)
(* directory and its metadata are called.                                  *)
(* What DescribeCode finds. *)
IsDescriptor(d) ==
  /\ d \in [Module : BOOLEAN, Source : {Root}, Path : {Root}, MetadataParent : Paths]
  /\ \/ d.MetadataParent = Root
     \/ /\ d.Module /\ Package!Under(Root, d.MetadataParent)
        /\ \A k \in 1..Len(d.MetadataParent) :
             d.MetadataParent[k] \notin Hidden \cup MetaLike

MetaOf(d) == d.MetadataParent \o <<"META-INF">>

LEMMA PartsAre ==
  /\ <<"src">> \in Paths /\ <<"META-INF">> \in Paths /\ Root \in Paths
  /\ Len(<<"src">>) = 1 /\ Len(<<"META-INF">>) = 1
  /\ <<"src">>[1] = "src" /\ <<"META-INF">>[1] = "META-INF"
  /\ "src" # "META-INF"
BY FilesAssumption, MetadataAssumption DEF PathNames, Paths

LEMMA DescriptorIs ==
  ASSUME NEW d, IsDescriptor(d)
  PROVE  /\ d.Source = Root /\ d.Path = Root /\ d.Module \in BOOLEAN
         /\ d.MetadataParent \in Paths /\ d.MetadataParent \in Seq(PathNames)
         /\ Root \in Paths /\ Root \in Seq(PathNames)
         /\ Len(d.MetadataParent) \in Nat /\ Len(Root) \in Nat
         /\ Len(Root) <= Len(d.MetadataParent)
         /\ Agree(Root, d.MetadataParent, Len(Root))
         /\ ~d.Module => d.MetadataParent = Root
<1>1. d.MetadataParent \in Paths /\ Root \in Paths
  BY PartsAre DEF IsDescriptor
<1>2. Len(d.MetadataParent) \in Nat /\ Len(Root) \in Nat
  BY <1>1, LenProperties DEF Paths
<1>3. /\ Len(Root) <= Len(d.MetadataParent)
      /\ Agree(Root, d.MetadataParent, Len(Root))
  <2>1. CASE d.MetadataParent = Root
    BY <1>2, <2>1 DEF Agree
  <2>2. CASE Package!Under(Root, d.MetadataParent)
    BY <1>1, <1>2, <2>2, StrictPrefixIs DEF Package!Under
  <2> QED
    BY <2>1, <2>2 DEF IsDescriptor
<1> QED
  BY <1>1, <1>2, <1>3 DEF IsDescriptor, Paths

LEMMA IsMetadataIs ==
  ASSUME NEW d, IsDescriptor(d), NEW p \in Paths
  PROVE  Package!isMetadata(d, p) <=>
           /\ Len(d.MetadataParent) < Len(p)
           /\ Agree(d.MetadataParent, p, Len(d.MetadataParent))
           /\ p[Len(d.MetadataParent) + 1] \in MetaLike
BY DescriptorIs, StrictPrefixIs DEF Package!isMetadata, Package!Under

LEMMA BelowMetaIs ==
  ASSUME NEW d, IsDescriptor(d), NEW p \in Paths
  PROVE  Package!Under(MetaOf(d), p) <=>
           /\ Len(d.MetadataParent) + 1 < Len(p)
           /\ Agree(d.MetadataParent, p, Len(d.MetadataParent))
           /\ p[Len(d.MetadataParent) + 1] = "META-INF"
<1>1. PICK m : m = d.MetadataParent
  OBVIOUS
<1>2. m \in Paths /\ Len(m) \in Nat
  BY <1>1, DescriptorIs
<1>3. /\ m \o <<"META-INF">> \in Paths /\ Len(m \o <<"META-INF">>) = Len(m) + 1
      /\ Agree(m \o <<"META-INF">>, m, Len(m))
      /\ (m \o <<"META-INF">>)[Len(m) + 1] = "META-INF"
  BY <1>2, PartsAre, JoinIs
<1>4. PICK w : w = m \o <<"META-INF">>
  OBVIOUS
<1>5. Package!Under(w, p) <=> Len(w) < Len(p) /\ Agree(w, p, Len(w))
  BY <1>3, <1>4, StrictPrefixIs DEF Package!Under
<1>6. /\ Len(w) = Len(m) + 1 /\ Agree(w, m, Len(m)) /\ w[Len(m) + 1] = "META-INF"
  BY <1>3, <1>4
<1>7. Agree(w, p, Len(w)) <=> Agree(m, p, Len(m)) /\ p[Len(m) + 1] = "META-INF"
  BY <1>2, <1>6 DEF Agree
<1> QED
  BY <1>1, <1>4, <1>5, <1>6, <1>7 DEF MetaOf

(* Metadata that is validated is in the directory called META-INF. *)
LEMMA ValidIs ==
  ASSUME NEW n \in Paths, Package!ValidateMetadataFile(n)
  PROVE  Len(n) >= 2 /\ n[1] = "META-INF"
<1>1. PICK i \in IndexDirs : Package!Under(<<"META-INF">> \o i, n)
  BY DEF Package!ValidateMetadataFile
<1>2. i \in Paths /\ Len(i) \in Nat /\ Len(n) \in Nat
  BY MetadataAssumption, LenProperties DEF Paths, PathNames
<1>3. PICK w : w = <<"META-INF">> \o i
  OBVIOUS
<1>4. w \in Paths /\ Len(w) = 1 + Len(i) /\ Agree(w, <<"META-INF">>, 1)
  BY <1>2, <1>3, PartsAre, JoinIs
<1>5. w[1] = "META-INF"
  BY <1>4, PartsAre DEF Agree
<1>6. Len(w) < Len(n) /\ Agree(w, n, Len(w))
  BY <1>1, <1>3, <1>4, StrictPrefixIs DEF Package!Under
<1> QED
  BY <1>2, <1>4, <1>5, <1>6 DEF Agree

(* What the walk takes. *)
Walked(d, p) ==
  /\ Package!Reached(d, p) /\ ~Package!Skipped(d, p)
  /\ Package!isMetadata(d, p) => Package!ValidateMetadataFile(Package!EntryName(d, p))

LEMMA WalkedMetaIs ==
  ASSUME NEW d, IsDescriptor(d), NEW p \in Paths, Walked(d, p)
  PROVE  Package!isMetadata(d, p) <=> Package!Under(MetaOf(d), p)
<1>1. PICK m : m = d.MetadataParent
  OBVIOUS
<1>2. m \in Paths /\ Len(m) \in Nat /\ Len(p) \in Nat
  BY <1>1, DescriptorIs, LenProperties DEF Paths
<1>3. ASSUME Package!isMetadata(d, p) PROVE Package!Under(MetaOf(d), p)
  <2>1. Len(m) < Len(p) /\ Agree(m, p, Len(m))
    BY <1>1, <1>3, IsMetadataIs
  <2>2. PICK n : n = Package!Rel(m, p)
    OBVIOUS
  <2>3. /\ n \in Paths /\ Len(n) = Len(p) - Len(m)
        /\ \A k \in 1..Len(p) - Len(m) : n[k] = p[Len(m) + k]
    BY <1>2, <2>1, <2>2, RelIs
  <2>4. Package!ValidateMetadataFile(n)
    BY <1>1, <1>3, <2>2 DEF Walked, Package!EntryName
  <2>5. Len(n) >= 2 /\ n[1] = "META-INF"
    BY <2>3, <2>4, ValidIs
  <2> QED
    BY <1>1, <1>2, <2>1, <2>3, <2>5, BelowMetaIs
<1>4. ASSUME Package!Under(MetaOf(d), p) PROVE Package!isMetadata(d, p)
  BY <1>1, <1>2, <1>4, BelowMetaIs, IsMetadataIs, MetadataAssumption
<1> QED
  BY <1>3, <1>4

(* The name that says where a file lies. *)
Below(d) == IF d.Module THEN Root ELSE <<>>
Called(d, p) ==
  IF Package!Under(MetaOf(d), p) THEN Package!Rel(d.MetadataParent, p)
  ELSE <<"src">> \o Package!Rel(Below(d), p)

LEMMA CalledIs ==
  ASSUME NEW d, IsDescriptor(d), NEW p \in Paths, p # <<>>,
         d.Module => Package!Under(Root, p)
  PROVE  /\ Called(d, p) \in Paths /\ Len(Called(d, p)) >= 2
         /\ Called(d, p)[1] =
              IF Package!Under(MetaOf(d), p) THEN "META-INF" ELSE "src"
<1>1. Len(p) \in Nat /\ Len(p) >= 1 /\ p \in Seq(PathNames)
  BY LenProperties, EmptySeq DEF Paths
<1>2. CASE Package!Under(MetaOf(d), p)
  <2>1. PICK m : m = d.MetadataParent
    OBVIOUS
  <2>2. m \in Paths /\ Len(m) \in Nat /\ Len(m) + 1 < Len(p) /\ p[Len(m) + 1] = "META-INF"
    BY <1>2, <2>1, DescriptorIs, BelowMetaIs
  <2>3. PICK n : n = Package!Rel(m, p)
    OBVIOUS
  <2>4. /\ n \in Paths /\ Len(n) = Len(p) - Len(m)
        /\ \A k \in 1..Len(p) - Len(m) : n[k] = p[Len(m) + k]
    BY <1>1, <2>2, <2>3, RelIs
  <2>5. n = Called(d, p)
    BY <1>2, <2>1, <2>3 DEF Called
  <2> QED
    BY <1>1, <1>2, <2>2, <2>4, <2>5
<1>3. CASE ~Package!Under(MetaOf(d), p)
  <2>1. PICK b : b = Below(d)
    OBVIOUS
  <2>2. b \in Paths /\ Len(b) \in Nat /\ Len(b) < Len(p)
    <3>1. CASE d.Module
      BY <2>1, <3>1, DescriptorIs, StrictPrefixIs DEF Below, Package!Under
    <3>2. CASE ~d.Module
      BY <1>1, <2>1, <3>2 DEF Below, Paths
    <3> QED
      BY <3>1, <3>2
  <2>3. PICK r : r = Package!Rel(b, p)
    OBVIOUS
  <2>4. r \in Paths /\ Len(r) = Len(p) - Len(b)
    BY <1>1, <2>2, <2>3, RelIs
  <2>5. PICK n : n = <<"src">> \o r
    OBVIOUS
  <2>6. n \in Paths /\ Len(n) = 1 + Len(r) /\ Agree(n, <<"src">>, 1)
    BY <2>4, <2>5, PartsAre, JoinIs
  <2>7. n[1] = "src"
    BY <2>6, PartsAre DEF Agree
  <2>8. n = Called(d, p)
    BY <1>3, <2>1, <2>3, <2>5 DEF Called
  <2> QED
    BY <1>1, <1>3, <2>2, <2>4, <2>6, <2>7, <2>8
<1> QED
  BY <1>2, <1>3

(* What is left of the root tells what lies below it. *)
LEMMA RelTells ==
  ASSUME NEW b \in Paths, NEW p \in Paths, NEW q \in Paths,
         Len(b) <= Len(p), Len(b) <= Len(q),
         Agree(b, p, Len(b)), Agree(b, q, Len(b)),
         Package!Rel(b, p) = Package!Rel(b, q)
  PROVE  p = q
<1>1. /\ Len(b) \in Nat /\ Len(p) \in Nat /\ Len(q) \in Nat
      /\ p \in Seq(PathNames) /\ q \in Seq(PathNames)
  BY LenProperties DEF Paths
<1>2. PICK r : r = Package!Rel(b, p)
  OBVIOUS
<1>3. /\ Len(r) = Len(p) - Len(b) /\ \A k \in 1..Len(p) - Len(b) : r[k] = p[Len(b) + k]
      /\ Len(r) = Len(q) - Len(b) /\ \A k \in 1..Len(q) - Len(b) : r[k] = q[Len(b) + k]
  BY <1>2, RelIs
<1>4. Len(p) = Len(q)
  BY <1>1, <1>3
<1>5. ASSUME NEW k \in 1..Len(p) PROVE p[k] = q[k]
  <2>1. CASE k <= Len(b)
    BY <1>1, <2>1 DEF Agree
  <2>2. CASE k > Len(b)
    <3>1. PICK j \in 1..Len(p) - Len(b) : k = Len(b) + j
      <4>1. k - Len(b) \in 1..Len(p) - Len(b) /\ k = Len(b) + (k - Len(b))
        BY <1>1, <2>2
      <4> QED
        BY <4>1
    <3> QED
      BY <1>3, <1>4, <3>1
  <2> QED
    BY <1>1, <2>1, <2>2
<1> QED
  BY <1>1, <1>4, <1>5, SeqEqual

LEMMA CalledTells ==
  ASSUME NEW d, IsDescriptor(d), NEW p \in Paths, NEW q \in Paths,
         p # <<>>, q # <<>>,
         d.Module => Package!Under(Root, p) /\ Package!Under(Root, q),
         Called(d, p) = Called(d, q)
  PROVE  p = q
<1>1. Package!Under(MetaOf(d), p) <=> Package!Under(MetaOf(d), q)
  BY CalledIs, PartsAre
<1>2. /\ Len(p) \in Nat /\ Len(q) \in Nat
      /\ Len(d.MetadataParent) \in Nat /\ d.MetadataParent \in Paths
  BY LenProperties, DescriptorIs DEF Paths
<1>3. CASE Package!Under(MetaOf(d), p)
  <2>1. Package!Rel(d.MetadataParent, p) = Package!Rel(d.MetadataParent, q)
    BY <1>1, <1>3 DEF Called
  <2>2. PICK m \in Paths : m = d.MetadataParent /\ Len(m) \in Nat
    BY <1>2
  <2>3. /\ Len(m) <= Len(p) /\ Len(m) <= Len(q)
        /\ Agree(m, p, Len(m)) /\ Agree(m, q, Len(m))
    BY <1>1, <1>2, <1>3, <2>2, BelowMetaIs
  <2> QED
    BY <2>1, <2>2, <2>3, RelTells
<1>4. CASE ~Package!Under(MetaOf(d), p)
  <2>1. PICK b : b = Below(d)
    OBVIOUS
  <2>2. /\ b \in Paths /\ Len(b) \in Nat /\ Len(b) <= Len(p) /\ Len(b) <= Len(q)
        /\ Agree(b, p, Len(b)) /\ Agree(b, q, Len(b))
    <3>1. CASE d.Module
      BY <1>2, <2>1, <3>1, DescriptorIs, StrictPrefixIs DEF Below, Package!Under
    <3>2. CASE ~d.Module
      BY <1>2, <2>1, <3>2 DEF Below, Paths, Agree
    <3> QED
      BY <3>1, <3>2
  <2>3. PICK r, s : r = Package!Rel(b, p) /\ s = Package!Rel(b, q)
    OBVIOUS
  <2>4. r \in Paths /\ s \in Paths
    BY <2>2, <2>3, RelIs
  <2>5. <<"src">> \o r = <<"src">> \o s
    BY <1>1, <1>4, <2>1, <2>3 DEF Called
  <2>6. r = s
    <3>1. /\ Len(r) \in Nat /\ Len(s) \in Nat /\ r \in Seq(PathNames) /\ s \in Seq(PathNames)
      BY <2>4, LenProperties DEF Paths
    <3>2. PICK x \in Paths : x = <<"src">> /\ Len(x) = 1
      BY PartsAre
    <3>3. x \o r = x \o s
      BY <2>5, <3>2
    <3>5. PICK w : w = x \o r
      OBVIOUS
    <3>6. /\ Len(w) = Len(x) + Len(r) /\ \A k \in 1..Len(r) : w[Len(x) + k] = r[k]
      BY <2>4, <3>5, JoinIs
    <3>7. /\ Len(w) = Len(x) + Len(s) /\ \A k \in 1..Len(s) : w[Len(x) + k] = s[k]
      BY <2>4, <3>3, <3>5, JoinIs
    <3>4. Len(r) = Len(s) /\ \A k \in 1..Len(r) : r[k] = s[k]
      BY <3>1, <3>2, <3>6, <3>7
    <3> QED
      BY <3>1, <3>4, SeqEqual
  <2> QED
    BY <2>2, <2>3, <2>6, RelTells
<1> QED
  BY <1>3, <1>4

(* In front of a path and of what is left of it below its beginning. *)
LEMMA JoinRel ==
  ASSUME NEW a \in Paths, NEW b \in Paths, NEW p \in Paths,
         Len(b) <= Len(p), Agree(b, p, Len(b))
  PROVE  (a \o b) \o Package!Rel(b, p) = a \o Package!Rel(<<>>, p)
<1>1. /\ Len(a) \in Nat /\ Len(b) \in Nat /\ Len(p) \in Nat /\ <<>> \in Paths
      /\ Len(<<>>) = 0
  BY LenProperties DEF Paths
<1>2. PICK r, s, ab, x, y :
        /\ r = Package!Rel(b, p) /\ s = Package!Rel(<<>>, p)
        /\ ab = a \o b /\ x = ab \o r /\ y = a \o s
  OBVIOUS
<1>3. /\ r \in Paths /\ Len(r) = Len(p) - Len(b)
      /\ \A k \in 1..Len(p) - Len(b) : r[k] = p[Len(b) + k]
  BY <1>2, RelIs
<1>4. PICK e \in Paths : e = <<>> /\ Len(e) = 0
  BY <1>1
<1>5. /\ s \in Paths /\ Len(s) = Len(p) /\ \A k \in 1..Len(p) : s[k] = p[k]
  <2>1. s = Package!Rel(e, p) /\ Len(e) <= Len(p)
    BY <1>1, <1>2, <1>4
  <2>2. /\ s \in Paths /\ Len(s) = Len(p) - Len(e)
        /\ \A k \in 1..Len(p) - Len(e) : s[k] = p[Len(e) + k]
    BY <2>1, RelIs
  <2> QED
    BY <1>1, <1>4, <2>2
<1>6. /\ ab \in Paths /\ Len(ab) = Len(a) + Len(b) /\ Agree(ab, a, Len(a))
      /\ \A k \in 1..Len(b) : ab[Len(a) + k] = b[k]
  BY <1>2, JoinIs
<1>7. /\ x \in Paths /\ Len(x) = Len(ab) + Len(r) /\ Agree(x, ab, Len(ab))
      /\ \A k \in 1..Len(r) : x[Len(ab) + k] = r[k]
  <2>1. x = ab \o r /\ ab \in Paths /\ r \in Paths
    BY <1>2, <1>3, <1>6
  <2> QED
    BY ONLY <2>1, JoinIs
<1>8. /\ y \in Paths /\ Len(y) = Len(a) + Len(s) /\ Agree(y, a, Len(a))
      /\ \A k \in 1..Len(s) : y[Len(a) + k] = s[k]
  BY <1>2, <1>5, JoinIs
<1>9. Len(x) = Len(y) /\ Len(x) = Len(a) + Len(p)
  BY <1>1, <1>3, <1>5, <1>6, <1>7, <1>8
<1>10. ASSUME NEW k \in 1..Len(x) PROVE x[k] = y[k]
  <2>1. CASE k <= Len(a)
    BY <1>1, <1>6, <1>7, <1>8, <2>1 DEF Agree
  <2>2. CASE k > Len(a) /\ k <= Len(ab)
    <3>1. PICK j \in 1..Len(b) : k = Len(a) + j
      <4>1. k - Len(a) \in 1..Len(b) /\ k = Len(a) + (k - Len(a))
        BY <1>1, <1>6, <2>2
      <4> QED
        BY <4>1
    <3>2. x[k] = b[j]
      BY <1>1, <1>6, <1>7, <2>2, <3>1 DEF Agree
    <3>3. y[k] = p[j]
      BY <1>1, <1>5, <1>8, <3>1
    <3> QED
      BY <3>1, <3>2, <3>3 DEF Agree
  <2>3. CASE k > Len(ab)
    <3>1. PICK j \in 1..Len(r) : k = Len(ab) + j
      <4>1. k - Len(ab) \in 1..Len(r) /\ k = Len(ab) + (k - Len(ab))
        BY <1>1, <1>3, <1>6, <1>7, <2>3
      <4> QED
        BY <4>1
    <3>2. x[k] = p[Len(b) + j]
      BY <1>3, <1>7, <3>1
    <3>3. Len(b) + j \in 1..Len(s) /\ k = Len(a) + (Len(b) + j)
      BY <1>1, <1>3, <1>5, <1>6, <3>1
    <3>4. y[k] = s[Len(b) + j] /\ s[Len(b) + j] = p[Len(b) + j]
      BY <1>5, <1>8, <3>3
    <3> QED
      BY <3>2, <3>4
  <2> QED
    BY <1>1, <1>6, <2>1, <2>2, <2>3
<1> QED
  <2>1. x \in Seq(PathNames) /\ y \in Seq(PathNames)
    BY <1>7, <1>8 DEF Paths
  <2>2. x = y
    BY <1>9, <1>10, <2>1, SeqEqual
  <2> QED
    BY <1>2, <2>2

LEMMA WalkedName ==
  ASSUME NEW d, IsDescriptor(d), NEW p \in Paths, Walked(d, p)
  PROVE  Package!EntryName(d, p) = Called(d, p) /\ Package!Under(Root, p)
<1>1. Package!Under(Root, p)
  BY DescriptorIs DEF Walked, Package!Reached
<1>2. CASE Package!isMetadata(d, p)
  BY <1>1, <1>2, WalkedMetaIs DEF Called, Package!EntryName
<1>3. CASE ~Package!isMetadata(d, p) /\ d.Module
  BY <1>1, <1>3, WalkedMetaIs, DescriptorIs DEF Called, Below, Package!EntryName
<1>4. CASE ~Package!isMetadata(d, p) /\ ~d.Module
  <2>1. Called(d, p) = <<"src">> \o Package!Rel(<<>>, p)
    BY <1>4, WalkedMetaIs DEF Called, Below
  <2>2. Package!EntryName(d, p) = (<<"src">> \o Root) \o Package!Rel(Root, p)
    BY <1>4, DescriptorIs DEF Package!EntryName
  <2>3. PICK a \in Paths : a = <<"src">>
    BY PartsAre
  <2>4. Root \in Paths /\ Len(Root) <= Len(p) /\ Agree(Root, p, Len(Root))
    BY <1>1, PartsAre, StrictPrefixIs, LenProperties DEF Package!Under, Paths
  <2>5. (a \o Root) \o Package!Rel(Root, p) = a \o Package!Rel(<<>>, p)
    BY <2>4, JoinRel
  <2> QED
    BY <1>1, <2>1, <2>2, <2>3, <2>5
<1> QED
  BY <1>2, <1>3, <1>4

(* The last name of what lies below. *)
LEMMA LastRel ==
  ASSUME NEW m \in Paths, NEW p \in Paths, Len(m) < Len(p)
  PROVE  Package!Last(Package!Rel(m, p)) = Package!Last(p)
<1>1. Len(m) \in Nat /\ Len(p) \in Nat
  BY LenProperties DEF Paths
<1>2. PICK r : r = Package!Rel(m, p)
  OBVIOUS
<1>3. /\ Len(r) = Len(p) - Len(m)
      /\ \A k \in 1..Len(p) - Len(m) : r[k] = p[Len(m) + k]
  BY <1>1, <1>2, RelIs
<1>4. r[Len(r)] = p[Len(m) + Len(r)] /\ Len(m) + Len(r) = Len(p)
  BY <1>1, <1>3
<1> QED
  BY <1>2, <1>4 DEF Package!Last

(* The walk reaches all metadata, and takes what is not hidden. *)
LEMMA MetaReached ==
  ASSUME NEW d, IsDescriptor(d), NEW p \in Paths, Package!Under(MetaOf(d), p)
  PROVE  /\ Package!Reached(d, p) /\ Package!isMetadata(d, p)
         /\ Package!Skipped(d, p) <=> Package!Last(p) \in Hidden
<1>1. PICK m : m = d.MetadataParent
  OBVIOUS
<1>2. /\ m \in Paths /\ Len(m) \in Nat /\ Len(p) \in Nat /\ Root \in Paths
      /\ Len(Root) \in Nat /\ Len(Root) <= Len(m) /\ Agree(Root, m, Len(Root))
  BY <1>1, DescriptorIs, LenProperties DEF Paths
<1>3. /\ Len(m) + 1 < Len(p) /\ Agree(m, p, Len(m)) /\ p[Len(m) + 1] = "META-INF"
  BY <1>1, BelowMetaIs
<1>4. Package!isMetadata(d, p)
  BY <1>1, <1>2, <1>3, IsMetadataIs, MetadataAssumption
<1>5. Package!Under(Root, p)
  <2>1. Len(Root) < Len(p) /\ Agree(Root, p, Len(Root))
    BY <1>2, <1>3 DEF Agree
  <2> QED
    BY <1>2, <2>1, StrictPrefixIs DEF Package!Under
<1>6. ASSUME NEW q \in Package!Above(p), Package!Under(Root, q)
      PROVE  Package!Entered(d, q)
  <2>1. q \in Paths /\ Len(q) \in 1..Len(p) - 1 /\ Agree(q, p, Len(q))
    BY <1>6, AboveIs
  <2>2. Len(Root) < Len(q)
    BY <1>2, <1>6, <2>1, StrictPrefixIs DEF Package!Under
  <2>3. CASE Len(q) > Len(m)
    <3>1. Agree(m, q, Len(m)) /\ q[Len(m) + 1] = "META-INF"
      BY <1>2, <1>3, <2>1, <2>3 DEF Agree
    <3>2. Package!isMetadata(d, q)
      BY <1>1, <1>2, <2>1, <2>3, <3>1, IsMetadataIs, MetadataAssumption
    <3> QED
      BY <3>2 DEF Package!Entered
  <2>4. CASE Len(q) <= Len(m)
    <3>1. q[Len(q)] = m[Len(q)]
      BY <1>2, <1>3, <2>1, <2>4 DEF Agree
    <3>2. m # Root
      BY <1>2, <2>1, <2>2, <2>4
    <3>3. d.Module /\ m[Len(q)] \notin Hidden
      BY <1>1, <1>2, <2>1, <2>4, <3>2 DEF IsDescriptor
    <3> QED
      BY <3>1, <3>3 DEF Package!Entered, Package!Last
  <2> QED
    BY <1>2, <2>1, <2>3, <2>4
<1> QED
  BY <1>4, <1>5, <1>6, DescriptorIs DEF Package!Reached, Package!Skipped

(* What the code of a directory is. *)
IsSource(d, p) ==
  /\ Package!Under(Root, p)
  /\ IF d.Module
     THEN \A i \in Len(Root) + 1..Len(p) - 1 : p[i] \notin Hidden
     ELSE Package!Dir(p) = Root /\ Package!Last(p) \notin {"go.mod", "go.sum"}

LEMMA OneBelow ==
  ASSUME NEW p \in Paths, Package!Under(Root, p)
  PROVE  /\ Package!Dir(p) = Root <=> Len(p) = Len(Root) + 1
         /\ Len(p) = Len(Root) + 1 => Package!Rel(Root, p) = <<Package!Last(p)>>
<1>1. /\ Root \in Paths /\ Len(Root) \in Nat /\ Len(p) \in Nat
      /\ Len(Root) < Len(p) /\ Agree(Root, p, Len(Root))
  BY PartsAre, StrictPrefixIs, LenProperties DEF Package!Under, Paths
<1>2. PICK f : f = Package!Dir(p)
  OBVIOUS
<1>3. f \in Paths /\ Len(f) = Len(p) - 1 /\ Agree(f, p, Len(p) - 1)
  BY <1>1, <1>2, DirIs
<1>4. ASSUME Len(p) = Len(Root) + 1 PROVE f = Root
  <2>1. Len(f) = Len(Root) /\ \A k \in 1..Len(f) : f[k] = Root[k]
    BY <1>1, <1>3, <1>4 DEF Agree
  <2>2. f \in Seq(PathNames) /\ Root \in Seq(PathNames)
    BY <1>1, <1>3 DEF Paths
  <2> QED
    BY <2>1, <2>2, SeqEqual
<1>5. ASSUME Len(p) = Len(Root) + 1 PROVE Package!Rel(Root, p) = <<Package!Last(p)>>
  <2>1. PICK r : r = Package!Rel(Root, p)
    OBVIOUS
  <2>6. /\ r \in Paths /\ Len(r) = Len(p) - Len(Root)
        /\ \A k \in 1..Len(p) - Len(Root) : r[k] = p[Len(Root) + k]
    BY <1>1, <2>1, RelIs
  <2>2. /\ r \in Paths /\ Len(r) = 1 /\ \A k \in 1..Len(p) - Len(Root) : r[k] = p[Len(Root) + k]
    BY <1>1, <1>5, <2>6
  <2>3. r[1] = p[Len(p)]
    BY <1>1, <1>5, <2>2
  <2>4. PICK x : x = p[Len(p)]
    OBVIOUS
  <2>5. r = <<x>>
    <3>1. r = [i \in 1..Len(r) |-> r[i]]
      BY <2>2 DEF Paths
    <3> QED
      BY <2>2, <2>3, <2>4, <3>1
  <2> QED
    BY <2>1, <2>4, <2>5 DEF Package!Last
<1> QED
  BY <1>1, <1>2, <1>3, <1>4, <1>5

LEMMA SourceTaken ==
  ASSUME NEW d, IsDescriptor(d), NEW p \in Paths, IsSource(d, p),
         ~(Package!isMetadata(d, p) /\ Package!Last(p) \in Hidden)
  PROVE  Package!Reached(d, p) /\ ~Package!Skipped(d, p)
<1>1. /\ Root \in Paths /\ Len(Root) \in Nat /\ Len(p) \in Nat
      /\ Package!Under(Root, p) /\ Len(Root) < Len(p)
  BY PartsAre, StrictPrefixIs, LenProperties DEF Package!Under, Paths, IsSource
<1>2. ASSUME NEW q \in Package!Above(p), Package!Under(Root, q)
      PROVE  Package!Entered(d, q)
  <2>1. q \in Paths /\ Len(q) \in 1..Len(p) - 1 /\ Agree(q, p, Len(q))
    BY <1>2, AboveIs
  <2>2. Len(Root) < Len(q)
    BY <1>1, <1>2, <2>1, StrictPrefixIs DEF Package!Under
  <2>3. d.Module
    BY <1>1, <2>1, <2>2, OneBelow DEF IsSource
  <2>4. p[Len(q)] \notin Hidden /\ q[Len(q)] = p[Len(q)]
    BY <1>1, <2>1, <2>2, <2>3 DEF IsSource, Agree
  <2> QED
    BY <2>3, <2>4 DEF Package!Entered, Package!Last
<1>3. ~Package!Skipped(d, p)
  <2>1. CASE Package!isMetadata(d, p)
    BY <2>1 DEF Package!Skipped
  <2>2. CASE d.Module /\ ~Package!isMetadata(d, p)
    BY <2>2 DEF Package!Skipped
  <2>3. CASE ~d.Module /\ ~Package!isMetadata(d, p)
    <3>1. Package!Rel(d.Source, p) = <<Package!Last(p)>>
      BY <1>1, <2>3, OneBelow, DescriptorIs DEF IsSource
    <3>2. Package!Last(p) # "go.mod" /\ Package!Last(p) # "go.sum"
      BY <2>3 DEF IsSource
    <3> QED
      BY <2>3, <3>1, <3>2 DEF Package!Skipped
  <2> QED
    BY <2>1, <2>2, <2>3
<1> QED
  BY <1>1, <1>2, <1>3, DescriptorIs DEF Package!Reached

LEMMA WalkedIs ==
  ASSUME NEW d, IsDescriptor(d), NEW p \in Paths, Walked(d, p)
  PROVE  IF Package!Under(MetaOf(d), p) THEN Package!Last(p) \notin Hidden
         ELSE IsSource(d, p) /\ ~Package!isMetadata(d, p)
<1>1. CASE Package!Under(MetaOf(d), p)
  BY <1>1, MetaReached DEF Walked
<1>2. CASE ~Package!Under(MetaOf(d), p)
  <2>1. ~Package!isMetadata(d, p)
    BY <1>2, WalkedMetaIs
  <2>2. PICK m : m = d.MetadataParent
    OBVIOUS
  <2>3. /\ Root \in Paths /\ Len(Root) \in Nat /\ Len(p) \in Nat
        /\ Package!Under(Root, p) /\ Len(Root) < Len(p) /\ Agree(Root, p, Len(Root))
        /\ m \in Paths /\ Len(m) \in Nat /\ Len(Root) <= Len(m)
    BY <2>2, PartsAre, WalkedName, StrictPrefixIs, DescriptorIs, LenProperties
       DEF Package!Under, Paths
  <2>4. ASSUME NEW i \in Len(Root) + 1..Len(p) - 1
        PROVE  d.Module /\ p[i] \notin Hidden
    <3>1. PICK q : q = SubSeq(p, 1, i)
      OBVIOUS
    <3>2. q \in Package!Above(p)
      BY <2>3, <3>1 DEF Package!Above
    <3>3. q \in Paths /\ Len(q) \in 1..Len(p) - 1 /\ Agree(q, p, Len(q))
      BY <3>2, AboveIs
    <3>4. Len(q) = i
      <4>1. \A j \in 1..i : p[j] \in PathNames
        BY <2>3, ElementOfSeq DEF Paths
      <4> QED
        BY <2>3, <3>1, <4>1, SubSeqProperties
    <3>5. Agree(Root, q, Len(Root)) /\ Len(Root) < Len(q)
      BY <2>3, <3>3, <3>4 DEF Agree
    <3>6. Package!Under(Root, q)
      BY <2>3, <3>3, <3>5, StrictPrefixIs DEF Package!Under
    <3>7. Package!Entered(d, q)
      BY <3>2, <3>6, DescriptorIs DEF Walked, Package!Reached
    <3>8. ~Package!isMetadata(d, q)
      <4> SUFFICES ASSUME Package!isMetadata(d, q) PROVE FALSE
        OBVIOUS
      <4>1. Len(m) < Len(q) /\ Agree(m, q, Len(m)) /\ q[Len(m) + 1] \in MetaLike
        BY <2>2, <3>3, IsMetadataIs
      <4>2. Len(m) < Len(p) /\ Agree(m, p, Len(m)) /\ p[Len(m) + 1] \in MetaLike
        BY <2>3, <3>3, <4>1 DEF Agree
      <4> QED
        BY <2>1, <2>2, <4>2, IsMetadataIs
    <3>9. q # Root
      BY <2>3, <3>4
    <3>10. d.Module /\ q[Len(q)] \notin Hidden
      BY <3>7, <3>8, <3>9, DescriptorIs DEF Package!Entered, Package!Last
    <3> QED
      BY <3>3, <3>4, <3>10 DEF Agree
  <2>5. ASSUME ~d.Module
        PROVE  Package!Dir(p) = Root /\ Package!Last(p) \notin {"go.mod", "go.sum"}
    <3>1. Len(p) = Len(Root) + 1
      BY <2>3, <2>4, <2>5
    <3>2. Package!Dir(p) = Root /\ Package!Rel(d.Source, p) = <<Package!Last(p)>>
      BY <2>3, <3>1, OneBelow, DescriptorIs
    <3>3. Package!Rel(d.Source, p) \notin {<<"go.mod">>, <<"go.sum">>}
      BY <2>1, <2>5 DEF Walked, Package!Skipped
    <3> QED
      BY <3>2, <3>3
  <2> QED
    BY <1>2, <2>1, <2>3, <2>4, <2>5 DEF IsSource
<1> QED
  BY <1>1, <1>2

LEMMA PutIs ==
  ASSUME NEW m, NEW w
  PROVE  /\ DOMAIN Package!Put(m, w) = DOMAIN m \cup DOMAIN w
         /\ \A n \in DOMAIN w : Package!Put(m, w)[n] = w[n]
         /\ \A n \in DOMAIN m \ DOMAIN w : Package!Put(m, w)[n] = m[n]
BY DEF Package!Put

LEMMA AboveFinite ==
  ASSUME NEW p \in Paths
  PROVE  IsFiniteSet(Package!Above(p)) /\ Package!Above(p) \subseteq Paths
<1>1. Package!Above(p) \subseteq Paths
  BY AboveIs
<1> DEFINE f == [n \in 1..Len(p) - 1 |-> SubSeq(p, 1, n)]
<1>2. f \in Surjection(1..Len(p) - 1, Package!Above(p))
  BY DEF Package!Above, Surjection
<1>3. Len(p) \in Nat
  BY LenProperties DEF Paths
<1>4. IsFiniteSet(1..Len(p) - 1)
  BY <1>3, FS_Interval
<1> HIDE DEF f
<1>5. IsFiniteSet(Package!Above(p))
  BY <1>2, <1>4, FS_Surjection
<1> QED
  BY <1>1, <1>5

LEMMA AboveTransitive ==
  ASSUME NEW p \in Paths, NEW q \in Package!Above(p), NEW r \in Package!Above(q)
  PROVE  r \in Package!Above(p)
<1>1. Len(p) \in Nat /\ q \in Paths /\ Len(q) \in 1..Len(p) - 1 /\ Agree(q, p, Len(q))
  BY AboveIs, LenProperties DEF Paths
<1>2. r \in Paths /\ Len(r) \in 1..Len(q) - 1 /\ Agree(r, q, Len(r))
  BY <1>1, AboveIs
<1>3. Len(r) \in 1..Len(p) - 1 /\ Agree(r, p, Len(r))
  BY <1>1, <1>2 DEF Agree
<1> QED
  BY <1>2, <1>3, AboveIs

LEMMA AboveTotal ==
  ASSUME NEW p \in Paths, NEW q \in Package!Above(p), NEW r \in Package!Above(p),
         Len(q) <= Len(r)
  PROVE  q = r \/ q \in Package!Above(r)
<1>1. /\ Len(p) \in Nat
      /\ q \in Paths /\ Len(q) \in 1..Len(p) - 1 /\ Agree(q, p, Len(q))
      /\ r \in Paths /\ Len(r) \in 1..Len(p) - 1 /\ Agree(r, p, Len(r))
  BY AboveIs, LenProperties DEF Paths
<1>2. Agree(q, r, Len(q))
  BY <1>1 DEF Agree
<1>3. CASE Len(q) = Len(r)
  BY <1>1, <1>2, <1>3, SeqEqual DEF Agree, Paths
<1>4. CASE Len(q) < Len(r)
  <2>1. Len(q) \in 1..Len(r) - 1
    BY <1>1, <1>4
  <2> QED
    BY <1>1, <1>2, <2>1, AboveIs
<1> QED
  BY <1>1, <1>3, <1>4

(* Directories with what is above them. *)
Closed(D) == \A q \in D : Package!Above(q) \subseteq D

(* The walk up may stop at the first directory that is known. *)
LEMMA AscendIs ==
  ASSUME NEW D, D \subseteq Paths, Closed(D), NEW p \in Paths,
         NEW E, E = D \cup Package!Ascend(D, p)
  PROVE  E = D \cup Package!Above(p) /\ Closed(E)
<1>1. Package!Above(p) \subseteq E
  <2> SUFFICES ASSUME NEW q \in Package!Above(p), q \notin D,
                      NEW r \in D \cap Package!Above(p)
               PROVE  Len(q) > Len(r)
    BY DEF Package!Ascend
  <2>1. q \in Paths /\ r \in Paths /\ Len(q) \in Nat /\ Len(r) \in Nat
    BY AboveIs, LenProperties DEF Paths
  <2>2. ASSUME Len(q) <= Len(r) PROVE FALSE
    <3>1. q = r \/ q \in Package!Above(r)
      BY <2>2, AboveTotal
    <3> QED
      BY <3>1 DEF Closed
  <2> QED
    BY <2>1, <2>2
<1>2. E = D \cup Package!Above(p)
  BY <1>1 DEF Package!Ascend
<1>3. Closed(E)
  <2> SUFFICES ASSUME NEW q \in E, NEW r \in Package!Above(q) PROVE r \in E
    BY DEF Closed
  <2>1. CASE q \in D
    BY <1>2, <2>1 DEF Closed
  <2>2. CASE q \in Package!Above(p)
    BY <1>2, <2>2, AboveTransitive
  <2> QED
    BY <1>2, <2>1, <2>2
<1> QED
  BY <1>2, <1>3

(* One file of a map with the name that says where it lies. *)
Taken(d, l, n, p) ==
  /\ p \in Paths \ {<<>>} /\ n = Called(d, p)
  /\ \/ Walked(d, p)
     \/ /\ p \in l /\ ~d.Module /\ Package!Last(p) \in GoFile
        /\ ~Package!Under(MetaOf(d), p)

LEMMA TakenIs ==
  ASSUME NEW d, IsDescriptor(d), NEW l, NEW n, NEW p, Taken(d, l, n, p)
  PROVE  /\ n \in Paths /\ Len(n) >= 2
         /\ n[1] = IF Package!Under(MetaOf(d), p) THEN "META-INF" ELSE "src"
         /\ n[1] = "META-INF" => Package!ValidateMetadataFile(n)
<1>1. p \in Paths /\ p # <<>> /\ n = Called(d, p)
  BY DEF Taken
<1>2. d.Module => Package!Under(Root, p)
  BY <1>1, WalkedName DEF Taken
<1>3. /\ n \in Paths /\ Len(n) >= 2
      /\ n[1] = IF Package!Under(MetaOf(d), p) THEN "META-INF" ELSE "src"
  BY <1>1, <1>2, CalledIs
<1>4. ASSUME Package!Under(MetaOf(d), p) PROVE Package!ValidateMetadataFile(n)
  <2>1. Walked(d, p)
    BY <1>4 DEF Taken
  <2>2. Package!EntryName(d, p) = n /\ Package!isMetadata(d, p)
    BY <1>1, <1>4, <2>1, WalkedName, MetaReached
  <2> QED
    BY <2>1, <2>2 DEF Walked
<1> QED
  BY <1>3, <1>4, PartsAre

LEMMA TakenTells ==
  ASSUME NEW d, IsDescriptor(d), NEW l, NEW n, NEW p, NEW q,
         Taken(d, l, n, p), Taken(d, l, n, q)
  PROVE  p = q
<1>1. /\ p \in Paths /\ p # <<>> /\ n = Called(d, p)
      /\ q \in Paths /\ q # <<>> /\ n = Called(d, q)
  BY DEF Taken
<1>2. d.Module => Package!Under(Root, p) /\ Package!Under(Root, q)
  BY <1>1, WalkedName DEF Taken
<1> QED
  BY <1>1, <1>2, CalledTells

(* The file of a name is not an index when the go command lists it. *)
LEMMA WalkedIndex ==
  ASSUME NEW d, IsDescriptor(d), NEW p \in Paths, Walked(d, p),
         Package!Under(MetaOf(d), p)
  PROVE  Package!Last(p) \in GoodIndex
<1>1. PICK m : m = d.MetadataParent
  OBVIOUS
<1>2. m \in Paths /\ Len(m) < Len(p)
  <2>1. m \in Paths /\ Len(m) \in Nat /\ Len(p) \in Nat /\ Len(m) + 1 < Len(p)
    BY <1>1, DescriptorIs, BelowMetaIs, LenProperties DEF Paths
  <2> QED
    BY <2>1
<1>3. Package!ValidateMetadataFile(Package!Rel(m, p))
  BY <1>1, MetaReached DEF Walked, Package!EntryName
<1>4. Package!Last(Package!Rel(m, p)) = Package!Last(p)
  BY <1>2, LastRel
<1> QED
  BY <1>3, <1>4 DEF Package!ValidateMetadataFile

-----------------------------------------------------------------------------
(* Payload: what holds throughout a call of GetDeploymentPayload.  Files   *)
(* come from the walk or from the go command, so a name of the map tells   *)
(* its file; what was to be walked is in the map or still ahead of the     *)
(* walk, and what is written is a beginning of what the maps will give.    *)
(* How far the call is: at one of the stages, or through with all of them. *)
Later(S) == pc \in S \/ result = "ok"

Known == files \cup gone

OnDisk == Known \in Trees /\ files \cap gone = {}

Staged ==
  /\ pc \in {"describe", "walk", "list", "merge", "directories", "files", "done"}
  /\ result \in {None, "ok", "error"} /\ (result # None <=> pc = "done")

AtStart ==
  /\ pc \in {"describe", "done"} /\ result # "ok"
  /\ cd = None /\ todo = <<>> /\ dists = Dist /\ needs = [d \in Dist |-> {}]
  /\ listed = {} /\ fileMap = <<>> /\ names = {} /\ dirMap = {} /\ payload = <<>>

Described ==
  /\ IsDescriptor(cd)
  /\ cd.MetadataParent = Root \/ \E p \in Known : cd.MetadataParent \in Package!Above(p)

Walking ==
  /\ todo \in Seq(Known)
  /\ \A i \in DOMAIN todo : Package!Reached(cd, todo[i])
  /\ Later({"list", "merge", "directories", "files"}) => todo = <<>>

(* Every platform done has what it needs listed, as long as it is there.   *)
Covered(d) ==
  \A q \in needs[d] \ Goroot :
    /\ \E p \in listed : Package!Dir(p) = q
    /\ \A p \in files : Package!Dir(p) = q /\ Package!Last(p) \in GoFile => p \in listed

Listing ==
  /\ dists \subseteq Dist /\ needs \in [Dist -> Needs \cup {{}}]
  /\ listed \subseteq Known
  /\ \A p \in listed :
       ~cd.Module /\ Package!Last(p) \in GoFile /\ ~Package!Under(MetaOf(cd), p)
  /\ \A d \in Dist \ dists : Covered(d)
  /\ pc = "list" => ~cd.Module
  /\ Later({"merge", "directories", "files"}) => cd.Module \/ dists = {}

InMap(m, p) == \E n \in DOMAIN m : m[n] = p

(* Files are in the map under their names, and none is lost on the way.    *)
Mapping ==
  /\ IsFiniteSet(DOMAIN fileMap)
  /\ \A n \in DOMAIN fileMap :
       fileMap[n] \in Known /\ Taken(cd, listed, n, fileMap[n])
  /\ \A p \in files : Package!Reached(cd, p) /\ ~Package!Skipped(cd, p) =>
       InMap(fileMap, p) \/ \E i \in DOMAIN todo : todo[i] = p
  /\ Later({"directories", "files"}) => \A p \in listed : InMap(fileMap, p)

Collecting ==
  /\ names \subseteq DOMAIN fileMap
  /\ dirMap \subseteq UNION {Package!Above(n) : n \in DOMAIN fileMap} /\ Closed(dirMap)
  /\ Later({"directories", "files"}) =>
       \A n \in DOMAIN fileMap \ names : Package!Above(n) \subseteq dirMap
  /\ Later({"files"}) => names = {}

DirEntry(q) ==
  [name |-> q, isDir |-> TRUE, mode |-> Package!DirMode, path |-> None]
FileEntry(m, n) ==
  [name |-> n, isDir |-> FALSE, mode |-> Package!FileMode, path |-> m[n]]

(* All directories in order, and the first k of the files. *)
WrittenTo(D, m, w, k) ==
  /\ w \in Seq({DirEntry(q) : q \in D} \cup {FileEntry(m, n) : n \in DOMAIN m})
  /\ k \in 0..Cardinality(DOMAIN m) /\ Len(w) = Cardinality(D) + k
  /\ \A i \in 1..Cardinality(D) : w[i] = DirEntry(Package!Sorted(D)[i])
  /\ \A i \in 1..k :
       w[Cardinality(D) + i] = FileEntry(m, Package!Sorted(DOMAIN m)[i])

Writing ==
  /\ payload = <<>> \/ \E k \in Nat : WrittenTo(dirMap, fileMap, payload, k)
  /\ Later({"files"}) => \E k \in Nat : WrittenTo(dirMap, fileMap, payload, k)
  /\ pc \notin {"files", "done"} => payload = <<>>
  /\ result = "ok" =>
       Len(payload) = Cardinality(dirMap) + Cardinality(DOMAIN fileMap)

(* What is known from DescribeCode on. *)
Underway ==
  /\ pc # "describe"
  /\ Described /\ Walking /\ Listing /\ Mapping /\ Collecting /\ Writing

(* The files a call began with are on disk or gone; it has nothing yet, or *)
(* what it has is right so far.                                            *)
PayloadInv == OnDisk /\ Staged /\ (AtStart \/ Underway)

LEMMA KnownIs ==
  ASSUME OnDisk
  PROVE  /\ IsFiniteSet(Known) /\ Known \subseteq Paths \ {<<>>} /\ None \notin Known
         /\ files \subseteq Known
<1>1. Package!IsFiniteSet(Known) /\ Known \subseteq Paths \ {<<>>}
  BY FilesAssumption DEF OnDisk, Paths, PathNames
<1>2. None \notin Known
  BY FilesAssumption DEF OnDisk
<1> QED
  BY <1>1, <1>2, SameFinite DEF Known

LEMMA StartsRight ==
  ASSUME Package!Init PROVE PayloadInv
<1>1. OnDisk
  BY DEF Package!Init, OnDisk, Known
<1>2. None # "ok" /\ None # "error"
  BY FilesAssumption
<1> QED
  BY <1>1, <1>2 DEF Package!Init, PayloadInv, Staged, AtStart

LEMMA FailKeeps ==
  ASSUME PayloadInv, Package!Fail PROVE PayloadInv'
<1>1. /\ pc' = "done" /\ result' = "error"
      /\ files' = files /\ gone' = gone /\ cd' = cd /\ todo' = todo /\ dists' = dists
      /\ needs' = needs /\ listed' = listed /\ fileMap' = fileMap /\ names' = names
      /\ dirMap' = dirMap /\ payload' = payload
  BY DEF Package!Fail, Package!disk, Package!walk, Package!deps, Package!dirs
<1>2. OnDisk' /\ Staged'
  <2>1. None # "error"
    BY FilesAssumption
  <2> QED
    BY <1>1, <2>1 DEF PayloadInv, OnDisk, Known, Staged
<1>3. CASE AtStart
  BY <1>1, <1>2, <1>3 DEF AtStart, PayloadInv
<1>4. CASE Underway
  <2>1. ~Later({"list", "merge", "directories", "files"})' /\ ~Later({"merge", "directories", "files"})'
        /\ ~Later({"directories", "files"})' /\ ~Later({"files"})'
    BY <1>1 DEF Later
  <2>2. Described'
    BY <1>1, <1>4 DEF Underway, Described, Known
  <2>3. Walking'
    BY <1>1, <1>4, <2>1 DEF Underway, Walking, Known
  <2>4. Listing'
    BY <1>1, <1>4, <2>1 DEF Underway, Listing, Known, Covered
  <2>5. Mapping'
    BY <1>1, <1>4, <2>1 DEF Underway, Mapping, Known
  <2>6. Collecting'
    BY <1>1, <1>4, <2>1 DEF Underway, Collecting
  <2>7. Writing'
    BY <1>1, <1>4, <2>1 DEF Underway, Writing
  <2> QED
    BY <1>1, <1>2, <2>2, <2>3, <2>4, <2>5, <2>6, <2>7 DEF PayloadInv, Underway
<1> QED
  BY <1>3, <1>4 DEF PayloadInv

LEMMA VanishKeeps ==
  ASSUME PayloadInv, NEW p \in files, Package!Vanish(p) PROVE PayloadInv'
<1>1. /\ files' = files \ {p} /\ gone' = gone \cup {p}
      /\ pc' = pc /\ result' = result /\ cd' = cd /\ todo' = todo /\ dists' = dists
      /\ needs' = needs /\ listed' = listed /\ fileMap' = fileMap /\ names' = names
      /\ dirMap' = dirMap /\ payload' = payload
  BY DEF Package!Vanish, Package!walk, Package!deps, Package!dirs
<1>2. Known' = Known
  BY <1>1 DEF Known
<1>3. OnDisk' /\ Staged'
  BY <1>1, <1>2 DEF PayloadInv, OnDisk, Staged
<1>4. CASE AtStart
  BY <1>1, <1>3, <1>4 DEF AtStart, PayloadInv
<1>5. CASE Underway
  <2>1. \A S : Later(S)' <=> Later(S)
    BY <1>1 DEF Later
  <2>2. Described'
    BY <1>1, <1>2, <1>5 DEF Underway, Described
  <2>3. Walking'
    BY <1>1, <1>2, <1>5 DEF Underway, Walking, Later
  <2>4. Listing'
    BY <1>1, <1>2, <1>5 DEF Underway, Listing, Covered, Later
  <2>5. Mapping'
    BY <1>1, <1>2, <1>5 DEF Underway, Mapping, Later
  <2>6. Collecting'
    BY <1>1, <1>5 DEF Underway, Collecting, Later
  <2>7. Writing'
    BY <1>1, <1>5 DEF Underway, Writing, Later
  <2> QED
    BY <1>1, <1>3, <1>5, <2>2, <2>3, <2>4, <2>5, <2>6, <2>7 DEF PayloadInv, Underway
<1> QED
  BY <1>4, <1>5 DEF PayloadInv

LEMMA NothingKeeps ==
  ASSUME PayloadInv, UNCHANGED Package!vars PROVE PayloadInv'
<1>1. /\ files' = files /\ gone' = gone
      /\ pc' = pc /\ result' = result /\ cd' = cd /\ todo' = todo /\ dists' = dists
      /\ needs' = needs /\ listed' = listed /\ fileMap' = fileMap /\ names' = names
      /\ dirMap' = dirMap /\ payload' = payload
  BY DEF Package!vars, Package!disk, Package!walk, Package!deps, Package!dirs
<1>2. OnDisk' = OnDisk /\ Staged' = Staged /\ AtStart' = AtStart
  BY <1>1 DEF OnDisk, Known, Staged, AtStart
<1>3. Described' = Described /\ Walking' = Walking /\ Listing' = Listing
  BY <1>1 DEF Described, Walking, Listing, Known, Covered, Later
<1>4. Mapping' = Mapping /\ Collecting' = Collecting /\ Writing' = Writing
  BY <1>1 DEF Mapping, Collecting, Writing, Known, Later
<1> QED
  BY <1>1, <1>2, <1>3, <1>4 DEF PayloadInv, Underway

(* DescribeCode finds a directory that is at the root or below it. *)
LEMMA FoundIs ==
  ASSUME OnDisk,
         NEW d \in [Module : {TRUE}, Source : {Root}, Path : {Root},
                    MetadataParent : {Root} \cup
                      {q \in UNION {Package!Above(p) : p \in files} :
                         /\ Package!Under(Root, q)
                         /\ Package!Range(q) \cap (Hidden \cup MetaLike) = {}}]
                   \cup {[Module |-> FALSE, Source |-> Root, Path |-> Root,
                          MetadataParent |-> Root]}
  PROVE  /\ IsDescriptor(d)
         /\ d.MetadataParent = Root \/ \E p \in Known : d.MetadataParent \in Package!Above(p)
<1>1. Root \in Paths
  BY PartsAre
<1>2. CASE d = [Module |-> FALSE, Source |-> Root, Path |-> Root, MetadataParent |-> Root]
  BY <1>1, <1>2 DEF IsDescriptor
<1>3. CASE d # [Module |-> FALSE, Source |-> Root, Path |-> Root, MetadataParent |-> Root]
  <2>1. PICK m : /\ d = [Module |-> TRUE, Source |-> Root, Path |-> Root, MetadataParent |-> m]
                 /\ \/ m = Root
                    \/ /\ \E p \in files : m \in Package!Above(p)
                       /\ Package!Under(Root, m)
                       /\ Package!Range(m) \cap (Hidden \cup MetaLike) = {}
    <3>1. PICK M : M = {q \in UNION {Package!Above(p) : p \in files} :
                          /\ Package!Under(Root, q)
                          /\ Package!Range(q) \cap (Hidden \cup MetaLike) = {}}
      OBVIOUS
    <3>2. PICK m \in {Root} \cup M :
            d = [Module |-> TRUE, Source |-> Root, Path |-> Root, MetadataParent |-> m]
      <4>1. d \in [Module : {TRUE}, Source : {Root}, Path : {Root},
                  MetadataParent : {Root} \cup M]
        BY <1>3, <3>1
      <4> QED
        BY <4>1
    <3>3. m # Root => /\ \E p \in files : m \in Package!Above(p)
                      /\ Package!Under(Root, m)
                      /\ Package!Range(m) \cap (Hidden \cup MetaLike) = {}
      BY <3>1, <3>2
    <3> QED
      BY <3>2, <3>3
  <2>2. CASE m = Root
    BY <1>1, <2>1, <2>2 DEF IsDescriptor
  <2>3. CASE m # Root
    <3>1. PICK p \in files : m \in Package!Above(p)
      BY <2>1, <2>3
    <3>2. p \in Known /\ p \in Paths
      BY KnownIs
    <3>3. m \in Paths
      BY <3>1, <3>2, AboveIs
    <3>4. \A k \in 1..Len(m) : m[k] \notin Hidden \cup MetaLike
      <4>1. DOMAIN m = 1..Len(m)
        BY <3>3 DEF Paths
      <4> QED
        BY <2>1, <2>3, <4>1 DEF Package!Range
    <3>5. d.Module = TRUE /\ d.MetadataParent = m
      BY <2>1
    <3>6. d \in [Module : BOOLEAN, Source : {Root}, Path : {Root}, MetadataParent : Paths]
      BY <2>1, <3>3
    <3> QED
      BY <2>1, <2>3, <3>1, <3>2, <3>4, <3>5, <3>6 DEF IsDescriptor
  <2> QED
    BY <2>2, <2>3
<1> QED
  BY <1>2, <1>3

LEMMA DescribeKeeps ==
  ASSUME PayloadInv, Package!DescribeCode PROVE PayloadInv'
<1>1. CASE Package!Fail
  BY <1>1, FailKeeps
<1>2. CASE ~Package!Fail
  <2>1. PICK d \in [Module : {TRUE}, Source : {Root}, Path : {Root},
                    MetadataParent : {Root} \cup
                      {q \in UNION {Package!Above(p) : p \in files} :
                         /\ Package!Under(Root, q)
                         /\ Package!Range(q) \cap (Hidden \cup MetaLike) = {}}]
                   \cup {[Module |-> FALSE, Source |-> Root, Path |-> Root,
                          MetadataParent |-> Root]} :
          /\ cd' = d
          /\ todo' = Package!Sorted({p \in files : Package!Reached(d, p)})
          /\ pc' = "walk"
          /\ UNCHANGED <<Package!disk, Package!deps, fileMap, Package!dirs, payload, result>>
    BY <1>2 DEF Package!DescribeCode
  <2>2. /\ pc = "describe" /\ files' = files /\ gone' = gone /\ dists' = dists
        /\ needs' = needs /\ listed' = listed /\ fileMap' = fileMap /\ names' = names
        /\ dirMap' = dirMap /\ payload' = payload /\ result' = result
    BY <1>2, <2>1 DEF Package!DescribeCode, Package!disk, Package!deps, Package!dirs
  <2>3. OnDisk /\ Staged /\ AtStart /\ Known' = Known
    BY <2>2 DEF PayloadInv, Underway, Known
  <2>4. OnDisk' /\ Staged' /\ result # "ok"
    BY <2>1, <2>2, <2>3 DEF OnDisk, Staged, AtStart
  <2>5. ~Later({"list", "merge", "directories", "files"})' /\ ~Later({"merge", "directories", "files"})'
        /\ ~Later({"directories", "files"})' /\ ~Later({"files"})'
    BY <2>1, <2>2, <2>4 DEF Later
  <2>6. Described'
    <3>1. /\ IsDescriptor(d)
          /\ d.MetadataParent = Root \/ \E p \in Known : d.MetadataParent \in Package!Above(p)
      BY <2>3, FoundIs
    <3> QED
      BY <2>1, <2>3, <3>1 DEF Described
  <2>7. PICK S : S = {p \in files : Package!Reached(d, p)}
    OBVIOUS
  <2>8. S \subseteq Paths /\ IsFiniteSet(S) /\ S \subseteq Known
    BY <2>3, <2>7, KnownIs, FS_Subset
  <2>9. /\ todo' \in Seq(S) /\ DOMAIN todo' = 1..Cardinality(S)
        /\ \A p \in S : \E i \in 1..Cardinality(S) : todo'[i] = p
    BY <2>1, <2>7, <2>8, SortedIs DEF Lists
  <2>10. Walking'
    <3>1. \A i \in DOMAIN todo' : todo'[i] \in S
      <4>1. PICK t : t = todo'
        OBVIOUS
      <4>2. t \in Seq(S) /\ DOMAIN t = 1..Len(t)
        BY <2>9, <4>1
      <4> QED
        BY <4>1, <4>2, ElementOfSeq
    <3>2. todo' \in Seq(Known)
      BY <2>8, <2>9
    <3> QED
      BY <2>1, <2>3, <2>5, <2>7, <3>1, <3>2 DEF Walking
  <2>11. Listing'
    BY <2>1, <2>2, <2>3, <2>5 DEF Listing, AtStart, Covered
  <2>12. Mapping'
    <3>1. DOMAIN fileMap' = {} /\ IsFiniteSet(DOMAIN fileMap')
      BY <2>2, <2>3, FS_EmptySet DEF AtStart
    <3> QED
      BY <2>1, <2>2, <2>5, <2>7, <2>9, <3>1 DEF Mapping
  <2>13. Collecting'
    BY <2>2, <2>3, <2>5 DEF Collecting, AtStart, Closed
  <2>14. Writing'
    BY <2>1, <2>2, <2>3, <2>4, <2>5 DEF Writing, AtStart
  <2> QED
    BY <2>1, <2>4, <2>6, <2>10, <2>11, <2>12, <2>13, <2>14 DEF PayloadInv, Underway
<1> QED
  BY <1>1, <1>2

LEMMA BusyIs ==
  ASSUME PayloadInv, pc \notin {"describe", "done"}
  PROVE  /\ OnDisk /\ Staged /\ Underway /\ result = None /\ result # "ok"
         /\ IsDescriptor(cd)
<1>1. None # "ok"
  BY FilesAssumption
<1> QED
  BY <1>1 DEF PayloadInv, Staged, AtStart, Underway, Described

(* Files put in a map under their names take nothing out of it. *)
LEMMA PutKeeps ==
  ASSUME NEW d, IsDescriptor(d), NEW l, NEW m, NEW w, NEW e, e = Package!Put(m, w),
         \A n \in DOMAIN m : Taken(d, l, n, m[n]),
         \A n \in DOMAIN w : Taken(d, l, n, w[n])
  PROVE  /\ \A n \in DOMAIN e : Taken(d, l, n, e[n]) /\ (InMap(m, e[n]) \/ InMap(w, e[n]))
         /\ \A p : InMap(m, p) \/ InMap(w, p) => InMap(e, p)
<1>1. /\ DOMAIN e = DOMAIN m \cup DOMAIN w
      /\ \A n \in DOMAIN w : e[n] = w[n]
      /\ \A n \in DOMAIN m \ DOMAIN w : e[n] = m[n]
  BY DEF Package!Put
<1>2. ASSUME NEW n \in DOMAIN e
      PROVE  Taken(d, l, n, e[n]) /\ (InMap(m, e[n]) \/ InMap(w, e[n]))
  BY <1>1 DEF InMap
<1>3. ASSUME NEW n \in DOMAIN m PROVE e[n] = m[n]
  <2>1. CASE n \in DOMAIN w
    <3>1. Taken(d, l, n, m[n]) /\ Taken(d, l, n, w[n])
      BY <2>1
    <3>2. m[n] = w[n]
      BY <3>1, TakenTells
    <3> QED
      BY <1>1, <2>1, <3>2
  <2> QED
    BY <1>1, <2>1
<1> QED
  BY <1>1, <1>2, <1>3 DEF InMap

LEMMA FindKeeps ==
  ASSUME PayloadInv, Package!findSource PROVE PayloadInv'
<1>1. CASE Package!Fail
  BY <1>1, FailKeeps
<1>2. CASE ~Package!Fail
  <2>1. pc = "walk" /\ todo # <<>>
    BY DEF Package!findSource
  <2>2. PICK p : p = Head(todo)
    OBVIOUS
  <2>3. /\ todo' = Tail(todo)
        /\ files' = files /\ gone' = gone /\ pc' = pc /\ cd' = cd /\ dists' = dists
        /\ needs' = needs /\ listed' = listed /\ names' = names
        /\ dirMap' = dirMap /\ payload' = payload /\ result' = result
    BY <1>2 DEF Package!findSource, Package!disk, Package!deps, Package!dirs
  <2>4. \/ (p \notin files \/ Package!Skipped(cd, p)) /\ fileMap' = fileMap
        \/ /\ p \in files /\ ~Package!Skipped(cd, p)
           /\ Package!isMetadata(cd, p) => Package!ValidateMetadataFile(Package!EntryName(cd, p))
           /\ fileMap' = Package!Put(fileMap, [n \in {Package!EntryName(cd, p)} |-> p])
    BY <1>2, <2>2 DEF Package!findSource
  <2>5. OnDisk /\ Staged /\ Underway /\ IsDescriptor(cd) /\ Known' = Known
    BY <2>1, <2>3, BusyIs DEF Known
  <2>6. OnDisk' /\ Staged' /\ result' # "ok"
    BY <2>1, <2>3, <2>5, BusyIs DEF OnDisk, Staged
  <2>7. ~Later({"list", "merge", "directories", "files"})' /\ ~Later({"merge", "directories", "files"})'
        /\ ~Later({"directories", "files"})' /\ ~Later({"files"})'
    BY <2>1, <2>3, <2>6 DEF Later
  <2>8. todo \in Seq(Known) /\ Len(todo) \in Nat /\ DOMAIN todo = 1..Len(todo)
    BY <2>5, LenProperties DEF Underway, Walking
  <2>9. /\ p \in Known /\ p = todo[1] /\ 1 \in DOMAIN todo
        /\ todo' \in Seq(Known) /\ Len(todo') = Len(todo) - 1
        /\ DOMAIN todo' = 1..Len(todo')
        /\ \A i \in 1..Len(todo') : todo'[i] = todo[i + 1]
    <3>1. Len(todo) >= 1
      BY <2>1, <2>8, EmptySeq
    <3> QED
      BY <2>1, <2>2, <2>3, <2>8, <3>1, HeadTailProperties
  <2>10. Package!Reached(cd, p) /\ p \in Paths \ {<<>>}
    BY <2>5, <2>9, KnownIs DEF Underway, Walking
  <2>11. Described'
    BY <2>3, <2>5 DEF Underway, Described
  <2>12. Walking'
    <3>1. \A i \in DOMAIN todo' : Package!Reached(cd, todo'[i])
      <4>1. \A i \in DOMAIN todo' : i + 1 \in DOMAIN todo
        BY <2>8, <2>9
      <4> QED
        BY <2>5, <2>9, <4>1 DEF Underway, Walking
    <3> QED
      BY <2>3, <2>5, <2>7, <2>9, <3>1 DEF Walking
  <2>13. Listing'
    BY <2>1, <2>3, <2>5, <2>7 DEF Underway, Listing, Covered
  <2>14. /\ IsFiniteSet(DOMAIN fileMap') /\ DOMAIN fileMap \subseteq DOMAIN fileMap'
         /\ \A n \in DOMAIN fileMap' :
              fileMap'[n] \in Known /\ Taken(cd, listed, n, fileMap'[n])
         /\ \A q : InMap(fileMap, q) => InMap(fileMap', q)
         /\ p \in files /\ ~Package!Skipped(cd, p) => InMap(fileMap', p)
    <3>1. /\ IsFiniteSet(DOMAIN fileMap)
          /\ \A n \in DOMAIN fileMap :
               fileMap[n] \in Known /\ Taken(cd, listed, n, fileMap[n])
      BY <2>5 DEF Underway, Mapping
    <3>2. CASE fileMap' = fileMap /\ (p \notin files \/ Package!Skipped(cd, p))
      BY <3>1, <3>2
    <3>3. CASE /\ p \in files /\ ~Package!Skipped(cd, p)
               /\ Package!isMetadata(cd, p) => Package!ValidateMetadataFile(Package!EntryName(cd, p))
               /\ fileMap' = Package!Put(fileMap, [n \in {Package!EntryName(cd, p)} |-> p])
      <4>1. Walked(cd, p)
        BY <2>10, <3>3 DEF Walked
      <4>2. PICK n : n = Package!EntryName(cd, p)
        OBVIOUS
      <4>3. Taken(cd, listed, n, p)
        BY <2>5, <2>10, <4>1, <4>2, WalkedName DEF Taken
      <4>4. PICK w : w = [x \in {n} |-> p]
        OBVIOUS
      <4>5. /\ DOMAIN w = {n} /\ w[n] = p /\ InMap(w, p)
            /\ \A q : InMap(w, q) => q = p
        BY <4>4 DEF InMap
      <4>6. PICK m, e : m = fileMap /\ e = fileMap'
        OBVIOUS
      <4>7. e = Package!Put(m, w) /\ DOMAIN e = DOMAIN m \cup DOMAIN w
        <5>1. e = Package!Put(m, w)
          BY <3>3, <4>2, <4>4, <4>6
        <5> QED
          BY <5>1, PutIs
      <4>8. /\ \A x \in DOMAIN m : Taken(cd, listed, x, m[x])
            /\ \A x \in DOMAIN w : Taken(cd, listed, x, w[x])
        BY <3>1, <4>3, <4>5, <4>6
      <4>9. /\ \A x \in DOMAIN e :
                 Taken(cd, listed, x, e[x]) /\ (InMap(m, e[x]) \/ InMap(w, e[x]))
            /\ \A q : InMap(m, q) \/ InMap(w, q) => InMap(e, q)
        BY <2>5, <4>7, <4>8, PutKeeps
      <4>10. IsFiniteSet(DOMAIN e)
        BY <3>1, <4>5, <4>6, <4>7, FS_AddElement
      <4>11. \A x \in DOMAIN e : e[x] \in Known
        BY <2>9, <3>1, <4>5, <4>6, <4>9 DEF InMap
      <4> QED
        BY <4>5, <4>6, <4>7, <4>9, <4>10, <4>11
    <3> QED
      BY <2>4, <3>2, <3>3
  <2>15. Mapping'
    <3>1. ASSUME NEW q \in files, Package!Reached(cd, q), ~Package!Skipped(cd, q)
          PROVE  InMap(fileMap', q) \/ \E i \in DOMAIN todo' : todo'[i] = q
      <4>1. InMap(fileMap, q) \/ \E i \in DOMAIN todo : todo[i] = q
        BY <2>5, <3>1 DEF Underway, Mapping
      <4>2. CASE InMap(fileMap, q)
        BY <2>14, <4>2
      <4>3. ASSUME NEW i \in DOMAIN todo, todo[i] = q
            PROVE  InMap(fileMap', q) \/ \E j \in DOMAIN todo' : todo'[j] = q
        <5>1. CASE i = 1
          BY <2>9, <2>14, <3>1, <4>3, <5>1
        <5>2. CASE i # 1
          <6>1. PICK j \in 1..Len(todo') : i = j + 1
            <7>1. i - 1 \in 1..Len(todo') /\ i = (i - 1) + 1
              BY <2>8, <2>9, <5>2
            <7> QED
              BY <7>1
          <6> QED
            BY <2>9, <4>3, <6>1
        <5> QED
          BY <5>1, <5>2
      <4> QED
        BY <4>1, <4>2, <4>3
    <3> QED
      BY <2>3, <2>5, <2>7, <2>14, <3>1 DEF Mapping
  <2>16. Collecting'
    BY <2>3, <2>5, <2>7, <2>14 DEF Underway, Collecting
  <2>17. Writing'
    BY <2>1, <2>3, <2>5, <2>6, <2>7 DEF Underway, Writing
  <2> QED
    BY <2>1, <2>3, <2>6, <2>11, <2>12, <2>13, <2>15, <2>16, <2>17 DEF PayloadInv, Underway
<1> QED
  BY <1>1, <1>2

LEMMA WalkDoneKeeps ==
  ASSUME PayloadInv, Package!WalkDone PROVE PayloadInv'
<1>1. /\ pc = "walk" /\ todo = <<>> /\ pc' = IF cd.Module THEN "merge" ELSE "list"
      /\ files' = files /\ gone' = gone /\ cd' = cd /\ todo' = todo /\ dists' = dists
      /\ needs' = needs /\ listed' = listed /\ fileMap' = fileMap /\ names' = names
      /\ dirMap' = dirMap /\ payload' = payload /\ result' = result
  BY DEF Package!WalkDone, Package!disk, Package!walk, Package!deps, Package!dirs
<1>2. OnDisk /\ Staged /\ Underway /\ Known' = Known /\ result # "ok"
  BY <1>1, BusyIs DEF Known
<1>3. OnDisk' /\ Staged'
  BY <1>1, <1>2, BusyIs DEF OnDisk, Staged
<1>4. ~Later({"directories", "files"})' /\ ~Later({"files"})'
  BY <1>1, <1>2 DEF Later
<1>5. Described' /\ Walking'
  BY <1>1, <1>2 DEF Underway, Described, Walking, Later
<1>6. Listing'
  BY <1>1, <1>2 DEF Underway, Listing, Covered, Later
<1>7. Mapping'
  BY <1>1, <1>2, <1>4 DEF Underway, Mapping
<1>8. Collecting'
  BY <1>1, <1>2, <1>4 DEF Underway, Collecting
<1>9. Writing'
  BY <1>1, <1>2, <1>4 DEF Underway, Writing
<1> QED
  BY <1>1, <1>3, <1>5, <1>6, <1>7, <1>8, <1>9 DEF PayloadInv, Underway

(* What the go command lists is no metadata: the walk would have had to    *)
(* take it, and it is no index.                                            *)
LEMMA ListedNoMeta ==
  ASSUME OnDisk, Underway, pc = "list", NEW p \in files, Package!Last(p) \in GoFile
  PROVE  ~Package!Under(MetaOf(cd), p)
<1> SUFFICES ASSUME Package!Under(MetaOf(cd), p) PROVE FALSE
  OBVIOUS
<1>1. IsDescriptor(cd) /\ p \in Paths /\ todo = <<>>
  BY KnownIs DEF Underway, Described, Walking, Later
<1>2. Package!Last(p) \notin Hidden /\ Package!Last(p) \notin GoodIndex
  BY ListedAssumption
<1>3. Package!Reached(cd, p) /\ ~Package!Skipped(cd, p)
  BY <1>1, <1>2, MetaReached
<1>4. PICK n \in DOMAIN fileMap : fileMap[n] = p
  BY <1>1, <1>3 DEF Underway, Mapping, InMap
<1>5. Walked(cd, p)
  BY <1>4 DEF Underway, Mapping, Taken
<1> QED
  BY <1>1, <1>2, <1>5, WalkedIndex

LEMMA ListKeeps ==
  ASSUME PayloadInv, NEW d \in dists, Package!ListDeps(d) PROVE PayloadInv'
<1>1. CASE Package!Fail
  BY <1>1, FailKeeps
<1>2. CASE ~Package!Fail
  <2>1. PICK S \in Needs :
          /\ \A q \in ({cd.Path} \cup S) \ Goroot : Package!PackageFiles(q) # {}
          /\ needs' = [needs EXCEPT ![d] = S]
          /\ listed' = listed \cup UNION {Package!PackageFiles(q) : q \in ({cd.Path} \cup S) \ Goroot}
          /\ dists' = dists \ {d}
          /\ pc' = IF dists' = {} THEN "merge" ELSE "list"
          /\ UNCHANGED <<Package!disk, Package!walk, fileMap, Package!dirs, payload, result>>
    BY <1>2 DEF Package!ListDeps, Package!AppendInfo
  <2>2. /\ pc = "list" /\ files' = files /\ gone' = gone /\ cd' = cd /\ todo' = todo
        /\ fileMap' = fileMap /\ names' = names
        /\ dirMap' = dirMap /\ payload' = payload /\ result' = result
    BY <2>1 DEF Package!ListDeps, Package!disk, Package!walk, Package!dirs
  <2>3. OnDisk /\ Staged /\ Underway /\ Known' = Known /\ result # "ok" /\ ~cd.Module
    BY <2>2, BusyIs DEF Known, Underway, Listing
  <2>4. OnDisk' /\ Staged'
    BY <2>1, <2>2, <2>3, BusyIs DEF OnDisk, Staged
  <2>5. ~Later({"directories", "files"})' /\ ~Later({"files"})'
    BY <2>1, <2>2, <2>3 DEF Later
  <2>6. Described' /\ Walking'
    BY <2>1, <2>2, <2>3 DEF Underway, Described, Walking, Later
  <2>7. /\ listed \subseteq listed'
        /\ \A p \in listed' : p \in listed \/ (p \in files /\ Package!Last(p) \in GoFile)
        /\ \A q \in S \ Goroot :
             /\ \E p \in listed' : Package!Dir(p) = q
             /\ \A p \in files : Package!Dir(p) = q /\ Package!Last(p) \in GoFile => p \in listed'
    <3>1. \A q, p : p \in Package!PackageFiles(q) <=>
                      p \in files /\ Package!Dir(p) = q /\ Package!Last(p) \in GoFile
      BY DEF Package!PackageFiles
    <3>2. \A q \in S \ Goroot : Package!PackageFiles(q) \subseteq listed'
                                 /\ Package!PackageFiles(q) # {}
      BY <2>1
    <3>3. \A p \in listed' : p \in listed \/ \E q : p \in Package!PackageFiles(q)
      BY <2>1
    <3> QED
      BY <2>1, <3>1, <3>2, <3>3
  <2>8. Listing'
    <3>1. dists' \subseteq Dist /\ needs' \in [Dist -> Needs \cup {{}}] /\ listed' \subseteq Known
      BY <2>1, <2>3, <2>7, KnownIs DEF Underway, Listing
    <3>2. \A p \in listed' :
            ~cd.Module /\ Package!Last(p) \in GoFile /\ ~Package!Under(MetaOf(cd), p)
      BY <2>2, <2>3, <2>7, ListedNoMeta DEF Underway, Listing
    <3>3. ASSUME NEW e \in Dist \ dists' PROVE Covered(e)'
      <4>1. CASE e = d
        <5>1. needs'[e] = S
          BY <2>1, <2>3, <4>1 DEF Underway, Listing
        <5> QED
          BY <2>2, <2>7, <5>1 DEF Covered
      <4>2. CASE e # d
        <5>1. needs'[e] = needs[e] /\ Covered(e)
          BY <2>1, <2>3, <4>2 DEF Underway, Listing
        <5> QED
          BY <2>2, <2>7, <5>1 DEF Covered
      <4> QED
        BY <4>1, <4>2
    <3>4. Later({"merge", "directories", "files"})' => dists' = {}
      BY <2>1, <2>2, <2>3 DEF Later
    <3> QED
      BY <2>2, <2>3, <3>1, <3>2, <3>3, <3>4 DEF Listing
  <2>9. Mapping'
    BY <2>2, <2>3, <2>5, <2>7 DEF Underway, Mapping, Taken
  <2>10. Collecting'
    BY <2>2, <2>3, <2>5 DEF Underway, Collecting
  <2>11. Writing'
    BY <2>1, <2>2, <2>3, <2>5 DEF Underway, Writing
  <2> QED
    BY <2>1, <2>4, <2>6, <2>8, <2>9, <2>10, <2>11 DEF PayloadInv, Underway
<1> QED
  BY <1>1, <1>2

(* The name of a file that is listed. *)
LEMMA SrcIs ==
  ASSUME NEW p \in Paths
  PROVE  Tail(<<"src">> \o p) = p /\ Package!Rel(<<>>, p) = p
<1>1. Len(p) \in Nat /\ p \in Seq(PathNames)
  BY LenProperties DEF Paths
<1>2. PICK x \in Paths : x = <<"src">> /\ Len(x) = 1
  BY PartsAre
<1>3. PICK w : w = x \o p
  OBVIOUS
<1>4. /\ w \in Paths /\ Len(w) = Len(x) + Len(p) /\ \A k \in 1..Len(p) : w[Len(x) + k] = p[k]
  BY <1>3, JoinIs
<1>5. Tail(w) = p
  <2>1. w \in Seq(PathNames) /\ w # <<>>
    BY <1>1, <1>2, <1>4, EmptySeq DEF Paths
  <2>2. /\ Tail(w) \in Seq(PathNames) /\ Len(Tail(w)) = Len(w) - 1
        /\ \A i \in 1..Len(Tail(w)) : Tail(w)[i] = w[i + 1]
    BY <2>1, HeadTailProperties
  <2>3. Len(Tail(w)) = Len(p) /\ \A i \in 1..Len(p) : Tail(w)[i] = p[i]
    BY <1>1, <1>2, <1>4, <2>2
  <2> QED
    BY <1>1, <2>2, <2>3, SeqEqual
<1>6. Package!Rel(<<>>, p) = p
  <2>6. <<>> \in Paths /\ Len(<<>>) = 0
    BY EmptySeq DEF Paths
  <2>1. PICK e \in Paths : e = <<>> /\ Len(e) = 0
    BY <2>6
  <2>2. PICK r : r = Package!Rel(e, p)
    OBVIOUS
  <2>3. /\ r \in Paths /\ Len(r) = Len(p) - Len(e)
        /\ \A k \in 1..Len(p) - Len(e) : r[k] = p[Len(e) + k]
    <3>1. Len(e) <= Len(p)
      BY <1>1, <2>1
    <3> QED
      BY <2>2, <3>1, RelIs
  <2>4. r \in Seq(PathNames) /\ Len(r) = Len(p) /\ \A k \in 1..Len(p) : r[k] = p[k]
    BY <1>1, <2>1, <2>3 DEF Paths
  <2>5. r = p
    BY <1>1, <2>4, SeqEqual
  <2> QED
    BY <2>1, <2>2, <2>5
<1> QED
  BY <1>2, <1>3, <1>5, <1>6

LEMMA MergeKeeps ==
  ASSUME PayloadInv, Package!Merge PROVE PayloadInv'
<1>1. /\ pc = "merge" /\ pc' = "directories"
      /\ fileMap' = Package!Put(fileMap, [n \in {<<"src">> \o p : p \in listed} |-> Tail(n)])
      /\ names' = DOMAIN fileMap'
      /\ files' = files /\ gone' = gone /\ cd' = cd /\ todo' = todo /\ dists' = dists
      /\ needs' = needs /\ listed' = listed
      /\ dirMap' = dirMap /\ payload' = payload /\ result' = result
  BY DEF Package!Merge, Package!disk, Package!walk, Package!deps
<1>2. /\ OnDisk /\ Staged /\ Underway /\ Known' = Known /\ result # "ok"
      /\ IsDescriptor(cd)
  BY <1>1, BusyIs DEF Known
<1>3. OnDisk' /\ Staged'
  BY <1>1, <1>2, BusyIs DEF OnDisk, Staged
<1>4. ~Later({"files"})' /\ todo = <<>>
  BY <1>1, <1>2 DEF Later, Underway, Walking
<1>5. Described' /\ Walking'
  BY <1>1, <1>2, <1>4 DEF Underway, Described, Walking, Later
<1>6. Listing'
  BY <1>1, <1>2 DEF Underway, Listing, Covered, Later
<1>7. /\ listed \subseteq Known /\ IsFiniteSet(listed)
      /\ \A p \in listed :
           /\ p \in Paths \ {<<>>} /\ ~cd.Module /\ Package!Last(p) \in GoFile
           /\ ~Package!Under(MetaOf(cd), p)
  BY <1>2, KnownIs, FS_Subset DEF Underway, Listing
<1>8. PICK m, w, e :
        /\ m = fileMap /\ e = fileMap'
        /\ w = [n \in {<<"src">> \o p : p \in listed} |-> Tail(n)]
  OBVIOUS
<1>9. e = Package!Put(m, w) /\ DOMAIN e = DOMAIN m \cup DOMAIN w
  <2>1. e = Package!Put(m, w)
    BY <1>1, <1>8
  <2> QED
    BY <2>1, PutIs
<1>10. /\ DOMAIN w = {<<"src">> \o p : p \in listed}
       /\ \A p \in listed : w[<<"src">> \o p] = p
  BY <1>7, <1>8, SrcIs
<1>11. IsFiniteSet(DOMAIN w)
  <2> DEFINE f == [p \in listed |-> <<"src">> \o p]
  <2>1. f \in Surjection(listed, DOMAIN w)
    BY <1>10 DEF Surjection
  <2> HIDE DEF f
  <2> QED
    BY <1>7, <2>1, FS_Surjection
<1>12. ASSUME NEW p \in listed PROVE Taken(cd, listed, <<"src">> \o p, p)
  <2>1. Called(cd, p) = <<"src">> \o p
    BY <1>7, SrcIs DEF Called, Below
  <2> QED
    BY <1>7, <2>1 DEF Taken
<1>13. \A n \in DOMAIN m : Taken(cd, listed, n, m[n]) /\ m[n] \in Known
  BY <1>2, <1>8 DEF Underway, Mapping
<1>22. ASSUME NEW n \in DOMAIN w PROVE Taken(cd, listed, n, w[n]) /\ w[n] \in listed
  <2>1. PICK p \in listed : n = <<"src">> \o p
    BY <1>10
  <2>2. w[n] = p
    BY <1>10, <2>1
  <2>3. Taken(cd, listed, n, p)
    BY <1>12, <2>1
  <2> QED
    BY <2>2, <2>3
<1>14. /\ \A n \in DOMAIN e : Taken(cd, listed, n, e[n]) /\ (InMap(m, e[n]) \/ InMap(w, e[n]))
       /\ \A p : InMap(m, p) \/ InMap(w, p) => InMap(e, p)
  <2>1. /\ IsDescriptor(cd) /\ e = Package!Put(m, w)
        /\ \A n \in DOMAIN m : Taken(cd, listed, n, m[n])
        /\ \A n \in DOMAIN w : Taken(cd, listed, n, w[n])
    BY <1>2, <1>9, <1>13, <1>22
  <2> QED
    BY ONLY <2>1, PutKeeps
<1>15. \A n \in DOMAIN e : e[n] \in Known
  BY <1>7, <1>13, <1>14, <1>22 DEF InMap
<1>16. IsFiniteSet(DOMAIN e)
  <2>1. IsFiniteSet(DOMAIN m)
    BY <1>2, <1>8 DEF Underway, Mapping
  <2> QED
    BY <1>9, <1>11, <2>1, FS_Union
<1>17. \A p \in listed : InMap(e, p)
  BY <1>10, <1>14 DEF InMap
<1>18. \A p \in files : Package!Reached(cd, p) /\ ~Package!Skipped(cd, p) => InMap(e, p)
  <2>1. \A p \in files : Package!Reached(cd, p) /\ ~Package!Skipped(cd, p) => InMap(m, p)
    BY <1>2, <1>4, <1>8 DEF Underway, Mapping
  <2> QED
    BY <1>14, <2>1
<1>19. Mapping'
  BY <1>1, <1>2, <1>8, <1>14, <1>15, <1>16, <1>17, <1>18 DEF Mapping
<1>20. Collecting'
  <2>1. DOMAIN fileMap \subseteq DOMAIN fileMap'
    BY <1>8, <1>9
  <2> QED
    BY <1>1, <1>2, <1>4, <2>1 DEF Underway, Collecting
<1>21. Writing'
  BY <1>1, <1>2, <1>4 DEF Underway, Writing
<1> QED
  BY <1>1, <1>3, <1>5, <1>6, <1>19, <1>20, <1>21 DEF PayloadInv, Underway

LEMMA SetsAre ==
  ASSUME OnDisk, Underway
  PROVE  /\ DOMAIN fileMap \subseteq Paths /\ IsFiniteSet(DOMAIN fileMap)
         /\ dirMap \subseteq Paths /\ IsFiniteSet(dirMap)
         /\ Cardinality(dirMap) \in Nat /\ Cardinality(DOMAIN fileMap) \in Nat
         /\ Package!Cardinality(dirMap) = Cardinality(dirMap)
         /\ Package!Cardinality(DOMAIN fileMap) = Cardinality(DOMAIN fileMap)
<1>1. DOMAIN fileMap \subseteq Paths /\ IsFiniteSet(DOMAIN fileMap)
  BY TakenIs DEF Underway, Mapping, Described
<1> DEFINE A == {Package!Above(n) : n \in DOMAIN fileMap}
           f == [n \in DOMAIN fileMap |-> Package!Above(n)]
<1>2. f \in Surjection(DOMAIN fileMap, A)
  BY DEF Surjection
<1>3. (\A T \in A : IsFiniteSet(T)) /\ UNION A \subseteq Paths
  BY <1>1, AboveFinite
<1>4. dirMap \subseteq UNION A
  BY DEF Underway, Collecting
<1> HIDE DEF f, A
<1>5. IsFiniteSet(A)
  BY <1>1, <1>2, FS_Surjection
<1>6. IsFiniteSet(UNION A)
  BY <1>3, <1>5, FS_UNION
<1>7. dirMap \subseteq Paths /\ IsFiniteSet(dirMap)
  BY <1>3, <1>4, <1>6, FS_Subset
<1> QED
  BY <1>1, <1>7, FS_CardinalityType, SameFinite

LEMMA CollectKeeps ==
  ASSUME PayloadInv, NEW n \in names, Package!CollectDirs(n) PROVE PayloadInv'
<1>1. /\ pc = "directories" /\ names' = names \ {n}
      /\ dirMap' = dirMap \cup Package!Ascend(dirMap, n)
      /\ files' = files /\ gone' = gone /\ cd' = cd /\ todo' = todo /\ dists' = dists
      /\ needs' = needs /\ listed' = listed /\ pc' = pc
      /\ fileMap' = fileMap /\ payload' = payload /\ result' = result
  BY DEF Package!CollectDirs, Package!disk, Package!walk, Package!deps
<1>2. OnDisk /\ Staged /\ Underway /\ Known' = Known /\ result # "ok"
  BY <1>1, BusyIs DEF Known
<1>3. OnDisk' /\ Staged'
  BY <1>1, <1>2, BusyIs DEF OnDisk, Staged
<1>4. ~Later({"files"})'
  BY <1>1, <1>2 DEF Later
<1>5. Described' /\ Walking'
  BY <1>1, <1>2 DEF Underway, Described, Walking, Later
<1>6. Listing'
  BY <1>1, <1>2 DEF Underway, Listing, Covered, Later
<1>7. Mapping'
  BY <1>1, <1>2 DEF Underway, Mapping, Later
<1>8. Collecting'
  <2>1. /\ names \subseteq DOMAIN fileMap /\ dirMap \subseteq Paths /\ n \in Paths
        /\ Closed(dirMap)
        /\ dirMap \subseteq UNION {Package!Above(x) : x \in DOMAIN fileMap}
        /\ \A x \in DOMAIN fileMap \ names : Package!Above(x) \subseteq dirMap
    BY <1>1, <1>2, SetsAre DEF Underway, Collecting, Later
  <2>2. PICK D, E : D = dirMap /\ E = dirMap'
    OBVIOUS
  <2>3. E = D \cup Package!Above(n) /\ Closed(E)
    BY <1>1, <2>1, <2>2, AscendIs
  <2>4. names' \subseteq DOMAIN fileMap'
    BY <1>1, <2>1
  <2>5. dirMap' \subseteq UNION {Package!Above(x) : x \in DOMAIN fileMap'}
    BY <1>1, <2>1, <2>2, <2>3
  <2>6. \A x \in DOMAIN fileMap' \ names' : Package!Above(x) \subseteq dirMap'
    BY <1>1, <2>1, <2>2, <2>3
  <2> QED
    BY <1>4, <2>2, <2>3, <2>4, <2>5, <2>6 DEF Collecting
<1>9. Writing'
  BY <1>1, <1>2, <1>4 DEF Underway, Writing
<1> QED
  BY <1>1, <1>3, <1>5, <1>6, <1>7, <1>8, <1>9 DEF PayloadInv, Underway

LEMMA WriteDirsKeeps ==
  ASSUME PayloadInv, Package!WriteDirs PROVE PayloadInv'
<1>1. /\ pc = "directories" /\ names = {} /\ pc' = "files"
      /\ payload' = Package!DirEntries(dirMap)
      /\ files' = files /\ gone' = gone /\ cd' = cd /\ todo' = todo /\ dists' = dists
      /\ needs' = needs /\ listed' = listed /\ names' = names /\ dirMap' = dirMap
      /\ fileMap' = fileMap /\ result' = result
  BY DEF Package!WriteDirs, Package!disk, Package!walk, Package!deps, Package!dirs
<1>2. OnDisk /\ Staged /\ Underway /\ Known' = Known /\ result # "ok"
  BY <1>1, BusyIs DEF Known
<1>3. OnDisk' /\ Staged'
  BY <1>1, <1>2, BusyIs DEF OnDisk, Staged
<1>4. Described' /\ Walking'
  BY <1>1, <1>2 DEF Underway, Described, Walking, Later
<1>5. Listing'
  BY <1>1, <1>2 DEF Underway, Listing, Covered, Later
<1>6. Mapping'
  BY <1>1, <1>2 DEF Underway, Mapping, Later
<1>7. Collecting'
  BY <1>1, <1>2 DEF Underway, Collecting, Later
<1>8. Writing'
  <2>1. PICK N \in Nat : N = Cardinality(dirMap)
    BY <1>2, SetsAre
  <2>2. PICK w, X : /\ w = payload'
                    /\ X = {DirEntry(q) : q \in dirMap} \cup
                           {FileEntry(fileMap, n) : n \in DOMAIN fileMap}
    OBVIOUS
  <2>3. w = [i \in 1..N |-> DirEntry(Package!Sorted(dirMap)[i])]
    BY <1>1, <1>2, <2>1, <2>2, SetsAre DEF Package!DirEntries, DirEntry
  <2>4. \A i \in 1..N : Package!Sorted(dirMap)[i] \in dirMap
    <3>1. PICK T : T = Package!Sorted(dirMap)
      OBVIOUS
    <3>2. T \in Seq(dirMap) /\ Len(T) = N
      BY <1>2, <2>1, <3>1, SetsAre, SortedIs DEF Lists
    <3> QED
      BY <3>1, <3>2, ElementOfSeq
  <2>5. w \in Seq(X) /\ Len(w) = N + 0 /\ \A i \in 1..N : w[i] = DirEntry(Package!Sorted(dirMap)[i])
    <3>1. \A i \in 1..N : w[i] \in X
      BY <2>2, <2>3, <2>4
    <3> QED
      BY <2>1, <2>3, <3>1
  <2>6. WrittenTo(dirMap, fileMap, w, 0)
    BY <1>2, <2>1, <2>2, <2>5, SetsAre DEF WrittenTo
  <2>7. \E k \in Nat : WrittenTo(dirMap', fileMap', payload', k)
    BY <1>1, <2>2, <2>6
  <2> QED
    BY <1>1, <1>2, <2>7 DEF Writing
<1> QED
  BY <1>1, <1>3, <1>4, <1>5, <1>6, <1>7, <1>8 DEF PayloadInv, Underway

LEMMA WriteFileKeeps ==
  ASSUME PayloadInv, Package!WriteFile PROVE PayloadInv'
<1>1. CASE Package!Fail
  BY <1>1, FailKeeps
<1>2. CASE ~Package!Fail
  <2>1. pc = "files"
    BY DEF Package!WriteFile
  <2>2. OnDisk /\ Staged /\ Underway /\ result # "ok"
    BY <2>1, BusyIs
  <2>3. PICK k \in Nat : WrittenTo(dirMap, fileMap, payload, k)
    BY <2>1, <2>2 DEF Underway, Writing, Later
  <2>4. PICK N, M, w : /\ N \in Nat /\ M \in Nat
                       /\ N = Cardinality(dirMap) /\ M = Cardinality(DOMAIN fileMap)
                       /\ w = payload
    BY <2>2, SetsAre
  <2>5. N \in Nat /\ M \in Nat /\ Len(w) = N + k /\ Len(w) - N = k
    BY <2>3, <2>4 DEF WrittenTo
  <2>6. PICK name : name = Package!Sorted(DOMAIN fileMap)[k + 1]
    OBVIOUS
  <2>7. /\ k < M /\ payload' = Append(w, FileEntry(fileMap, name))
        /\ files' = files /\ gone' = gone /\ cd' = cd /\ todo' = todo /\ dists' = dists
        /\ needs' = needs /\ listed' = listed /\ names' = names /\ dirMap' = dirMap
        /\ fileMap' = fileMap /\ result' = result /\ pc' = pc
    BY <1>2, <2>2, <2>4, <2>5, <2>6, SetsAre
       DEF Package!WriteFile, Package!disk, Package!walk, Package!deps, Package!dirs, FileEntry
  <2>8. Known' = Known
    BY <2>7 DEF Known
  <2>9. OnDisk' /\ Staged'
    BY <2>2, <2>7, <2>8 DEF OnDisk, Staged
  <2>10. Described' /\ Walking'
    BY <2>2, <2>7, <2>8 DEF Underway, Described, Walking, Later
  <2>11. Listing'
    BY <2>2, <2>7, <2>8 DEF Underway, Listing, Covered, Later
  <2>12. Mapping'
    BY <2>2, <2>7, <2>8 DEF Underway, Mapping, Later
  <2>13. Collecting'
    BY <2>2, <2>7, <2>8 DEF Underway, Collecting, Later
  <2>14. Writing'
    <3>1. name \in DOMAIN fileMap
      <4>1. PICK T : T = Package!Sorted(DOMAIN fileMap)
        OBVIOUS
      <4>2. T \in Seq(DOMAIN fileMap) /\ Len(T) = M
        BY <2>2, <2>4, <4>1, SetsAre, SortedIs DEF Lists
      <4>3. k + 1 \in 1..Len(T)
        BY <2>7, <4>2
      <4> QED
        BY <2>6, <4>1, <4>2, <4>3, ElementOfSeq
    <3>2. PICK X, e : /\ e = FileEntry(fileMap, name)
                      /\ X = {DirEntry(q) : q \in dirMap} \cup
                             {FileEntry(fileMap, n) : n \in DOMAIN fileMap}
      OBVIOUS
    <3>3. w \in Seq(X) /\ e \in X
      BY <2>3, <2>4, <3>1, <3>2 DEF WrittenTo
    <3>4. PICK v : v = Append(w, e)
      OBVIOUS
    <3>5. /\ v \in Seq(X) /\ Len(v) = Len(w) + 1 /\ v[Len(w) + 1] = e
          /\ \A i \in 1..Len(w) : v[i] = w[i]
      BY <3>3, <3>4, AppendProperties
    <3>6. \A i \in 1..N : v[i] = DirEntry(Package!Sorted(dirMap)[i])
      BY <2>3, <2>4, <2>5, <3>5 DEF WrittenTo
    <3>7. ASSUME NEW i \in 1..k + 1
          PROVE  v[N + i] = FileEntry(fileMap, Package!Sorted(DOMAIN fileMap)[i])
      <4>1. CASE i = k + 1
        <5>1. N + i = Len(w) + 1
          BY <2>5, <4>1
        <5> QED
          BY <2>6, <3>2, <3>5, <4>1, <5>1
      <4>2. CASE i # k + 1
        <5>1. i \in 1..k /\ N + i \in 1..Len(w)
          BY <2>5, <4>2
        <5>2. w[N + i] = FileEntry(fileMap, Package!Sorted(DOMAIN fileMap)[i])
          BY <2>3, <2>4, <5>1 DEF WrittenTo
        <5> QED
          BY <3>5, <5>1, <5>2
      <4> QED
        BY <4>1, <4>2
    <3>8. k + 1 \in 0..M /\ Len(v) = N + (k + 1)
      BY <2>5, <2>7, <3>5
    <3>9. WrittenTo(dirMap, fileMap, v, k + 1)
      BY <2>4, <3>2, <3>5, <3>6, <3>7, <3>8 DEF WrittenTo
    <3>10. payload' = v
      BY <2>7, <3>2, <3>4
    <3>11. \E j \in Nat : WrittenTo(dirMap', fileMap', payload', j)
      <4>1. k + 1 \in Nat
        OBVIOUS
      <4> QED
        BY <2>7, <3>9, <3>10, <4>1
    <3> QED
      BY <2>1, <2>2, <2>7, <3>11 DEF Writing
  <2> QED
    BY <2>1, <2>7, <2>9, <2>10, <2>11, <2>12, <2>13, <2>14 DEF PayloadInv, Underway
<1> QED
  BY <1>1, <1>2

LEMMA ReturnKeeps ==
  ASSUME PayloadInv, Package!Return PROVE PayloadInv'
<1>1. /\ pc = "files" /\ pc' = "done" /\ result' = "ok"
      /\ Len(payload) = Package!Cardinality(dirMap) + Package!Cardinality(DOMAIN fileMap)
      /\ files' = files /\ gone' = gone /\ cd' = cd /\ todo' = todo /\ dists' = dists
      /\ needs' = needs /\ listed' = listed /\ names' = names /\ dirMap' = dirMap
      /\ fileMap' = fileMap /\ payload' = payload
  BY DEF Package!Return, Package!disk, Package!walk, Package!deps, Package!dirs
<1>2. OnDisk /\ Staged /\ Underway /\ Known' = Known
  BY <1>1, BusyIs DEF Known
<1>3. OnDisk' /\ Staged'
  <2>1. None # "ok"
    BY FilesAssumption
  <2> QED
    BY <1>1, <1>2, <2>1 DEF OnDisk, Staged
<1>4. /\ Later({"list", "merge", "directories", "files"}) /\ Later({"merge", "directories", "files"})
      /\ Later({"directories", "files"}) /\ Later({"files"})
  BY <1>1 DEF Later
<1>5. Described' /\ Walking'
  BY <1>1, <1>2, <1>4 DEF Underway, Described, Walking
<1>6. Listing'
  BY <1>1, <1>2, <1>4 DEF Underway, Listing, Covered
<1>7. Mapping'
  BY <1>1, <1>2, <1>4 DEF Underway, Mapping
<1>8. Collecting'
  BY <1>1, <1>2, <1>4 DEF Underway, Collecting
<1>9. Writing'
  BY <1>1, <1>2, <1>4, SetsAre DEF Underway, Writing
<1> QED
  BY <1>1, <1>3, <1>5, <1>6, <1>7, <1>8, <1>9 DEF PayloadInv, Underway

LEMMA PayloadSteps ==
  ASSUME PayloadInv, [Package!Next]_(Package!vars) PROVE PayloadInv'
<1>1. CASE UNCHANGED Package!vars
  BY <1>1, NothingKeeps
<1>2. CASE Package!DescribeCode
  BY <1>2, DescribeKeeps
<1>3. CASE Package!findSource
  BY <1>3, FindKeeps
<1>4. CASE Package!WalkDone
  BY <1>4, WalkDoneKeeps
<1>5. CASE \E d \in dists : Package!ListDeps(d)
  BY <1>5, ListKeeps
<1>6. CASE Package!Merge
  BY <1>6, MergeKeeps
<1>7. CASE \E n \in names : Package!CollectDirs(n)
  BY <1>7, CollectKeeps
<1>8. CASE Package!WriteDirs
  BY <1>8, WriteDirsKeeps
<1>9. CASE Package!WriteFile
  BY <1>9, WriteFileKeeps
<1>10. CASE Package!Return
  BY <1>10, ReturnKeeps
<1>11. CASE \E p \in files : Package!Vanish(p)
  BY <1>11, VanishKeeps
<1> QED
  BY <1>1, <1>2, <1>3, <1>4, <1>5, <1>6, <1>7, <1>8, <1>9, <1>10, <1>11
     DEF Package!Next, Package!GetDeploymentPayload

-----------------------------------------------------------------------------
(* Payload: what the entries are when a package is handed out.             *)
(* An entry is one of a directory or, past those, of a file. *)
LEMMA EntryIs ==
  ASSUME OnDisk, Underway, NEW k \in Nat, WrittenTo(dirMap, fileMap, payload, k),
         NEW N, N = Cardinality(dirMap), NEW T, T = Package!Sorted(dirMap),
         NEW F, F = Package!Sorted(DOMAIN fileMap)
  PROVE  /\ N \in Nat /\ DOMAIN payload = 1..N + k
         /\ \A i \in 1..N : payload[i] = DirEntry(T[i]) /\ T[i] \in dirMap
         /\ \A i \in N + 1..N + k :
              /\ i - N \in 1..k /\ F[i - N] \in DOMAIN fileMap
              /\ payload[i] = FileEntry(fileMap, F[i - N])
<1>1. N \in Nat /\ Len(payload) = N + k /\ DOMAIN payload = 1..Len(payload)
      /\ k <= Cardinality(DOMAIN fileMap) /\ Cardinality(DOMAIN fileMap) \in Nat
  BY SetsAre, LenProperties DEF WrittenTo
<1>2. Lists(T, dirMap) /\ Lists(F, DOMAIN fileMap)
  BY SetsAre, SortedIs
<1>3. \A i \in 1..N : payload[i] = DirEntry(T[i]) /\ T[i] \in dirMap
  <2>1. \A i \in 1..N : T[i] \in dirMap
    BY <1>2, ElementOfSeq DEF Lists
  <2> QED
    BY <2>1 DEF WrittenTo
<1>4. ASSUME NEW i \in N + 1..N + k
      PROVE  /\ i - N \in 1..k /\ F[i - N] \in DOMAIN fileMap
             /\ payload[i] = FileEntry(fileMap, F[i - N])
  <2>1. PICK j \in 1..k : i = N + j /\ j = i - N
    <3>1. i - N \in 1..k /\ i = N + (i - N)
      BY <1>1
    <3> QED
      BY <3>1
  <2>2. F[j] \in DOMAIN fileMap
    <3>1. j \in 1..Len(F) /\ F \in Seq(DOMAIN fileMap)
      BY <1>1, <1>2 DEF Lists
    <3> QED
      BY <3>1, ElementOfSeq
  <2>3. payload[N + j] = FileEntry(fileMap, F[j])
    BY DEF WrittenTo
  <2> QED
    BY <2>1, <2>2, <2>3
<1> QED
  BY <1>1, <1>3, <1>4

LEMMA KindsAre ==
  ASSUME NEW q, NEW m, NEW n
  PROVE  /\ DirEntry(q).isDir = TRUE /\ DirEntry(q).name = q /\ DirEntry(q).path = None
         /\ FileEntry(m, n).isDir = FALSE /\ FileEntry(m, n).name = n
         /\ FileEntry(m, n).path = m[n] /\ FileEntry(m, n).mode = Package!FileMode
BY DEF DirEntry, FileEntry

LEMMA OrderIs ==
  ASSUME PayloadInv PROVE Package!SameOrder
<1> SUFFICES ASSUME NEW i \in DOMAIN payload, NEW j \in DOMAIN payload, i < j
             PROVE  \/ payload[i].isDir /\ ~payload[j].isDir
                    \/ /\ payload[i].isDir = payload[j].isDir
                       /\ Package!Less(payload[i].name, payload[j].name)
  BY DEF Package!SameOrder
<1>1. payload # <<>>
  OBVIOUS
<1>2. OnDisk /\ Underway
  BY <1>1 DEF PayloadInv, AtStart
<1>3. PICK k \in Nat : WrittenTo(dirMap, fileMap, payload, k)
  BY <1>1, <1>2 DEF Underway, Writing
<1>4. PICK N, T, F : /\ N = Cardinality(dirMap) /\ T = Package!Sorted(dirMap)
                     /\ F = Package!Sorted(DOMAIN fileMap)
  OBVIOUS
<1>5. /\ N \in Nat /\ DOMAIN payload = 1..N + k
      /\ \A x \in 1..N : payload[x] = DirEntry(T[x]) /\ T[x] \in dirMap
      /\ \A x \in N + 1..N + k :
           /\ x - N \in 1..k /\ F[x - N] \in DOMAIN fileMap
           /\ payload[x] = FileEntry(fileMap, F[x - N])
  BY <1>2, <1>3, <1>4, EntryIs
<1>6. Lists(T, dirMap) /\ Lists(F, DOMAIN fileMap)
  BY <1>2, <1>4, SetsAre, SortedIs
<1>7. i \in 1..N + k /\ j \in 1..N + k
  BY <1>5
<1>8. CASE j <= N
  <2>1. i \in 1..N /\ j \in 1..N
    BY <1>5, <1>7, <1>8
  <2>2. payload[i] = DirEntry(T[i]) /\ payload[j] = DirEntry(T[j])
    BY <1>5, <2>1
  <2>3. Package!Less(T[i], T[j])
    BY <1>4, <1>6, <2>1 DEF Lists
  <2> QED
    BY <2>2, <2>3 DEF DirEntry, FileEntry
<1>9. CASE i <= N /\ j > N
  <2>1. i \in 1..N /\ j \in N + 1..N + k
    BY <1>5, <1>7, <1>9
  <2>2. payload[i] = DirEntry(T[i]) /\ payload[j] = FileEntry(fileMap, F[j - N])
    BY <1>5, <2>1
  <2> QED
    BY <2>2 DEF DirEntry, FileEntry
<1>10. CASE i > N
  <2>1. i \in N + 1..N + k /\ j \in N + 1..N + k
    BY <1>5, <1>7, <1>10
  <2>2. PICK a \in 1..k, b \in 1..k : a = i - N /\ b = j - N
    BY <1>5, <2>1
  <2>3. payload[i] = FileEntry(fileMap, F[a]) /\ payload[j] = FileEntry(fileMap, F[b])
    BY <1>5, <2>1, <2>2
  <2>4. Package!Less(F[a], F[b])
    <3>1. a < b
      BY <1>5, <2>1, <2>2
    <3>2. k <= Cardinality(DOMAIN fileMap) /\ Cardinality(DOMAIN fileMap) \in Nat
      BY <1>2, <1>3, SetsAre DEF WrittenTo
    <3>3. a \in 1..Cardinality(DOMAIN fileMap) /\ b \in 1..Cardinality(DOMAIN fileMap)
      BY <3>2
    <3> QED
      BY <1>6, <3>1, <3>3 DEF Lists
  <2> QED
    BY <2>3, <2>4 DEF DirEntry, FileEntry
<1> QED
  BY <1>5, <1>7, <1>8, <1>9, <1>10

LEMMA TypesAre ==
  ASSUME PayloadInv PROVE Package!TypeOK
<1>1. /\ files \cup gone \in Trees /\ files \cap gone = {}
      /\ pc \in {"describe", "walk", "list", "merge", "directories", "files", "done"}
      /\ result \in {None, "ok", "error"} /\ ((result # None) <=> (pc = "done"))
  BY DEF PayloadInv, OnDisk, Staged, Known
<1>2. CASE AtStart
  <2>1. /\ cd = None /\ todo = <<>> /\ dists = Dist /\ listed = {} /\ fileMap = <<>>
        /\ names = {} /\ payload = <<>>
    BY <1>2 DEF AtStart
  <2>2. Package!Range(todo) = {} /\ Package!Range(fileMap) = {} /\ Package!Range(payload) = {}
    BY <2>1 DEF Package!Range
  <2> QED
    BY <1>1, <2>1, <2>2 DEF Package!TypeOK
<1>3. CASE Underway
  <2>1. OnDisk
    BY DEF PayloadInv
  <2>2. cd \in Package!Descriptor
    <3>1. /\ cd \in [Module : BOOLEAN, Source : {Root}, Path : {Root}, MetadataParent : Paths]
          /\ cd.MetadataParent = Root \/ \E p \in Known : cd.MetadataParent \in Package!Above(p)
      BY <1>3 DEF Underway, Described, IsDescriptor
    <3>2. cd.MetadataParent \in {Root} \cup UNION {Package!Above(p) : p \in files \cup gone}
      BY <3>1 DEF Known
    <3> QED
      BY <3>1, <3>2 DEF Package!Descriptor
  <2>3. Package!Range(todo) \cup listed \cup Package!Range(fileMap) \subseteq files \cup gone
    <3>1. todo \in Seq(Known) /\ listed \subseteq Known /\ \A n \in DOMAIN fileMap : fileMap[n] \in Known
      BY <1>3 DEF Underway, Walking, Listing, Mapping
    <3>2. \A i \in DOMAIN todo : todo[i] \in Known
      <4>1. DOMAIN todo = 1..Len(todo)
        BY <3>1, LenProperties
      <4> QED
        BY <3>1, <4>1, ElementOfSeq
    <3> QED
      BY <3>1, <3>2 DEF Package!Range, Known
  <2>4. dists \subseteq Dist /\ names \subseteq DOMAIN fileMap
    BY <1>3 DEF Underway, Listing, Collecting
  <2>5. \A e \in Package!Range(payload) : e.isDir <=> e.path = None
    <3>1. CASE payload = <<>>
      BY <3>1 DEF Package!Range
    <3>2. CASE payload # <<>>
      <4>1. PICK k \in Nat : WrittenTo(dirMap, fileMap, payload, k)
        BY <1>3, <3>2 DEF Underway, Writing
      <4>2. PICK X : X = {DirEntry(q) : q \in dirMap} \cup {FileEntry(fileMap, n) : n \in DOMAIN fileMap}
        OBVIOUS
      <4>3. \A e \in Package!Range(payload) : e \in X
        <5>1. payload \in Seq(X)
          BY <4>1, <4>2 DEF WrittenTo
        <5>2. DOMAIN payload = 1..Len(payload)
          BY <5>1, LenProperties
        <5> QED
          BY <5>1, <5>2, ElementOfSeq DEF Package!Range
      <4>4. \A n \in DOMAIN fileMap : fileMap[n] # None
        BY <1>3, <2>1, KnownIs DEF Underway, Mapping
      <4>5. \A e \in X : e.isDir <=> e.path = None
        BY <4>2, <4>4 DEF DirEntry, FileEntry
      <4> QED
        BY <4>3, <4>5
    <3> QED
      BY <3>1, <3>2
  <2> QED
    BY <1>1, <2>2, <2>3, <2>4, <2>5 DEF Package!TypeOK
<1> QED
  BY <1>2, <1>3 DEF PayloadInv

(* What a package that is handed out holds: one entry for each file of the *)
(* map.                                                                    *)
LEMMA WholeIs ==
  ASSUME PayloadInv, result = "ok"
  PROVE  /\ OnDisk /\ Underway /\ IsDescriptor(cd) /\ todo = <<>>
         /\ WrittenTo(dirMap, fileMap, payload, Cardinality(DOMAIN fileMap))
         /\ \A n \in DOMAIN fileMap : Package!Above(n) \subseteq dirMap
         /\ Package!EntriesOf(FALSE) = {FileEntry(fileMap, n) : n \in DOMAIN fileMap}
         /\ \A e \in Package!Range(payload) :
              \/ e \in Package!EntriesOf(FALSE)
              \/ \E q \in dirMap : e = DirEntry(q)
         /\ Package!Files = {fileMap[n] : n \in DOMAIN fileMap}
<1>1. OnDisk /\ Underway /\ IsDescriptor(cd)
  BY DEF PayloadInv, AtStart, Underway, Described
<1>2. todo = <<>> /\ names = {} /\ \A n \in DOMAIN fileMap : Package!Above(n) \subseteq dirMap
  BY <1>1 DEF Underway, Walking, Collecting, Later
<1>3. PICK M : M = Cardinality(DOMAIN fileMap)
  OBVIOUS
<1>4. WrittenTo(dirMap, fileMap, payload, M) /\ M \in Nat
  <2>1. PICK k \in Nat : WrittenTo(dirMap, fileMap, payload, k)
    BY <1>1 DEF Underway, Writing, Later
  <2>2. /\ Len(payload) = Cardinality(dirMap) + M /\ Len(payload) = Cardinality(dirMap) + k
    BY <1>1, <1>3, <2>1 DEF Underway, Writing, WrittenTo
  <2>3. Cardinality(dirMap) \in Nat /\ M \in Nat
    BY <1>1, <1>3, SetsAre
  <2>4. k = M
    BY <2>2, <2>3
  <2> QED
    BY <2>1, <2>4
<1>5. PICK N, T, F : /\ N = Cardinality(dirMap) /\ T = Package!Sorted(dirMap)
                     /\ F = Package!Sorted(DOMAIN fileMap)
  OBVIOUS
<1>6. /\ N \in Nat /\ DOMAIN payload = 1..N + M
      /\ \A x \in 1..N : payload[x] = DirEntry(T[x]) /\ T[x] \in dirMap
      /\ \A x \in N + 1..N + M :
           /\ x - N \in 1..M /\ F[x - N] \in DOMAIN fileMap
           /\ payload[x] = FileEntry(fileMap, F[x - N])
  BY <1>1, <1>4, <1>5, EntryIs
<1>7. Lists(F, DOMAIN fileMap)
  BY <1>1, <1>5, SetsAre, SortedIs
<1>8. ASSUME NEW e \in Package!Range(payload)
      PROVE  \/ \E n \in DOMAIN fileMap : e = FileEntry(fileMap, n)
             \/ \E q \in dirMap : e = DirEntry(q)
  <2>1. PICK i \in 1..N + M : e = payload[i]
    BY <1>6 DEF Package!Range
  <2>2. i \in 1..N \/ i \in N + 1..N + M
    BY <1>4, <1>6
  <2> QED
    BY <1>6, <2>1, <2>2
<1>9. ASSUME NEW n \in DOMAIN fileMap
      PROVE  FileEntry(fileMap, n) \in Package!Range(payload)
  <2>1. PICK j \in 1..M : F[j] = n
    BY <1>3, <1>7 DEF Lists
  <2>2. payload[N + j] = FileEntry(fileMap, n)
    BY <1>4, <1>5, <2>1 DEF WrittenTo
  <2>3. N + j \in DOMAIN payload
    BY <1>4, <1>6
  <2> QED
    BY <2>2, <2>3 DEF Package!Range
<1>10. Package!EntriesOf(FALSE) = {FileEntry(fileMap, n) : n \in DOMAIN fileMap}
  <2>1. \A e : e \in Package!EntriesOf(FALSE) <=> e \in Package!Range(payload) /\ e.isDir = FALSE
    BY DEF Package!EntriesOf
  <2> QED
    <3>1. /\ \A n : FileEntry(fileMap, n).isDir = FALSE
          /\ \A q : DirEntry(q).isDir # FALSE
      BY DEF DirEntry, FileEntry
    <3> QED
      BY <1>8, <1>9, <2>1, <3>1
<1>11. Package!Files = {fileMap[n] : n \in DOMAIN fileMap}
  <2>1. Package!Files = {e.path : e \in {FileEntry(fileMap, n) : n \in DOMAIN fileMap}}
    BY <1>10 DEF Package!Files
  <2> QED
    <3>1. \A n : FileEntry(fileMap, n).path = fileMap[n]
      BY DEF FileEntry
    <3>2. \A p : p \in Package!Files <=> \E n \in DOMAIN fileMap : p = FileEntry(fileMap, n).path
      BY <2>1
    <3> QED
      BY <3>1, <3>2
<1> QED
  BY <1>1, <1>2, <1>3, <1>4, <1>8, <1>10, <1>11

LEMMA NamesAre ==
  ASSUME PayloadInv PROVE Package!NamesConform
<1> SUFFICES ASSUME result = "ok", NEW e \in Package!Range(payload)
             PROVE  /\ e.name[1] \in {"src", "META-INF"}
                    /\ ~e.isDir => Len(e.name) > 1
                    /\ (~e.isDir /\ e.name[1] = "META-INF") =>
                         Package!ValidateMetadataFile(e.name)
  BY DEF Package!NamesConform
<1>1. /\ OnDisk /\ Underway /\ IsDescriptor(cd)
      /\ \/ \E n \in DOMAIN fileMap : e = FileEntry(fileMap, n)
         \/ \E q \in dirMap : e = DirEntry(q)
  BY WholeIs
<1>2. ASSUME NEW n \in DOMAIN fileMap
      PROVE  /\ n \in Paths /\ Len(n) >= 2 /\ n[1] \in {"src", "META-INF"}
             /\ n[1] = "META-INF" => Package!ValidateMetadataFile(n)
  BY <1>1, TakenIs DEF Underway, Mapping
<1>3. ASSUME NEW n \in DOMAIN fileMap, e = FileEntry(fileMap, n)
      PROVE  /\ e.name[1] \in {"src", "META-INF"}
             /\ ~e.isDir => Len(e.name) > 1
             /\ (~e.isDir /\ e.name[1] = "META-INF") =>
                  Package!ValidateMetadataFile(e.name)
  <2>1. e.name = n
    BY <1>3 DEF FileEntry
  <2>2. Len(n) > 1
    BY <1>2, LenProperties DEF Paths
  <2> QED
    BY <1>2, <2>1, <2>2
<1>4. ASSUME NEW q \in dirMap, e = DirEntry(q)
      PROVE  e.name[1] \in {"src", "META-INF"} /\ e.isDir
  <2>1. PICK n \in DOMAIN fileMap : q \in Package!Above(n)
    BY <1>1 DEF Underway, Collecting
  <2>2. n \in Paths /\ n[1] \in {"src", "META-INF"}
    BY <1>2
  <2>3. Len(q) \in 1..Len(n) - 1 /\ Agree(q, n, Len(q))
    BY <2>1, <2>2, AboveIs
  <2>4. q[1] = n[1]
    BY <2>3 DEF Agree
  <2> QED
    BY <1>4, <2>2, <2>4 DEF DirEntry
<1> QED
  BY <1>1, <1>3, <1>4

LEMMA ParentsAre ==
  ASSUME PayloadInv PROVE Package!ParentsFirst
<1> SUFFICES ASSUME result = "ok", NEW i \in DOMAIN payload,
                    NEW q \in Package!Above(payload[i].name)
             PROVE  Package!Cardinality(
                      {j \in 1..i - 1 : payload[j].isDir /\ payload[j].name = q}) = 1
  BY DEF Package!ParentsFirst
<1>1. PICK M : M = Cardinality(DOMAIN fileMap)
  OBVIOUS
<1>2. /\ OnDisk /\ Underway /\ WrittenTo(dirMap, fileMap, payload, M)
      /\ \A n \in DOMAIN fileMap : Package!Above(n) \subseteq dirMap
  BY <1>1, WholeIs
<1>3. PICK N, T, F : /\ N = Cardinality(dirMap) /\ T = Package!Sorted(dirMap)
                     /\ F = Package!Sorted(DOMAIN fileMap)
  OBVIOUS
<1>4. M \in Nat
  BY <1>1, <1>2, SetsAre
<1>5. /\ N \in Nat /\ DOMAIN payload = 1..N + M
      /\ \A x \in 1..N : payload[x] = DirEntry(T[x]) /\ T[x] \in dirMap
      /\ \A x \in N + 1..N + M :
           /\ x - N \in 1..M /\ F[x - N] \in DOMAIN fileMap
           /\ payload[x] = FileEntry(fileMap, F[x - N])
  BY <1>2, <1>3, <1>4, EntryIs
<1>6. /\ \A p \in dirMap : \E j \in 1..N : T[j] = p
      /\ \A x, y \in 1..N : x < y => Package!Less(T[x], T[y])
      /\ \A x, y \in 1..N : T[x] = T[y] => x = y
      /\ dirMap \subseteq Paths
  BY <1>2, <1>3, SetsAre, SortedIs DEF Lists
<1>7. i \in 1..N \/ i \in N + 1..N + M
  BY <1>4, <1>5
<1>12. \A x : DirEntry(x).name = x
  BY DEF DirEntry
<1>8. q \in dirMap
  <2>1. CASE i \in 1..N
    <3>1. payload[i].name = T[i] /\ T[i] \in dirMap
      BY <1>5, <1>12, <2>1
    <3> QED
      BY <1>2, <3>1 DEF Underway, Collecting, Closed
  <2>2. CASE i \in N + 1..N + M
    <3>1. PICK n \in DOMAIN fileMap : payload[i] = FileEntry(fileMap, n)
      BY <1>5, <2>2
    <3>2. payload[i].name = n
      BY <3>1 DEF FileEntry
    <3> QED
      BY <1>2, <3>1, <3>2
  <2> QED
    BY <1>7, <2>1, <2>2
<1>9. PICK j \in 1..N : T[j] = q
  BY <1>6, <1>8
<1>10. j < i
  <2>1. CASE i \in 1..N
    <3>1. payload[i].name = T[i] /\ T[i] \in Paths
      BY <1>5, <1>6, <1>12, <2>1
    <3>2. PICK p \in Paths : p = T[i]
      BY <3>1
    <3>3. Len(p) \in Nat /\ q \in Paths /\ Len(q) \in 1..Len(p) - 1 /\ Agree(q, p, Len(q))
      BY <3>1, <3>2, AboveIs, LenProperties DEF Paths
    <3>4. Package!Less(q, p)
      <4>1. Package!IsStrictPrefix(q, p)
        BY <3>3, StrictPrefixIs
      <4> QED
        BY <4>1 DEF Package!Less
    <3>5. ~Package!Less(p, q) /\ p # q
      BY <3>3, <3>4, LessTransitive, LessIrreflexive
    <3>6. ~(i < j) /\ i # j
      BY <1>6, <1>9, <2>1, <3>2, <3>5
    <3> QED
      BY <1>5, <2>1, <3>6
  <2>2. CASE i \in N + 1..N + M
    BY <1>5, <2>2
  <2> QED
    BY <1>7, <2>1, <2>2
<1>11. {x \in 1..i - 1 : payload[x].isDir /\ payload[x].name = q} = {j}
  <2>1. j \in 1..i - 1 /\ payload[j].isDir /\ payload[j].name = q
    <3>1. payload[j] = DirEntry(q) /\ i \in Int
      BY <1>5, <1>7, <1>9
    <3> QED
      BY <1>10, <3>1 DEF DirEntry
  <2>2. ASSUME NEW x \in 1..i - 1, payload[x].isDir, payload[x].name = q PROVE x = j
    <3>1. x \in 1..N \/ x \in N + 1..N + M
      BY <1>4, <1>5, <1>7
    <3>2. CASE x \in 1..N
      <4>1. T[x] = q
        BY <1>5, <1>12, <2>2, <3>2
      <4> QED
        BY <1>6, <1>9, <3>2, <4>1
    <3>3. CASE x \in N + 1..N + M
      <4>1. payload[x] = FileEntry(fileMap, F[x - N])
        BY <1>5, <3>3
      <4>2. ~payload[x].isDir
        BY <4>1 DEF FileEntry
      <4> QED
        BY <2>2, <4>2
    <3> QED
      BY <3>1, <3>2, <3>3
  <2> QED
    BY <2>1, <2>2
<1> QED
  BY <1>11, FS_Singleton, SameFinite

LEMMA FilesPass ==
  ASSUME PayloadInv PROVE Package!FilesValidate
<1> SUFFICES ASSUME result = "ok", NEW e \in Package!EntriesOf(FALSE)
             PROVE  Package!ValidateCodePackage(<<e>>)
  BY DEF Package!FilesValidate
<1>1. PICK n \in DOMAIN fileMap : e = FileEntry(fileMap, n)
  BY WholeIs
<1>2. n \in Paths /\ Len(n) >= 2 /\ n[1] \in {"src", "META-INF"}
  BY WholeIs, TakenIs DEF Underway, Mapping
<1>3. Len(n) > 1
  BY <1>2, LenProperties DEF Paths
<1>4. e.name = n /\ e.mode = {"ISREG", "rw"}
  BY <1>1 DEF FileEntry, Package!FileMode
<1>5. DOMAIN <<e>> = {1} /\ <<e>>[1] = e
  OBVIOUS
<1> QED
  BY <1>2, <1>3, <1>4, <1>5 DEF Package!ValidateCodePackage

LEMMA DepsAre ==
  ASSUME PayloadInv PROVE Package!DepsWhole
<1> SUFFICES ASSUME result = "ok", ~cd.Module, NEW d \in Dist, NEW q \in needs[d] \ Goroot
             PROVE  /\ Package!PackageFiles(q) \subseteq Package!Files
                    /\ \E e \in Package!EntriesOf(FALSE) : Package!Dir(e.path) = q
  BY DEF Package!DepsWhole
<1>1. /\ Underway /\ Package!Files = {fileMap[n] : n \in DOMAIN fileMap}
      /\ Package!EntriesOf(FALSE) = {FileEntry(fileMap, n) : n \in DOMAIN fileMap}
  BY WholeIs
<1>2. /\ \E p \in listed : Package!Dir(p) = q
      /\ \A p \in files : Package!Dir(p) = q /\ Package!Last(p) \in GoFile => p \in listed
  BY <1>1 DEF Underway, Listing, Covered, Later
<1>3. \A p \in listed : \E n \in DOMAIN fileMap : fileMap[n] = p
  BY <1>1 DEF Underway, Mapping, Later, InMap
<1>4. Package!PackageFiles(q) \subseteq Package!Files
  BY <1>1, <1>2, <1>3 DEF Package!PackageFiles
<1>5. PICK n \in DOMAIN fileMap : Package!Dir(fileMap[n]) = q
  BY <1>2, <1>3
<1>6. FileEntry(fileMap, n).path = fileMap[n]
  BY DEF FileEntry
<1>7. FileEntry(fileMap, n) \in Package!EntriesOf(FALSE)
  BY <1>1
<1> QED
  BY <1>4, <1>5, <1>6, <1>7

LEMMA SourcesAre ==
  ASSUME PayloadInv PROVE Package!SourcesWhole
<1> SUFFICES ASSUME result = "ok"
             PROVE  /\ Package!Sources \cup Package!Metadata \subseteq Package!Files
                    /\ Package!Files \cap files
                         \subseteq Package!Sources \cup Package!Metadata \cup listed
                    /\ Package!Cardinality(Package!Files)
                         = Package!Cardinality(Package!EntriesOf(FALSE))
                    /\ \A e \in Package!EntriesOf(FALSE) :
                         e.name = IF Package!Under(Package!Meta, e.path)
                                  THEN Package!Rel(cd.MetadataParent, e.path)
                                  ELSE <<"src">> \o
                                       Package!Rel(IF cd.Module THEN Root ELSE <<>>, e.path)
  BY DEF Package!SourcesWhole
<1>1. /\ OnDisk /\ Underway /\ IsDescriptor(cd) /\ todo = <<>>
      /\ Package!EntriesOf(FALSE) = {FileEntry(fileMap, n) : n \in DOMAIN fileMap}
      /\ Package!Files = {fileMap[n] : n \in DOMAIN fileMap}
  BY WholeIs
<1>2. Package!Meta = MetaOf(cd)
  BY DEF Package!Meta, MetaOf
<1>3. \A p : /\ p \in Package!Metadata <=>
                  p \in files /\ Package!Under(MetaOf(cd), p) /\ Package!Last(p) \notin Hidden
             /\ p \in Package!Sources <=>
                  /\ p \in files /\ IsSource(cd, p) /\ ~Package!Under(MetaOf(cd), p)
                  /\ ~(Package!isMetadata(cd, p) /\ Package!Last(p) \in Hidden)
  BY <1>2 DEF Package!Metadata, Package!Sources, IsSource
<1>4. files \subseteq Paths
  BY <1>1, KnownIs
<1>5. ASSUME NEW p \in files, Package!Reached(cd, p), ~Package!Skipped(cd, p)
      PROVE  p \in Package!Files
  BY <1>1, <1>5 DEF Underway, Mapping, InMap
<1>6. Package!Sources \cup Package!Metadata \subseteq Package!Files
  <2>1. ASSUME NEW p \in Package!Sources PROVE p \in Package!Files
    BY <1>1, <1>3, <1>4, <1>5, <2>1, SourceTaken
  <2>2. ASSUME NEW p \in Package!Metadata PROVE p \in Package!Files
    BY <1>1, <1>3, <1>4, <1>5, <2>2, MetaReached
  <2> QED
    BY <2>1, <2>2
<1>7. \A n \in DOMAIN fileMap : Taken(cd, listed, n, fileMap[n])
  BY <1>1 DEF Underway, Mapping
<1>8. Package!Files \cap files \subseteq Package!Sources \cup Package!Metadata \cup listed
  <2> SUFFICES ASSUME NEW n \in DOMAIN fileMap, fileMap[n] \in files, fileMap[n] \notin listed
               PROVE  fileMap[n] \in Package!Sources \cup Package!Metadata
    BY <1>1
  <2>1. PICK p : p = fileMap[n]
    OBVIOUS
  <2>2. Walked(cd, p) /\ p \in Paths /\ p \in files
    BY <1>4, <1>7, <2>1 DEF Taken
  <2>3. IF Package!Under(MetaOf(cd), p) THEN Package!Last(p) \notin Hidden
        ELSE IsSource(cd, p) /\ ~Package!isMetadata(cd, p)
    BY <1>1, <2>2, WalkedIs
  <2> QED
    BY <1>3, <2>1, <2>2, <2>3
<1>9. Package!Cardinality(Package!Files) = Package!Cardinality(Package!EntriesOf(FALSE))
  <2> DEFINE D == DOMAIN fileMap
             g == [n \in D |-> fileMap[n]]
             h == [n \in D |-> FileEntry(fileMap, n)]
  <2>1. IsFiniteSet(D)
    BY <1>1, SetsAre
  <2>2. g \in Bijection(D, Package!Files)
    <3>1. g \in [D -> Package!Files] /\ \A p \in Package!Files : \E n \in D : g[n] = p
      BY <1>1
    <3>2. \A m, n \in D : g[m] = g[n] => m = n
      BY <1>7 DEF Taken
    <3> HIDE DEF g, D
    <3> QED
      BY <3>1, <3>2 DEF Bijection, Injection, Surjection, IsInjective
  <2>3. h \in Bijection(D, Package!EntriesOf(FALSE))
    <3>1. h \in [D -> Package!EntriesOf(FALSE)]
          /\ \A e \in Package!EntriesOf(FALSE) : \E n \in D : h[n] = e
      BY <1>1
    <3>2. \A m, n \in D : h[m] = h[n] => m = n
      BY DEF FileEntry
    <3> HIDE DEF h, D
    <3> QED
      BY <3>1, <3>2 DEF Bijection, Injection, Surjection, IsInjective
  <2> HIDE DEF g, h, D
  <2>4. ExistsBijection(D, Package!Files) /\ ExistsBijection(D, Package!EntriesOf(FALSE))
    BY <2>2, <2>3 DEF ExistsBijection
  <2>5. /\ Cardinality(Package!Files) = Cardinality(D)
        /\ Cardinality(Package!EntriesOf(FALSE)) = Cardinality(D)
    BY <2>1, <2>4, FS_Bijection
  <2> QED
    BY <2>5, SameFinite
<1>10. ASSUME NEW e \in Package!EntriesOf(FALSE)
       PROVE  e.name = IF Package!Under(Package!Meta, e.path)
                       THEN Package!Rel(cd.MetadataParent, e.path)
                       ELSE <<"src">> \o Package!Rel(IF cd.Module THEN Root ELSE <<>>, e.path)
  <2>1. PICK n \in DOMAIN fileMap : e = FileEntry(fileMap, n)
    BY <1>1
  <2>2. e.name = n /\ e.path = fileMap[n]
    BY <2>1 DEF FileEntry
  <2>3. n = Called(cd, fileMap[n])
    BY <1>7 DEF Taken
  <2> QED
    BY <1>2, <2>2, <2>3 DEF Called, Below
<1> QED
  BY <1>6, <1>8, <1>9, <1>10

(* What GetDeploymentPayload hands out: every entry is called what it      *)
(* should be and comes once and in order, its directories before it; the   *)
(* package lacks nothing of the code that was there throughout and holds   *)
(* nothing else.                                                           *)
THEOREM PackagesAreWhole == Package!Spec => []PackageInv
<1>1. ASSUME PayloadInv PROVE PackageInv
  <2>1. Package!EntriesInv
    BY <1>1, TypesAre, NamesAre, ParentsAre, OrderIs, FilesPass DEF Package!EntriesInv
  <2> QED
    BY <1>1, <2>1, SourcesAre, DepsAre DEF PackageInv, Package!PackageInv
<1> QED
  BY <1>1, StartsRight, PayloadSteps, PTL DEF Package!Spec

-----------------------------------------------------------------------------
(* The policy compiler.  What a call has become follows from what was      *)
(* written: it is still that, or printed once, or printed twice, or made.  *)
(* A rule of a policy under way or made is the argument it came from; the  *)
(* numbers go to the principals in the order in which they are met, and    *)
(* every number handed out is some rule's.                                 *)

(* The kinds of an argument. *)
LEMMA ArgumentIs ==
  ASSUME NEW k, NEW x \in Policy!Arguments(k)
  PROVE  /\ x.kind \in {"word", "number", "principal", "string", "call"}
         /\ x.kind = "word" => x = Policy!Word
         /\ x.kind = "number" => x = Policy!Number(x.tenths) /\ x.tenths \in Int
         /\ x.kind = "principal" => x = Policy!Signed(x.principal) /\ x.principal \in Principal
         /\ x.kind = "string" => x.reads = Policy!Word \/ (x.reads = Policy!Number(x.reads.tenths)
                                                           /\ x.reads.tenths \in Int)
         /\ x.kind = "call" => x = Policy!Nested(x.place) /\ x.place \in 1..k - 1
<1>1. CASE x = Policy!Word
  BY <1>1 DEF Policy!Word
<1>2. CASE x \in Policy!Floats
  BY <1>2 DEF Policy!Floats, Policy!Number
<1>3. CASE x \in [kind : {"principal"}, principal : Principal]
  BY <1>3 DEF Policy!Signed
<1>4. CASE x \in [kind : {"string"}, reads : {Policy!Word} \cup Policy!Floats]
  BY <1>4 DEF Policy!Floats, Policy!Number
<1>5. CASE x \in [kind : {"call"}, place : 1..k - 1]
  BY <1>5 DEF Policy!Nested
<1> QED
  BY <1>1, <1>2, <1>3, <1>4, <1>5 DEF Policy!Arguments

(* A number that was cut once is not cut again. *)
LEMMA TruncIs ==
  ASSUME NEW t \in Int
  PROVE  /\ Policy!Trunc(t) \in Int
         /\ Policy!Trunc(10 * t) = t
<1>1. CASE t < 0
  BY <1>1 DEF Policy!Trunc
<1>2. CASE t >= 0
  BY <1>2 DEF Policy!Trunc
<1> QED
  BY <1>1, <1>2

(* What comes of the first argument and of another in two evaluations. *)
PrintedFirst(x) == Policy!Cut(Policy!Threshold(x))
PrintedLater(x) == Policy!Cut(Policy!Bare(x))

(* What the two evaluations print for a principal or a policy is itself,   *)
(* and for nothing else.                                                   *)
LEMMA LaterIs ==
  ASSUME NEW k, NEW x \in Policy!Arguments(k)
  PROVE  /\ x.kind \in {"principal", "call"} => PrintedLater(x) = x /\ Policy!Bare(x) # Policy!Word
         /\ PrintedLater(x).kind \in {"principal", "call"} => x.kind \in {"principal", "call"}
<1>1. CASE x.kind \in {"principal", "call"}
  BY <1>1 DEF PrintedLater, Policy!Cut, Policy!Bare, Policy!Word
<1>2. CASE x.kind \notin {"principal", "call"}
  <2>1. CASE x.kind = "string"
    <3>1. Policy!Bare(x) = x.reads /\ PrintedLater(x) = Policy!Cut(x.reads)
      BY <2>1 DEF PrintedLater, Policy!Bare
    <3>2. CASE x.reads = Policy!Word
      BY <2>1, <3>1, <3>2 DEF Policy!Cut, Policy!Word
    <3>3. CASE x.reads = Policy!Number(x.reads.tenths)
      BY <2>1, <3>1, <3>3 DEF Policy!Cut, Policy!Number
    <3> QED
      BY <2>1, <3>2, <3>3, ArgumentIs
  <2>2. CASE x.kind = "number"
    BY <2>2, ArgumentIs DEF PrintedLater, Policy!Cut, Policy!Bare, Policy!Number
  <2>3. CASE x.kind = "word"
    BY <2>3, ArgumentIs DEF PrintedLater, Policy!Cut, Policy!Bare, Policy!Word
  <2> QED
    BY <1>2, <2>1, <2>2, <2>3, ArgumentIs
<1> QED
  BY <1>1, <1>2

(* What they print for a threshold.                                        *)
LEMMA FirstIs ==
  ASSUME NEW k, NEW x \in Policy!Arguments(k)
  PROVE  LET b == Policy!Bare(x) IN
         /\ b.kind = "number" =>
              /\ PrintedFirst(x) = Policy!Number(10 * Policy!Trunc(b.tenths)) /\ b.tenths \in Int
              /\ Policy!Threshold(x) # Policy!Word /\ x # Policy!Word
         /\ PrintedFirst(x).kind = "number" => b.kind = "number"
<1>1. CASE x.kind = "number"
  <2>1. x = Policy!Number(x.tenths) /\ x.tenths \in Int /\ Policy!Bare(x) = x
    BY <1>1, ArgumentIs DEF Policy!Bare
  <2>2. Policy!Threshold(x) = Policy!Number(10 * Policy!Trunc(x.tenths))
    BY <1>1 DEF Policy!Threshold, Policy!Cut, Policy!Bare, Policy!Number
  <2>3. PrintedFirst(x) = Policy!Number(10 * Policy!Trunc(10 * Policy!Trunc(x.tenths)))
    BY <2>2 DEF PrintedFirst, Policy!Cut, Policy!Number
  <2> QED
    BY <1>1, <2>1, <2>2, <2>3, TruncIs DEF Policy!Number, Policy!Word
<1>2. CASE x.kind = "string"
  <2>1. /\ Policy!Bare(x) = x.reads /\ Policy!Threshold(x) = x.reads
        /\ PrintedFirst(x) = Policy!Cut(x.reads)
    BY <1>2 DEF PrintedFirst, Policy!Threshold, Policy!Cut, Policy!Bare
  <2>2. CASE x.reads = Policy!Word
    BY <2>1, <2>2 DEF Policy!Word, Policy!Cut
  <2>3. CASE x.reads = Policy!Number(x.reads.tenths) /\ x.reads.tenths \in Int
    BY <1>2, <2>1, <2>3 DEF Policy!Word, Policy!Cut, Policy!Number
  <2> QED
    BY <1>2, <2>2, <2>3, ArgumentIs
<1>3. CASE x.kind \in {"word", "principal", "call"}
  BY <1>3 DEF PrintedFirst, Policy!Threshold, Policy!Cut, Policy!Bare, Policy!Word
<1> QED
  BY <1>1, <1>2, <1>3, ArgumentIs

(* What the three gates call outof with. *)
Gates(k) == [gate : {"And", "Or", "OutOf"}, args : Seq(Policy!Arguments(k))]

(* What outof is called with: the threshold and the rules.                 *)
LEMMA GivenIs ==
  ASSUME NEW k, NEW c \in Gates(k), NEW a, a = Policy!Given(c), NEW r, r = Policy!Rules(c)
  PROVE  /\ a \in Seq(Policy!Arguments(k))
         /\ Len(a) >= 2 =>
              /\ DOMAIN r = 1..Len(a) - 1 /\ Len(r) = Len(a) - 1
              /\ \A i \in 1..Len(a) - 1 : r[i] = a[i + 1] /\ r[i] \in Policy!Arguments(k)
              /\ c.gate = "And" => a[1] = Policy!Number(10 * Len(r))
              /\ c.gate = "Or"  => a[1] = Policy!Number(10)
              /\ c.gate = "OutOf" => a[1] = c.args[1] /\ Len(c.args) = Len(r) + 1
         /\ Policy!WellFormedCall(c) => Len(a) >= 2
<1>1. /\ c.gate \in {"And", "Or", "OutOf"} /\ c.args \in Seq(Policy!Arguments(k))
      /\ Len(c.args) \in Nat
  BY DEF Gates
<1>2. \A t \in Int : Policy!Number(t) \in Policy!Arguments(k)
  BY DEF Policy!Number, Policy!Floats, Policy!Arguments
<1>3. CASE c.gate \in {"And", "Or"}
  <2>1. PICK t \in Int : /\ a = <<Policy!Number(t)>> \o c.args
                         /\ t = IF c.gate = "And" THEN 10 * Len(c.args) ELSE 10
    BY <1>1, <1>3 DEF Policy!Given
  <2>2. r = c.args
    BY <1>3 DEF Policy!Rules
  <2>3. <<Policy!Number(t)>> \in Seq(Policy!Arguments(k))
    BY <1>2, <2>1
  <2>4. /\ a \in Seq(Policy!Arguments(k)) /\ Len(a) = Len(r) + 1
        /\ a[1] = Policy!Number(t) /\ \A i \in 1..Len(r) : a[i + 1] = r[i]
    BY <1>1, <2>1, <2>2, <2>3
  <2> QED
    BY <1>1, <1>3, <2>1, <2>2, <2>4 DEF Policy!WellFormedCall
<1>4. CASE c.gate = "OutOf"
  <2>1. a = c.args /\ r = Tail(c.args)
    BY <1>4 DEF Policy!Given, Policy!Rules
  <2> QED
    BY <1>1, <1>4, <2>1 DEF Policy!WellFormedCall
<1> QED
  BY <1>1, <1>3, <1>4

(* What two evaluations print of it. *)
LEMMA PrintedIs ==
  ASSUME NEW k, NEW a \in Seq(Policy!Arguments(k)), Len(a) >= 2,
         NEW one, one = Policy!outof(a).args,
         NEW two, two = Policy!firstPass(one).args
  PROVE  /\ DOMAIN one = 1..Len(a)
         /\ one[1] = Policy!Threshold(a[1])
         /\ \A i \in 1..Len(a) - 1 : one[i + 1] = Policy!Bare(a[i + 1])
         /\ Len(two) = Len(a) + 1 /\ two[1] = Policy!ID /\ two[2] = PrintedFirst(a[1])
         /\ \A i \in 1..Len(a) - 1 : two[i + 2] = PrintedLater(a[i + 1])
<1>1. one = [i \in 1..Len(a) |-> IF i = 1 THEN Policy!Threshold(a[1]) ELSE Policy!Bare(a[i])]
  BY DEF Policy!outof, Policy!Call
<1>2. two = <<Policy!ID>> \o [i \in DOMAIN one |-> Policy!Cut(one[i])]
  BY DEF Policy!firstPass, Policy!Call
<1>3. /\ DOMAIN one = 1..Len(a)
      /\ one[1] = Policy!Threshold(a[1])
      /\ \A i \in 1..Len(a) - 1 : one[i + 1] = Policy!Bare(a[i + 1])
  BY <1>1
<1> DEFINE cut == [i \in 1..Len(a) |-> Policy!Cut(one[i])]
           V   == {cut[i] : i \in 1..Len(a)}
<1>4. /\ cut \in Seq(V) /\ Len(cut) = Len(a)
      /\ \A i \in 1..Len(a) : cut[i] = Policy!Cut(one[i])
  OBVIOUS
<1>5. two = <<Policy!ID>> \o cut
  BY <1>2, <1>3
<1> HIDE DEF cut, V
<1>6. /\ Len(two) = Len(a) + 1 /\ two[1] = Policy!ID
      /\ \A i \in 1..Len(a) : two[i + 1] = cut[i]
  <2>1. <<Policy!ID>> \in Seq(V \cup {Policy!ID}) /\ cut \in Seq(V \cup {Policy!ID})
    BY <1>4
  <2> QED
    BY ONLY <1>4, <1>5, <2>1
<1>7. two[2] = PrintedFirst(a[1])
  BY <1>3, <1>4, <1>6 DEF PrintedFirst
<1>8. ASSUME NEW i \in 1..Len(a) - 1  PROVE  two[i + 2] = PrintedLater(a[i + 1])
  <2>1. i + 1 \in 1..Len(a) /\ two[(i + 1) + 1] = cut[i + 1]
    BY <1>6
  <2> QED
    BY <1>3, <1>4, <2>1 DEF PrintedLater
<1> QED
  BY <1>3, <1>6, <1>7, <1>8

(* A call after the first and after the second evaluation.                 *)
Once(c)  == Policy!outof(Policy!Given(c))
Twice(c) == Policy!firstPass(Once(c).args)

(* The arguments that the third reads. *)
LEMMA TwiceIs ==
  ASSUME NEW k, NEW c \in Gates(k), Len(Policy!Given(c)) >= 2,
         NEW r, r = Policy!Rules(c), NEW two, two = Twice(c).args
  PROVE  /\ DOMAIN r = 1..Len(r) /\ Len(r) \in Nat \ {0}
         /\ Len(two) = Len(r) + 2 /\ two[1] = Policy!ID
         /\ \A i \in 1..Len(r) : r[i] \in Policy!Arguments(k) /\ two[i + 2] = PrintedLater(r[i])
         /\ two[2] = PrintedFirst(Policy!Given(c)[1])
<1> DEFINE a   == Policy!Given(c)
           one == Once(c).args
<1>1. /\ a \in Seq(Policy!Arguments(k)) /\ Len(a) \in Nat
      /\ DOMAIN r = 1..Len(a) - 1 /\ Len(r) = Len(a) - 1
      /\ \A i \in 1..Len(a) - 1 : r[i] = a[i + 1] /\ r[i] \in Policy!Arguments(k)
  BY GivenIs
<1>2. one = Policy!outof(a).args /\ two = Policy!firstPass(one).args
  BY DEF Once, Twice
<1> HIDE DEF a, one
<1>3. /\ Len(two) = Len(a) + 1 /\ two[1] = Policy!ID /\ two[2] = PrintedFirst(a[1])
      /\ \A i \in 1..Len(a) - 1 : two[i + 2] = PrintedLater(a[i + 1])
  <2>1. Len(a) >= 2
    BY DEF a
  <2>2. a \in Seq(Policy!Arguments(k))
    BY <1>1
  <2> QED
    BY ONLY <1>2, <2>1, <2>2, PrintedIs
<1>4. Len(a) >= 2
  BY DEF a
<1>5. two[2] = PrintedFirst(Policy!Given(c)[1])
  BY <1>3 DEF a
<1> QED
  BY ONLY <1>1, <1>3, <1>4, <1>5

(* The threshold that the third reads is the one of the gate. *)
Wanted(c) ==
  CASE c.gate = "And" -> Len(Policy!Rules(c))
    [] c.gate = "Or"  -> 1
    [] OTHER          -> Policy!Trunc(Policy!Bare(c.args[1]).tenths)

(* The threshold survives the text if it reads as a number.                *)
LEMMA ThresholdIs ==
  ASSUME NEW k, NEW c \in Gates(k), Len(Policy!Given(c)) >= 2,
         NEW t, t = Twice(c).args[2]
  PROVE  /\ t.kind = "number" <=> (c.gate = "OutOf" => Policy!Bare(c.args[1]).kind = "number")
         /\ t.kind = "number" =>
              /\ Policy!Trunc(t.tenths) = Wanted(c) /\ Wanted(c) \in Int
              /\ Policy!Threshold(Policy!Given(c)[1]) # Policy!Word
              /\ Policy!Given(c)[1] # Policy!Word
<1> DEFINE x == Policy!Given(c)[1]
           b == Policy!Bare(x)
<1>1. t = PrintedFirst(x) /\ x \in Policy!Arguments(k)
  BY TwiceIs, GivenIs
<1>2. /\ c.gate \in {"And", "Or", "OutOf"}
      /\ c.gate = "And" => x = Policy!Number(10 * Len(Policy!Rules(c)))
      /\ c.gate = "Or"  => x = Policy!Number(10)
      /\ c.gate = "OutOf" => x = c.args[1]
  BY GivenIs DEF Gates
<1>3. Len(Policy!Rules(c)) \in Nat
  BY TwiceIs
<1> HIDE DEF x
<1>4. t.kind = "number" <=> b.kind = "number"
  BY <1>1, FirstIs DEF Policy!Number
<1>5. ASSUME t.kind = "number"
      PROVE  /\ Policy!Trunc(t.tenths) = Policy!Trunc(b.tenths)
             /\ Policy!Trunc(b.tenths) \in Int
             /\ Policy!Threshold(x) # Policy!Word /\ x # Policy!Word
  <2>1. /\ t = Policy!Number(10 * Policy!Trunc(b.tenths)) /\ b.tenths \in Int
        /\ Policy!Threshold(x) # Policy!Word /\ x # Policy!Word
    BY <1>1, <1>4, <1>5, FirstIs
  <2>2. t.tenths = 10 * Policy!Trunc(b.tenths)
    BY <2>1 DEF Policy!Number
  <2> QED
    BY <2>1, <2>2, TruncIs
<1>6. ASSUME NEW n \in Int, x = Policy!Number(10 * n)
      PROVE  b.kind = "number" /\ Policy!Trunc(b.tenths) = n
  BY <1>6, TruncIs DEF Policy!Number, Policy!Bare
<1>7. CASE c.gate = "And"
  <2>1. b.kind = "number" /\ Policy!Trunc(b.tenths) = Len(Policy!Rules(c))
    BY <1>2, <1>3, <1>6, <1>7
  <2> QED
    BY <1>4, <1>5, <1>7, <2>1 DEF Wanted, x
<1>8. CASE c.gate = "Or"
  <2>1. b.kind = "number" /\ Policy!Trunc(b.tenths) = 1
    BY <1>2, <1>6, <1>8
  <2> QED
    BY <1>4, <1>5, <1>8, <2>1 DEF Wanted, x
<1>9. CASE c.gate = "OutOf"
  BY <1>2, <1>4, <1>5, <1>9 DEF Wanted, x
<1> QED
  BY <1>2, <1>7, <1>8, <1>9

(* What is well-formed passes every check. *)
IsRule(x) == x.kind \in {"principal", "call"}

(* No evaluation refuses a well-formed call.                               *)
LEMMA WellFormedPasses ==
  ASSUME NEW k, NEW c \in Gates(k), Policy!WellFormedCall(c),
         NEW two, two = Twice(c).args
  PROVE  /\ ~Policy!Fails(Policy!Given(c)) /\ ~Policy!Unknown(Once(c).args)
         /\ Policy!Sane(two) /\ \A i \in 1..Len(two) - 2 : IsRule(two[i + 2])
<1> DEFINE a   == Policy!Given(c)
           r   == Policy!Rules(c)
           one == Once(c).args
<1>1. Len(a) >= 2
  BY GivenIs
<1>2. /\ a \in Seq(Policy!Arguments(k)) /\ Len(r) = Len(a) - 1 /\ Len(a) \in Nat
      /\ \A i \in 1..Len(a) - 1 : r[i] = a[i + 1] /\ r[i] \in Policy!Arguments(k)
      /\ c.gate = "OutOf" => Len(c.args) = Len(r) + 1
      /\ c.gate \in {"And", "Or", "OutOf"}
  BY <1>1, GivenIs DEF Gates
<1>3. /\ DOMAIN r = 1..Len(r) /\ Len(two) = Len(r) + 2 /\ two[1] = Policy!ID
      /\ \A i \in 1..Len(r) : two[i + 2] = PrintedLater(r[i])
  BY <1>1, TwiceIs
<1>4. /\ two[2].kind = "number" /\ Policy!Trunc(two[2].tenths) = Wanted(c) /\ Wanted(c) \in Int
      /\ Policy!Threshold(a[1]) # Policy!Word /\ a[1] # Policy!Word
  BY <1>1, ThresholdIs DEF Policy!WellFormedCall
<1>5. one = Policy!outof(a).args
  BY DEF Once
<1> HIDE DEF a, r, one
<1>6. /\ DOMAIN one = 1..Len(a) /\ one[1] = Policy!Threshold(a[1])
      /\ \A i \in 1..Len(a) - 1 : one[i + 1] = Policy!Bare(a[i + 1])
  BY <1>1, <1>2, <1>5, PrintedIs
<1>7. \A i \in 1..Len(r) : IsRule(r[i])
  BY <1>3 DEF Policy!WellFormedCall, IsRule, r
<1>8. ASSUME NEW i \in 1..Len(r)
      PROVE  /\ PrintedLater(r[i]) = r[i] /\ Policy!Bare(r[i]) # Policy!Word
             /\ r[i] # Policy!Word /\ r[i].kind # "number"
  BY <1>2, <1>7, LaterIs DEF IsRule, Policy!Word
<1>9. ASSUME NEW i \in 1..Len(a), i > 1  PROVE  i - 1 \in 1..Len(r) /\ a[i] = r[i - 1]
  BY <1>2, <1>9
<1>10. ~Policy!Fails(a)
  <2>1. DOMAIN a = 1..Len(a)
    BY <1>2
  <2>2. ASSUME NEW i \in 1..Len(a)
        PROVE  a[i] # Policy!Word /\ ~(i > 1 /\ a[i].kind = "number")
    <3>1. CASE i = 1
      BY <1>4, <3>1
    <3>2. CASE i > 1
      BY <1>8, <1>9, <3>2
    <3> QED
      BY <3>1, <3>2
  <2> QED
    BY <1>1, <1>2, <2>1, <2>2 DEF Policy!Fails
<1>11. ~Policy!Unknown(one)
  <2>1. ASSUME NEW i \in 1..Len(a), i > 1  PROVE  one[i] = Policy!Bare(r[i - 1])
    <3>1. i - 1 \in 1..Len(a) - 1 /\ one[(i - 1) + 1] = Policy!Bare(a[(i - 1) + 1])
      BY <1>2, <1>6, <2>1
    <3> QED
      BY <1>9, <2>1, <3>1
  <2> QED
    BY <1>4, <1>6, <1>8, <1>9, <2>1 DEF Policy!Unknown
<1>12. Policy!InRange(Wanted(c), Len(r))
  BY <1>1, <1>2, <1>4 DEF Policy!InRange, Wanted, Policy!WellFormedCall, r
<1>13. Policy!Sane(two)
  BY <1>1, <1>2, <1>3, <1>4, <1>12 DEF Policy!Sane
<1>14. ASSUME NEW i \in 1..Len(two) - 2  PROVE  IsRule(two[i + 2])
  <2>1. i \in 1..Len(r) /\ two[i + 2] = PrintedLater(r[i])
    BY <1>2, <1>3
  <2> QED
    BY <1>7, <1>8, <2>1
<1> QED
  BY <1>10, <1>11, <1>13, <1>14 DEF a, one

(* What passes every check is well-formed. *)
LEMMA PassesWellFormed ==
  ASSUME NEW k, NEW c \in Gates(k), ~Policy!Fails(Policy!Given(c)),
         NEW two, two = Twice(c).args,
         Policy!Sane(two), \A i \in 1..Len(two) - 2 : IsRule(two[i + 2])
  PROVE  Policy!WellFormedCall(c)
<1> DEFINE r == Policy!Rules(c)
<1>1. Len(Policy!Given(c)) >= 2
  BY GivenIs DEF Policy!Fails
<1>2. c.gate = "OutOf" => Len(c.args) = Len(r) + 1
  BY <1>1, GivenIs
<1>3. /\ DOMAIN r = 1..Len(r) /\ Len(two) = Len(r) + 2 /\ Len(r) \in Nat \ {0}
      /\ \A i \in 1..Len(r) : r[i] \in Policy!Arguments(k) /\ two[i + 2] = PrintedLater(r[i])
  BY <1>1, TwiceIs
<1>4. two[2].kind = "number" /\ Policy!InRange(Policy!Trunc(two[2].tenths), Len(two) - 2)
  BY DEF Policy!Sane
<1>5. /\ c.gate = "OutOf" => Policy!Bare(c.args[1]).kind = "number"
      /\ Policy!Trunc(two[2].tenths) = Wanted(c) /\ Wanted(c) \in Int
  BY <1>1, <1>4, ThresholdIs
<1> HIDE DEF r
<1>6. \A i \in DOMAIN r : IsRule(r[i])
  BY <1>3, LaterIs DEF IsRule
<1>7. ASSUME c.gate = "OutOf"
      PROVE  /\ Len(c.args) > 1 /\ Policy!Bare(c.args[1]).kind = "number"
             /\ Policy!Trunc(Policy!Bare(c.args[1]).tenths) \in 0..Len(c.args)
  <2>1. Wanted(c) = Policy!Trunc(Policy!Bare(c.args[1]).tenths)
    BY <1>7 DEF Wanted
  <2>2. PICK w, n : w = Wanted(c) /\ n = Len(r)
    OBVIOUS
  <2>3. Len(two) - 2 = n /\ n \in Nat \ {0}
    BY <1>3, <2>2
  <2>4. Policy!InRange(w, n) /\ w \in Int
    BY <1>4, <1>5, <2>2, <2>3, Zenon
  <2>5. w \in 0..n + 1 /\ n + 1 > 1
    BY ONLY <2>3, <2>4 DEF Policy!InRange
  <2>6. Len(c.args) = n + 1
    BY <1>2, <1>7, <2>2
  <2> QED
    BY <1>5, <1>7, <2>1, <2>2, <2>5, <2>6
<1> QED
  BY <1>3, <1>6, <1>7 DEF Policy!WellFormedCall, IsRule, r

(* The third evaluation: the arguments of call k, the rules it has so far. *)
Args(k) == Twice(written[k]).args
Arity(k) == Len(Args(k)) - 2

RuleAt(k, i)  == IF k <= done THEN calls[k].rules[i] ELSE rules[i]
Handled(k, i) == k <= done \/ (k = done + 1 /\ i <= Len(rules))

IsReference(k, i) == Handled(k, i) /\ RuleAt(k, i).kind = "signed_by"

(* A rule says what the argument did. *)
Kept(rule, x) ==
  /\ IsRule(x)
  /\ x.kind = "call" => rule = x
  /\ x.kind = "principal" =>
       /\ rule = Policy!SignedBy(rule.index)
       /\ rule.index \in 0..IDNum - 1 /\ principals[rule.index + 1] = x.principal

Numbered ==
  /\ IDNum = Len(principals)
  /\ \A k \in DOMAIN written : \A i \in 1..Arity(k) :
       Handled(k, i) => Kept(RuleAt(k, i), Args(k)[i + 2])
  /\ \A k, l \in DOMAIN written : \A i \in 1..Arity(k), j \in 1..Arity(l) :
       /\ IsReference(k, i) /\ IsReference(l, j)
       /\ Policy!Before(<<k, i>>, <<l, j>>)
       => RuleAt(k, i).index < RuleAt(l, j).index
  /\ \A x \in 0..IDNum - 1 : \E k \in DOMAIN written : \E i \in 1..Arity(k) :
       IsReference(k, i) /\ RuleAt(k, i).index = x

Built(k) ==
  /\ Policy!Sane(Args(k))
  /\ calls[k] = Policy!NOutOf(Policy!Trunc(Args(k)[2].tenths), calls[k].rules)
  /\ DOMAIN calls[k].rules = 1..Arity(k)

Building ==
  /\ written # <<>>
  /\ \A k \in DOMAIN written :
       /\ ~Policy!Fails(Policy!Given(written[k])) /\ ~Policy!Unknown(Once(written[k]).args)
       /\ k <= done => Built(k)
       /\ k > done  => calls[k] = Twice(written[k])
  /\ rules # <<>> =>
       /\ done < Len(written)
       /\ Policy!Sane(Args(done + 1)) /\ Len(rules) <= Arity(done + 1)
  /\ Numbered

CompilerTables ==
  /\ written \in Written
  /\ calls = [k \in DOMAIN written |-> calls[k]] /\ Len(calls) = Len(written)
  /\ done \in 0..Len(written)
  /\ rules \in Seq({rules[i] : i \in DOMAIN rules})
  /\ IDNum \in Nat /\ principals \in Seq(Principal)
  /\ rules # <<>> => done < Len(calls) /\ Len(rules) <= Len(calls[done + 1].args) - 2

CompilingInv ==
  /\ CompilerTables
  /\ pass \in {"first", "second", "third", "compiled", "refused"}
  /\ pass \in {"first", "second"} => rules = <<>> /\ IDNum = 0 /\ principals = <<>>
  /\ pass = "first" => \A k \in DOMAIN written :
       /\ k <= done => /\ ~Policy!Fails(Policy!Given(written[k]))
                       /\ calls[k] = Once(written[k])
       /\ k > done  => calls[k] = written[k]
  /\ pass = "second" => \A k \in DOMAIN written :
       /\ ~Policy!Fails(Policy!Given(written[k]))
       /\ k <= done => /\ ~Policy!Unknown(Once(written[k]).args)
                       /\ calls[k] = Twice(written[k])
       /\ k > done  => calls[k] = Once(written[k])
  /\ pass \in {"third", "compiled"} => Building
  /\ pass = "compiled" => done = Len(written)
  /\ pass = "refused" => ~Policy!WellFormed(written)

(* A written policy consists of gates; its calls come before the ones that *)
(* name them.                                                              *)
LEMMA WrittenIs ==
  ASSUME written \in Written
  PROVE  /\ DOMAIN written = 1..Len(written) /\ Len(written) \in Nat
         /\ Len(written) = 0 => written = <<>>
         /\ \A k \in DOMAIN written : written[k] \in Gates(k)
<1>1. Policy!Parsed(written)
  BY TextsAssumption
<1> DEFINE A == Seq(Policy!Arguments(Len(written)))
           R == [gate : {"And", "Or", "OutOf"}, args : A]
<1>2. /\ written \in Seq(R)
      /\ \A k \in DOMAIN written : written[k].args \in Seq(Policy!Arguments(k))
  BY <1>1 DEF Policy!Parsed
<1> HIDE DEF A, R
<1>3. /\ DOMAIN written = 1..Len(written) /\ Len(written) \in Nat
      /\ Len(written) = 0 => written = <<>>
  BY <1>2
<1>4. ASSUME NEW k \in DOMAIN written  PROVE  written[k] \in Gates(k)
  <2>1. written[k] \in R
    BY <1>2, <1>3
  <2>2. /\ written[k].gate \in {"And", "Or", "OutOf"}
        /\ written[k] = [gate |-> written[k].gate, args |-> written[k].args]
    BY <2>1 DEF R
  <2>3. written[k].args \in Seq(Policy!Arguments(k))
    BY <1>2
  <2> QED
    BY ONLY <2>2, <2>3 DEF Gates
<1> QED
  BY <1>3, <1>4

(* A call that is made is rewritten in its place. *)
LEMMA RewriteIs ==
  ASSUME CompilerTables, done < Len(calls), NEW c, Policy!Rewrite(c)
  PROVE  /\ CompilerTables' /\ done + 1 \in DOMAIN written /\ done' = done + 1
         /\ calls'[done + 1] = c
         /\ \A k \in DOMAIN written : k # done + 1 => calls'[k] = calls[k]
         /\ rules' = <<>> /\ UNCHANGED <<written, pass, IDNum, principals>>
<1> DEFINE V == {calls[k] : k \in DOMAIN written} \cup {c}
<1>1. /\ DOMAIN written = 1..Len(written) /\ Len(written) \in Nat
      /\ Len(calls) = Len(written) /\ done \in 0..Len(written)
      /\ calls = [k \in DOMAIN written |-> calls[k]]
  BY WrittenIs DEF CompilerTables
<1>2. /\ calls' = [calls EXCEPT ![done + 1] = c] /\ done' = done + 1 /\ rules' = <<>>
      /\ UNCHANGED <<written, pass, IDNum, principals>>
  BY DEF Policy!Rewrite, Policy!context
<1>3. done + 1 \in DOMAIN written
  BY <1>1
<1>4. /\ calls' = [k \in DOMAIN written |-> calls'[k]] /\ calls'[done + 1] = c
      /\ \A k \in DOMAIN written : k # done + 1 => calls'[k] = calls[k]
  BY ONLY <1>1, <1>2, <1>3
<1>5. Len(calls') = Len(written)
  <2>1. calls' \in [1..Len(written) -> V]
    BY ONLY <1>1, <1>3, <1>4
  <2> HIDE DEF V
  <2> QED
    BY ONLY <1>1, <2>1
<1>6. CompilerTables'
  <2>1. rules' \in Seq({rules'[i] : i \in DOMAIN rules'})
    BY <1>2
  <2> QED
    BY <1>1, <1>2, <1>4, <1>5, <2>1 DEF CompilerTables
<1> QED
  BY <1>2, <1>3, <1>4, <1>6

(* An error leaves the tables as they are. *)
LEMMA RefuseKeeps ==
  ASSUME CompilingInv, Policy!Refuse, ~Policy!WellFormed(written)
  PROVE  CompilingInv'
<1>1. /\ pass' = "refused"
      /\ UNCHANGED <<written, calls, done, rules, IDNum, principals>>
  BY DEF Policy!Refuse, Policy!context
<1>2. CompilerTables'
  BY <1>1 DEF CompilingInv, CompilerTables
<1>3. ~Policy!WellFormed(written)'
  BY <1>1 DEF Policy!WellFormed
<1> QED
  BY <1>1, <1>2, <1>3 DEF CompilingInv

(* The first evaluation. *)
LEMMA FirstPassKeeps ==
  ASSUME CompilingInv, Policy!FirstPass
  PROVE  CompilingInv'
<1> DEFINE d == done + 1
<1>1. /\ pass = "first" /\ done < Len(calls) /\ CompilerTables
      /\ rules = <<>> /\ IDNum = 0 /\ principals = <<>>
  BY DEF CompilingInv, Policy!FirstPass
<1>2. /\ DOMAIN written = 1..Len(written) /\ d \in DOMAIN written /\ done \in Nat
      /\ written[d] \in Gates(d)
  BY <1>1, WrittenIs DEF CompilerTables
<1>3. calls[d] = written[d]
  BY <1>1, <1>2 DEF CompilingInv
<1>4. CASE Policy!Fails(Policy!Given(calls[d])) /\ Policy!Refuse
  <2>1. ~Policy!WellFormedCall(written[d])
    BY <1>2, <1>3, <1>4, WellFormedPasses
  <2> QED
    BY <1>2, <1>4, <2>1, RefuseKeeps DEF Policy!WellFormed
<1>5. CASE /\ ~Policy!Fails(Policy!Given(calls[d]))
           /\ Policy!Rewrite(Policy!outof(Policy!Given(calls[d])))
  <2> DEFINE c == Policy!outof(Policy!Given(calls[d]))
  <2>1. /\ CompilerTables' /\ done' = done + 1
        /\ calls'[d] = c /\ \A k \in DOMAIN written : k # d => calls'[k] = calls[k]
        /\ rules' = <<>> /\ UNCHANGED <<written, pass, IDNum, principals>>
    BY <1>1, <1>5, RewriteIs
  <2>2. c = Once(written[d]) /\ ~Policy!Fails(Policy!Given(written[d]))
    BY <1>3, <1>5 DEF Once
  <2> HIDE DEF c
  <2>3. ASSUME NEW k \in DOMAIN written
        PROVE  /\ k <= done' => /\ ~Policy!Fails(Policy!Given(written[k]))
                                /\ calls'[k] = Once(written[k])
               /\ k > done' => calls'[k] = written[k]
    <3>1. CASE k = d
      BY <1>2, <2>1, <2>2, <3>1
    <3>2. CASE k # d
      <4>1. /\ k <= done => /\ ~Policy!Fails(Policy!Given(written[k]))
                             /\ calls[k] = Once(written[k])
            /\ k > done => calls[k] = written[k]
        BY <1>1 DEF CompilingInv
      <4> QED
        BY <1>2, <2>1, <3>2, <4>1
    <3> QED
      BY <3>1, <3>2
  <2>4. \A k \in DOMAIN written' :
          /\ k <= done' => /\ ~Policy!Fails(Policy!Given(written'[k]))
                           /\ calls'[k] = Once(written'[k])
          /\ k > done' => calls'[k] = written'[k]
    BY <2>1, <2>3
  <2> QED
    BY <1>1, <2>1, <2>4 DEF CompilingInv
<1> QED
  BY <1>4, <1>5 DEF Policy!FirstPass

(* The second evaluation. *)
LEMMA SecondPassKeeps ==
  ASSUME CompilingInv, Policy!SecondPass
  PROVE  CompilingInv'
<1> DEFINE d == done + 1
<1>1. /\ pass = "second" /\ done < Len(calls) /\ CompilerTables
      /\ rules = <<>> /\ IDNum = 0 /\ principals = <<>>
  BY DEF CompilingInv, Policy!SecondPass
<1>2. /\ DOMAIN written = 1..Len(written) /\ d \in DOMAIN written /\ done \in Nat
      /\ written[d] \in Gates(d)
  BY <1>1, WrittenIs DEF CompilerTables
<1>3. calls[d] = Once(written[d])
  BY <1>1, <1>2 DEF CompilingInv
<1>4. CASE Policy!Unknown(calls[d].args) /\ Policy!Refuse
  <2>1. ~Policy!WellFormedCall(written[d])
    BY <1>2, <1>3, <1>4, WellFormedPasses
  <2> QED
    BY <1>2, <1>4, <2>1, RefuseKeeps DEF Policy!WellFormed
<1>5. CASE ~Policy!Unknown(calls[d].args) /\ Policy!Rewrite(Policy!firstPass(calls[d].args))
  <2> DEFINE c == Policy!firstPass(calls[d].args)
  <2>1. /\ CompilerTables' /\ done' = done + 1
        /\ calls'[d] = c /\ \A k \in DOMAIN written : k # d => calls'[k] = calls[k]
        /\ rules' = <<>> /\ UNCHANGED <<written, pass, IDNum, principals>>
    BY <1>1, <1>5, RewriteIs
  <2>2. c = Twice(written[d]) /\ ~Policy!Unknown(Once(written[d]).args)
    BY <1>3, <1>5 DEF Twice
  <2> HIDE DEF c
  <2>3. ASSUME NEW k \in DOMAIN written
        PROVE  /\ ~Policy!Fails(Policy!Given(written[k]))
               /\ k <= done' => /\ ~Policy!Unknown(Once(written[k]).args)
                                /\ calls'[k] = Twice(written[k])
               /\ k > done' => calls'[k] = Once(written[k])
    <3>0. /\ ~Policy!Fails(Policy!Given(written[k]))
          /\ k <= done => /\ ~Policy!Unknown(Once(written[k]).args)
                           /\ calls[k] = Twice(written[k])
          /\ k > done => calls[k] = Once(written[k])
      BY <1>1 DEF CompilingInv
    <3>1. CASE k = d
      BY <1>2, <2>1, <2>2, <3>0, <3>1
    <3>2. CASE k # d
      BY <1>2, <2>1, <3>0, <3>2
    <3> QED
      BY <3>1, <3>2
  <2>4. \A k \in DOMAIN written' :
          /\ ~Policy!Fails(Policy!Given(written'[k]))
          /\ k <= done' => /\ ~Policy!Unknown(Once(written'[k]).args)
                           /\ calls'[k] = Twice(written'[k])
          /\ k > done' => calls'[k] = Once(written'[k])
    BY <2>1, <2>3
  <2> QED
    BY <1>1, <2>1, <2>4 DEF CompilingInv
<1> QED
  BY <1>4, <1>5 DEF Policy!SecondPass

(* What the third evaluation has before it. *)
LEMMA ArityIs ==
  ASSUME written \in Written, NEW k \in DOMAIN written,
         ~Policy!Fails(Policy!Given(written[k]))
  PROVE  /\ written[k] \in Gates(k) /\ Len(Policy!Given(written[k])) >= 2
         /\ Len(Args(k)) = Arity(k) + 2 /\ Arity(k) \in Nat \ {0}
         /\ Arity(k) = Len(Policy!Rules(written[k]))
<1>1. written[k] \in Gates(k)
  BY WrittenIs
<1>2. /\ Policy!Given(written[k]) \in Seq(Policy!Arguments(k))
      /\ Len(Policy!Given(written[k])) \in Nat
  BY <1>1, GivenIs
<1>3. Len(Policy!Given(written[k])) >= 2
  BY <1>2 DEF Policy!Fails
<1>4. /\ Len(Policy!Rules(written[k])) \in Nat \ {0}
      /\ Len(Args(k)) = Len(Policy!Rules(written[k])) + 2
  BY <1>1, <1>3, TwiceIs DEF Args
<1> QED
  BY <1>1, <1>3, <1>4 DEF Arity

(* One evaluation after another. *)
LEMMA NextPassKeeps ==
  ASSUME CompilingInv, Policy!NextPass
  PROVE  CompilingInv'
<1>1. /\ pass \in {"first", "second"} /\ done = Len(calls) /\ CompilerTables
      /\ rules = <<>> /\ IDNum = 0 /\ principals = <<>>
  BY DEF CompilingInv, Policy!NextPass
<1>2. /\ DOMAIN written = 1..Len(written) /\ done = Len(written) /\ Len(written) \in Nat
      /\ Len(written) = 0 => written = <<>>
  BY <1>1, WrittenIs DEF CompilerTables
<1>3. CASE calls = <<>> /\ Policy!Refuse
  <2>1. written = <<>>
    BY <1>1, <1>2, <1>3
  <2> QED
    BY <1>3, <2>1, RefuseKeeps DEF Policy!WellFormed
<1>4. CASE /\ calls # <<>>
           /\ pass' = (IF pass = "first" THEN "second" ELSE "third") /\ done' = 0
           /\ UNCHANGED <<written, calls, rules, Policy!context>>
  <2>1. UNCHANGED <<written, calls, rules, IDNum, principals>> /\ done' = 0
    BY <1>4 DEF Policy!context
  <2>2. CompilerTables'
    BY <1>1, <1>2, <2>1 DEF CompilerTables
  <2>3. \A k \in DOMAIN written : k \in Nat /\ k <= done /\ ~(k <= 0)
    BY <1>2
  <2>4. CASE pass = "first"
    <3>1. \A k \in DOMAIN written :
            ~Policy!Fails(Policy!Given(written[k])) /\ calls[k] = Once(written[k])
      BY <2>3, <2>4 DEF CompilingInv
    <3>2. \A k \in DOMAIN written' :
            /\ ~Policy!Fails(Policy!Given(written'[k]))
            /\ ~(k <= done') /\ calls'[k] = Once(written'[k])
      BY <2>1, <2>3, <3>1
    <3>3. pass' = "second"
      BY <1>4, <2>4
    <3> QED
      BY <1>1, <2>1, <2>2, <3>2, <3>3 DEF CompilingInv
  <2>5. CASE pass = "second"
    <3>1. \A k \in DOMAIN written :
            /\ ~Policy!Fails(Policy!Given(written[k])) /\ ~Policy!Unknown(Once(written[k]).args)
            /\ calls[k] = Twice(written[k])
      BY <2>3, <2>5 DEF CompilingInv
    <3>2. \A k \in DOMAIN written' :
            /\ ~Policy!Fails(Policy!Given(written'[k])) /\ ~Policy!Unknown(Once(written'[k]).args)
            /\ ~(k <= done') /\ calls'[k] = Twice(written'[k])
      BY <2>1, <2>3, <3>1
    <3>3. pass' = "third"
      BY <1>4, <2>5
    <3>4. written' # <<>> /\ rules' = <<>>
      <4>1. calls = <<>> \/ Len(calls) # 0
        BY <1>1, <1>2 DEF CompilerTables
      <4> QED
        BY <1>1, <1>2, <1>4, <2>1, <4>1 DEF CompilerTables
    <3>5. IDNum' = 0 /\ Len(principals') = 0 /\ Len(rules') = 0
      BY <1>1, <2>1
    <3>6. \A k \in DOMAIN written' : \A i \in 1..Arity(k)' : ~Handled(k, i)'
      BY <1>2, <2>1, <3>5 DEF Handled
    <3>7. Numbered'
      BY <3>5, <3>6 DEF Numbered, IsReference
    <3>8. Building'
      BY <3>2, <3>4, <3>7 DEF Building
    <3> QED
      BY <2>2, <3>3, <3>8 DEF CompilingInv
  <2> QED
    BY <1>1, <2>4, <2>5
<1> QED
  BY <1>3, <1>4 DEF Policy!NextPass

(* The compiled policy is returned. *)
LEMMA EnvelopeKeeps ==
  ASSUME CompilingInv, Policy!Return
  PROVE  CompilingInv'
<1>1. /\ CompilerTables /\ Building /\ done = Len(calls) /\ pass' = "compiled"
      /\ UNCHANGED <<written, calls, done, rules, IDNum, principals>>
  BY DEF CompilingInv, Policy!Return, Policy!context
<1>2. CompilerTables'
  BY <1>1 DEF CompilerTables
<1>3. Numbered'
  <2>1. Numbered
    BY <1>1 DEF Building
  <2> QED
    BY <1>1, <2>1 DEF Numbered, Kept, IsReference, Handled, RuleAt, Args, Arity
<1>4. Building'
  BY <1>1, <1>3 DEF Building, Built, Args, Arity
<1> QED
  BY <1>1, <1>2, <1>4 DEF CompilingInv, CompilerTables

(* What every rule is, and where the references are. *)
LEMMA ReferenceIs ==
  ASSUME Numbered, NEW k \in DOMAIN written, NEW i \in 1..Arity(k), IsReference(k, i)
  PROVE  /\ Args(k)[i + 2].kind = "principal"
         /\ RuleAt(k, i) = Policy!SignedBy(RuleAt(k, i).index)
         /\ RuleAt(k, i).index \in 0..IDNum - 1
         /\ principals[RuleAt(k, i).index + 1] = Args(k)[i + 2].principal
<1>1. Kept(RuleAt(k, i), Args(k)[i + 2]) /\ RuleAt(k, i).kind = "signed_by"
  BY DEF Numbered, IsReference
<1> QED
  BY <1>1 DEF Kept, IsRule

(* A rule that is appended, of an inner call or of a new identity. *)
LEMMA AppendNumbered ==
  ASSUME Numbered, IDNum \in Nat, done \in Nat, NEW n \in Nat, Len(rules) = n,
         NEW T, rules \in Seq(T), principals \in Seq(Principal),
         DOMAIN written \subseteq Nat, done + 1 \in DOMAIN written,
         n + 1 \in 1..Arity(done + 1),
         \A k \in DOMAIN written : Arity(k) \in Nat,
         NEW x, x = Args(done + 1)[n + 3], NEW r, rules' = Append(rules, r),
         UNCHANGED <<written, calls, done>>,
         \/ /\ x.kind = "principal" /\ x.principal \in Principal /\ r = Policy!SignedBy(IDNum)
            /\ IDNum' = IDNum + 1 /\ principals' = Append(principals, x.principal)
         \/ x.kind = "call" /\ r = x /\ UNCHANGED <<IDNum, principals>>
  PROVE  Numbered'
<1> DEFINE d == done + 1
<1>0. /\ IDNum = Len(principals) /\ d \in Nat
      /\ IDNum' \in Nat /\ IDNum' = Len(principals') /\ IDNum <= IDNum'
      /\ \A j \in 0..IDNum - 1 : principals'[j + 1] = principals[j + 1]
  <2>1. IDNum = Len(principals)
    BY DEF Numbered
  <2>2. CASE /\ x.principal \in Principal /\ IDNum' = IDNum + 1
             /\ principals' = Append(principals, x.principal)
    <3>1. Len(principals') = IDNum + 1
      BY <2>1, <2>2
    <3>2. \A j \in 0..IDNum - 1 : principals'[j + 1] = principals[j + 1]
      BY <2>1, <2>2
    <3> QED
      BY <2>1, <2>2, <3>1, <3>2
  <2>3. CASE UNCHANGED <<IDNum, principals>>
    BY <2>1, <2>3
  <2> QED
    BY <2>2, <2>3
<1>1. /\ Len(rules') = n + 1 /\ rules'[n + 1] = r
      /\ \A i \in 1..n : rules'[i] = rules[i]
  <2>1. rules \in Seq(T \cup {r}) /\ r \in T \cup {r}
    OBVIOUS
  <2> QED
    BY <2>1
<1>2. \A k : Args(k)' = Args(k) /\ Arity(k)' = Arity(k)
  BY DEF Args, Arity
<1>3. ASSUME NEW k \in DOMAIN written, NEW i \in 1..Arity(k)
      PROVE  /\ Handled(k, i)' <=> Handled(k, i) \/ (k = d /\ i = n + 1)
             /\ Handled(k, i) => RuleAt(k, i)' = RuleAt(k, i) /\ ~(k = d /\ i = n + 1)
  <2>1. k \in Nat /\ i \in Nat /\ i >= 1
    OBVIOUS
  <2> QED
    BY <1>0, <1>1, <2>1 DEF Handled, RuleAt
<1>4. RuleAt(d, n + 1)' = r
  BY <1>0, <1>1 DEF RuleAt
<1>5. Kept(r, x)'
  <2>1. CASE /\ x.kind = "principal" /\ x.principal \in Principal
             /\ r = Policy!SignedBy(IDNum) /\ IDNum' = IDNum + 1
             /\ principals' = Append(principals, x.principal)
    <3>1. principals'[IDNum + 1] = x.principal
      BY <1>0, <2>1
    <3>2. r.index = IDNum /\ IDNum \in 0..IDNum' - 1
      BY <2>1 DEF Policy!SignedBy
    <3> QED
      BY <2>1, <3>1, <3>2 DEF Kept, IsRule
  <2>2. CASE x.kind = "call" /\ r = x
    BY <2>2 DEF Kept, IsRule
  <2> QED
    BY <2>1, <2>2
<1>6. ASSUME NEW k \in DOMAIN written, NEW i \in 1..Arity(k), Handled(k, i)'
      PROVE  Kept(RuleAt(k, i), Args(k)[i + 2])'
  <2>1. CASE k = d /\ i = n + 1
    <3>1. RuleAt(k, i)' = r /\ Args(k)'[i + 2] = x
      BY <1>2, <1>4, <2>1
    <3> QED
      BY <1>5, <3>1
  <2>2. CASE Handled(k, i)
    <3>1. RuleAt(k, i)' = RuleAt(k, i) /\ Args(k)' = Args(k)
      BY <1>2, <1>3, <2>2
    <3>2. Kept(RuleAt(k, i), Args(k)[i + 2])
      BY <2>2 DEF Numbered
    <3>3. PICK q, y : q = RuleAt(k, i) /\ y = Args(k)[i + 2]
      OBVIOUS
    <3>4. /\ IsRule(y)
          /\ y.kind = "call" => q = y
          /\ y.kind = "principal" =>
               /\ q = Policy!SignedBy(q.index)
               /\ q.index \in 0..IDNum' - 1 /\ principals'[q.index + 1] = y.principal
      <4>1. /\ IsRule(y) /\ (y.kind = "call" => q = y)
            /\ y.kind = "principal" =>
                 /\ q = Policy!SignedBy(q.index)
                 /\ q.index \in 0..IDNum - 1 /\ principals[q.index + 1] = y.principal
        BY <3>2, <3>3 DEF Kept
      <4>2. ASSUME NEW j \in 0..IDNum - 1
            PROVE  j \in 0..IDNum' - 1 /\ principals'[j + 1] = principals[j + 1]
        BY <1>0
      <4> QED
        BY <4>1, <4>2
    <3> QED
      BY <3>1, <3>3, <3>4 DEF Kept
  <2> QED
    BY <1>3, <1>6, <2>1, <2>2
<1>7. ASSUME NEW k \in DOMAIN written, NEW i \in 1..Arity(k)
      PROVE  /\ IsReference(k, i) => IsReference(k, i)' /\ RuleAt(k, i).index < IDNum
                                    /\ (k < d \/ (k = d /\ i <= n))
             /\ IsReference(k, i)' =>
                  \/ IsReference(k, i)
                  \/ /\ k = d /\ i = n + 1
                     /\ RuleAt(k, i)'.index = IDNum /\ IDNum' = IDNum + 1
  <2>1. ASSUME IsReference(k, i)
        PROVE  IsReference(k, i)' /\ RuleAt(k, i).index < IDNum /\ (k < d \/ (k = d /\ i <= n))
    <3>1. Handled(k, i) /\ RuleAt(k, i)' = RuleAt(k, i) /\ Handled(k, i)'
      BY <1>3, <2>1 DEF IsReference
    <3>2. k < d \/ (k = d /\ i <= n)
      BY <1>0, <3>1 DEF Handled
    <3>3. RuleAt(k, i).index \in 0..IDNum - 1
      BY <2>1, ReferenceIs
    <3>4. RuleAt(k, i).index < IDNum
      BY <3>3
    <3> QED
      BY <2>1, <3>1, <3>2, <3>4 DEF IsReference
  <2>2. ASSUME IsReference(k, i)', ~IsReference(k, i)
        PROVE  /\ k = d /\ i = n + 1
               /\ RuleAt(k, i)'.index = IDNum /\ IDNum' = IDNum + 1
    <3>1. Handled(k, i)' /\ RuleAt(k, i)'.kind = "signed_by"
      BY <2>2 DEF IsReference
    <3>2. ~Handled(k, i)
      BY <1>3, <2>2, <3>1 DEF IsReference
    <3>3. k = d /\ i = n + 1
      BY <1>3, <3>1, <3>2
    <3>4. r.kind = "signed_by"
      BY <1>4, <3>1, <3>3
    <3> QED
      BY <1>4, <3>3, <3>4 DEF Policy!SignedBy
  <2> QED
    BY <2>1, <2>2
<1>8. ASSUME NEW k \in DOMAIN written, NEW l \in DOMAIN written,
             NEW i \in 1..Arity(k), NEW j \in 1..Arity(l),
             IsReference(k, i)', IsReference(l, j)', Policy!Before(<<k, i>>, <<l, j>>)
      PROVE  RuleAt(k, i)'.index < RuleAt(l, j)'.index
  <2>0. k \in Nat /\ l \in Nat /\ i \in Nat /\ j \in Nat
    OBVIOUS
  <2>1. k < l \/ (k = l /\ i < j)
    BY <1>8 DEF Policy!Before
  <2>2. CASE IsReference(k, i) /\ IsReference(l, j)
    <3>1. RuleAt(k, i).index < RuleAt(l, j).index
      BY <1>8, <2>2 DEF Numbered
    <3>2. RuleAt(k, i)' = RuleAt(k, i) /\ RuleAt(l, j)' = RuleAt(l, j)
      BY <1>3, <2>2 DEF IsReference
    <3> QED
      BY <3>1, <3>2
  <2>3. CASE IsReference(k, i) /\ ~IsReference(l, j)
    <3>1. RuleAt(k, i).index < IDNum /\ RuleAt(l, j)'.index = IDNum
      BY <1>7, <1>8, <2>3
    <3>2. RuleAt(k, i)' = RuleAt(k, i)
      BY <1>3, <2>3 DEF IsReference
    <3> QED
      BY <3>1, <3>2
  <2>4. CASE ~IsReference(k, i)
    <3>1. k = d /\ i = n + 1
      BY <1>7, <1>8, <2>4
    <3>2. l < d \/ (l = d /\ j <= n + 1)
      BY <1>0, <1>7, <1>8
    <3> QED
      BY <1>0, <2>0, <2>1, <3>1, <3>2
  <2> QED
    BY <2>2, <2>3, <2>4
<1>9. ASSUME NEW y \in 0..IDNum' - 1
      PROVE  \E k \in DOMAIN written : \E i \in 1..Arity(k) :
               IsReference(k, i)' /\ RuleAt(k, i)'.index = y
  <2>1. CASE y \in 0..IDNum - 1
    <3>1. PICK k \in DOMAIN written : \E i \in 1..Arity(k) :
            IsReference(k, i) /\ RuleAt(k, i).index = y
      BY <2>1 DEF Numbered
    <3>2. PICK i \in 1..Arity(k) : IsReference(k, i) /\ RuleAt(k, i).index = y
      BY <3>1
    <3>3. IsReference(k, i)' /\ RuleAt(k, i)' = RuleAt(k, i)
      BY <1>3, <1>7, <3>2 DEF IsReference
    <3> QED
      BY <3>2, <3>3
  <2>2. CASE y \notin 0..IDNum - 1
    <3>1. y = IDNum /\ r = Policy!SignedBy(IDNum)
      BY <1>0, <2>2
    <3>2. IsReference(d, n + 1)' /\ RuleAt(d, n + 1)'.index = y
      BY <1>3, <1>4, <3>1 DEF IsReference, Policy!SignedBy
    <3> QED
      BY <3>2
  <2> QED
    BY <2>1, <2>2
<1>10. written' = written /\ \A k : Arity(k)' = Arity(k)
  BY <1>2
<1>11. /\ IDNum' = Len(principals')
       /\ \A k \in DOMAIN written' : \A i \in 1..Arity(k)' :
            Handled(k, i)' => Kept(RuleAt(k, i), Args(k)[i + 2])'
  BY <1>0, <1>6, <1>10
<1>12. \A k, l \in DOMAIN written' : \A i \in 1..Arity(k)', j \in 1..Arity(l)' :
         IsReference(k, i)' /\ IsReference(l, j)' /\ Policy!Before(<<k, i>>, <<l, j>>)
           => RuleAt(k, i)'.index < RuleAt(l, j)'.index
  BY <1>8, <1>10
<1>13. \A y \in 0..IDNum' - 1 : \E k \in DOMAIN written' : \E i \in 1..Arity(k)' :
         IsReference(k, i)' /\ RuleAt(k, i)'.index = y
  BY <1>9, <1>10
<1> QED
  BY ONLY <1>11, <1>12, <1>13 DEF Numbered

(* The rules of a call that is made are those it has.                      *)
LEMMA RewriteNumbered ==
  ASSUME Numbered, UNCHANGED <<written, IDNum, principals>>,
         DOMAIN written \subseteq Nat, \A k \in DOMAIN written : Arity(k) \in Nat,
         done \in Nat, done' = done + 1, rules' = <<>>,
         Len(rules) = Arity(done + 1), calls'[done + 1].rules = rules,
         \A k \in DOMAIN written : k # done + 1 => calls'[k] = calls[k]
  PROVE  Numbered'
<1>1. \A k : Args(k)' = Args(k) /\ Arity(k)' = Arity(k)
  BY DEF Args, Arity
<1>2. ASSUME NEW k \in DOMAIN written, NEW i \in 1..Arity(k)
      PROVE  /\ Handled(k, i)' <=> Handled(k, i)
             /\ Handled(k, i) => RuleAt(k, i)' = RuleAt(k, i)
             /\ IsReference(k, i)' <=> IsReference(k, i)
  <2>1. k \in Nat /\ i \in Nat /\ i >= 1 /\ i <= Arity(k) /\ Len(rules') = 0
    OBVIOUS
  <2>2. Handled(k, i)' <=> Handled(k, i)
    BY <2>1 DEF Handled
  <2>3. ASSUME Handled(k, i)  PROVE  RuleAt(k, i)' = RuleAt(k, i)
    <3>1. CASE k = done + 1
      BY <2>1, <3>1 DEF RuleAt
    <3>2. CASE k # done + 1
      BY <2>1, <2>3, <3>2 DEF RuleAt, Handled
    <3> QED
      BY <3>1, <3>2
  <2> QED
    BY <2>2, <2>3 DEF IsReference
<1>3. \A k \in DOMAIN written' : \A i \in 1..Arity(k)' :
        Handled(k, i)' => Kept(RuleAt(k, i), Args(k)[i + 2])'
  <2> SUFFICES ASSUME NEW k \in DOMAIN written, NEW i \in 1..Arity(k), Handled(k, i)
               PROVE  Kept(RuleAt(k, i), Args(k)[i + 2])'
    BY <1>1, <1>2
  <2>1. RuleAt(k, i)' = RuleAt(k, i) /\ Args(k)' = Args(k)
    BY <1>1, <1>2
  <2>2. Kept(RuleAt(k, i), Args(k)[i + 2])
    BY DEF Numbered
  <2> QED
    BY <2>1, <2>2 DEF Kept
<1>4. \A k, l \in DOMAIN written' : \A i \in 1..Arity(k)', j \in 1..Arity(l)' :
        IsReference(k, i)' /\ IsReference(l, j)' /\ Policy!Before(<<k, i>>, <<l, j>>)
          => RuleAt(k, i)'.index < RuleAt(l, j)'.index
  <2> SUFFICES ASSUME NEW k \in DOMAIN written, NEW l \in DOMAIN written,
                      NEW i \in 1..Arity(k), NEW j \in 1..Arity(l),
                      IsReference(k, i), IsReference(l, j), Policy!Before(<<k, i>>, <<l, j>>)
               PROVE  RuleAt(k, i)'.index < RuleAt(l, j)'.index
    BY <1>1, <1>2
  <2>1. RuleAt(k, i).index < RuleAt(l, j).index
    BY DEF Numbered
  <2>2. RuleAt(k, i)' = RuleAt(k, i) /\ RuleAt(l, j)' = RuleAt(l, j)
    BY <1>2 DEF IsReference
  <2> QED
    BY <2>1, <2>2
<1>5. \A y \in 0..IDNum' - 1 : \E k \in DOMAIN written' : \E i \in 1..Arity(k)' :
        IsReference(k, i)' /\ RuleAt(k, i)'.index = y
  <2> SUFFICES ASSUME NEW y \in 0..IDNum - 1
               PROVE  \E k \in DOMAIN written : \E i \in 1..Arity(k) :
                        IsReference(k, i)' /\ RuleAt(k, i)'.index = y
    BY <1>1
  <2>1. PICK k \in DOMAIN written : \E i \in 1..Arity(k) :
          IsReference(k, i) /\ RuleAt(k, i).index = y
    BY DEF Numbered
  <2>2. PICK i \in 1..Arity(k) : IsReference(k, i) /\ RuleAt(k, i).index = y
    BY <2>1
  <2>3. IsReference(k, i)' /\ RuleAt(k, i)' = RuleAt(k, i)
    BY <1>2, <2>2 DEF IsReference
  <2> QED
    BY <2>2, <2>3
<1>6. IDNum' = Len(principals')
  BY DEF Numbered
<1> QED
  BY ONLY <1>3, <1>4, <1>5, <1>6 DEF Numbered

(* The third evaluation: a call that is no policy is refused, ... *)
LEMMA ThirdIs ==
  ASSUME CompilingInv, Policy!ThirdPass
  PROVE  LET d == done + 1 IN
         /\ pass = "third" /\ CompilerTables /\ Building /\ done \in Nat /\ done < Len(written)
         /\ Len(written) \in Nat /\ DOMAIN written = 1..Len(written) /\ d \in DOMAIN written
         /\ written[d] \in Gates(d) /\ ~Policy!Fails(Policy!Given(written[d]))
         /\ calls[d].args = Args(d) /\ Args(d) = Twice(written[d]).args
         /\ Len(Args(d)) = Arity(d) + 2 /\ Len(calls) = Len(written)
         /\ \A k \in DOMAIN written : Arity(k) \in Nat \ {0}
<1>1. pass = "third" /\ CompilerTables /\ Building /\ done < Len(calls)
  BY DEF CompilingInv, Policy!ThirdPass
<1>2. /\ done \in Nat /\ done < Len(written) /\ written \in Written /\ Len(written) \in Nat
      /\ DOMAIN written = 1..Len(written) /\ done + 1 \in DOMAIN written
      /\ Len(calls) = Len(written)
  BY <1>1, WrittenIs DEF CompilerTables
<1>3. \A k \in DOMAIN written : ~Policy!Fails(Policy!Given(written[k]))
  BY <1>1 DEF Building
<1>4. calls[done + 1] = Twice(written[done + 1])
  BY <1>1, <1>2 DEF Building
<1>5. \A k \in DOMAIN written :
        /\ written[k] \in Gates(k) /\ Arity(k) \in Nat \ {0} /\ Len(Args(k)) = Arity(k) + 2
  BY <1>2, <1>3, ArityIs
<1> QED
  BY <1>1, <1>2, <1>3, <1>4, <1>5 DEF Args

(* What the third evaluation refuses was not well formed.                  *)
LEMMA ThirdRefuses ==
  ASSUME CompilingInv, Policy!ThirdPass, Policy!Refuse,
         \/ ~Policy!Sane(Args(done + 1))
         \/ \E i \in 1..Arity(done + 1) : ~IsRule(Args(done + 1)[i + 2])
  PROVE  CompilingInv'
<1> DEFINE d == done + 1
<1>1. /\ d \in DOMAIN written /\ written[d] \in Gates(d)
      /\ Args(d) = Twice(written[d]).args
  BY ThirdIs
<1>2. ~Policy!WellFormedCall(written[d])
  BY <1>1, WellFormedPasses DEF Arity
<1> QED
  BY <1>1, <1>2, RefuseKeeps DEF Policy!WellFormed

(* An argument that makes a rule is as it was written. *)
LEMMA RuleArgument ==
  ASSUME written \in Written, NEW k \in DOMAIN written,
         ~Policy!Fails(Policy!Given(written[k])), NEW i \in 1..Arity(k),
         IsRule(Args(k)[i + 2])
  PROVE  /\ Args(k)[i + 2] = Policy!Rules(written[k])[i]
         /\ Args(k)[i + 2] \in Policy!Arguments(k)
<1> DEFINE r == Policy!Rules(written[k])
<1>1. /\ written[k] \in Gates(k) /\ Len(Policy!Given(written[k])) >= 2
      /\ Arity(k) = Len(r)
  BY ArityIs
<1>2. r[i] \in Policy!Arguments(k) /\ Args(k)[i + 2] = PrintedLater(r[i])
  BY <1>1, TwiceIs DEF Args
<1> HIDE DEF r
<1>3. PrintedLater(r[i]) = r[i]
  BY <1>2, LaterIs DEF IsRule
<1> QED
  BY <1>2, <1>3 DEF r

(* ... an argument is handled after another, ... *)
LEMMA HandleKeeps ==
  ASSUME CompilingInv, Policy!ThirdPass, Policy!Sane(Args(done + 1)),
         Len(rules) < Arity(done + 1), Policy!Handle(Args(done + 1)[Len(rules) + 3])
  PROVE  CompilingInv'
<1> DEFINE d == done + 1
           n == Len(rules)
           x == Args(d)[n + 3]
<1>1. /\ pass = "third" /\ CompilerTables /\ Building /\ done \in Nat /\ done < Len(written)
      /\ Len(written) \in Nat /\ DOMAIN written = 1..Len(written) /\ d \in DOMAIN written
      /\ ~Policy!Fails(Policy!Given(written[d]))
      /\ calls[d].args = Args(d) /\ Len(calls) = Len(written)
      /\ Len(Args(d)) = Arity(d) + 2
      /\ \A k \in DOMAIN written : Arity(k) \in Nat \ {0}
  BY ThirdIs
<1>2. /\ n \in Nat /\ n + 1 \in 1..Arity(d) /\ (n + 1) + 2 = n + 3
      /\ Arity(d) \in Nat /\ n + 1 <= Arity(d)
      /\ rules \in Seq({rules[i] : i \in DOMAIN rules})
  <2>1. rules \in Seq({rules[i] : i \in DOMAIN rules})
    BY <1>1 DEF CompilerTables
  <2>2. n \in Nat /\ n < Arity(d) /\ Arity(d) \in Nat
    BY <1>1, <2>1
  <2> QED
    BY <2>1, <2>2
<1>3. CASE x.kind \notin {"principal", "call"} /\ Policy!Refuse
  <2>1. ~IsRule(Args(d)[(n + 1) + 2])
    BY <1>2, <1>3 DEF IsRule
  <2> QED
    BY <1>2, <1>3, <2>1, ThirdRefuses
<1>4. ASSUME NEW r, rules' = Append(rules, r), UNCHANGED <<written, calls, pass, done>>,
             \/ /\ x.kind = "principal" /\ r = Policy!SignedBy(IDNum)
                /\ IDNum' = IDNum + 1 /\ principals' = Append(principals, x.principal)
             \/ x.kind = "call" /\ r = x /\ UNCHANGED <<IDNum, principals>>
      PROVE  CompilingInv'
  <2>1. x.kind = "principal" => x.principal \in Principal
    <3>1. x.kind = "principal" => x \in Policy!Arguments(d)
      <4>1. x = Args(d)[(n + 1) + 2] /\ written \in Written
        BY <1>1, <1>2 DEF CompilerTables
      <4> HIDE DEF x, n, d
      <4> QED
        BY <1>1, <1>2, <4>1, RuleArgument DEF IsRule
    <3> HIDE DEF x
    <3> QED
      BY <3>1, ArgumentIs
  <2>2. Numbered
    BY <1>1 DEF Building
  <2>3. IDNum \in Nat /\ principals \in Seq(Principal)
    BY <1>1 DEF CompilerTables
  <2>4. Numbered'
    <3>1. DOMAIN written \subseteq Nat
      BY <1>1
    <3> QED
      BY <1>1, <1>2, <1>4, <2>1, <2>2, <2>3, <3>1, AppendNumbered
  <2>5. Len(rules') = n + 1 /\ rules' \in Seq({rules'[i] : i \in DOMAIN rules'})
    <3>1. rules \in Seq({rules[i] : i \in DOMAIN rules} \cup {r})
      BY <1>2
    <3>2. Len(rules') = n + 1 /\ DOMAIN rules' = 1..n + 1
          /\ rules' \in Seq({rules[i] : i \in DOMAIN rules} \cup {r})
      BY <1>2, <1>4, <3>1
    <3> QED
      BY <1>2, <3>2
  <2>6. IDNum' \in Nat /\ principals' \in Seq(Principal)
    <3>1. CASE /\ x.kind = "principal" /\ IDNum' = IDNum + 1
               /\ principals' = Append(principals, x.principal)
      BY <2>1, <2>3, <3>1
    <3>2. CASE UNCHANGED <<IDNum, principals>>
      BY <2>3, <3>2
    <3> QED
      BY <1>4, <3>1, <3>2
  <2>7. CompilerTables'
    <3>1. done' < Len(calls') /\ Len(rules') <= Len(calls'[done' + 1].args) - 2
      <4>1. calls' = calls /\ done' = done
        BY <1>4
      <4>2. calls'[done' + 1].args = Args(d)
        BY <1>1, <4>1
      <4>3. Len(Args(d)) - 2 = Arity(d)
        BY ONLY <1>1, <1>2
      <4> QED
        BY <1>1, <1>2, <2>5, <4>1, <4>2, <4>3
    <3>2. /\ written' \in Written /\ done' \in 0..Len(written')
          /\ calls' = [k \in DOMAIN written' |-> calls'[k]] /\ Len(calls') = Len(written')
      <4>1. /\ written \in Written /\ done \in 0..Len(written)
            /\ calls = [k \in DOMAIN written |-> calls[k]] /\ Len(calls) = Len(written)
        BY <1>1 DEF CompilerTables
      <4>2. written' = written /\ calls' = calls /\ done' = done
        BY <1>4
      <4> QED
        BY ONLY <4>1, <4>2
    <3> QED
      BY ONLY <2>5, <2>6, <3>1, <3>2 DEF CompilerTables
  <2>8. \A k : Args(k)' = Args(k) /\ Arity(k)' = Arity(k)
    BY <1>4 DEF Args, Arity
  <2>9. Building'
    <3>1. written' # <<>>
      BY <1>1, <1>4 DEF Building
    <3>2. \A k \in DOMAIN written' :
            /\ ~Policy!Fails(Policy!Given(written'[k])) /\ ~Policy!Unknown(Once(written'[k]).args)
            /\ k <= done' => Built(k)'
            /\ k > done' => calls'[k] = Twice(written'[k])
      BY <1>1, <1>4, <2>8 DEF Building, Built
    <3>3. done' < Len(written') /\ Policy!Sane(Args(done + 1)') /\ Len(rules') <= Arity(done + 1)'
      BY <1>1, <1>2, <1>4, <2>5, <2>8
    <3> QED
      BY <1>4, <2>4, <3>1, <3>2, <3>3 DEF Building
  <2> QED
    BY <1>1, <1>4, <2>7, <2>9 DEF CompilingInv
<1> QED
  BY <1>3, <1>4 DEF Policy!Handle, Policy!Position, Policy!context

(* ... and the policy of a call has the rules of all its arguments.        *)
LEMMA MakeKeeps ==
  ASSUME CompilingInv, Policy!ThirdPass, Policy!Sane(Args(done + 1)),
         Len(rules) = Arity(done + 1),
         Policy!Rewrite(Policy!NOutOf(Policy!Trunc(Args(done + 1)[2].tenths), rules))
  PROVE  CompilingInv'
<1> DEFINE d == done + 1
           c == Policy!NOutOf(Policy!Trunc(Args(d)[2].tenths), rules)
<1>1. /\ pass = "third" /\ CompilerTables /\ Building /\ done \in Nat /\ done < Len(written)
      /\ Len(written) \in Nat /\ DOMAIN written = 1..Len(written) /\ d \in DOMAIN written
      /\ Len(calls) = Len(written)
      /\ \A k \in DOMAIN written : Arity(k) \in Nat \ {0}
  BY ThirdIs
<1>2. /\ CompilerTables' /\ done' = done + 1 /\ calls'[d] = c
      /\ \A k \in DOMAIN written : k # d => calls'[k] = calls[k]
      /\ rules' = <<>> /\ UNCHANGED <<written, pass, IDNum, principals>>
  BY <1>1, RewriteIs
<1>3. /\ c.rules = rules /\ c = Policy!NOutOf(Policy!Trunc(Args(d)[2].tenths), c.rules)
      /\ DOMAIN rules = 1..Arity(d)
  <2>1. DOMAIN rules = 1..Arity(d)
    BY <1>1 DEF CompilerTables
  <2> QED
    BY <2>1 DEF Policy!NOutOf
<1> HIDE DEF c
<1>4. Numbered'
  <2>1. Numbered /\ DOMAIN written \subseteq Nat
    BY <1>1 DEF Building
  <2>2. calls'[d].rules = rules
    BY <1>2, <1>3
  <2> QED
    BY <1>1, <1>2, <2>1, <2>2, RewriteNumbered
<1>5. \A k : Args(k)' = Args(k) /\ Arity(k)' = Arity(k)
  BY <1>2 DEF Args, Arity
<1>6. ASSUME NEW k \in DOMAIN written
      PROVE  /\ ~Policy!Fails(Policy!Given(written[k])) /\ ~Policy!Unknown(Once(written[k]).args)
             /\ k <= done' => Built(k)'
             /\ k > done' => calls'[k] = Twice(written[k])
  <2>1. /\ ~Policy!Fails(Policy!Given(written[k])) /\ ~Policy!Unknown(Once(written[k]).args)
        /\ k <= done => Built(k)
        /\ k > done => calls[k] = Twice(written[k])
    BY <1>1 DEF Building
  <2>2. CASE k = d
    <3>1. calls'[k] = c /\ Args(k)' = Args(d) /\ Arity(k)' = Arity(d)
      BY <1>2, <1>5, <2>2
    <3>2. Built(k)'
      BY <1>3, <3>1 DEF Built
    <3> QED
      BY <1>1, <1>2, <2>1, <2>2, <3>2
  <2>3. CASE k # d
    <3>1. Built(k) => Built(k)'
      BY <1>2, <1>5, <2>3 DEF Built
    <3> QED
      BY <1>1, <1>2, <2>1, <2>3, <3>1
  <2> QED
    BY <2>2, <2>3
<1>7. Building'
  <2>1. written' # <<>> /\ written' = written /\ rules' = <<>>
    BY <1>1, <1>2 DEF Building
  <2> QED
    BY <1>4, <1>6, <2>1 DEF Building
<1> QED
  BY <1>1, <1>2, <1>7 DEF CompilingInv

(* The third evaluation.                                                   *)
LEMMA ThirdPassKeeps ==
  ASSUME CompilingInv, Policy!ThirdPass
  PROVE  CompilingInv'
<1> DEFINE d == done + 1
<1>1. calls[d].args = Args(d) /\ Len(Args(d)) - 2 = Arity(d)
  BY ThirdIs DEF Arity
<1>2. \/ ~Policy!Sane(Args(d)) /\ Policy!Refuse
      \/ Policy!Sane(Args(d)) /\ Len(rules) < Arity(d) /\ Policy!Handle(Args(d)[Len(rules) + 3])
      \/ /\ Policy!Sane(Args(d)) /\ Len(rules) = Arity(d)
         /\ Policy!Rewrite(Policy!NOutOf(Policy!Trunc(Args(d)[2].tenths), rules))
  BY <1>1 DEF Policy!ThirdPass
<1> QED
  BY <1>2, ThirdRefuses, HandleKeeps, MakeKeeps

(* FromString keeps the invariant from the text to the envelope.           *)
LEMMA CompilingInvariance ==
  Policy!Spec => []CompilingInv
<1>1. Policy!Init => CompilingInv
  <2> SUFFICES ASSUME Policy!Init  PROVE CompilingInv
    OBVIOUS
  <2>1. /\ written \in Written /\ calls = written /\ pass = "first" /\ done = 0
        /\ rules = <<>> /\ IDNum = 0 /\ principals = <<>>
    BY DEF Policy!Init
  <2>2. /\ DOMAIN written = 1..Len(written) /\ Len(written) \in Nat
        /\ written = [k \in DOMAIN written |-> written[k]]
    <3>1. Policy!Parsed(written)
      BY <2>1, TextsAssumption
    <3>2. written = [k \in DOMAIN written |-> written[k]]
      BY <3>1 DEF Policy!Parsed
    <3> QED
      BY <2>1, <3>2, WrittenIs
  <2>3. CompilerTables
    BY <2>1, <2>2 DEF CompilerTables
  <2> QED
    BY <2>1, <2>2, <2>3 DEF CompilingInv
<1>2. CompilingInv /\ [Policy!Next]_(Policy!vars) => CompilingInv'
  <2> SUFFICES ASSUME CompilingInv, [Policy!Next]_(Policy!vars)  PROVE CompilingInv'
    OBVIOUS
  <2>1. CASE Policy!FirstPass
    BY <2>1, FirstPassKeeps
  <2>2. CASE Policy!SecondPass
    BY <2>2, SecondPassKeeps
  <2>3. CASE Policy!ThirdPass
    BY <2>3, ThirdPassKeeps
  <2>4. CASE Policy!NextPass
    BY <2>4, NextPassKeeps
  <2>5. CASE Policy!Return
    BY <2>5, EnvelopeKeeps
  <2>6. CASE UNCHANGED Policy!vars
    <3>1. UNCHANGED <<written, calls, pass, done, rules, IDNum, principals>>
      BY <2>6 DEF Policy!vars, Policy!context
    <3>2. CompilerTables'
      BY <3>1 DEF CompilingInv, CompilerTables
    <3>3. Building => Building'
      <4>1. Numbered => Numbered'
        BY <3>1 DEF Numbered, Kept, IsReference, Handled, RuleAt, Args, Arity
      <4> QED
        BY <3>1, <4>1 DEF Building, Built, Args, Arity
    <3> QED
      BY <3>1, <3>2, <3>3 DEF CompilingInv
  <2> QED
    BY <2>1, <2>2, <2>3, <2>4, <2>5, <2>6 DEF Policy!Next
<1> QED
  BY <1>1, <1>2, PTL DEF Policy!Spec

(* What the third evaluation leaves. *)
LEMMA CompiledIs ==
  ASSUME CompilingInv, pass = "compiled"
  PROVE  /\ Building /\ Numbered /\ written \in Written /\ written # <<>>
         /\ DOMAIN calls = DOMAIN written /\ Len(calls) = Len(written)
         /\ DOMAIN written = 1..Len(written) /\ Len(written) \in Nat
         /\ IDNum \in Nat /\ IDNum = Len(principals)
         /\ \A k \in DOMAIN written :
              /\ ~Policy!Fails(Policy!Given(written[k]))
              /\ Built(k) /\ Arity(k) \in Nat \ {0}
              /\ \A i \in 1..Arity(k) :
                   /\ Handled(k, i) /\ RuleAt(k, i) = calls[k].rules[i]
                   /\ Kept(RuleAt(k, i), Args(k)[i + 2])
<1>1. CompilerTables /\ Building /\ done = Len(written)
  BY DEF CompilingInv
<1>2. /\ written \in Written /\ DOMAIN written = 1..Len(written) /\ Len(written) \in Nat
      /\ Len(calls) = Len(written) /\ DOMAIN calls = DOMAIN written /\ IDNum \in Nat
  BY <1>1, WrittenIs DEF CompilerTables
<1>3. Numbered /\ written # <<>> /\ IDNum = Len(principals)
  BY <1>1 DEF Building, Numbered
<1>4. ASSUME NEW k \in DOMAIN written
      PROVE  /\ ~Policy!Fails(Policy!Given(written[k]))
             /\ Built(k) /\ Arity(k) \in Nat \ {0} /\ k <= done
  BY <1>1, <1>2, ArityIs DEF Building
<1>5. ASSUME NEW k \in DOMAIN written, NEW i \in 1..Arity(k)
      PROVE  /\ Handled(k, i) /\ RuleAt(k, i) = calls[k].rules[i]
             /\ Kept(RuleAt(k, i), Args(k)[i + 2])
  <2>1. Handled(k, i) /\ RuleAt(k, i) = calls[k].rules[i]
    BY <1>4 DEF Handled, RuleAt
  <2> QED
    BY <1>3, <2>1 DEF Numbered
<1> QED
  BY <1>1, <1>2, <1>3, <1>4, <1>5

(* The references of the envelope are the rules of all its calls.          *)
LEMMA IdentitiesAreInStep ==
  ASSUME CompilingInv  PROVE  Policy!IdentitiesInStep
<1> SUFFICES ASSUME pass = "compiled"
             PROVE  /\ IDNum = Len(principals)
                    /\ {Policy!Index(r) : r \in Policy!References} = 0..Len(principals) - 1
                    /\ \A r, s \in Policy!References :
                         Policy!Before(r, s) <=> Policy!Index(r) < Policy!Index(s)
  BY DEF Policy!IdentitiesInStep
<1>1. /\ Numbered /\ IDNum \in Nat /\ IDNum = Len(principals)
      /\ DOMAIN calls = DOMAIN written /\ DOMAIN written = 1..Len(written) /\ Len(written) \in Nat
      /\ \A k \in DOMAIN written :
           /\ Built(k) /\ Arity(k) \in Nat
           /\ \A i \in 1..Arity(k) : Handled(k, i) /\ RuleAt(k, i) = calls[k].rules[i]
  BY CompiledIs
<1>2. ASSUME NEW r \in Policy!References
      PROVE  \E k \in DOMAIN written : \E i \in 1..Arity(k) :
               r = <<k, i>> /\ IsReference(k, i) /\ Policy!Index(r) = RuleAt(k, i).index
  <2>1. PICK k \in DOMAIN written : r \in {k} \X DOMAIN calls[k].rules
    BY <1>1 DEF Policy!References
  <2>2. PICK i \in DOMAIN calls[k].rules : r = <<k, i>>
    BY <2>1
  <2>3. i \in 1..Arity(k) /\ calls[k].rules[i].kind = "signed_by"
    BY <1>1, <2>2 DEF Policy!References, Built
  <2>4. IsReference(k, i)
    BY <1>1, <2>3 DEF IsReference
  <2>5. Policy!Index(r) = RuleAt(k, i).index
    BY <1>1, <2>2, <2>3 DEF Policy!Index
  <2> QED
    BY <2>2, <2>3, <2>4, <2>5
<1>3. ASSUME NEW k \in DOMAIN written, NEW i \in 1..Arity(k), IsReference(k, i)
      PROVE  <<k, i>> \in Policy!References /\ Policy!Index(<<k, i>>) = RuleAt(k, i).index
  <2>1. i \in DOMAIN calls[k].rules /\ calls[k].rules[i].kind = "signed_by"
    BY <1>1, <1>3 DEF Built, IsReference
  <2>2. <<k, i>> \in UNION {{l} \X DOMAIN calls[l].rules : l \in DOMAIN calls}
    BY <1>1, <2>1
  <2> QED
    BY <1>1, <2>1, <2>2 DEF Policy!References, Policy!Index
<1>4. ASSUME NEW r \in Policy!References  PROVE  Policy!Index(r) \in 0..IDNum - 1
  BY <1>1, <1>2, ReferenceIs
<1>5. {Policy!Index(r) : r \in Policy!References} = 0..IDNum - 1
  <2>1. ASSUME NEW y \in 0..IDNum - 1  PROVE  \E r \in Policy!References : Policy!Index(r) = y
    <3>1. PICK k \in DOMAIN written : \E i \in 1..Arity(k) :
            IsReference(k, i) /\ RuleAt(k, i).index = y
      BY <1>1 DEF Numbered
    <3>2. PICK i \in 1..Arity(k) : IsReference(k, i) /\ RuleAt(k, i).index = y
      BY <3>1
    <3> QED
      BY <1>3, <3>2
  <2> QED
    BY <1>4, <2>1
<1>6. ASSUME NEW r \in Policy!References, NEW s \in Policy!References
      PROVE  Policy!Before(r, s) <=> Policy!Index(r) < Policy!Index(s)
  <2>1. PICK k \in DOMAIN written : \E i \in 1..Arity(k) :
          r = <<k, i>> /\ IsReference(k, i) /\ Policy!Index(r) = RuleAt(k, i).index
    BY <1>2
  <2>2. PICK i \in 1..Arity(k) :
          r = <<k, i>> /\ IsReference(k, i) /\ Policy!Index(r) = RuleAt(k, i).index
    BY <2>1
  <2>3. PICK l \in DOMAIN written : \E j \in 1..Arity(l) :
          s = <<l, j>> /\ IsReference(l, j) /\ Policy!Index(s) = RuleAt(l, j).index
    BY <1>2
  <2>4. PICK j \in 1..Arity(l) :
          s = <<l, j>> /\ IsReference(l, j) /\ Policy!Index(s) = RuleAt(l, j).index
    BY <2>3
  <2>5. Policy!Before(r, s) => Policy!Index(r) < Policy!Index(s)
    BY <1>1, <2>2, <2>4 DEF Numbered
  <2>6. Policy!Before(s, r) => Policy!Index(s) < Policy!Index(r)
    BY <1>1, <2>2, <2>4 DEF Numbered
  <2>7. Policy!Before(r, s) \/ Policy!Before(s, r) \/ r = s
    <3>1. k \in Nat /\ l \in Nat /\ i \in Nat /\ j \in Nat
      BY <1>1
    <3>2. k < l \/ (k = l /\ i < j) \/ l < k \/ (l = k /\ j < i) \/ (k = l /\ i = j)
      BY <3>1
    <3> QED
      BY <2>2, <2>4, <3>2 DEF Policy!Before
  <2>8. Policy!Index(r) \in Int /\ Policy!Index(s) \in Int
    BY <1>4
  <2> QED
    BY <2>5, <2>6, <2>7, <2>8
<1> QED
  BY <1>1, <1>5, <1>6

(* What compiles was well formed.                                          *)
LEMMA WellFormedAccepted ==
  ASSUME CompilingInv  PROVE  Policy!AcceptsWellFormed
<1>1. ASSUME pass = "compiled"  PROVE  Policy!WellFormed(written)
  <2>1. /\ written # <<>> /\ written \in Written
        /\ \A k \in DOMAIN written :
             /\ ~Policy!Fails(Policy!Given(written[k]))
             /\ Built(k) /\ \A i \in 1..Arity(k) : Kept(RuleAt(k, i), Args(k)[i + 2])
    BY <1>1, CompiledIs
  <2>2. ASSUME NEW k \in DOMAIN written  PROVE  Policy!WellFormedCall(written[k])
    <3>1. written[k] \in Gates(k) /\ Args(k) = Twice(written[k]).args
      BY <2>1, WrittenIs DEF Args
    <3>2. Policy!Sane(Args(k)) /\ \A i \in 1..Len(Args(k)) - 2 : IsRule(Args(k)[i + 2])
      BY <2>1 DEF Built, Kept, Arity
    <3> QED
      BY <2>1, <3>1, <3>2, PassesWellFormed
  <2> QED
    BY <2>1, <2>2 DEF Policy!WellFormed
<1> QED
  BY <1>1 DEF CompilingInv, Policy!AcceptsWellFormed

(* The instance counts as FiniteSets does.                                 *)
LEMMA SamePolicyCardinality ==
  ASSUME NEW T PROVE Policy!Cardinality(T) = Cardinality(T)
BY DEF Policy!Cardinality, Cardinality

(* How many of n hold. *)
LEMMA HowMany ==
  ASSUME NEW n \in Nat \ {0}, NEW T \in SUBSET (1..n)
  PROVE  /\ Policy!Cardinality(T) \in Nat
         /\ Policy!Cardinality(T) >= n <=> T = 1..n
         /\ Policy!Cardinality(T) >= 1 <=> T # {}
<1>1. IsFiniteSet(1..n) /\ Cardinality(1..n) = n
  BY FS_Interval
<1>2. /\ IsFiniteSet(T) /\ Cardinality(T) <= n
      /\ Cardinality(T) = n => T = 1..n
  BY <1>1, FS_Subset
<1>3. Cardinality(T) \in Nat /\ (Cardinality(T) = 0 <=> T = {})
  BY <1>2, FS_CardinalityType, FS_EmptySet
<1>4. T = 1..n => Cardinality(T) = n
  BY <1>1, Zenon
<1>5. Policy!Cardinality(T) = Cardinality(T)
  BY SamePolicyCardinality
<1> DEFINE card == Cardinality(T)
<1> HIDE DEF card
<1>6. /\ card \in Nat /\ card <= n
      /\ (card = n) <=> (T = 1..n)
      /\ (card = 0) <=> (T = {})
  BY <1>2, <1>3, <1>4 DEF card
<1>7. ((card >= n) <=> (card = n)) /\ ((card >= 1) <=> ~(card = 0))
  <2>1. card \in Nat /\ card <= n
    BY <1>6
  <2> QED
    BY ONLY <2>1, n \in Nat
<1>8. /\ (card >= n) <=> (T = 1..n)
      /\ (card >= 1) <=> (T # {})
  BY <1>6, <1>7, Zenon
<1>9. Policy!Cardinality(T) = card
  BY <1>5 DEF card
<1> QED
  BY ONLY <1>6, <1>8, <1>9

(* A call holds as it was written and as it was compiled. *)
LEMMA CallsMean ==
  ASSUME CompilingInv, pass = "compiled", NEW S, NEW f, NEW k \in DOMAIN written
  PROVE  LET c    == written[k]
             true == {i \in DOMAIN Policy!Rules(c) :
                        LET x == Policy!Rules(c)[i]
                        IN  IF x.kind = "call" THEN f[x.place] ELSE x.principal \in S}
         IN (CASE c.gate = "And" -> true = DOMAIN Policy!Rules(c)
               [] c.gate = "Or"  -> true # {}
               [] OTHER          ->
                    Policy!Cardinality(true) >= Policy!Trunc(Policy!Bare(c.args[1]).tenths))
            <=>
            Policy!Cardinality({i \in DOMAIN calls[k].rules :
              LET x == calls[k].rules[i]
              IN  IF x.kind = "call" THEN f[x.place]
                  ELSE /\ x.index \in 0..Len(principals) - 1
                       /\ principals[x.index + 1] \in S})
              >= calls[k].n
<1> DEFINE c == written[k]
           r == Policy!Rules(c)
           n == Arity(k)
           two == Args(k)
           compiled == calls[k].rules
           written_(i) == IF r[i].kind = "call" THEN f[r[i].place] ELSE r[i].principal \in S
           compiled_(i) == IF compiled[i].kind = "call" THEN f[compiled[i].place]
                           ELSE /\ compiled[i].index \in 0..Len(principals) - 1
                                /\ principals[compiled[i].index + 1] \in S
           true == {i \in 1..n : written_(i)}
<1>1. /\ written \in Written /\ ~Policy!Fails(Policy!Given(c)) /\ n \in Nat \ {0}
      /\ Built(k) /\ IDNum = Len(principals)
      /\ \A i \in 1..n : Kept(compiled[i], two[i + 2])
  BY CompiledIs
<1>2. c \in Gates(k) /\ Len(Policy!Given(c)) >= 2 /\ n = Len(r)
  BY <1>1, ArityIs
<1>3. DOMAIN r = 1..n /\ DOMAIN compiled = 1..n
  BY <1>1, <1>2, TwiceIs DEF Built
<1>4. \A i \in 1..n : IsRule(r[i]) /\ Kept(compiled[i], r[i])
  <2> SUFFICES ASSUME NEW i \in 1..n  PROVE  IsRule(r[i]) /\ Kept(compiled[i], r[i])
    OBVIOUS
  <2>1. Kept(compiled[i], two[i + 2]) /\ IsRule(two[i + 2])
    BY <1>1 DEF Kept
  <2>2. two[i + 2] = r[i]
    BY <1>1, <2>1, RuleArgument
  <2> QED
    BY <2>1, <2>2
<1>5. ASSUME NEW i \in 1..n  PROVE  written_(i) <=> compiled_(i)
  <2>1. IsRule(r[i]) /\ Kept(compiled[i], r[i])
    BY <1>4
  <2>2. PICK x, y : x = r[i] /\ y = compiled[i]
    OBVIOUS
  <2>3. CASE x.kind = "call"
    BY <2>1, <2>2, <2>3 DEF Kept
  <2>4. CASE x.kind = "principal"
    <3>1. /\ y = Policy!SignedBy(y.index)
          /\ y.index \in 0..IDNum - 1 /\ principals[y.index + 1] = x.principal
      BY <2>1, <2>2, <2>4 DEF Kept
    <3>2. y.kind = "signed_by"
      BY <3>1 DEF Policy!SignedBy
    <3> QED
      BY <1>1, <2>2, <2>4, <3>1, <3>2
  <2> QED
    BY <2>1, <2>2, <2>3, <2>4 DEF IsRule
<1>6. true = {i \in 1..n : compiled_(i)}
  BY <1>5
<1>7. /\ Policy!Sane(two) /\ calls[k].n = Policy!Trunc(two[2].tenths)
  BY <1>1 DEF Built, Policy!NOutOf
<1>8. calls[k].n = Wanted(c) /\ Wanted(c) \in Int
  BY <1>2, <1>7, ThresholdIs DEF Policy!Sane, Args
<1> HIDE DEF true, n
<1>9. /\ Policy!Cardinality(true) >= n <=> true = 1..n
      /\ Policy!Cardinality(true) >= 1 <=> true # {}
  BY <1>1, HowMany DEF true
<1>10. (CASE c.gate = "And" -> true = 1..n
          [] c.gate = "Or"  -> true # {}
          [] OTHER          ->
               Policy!Cardinality(true) >= Policy!Trunc(Policy!Bare(c.args[1]).tenths))
       <=> Policy!Cardinality(true) >= calls[k].n
  <2>1. CASE c.gate = "And"
    BY <1>2, <1>8, <1>9, <2>1 DEF Wanted
  <2>2. CASE c.gate = "Or"
    BY <1>8, <1>9, <2>2 DEF Wanted
  <2>3. CASE c.gate \notin {"And", "Or"}
    BY <1>8, <2>3 DEF Wanted
  <2> QED
    BY <2>1, <2>2, <2>3
<1>11. true = {i \in DOMAIN r : written_(i)}
  BY <1>3 DEF true
<1>12. true = {i \in DOMAIN compiled : compiled_(i)}
  BY <1>3, <1>6
<1> QED
  BY <1>3, <1>10, <1>11, <1>12, Zenon

(* Both meanings are chosen by an equation, call by call; the equations    *)
(* have the same solutions.                                                *)
LEMMA MeaningKept ==
  ASSUME CompilingInv  PROVE  Policy!SameMeaning
<1> SUFFICES ASSUME pass = "compiled", NEW S \in SUBSET Principal
             PROVE  Policy!Satisfied(S) <=> Policy!Means(S)
  BY DEF Policy!SameMeaning
<1> DEFINE Holding(f, k) ==
             {i \in DOMAIN Policy!Rules(written[k]) :
                LET x == Policy!Rules(written[k])[i]
                IN  IF x.kind = "call" THEN f[x.place] ELSE x.principal \in S}
           Number(k) == Policy!Trunc(Policy!Bare(written[k].args[1]).tenths)
           W(f, k) ==
             CASE written[k].gate = "And" -> Holding(f, k) = DOMAIN Policy!Rules(written[k])
               [] written[k].gate = "Or"  -> Holding(f, k) # {}
               [] OTHER                   -> Policy!Cardinality(Holding(f, k)) >= Number(k)
           C(f, k) ==
             Policy!Cardinality({i \in DOMAIN calls[k].rules :
               LET x == calls[k].rules[i]
               IN  IF x.kind = "call" THEN f[x.place]
                   ELSE /\ x.index \in 0..Len(principals) - 1
                        /\ principals[x.index + 1] \in S})
               >= calls[k].n
           AsWritten(f)  == f = [k \in DOMAIN written |-> W(f, k)]
           AsCompiled(f) == f = [k \in DOMAIN calls |-> C(f, k)]
<1>1. DOMAIN calls = DOMAIN written /\ Len(calls) = Len(written)
  BY CompiledIs
<1>2. ASSUME NEW f, NEW k \in DOMAIN written  PROVE  W(f, k) <=> C(f, k)
  BY CallsMean
<1>3. Policy!Means(S) = (CHOOSE f : AsWritten(f))[Len(written)]
  BY Zenon DEF Policy!Means
<1>4. Policy!Satisfied(S) = (CHOOSE f : AsCompiled(f))[Len(calls)]
  BY Zenon DEF Policy!Satisfied
<1>5. ASSUME NEW f, NEW k  PROVE  C(f, k) \in BOOLEAN
  OBVIOUS
<1> HIDE DEF C, Holding, Number
<1>6. ASSUME NEW f, NEW k  PROVE  W(f, k) \in BOOLEAN
  <2> DEFINE g == written[k].gate
  <2>1. CASE g = "And"
    BY <2>1
  <2>2. CASE g = "Or"
    BY <2>2
  <2>3. CASE g \notin {"And", "Or"}
    <3>1. W(f, k) = (Policy!Cardinality(Holding(f, k)) >= Number(k))
      BY <2>3
    <3>2. (Policy!Cardinality(Holding(f, k)) >= Number(k)) \in BOOLEAN
      OBVIOUS
    <3> HIDE DEF W
    <3> QED
      BY <3>1, <3>2, Zenon
  <2> QED
    BY <2>1, <2>2, <2>3
<1> HIDE DEF W
<1>7. ASSUME NEW f  PROVE  AsWritten(f) <=> AsCompiled(f)
  <2>1. \A k \in DOMAIN written : W(f, k) = C(f, k)
    BY <1>2, <1>5, <1>6, Zenon
  <2>2. [k \in DOMAIN written |-> W(f, k)] = [k \in DOMAIN written |-> C(f, k)]
    <3> DEFINE F == [k \in DOMAIN written |-> W(f, k)]
               G == [k \in DOMAIN written |-> C(f, k)]
    <3>1. \A k \in DOMAIN written : F[k] = G[k]
      BY <2>1, Zenon
    <3>2. DOMAIN F = DOMAIN G /\ F = [k \in DOMAIN F |-> F[k]] /\ G = [k \in DOMAIN G |-> G[k]]
      BY Zenon
    <3> HIDE DEF F, G
    <3>3. DOMAIN F = DOMAIN written
      BY DEF F
    <3>4. F = G
      BY <3>1, <3>2, <3>3
    <3> QED
      BY <3>4, Zenon DEF F, G
  <2> QED
    BY <1>1, <2>2, Zenon
<1> HIDE DEF AsWritten, AsCompiled
<1>8. (CHOOSE f : AsWritten(f)) = (CHOOSE f : AsCompiled(f))
  BY <1>7, Zenon
<1> QED
  BY <1>1, <1>3, <1>4, <1>8

(* FromString: whatever the text, the policy that its three evaluations    *)
(* return is satisfied by the same signers as the one written; exactly the *)
(* well-formed policies compile; and the identities of the envelope are    *)
(* referred to once each, in order.                                        *)
THEOREM PoliciesCompile ==
  Policy!Spec => []CompilerInv
<1>1. CompilingInv => CompilerInv
  <2> SUFFICES ASSUME CompilingInv  PROVE  CompilerInv
    OBVIOUS
  <2>1. Policy!TypeOK
    BY DEF CompilingInv, CompilerTables, Policy!TypeOK
  <2> QED
    BY <2>1, WellFormedAccepted, IdentitiesAreInStep, MeaningKept
       DEF CompilerInv, Policy!CompilerInv
<1> QED
  BY <1>1, CompilingInvariance, PTL
=============================================================================
