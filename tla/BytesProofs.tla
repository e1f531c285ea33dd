---------------------------- MODULE BytesProofs -----------------------------
(***************************************************************************)
(* What carries bytes.  The conversions give back what they were given, if *)
(* it fits into their buffer; the messages of the payment terminal say     *)
(* where they end, and enquire is not misled by half of one, whatever is   *)
(* sent; for any number of threads the mutex of IoData lets one of them in, and  *)
(* the calls take effect at once.                                          *)
(***************************************************************************)
EXTENDS Codec, PayFrame, IoData, FiniteSetTheorems, WellFoundedInduction, TLAPS

----------------------------------------------------------------------------
(* Induction *)

LEMMA Least ==
  ASSUME NEW S \in SUBSET Nat, S # {}
  PROVE  \E n \in S : \A m \in S : n <= m
<1> DEFINE R == OpToRel(<, Nat)
<1>1. IsWellFoundedOn(R, Nat)
  BY NatLessThanWellFounded
<1> HIDE DEF R
<1>2. PICK n \in S : \A m \in S : ~ (<<m, n>> \in R)
  BY <1>1, WFMin
<1>3. \A m \in S : ~ (m < n)
  BY <1>2 DEF R, OpToRel
<1> QED
  BY <1>3

\* What holds at 0 and of the next number holds up to n.
LEMMA Induction ==
  ASSUME NEW n \in Nat, NEW S, 0 \in S, \A m \in 0 .. n - 1 : m \in S => m + 1 \in S
  PROVE  0 .. n \subseteq S
<1> DEFINE T == {m \in 0 .. n : m \notin S}
<1> SUFFICES ASSUME T # {} PROVE FALSE
  OBVIOUS
<1>1. T \in SUBSET Nat
  OBVIOUS
<1> HIDE DEF T
<1>2. PICK m \in T : \A k \in T : m <= k
  BY <1>1, Least
<1>3. m \in 0 .. n /\ m \notin S
  BY DEF T
<1>4. m - 1 \in 0 .. n - 1 /\ m - 1 \notin T
  BY <1>2, <1>3
<1>5. m - 1 \in S
  BY <1>4 DEF T
<1> QED
  BY <1>3, <1>4, <1>5

\* A bounded set of numbers has a greatest one.
LEMMA Greatest ==
  ASSUME NEW n \in Nat, NEW S \in SUBSET (0 .. n), S # {}
  PROVE  Max(S) \in S /\ \A m \in S : m <= Max(S)
<1> DEFINE T == {n - m : m \in S}
<1>1. T \in SUBSET Nat /\ T # {}
  <2>1. \A m \in S : n - m \in Nat
    OBVIOUS
  <2>2. PICK m \in S : TRUE
    OBVIOUS
  <2>3. n - m \in T
    BY <2>2
  <2> QED
    BY <2>1, <2>3
<1> HIDE DEF T
<1>2. PICK d \in T : \A e \in T : d <= e
  BY <1>1, Least
<1>3. PICK x \in S : d = n - x
  BY DEF T
<1>4. \A m \in S : n - m \in T
  BY DEF T
<1>5. \A m \in S : x >= m
  BY <1>2, <1>3, <1>4
<1> QED
  BY <1>5 DEF Max


\* Bytes and digits as numbers.

----------------------------------------------------------------------------
(* The conversions *)

LEMMA BytesAre == \A x : x \in Byte <=> x \in Nat /\ x <= 255
<1>1. \A n \in Nat : \A x : x \in 0 .. n <=> x \in Nat /\ x <= n
  OBVIOUS
<1>2. 255 \in Nat
  OBVIOUS
<1> QED
  BY ONLY <1>1, <1>2, Zenon DEF Byte

LEMMA DigitsAre == \A x : x \in Digit <=> x \in Nat /\ x <= 15
<1>1. \A n \in Nat : \A x : x \in 0 .. n <=> x \in Nat /\ x <= n
  OBVIOUS
<1>2. 15 \in Nat
  OBVIOUS
<1> QED
  BY ONLY <1>1, <1>2, Zenon DEF Digit

\* A function on 1 .. n is a sequence.
LEMMA IsSeq ==
  ASSUME NEW S, NEW n \in Nat, NEW f, f = [i \in 1 .. n |-> f[i]], \A i \in 1 .. n : f[i] \in S
  PROVE  f \in Seq(S) /\ Len(f) = n
OBVIOUS

\* The places of the two digits of a byte.
LEMMA Halves ==
  ASSUME NEW i \in Nat
  PROVE  /\ ((2 * i - 1) + 1) \div 2 = i /\ (2 * i + 1) \div 2 = i
         /\ (2 * i - 1) % 2 = 1 /\ (2 * i) % 2 = 0
         /\ i = 2 * ((i + 1) \div 2) - 1 \/ i = 2 * ((i + 1) \div 2)
<1>1. ((2 * i - 1) + 1) \div 2 = i /\ (2 * i + 1) \div 2 = i
  OBVIOUS
<1>2. (2 * i - 1) % 2 = 1 /\ (2 * i) % 2 = 0
  OBVIOUS
<1>3. i = 2 * ((i + 1) \div 2) - 1 \/ i = 2 * ((i + 1) \div 2)
  OBVIOUS
<1> QED
  BY ONLY <1>1, <1>2, <1>3

----------------------------------------------------------------------------
(* Text as bytes *)

\* v has what val of toBinary holds after each of n scans of s
Values(s, g, n, v) == v = [i \in 0 .. n |-> IF i = 0 THEN g ELSE Scanned(s, 2 * i - 1, v[i - 1])]

Scans(s, g, n, v) ==
  Values(s, g, n, v) /\ ToBinary(s, g) = [i \in 1 .. n |-> v[i] % 256]

\* toBinary has read a value for each two characters.
LEMMA ScannedBy ==
  ASSUME NEW s, NEW g, NEW n \in Nat, n = (Len(s) + 1) \div 2
  PROVE  \E v : Scans(s, g, n, v)
<1> DEFINE Is(l, f) == Values(s, g, l, f)
           S == {l \in 0 .. n : \E f : Is(l, f)}
           v == CHOOSE f : Is(n, f)
<1>1. ToBinary(s, g) = [i \in 1 .. n |-> v[i] % 256]
  BY DEF ToBinary, Values
<1>2. 0 \in S
  <2> DEFINE f == [i \in 0 .. 0 |-> g]
  <2>1. Is(0, f)
    BY DEF Values
  <2> HIDE DEF Is, f
  <2> QED
    BY <2>1
<1>3. ASSUME NEW l \in 0 .. n - 1, l \in S PROVE l + 1 \in S
  <2>1. PICK f : Is(l, f)
    BY <1>3
  <2> DEFINE h == [i \in 0 .. l + 1 |-> IF i <= l THEN f[i] ELSE Scanned(s, 2 * (l + 1) - 1, f[l])]
  <2>2. ASSUME NEW i \in 0 .. l + 1
        PROVE  h[i] = IF i = 0 THEN g ELSE Scanned(s, 2 * i - 1, h[i - 1])
    <3> HIDE DEF Is
    <3>1. CASE i <= l
      BY <2>1, <3>1 DEF Is, Values
    <3>2. CASE i = l + 1
      BY <3>2
    <3> QED
      BY <3>1, <3>2
  <2>3. Is(l + 1, h)
    BY <2>2 DEF Values
  <2>4. l + 1 \in 0 .. n
    OBVIOUS
  <2> HIDE DEF Is, h
  <2> QED
    BY <2>3, <2>4
<1> HIDE DEF S, Is
<1>4. 0 .. n \subseteq S
  BY <1>2, <1>3, Induction
<1>5. \E f : Is(n, f)
  BY <1>4 DEF S
<1>6. Is(n, v)
  BY <1>5
<1> HIDE DEF v
<1> QED
  BY <1>1, <1>6 DEF Is, Scans

\* Two digits make a byte.
Paired(s, k) == [i \in 1 .. k |-> 16 * s[2 * i - 1] + s[2 * i]]

LEMMA DigitsMake ==
  ASSUME NEW s \in Seq(Digit), NEW k \in Nat, Len(s) = 2 * k, NEW g \in Int
  PROVE  ToBinary(s, g) = Paired(s, k)
<1>1. (Len(s) + 1) \div 2 = k
  OBVIOUS
<1>2. PICK v : Scans(s, g, k, v)
  BY <1>1, ScannedBy
<1>3. ASSUME NEW i \in 1 .. k PROVE v[i] % 256 = 16 * s[2 * i - 1] + s[2 * i]
  <2> DEFINE a == s[2 * i - 1]
             b == s[2 * i]
  <2>1. v[i] = Scanned(s, 2 * i - 1, v[i - 1])
    BY <1>2 DEF Values, Scans
  <2>2. a \in Digit /\ b \in Digit /\ 2 * i - 1 # Len(s) /\ (2 * i - 1) + 1 = 2 * i
    OBVIOUS
  <2>3. Scanned(s, 2 * i - 1, v[i - 1]) = 16 * a + b
    <3>1. a # NoDigit /\ b # NoDigit
      BY ONLY <2>2, DigitsAre DEF NoDigit
    <3> QED
      BY <2>2, <3>1 DEF Scanned
  <2> HIDE DEF a, b
  <2>4. (16 * a + b) % 256 = 16 * a + b
    <3>1. a \in Nat /\ b \in Nat /\ a <= 15 /\ b <= 15
      BY ONLY <2>2, DigitsAre
    <3> QED
      BY ONLY <3>1
  <2> QED
    BY <2>1, <2>3, <2>4 DEF a, b
<1> QED
  BY <1>2, <1>3 DEF Scans, Paired

----------------------------------------------------------------------------
(* Bytes as text *)

\* toBinary undoes toString.
LEMMA TextIs ==
  ASSUME NEW b \in Seq(Byte), NEW g \in Int
  PROVE  ToBinary(Text(b), g) = b
<1> DEFINE k == Len(b)
           s == Text(b)
<1>1. s = [i \in 1 .. 2 * k |-> Duplet(b[(i + 1) \div 2])[2 - (i % 2)]]
  BY DEF Text
<1>2. k \in Nat /\ b = [i \in 1 .. k |-> b[i]]
  OBVIOUS
<1>3. \A x \in Byte : /\ x \div 16 \in Digit /\ x % 16 \in Digit
                      /\ 16 * (x \div 16) + (x % 16) = x
  <2> TAKE x \in Byte
  <2>1. x \in Nat /\ x <= 255
    BY BytesAre
  <2>2. /\ x \div 16 \in Nat /\ x \div 16 <= 15 /\ x % 16 \in Nat /\ x % 16 <= 15
        /\ 16 * (x \div 16) + (x % 16) = x
    BY ONLY <2>1
  <2> QED
    BY ONLY <2>2, DigitsAre
<1>4. \A i \in 1 .. k : b[i] \in Byte
  OBVIOUS
<1> HIDE DEF s, k
<1>5. ASSUME NEW i \in 1 .. k
      PROVE  s[2 * i - 1] = b[i] \div 16 /\ s[2 * i] = b[i] % 16
  <2>1. /\ 2 * i - 1 \in 1 .. 2 * k /\ 2 * i \in 1 .. 2 * k
        /\ ((2 * i - 1) + 1) \div 2 = i /\ (2 * i + 1) \div 2 = i
        /\ 2 - ((2 * i - 1) % 2) = 1 /\ 2 - ((2 * i) % 2) = 2
    <3>1. 2 * i - 1 \in 1 .. 2 * k /\ 2 * i \in 1 .. 2 * k /\ i \in Nat
      BY <1>2
    <3>2. /\ ((2 * i - 1) + 1) \div 2 = i /\ (2 * i + 1) \div 2 = i
          /\ (2 * i - 1) % 2 = 1 /\ (2 * i) % 2 = 0
      BY ONLY <3>1, Halves
    <3>3. 2 - 1 = 1 /\ 2 - 0 = 2
      OBVIOUS
    <3> QED
      BY ONLY <3>1, <3>2, <3>3, Zenon
  <2>2. s[2 * i - 1] = Duplet(b[i])[1] /\ s[2 * i] = Duplet(b[i])[2]
    BY <1>1, <2>1, Zenon
  <2> QED
    BY <2>2 DEF Duplet
<1>6. s \in Seq(Digit) /\ Len(s) = 2 * k
  <2>1. ASSUME NEW i \in 1 .. 2 * k PROVE s[i] \in Digit
    <3>1. PICK j \in 1 .. k : i = 2 * j - 1 \/ i = 2 * j
      <4>1. (i + 1) \div 2 \in 1 .. k /\ (i = 2 * ((i + 1) \div 2) - 1 \/ i = 2 * ((i + 1) \div 2))
        <5>0. i \in Nat
          BY ONLY <1>2, i \in 1 .. 2 * k
        <5>1. i \in Nat /\ (i = 2 * ((i + 1) \div 2) - 1 \/ i = 2 * ((i + 1) \div 2))
          BY ONLY <5>0, Halves
        <5>2. (i + 1) \div 2 \in 1 .. k
          BY ONLY <1>2, i \in 1 .. 2 * k
        <5> QED
          BY ONLY <5>1, <5>2
      <4> QED
        BY <4>1
    <3>2. b[j] \div 16 \in Digit /\ b[j] % 16 \in Digit
      BY <1>3, <1>4, Zenon
    <3> QED
      BY <1>5, <3>1, <3>2
  <2>2. s = [i \in 1 .. 2 * k |-> s[i]]
    BY <1>1
  <2>3. 2 * k \in Nat
    BY <1>2
  <2> QED
    BY ONLY <2>1, <2>2, <2>3, IsSeq
<1>7. ToBinary(s, g) = [i \in 1 .. k |-> 16 * s[2 * i - 1] + s[2 * i]]
  BY <1>2, <1>6, DigitsMake DEF Paired
<1>8. \A i \in 1 .. k : 16 * s[2 * i - 1] + s[2 * i] = b[i]
  BY <1>3, <1>4, <1>5
<1> QED
  BY <1>2, <1>7, <1>8 DEF s

----------------------------------------------------------------------------
(* Numbers as text *)

\* the k-th digit from the right, and what is left of it
Place(num, k) == IF k > 7 THEN 0 ELSE (num \div Sixteens[k + 1]) % 16

Rest(num, k) ==
  CASE k = 0 -> num
    [] k = 1 -> num \div 256
    [] k = 2 -> num \div 65536
    [] k = 3 -> num \div 16777216
    [] OTHER -> 0

\* p is num in digits, and all of num if it has as many as were asked for
IsPrinted(p, num, d) ==
  /\ p \in Seq(Digit)
  /\ Len(p) = d =>
       /\ \A i \in 1 .. d : p[i] = Place(num, d - i)
       /\ d = 2 => num < 256
       /\ d = 4 => num < 65536

\* The length of what is printed: as many digits as are asked for only if
\* there are no others.
LEMMA PrintedIs ==
  ASSUME NEW num \in Nat, NEW d \in {2, 4, 8, 16}, NEW p, p = Printed(num, d)
  PROVE  IsPrinted(p, num, d)
<1> DEFINE K == {k \in 1 .. 8 : num \div Sixteens[k] > 0}
           S == {d} \union K
           n == Max(S)
<1>1. S \in SUBSET (0 .. 16) /\ S # {}
  OBVIOUS
<1>2. p = [i \in 1 .. n |-> IF n - i > 7 THEN 0 ELSE (num \div Sixteens[n - i + 1]) % 16]
  BY DEF Printed
<1>3. 3 \in K => 3 \in S
  OBVIOUS
<1>4. 5 \in K => 5 \in S
  OBVIOUS
<1>5. num \div 256 > 0 => 3 \in K
  BY DEF Sixteens
<1>6. num \div 65536 > 0 => 5 \in K
  BY SMT DEF Sixteens
<1> HIDE DEF K, S
<1>7. n \in S /\ \A m \in S : m <= n
  <2>1. 16 \in Nat
    OBVIOUS
  <2> QED
    BY ONLY <1>1, <2>1, Greatest
<1> HIDE DEF n
<1>8. n \in Nat
  BY ONLY <1>1, <1>7
<1>9. ASSUME NEW i \in 1 .. n PROVE p[i] = Place(num, n - i) /\ p[i] \in Digit
  <2> DEFINE k == n - i
  <2>1. k \in Nat
    BY <1>8
  <2>2. p[i] = Place(num, k)
    BY <1>2 DEF Place
  <2> HIDE DEF k
  <2>3. Place(num, k) \in Nat /\ Place(num, k) <= 15
    <3>1. CASE k > 7
      BY ONLY <3>1 DEF Place
    <3>2. CASE k <= 7
      <4> DEFINE w == Sixteens[k + 1]
      <4>1. k \in {0, 1, 2, 3, 4, 5, 6, 7}
        BY ONLY <2>1, <3>2
      <4>2. w \in Nat \ {0}
        BY ONLY <4>1 DEF Sixteens
      <4> HIDE DEF w
      <4>3. num \div w \in Nat
        BY <4>2
      <4> DEFINE y == num \div w
      <4> HIDE DEF y
      <4>4. y % 16 \in Nat /\ y % 16 <= 15
        BY <4>3 DEF y
      <4> QED
        BY <2>1, <3>2, <4>4 DEF Place, w, y
    <3> QED
      BY ONLY <2>1, <3>1, <3>2
  <2>4. Place(num, k) \in Digit
    BY ONLY <2>3, DigitsAre
  <2> QED
    BY <2>2, <2>4 DEF k
<1>10. p = [i \in 1 .. n |-> p[i]]
  BY <1>2
<1>11. p \in Seq(Digit) /\ Len(p) = n
  BY ONLY <1>8, <1>9, <1>10, IsSeq
<1>12. d = 2 /\ n = d => num < 256
  <2>1. d = 2 /\ n = d => ~ (num \div 256 > 0)
    BY ONLY <1>3, <1>5, <1>7
  <2>2. ~ (num \div 256 > 0) => num < 256
    OBVIOUS
  <2> QED
    BY ONLY <2>1, <2>2, SMT
<1>13. d = 4 /\ n = d => num < 65536
  <2>1. d = 4 /\ n = d => ~ (num \div 65536 > 0)
    BY ONLY <1>4, <1>6, <1>7, SMT
  <2>2. ~ (num \div 65536 > 0) => num < 65536
    BY SMT
  <2> QED
    BY ONLY <2>1, <2>2, SMT
<1> QED
  BY ONLY <1>9, <1>11, <1>12, <1>13, SMT DEF IsPrinted

\* Two places at a time.
LEMMA RestIs ==
  ASSUME NEW num \in Nat, num <= 2147483647, NEW k \in 0 .. 7
  PROVE  Rest(num, k) = 256 * Rest(num, k + 1) + (16 * Place(num, 2 * k + 1) + Place(num, 2 * k))
<1> DEFINE P(j) == Place(num, j)
<1>1. k \in {0, 1, 2, 3, 4, 5, 6, 7}
  OBVIOUS
<1>2. /\ P(0) = (num \div 1) % 16 /\ P(1) = (num \div 16) % 16
      /\ P(2) = (num \div 256) % 16 /\ P(3) = (num \div 4096) % 16
      /\ P(4) = (num \div 65536) % 16 /\ P(5) = (num \div 1048576) % 16
      /\ P(6) = (num \div 16777216) % 16 /\ P(7) = (num \div 268435456) % 16
  BY SMT DEF Place, Sixteens
<1>3. \A j \in Nat : j > 7 => P(j) = 0
  BY DEF Place
<1>4. CASE k = 0
  <2>1. P(1) = (num \div 16) % 16 /\ P(0) = num % 16
    BY ONLY <1>2, num \in Nat, SMT
  <2>2. num = 256 * (num \div 256) + (16 * ((num \div 16) % 16) + (num % 16))
    BY ONLY num \in Nat, SMT
  <2>3. Rest(num, k) = num /\ Rest(num, k + 1) = num \div 256 /\ 2 * k + 1 = 1 /\ 2 * k = 0
    BY <1>4, SMT DEF Rest
  <2>4. Place(num, 1) = (num \div 16) % 16 /\ Place(num, 0) = num % 16
    BY ONLY <2>1, Zenon DEF P
  <2>5. Place(num, 2 * k + 1) = (num \div 16) % 16 /\ Place(num, 2 * k) = num % 16
    BY ONLY <2>3, <2>4, Zenon
  <2> DEFINE q == num \div 256
             x == (num \div 16) % 16
             y == num % 16
  <2> HIDE DEF q, x, y
  <2>6. /\ num = 256 * q + (16 * x + y)
        /\ Rest(num, k) = num /\ Rest(num, k + 1) = q
        /\ Place(num, 2 * k + 1) = x /\ Place(num, 2 * k) = y
    BY ONLY <2>2, <2>3, <2>5, Zenon DEF q, x, y
  <2> QED
    BY ONLY <2>6
<1>5. CASE k = 1
  <2>1. P(3) = (num \div 4096) % 16 /\ P(2) = (num \div 256) % 16
    BY ONLY <1>2, SMT
  <2>2. num \div 256 = 256 * (num \div 65536) + (16 * ((num \div 4096) % 16) + ((num \div 256) % 16))
    BY SMT
  <2>3. Rest(num, k) = num \div 256 /\ Rest(num, k + 1) = num \div 65536 /\ 2 * k + 1 = 3 /\ 2 * k = 2
    BY <1>5, SMT DEF Rest
  <2> QED
    BY ONLY <2>1, <2>2, <2>3, SMT
<1>6. CASE k = 2
  <2>1. P(5) = (num \div 1048576) % 16 /\ P(4) = (num \div 65536) % 16
    BY ONLY <1>2, SMT
  <2>2. num \div 65536 = 256 * (num \div 16777216) + (16 * ((num \div 1048576) % 16) + ((num \div 65536) % 16))
    BY SMT
  <2>3. Rest(num, k) = num \div 65536 /\ Rest(num, k + 1) = num \div 16777216 /\ 2 * k + 1 = 5 /\ 2 * k = 4
    BY <1>6, SMT DEF Rest
  <2> QED
    BY ONLY <2>1, <2>2, <2>3, SMT
<1>7. CASE k = 3
  <2>1. P(7) = (num \div 268435456) % 16 /\ P(6) = (num \div 16777216) % 16
    BY ONLY <1>2, SMT
  <2>2. num \div 16777216 = 256 * 0 + (16 * ((num \div 268435456) % 16) + ((num \div 16777216) % 16))
    BY SMT
  <2>3. Rest(num, k) = num \div 16777216 /\ Rest(num, k + 1) = 0 /\ 2 * k + 1 = 7 /\ 2 * k = 6
    BY <1>7, SMT DEF Rest
  <2> QED
    BY ONLY <2>1, <2>2, <2>3, SMT
<1>8. CASE k \in 4 .. 7
  <2>1. Rest(num, k) = 0 /\ Rest(num, k + 1) = 0
    BY <1>8, SMT DEF Rest
  <2>2. P(2 * k + 1) = 0 /\ P(2 * k) = 0
    BY <1>3, <1>8, SMT
  <2>3. 0 = 256 * 0 + (16 * 0 + 0)
    OBVIOUS
  <2> QED
    BY ONLY <2>1, <2>2, <2>3, SMT
<1> QED
  BY ONLY <1>1, <1>4, <1>5, <1>6, <1>7, <1>8, SMT

\* v has the value of the first i bytes of b
ValueBy(b, v) ==
  v = [i \in 0 .. Len(b) |-> IF i = 0 THEN 0 ELSE 256 * v[i - 1] + b[i]]

\* A number printed with as many digits as were asked for is read back.
LEMMA NumberIs ==
  ASSUME NEW num \in Nat, num <= 2147483647, NEW w \in Widths, NEW g \in Int,
         NEW p, p = Printed(num, 2 * w), Len(p) = 2 * w
  PROVE  Value(ToBinary(p, g)) = num
<1> DEFINE d == 2 * w
           b == ToBinary(p, g)
           v == CHOOSE f : ValueBy(b, f)
           u == [i \in 0 .. w |-> Rest(num, w - i)]
<1>1. w \in {1, 2, 4, 8} /\ w \in Nat
  BY DEF Widths
<1>2. d \in {2, 4, 8, 16} /\ d = 2 * w
  BY <1>1
<1> HIDE DEF d
<1>3. p = Printed(num, d) /\ Len(p) = d
  BY ONLY <1>2, p = Printed(num, 2 * w), Len(p) = 2 * w, Zenon
<1>a. IsPrinted(p, num, d)
  BY ONLY <1>2, <1>3, num \in Nat, PrintedIs, SMT
<1>4. p \in Seq(Digit)
  BY ONLY <1>a, SMT DEF IsPrinted
<1>5. \A i \in 1 .. d : p[i] = Place(num, d - i)
  BY ONLY <1>a, <1>3, SMT DEF IsPrinted
<1>6. (d = 2 => num < 256) /\ (d = 4 => num < 65536)
  BY ONLY <1>a, <1>3, SMT DEF IsPrinted
<1>7. b = [i \in 1 .. w |-> 16 * p[2 * i - 1] + p[2 * i]]
  <2>1. ToBinary(p, g) = Paired(p, w)
    BY ONLY <1>1, <1>2, <1>3, <1>4, g \in Int, DigitsMake, SMT
  <2> QED
    BY ONLY <2>1, Zenon DEF b, Paired
<1>8. ASSUME NEW i \in 1 .. w
      PROVE  b[i] = 16 * Place(num, 2 * (w - i) + 1) + Place(num, 2 * (w - i))
  <2>1. 2 * i - 1 \in 1 .. d /\ 2 * i \in 1 .. d
    BY ONLY <1>1, <1>2, i \in 1 .. w, SMT
  <2>2. d - (2 * i - 1) = 2 * (w - i) + 1 /\ d - 2 * i = 2 * (w - i)
    BY ONLY <1>1, <1>2, i \in 1 .. w, SMT
  <2>3. p[2 * i - 1] = Place(num, 2 * (w - i) + 1) /\ p[2 * i] = Place(num, 2 * (w - i))
    BY ONLY <1>5, <2>1, <2>2, Zenon
  <2>4. b[i] = 16 * p[2 * i - 1] + p[2 * i]
    BY ONLY <1>7, i \in 1 .. w, Zenon
  <2> QED
    BY ONLY <2>3, <2>4, Zenon
<1>9. Len(b) = w
  <2> HIDE DEF b
  <2> QED
    BY ONLY <1>1, <1>7
<1> HIDE DEF b
<1>10. Rest(num, w) = 0
  <2>1. CASE w = 1
    BY ONLY <1>2, <1>6, <2>1, num \in Nat, SMT DEF Rest
  <2>2. CASE w = 2
    BY ONLY <1>2, <1>6, <2>2, num \in Nat, SMT DEF Rest
  <2>3. CASE w = 4 \/ w = 8
    BY ONLY <2>3, SMT DEF Rest
  <2> QED
    BY ONLY <1>1, <2>1, <2>2, <2>3
<1>11. ValueBy(b, u)
  <2>1. ASSUME NEW i \in 0 .. w
        PROVE  u[i] = IF i = 0 THEN 0 ELSE 256 * u[i - 1] + b[i]
    <3>1. CASE i = 0
      <4>1. w - 0 = w
        BY <1>1
      <4> QED
        BY <1>10, <3>1, <4>1
    <3>2. CASE i # 0
      <4> DEFINE k == w - i
      <4>1. i \in 1 .. w /\ i - 1 \in 0 .. w /\ k \in 0 .. 7 /\ w - (i - 1) = k + 1
        BY ONLY <1>1, <3>2, i \in 0 .. w, SMT
      <4>2. u[i] = Rest(num, k) /\ u[i - 1] = Rest(num, k + 1)
        BY ONLY <4>1, i \in 0 .. w, SMT DEF u
      <4>3. b[i] = 16 * Place(num, 2 * k + 1) + Place(num, 2 * k)
        BY ONLY <1>8, <4>1, Zenon DEF k
      <4> HIDE DEF k, u
      <4>4. Rest(num, k) = 256 * Rest(num, k + 1) + (16 * Place(num, 2 * k + 1) + Place(num, 2 * k))
        BY ONLY <4>1, num \in Nat, num <= 2147483647, RestIs, SMT
      <4>5. u[i] = 256 * u[i - 1] + b[i]
        BY ONLY <4>2, <4>3, <4>4, Zenon
      <4> QED
        BY ONLY <3>2, <4>5, Zenon
    <3> QED
      BY ONLY <3>1, <3>2, Zenon
  <2>2. u = [i \in 0 .. w |-> u[i]]
    BY ONLY TRUE DEF u
  <2> HIDE DEF u
  <2> QED
    <3>1. [i \in 0 .. w |-> u[i]] =
            [i \in 0 .. w |-> IF i = 0 THEN 0 ELSE 256 * u[i - 1] + b[i]]
      BY ONLY <2>1, Zenon
    <3> QED
      BY ONLY <1>9, <2>2, <3>1, Zenon DEF ValueBy
<1>12. u[w] = num
  <2>1. w \in 0 .. w /\ w - w = 0
    BY <1>1
  <2> QED
    BY ONLY <2>1 DEF u, Rest
<1> HIDE DEF u
<1>13. ValueBy(b, v)
  BY ONLY <1>11, Zenon DEF v
<1>14. Value(b) = v[Len(b)]
  BY ONLY TRUE DEF Value, ValueBy, v
<1> HIDE DEF v
<1> DEFINE S == {i \in 0 .. w : v[i] = u[i]}
<1>15. 0 \in S
  BY ONLY <1>1, <1>9, <1>11, <1>13 DEF ValueBy
<1>16. ASSUME NEW i \in 0 .. w - 1, i \in S PROVE i + 1 \in S
  <2>1. i + 1 \in 0 .. w /\ i + 1 # 0 /\ (i + 1) - 1 = i
    BY ONLY <1>1, i \in 0 .. w - 1
  <2>2. v[i + 1] = 256 * v[i] + b[i + 1] /\ u[i + 1] = 256 * u[i] + b[i + 1]
    BY ONLY <1>9, <1>11, <1>13, <2>1 DEF ValueBy
  <2>3. v[i] = u[i]
    BY ONLY <1>16
  <2>4. v[i + 1] = u[i + 1]
    BY ONLY <2>2, <2>3, Zenon
  <2> QED
    BY ONLY <2>1, <2>4
<1> HIDE DEF S
<1>17. 0 .. w \subseteq S
  BY ONLY <1>1, <1>15, <1>16, Induction
<1>18. v[w] = u[w]
  BY ONLY <1>1, <1>17 DEF S
<1> QED
  BY ONLY <1>9, <1>12, <1>14, <1>18, Zenon DEF b

----------------------------------------------------------------------------
(* The calls *)

\* What the last call returned comes from what it was given.
CodecInv ==
  /\ did.f = "arr2str" =>
       did.arg \in CodecArrays /\ Len(did.arg) <= PtrSize /\ did.res = Text(did.arg)
  /\ did.f = "num2str" /\ did.arg[2] \in Widths =>
       did.arg[1] \in CodecNumbers /\ did.res = Printed(did.arg[1], 2 * did.arg[2])

\* Init establishes the invariant.
LEMMA CodecInit == CInit => CodecInv
BY DEF CInit, CodecInv

\* Each call leaves what it was given and what it returned.
LEMMA CodecStep == CodecInv /\ [CNext]_cvars => CodecInv'
<1> SUFFICES ASSUME CodecInv, [CNext]_cvars PROVE CodecInv'
  OBVIOUS
<1>1. CASE UNCHANGED cvars
  BY <1>1, Zenon DEF CodecInv, cvars
<1>2. ASSUME NEW num \in CodecNumbers, NEW w \in Widths \union {3}, Num2Str(num, w)
      PROVE  CodecInv'
  <2>1. did' = [f |-> "num2str", arg |-> <<num, w>>, res |-> text']
    BY <1>2, Zenon DEF Num2Str, Did
  <2>2. w \in Widths => text' = Printed(num, 2 * w)
    BY <1>2, Zenon DEF Num2Str
  <2>3. /\ did'.f = "num2str" /\ did'.arg[1] = num /\ did'.arg[2] = w /\ did'.res = text'
    BY ONLY <2>1
  <2> QED
    BY ONLY <2>2, <2>3, num \in CodecNumbers, "num2str" # "arr2str", Zenon DEF CodecInv
<1>3. ASSUME NEW num \in CodecNumbers, NEW w \in Widths \union {3}, NEW g \in Garbage,
             Num2Arr(num, w, g)
      PROVE  CodecInv'
  <2>1. did'.f = "num2arr"
    BY <1>3 DEF Num2Arr, Did
  <2> QED
    BY ONLY <2>1, "num2arr" # "arr2str", "num2arr" # "num2str", Zenon DEF CodecInv
<1>4. ASSUME NEW a \in CodecArrays, Arr2Str(a) PROVE CodecInv'
  <2>1. did'.f = "arr2str" /\ did'.arg = a /\ did'.res = Text(a) /\ Len(a) <= PtrSize
    BY <1>4 DEF Arr2Str, Did
  <2> QED
    BY ONLY <2>1, a \in CodecArrays, "arr2str" # "num2str", Zenon DEF CodecInv
<1>5. ASSUME NEW s \in CodecTexts, NEW g \in Garbage, SendKey(s, g) PROVE CodecInv'
  <2>1. did'.f = "sendkey"
    BY <1>5 DEF SendKey, Did
  <2> QED
    BY ONLY <2>1, "sendkey" # "arr2str", "sendkey" # "num2str", Zenon DEF CodecInv
<1>6. ASSUME NEW s \in CodecTexts, NEW g \in Garbage, TextToArray(s, g) PROVE CodecInv'
  <2>1. did'.f = "str2arr"
    BY <1>6 DEF TextToArray, Did
  <2> QED
    BY ONLY <2>1, "str2arr" # "arr2str", "str2arr" # "num2str", Zenon DEF CodecInv
<1>7. ASSUME NEW a \in CodecArrays, Arr2StrOverruns(a) PROVE CodecInv'
  <2>1. did'.f = "overrun"
    BY <1>7 DEF Arr2StrOverruns, Did
  <2> QED
    BY ONLY <2>1, "overrun" # "arr2str", "overrun" # "num2str", Zenon DEF CodecInv
<1> QED
  BY <1>1, <1>2, <1>3, <1>4, <1>5, <1>6, <1>7, Zenon DEF CNext

\* What was returned is read back as the properties say.
LEMMA CodecHolds == CodecInv => TextIsBack
<1> SUFFICES ASSUME CodecInv PROVE TextIsBack
  OBVIOUS
<1>1. ASSUME NEW g \in Garbage, did.f = "arr2str"
      PROVE  Len(did.arg) <= PtrSize /\ ToBinary(did.res, g) = did.arg
  <2> DEFINE a == did.arg
  <2>1. a \in CodecArrays /\ Len(a) <= PtrSize /\ did.res = Text(a)
    BY ONLY CodecInv, <1>1, Zenon DEF CodecInv
  <2>2. a \in Seq(Byte) /\ g \in Int
    BY <2>1, CodecAssumption
  <2> HIDE DEF a
  <2>3. ToBinary(Text(a), g) = a
    BY ONLY <2>2, TextIs
  <2> QED
    BY ONLY <2>1, <2>3, Zenon DEF a
<1>2. ASSUME NEW g \in Garbage,
             did.f = "num2str", did.arg[2] \in Widths, Len(did.res) = 2 * did.arg[2]
      PROVE  Value(ToBinary(did.res, g)) = did.arg[1]
  <2> DEFINE p == did.res
             num == did.arg[1]
             w == did.arg[2]
  <2>1. num \in CodecNumbers /\ p = Printed(num, 2 * w) /\ w \in Widths /\ Len(p) = 2 * w
    BY ONLY CodecInv, <1>2, Zenon DEF CodecInv
  <2> HIDE DEF p, num, w
  <2>2. num \in Nat /\ num <= 2147483647 /\ g \in Int
    BY ONLY <2>1, g \in Garbage, CodecAssumption, SMT
  <2>3. Value(ToBinary(p, g)) = num
    BY ONLY <2>1, <2>2, NumberIs, SMT
  <2> QED
    BY ONLY <2>3, Zenon DEF p, num
<1>3. TextIsBack
  BY ONLY <1>1, <1>2, Zenon DEF TextIsBack
<1> QED
  BY <1>3

\* For any arrays of at most PtrSize bytes, which is all that arr2str's ptr
\* holds, and any numbers: toBinary reads back what arr2str and num2str
\* printed, whatever val held before.
THEOREM TextKeepsBytes == CSpec => []TextIsBack
<1>1. CInit => CodecInv
  BY CodecInit
<1>2. CodecInv /\ [CNext]_cvars => CodecInv'
  BY CodecStep
<1>3. CodecInv => TextIsBack
  BY CodecHolds
<1> QED
  BY <1>1, <1>2, <1>3, PTL DEF CSpec

----------------------------------------------------------------------------
(* The messages of the terminal *)

LEMMA OctetsAre == \A x : x \in Octet <=> x \in Nat /\ x <= 255
<1>1. \A n \in Nat : \A x : x \in 0 .. n <=> x \in Nat /\ x <= n
  OBVIOUS
<1>2. 255 \in Nat
  OBVIOUS
<1> QED
  BY ONLY <1>1, <1>2, Zenon DEF Octet

\* the places of the bytes that have a bit, and the bit of their LRC
Having(m, bit) == {i \in DOMAIN m : (m[i] \div bit) % 2 = 1}
Odd(m, bit) == Cardinality(Having(m, bit)) % 2
Bits == {1, 2, 4, 8, 16, 32, 64, 128}

\* calcLrc by its bits.
LEMMA LrcIs ==
  ASSUME NEW m
  PROVE  calcLrc(m) = Odd(m, 1) + 2 * Odd(m, 2) + 4 * Odd(m, 4) + 8 * Odd(m, 8)
           + 16 * Odd(m, 16) + 32 * Odd(m, 32) + 64 * Odd(m, 64) + 128 * Odd(m, 128)
BY DEF calcLrc, Odd, Having

\* Eight bits make a byte that has them.
LEMMA BitsOf ==
  ASSUME NEW o \in [Bits -> 0 .. 1],
         NEW x, x = o[1] + 2 * o[2] + 4 * o[4] + 8 * o[8]
                      + 16 * o[16] + 32 * o[32] + 64 * o[64] + 128 * o[128]
  PROVE  x \in Octet /\ \A bit \in Bits : (x \div bit) % 2 = o[bit]
<1> DEFINE a == o[1]  b == o[2]  c == o[4]  d == o[8]
           e == o[16]  f == o[32]  g == o[64]  h == o[128]
<1>1. /\ a \in 0 .. 1 /\ b \in 0 .. 1 /\ c \in 0 .. 1 /\ d \in 0 .. 1
      /\ e \in 0 .. 1 /\ f \in 0 .. 1 /\ g \in 0 .. 1 /\ h \in 0 .. 1
  BY DEF Bits
<1>2. x = a + 2 * b + 4 * c + 8 * d + 16 * e + 32 * f + 64 * g + 128 * h
  OBVIOUS
<1> HIDE DEF a, b, c, d, e, f, g, h
<1>3. x \in Octet
  <2>1. x \in Nat /\ x < 256
    BY ONLY <1>1, <1>2
  <2> QED
    BY ONLY <2>1, OctetsAre
<1>4. (x \div 1) % 2 = a /\ (x \div 2) % 2 = b
  BY ONLY <1>1, <1>2
<1>5. (x \div 4) % 2 = c /\ (x \div 8) % 2 = d
  BY ONLY <1>1, <1>2
<1>6. (x \div 16) % 2 = e /\ (x \div 32) % 2 = f
  BY ONLY <1>1, <1>2
<1>7. (x \div 64) % 2 = g /\ (x \div 128) % 2 = h
  BY ONLY <1>1, <1>2
<1> DEFINE P(bit) == (x \div bit) % 2 = o[bit]
<1>8. /\ P(1) /\ P(2) /\ P(4) /\ P(8)
      /\ P(16) /\ P(32) /\ P(64) /\ P(128)
  BY ONLY <1>4, <1>5, <1>6, <1>7, Zenon DEF P, a, b, c, d, e, f, g, h
<1> HIDE DEF P
<1>9. \A bit \in Bits : P(bit)
  BY ONLY <1>8 DEF Bits
<1> QED
  BY <1>3, <1>9 DEF P

\* The number of bytes that have a bit is finite, and odd or even.
LEMMA OddIsABit ==
  ASSUME NEW m \in Seq(Octet), NEW bit \in Bits
  PROVE  /\ IsFiniteSet(Having(m, bit))
         /\ Odd(m, bit) \in 0 .. 1
<1>1. IsFiniteSet(1 .. Len(m))
  BY FS_Interval
<1>2. Having(m, bit) \in SUBSET (1 .. Len(m))
  BY DEF Having
<1>3. IsFiniteSet(Having(m, bit))
  BY <1>1, <1>2, FS_Subset
<1>4. Cardinality(Having(m, bit)) \in Nat
  BY <1>3, FS_CardinalityType
<1> QED
  BY <1>3, <1>4 DEF Odd

\* The LRC has the bits that an odd number of bytes have.
LEMMA LrcHasBits ==
  ASSUME NEW m \in Seq(Octet)
  PROVE  /\ calcLrc(m) \in Octet
         /\ \A bit \in Bits : (calcLrc(m) \div bit) % 2 = Odd(m, bit)
<1> DEFINE o == [bit \in Bits |-> Odd(m, bit)]
           x == calcLrc(m)
<1>1. o \in [Bits -> 0 .. 1] /\ \A bit \in Bits : o[bit] = Odd(m, bit)
  BY OddIsABit
<1> HIDE DEF o
<1>2. x = o[1] + 2 * o[2] + 4 * o[4] + 8 * o[8]
            + 16 * o[16] + 32 * o[32] + 64 * o[64] + 128 * o[128]
  <2>1. /\ o[1] = Odd(m, 1) /\ o[2] = Odd(m, 2) /\ o[4] = Odd(m, 4) /\ o[8] = Odd(m, 8)
        /\ o[16] = Odd(m, 16) /\ o[32] = Odd(m, 32) /\ o[64] = Odd(m, 64)
        /\ o[128] = Odd(m, 128)
    BY ONLY <1>1 DEF Bits
  <2> QED
    BY ONLY <2>1, LrcIs, Zenon
<1> HIDE DEF x
<1>3. x \in Octet /\ \A bit \in Bits : (x \div bit) % 2 = o[bit]
  BY ONLY <1>1, <1>2, BitsOf
<1> QED
  BY <1>1, <1>3 DEF x

\* A sequence with one more at its end.
LEMMA Behind ==
  ASSUME NEW S, NEW m \in Seq(S), NEW x \in S, NEW n, n = m \o <<x>>
  PROVE  /\ n \in Seq(S) /\ Len(n) = Len(m) + 1 /\ n[Len(m) + 1] = x
         /\ \A i \in 1 .. Len(m) : n[i] = m[i]
OBVIOUS

\* With its LRC behind it, a message has every bit an even number of times.
LEMMA LrcCancels ==
  ASSUME NEW m \in Seq(Octet), NEW n, n = m \o <<calcLrc(m)>>
  PROVE  n \in Seq(Octet) /\ calcLrc(n) = 0
<1> DEFINE x == calcLrc(m)
           last == Len(m) + 1
<1>0. x \in Octet
  BY LrcHasBits
<1>1. \A bit \in Bits : (x \div bit) % 2 = Odd(m, bit)
  BY LrcHasBits
<1>2. n = m \o <<x>>
  OBVIOUS
<1> HIDE DEF x
<1>3. /\ n \in Seq(Octet) /\ DOMAIN n = 1 .. last /\ n[last] = x
      /\ \A i \in 1 .. Len(m) : n[i] = m[i]
  BY <1>0, <1>2, Behind
<1>4. ASSUME NEW bit \in Bits PROVE Odd(n, bit) = 0
  <2>1. IsFiniteSet(Having(m, bit)) /\ Odd(m, bit) \in 0 .. 1
    BY OddIsABit
  <2>2. last \notin Having(m, bit)
    BY DEF Having
  <2>3. Cardinality(Having(m, bit)) \in Nat
    BY <2>1, FS_CardinalityType
  <2>4. CASE Odd(m, bit) = 1
    <3>1. (n[last] \div bit) % 2 = 1
      BY <1>1, <1>3, <2>4
    <3>2. Having(n, bit) = Having(m, bit) \union {last}
      BY <1>3, <3>1 DEF Having
    <3>3. Cardinality(Having(n, bit)) = Cardinality(Having(m, bit)) + 1
      BY <2>1, <2>2, <3>2, FS_AddElement
    <3> QED
      BY <2>3, <2>4, <3>3 DEF Odd
  <2>5. CASE Odd(m, bit) = 0
    <3>1. (n[last] \div bit) % 2 = 0
      BY <1>1, <1>3, <2>5
    <3>2. Having(n, bit) = Having(m, bit)
      BY <1>3, <3>1 DEF Having
    <3> QED
      BY <2>5, <3>2 DEF Odd
  <2> QED
    BY <2>1, <2>4, <2>5
<1>5. /\ Odd(n, 1) = 0 /\ Odd(n, 2) = 0 /\ Odd(n, 4) = 0 /\ Odd(n, 8) = 0
      /\ Odd(n, 16) = 0 /\ Odd(n, 32) = 0 /\ Odd(n, 64) = 0 /\ Odd(n, 128) = 0
  BY <1>4 DEF Bits
<1>6. calcLrc(n) = 0
  BY <1>5, LrcIs
<1> QED
  BY <1>3, <1>6

\* What getHdr builds is sound.
Sound(f, command, error, body) ==
  LET length == 256 * f[2] + f[3]
  IN  /\ Len(f) = length + 2
      /\ f[5] = command /\ f[6] = error
      /\ SubSeq(f, 7, length + 1) = body
      /\ calcLrc(Tail(f)) = 0

\* The length of a message fits into two bytes, the higher one first.
LEMMA TwoBytes ==
  ASSUME NEW l \in Nat, l < 65536
  PROVE  /\ l \div 256 \in Octet /\ l % 256 \in Octet
         /\ 256 * (l \div 256) + (l % 256) = l
<1>1. l \div 256 \in Nat /\ l \div 256 < 256 /\ l % 256 \in Nat /\ l % 256 < 256
  OBVIOUS
<1>2. 256 * (l \div 256) + (l % 256) = l
  OBVIOUS
<1> QED
  BY ONLY <1>1, <1>2, OctetsAre

\* n is s with t behind it
IsJoined(n, s, t) ==
  /\ n \in Seq(Octet) /\ Len(n) = Len(s) + Len(t)
  /\ \A i \in 1 .. Len(s) : n[i] = s[i]
  /\ \A i \in 1 .. Len(t) : n[Len(s) + i] = t[i]

LEMMA Joined ==
  ASSUME NEW s \in Seq(Octet), NEW t \in Seq(Octet), NEW n, n = s \o t
  PROVE  IsJoined(n, s, t)
BY DEF IsJoined

\* h is the header of a message of length l
IsHeader(h, l, c, e) ==
  /\ h \in Seq(Octet) /\ Len(h) = 5
  /\ h[1] = l \div 256 /\ h[2] = l % 256 /\ h[4] = c /\ h[5] = e

LEMMA HeaderIs ==
  ASSUME NEW l \in Nat, l < 65536, NEW c \in Octet, NEW e \in Octet,
         NEW h, h = Header(l, c, e)
  PROVE  IsHeader(h, l, c, e)
<1> DEFINE hi == l \div 256
           lo == l % 256
<1>1. hi \in Octet /\ lo \in Octet
  BY TwoBytes
<1> HIDE DEF hi, lo
<1>2. h = <<hi, lo, 16, c, e>>
  BY DEF Header, VERSION, hi, lo
<1>. 16 \in Octet
  BY OctetsAre
<1>3. /\ h \in Seq(Octet) /\ Len(h) = 5
      /\ h[1] = hi /\ h[2] = lo /\ h[4] = c /\ h[5] = e
  BY <1>1, <1>2
<1> QED
  BY <1>3 DEF hi, lo, IsHeader

\* getHdr makes a message its receiver can take apart, of any body.
IsHdr(f, command, error, body) ==
  Sound(f, command, error, body) /\ f \in Seq(Nat) /\ Len(f) >= 7

LEMMA HdrIsSound ==
  ASSUME NEW c \in Octet, NEW e \in Octet, NEW b \in Seq(Octet), Len(b) < 65531,
         NEW f, f = getHdr(c, e, b)
  PROVE  IsHdr(f, c, e, b)
<1> DEFINE n == Len(b)
           l == 5 + n
           h == Header(l, c, e)
           m == h \o b
           x == calcLrc(m)
           g == m \o <<x>>
<1>1. f = <<STX>> \o m \o <<x>>
  BY DEF getHdr
<1>a. c \in Octet /\ e \in Octet /\ b \in Seq(Octet)
  OBVIOUS
<1>b. h = Header(l, c, e) /\ m = h \o b /\ x = calcLrc(m) /\ g = m \o <<x>>
  OBVIOUS
<1>2. n \in Nat /\ n < 65531
  OBVIOUS
<1> HIDE DEF n
<1>3. l \in Nat /\ l < 65536 /\ l = 5 + n
  BY <1>2
<1> HIDE DEF l, h, m, x, g
<1>4. /\ h \in Seq(Octet) /\ Len(h) = 5
      /\ h[1] = l \div 256 /\ h[2] = l % 256 /\ h[4] = c /\ h[5] = e
  <2>1. IsHeader(h, l, c, e)
    BY ONLY <1>3, <1>a, <1>b, HeaderIs, SMT
  <2> QED
    BY ONLY <2>1, Zenon DEF IsHeader
<1>5. /\ m \in Seq(Octet) /\ Len(m) = Len(h) + Len(b)
      /\ \A i \in 1 .. Len(h) : m[i] = h[i]
      /\ \A i \in 1 .. Len(b) : m[Len(h) + i] = b[i]
  <2>1. IsJoined(m, h, b)
    <3>1. h \in Seq(Octet) /\ b \in Seq(Octet) /\ m = h \o b
      BY ONLY <1>4, <1>a, <1>b
    <3> QED
      BY ONLY <3>1, Joined
  <2> QED
    BY ONLY <2>1, Zenon DEF IsJoined
<1>6. Len(m) = l /\ \A i \in 1 .. n : m[5 + i] = b[i]
  BY ONLY <1>3, <1>4, <1>5, <1>2 DEF n
<1>7. m[1] = h[1] /\ m[2] = h[2] /\ m[4] = h[4] /\ m[5] = h[5]
  BY ONLY <1>4, <1>5
<1>8. x \in Octet /\ g \in Seq(Octet) /\ calcLrc(g) = 0
  BY ONLY <1>5, <1>b, LrcHasBits, LrcCancels
<1>9. Len(g) = l + 1 /\ \A i \in 1 .. l : g[i] = m[i]
  BY ONLY <1>5, <1>6, <1>8, <1>b, Behind
<1>10. f = <<STX>> \o g /\ STX \in Octet
  <2>1. <<STX>> \o (m \o <<x>>) = <<STX>> \o m \o <<x>>
    <3>1. \A S : \A q, r, s \in Seq(S) : q \o (r \o s) = q \o r \o s
      OBVIOUS
    <3>2. <<STX>> \in Seq(Octet) /\ m \in Seq(Octet) /\ <<x>> \in Seq(Octet)
      BY ONLY <1>5, <1>8, OctetsAre DEF STX
    <3> QED
      BY ONLY <3>1, <3>2
  <2>2. STX \in Octet
    BY ONLY OctetsAre DEF STX
  <2> QED
    BY ONLY <1>1, <1>b, <2>1, <2>2
<1>11. /\ f \in Seq(Octet) /\ Len(f) = l + 2 /\ Tail(f) = g
       /\ \A i \in 1 .. l + 1 : f[i + 1] = g[i]
  <2>1. \A S : \A y \in S, q \in Seq(S) :
          /\ <<y>> \o q \in Seq(S) /\ Len(<<y>> \o q) = Len(q) + 1
          /\ Tail(<<y>> \o q) = q
          /\ \A i \in 1 .. Len(q) : (<<y>> \o q)[i + 1] = q[i]
    OBVIOUS
  <2>2. /\ f \in Seq(Octet) /\ Len(f) = Len(g) + 1 /\ Tail(f) = g
        /\ \A i \in 1 .. Len(g) : f[i + 1] = g[i]
    BY ONLY <1>8, <1>10, <2>1
  <2> QED
    BY ONLY <1>3, <1>9, <2>2, SMT
<1>12. \A i \in 1 .. l : f[i + 1] = m[i]
  BY <1>3, <1>9, <1>11
<1>13. f[1 + 1] = m[1] /\ f[2 + 1] = m[2] /\ f[4 + 1] = m[4] /\ f[5 + 1] = m[5]
  BY ONLY <1>2, <1>3, <1>12
<1>14. 256 * (l \div 256) + (l % 256) = l
  BY <1>3, TwoBytes
<1>15. 256 * f[2] + f[3] = l /\ f[5] = c /\ f[6] = e
  BY ONLY <1>4, <1>7, <1>13, <1>14
<1>16. SubSeq(f, 7, l + 1) = b
  <2>1. SubSeq(f, 7, l + 1) = [i \in 1 .. n |-> f[i + 6]]
    BY ONLY <1>2, <1>3, <1>11
  <2>2. \A i \in 1 .. n : f[i + 6] = b[i]
    <3> TAKE i \in 1 .. n
    <3>1. 5 + i \in 1 .. l /\ (5 + i) + 1 = i + 6
      BY <1>2, <1>3
    <3> QED
      BY ONLY <1>6, <1>12, <3>1, i \in 1 .. n
  <2>3. b = [i \in 1 .. n |-> b[i]]
    BY DEF n
  <2> QED
    BY ONLY <2>1, <2>2, <2>3
<1>17. f \in Seq(Nat)
  BY ONLY <1>11, OctetsAre
<1> QED
  <2>1. Len(f) >= 7
    BY ONLY <1>2, <1>3, <1>11
  <2>2. Sound(f, c, e, b)
    <3> DEFINE k == 256 * f[2] + f[3]
    <3>1. k = l
      BY ONLY <1>15
    <3> HIDE DEF k
    <3>2. Len(f) = k + 2 /\ f[5] = c /\ f[6] = e
      BY ONLY <1>11, <1>15, <3>1, Zenon
    <3>3. SubSeq(f, 7, k + 1) = b
      BY ONLY <1>16, <3>1, Zenon
    <3>4. calcLrc(Tail(f)) = 0
      BY ONLY <1>8, <1>11, Zenon
    <3> QED
      BY ONLY <3>2, <3>3, <3>4, Zenon DEF Sound, k
  <2> QED
    BY ONLY <1>17, <2>1, <2>2, Zenon DEF IsHdr

\* The invariant: what is sent was built by getHdr, and what is read is a
\* beginning of it.
IsBuilt ==
  /\ sent.command \in Octet /\ sent.error \in Octet
  /\ sent.body \in Seq(Octet) /\ Len(sent.body) < 65531
  /\ sent.frame = getHdr(sent.command, sent.error, sent.body)

IsRead ==
  /\ sent.frame # <<>>
  /\ read.len \in 1 .. Len(sent.frame)
  /\ read.outcome = enquire(SubSeq(sent.frame, 1, read.len), read.response)

PayInv == (sent.frame # <<>> => IsBuilt) /\ (read = Unread \/ IsRead)

\* The answer that is on its way is sound.
LEMMA BuiltIsSound ==
  ASSUME IsBuilt
  PROVE  IsHdr(sent.frame, sent.command, sent.error, sent.body)
<1> DEFINE f == sent.frame
           c == sent.command
           e == sent.error
           b == sent.body
<1>1. /\ c \in Octet /\ e \in Octet /\ b \in Seq(Octet) /\ Len(b) < 65531
      /\ f = getHdr(c, e, b)
  BY DEF IsBuilt
<1> HIDE DEF f, c, e, b
<1>2. IsHdr(f, c, e, b)
  BY ONLY <1>1, HdrIsSound
<1> QED
  BY <1>2 DEF f, c, e, b

\* Init establishes the invariant.
LEMMA PayInit == PInit => PayInv
BY DEF PInit, PayInv, IsBuilt, IsRead

\* An answer is built anew, or a beginning of it is read.
LEMMA PayStep == PayInv /\ [PNext]_pvars => PayInv'
<1> SUFFICES ASSUME PayInv, [PNext]_pvars PROVE PayInv'
  OBVIOUS
<1>1. CASE UNCHANGED pvars
  BY <1>1 DEF PayInv, IsBuilt, IsRead, pvars
<1>2. CASE Answers
  <2>1. PICK c \in Commands, e \in Errors, b \in Bodies :
          sent' = [frame |-> getHdr(c, e, b), command |-> c, error |-> e, body |-> b]
    BY <1>2 DEF Answers
  <2>2. c \in Octet /\ e \in Octet /\ b \in Seq(Octet) /\ Len(b) < 65531
    BY PayFrameAssumption
  <2>3. read' = Unread
    BY <1>2 DEF Answers
  <2> QED
    BY <2>1, <2>2, <2>3 DEF PayInv, IsBuilt
<1>3. CASE Reads
  <2>1. PICK n \in 1 .. Min({Len(sent.frame), MaxRead}), r \in Commands :
          read' = [len |-> n, response |-> r,
                   outcome |-> enquire(SubSeq(sent.frame, 1, n), r)]
    BY <1>3 DEF Reads
  <2>2. sent' = sent
    BY <1>3 DEF Reads
  <2>3. Len(sent.frame) \in Nat
    <3>1. CASE sent.frame = <<>>
      BY <3>1
    <3>2. CASE sent.frame # <<>>
      BY ONLY <3>2, PayInv, BuiltIsSound DEF IsHdr, PayInv
    <3> QED
      BY <3>1, <3>2
  <2>4. n \in 1 .. Len(sent.frame)
    <3> DEFINE l == Len(sent.frame)
    <3> HIDE DEF l
    <3>1. n \in 1 .. Min({l, MaxRead})
      BY DEF l
    <3>2. l \in Nat /\ MaxRead \in Nat
      BY <2>3, PayFrameAssumption DEF l
    <3>3. Min({l, MaxRead}) \in {l, MaxRead} /\ Min({l, MaxRead}) <= l
      <4> DEFINE S == {l, MaxRead}
      <4>1. \E m \in S : \A k \in S : m <= k
        <5>1. l <= MaxRead \/ MaxRead <= l
          BY <3>2
        <5> QED
          BY <3>2, <5>1
      <4>2. l \in S
        OBVIOUS
      <4> HIDE DEF S
      <4>3. Min(S) \in S /\ \A k \in S : Min(S) <= k
        BY ONLY <4>1 DEF Min
      <4> QED
        BY <4>2, <4>3 DEF S
    <3> QED
      BY <3>1, <3>2, <3>3 DEF l
  <2>5. sent.frame # <<>>
    BY <2>4
  <2> QED
    BY <2>1, <2>2, <2>4, <2>5 DEF PayInv, IsBuilt, IsRead
<1> QED
  BY <1>1, <1>2, <1>3 DEF PNext

\* what enquire is to say of an answer to r
Said(c, e, r) ==
  IF c # r THEN "refused" ELSE IF e \in {0, 255} THEN "done" ELSE "error"

\* Its command and error byte are where enquire looks, once they have come.
LEMMA PayAgrees == PayInv => FramesAgree
<1> SUFFICES ASSUME PayInv PROVE FramesAgree
  OBVIOUS
<1> DEFINE f == sent.frame
           c == sent.command
           e == sent.error
           b == sent.body
           n == read.len
           r == read.response
           out == SubSeq(f, 1, n)
           o == read.outcome
<1>1. ASSUME f # <<>> PROVE Sound(f, c, e, b) /\ f \in Seq(Nat) /\ Len(f) >= 7
  BY ONLY <1>1, PayInv, BuiltIsSound, Zenon DEF PayInv, IsHdr
<1>2. read = Unread \/ (f # <<>> /\ n \in 1 .. Len(f) /\ o = enquire(out, r))
  BY ONLY PayInv, Zenon DEF PayInv, IsRead, f, n, o, out, r
<1>3. read = Unread => n = 0 /\ o = "too short"
  <2>1. Unread.len = 0 /\ Unread.outcome = "too short"
    BY DEF Unread
  <2> QED
    BY ONLY <2>1, Zenon DEF n, o
<1>4. FrameIsSound
  BY ONLY <1>1, Zenon DEF FrameIsSound, Sound, GotLen
<1> HIDE DEF f, c, e, b, n, r, o
<1>5. (o = "done" => c = r /\ e \in {0, 255}) /\ (n >= 6 => o = Said(c, e, r))
  <2>1. CASE read = Unread
    <3>1. ~ (n >= 6)
      <4>1. n = 0
        BY ONLY <1>3, <2>1, Zenon
      <4> QED
        BY ONLY <4>1
    <3>2. o # "done"
      BY ONLY <1>3, <2>1, "too short" # "done", Zenon
    <3> QED
      BY ONLY <3>1, <3>2, Zenon
  <2>2. CASE read # Unread
    <3>1. f # <<>> /\ n \in 1 .. Len(f) /\ o = enquire(out, r)
      BY ONLY <1>2, <2>2, Zenon
    <3>2. f \in Seq(Nat) /\ f[5] = c /\ f[6] = e
      BY ONLY <1>1, <3>1, Zenon DEF Sound
    <3>3. Len(out) = n /\ \A i \in 1 .. n : out[i] = f[i]
      BY ONLY <3>1, <3>2 DEF out
    <3> HIDE DEF out
    <3>4. CASE n < 6
      <4>1. Len(out) < 6
        BY ONLY <3>3, <3>4, Zenon
      <4>2. Len(out) < ERR_IDX
        BY ONLY <4>1 DEF ERR_IDX
      <4>3. o = "too short" \/ o = "throws"
        BY ONLY <3>1, <4>2, Zenon DEF enquire
      <4>4. o # "done"
        BY ONLY <4>3, "too short" # "done", "throws" # "done", Zenon
      <4> QED
        BY ONLY <3>1, <3>4, <4>4
    <3>5. CASE n >= 6
      <4>1. out[5] = c /\ out[6] = e
        BY ONLY <3>1, <3>2, <3>3, <3>5
      <4>2. ~ (n < 5) /\ ~ (n < 6)
        BY ONLY <3>1, <3>5
      <4>5. CMD_IDX = 5 /\ ERR_IDX = 6
        BY ONLY TRUE DEF CMD_IDX, ERR_IDX
      <4>3. o = Said(c, e, r)
        BY ONLY <3>1, <3>3, <4>1, <4>2, <4>5, Zenon DEF enquire, Said
      <4>4. o = "done" => c = r /\ e \in {0, 255}
        BY ONLY <4>3, "refused" # "done", "error" # "done", Zenon DEF Said
      <4> QED
        BY ONLY <4>3, <4>4, Zenon
    <3> QED
      BY ONLY <3>1, <3>4, <3>5
  <2> QED
    BY ONLY <2>1, <2>2, Zenon
<1>6. AnswerIsRead
  BY ONLY <1>5, Zenon DEF AnswerIsRead, Said, c, e, n, r, o
<1> QED
  BY ONLY <1>4, <1>6 DEF FramesAgree

\* For any bodies, commands and errors: the messages of payutil are sound,
\* and enquire makes of any beginning of an answer what it should.
THEOREM EndsAgree == PSpec => []FramesAgree
<1>1. PInit => PayInv
  BY PayInit
<1>2. PayInv /\ [PNext]_pvars => PayInv'
  BY PayStep
<1>3. PayInv => FramesAgree
  BY PayAgrees
<1> QED
  BY <1>1, <1>2, <1>3, PTL DEF PSpec

----------------------------------------------------------------------------
(* The queues *)

USE IoDataAssumption

Owned(t) == [owner |-> t, count |-> 1]
Mutexes == [owner : Threads \union {NoThread}, count : Nat]

\* What the two calls make of a free mutex and of one's own.
LEMMA MutexCalls ==
  ASSUME NEW t \in Threads
  PROVE  /\ Free \in Mutexes /\ Owned(t) \in Mutexes
         /\ Locked(Free, t) = Owned(t) /\ Unlocked(Owned(t), t) = Free
         /\ Free # Owned(t) /\ Free.owner = NoThread /\ Owned(t).owner = t
         /\ \A u \in Threads : Owned(t) = Owned(u) => t = u
BY SMTT(30) DEF Free, Locked, Unlocked, Owned, Mutexes

\* Two threads are not inside together.
LEMMA OnlyOne ==
  ASSUME OneInside, NEW t \in Threads, NEW u \in Threads,
         pc[t] \in Inside, pc[u] \in Inside
  PROVE  t = u
BY MutexCalls DEF OneInside, Owned

\* Init establishes the invariant.
LEMMA InitHolds == Init => IoInv
BY SMTT(30) DEF Init, IoInv, IoTypeOK, OneInside, ReadIsCurrent, PutsAMessage, Free, Inside, Queues,
     Ops, NoCall

\* Who locks finds the mutex free, and who unlocks leaves it so.
LEMMA LockTakes ==
  ASSUME IoInv, NEW t \in Threads, Locks(t)
  PROVE  tmut = Free /\ tmut' = Owned(t)
<1>1. tmut # Owned(t)
  BY DEF Locks, IoInv, OneInside, Owned, At, Inside
<1>2. tmut = Free
  BY <1>1, MutexCalls DEF Locks, CanLock, IoInv, OneInside, Owned
<1>3. QED
  BY <1>2, MutexCalls DEF Locks

LEMMA UnlockFrees ==
  ASSUME IoInv, NEW t \in Threads, Unlocks(t)
  PROVE  tmut = Owned(t) /\ tmut' = Free
BY MutexCalls DEF Unlocks, IoInv, OneInside, Owned, At, Inside

----------------------------------------------------------------------------
(* One step *)

LEMMA TypeStep == IoInv /\ [Next]_vars => IoTypeOK'
<1> SUFFICES ASSUME IoInv, [Next]_vars PROVE IoTypeOK'
  OBVIOUS
<1> USE DEF IoInv, IoTypeOK, At, Goes, Inside
<1>0. <<>> \in Seq(Bytes)
  OBVIOUS
<1>1. ASSUME NEW t \in Threads, NEW op \in Ops, NEW q \in Queues,
             NEW s \in Seq(Bytes), Calls(t, op, q, s), op = "put" => s \in Messages
      PROVE  IoTypeOK'
  BY <1>1 DEF Calls
<1>2. ASSUME NEW t \in Threads, Locks(t) PROVE IoTypeOK'
  <2>1. FirstStep[call[t].op] \in Inside
    BY DEF FirstStep, Ops
  <2>2. tmut' = Owned(t) /\ Owned(t) \in Mutexes
    BY <1>2, LockTakes, MutexCalls
  <2>3. QED
    BY <1>2, <2>1, <2>2 DEF Locks, Mutexes
<1>3. ASSUME NEW t \in Threads, Appends(t) PROVE IoTypeOK'
  BY <1>3 DEF Appends
<1>4. ASSUME NEW t \in Threads, Stores(t) PROVE IoTypeOK'
  BY <1>4 DEF Stores
<1>5. ASSUME NEW t \in Threads, TestEmpty(t) PROVE IoTypeOK'
  BY <1>5 DEF TestEmpty
<1>6. ASSUME NEW t \in Threads, TestCopies(t) PROVE IoTypeOK'
  BY <1>6 DEF TestCopies
<1>7. ASSUME NEW t \in Threads, Clears(t) PROVE IoTypeOK'
  BY <1>7 DEF Clears
<1>8. ASSUME NEW t \in Threads, Looks(t) PROVE IoTypeOK'
  BY <1>8 DEF Looks
<1>9. ASSUME NEW t \in Threads, Unlocks(t) PROVE IoTypeOK'
  <2>1. NoCall \in [op : Ops, q : Queues, bytes : Seq(Bytes)]
    BY DEF NoCall, Ops, Queues
  <2>2. tmut' = Free /\ Free \in Mutexes
    BY <1>9, UnlockFrees, MutexCalls
  <2>3. QED
    BY <1>0, <1>9, <2>1, <2>2 DEF Unlocks, Mutexes
<1>10. CASE UNCHANGED vars
  BY <1>10 DEF vars
<1> HIDE DEF IoInv, IoTypeOK, At, Goes, Inside
<1>11. QED
  BY <1>0, <1>1, <1>2, <1>3, <1>4, <1>5, <1>6, <1>7, <1>8, <1>9, <1>10
     DEF Next, Steps, Ops

\* The calls of Next, as the lemmas below take them.
LEMMA NextSteps ==
  ASSUME Next
  PROVE  \/ \E t \in Threads, op \in Ops, q \in Queues, s \in Seq(Bytes) :
              Calls(t, op, q, s) /\ (op = "put" => s \in Messages)
         \/ \E t \in Threads : Steps(t)
<1>1. <<>> \in Seq(Bytes)
  OBVIOUS
<1>2. QED
  BY <1>1 DEF Next, Ops

LEMMA OneInsideStep == IoInv /\ [Next]_vars => OneInside'
<1> SUFFICES ASSUME IoInv, [Next]_vars PROVE OneInside'
  OBVIOUS
<1>0. /\ pc \in [Threads -> Inside \union {"idle", "lock"}]
      /\ \A t \in Threads : pc[t] \in Inside <=> tmut = Owned(t)
      /\ tmut = Free \/ \E t \in Threads : tmut = Owned(t)
  BY DEF IoInv, IoTypeOK, OneInside, Owned
<1> SUFFICES /\ \A t \in Threads : pc'[t] \in Inside <=> tmut' = Owned(t)
             /\ tmut' = Free \/ \E t \in Threads : tmut' = Owned(t)
  BY DEF OneInside, Owned
<1>1. ASSUME NEW t \in Threads, NEW op \in Ops, NEW q \in Queues,
             NEW s \in Seq(Bytes), Calls(t, op, q, s), op = "put" => s \in Messages
      PROVE  tmut' = tmut /\ \A u \in Threads : pc'[u] \in Inside <=> pc[u] \in Inside
  BY <1>0, <1>1 DEF Calls, At, Goes, Inside
<1>2. ASSUME NEW t \in Threads, Locks(t)
      PROVE  /\ pc'[t] \in Inside /\ tmut' = Owned(t) /\ tmut = Free
             /\ \A u \in Threads \ {t} : pc'[u] = pc[u]
  <2>1. FirstStep[call[t].op] \in Inside
    BY DEF FirstStep, Ops, Inside, IoInv, IoTypeOK
  <2>2. QED
    BY <1>0, <1>2, <2>1, LockTakes DEF Locks, Goes
<1>3. ASSUME NEW t \in Threads,
             Appends(t) \/ Stores(t) \/ TestEmpty(t) \/ TestCopies(t) \/ Clears(t) \/ Looks(t)
      PROVE  tmut' = tmut /\ \A u \in Threads : pc'[u] \in Inside <=> pc[u] \in Inside
  BY <1>0, <1>3
     DEF Appends, Stores, TestEmpty, TestCopies, Clears, Looks, At, Goes, Inside
<1>4. ASSUME NEW t \in Threads, Unlocks(t)
      PROVE  /\ pc'[t] \notin Inside /\ tmut' = Free /\ tmut = Owned(t)
             /\ \A u \in Threads \ {t} : pc'[u] = pc[u]
  BY <1>0, <1>4, UnlockFrees DEF Unlocks, Goes, Inside
<1>5. CASE UNCHANGED vars
  BY <1>0, <1>5 DEF vars
<1>6. CASE \E t \in Threads : Locks(t)
  BY <1>0, <1>2, <1>6, MutexCalls
<1>7. CASE \E t \in Threads : Unlocks(t)
  BY <1>0, <1>4, <1>7, MutexCalls
<1>8. QED
  BY <1>0, <1>1, <1>3, <1>5, <1>6, <1>7, NextSteps DEF Steps

LEMMA ReadIsCurrentStep == IoInv /\ [Next]_vars => ReadIsCurrent'
<1> SUFFICES ASSUME IoInv, [Next]_vars,
                    NEW u \in Threads, pc'[u] \in {"store", "clear"}
             PROVE  tmp'[u] = queue'[call'[u].q]
  BY DEF ReadIsCurrent
<1> USE DEF IoInv, IoTypeOK, At, Goes
<1>1. ASSUME NEW t \in Threads, NEW op \in Ops, NEW q \in Queues,
             NEW s \in Seq(Bytes), Calls(t, op, q, s), op = "put" => s \in Messages
      PROVE  tmp'[u] = queue'[call'[u].q]
  BY <1>1 DEF Calls, ReadIsCurrent
<1>2. ASSUME NEW t \in Threads, Locks(t) PROVE tmp'[u] = queue'[call'[u].q]
  BY <1>2 DEF Locks, ReadIsCurrent, FirstStep, Ops
<1>3. ASSUME NEW t \in Threads, Appends(t) \/ TestCopies(t)
      PROVE  tmp'[u] = queue'[call'[u].q]
  <2>1. CASE t = u
    BY <1>3, <2>1 DEF Appends, TestCopies
  <2>2. CASE t # u
    BY <1>3, <2>2 DEF Appends, TestCopies, ReadIsCurrent
  <2>3. QED
    BY <2>1, <2>2
<1>4. ASSUME NEW t \in Threads, TestEmpty(t) \/ Looks(t)
      PROVE  tmp'[u] = queue'[call'[u].q]
  BY <1>4 DEF TestEmpty, Looks, ReadIsCurrent
<1>5. ASSUME NEW t \in Threads, Unlocks(t) PROVE tmp'[u] = queue'[call'[u].q]
  BY <1>5 DEF Unlocks, ReadIsCurrent
<1>6. ASSUME NEW t \in Threads, Stores(t) \/ Clears(t)
      PROVE  tmp'[u] = queue'[call'[u].q]
  <2>1. t # u /\ pc[u] \in Inside /\ pc[t] \in Inside
    BY <1>6 DEF Stores, Clears, Inside
  <2>2. QED
    BY <2>1, OnlyOne
<1>7. CASE UNCHANGED vars
  BY <1>7 DEF vars, ReadIsCurrent
<1>8. QED
  BY <1>1, <1>2, <1>3, <1>4, <1>5, <1>6, <1>7, NextSteps DEF Steps

LEMMA PutsAMessageStep == IoInv /\ [Next]_vars => PutsAMessage'
<1> SUFFICES ASSUME IoInv, [Next]_vars, NEW u \in Threads
             PROVE  /\ pc'[u] \in {"append", "store"} => call'[u].op = "put"
                    /\ call'[u].op = "put" => call'[u].bytes \in Messages
  BY DEF PutsAMessage
<1> DEFINE Goal == /\ pc'[u] \in {"append", "store"} => call'[u].op = "put"
                   /\ call'[u].op = "put" => call'[u].bytes \in Messages
<1> USE DEF IoInv, IoTypeOK, At, Goes
<1>1. ASSUME NEW t \in Threads, NEW op \in Ops, NEW q \in Queues,
             NEW s \in Seq(Bytes), Calls(t, op, q, s), op = "put" => s \in Messages
      PROVE  Goal
  BY <1>1 DEF Calls, PutsAMessage
<1>2. ASSUME NEW t \in Threads, Locks(t) PROVE Goal
  <2>1. call[t].op \in {"put", "get", "has", "len"}
    BY DEF Ops
  <2>2. FirstStep[call[t].op] \in {"append", "store"} => call[t].op = "put"
    BY <2>1 DEF FirstStep
  <2>3. QED
    BY <1>2, <2>2 DEF Locks, PutsAMessage
<1>3. ASSUME NEW t \in Threads, Appends(t) \/ TestCopies(t) PROVE Goal
  BY <1>3 DEF Appends, TestCopies, PutsAMessage
<1>4. ASSUME NEW t \in Threads, TestEmpty(t) \/ Looks(t) PROVE Goal
  BY <1>4 DEF TestEmpty, Looks, PutsAMessage
<1>5. ASSUME NEW t \in Threads, Unlocks(t) PROVE Goal
  BY <1>5 DEF Unlocks, NoCall, PutsAMessage
<1>6. ASSUME NEW t \in Threads, Stores(t) \/ Clears(t) PROVE Goal
  BY <1>6 DEF Stores, Clears, PutsAMessage
<1>7. CASE UNCHANGED vars
  BY <1>7 DEF vars, PutsAMessage
<1>8. QED
  BY <1>1, <1>2, <1>3, <1>4, <1>5, <1>6, <1>7, NextSteps DEF Steps

(* The mutex of the two queues admits one thread at a time, however many   *)
(* there are, and what a thread has read in it stays true until it writes. *)
THEOREM OneThreadInside == Spec => []IoInv
<1>1. IoInv /\ [Next]_vars => IoInv'
  BY TypeStep, OneInsideStep, ReadIsCurrentStep, PutsAMessageStep DEF IoInv
<1>2. QED
  BY <1>1, InitHolds, PTL DEF Spec

----------------------------------------------------------------------------
(* The queues are atomic *)

LEMMA StepIsAtomic == IoInv /\ [Next]_vars => [Atomic!Next]_Atomic!vars
<1> SUFFICES ASSUME IoInv, [Next]_vars PROVE Atomic!Next \/ UNCHANGED <<queue, got>>
  BY DEF Atomic!vars
<1> USE DEF At
<1>1. ASSUME NEW t \in Threads, Stores(t) PROVE Atomic!Next
  <2>1. call[t].q \in Queues /\ call[t].bytes \in Messages
    BY <1>1 DEF Stores, IoInv, IoTypeOK, PutsAMessage
  <2>2. tmp[t] = queue[call[t].q]
    BY <1>1 DEF Stores, IoInv, ReadIsCurrent
  <2>3. Atomic!Put(call[t].q, call[t].bytes)
    BY <1>1, <2>2 DEF Stores, Atomic!Put
  <2>4. QED
    BY <2>1, <2>3 DEF Atomic!Next
<1>2. ASSUME NEW t \in Threads, TestEmpty(t) PROVE Atomic!Next
  <2>1. call[t].q \in Queues /\ queue \in [Queues -> Seq(Bytes)]
    BY <1>2 DEF IoInv, IoTypeOK
  <2>2. queue' = [queue EXCEPT ![call[t].q] = <<>>]
    BY <1>2, <2>1 DEF TestEmpty
  <2>3. Atomic!Take(t, call[t].q)
    BY <1>2, <2>2 DEF TestEmpty, Atomic!Take
  <2>4. QED
    BY <2>1, <2>3 DEF Atomic!Next
<1>3. ASSUME NEW t \in Threads, Clears(t) PROVE Atomic!Next
  <2>1. call[t].q \in Queues /\ tmp[t] = queue[call[t].q]
    BY <1>3 DEF Clears, IoInv, IoTypeOK, ReadIsCurrent
  <2>2. Atomic!Take(t, call[t].q)
    BY <1>3, <2>1 DEF Clears, Atomic!Take
  <2>3. QED
    BY <2>1, <2>2 DEF Atomic!Next
<1>4. ASSUME NEW t \in Threads, Looks(t) PROVE Atomic!Next
  <2>1. call[t].q \in Queues
    BY DEF IoInv, IoTypeOK
  <2>2. Atomic!IsEmpty(t, call[t].q)
    BY <1>4 DEF Looks, Atomic!IsEmpty
  <2>3. QED
    BY <2>1, <2>2 DEF Atomic!Next
<1>5. ASSUME NEW t \in Threads,
             Locks(t) \/ Appends(t) \/ TestCopies(t) \/ Unlocks(t)
      PROVE  UNCHANGED <<queue, got>>
  BY <1>5 DEF Locks, Appends, TestCopies, Unlocks
<1>6. ASSUME NEW t \in Threads, NEW op \in Ops, NEW q \in Queues,
             NEW s \in Seq(Bytes), Calls(t, op, q, s)
      PROVE  UNCHANGED <<queue, got>>
  BY <1>6 DEF Calls
<1>7. CASE UNCHANGED vars
  BY <1>7 DEF vars
<1>8. QED
  BY <1>1, <1>2, <1>3, <1>4, <1>5, <1>6, <1>7, NextSteps DEF Steps

(* What the calls of IoData do is what they would do one after the other:  *)
(* that the other modules take each of them as one step is justified for   *)
(* any number of threads.                                                  *)
THEOREM QueuesAreAtomic == Spec => AtomicQueues
<1>1. Init => Atomic!Init
  BY DEF Init, Atomic!Init
<1>2. QED
  BY <1>1, StepIsAtomic, OneThreadInside, PTL DEF Spec, AtomicQueues, Atomic!Spec
=============================================================================
