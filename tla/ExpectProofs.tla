---------------------------- MODULE ExpectProofs ----------------------------
(***************************************************************************)
(* Theorems about Expect, for every value of its constants: what the waits *)
(* for text find, miss and keep of the text that arrives.                  *)
(***************************************************************************)
EXTENDS Expect, SequenceTheorems, WellFoundedInduction, TLAPS

-----------------------------------------------------------------------------
(* Sequences, by their places. *)

\* x is in s from place i + 1 on.
At(x, s, i) == \A j \in 1..Len(x) : s[i + j] = x[j]

\* A sequence is in another iff it is at some place of it.
LEMMA OccursAt ==
  ASSUME NEW S, NEW x \in Seq(S), NEW s \in Seq(S)
  PROVE  Occurs(x, s) <=> \E i \in 0..(Len(s) - Len(x)) : At(x, s, i)
<1>1. Len(x) \in Nat /\ Len(s) \in Nat
  BY LenProperties
<1>2. ASSUME NEW i \in 0..Len(s), NEW j \in 0..Len(s)
      PROVE  /\ SubSeq(s, i + 1, j) \in Seq(S)
             /\ Len(SubSeq(s, i + 1, j)) = IF i + 1 <= j THEN j - i ELSE 0
             /\ \A k \in 1..(j - i) : SubSeq(s, i + 1, j)[k] = s[i + k]
  <2>1. \A k \in (i + 1)..j : s[k] \in S
    BY <1>1, ElementOfSeq
  <2>2. i + 1 \in Int /\ j \in Int
    BY <1>1
  <2>3. /\ SubSeq(s, i + 1, j) \in Seq(S)
        /\ Len(SubSeq(s, i + 1, j))
             = IF i + 1 <= j THEN j - (i + 1) + 1 ELSE 0
        /\ \A k \in 1..(j - (i + 1) + 1) :
             SubSeq(s, i + 1, j)[k] = s[(i + 1) + k - 1]
    BY <2>1, <2>2, SubSeqProperties
  <2> QED
    BY <1>1, <2>3
<1>3. ASSUME Occurs(x, s)
      PROVE  \E i \in 0..(Len(s) - Len(x)) : At(x, s, i)
  <2>1. PICK i \in 0..Len(s), j \in 0..Len(s) : x = SubSeq(s, i + 1, j)
    BY <1>3 DEF Occurs, SubSeqs
  <2>2. CASE i + 1 <= j
    <3>1. Len(x) = j - i /\ \A k \in 1..Len(x) : s[i + k] = x[k]
      BY <1>1, <1>2, <2>1, <2>2
    <3>2. i \in 0..(Len(s) - Len(x))
      BY <1>1, <3>1
    <3> QED
      BY <3>1, <3>2 DEF At
  <2>3. CASE ~(i + 1 <= j)
    <3>1. Len(x) = 0
      BY <1>2, <2>1, <2>3
    <3>2. 0 \in 0..(Len(s) - Len(x)) /\ At(x, s, 0)
      BY <1>1, <3>1 DEF At
    <3> QED
      BY <3>2
  <2> QED
    BY <2>2, <2>3
<1>4. ASSUME NEW i \in 0..(Len(s) - Len(x)), At(x, s, i)
      PROVE  Occurs(x, s)
  <2> DEFINE j == i + Len(x)
  <2>1. i \in 0..Len(s) /\ j \in 0..Len(s)
    BY <1>1
  <2>2. /\ SubSeq(s, i + 1, j) \in Seq(S)
        /\ Len(SubSeq(s, i + 1, j)) = Len(x)
    BY <1>1, <1>2, <2>1
  <2>3. \A k \in 1..Len(x) : SubSeq(s, i + 1, j)[k] = x[k]
    <3> TAKE k \in 1..Len(x)
    <3>1. k \in 1..(j - i)
      BY <1>1
    <3>2. SubSeq(s, i + 1, j)[k] = s[i + k]
      BY <1>2, <2>1, <3>1
    <3> QED
      BY <1>4, <3>2 DEF At
  <2>4. SubSeq(s, i + 1, j) = x
    BY <2>2, <2>3, SeqEqual
  <2> HIDE DEF j
  <2> QED
    BY <2>1, <2>4 DEF Occurs, SubSeqs
<1> QED
  BY <1>3, <1>4

\* A sequence is a suffix of another iff it is at its end.
LEMMA SuffixAt ==
  ASSUME NEW S, NEW s \in Seq(S), NEW t \in Seq(S)
  PROVE  IsSuffix(s, t) <=> Len(s) <= Len(t) /\ At(s, t, Len(t) - Len(s))
<1>1. Len(s) \in Nat /\ Len(t) \in Nat
  BY LenProperties
<1>2. ASSUME NEW u \in Seq(S)
      PROVE  /\ Reverse(u) \in Seq(S)
             /\ Len(Reverse(u)) = Len(u)
             /\ \A i \in 1..Len(u) : Reverse(u)[i] = u[Len(u) - i + 1]
  <2>1. Len(u) \in Nat
    BY LenProperties
  <2>2. \A i \in 1..Len(u) : u[Len(u) - i + 1] \in S
    BY <2>1, ElementOfSeq
  <2> QED
    BY <2>1, <2>2 DEF Reverse
<1>3. ASSUME NEW u \in Seq(S), NEW n \in 0..Len(u)
      PROVE  /\ SubSeq(u, 1, n) \in Seq(S)
             /\ Len(SubSeq(u, 1, n)) = n
             /\ \A i \in 1..n : SubSeq(u, 1, n)[i] = u[i]
  <2>1. Len(u) \in Nat
    BY LenProperties
  <2>2. \A i \in 1..n : u[i] \in S
    BY <2>1, ElementOfSeq
  <2>3. 1 \in Int /\ n \in Int
    BY <2>1
  <2>4. /\ SubSeq(u, 1, n) \in Seq(S)
        /\ Len(SubSeq(u, 1, n)) = IF 1 <= n THEN n - 1 + 1 ELSE 0
        /\ \A i \in 1..(n - 1 + 1) : SubSeq(u, 1, n)[i] = u[1 + i - 1]
    BY <2>2, <2>3, SubSeqProperties
  <2> QED
    BY <2>1, <2>4
<1> DEFINE p == SubSeq(Reverse(s), 1, Len(s))
           q == SubSeq(Reverse(t), 1, Len(s))
<1>4. IsSuffix(s, t) <=> Len(s) <= Len(t) /\ p = q
  BY <1>2 DEF IsSuffix, IsPrefix
<1>5. SUFFICES ASSUME Len(s) <= Len(t)
               PROVE  p = q <=> At(s, t, Len(t) - Len(s))
  BY <1>4
<1>6. /\ p \in Seq(S) /\ q \in Seq(S)
      /\ Len(p) = Len(s) /\ Len(q) = Len(s)
  BY <1>1, <1>2, <1>3, <1>5
<1>7. \A i \in 1..Len(s) : p[i] = s[Len(s) - i + 1] /\ q[i] = t[Len(t) - i + 1]
  <2> TAKE i \in 1..Len(s)
  <2>1. i \in 1..Len(t) /\ Len(s) \in 0..Len(s) /\ Len(s) \in 0..Len(t)
    BY <1>1, <1>5
  <2>2. p[i] = Reverse(s)[i] /\ q[i] = Reverse(t)[i]
    BY <1>2, <1>3, <2>1
  <2> QED
    BY <1>2, <2>1, <2>2
<1> HIDE DEF p, q
<1>8. ASSUME p = q PROVE At(s, t, Len(t) - Len(s))
  <2> SUFFICES ASSUME NEW j \in 1..Len(s)
               PROVE  t[Len(t) - Len(s) + j] = s[j]
    BY DEF At
  <2>1. Len(s) - j + 1 \in 1..Len(s)
    BY <1>1
  <2>2. s[Len(s) - (Len(s) - j + 1) + 1] = t[Len(t) - (Len(s) - j + 1) + 1]
    BY <1>7, <1>8, <2>1
  <2>3. /\ Len(s) - (Len(s) - j + 1) + 1 = j
        /\ Len(t) - (Len(s) - j + 1) + 1 = Len(t) - Len(s) + j
    BY <1>1
  <2> QED
    BY <2>2, <2>3
<1>9. ASSUME At(s, t, Len(t) - Len(s)) PROVE p = q
  <2>1. ASSUME NEW i \in 1..Len(s)
        PROVE  p[i] = q[i]
    <3>1. Len(s) - i + 1 \in 1..Len(s)
      BY <1>1
    <3>2. t[Len(t) - Len(s) + (Len(s) - i + 1)] = s[Len(s) - i + 1]
      BY <1>9, <3>1 DEF At
    <3>3. Len(t) - Len(s) + (Len(s) - i + 1) = Len(t) - i + 1
      BY <1>1
    <3> QED
      BY <1>7, <3>2, <3>3
  <2> QED
    BY <1>6, <2>1, SeqEqual
<1> QED
  BY <1>8, <1>9

\* What occurs in a suffix occurs in the whole.
LEMMA OccursInSuffix ==
  ASSUME NEW S, NEW x \in Seq(S), NEW s \in Seq(S), NEW t \in Seq(S),
         IsSuffix(s, t), Occurs(x, s)
  PROVE  Occurs(x, t)
<1>1. Len(x) \in Nat /\ Len(s) \in Nat /\ Len(t) \in Nat
  BY LenProperties
<1>2. Len(s) <= Len(t) /\ At(s, t, Len(t) - Len(s))
  BY SuffixAt
<1>3. PICK i \in 0..(Len(s) - Len(x)) : At(x, s, i)
  BY OccursAt
<1> DEFINE k == Len(t) - Len(s) + i
<1>4. k \in 0..(Len(t) - Len(x))
  BY <1>1, <1>2
<1>5. ASSUME NEW j \in 1..Len(x) PROVE t[k + j] = x[j]
  <2>1. i + j \in 1..Len(s)
    BY <1>1
  <2>2. t[Len(t) - Len(s) + (i + j)] = s[i + j]
    BY <1>2, <2>1 DEF At
  <2>3. Len(t) - Len(s) + (i + j) = k + j
    BY <1>1
  <2>4. s[i + j] = x[j]
    BY <1>3 DEF At
  <2> QED
    BY <2>2, <2>3, <2>4
<1> HIDE DEF k
<1>6. At(x, t, k)
  BY <1>5 DEF At
<1> QED
  BY <1>4, <1>6, OccursAt

\* What occurs in a sequence occurs in what it is extended to.
LEMMA OccursInLonger ==
  ASSUME NEW S, NEW x \in Seq(S), NEW s \in Seq(S), NEW t \in Seq(S),
         Occurs(x, s)
  PROVE  Occurs(x, s \o t)
<1>1. Len(x) \in Nat /\ Len(s) \in Nat /\ Len(t) \in Nat
  BY LenProperties
<1>2. /\ s \o t \in Seq(S)
      /\ Len(s \o t) = Len(s) + Len(t)
      /\ \A i \in 1..Len(s) : (s \o t)[i] = s[i]
  BY <1>1, ConcatProperties
<1>3. PICK i \in 0..(Len(s) - Len(x)) : At(x, s, i)
  BY OccursAt
<1>4. i \in 0..(Len(s \o t) - Len(x))
  BY <1>1, <1>2
<1>5. At(x, s \o t, i)
  <2> SUFFICES ASSUME NEW j \in 1..Len(x) PROVE (s \o t)[i + j] = x[j]
    BY DEF At
  <2>1. i + j \in 1..Len(s)
    BY <1>1
  <2>2. (s \o t)[i + j] = s[i + j]
    BY <1>2, <2>1
  <2>3. s[i + j] = x[j]
    BY <1>3 DEF At
  <2> QED
    BY <2>2, <2>3
<1> QED
  BY <1>2, <1>4, <1>5, OccursAt

\* Suffixes of suffixes.
LEMMA SuffixTransitive ==
  ASSUME NEW S, NEW s \in Seq(S), NEW t \in Seq(S), NEW u \in Seq(S),
         IsSuffix(s, t), IsSuffix(t, u)
  PROVE  IsSuffix(s, u)
<1>1. Len(s) \in Nat /\ Len(t) \in Nat /\ Len(u) \in Nat
  BY LenProperties
<1>2. /\ Len(s) <= Len(t) /\ At(s, t, Len(t) - Len(s))
      /\ Len(t) <= Len(u) /\ At(t, u, Len(u) - Len(t))
  BY SuffixAt
<1>3. At(s, u, Len(u) - Len(s))
  <2> SUFFICES ASSUME NEW j \in 1..Len(s) PROVE u[Len(u) - Len(s) + j] = s[j]
    BY DEF At
  <2> DEFINE k == Len(t) - Len(s) + j
  <2>1. k \in 1..Len(t) /\ Len(u) - Len(t) + k = Len(u) - Len(s) + j
    BY <1>1, <1>2
  <2>2. t[k] = s[j]
    BY <1>2 DEF At
  <2> HIDE DEF k
  <2>3. u[Len(u) - Len(t) + k] = t[k]
    BY <1>2, <2>1 DEF At
  <2> QED
    BY <2>1, <2>2, <2>3
<1> QED
  BY <1>1, <1>2, <1>3, SuffixAt

\* A suffix and the whole, extended alike.
LEMMA SuffixExtended ==
  ASSUME NEW S, NEW s \in Seq(S), NEW t \in Seq(S), NEW c \in Seq(S),
         IsSuffix(s, t)
  PROVE  IsSuffix(s \o c, t \o c)
<1>1. Len(s) \in Nat /\ Len(t) \in Nat /\ Len(c) \in Nat
  BY LenProperties
<1>2. Len(s) <= Len(t) /\ At(s, t, Len(t) - Len(s))
  BY SuffixAt
<1>3. /\ s \o c \in Seq(S) /\ t \o c \in Seq(S)
      /\ Len(s \o c) = Len(s) + Len(c) /\ Len(t \o c) = Len(t) + Len(c)
      /\ \A i \in 1..(Len(s) + Len(c)) :
           (s \o c)[i] = IF i <= Len(s) THEN s[i] ELSE c[i - Len(s)]
      /\ \A i \in 1..(Len(t) + Len(c)) :
           (t \o c)[i] = IF i <= Len(t) THEN t[i] ELSE c[i - Len(t)]
  BY ConcatProperties
<1>4. At(s \o c, t \o c, Len(t \o c) - Len(s \o c))
  <2> SUFFICES ASSUME NEW j \in 1..Len(s \o c)
               PROVE  (t \o c)[Len(t \o c) - Len(s \o c) + j] = (s \o c)[j]
    BY DEF At
  <2> DEFINE k == Len(t) - Len(s) + j
  <2>1. /\ j \in 1..(Len(s) + Len(c)) /\ k \in 1..(Len(t) + Len(c))
        /\ Len(t \o c) - Len(s \o c) + j = k
    BY <1>1, <1>2, <1>3
  <2>2. CASE j <= Len(s)
    <3>1. k <= Len(t) /\ j \in 1..Len(s)
      BY <1>1, <2>1, <2>2
    <3>2. t[k] = s[j]
      BY <1>2, <3>1 DEF At
    <3> HIDE DEF k
    <3> QED
      BY <1>3, <2>1, <2>2, <3>1, <3>2
  <2>3. CASE ~(j <= Len(s))
    <3>1. ~(k <= Len(t)) /\ k - Len(t) = j - Len(s)
      BY <1>1, <2>1, <2>3
    <3> HIDE DEF k
    <3> QED
      BY <1>3, <2>1, <2>3, <3>1
  <2> QED
    BY <2>2, <2>3
<1>5. Len(s \o c) <= Len(t \o c)
  BY <1>1, <1>2, <1>3
<1>6. s \o c \in Seq(S) /\ t \o c \in Seq(S)
  BY <1>3
<1> QED
  BY <1>4, <1>5, <1>6, SuffixAt

LEMMA SuffixReflexive ==
  ASSUME NEW S, NEW s \in Seq(S)
  PROVE  IsSuffix(s, s)
<1>1. Len(s) \in Nat
  BY LenProperties
<1>2. At(s, s, Len(s) - Len(s))
  BY <1>1 DEF At
<1> QED
  BY <1>1, <1>2, SuffixAt

\* The bytes behind the first m are a suffix.
LEMMA RestIsSuffix ==
  ASSUME NEW S, NEW s \in Seq(S), NEW m \in 0..Len(s)
  PROVE  /\ SubSeq(s, m + 1, Len(s)) \in Seq(S)
         /\ Len(SubSeq(s, m + 1, Len(s))) = Len(s) - m
         /\ \A i \in 1..(Len(s) - m) : SubSeq(s, m + 1, Len(s))[i] = s[m + i]
         /\ IsSuffix(SubSeq(s, m + 1, Len(s)), s)
<1> DEFINE r == SubSeq(s, m + 1, Len(s))
<1>1. Len(s) \in Nat
  BY LenProperties
<1>2. m + 1 \in Int /\ Len(s) \in Int /\ \A i \in (m + 1)..Len(s) : s[i] \in S
  BY <1>1, ElementOfSeq
<1>3. /\ r \in Seq(S)
      /\ Len(r) = IF m + 1 <= Len(s) THEN Len(s) - (m + 1) + 1 ELSE 0
      /\ \A i \in 1..(Len(s) - (m + 1) + 1) : r[i] = s[(m + 1) + i - 1]
  BY <1>2, SubSeqProperties
<1>4. /\ r \in Seq(S)
      /\ Len(r) = Len(s) - m
      /\ \A i \in 1..(Len(s) - m) : r[i] = s[m + i]
  BY <1>1, <1>3
<1> HIDE DEF r
<1>5. At(r, s, Len(s) - Len(r)) /\ Len(r) <= Len(s)
  BY <1>1, <1>4 DEF At
<1>6. IsSuffix(r, s)
  BY <1>4, <1>5, SuffixAt
<1> QED
  BY <1>4, <1>6 DEF r

\* The bytes behind the first m of what is extended.
LEMMA RestExtended ==
  ASSUME NEW S, NEW s \in Seq(S), NEW c \in Seq(S), NEW m \in 0..Len(s)
  PROVE  SubSeq(s \o c, m + 1, Len(s \o c)) = SubSeq(s, m + 1, Len(s)) \o c
<1> DEFINE r == SubSeq(s, m + 1, Len(s))
           l == SubSeq(s \o c, m + 1, Len(s \o c))
<1>1. Len(s) \in Nat /\ Len(c) \in Nat
  BY LenProperties
<1>2. /\ s \o c \in Seq(S)
      /\ Len(s \o c) = Len(s) + Len(c)
      /\ \A i \in 1..(Len(s) + Len(c)) :
           (s \o c)[i] = IF i <= Len(s) THEN s[i] ELSE c[i - Len(s)]
  BY ConcatProperties
<1>3. /\ r \in Seq(S) /\ Len(r) = Len(s) - m
      /\ \A i \in 1..(Len(s) - m) : r[i] = s[m + i]
  BY RestIsSuffix
<1>4. m \in 0..Len(s \o c)
  BY <1>1, <1>2
<1>5. /\ l \in Seq(S) /\ Len(l) = Len(s) + Len(c) - m
      /\ \A i \in 1..(Len(s) + Len(c) - m) : l[i] = (s \o c)[m + i]
  <2> DEFINE w == s \o c
  <2>1. w \in Seq(S) /\ m \in 0..Len(w) /\ Len(w) = Len(s) + Len(c)
    BY <1>2, <1>4
  <2> HIDE DEF w
  <2>2. /\ SubSeq(w, m + 1, Len(w)) \in Seq(S)
        /\ Len(SubSeq(w, m + 1, Len(w))) = Len(w) - m
        /\ \A i \in 1..(Len(w) - m) : SubSeq(w, m + 1, Len(w))[i] = w[m + i]
    BY <2>1, RestIsSuffix
  <2>3. l = SubSeq(w, m + 1, Len(w))
    BY DEF w
  <2> HIDE DEF l
  <2>4. /\ l \in Seq(S) /\ Len(l) = Len(s) + Len(c) - m
        /\ \A i \in 1..(Len(s) + Len(c) - m) : l[i] = w[m + i]
    BY <2>1, <2>2, <2>3
  <2> QED
    BY <2>4 DEF w
<1> HIDE DEF r, l
<1>6. /\ r \o c \in Seq(S)
      /\ Len(r \o c) = Len(s) - m + Len(c)
      /\ \A i \in 1..(Len(s) - m + Len(c)) :
           (r \o c)[i] = IF i <= Len(s) - m THEN r[i] ELSE c[i - (Len(s) - m)]
  <2>1. r \in Seq(S)
    BY <1>3
  <2>2. /\ r \o c \in Seq(S)
        /\ Len(r \o c) = Len(r) + Len(c)
        /\ \A i \in 1..(Len(r) + Len(c)) :
             (r \o c)[i] = IF i <= Len(r) THEN r[i] ELSE c[i - Len(r)]
    BY <2>1, ConcatProperties
  <2>3. Len(r) = Len(s) - m
    BY <1>3
  <2> QED
    BY <2>2, <2>3
<1>7. ASSUME NEW i \in 1..Len(l) PROVE l[i] = (r \o c)[i]
  <2>1. /\ i \in 1..(Len(s) + Len(c) - m) /\ i \in 1..(Len(s) - m + Len(c))
        /\ m + i \in 1..(Len(s) + Len(c))
    BY <1>1, <1>5
  <2>2. l[i] = IF m + i <= Len(s) THEN s[m + i] ELSE c[m + i - Len(s)]
    BY <1>2, <1>5, <2>1
  <2>3. (r \o c)[i] = IF i <= Len(s) - m THEN r[i] ELSE c[i - (Len(s) - m)]
    BY <1>6, <2>1
  <2>4. CASE m + i <= Len(s)
    <3>1. i <= Len(s) - m /\ i \in 1..(Len(s) - m)
      BY <1>1, <2>1, <2>4
    <3> QED
      BY <1>3, <2>2, <2>3, <2>4, <3>1
  <2>5. CASE ~(m + i <= Len(s))
    <3>1. ~(i <= Len(s) - m) /\ m + i - Len(s) = i - (Len(s) - m)
      BY <1>1, <2>1, <2>5
    <3> QED
      BY <2>2, <2>3, <2>5, <3>1
  <2> QED
    BY <2>4, <2>5
<1>8. Len(l) = Len(r \o c)
  BY <1>1, <1>5, <1>6
<1>9. l = r \o c
  BY <1>5, <1>6, <1>7, <1>8, SeqEqual
<1> QED
  BY <1>9 DEF l, r

\* What the kept end of a sequence and an extension do not show is not in the
\* extended sequence, if the end is all of it or as long as what is sought.
LEMMA NotHiddenByTrimming ==
  ASSUME NEW S, NEW x \in Seq(S), NEW s \in Seq(S), NEW t \in Seq(S),
         NEW c \in Seq(S),
         IsSuffix(s, t), Len(s) = Len(t) \/ Len(s) >= Len(x),
         ~Occurs(x, t), ~Occurs(x, s \o c)
  PROVE  ~Occurs(x, t \o c)
<1> SUFFICES ASSUME Occurs(x, t \o c) PROVE FALSE
  OBVIOUS
<1>1. Len(x) \in Nat /\ Len(s) \in Nat /\ Len(t) \in Nat /\ Len(c) \in Nat
  BY LenProperties
<1>2. /\ s \o c \in Seq(S) /\ t \o c \in Seq(S)
      /\ Len(s \o c) = Len(s) + Len(c) /\ Len(t \o c) = Len(t) + Len(c)
      /\ \A i \in 1..Len(t) : (t \o c)[i] = t[i]
  BY <1>1, ConcatProperties
<1>3. PICK i \in 0..(Len(t \o c) - Len(x)) : At(x, t \o c, i)
  BY <1>2, OccursAt
<1>4. CASE i + Len(x) <= Len(t)
  <2>1. i \in 0..(Len(t) - Len(x))
    BY <1>1, <1>4
  <2>2. At(x, t, i)
    <3> SUFFICES ASSUME NEW j \in 1..Len(x) PROVE t[i + j] = x[j]
      BY DEF At
    <3>1. i + j \in 1..Len(t)
      BY <1>1, <2>1
    <3>2. (t \o c)[i + j] = x[j]
      BY <1>3 DEF At
    <3> QED
      BY <1>2, <3>1, <3>2
  <2> QED
    BY <2>1, <2>2, OccursAt
<1>5. CASE ~(i + Len(x) <= Len(t))
  <2> DEFINE d == Len(t) - Len(s)
  <2>1. Len(s) <= Len(t)
    BY SuffixAt
  <2>2. /\ i - d \in 0..(Len(s \o c) - Len(x))
        /\ Len(t \o c) - Len(s \o c) = d
    BY <1>1, <1>2, <1>5, <2>1
  <2>3. At(s \o c, t \o c, d)
    <3>1. IsSuffix(s \o c, t \o c)
      BY SuffixExtended
    <3>2. Len(t \o c) - Len(s \o c) = d
      BY <2>2
    <3> HIDE DEF d
    <3> QED
      BY <1>2, <3>1, <3>2, SuffixAt
  <2>4. ASSUME NEW j \in 1..Len(x) PROVE (s \o c)[i - d + j] = x[j]
    <3>1. i - d + j \in 1..Len(s \o c) /\ d + (i - d + j) = i + j
      <4>1. d \in Int /\ Len(s \o c) \in Int
        BY <1>1, <1>2
      <4>2. i \in Int
        BY <1>1, <1>2
      <4> HIDE DEF d
      <4> QED
        BY <1>1, <2>2, <4>1, <4>2
    <3>2. (t \o c)[d + (i - d + j)] = (s \o c)[i - d + j]
      BY <2>3, <3>1 DEF At
    <3>3. (t \o c)[i + j] = x[j]
      BY <1>3 DEF At
    <3> QED
      BY <3>1, <3>2, <3>3
  <2> HIDE DEF d
  <2>5. At(x, s \o c, i - d)
    BY <2>4 DEF At
  <2> QED
    BY <1>2, <2>2, <2>5, OccursAt
<1> QED
  BY <1>4, <1>5

-----------------------------------------------------------------------------
(* The operators of Expect. *)

\* No chunk has a NUL in it: what arrives is text.
PlainText == Chunks \subseteq Strings

LEMMA StringsAreSeqs == Strings = Seq(Nat \ {0})
BY DEF Strings, NUL

\* Plain text is the C string it begins with.
LEMMA CStringOfText ==
  ASSUME NEW s \in Strings
  PROVE  CString(s) = s
<1>1. {i \in 1..Len(s) : s[i] = NUL} = {}
  BY StringsAreSeqs, ElementOfSeq DEF NUL
<1>2. SelectInSeq(s, LAMBDA b : b = NUL) = 0
  BY <1>1 DEF SelectInSeq
<1> QED
  BY <1>2 DEF CString

\* A set of natural numbers that is not empty has a least one.
LEMMA MinIsMember ==
  ASSUME NEW I \in SUBSET Nat, I # {}
  PROVE  Min(I) \in I
<1>1. PICK n \in I : \A m \in I : ~(<<m, n>> \in OpToRel(<, Nat))
  BY NatLessThanWellFounded, WFMin, Zenon
<1>2. \A m \in I : n <= m
  <2> TAKE m \in I
  <2>1. m \in Nat /\ n \in Nat /\ ~(m < n)
    BY <1>1 DEF OpToRel
  <2> QED
    BY <2>1
<1>3. \E x \in I : \A y \in I : x <= y
  BY <1>2
<1> QED
  BY <1>3 DEF Min

\* The token strstr names is in what it searched, and it names none only if
\* none is.
LEMMA FirstTokenOccurs ==
  ASSUME NEW s, Len(want) \in Nat
  PROVE  /\ FirstToken(s) \in 0..Len(want)
         /\ FirstToken(s) # 0 => Occurs(want[FirstToken(s)], s)
         /\ FirstToken(s) = 0 => \A i \in 1..Len(want) : ~Occurs(want[i], s)
<1> DEFINE I == {i \in 1..Len(want) : Occurs(want[i], s)}
<1>1. FirstToken(s) = IF I # {} THEN Min(I) ELSE 0
  BY DEF FirstToken, SelectInSeq
<1>2. CASE I = {}
  BY <1>1, <1>2
<1>3. CASE I # {}
  <2>1. I \in SUBSET Nat
    OBVIOUS
  <2>2. Min(I) \in I
    BY <1>3, <2>1, MinIsMember
  <2>3. FirstToken(s) = Min(I)
    BY <1>1, <1>3
  <2>4. FirstToken(s) \in I
    BY <2>2, <2>3
  <2> QED
    BY <2>4
<1> QED
  BY <1>2, <1>3

\* Trimming keeps the end.
LEMMA TrimmedIsSuffix ==
  ASSUME NEW s \in Strings, NEW n \in 0..(TRIMEXPECT + 1)
  PROVE  /\ Trimmed(s, n) \in Strings
         /\ IsSuffix(Trimmed(s, n), s)
         /\ Trimmed(s, n) = s \/ Len(Trimmed(s, n)) = n
<1>1. s \in Seq(Nat \ {0}) /\ Len(s) \in Nat /\ TRIMEXPECT \in Nat
  BY StringsAreSeqs, LenProperties, ExpectAssumption
<1>2. CASE ~(Len(s) > TRIMEXPECT)
  <2>1. Trimmed(s, n) = s
    BY <1>2 DEF Trimmed
  <2> QED
    BY <1>1, <2>1, SuffixReflexive
<1>3. CASE Len(s) > TRIMEXPECT
  <2> DEFINE m == Len(s) - n
  <2>1. m \in 0..Len(s) /\ Len(s) - m = n
    BY <1>1, <1>3
  <2>2. Trimmed(s, n) = SubSeq(s, m + 1, Len(s))
    BY <1>3 DEF Trimmed, LastBytes
  <2> HIDE DEF m
  <2>3. /\ SubSeq(s, m + 1, Len(s)) \in Seq(Nat \ {0})
        /\ Len(SubSeq(s, m + 1, Len(s))) = Len(s) - m
        /\ IsSuffix(SubSeq(s, m + 1, Len(s)), s)
    BY <1>1, <2>1, RestIsSuffix
  <2> QED
    BY <2>1, <2>2, <2>3, StringsAreSeqs
<1> QED
  BY <1>2, <1>3

\* A match of x.*y in a suffix is one in the whole.
LEMMA SpansInSuffix ==
  ASSUME NEW r, r[1] \in Strings, r[2] \in Strings,
         NEW s \in Strings, NEW t \in Strings, IsSuffix(s, t), Spans(r, s)
  PROVE  Spans(r, t)
<1> DEFINE S == Nat \ {0}
<1>1. /\ s \in Seq(S) /\ t \in Seq(S) /\ r[1] \in Seq(S) /\ r[2] \in Seq(S)
      /\ Len(s) \in Nat /\ Len(t) \in Nat
  BY StringsAreSeqs, LenProperties
<1>2. Len(s) <= Len(t) /\ At(s, t, Len(t) - Len(s))
  BY <1>1, SuffixAt
<1>3. PICK k \in 0..Len(s) :
        /\ Occurs(r[1], SubSeq(s, 1, k))
        /\ Occurs(r[2], SubSeq(s, k + 1, Len(s)))
  BY DEF Spans
<1> DEFINE d == Len(t) - Len(s)
           l == d + k
<1>4. d \in Nat /\ l \in 0..Len(t) /\ l \in Nat /\ k \in Nat
  BY <1>1, <1>2
<1>5. ASSUME NEW u \in Seq(S), NEW n \in 0..Len(u)
      PROVE  /\ SubSeq(u, 1, n) \in Seq(S)
             /\ Len(SubSeq(u, 1, n)) = n
             /\ \A i \in 1..n : SubSeq(u, 1, n)[i] = u[i]
  <2>1. Len(u) \in Nat
    BY LenProperties
  <2>2. \A i \in 1..n : u[i] \in S
    BY <2>1, ElementOfSeq
  <2>3. 1 \in Int /\ n \in Int
    BY <2>1
  <2>4. /\ SubSeq(u, 1, n) \in Seq(S)
        /\ Len(SubSeq(u, 1, n)) = IF 1 <= n THEN n - 1 + 1 ELSE 0
        /\ \A i \in 1..(n - 1 + 1) : SubSeq(u, 1, n)[i] = u[1 + i - 1]
    BY <2>2, <2>3, SubSeqProperties
  <2> QED
    BY <2>1, <2>4
<1> HIDE DEF S
<1> DEFINE sk == SubSeq(s, 1, k)
           tl == SubSeq(t, 1, l)
<1>6. /\ sk \in Seq(S) /\ Len(sk) = k /\ \A i \in 1..k : sk[i] = s[i]
      /\ tl \in Seq(S) /\ Len(tl) = l /\ \A i \in 1..l : tl[i] = t[i]
  BY <1>1, <1>4, <1>5
<1>7. Occurs(r[1], tl)
  <2> HIDE DEF sk, tl
  <2>1. \A i \in 1..k : tl[d + i] = sk[i]
    <3> TAKE i \in 1..k
    <3>1. d + i \in 1..l /\ i \in 1..Len(s)
      BY <1>1, <1>4
    <3>2. t[d + i] = s[i]
      BY <1>2, <3>1 DEF At
    <3> QED
      BY <1>6, <3>1, <3>2
  <2>2. Len(tl) - Len(sk) = d /\ Len(sk) <= Len(tl)
    BY <1>4, <1>6
  <2>3. IsSuffix(sk, tl)
    BY <1>6, <2>1, <2>2, SuffixAt DEF At
  <2> QED
    BY <1>1, <1>3, <1>6, <2>3, OccursInSuffix DEF sk
<1> DEFINE sr == SubSeq(s, k + 1, Len(s))
           tr == SubSeq(t, l + 1, Len(t))
<1>8. /\ sr \in Seq(S) /\ Len(sr) = Len(s) - k
      /\ \A i \in 1..(Len(s) - k) : sr[i] = s[k + i]
  BY <1>1, RestIsSuffix
<1>9. /\ tr \in Seq(S) /\ Len(tr) = Len(t) - l
      /\ \A i \in 1..(Len(t) - l) : tr[i] = t[l + i]
  <2> HIDE DEF l
  <2> QED
    BY <1>1, <1>4, RestIsSuffix
<1>10. sr = tr
  <2> HIDE DEF sr, tr
  <2>1. Len(sr) = Len(tr) /\ Len(sr) \in Nat
    BY <1>1, <1>4, <1>8, <1>9
  <2>2. ASSUME NEW i \in 1..Len(sr) PROVE sr[i] = tr[i]
    <3>1. /\ i \in 1..(Len(s) - k) /\ i \in 1..(Len(t) - l)
          /\ k + i \in 1..Len(s) /\ d + (k + i) = l + i
      BY <1>1, <1>4, <1>8
    <3>2. t[d + (k + i)] = s[k + i]
      BY <1>2, <3>1 DEF At
    <3> QED
      BY <1>8, <1>9, <3>1, <3>2
  <2> QED
    BY <1>8, <1>9, <2>1, <2>2, SeqEqual
<1>11. Occurs(r[2], tr)
  BY <1>3, <1>10
<1> HIDE DEF l
<1> QED
  BY <1>4, <1>7, <1>11 DEF Spans

-----------------------------------------------------------------------------
(* The invariant. *)

\* What the histories, the queue and the accumulator hold is text, and the
\* running wait began within what was fetched.
Texty ==
  /\ fetched \in Strings /\ in \in Strings /\ accum \in Strings /\ ret \in Strings
  /\ mark \in 0..Len(fetched)

\* A wait waits for one of its arguments, has no result before it ends, and
\* only any is in the places of any.
Asked ==
  /\ op = "text" => want[1] \in Texts
  /\ op = "regex" => want \in Regexes
  /\ op = "tokens" => want \in TokenLists
  /\ result = "token" => op = "tokens"
  /\ spc # "idle" => result = "none"
  /\ spc \in {"any", "nap", "last"} => op = "any"

\* As long as a text is not found it is not in what was heard, and the
\* accumulator holds all of that or as many of its last bytes as the text has.
Missed ==
  op = "text" /\ result # "found" /\ want[1] # <<>> =>
    /\ ~Occurs(want[1], Heard)
    /\ Len(accum) = Len(Heard) \/ Len(accum) >= Len(want[1])

\* What strstr has heard of its tokens: one of them, which it names, or none, and
\* then the accumulator holds all that was heard or as much as each token has.
NamesOne == (\E i \in 1..Len(want) : ret = want[i]) /\ Occurs(ret, Heard)

HeardNone ==
  \A i \in 1..Len(want) : want[i] # <<>> =>
    /\ ~Occurs(want[i], Heard)
    /\ Len(accum) = Len(Heard) \/ Len(accum) >= Len(want[i])

Named == op = "tokens" => NamesOne \/ HeardNone

TextInv ==
  Texty /\ Asked /\ AccumIsHeard /\ Named /\ FoundIsHeard /\ Missed

-----------------------------------------------------------------------------
(* Its parts, step by step. *)

\* What a wait has heard is a sequence of bytes, a suffix of all that was
\* fetched, and grows by what is fetched.
LEMMA HeardIsSuffix ==
  ASSUME Texty
  PROVE  Heard \in Strings /\ IsSuffix(Heard, fetched)
<1>1. fetched \in Seq(Nat \ {0}) /\ mark \in 0..Len(fetched)
  BY StringsAreSeqs DEF Texty
<1>2. /\ Heard \in Seq(Nat \ {0})
      /\ IsSuffix(Heard, fetched)
  BY <1>1, RestIsSuffix DEF Heard
<1> QED
  BY <1>2, StringsAreSeqs

LEMMA HeardGrows ==
  ASSUME Texty, fetched' = fetched \o in, in' = <<>>, mark' = mark
  PROVE  /\ Heard' = Heard \o in
         /\ fetched' \in Strings /\ in' \in Strings
         /\ mark' \in 0..Len(fetched')
<1>1. /\ fetched \in Seq(Nat \ {0}) /\ in \in Seq(Nat \ {0})
      /\ mark \in 0..Len(fetched) /\ Len(fetched) \in Nat /\ Len(in) \in Nat
  BY StringsAreSeqs, LenProperties DEF Texty
<1>2. /\ fetched \o in \in Seq(Nat \ {0})
      /\ Len(fetched \o in) = Len(fetched) + Len(in)
  BY <1>1, ConcatProperties
<1>3. SubSeq(fetched \o in, mark + 1, Len(fetched \o in)) = Heard \o in
  BY <1>1, RestExtended DEF Heard
<1>4. Heard' = SubSeq(fetched \o in, mark + 1, Len(fetched \o in))
  BY DEF Heard
<1>5. <<>> \in Seq(Nat \ {0})
  BY EmptySeq
<1>6. fetched' \in Seq(Nat \ {0}) /\ Len(fetched') = Len(fetched) + Len(in)
  BY <1>2
<1>7. mark' \in 0..Len(fetched')
  BY <1>1, <1>6
<1>8. Heard' = Heard \o in
  BY <1>3, <1>4
<1> QED
  BY <1>5, <1>6, <1>7, <1>8, StringsAreSeqs

LEMMA NothingHeard ==
  ASSUME fetched \in Strings, fetched' = fetched, mark' = Len(fetched)
  PROVE  Heard' = <<>> /\ mark' \in 0..Len(fetched')
<1>1. Len(fetched) \in Nat
  BY StringsAreSeqs, LenProperties
<1>2. Heard' = SubSeq(fetched, Len(fetched) + 1, Len(fetched))
  BY DEF Heard
<1>3. SubSeq(fetched, Len(fetched) + 1, Len(fetched)) = <<>>
  <2>1. Len(fetched) + 1 \in Int /\ Len(fetched) \in Int
        /\ Len(fetched) < Len(fetched) + 1
    BY <1>1
  <2> QED
    BY <2>1, SubSeqEmpty
<1> QED
  BY <1>1, <1>2, <1>3

\* A string that is not empty is not in the empty one.
LEMMA NotInNothing ==
  ASSUME NEW x \in Strings, x # <<>>
  PROVE  ~Occurs(x, <<>>)
<1>1. x \in Seq(Nat \ {0}) /\ <<>> \in Seq(Nat \ {0}) /\ Len(<<>>) = 0
  BY StringsAreSeqs, EmptySeq
<1>2. Len(x) \in Nat \ {0}
  BY <1>1, EmptySeq
<1>3. 0..(Len(<<>>) - Len(x)) = {}
  BY <1>1, <1>2
<1>4. Occurs(x, <<>>) => \E i \in 0..(Len(<<>>) - Len(x)) : At(x, <<>>, i)
  BY <1>1, OccursAt
<1> QED
  BY <1>3, <1>4

\* What every round of strwaitt and strstr does: what was heard, and the
\* accumulator, are extended by the queue.
LEMMA AllIsHeard ==
  ASSUME Texty, IsSuffix(accum, Heard)
  PROVE  /\ accum \o CString(in) = accum \o in
         /\ accum \o in \in Strings /\ Heard \o in \in Strings
         /\ Len(accum \o in) = Len(accum) + Len(in)
         /\ Len(Heard \o in) = Len(Heard) + Len(in)
         /\ Len(accum) \in Nat /\ Len(Heard) \in Nat /\ Len(in) \in Nat
         /\ IsSuffix(accum \o in, Heard \o in)
<1>1. /\ accum \in Seq(Nat \ {0}) /\ in \in Seq(Nat \ {0})
      /\ Heard \in Seq(Nat \ {0})
  BY HeardIsSuffix, StringsAreSeqs DEF Texty
<1>2. CString(in) = in
  BY CStringOfText DEF Texty
<1>3. /\ accum \o in \in Seq(Nat \ {0}) /\ Heard \o in \in Seq(Nat \ {0})
      /\ Len(accum \o in) = Len(accum) + Len(in)
      /\ Len(Heard \o in) = Len(Heard) + Len(in)
  BY <1>1, ConcatProperties
<1>4. Len(accum) \in Nat /\ Len(Heard) \in Nat /\ Len(in) \in Nat
  BY <1>1, LenProperties
<1>5. IsSuffix(accum \o in, Heard \o in)
  BY <1>1, SuffixExtended
<1> QED
  BY <1>2, <1>3, <1>4, <1>5, StringsAreSeqs

\* A step that leaves the wait, its accumulator and the histories alone.
LEMMA OthersKeep ==
  ASSUME TextInv, in' \in Strings,
         spc' # "idle" => spc # "idle",
         spc' \in {"any", "nap", "last"} => op = "any",
         UNCHANGED <<op, want, fetched, accum, ret, result, mark>>
  PROVE  TextInv'
<1>1. Heard' = Heard
  BY DEF Heard
<1>2. Texty'
  BY DEF TextInv, Texty
<1>3. Asked'
  BY DEF TextInv, Asked
<1>4. AccumIsHeard'
  BY <1>1 DEF TextInv, AccumIsHeard
<1>5. Named'
  BY <1>1 DEF TextInv, Named, NamesOne, HeardNone
<1>6. FoundIsHeard'
  BY <1>1 DEF TextInv, FoundIsHeard
<1>7. Missed'
  BY <1>1 DEF TextInv, Missed
<1> QED
  BY <1>2, <1>3, <1>4, <1>5, <1>6, <1>7 DEF TextInv

\* A wait begins.
LEMMA BeginsKeeps ==
  ASSUME TextInv, NEW o \in Ops \ {"none"}, NEW w, NEW p, NEW to, NEW pc,
         Begins(o, w, p, to, pc),
         o \in {"text", "regex", "tokens"} => accum' = <<>>,
         o \notin {"text", "regex", "tokens"} => accum' \in Strings,
         o = "text" => w[1] \in Texts,
         o = "regex" => w \in Regexes,
         o = "tokens" => w \in TokenLists,
         pc \in {"any", "nap", "last"} => o = "any"
  PROVE  TextInv'
<1>1. /\ op' = o /\ want' = w /\ spc' = pc /\ result' = "none"
      /\ mark' = Len(fetched) /\ fetched' = fetched /\ in' = in /\ ret' = ret
  BY DEF Begins, input
<1>2. Heard' = <<>> /\ mark' \in 0..Len(fetched')
  BY <1>1, NothingHeard DEF TextInv, Texty
<1>3. <<>> \in Seq(Nat \ {0}) /\ <<>> \in Strings /\ Len(<<>>) = 0
  BY EmptySeq, StringsAreSeqs
<1>4. Texty'
  BY <1>1, <1>2, <1>3 DEF TextInv, Texty, Ops
<1>5. Asked'
  BY <1>1 DEF Asked
<1>6. AccumIsHeard'
  <2>1. IsSuffix(<<>>, <<>>)
    BY <1>3, SuffixReflexive
  <2> QED
    BY <1>1, <1>2, <2>1 DEF AccumIsHeard
<1>7. Named'
  <2> SUFFICES ASSUME o = "tokens" PROVE HeardNone'
    BY <1>1 DEF Named
  <2>1. \A i \in 1..Len(w) : w[i] \in Strings
    BY ExpectAssumption, ElementOfSeq
  <2>2. accum' = <<>>
    OBVIOUS
  <2> QED
    BY <1>1, <1>2, <2>1, <2>2, NotInNothing DEF HeardNone
<1>8. FoundIsHeard'
  BY <1>1 DEF FoundIsHeard
<1>9. Missed'
  <2> SUFFICES ASSUME o = "text", w[1] # <<>>
               PROVE  ~Occurs(w[1], <<>>) /\ Len(accum') = Len(<<>>)
    BY <1>1, <1>2 DEF Missed
  <2>1. w[1] \in Strings
    BY ExpectAssumption
  <2> QED
    BY <1>3, <2>1, NotInNothing
<1> QED
  BY <1>4, <1>5, <1>6, <1>7, <1>8, <1>9 DEF TextInv

\* The queue is read for nothing but what it holds: read(), or a round of
\* binwaitt.
LEMMA FetchKeeps ==
  ASSUME TextInv, op' \in {"none", "array"},
         fetched' = fetched \o in, in' = <<>>,
         UNCHANGED <<accum, ret, mark>>,
         spc' # "idle" => result' = "none", result' # "token",
         spc' \notin {"any", "nap", "last"}
  PROVE  TextInv'
<1>1. Texty'
  BY HeardGrows DEF TextInv, Texty
<1>2. Asked' /\ AccumIsHeard' /\ Named' /\ FoundIsHeard' /\ Missed'
  BY DEF Asked, AccumIsHeard, Named, FoundIsHeard, Missed
<1> QED
  BY <1>1, <1>2 DEF TextInv

\* A round of strwaitt.
LEMMA LookForTextKeeps ==
  ASSUME TextInv, LookForText
  PROVE  TextInv'
<1> DEFINE all == accum \o in
           H == Heard \o in
           match == IF op = "text" THEN Occurs(want[1], all) ELSE Spans(want, all)
<1>1. /\ Texty /\ Asked /\ IsSuffix(accum, Heard) /\ Missed
      /\ op \in {"text", "regex"} /\ spc = "look" /\ result = "none"
  BY DEF TextInv, Asked, AccumIsHeard, LookForText
<1>2. /\ accum \o CString(in) = all
      /\ all \in Strings /\ H \in Strings
      /\ Len(all) = Len(accum) + Len(in) /\ Len(H) = Len(Heard) + Len(in)
      /\ Len(accum) \in Nat /\ Len(Heard) \in Nat /\ Len(in) \in Nat
      /\ IsSuffix(all, H)
  BY <1>1, AllIsHeard
<1>3. /\ fetched' = fetched \o in /\ in' = <<>> /\ mark' = mark /\ ret' = ret
      /\ op' = op /\ want' = want
      /\ spc' = IF in # <<>> /\ match THEN "idle" ELSE "sleep"
      /\ result' = IF in # <<>> /\ match THEN "found" ELSE result
      /\ accum' = CASE in = <<>> -> accum
                    [] in # <<>> /\ match -> all
                    [] OTHER -> Trimmed(all, Size)
  BY <1>2 DEF LookForText, call
<1>4. /\ Heard' = H /\ fetched' \in Strings /\ in' \in Strings
      /\ mark' \in 0..Len(fetched')
  BY <1>1, <1>3, HeardGrows
<1>5. Size \in 0..(TRIMEXPECT + 1) /\ (op = "text" => Size = Len(want[1]))
  <2>1. CASE op = "text"
    <3>1. want[1] \in Strings /\ Len(want[1]) <= TRIMEXPECT + 1
      BY <1>1, <2>1, ExpectAssumption DEF Asked
    <3>2. Len(want[1]) \in Nat
      BY <3>1, StringsAreSeqs, LenProperties
    <3> QED
      BY <2>1, <3>1, <3>2, ExpectAssumption DEF Size
  <2>2. CASE op = "regex"
    <3>1. /\ want[1] \in Strings /\ want[2] \in Strings
          /\ Len(want[1]) + Len(want[2]) + 3 <= TRIMEXPECT + 1
      BY <1>1, <2>2, ExpectAssumption DEF Asked
    <3>2. Len(want[1]) \in Nat /\ Len(want[2]) \in Nat
      BY <3>1, StringsAreSeqs, LenProperties
    <3>3. Size = Len(want[1]) + Len(want[2]) + 3
      BY <2>2 DEF Size
    <3>4. TRIMEXPECT \in Nat /\ op # "text"
      BY <2>2, ExpectAssumption
    <3>5. \A m, n, k \in Nat : m + n + 3 <= k => m + n + 3 \in 0..k
      OBVIOUS
    <3>6. TRIMEXPECT + 1 \in Nat
      BY <3>4
    <3>7. Size \in 0..(TRIMEXPECT + 1)
      BY <3>1, <3>2, <3>3, <3>5, <3>6
    <3> QED
      BY <3>4, <3>7
  <2> QED
    BY <1>1, <2>1, <2>2
<1>6. /\ in = <<>> => all = accum /\ H = Heard /\ Len(in) = 0
      /\ accum \in Seq(Nat \ {0}) /\ Heard \in Seq(Nat \ {0})
      /\ in \in Seq(Nat \ {0}) /\ all \in Seq(Nat \ {0}) /\ H \in Seq(Nat \ {0})
  <2>1. /\ accum \in Seq(Nat \ {0}) /\ Heard \in Seq(Nat \ {0})
        /\ in \in Seq(Nat \ {0}) /\ all \in Seq(Nat \ {0})
        /\ H \in Seq(Nat \ {0})
    BY <1>1, <1>2, HeardIsSuffix, StringsAreSeqs DEF Texty
  <2> QED
    BY <2>1, ConcatEmptySeq, EmptySeq
<1> HIDE DEF all, H
<1>7. /\ accum' \in Strings /\ IsSuffix(accum', H)
      /\ accum' = all \/ Len(accum') = Size
  <2>1. /\ Trimmed(all, Size) \in Strings
        /\ IsSuffix(Trimmed(all, Size), all)
        /\ Trimmed(all, Size) = all \/ Len(Trimmed(all, Size)) = Size
    BY <1>2, <1>5, TrimmedIsSuffix
  <2>2. IsSuffix(Trimmed(all, Size), H)
    BY <1>2, <1>6, <2>1, StringsAreSeqs, SuffixTransitive
  <2>3. accum' = all \/ accum' = Trimmed(all, Size)
    BY <1>3, <1>6
  <2> QED
    BY <1>2, <2>1, <2>2, <2>3
<1>8. Texty'
  BY <1>1, <1>3, <1>4, <1>7 DEF Texty
<1>9. Asked'
  BY <1>1, <1>3 DEF Asked
<1>10. AccumIsHeard'
  BY <1>4, <1>7 DEF AccumIsHeard
<1>11. Named'
  BY <1>1, <1>3 DEF Named
<1>12. FoundIsHeard'
  <2>1. ASSUME op = "text", Occurs(want[1], all) PROVE Occurs(want[1], H)
    <3>1. want[1] \in Seq(Nat \ {0})
      BY <1>1, <2>1, ExpectAssumption, StringsAreSeqs DEF Asked
    <3> QED
      BY <1>2, <1>6, <2>1, <3>1, OccursInSuffix
  <2>2. ASSUME op = "regex", Spans(want, all) PROVE Spans(want, H)
    <3>1. want[1] \in Strings /\ want[2] \in Strings
      BY <1>1, <2>2, ExpectAssumption DEF Asked
    <3> QED
      BY <1>2, <2>2, <3>1, SpansInSuffix
  <2>3. result' = "found" => match
    BY <1>1, <1>3
  <2> QED
    BY <1>1, <1>3, <1>4, <2>1, <2>2, <2>3 DEF FoundIsHeard
<1>13. Missed'
  <2> SUFFICES ASSUME op = "text", result' # "found", want[1] # <<>>
               PROVE  /\ ~Occurs(want[1], H)
                      /\ Len(accum') = Len(H) \/ Len(accum') >= Len(want[1])
    BY <1>3, <1>4 DEF Missed
  <2>1. /\ ~Occurs(want[1], Heard)
        /\ Len(accum) = Len(Heard) \/ Len(accum) >= Len(want[1])
    BY <1>1 DEF Missed
  <2>2. want[1] \in Seq(Nat \ {0}) /\ Len(want[1]) \in Nat
    BY <1>1, ExpectAssumption, StringsAreSeqs, LenProperties DEF Asked
  <2>3. CASE in = <<>>
    <3>1. accum' = accum
      BY <1>3, <2>3
    <3> QED
      BY <1>6, <2>1, <2>3, <3>1
  <2>4. CASE in # <<>>
    <3>1. ~Occurs(want[1], all)
      BY <1>3, <2>4
    <3>2. ~Occurs(want[1], H)
      BY <1>1, <1>6, <2>1, <2>2, <3>1, NotHiddenByTrimming DEF all, H
    <3>3. Len(accum') = Len(H) \/ Len(accum') >= Len(want[1])
      BY <1>2, <1>5, <1>7, <2>1, <2>2
    <3> QED
      BY <3>2, <3>3
  <2> QED
    BY <2>3, <2>4
<1> QED
  BY <1>8, <1>9, <1>10, <1>11, <1>12, <1>13 DEF TextInv

\* A round of strstr.
LEMMA LookForTokensKeeps ==
  ASSUME TextInv, LookForTokens
  PROVE  TextInv'
<1> DEFINE all == accum \o in
           H == Heard \o in
           first == FirstToken(all)
           tried == IF first = 0 THEN Len(want) ELSE first
<1>1. /\ Texty /\ Asked /\ IsSuffix(accum, Heard) /\ (NamesOne \/ HeardNone)
      /\ op = "tokens" /\ spc = "look" /\ result = "none"
  BY DEF TextInv, Asked, AccumIsHeard, Named, LookForTokens
<1>2. /\ accum \o CString(in) = all
      /\ all \in Strings /\ H \in Strings
      /\ Len(all) = Len(accum) + Len(in) /\ Len(H) = Len(Heard) + Len(in)
      /\ Len(accum) \in Nat /\ Len(Heard) \in Nat /\ Len(in) \in Nat
      /\ IsSuffix(all, H)
  BY <1>1, AllIsHeard
<1>3. /\ fetched' = fetched \o in /\ in' = <<>> /\ mark' = mark
      /\ op' = op /\ want' = want /\ spc' = "sleep" /\ result' = result
      /\ in = <<>> => accum' = accum /\ ret' = ret
      /\ in # <<>> => /\ accum' = Trimmed(all, Lengths(want, tried))
                      /\ ret' = IF first = 0 THEN ret ELSE want[first]
  BY <1>2 DEF LookForTokens, call
<1>4. /\ Heard' = H /\ fetched' \in Strings /\ in' \in Strings
      /\ mark' \in 0..Len(fetched')
  BY <1>1, <1>3, HeardGrows
<1>5. /\ fetched \in Seq(Nat \ {0}) /\ ret \in Seq(Nat \ {0})
      /\ accum \in Seq(Nat \ {0}) /\ Heard \in Seq(Nat \ {0})
      /\ in \in Seq(Nat \ {0}) /\ all \in Seq(Nat \ {0})
      /\ H \in Seq(Nat \ {0}) /\ fetched' \in Seq(Nat \ {0})
  BY <1>1, <1>2, <1>4, HeardIsSuffix, StringsAreSeqs DEF Texty
<1>6. in = <<>> => all = accum /\ H = Heard
  BY <1>5, ConcatEmptySeq
<1>7. /\ want \in Seq(Strings) /\ Len(want) \in Nat
      /\ \A n \in 0..Len(want) : Lengths(want, n) \in 0..(TRIMEXPECT + 1)
      /\ \A i \in 1..Len(want) : Len(want[i]) <= Lengths(want, Len(want))
  <2>1. /\ want \in Seq(Strings)
        /\ \A n \in 0..Len(want) : Lengths(want, n) \in 0..(TRIMEXPECT + 1)
        /\ \A i \in 1..Len(want) : Len(want[i]) <= Lengths(want, Len(want))
    BY <1>1, ExpectAssumption DEF Asked
  <2> QED
    BY <2>1, LenProperties
<1>8. /\ first \in 0..Len(want)
      /\ first # 0 => /\ Occurs(want[first], all) /\ want[first] \in Strings
                      /\ first \in 1..Len(want)
      /\ first = 0 => \A i \in 1..Len(want) : ~Occurs(want[i], all)
  <2>1. /\ first \in 0..Len(want)
        /\ first # 0 => Occurs(want[first], all)
        /\ first = 0 => \A i \in 1..Len(want) : ~Occurs(want[i], all)
    BY <1>7, FirstTokenOccurs
  <2> HIDE DEF first
  <2>2. first # 0 => first \in 1..Len(want)
    BY <1>7, <2>1
  <2> QED
    BY <1>7, <2>1, <2>2, ElementOfSeq
<1> HIDE DEF first
<1>9. tried \in 0..Len(want) /\ (first = 0 => tried = Len(want))
  BY <1>7, <1>8
<1> HIDE DEF tried
<1>10. Lengths(want, tried) \in 0..(TRIMEXPECT + 1)
  BY <1>7, <1>9
<1> HIDE DEF all, H
<1>11. /\ accum' \in Strings /\ IsSuffix(accum', H)
       /\ accum' = all \/ Len(accum') = Lengths(want, tried)
  <2>1. CASE in = <<>>
    BY <1>1, <1>3, <1>6, <2>1 DEF Texty
  <2>2. CASE in # <<>>
    <3>1. /\ Trimmed(all, Lengths(want, tried)) \in Strings
          /\ IsSuffix(Trimmed(all, Lengths(want, tried)), all)
          /\ \/ Trimmed(all, Lengths(want, tried)) = all
             \/ Len(Trimmed(all, Lengths(want, tried))) = Lengths(want, tried)
      BY <1>2, <1>10, TrimmedIsSuffix
    <3>2. accum' = Trimmed(all, Lengths(want, tried))
      BY <1>3, <2>2
    <3>3. accum' \in Seq(Nat \ {0}) /\ IsSuffix(accum', all)
      BY <3>1, <3>2, StringsAreSeqs
    <3>4. IsSuffix(accum', H)
      BY <1>2, <1>5, <3>3, SuffixTransitive
    <3> QED
      BY <3>1, <3>2, <3>3, <3>4, StringsAreSeqs
  <2> QED
    BY <2>1, <2>2
<1>12. ret' \in Strings
  BY <1>1, <1>3, <1>8 DEF Texty
<1>13. Texty'
  BY <1>4, <1>11, <1>12 DEF Texty
<1>14. Asked'
  BY <1>1, <1>3 DEF Asked
<1>15. AccumIsHeard'
  BY <1>4, <1>11 DEF AccumIsHeard
\* A token that is found is named.
<1>18. ASSUME in # <<>>, first # 0
       PROVE  NamesOne'
  <2>1. ret' = want[first]
    BY <1>3, <1>18
  <2>2. ret' \in Seq(Nat \ {0}) /\ Occurs(ret', all)
    BY <1>8, <1>18, <2>1, StringsAreSeqs
  <2>3. Occurs(ret', H)
    BY <1>2, <1>5, <2>2, OccursInSuffix
  <2> QED
    BY <1>3, <1>4, <1>8, <1>18, <2>1, <2>3 DEF NamesOne
\* One that was found before is still named.
<1>19. ASSUME NamesOne, in = <<>> \/ first = 0
       PROVE  NamesOne'
  <2>1. ret' = ret
    BY <1>3, <1>19
  <2>2. Occurs(ret, H)
    BY <1>5, <1>19, OccursInLonger DEF NamesOne, H
  <2> QED
    BY <1>3, <1>4, <1>19, <2>1, <2>2 DEF NamesOne
\* None was found, and none is.
<1>20. ASSUME HeardNone, in = <<>> \/ first = 0
       PROVE  HeardNone'
  <2> SUFFICES ASSUME NEW i \in 1..Len(want), want[i] # <<>>
               PROVE  /\ ~Occurs(want[i], H)
                      /\ Len(accum') = Len(H) \/ Len(accum') >= Len(want[i])
    BY <1>3, <1>4 DEF HeardNone
  <2>1. /\ ~Occurs(want[i], Heard)
        /\ Len(accum) = Len(Heard) \/ Len(accum) >= Len(want[i])
    BY <1>20 DEF HeardNone
  <2>2. want[i] \in Seq(Nat \ {0}) /\ Len(want[i]) \in Nat
    <3>1. want[i] \in Strings
      BY <1>7, ElementOfSeq
    <3> QED
      BY <3>1, StringsAreSeqs, LenProperties
  <2>3. CASE in = <<>>
    <3>1. accum' = accum /\ H = Heard
      BY <1>3, <1>6, <2>3
    <3> QED
      BY <2>1, <3>1
  <2>4. CASE in # <<>>
    <3>1. ~Occurs(want[i], all)
      BY <1>8, <1>20, <2>4
    <3>2. ~Occurs(want[i], H)
      BY <1>1, <1>5, <2>1, <2>2, <3>1, NotHiddenByTrimming DEF all, H
    <3>3. accum' = all \/ Len(accum') >= Len(want[i])
      <4>1. tried = Len(want) /\ Len(want[i]) <= Lengths(want, Len(want))
        BY <1>7, <1>9, <1>20, <2>4
      <4> QED
        BY <1>11, <4>1
    <3>4. Len(accum') = Len(H) \/ Len(accum') >= Len(want[i])
      BY <1>2, <2>1, <2>2, <3>3
    <3> QED
      BY <3>2, <3>4
  <2> QED
    BY <2>3, <2>4
<1>16. Named'
  BY <1>1, <1>18, <1>19, <1>20 DEF Named
<1>17. FoundIsHeard' /\ Missed'
  BY <1>1, <1>3 DEF FoundIsHeard, Missed
<1> QED
  BY <1>13, <1>14, <1>15, <1>16, <1>17 DEF TextInv

LEMMA InitText ==
  ASSUME Init
  PROVE  TextInv
<1>1. <<>> \in Seq(Nat \ {0}) /\ Len(<<>>) = 0
  BY EmptySeq
<1>2. Texty
  BY <1>1, StringsAreSeqs DEF Init, Texty
<1>3. Asked /\ AccumIsHeard /\ FoundIsHeard /\ Missed
  BY DEF Init, Asked, AccumIsHeard, FoundIsHeard, Missed
<1>4. Named
  BY DEF Init, Named
<1> QED
  BY <1>2, <1>3, <1>4 DEF TextInv

LEMMA NextText ==
  ASSUME PlainText, TextInv, [Next]_vars
  PROVE  TextInv'
<1>1. /\ fetched \in Strings /\ in \in Strings /\ accum \in Strings
      /\ spc # "idle" => result = "none"
      /\ spc \in {"any", "nap", "last"} => op = "any"
  BY DEF TextInv, Texty, Asked
<1>2. ASSUME NEW c \in Chunks, Arrives(c) PROVE TextInv'
  <2>1. in \o c \in Strings
    <3>1. in \in Seq(Nat \ {0}) /\ c \in Seq(Nat \ {0})
      BY <1>1, StringsAreSeqs DEF PlainText
    <3> QED
      BY <3>1, ConcatProperties, StringsAreSeqs
  <2> QED
    BY <1>1, <1>2, <2>1, OthersKeep DEF Arrives, call
<1>3. CASE Exit
  BY <1>1, <1>3, OthersKeep DEF Exit, call, input
<1>4. ASSUME NEW to \in Timeouts, NEW e \in Texts, Strwaitt(e, to)
      PROVE  TextInv'
  BY <1>4, BeginsKeeps DEF Strwaitt, Ops
<1>5. ASSUME NEW to \in Timeouts, NEW r \in Regexes, StrwaittRegex(r, to)
      PROVE  TextInv'
  BY <1>5, BeginsKeeps DEF StrwaittRegex, Ops
<1>6. ASSUME NEW to \in Timeouts, NEW tokens \in TokenLists, Strstr(tokens, to)
      PROVE  TextInv'
  BY <1>6, BeginsKeeps DEF Strstr, Ops
<1>7. ASSUME NEW to \in Timeouts, NEW a \in Arrays, NEW rest \in Remains,
             Binwaitt(a, rest, to)
      PROVE  TextInv'
  <2>1. <<>> \in Strings
    BY EmptySeq, StringsAreSeqs
  <2> QED
    BY <1>7, <2>1, BeginsKeeps DEF Binwaitt, Ops
<1>8. ASSUME NEW to \in Timeouts, WaitAny(to) PROVE TextInv'
  BY <1>1, <1>8, BeginsKeeps DEF WaitAny, Ops
<1>9. CASE Gets
  BY <1>1, <1>9, FetchKeeps DEF Gets
<1>10. CASE TestPasses
  BY <1>1, <1>10, OthersKeep DEF TestPasses, call, input
<1>11. CASE TestEnds
  <2>1. /\ spc = "test" /\ spc' = "idle"
        /\ result' = IF op = "tokens" THEN "token" ELSE "failed"
        /\ UNCHANGED <<op, want, in, fetched, accum, ret, mark>>
    BY <1>11 DEF TestEnds, call, input
  <2>2. Heard' = Heard
    BY <2>1 DEF Heard
  <2>3. Texty' /\ Named'
    BY <2>1, <2>2 DEF TextInv, Texty, Named, NamesOne, HeardNone
  <2>4. Asked'
    BY <2>1 DEF TextInv, Asked
  <2>5. AccumIsHeard' /\ FoundIsHeard'
    BY <2>1, <2>2 DEF TextInv, AccumIsHeard, FoundIsHeard
  <2>6. Missed'
    BY <1>1, <2>1, <2>2 DEF TextInv, Missed
  <2> QED
    BY <2>3, <2>4, <2>5, <2>6 DEF TextInv
<1>12. CASE LookForText
  BY <1>12, LookForTextKeeps
<1>13. CASE LookForTokens
  BY <1>13, LookForTokensKeeps
<1>14. CASE LookForArray
  <2>1. spc = "look" /\ result = "none"
    BY <1>1, <1>14 DEF LookForArray, TextInv, Asked
  <2>2. spc' \in {"idle", "sleep"} /\ result' \in {"none", "found"}
        /\ (spc' # "idle" => result' = "none")
    BY <2>1, <1>14 DEF LookForArray
  <2>3. op' = "array" /\ fetched' = fetched \o in /\ in' = <<>>
        /\ UNCHANGED <<accum, ret, mark>>
    BY <1>14 DEF LookForArray, call
  <2> QED
    BY <1>1, <2>2, <2>3, FetchKeeps
<1>15. CASE Sleeps
  BY <1>1, <1>15, OthersKeep DEF Sleeps, call, input
<1>16. CASE TrimThrows
  BY <1>1, <1>16, OthersKeep DEF TrimThrows, call, input
<1>17. CASE TrimEmpties
  BY <1>1, <1>17, OthersKeep DEF TrimEmpties, call, input
<1>18. CASE AnyTests
  BY <1>1, <1>18, OthersKeep DEF AnyTests, call, input
<1>19. CASE AnySleeps
  BY <1>1, <1>19, OthersKeep DEF AnySleeps, call, input
<1>20. CASE AnyEnds
  <2>1. /\ spc = "last" /\ spc' = "idle" /\ op = "any" /\ op' = "any"
        /\ result' \in {"failed", "found"}
        /\ UNCHANGED <<want, in, fetched, accum, ret, mark>>
    BY <1>1, <1>20 DEF AnyEnds, call, input
  <2>2. Texty' /\ Named'
    BY <2>1 DEF TextInv, Texty, Named
  <2>3. Asked' /\ AccumIsHeard' /\ FoundIsHeard' /\ Missed'
    BY <2>1 DEF Asked, AccumIsHeard, FoundIsHeard, Missed
  <2> QED
    BY <2>2, <2>3 DEF TextInv
<1>21. CASE UNCHANGED vars
  BY <1>1, <1>21, OthersKeep DEF vars, call, input
<1> QED
  BY <1>2, <1>3, <1>4, <1>5, <1>6, <1>7, <1>8, <1>9, <1>10, <1>11, <1>12,
     <1>13, <1>14, <1>15, <1>16, <1>17, <1>18, <1>19, <1>20, <1>21
     DEF Next, Calls, Rounds

-----------------------------------------------------------------------------
(* Theorems. *)

\* Text that arrives keeps its invariant.
THEOREM TextInvHolds == PlainText => (Spec => []TextInv)
<1> SUFFICES ASSUME PlainText PROVE Spec => []TextInv
  OBVIOUS
<1>1. Init => TextInv
  BY InitText
<1>2. TextInv /\ [Next]_vars => TextInv'
  BY NextText
<1> QED
  BY <1>1, <1>2, PTL DEF Spec

\* strwaitt finds an expression only in what arrived during the wait.
THEOREM FindsWhatWasHeard == PlainText => (Spec => []FoundIsHeard)
<1>1. TextInv => FoundIsHeard
  BY DEF TextInv
<1> QED
  BY <1>1, TextInvHolds, PTL

\* buffer() shows the end of what the wait took from the queue.
THEOREM ShowsWhatWasHeard == PlainText => (Spec => []AccumIsHeard)
<1>1. TextInv => AccumIsHeard
  BY DEF TextInv
<1> QED
  BY <1>1, TextInvHolds, PTL

\* A strstr that heard one of its tokens names one that it heard.  The empty
\* token is in everything, but strstr finds it only when something arrives.
THEOREM NamesWhatItHeard ==
  PlainText /\ (\A tokens \in TokenLists : \A i \in 1..Len(tokens) : tokens[i] # <<>>)
    => (Spec => []TokenIsNamed)
<1> SUFFICES ASSUME PlainText,
                    \A tokens \in TokenLists : \A i \in 1..Len(tokens) : tokens[i] # <<>>
             PROVE  Spec => []TokenIsNamed
  OBVIOUS
<1>1. TextInv => TokenIsNamed
  <2> SUFFICES ASSUME TextInv, result = "token",
                      NEW i \in DOMAIN want, Occurs(want[i], Heard)
               PROVE  (\E k \in DOMAIN want : ret = want[k]) /\ Occurs(ret, Heard)
    BY DEF TokenIsNamed
  <2>1. op = "tokens" /\ want \in TokenLists
    BY DEF TextInv, Asked
  <2>2. want \in Seq(Strings)
    BY <2>1, ExpectAssumption
  <2>3. DOMAIN want = 1..Len(want) /\ want[i] # <<>>
    BY <2>1, <2>2, LenProperties
  <2> QED
    BY <2>1, <2>3 DEF TextInv, Named, NamesOne, HeardNone
<1> QED
  BY <1>1, TextInvHolds, PTL

\* A strwaitt that gives up has missed nothing: no boundary of a read and no
\* trimming hides the text.  The empty text is in everything, but strwaitt
\* finds it only when something arrives.
THEOREM MissesNothing ==
  PlainText /\ <<>> \notin Texts => (Spec => []FailedIsUnheard)
<1> SUFFICES ASSUME PlainText, <<>> \notin Texts
             PROVE  Spec => []FailedIsUnheard
  OBVIOUS
<1>1. TextInv => FailedIsUnheard
  BY DEF TextInv, Asked, Missed, FailedIsUnheard
<1> QED
  BY <1>1, TextInvHolds, PTL
=============================================================================
