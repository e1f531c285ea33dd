--------------------------- MODULE VmTablesProofs ---------------------------
(***************************************************************************)
(* The tables in which the Squirrel VM keeps the objects that C++ code     *)
(* holds and the strings, for any objects, strings and hashes and tables   *)
(* of any size.                                                            *)
(*                                                                         *)
(* The nodes of RefTable are threaded into one free list and as many       *)
(* buckets as there are nodes.  That every node is on exactly one of these *)
(* is kept as facts about single links (Linked): what a list leads to is   *)
(* in its place, a list begins where nothing comes before, and what        *)
(* nothing comes before is where a list begins.  Both Add and Release take *)
(* one node from a list to the front of another, which is one lemma for    *)
(* the first node of a list and one for a later one.                       *)
(*                                                                         *)
(* A loop of the code is a function of how far it has come, and what it    *)
(* does is proved by induction on a set of numbers.                        *)
(***************************************************************************)
EXTENDS RefTable, SqStrings, FiniteSetTheorems, SequenceTheorems,
        WellFoundedInduction, TLAPS

\* Induction, on a set instead of a predicate.
LEMMA Induction ==
  ASSUME NEW n \in Nat, NEW S, 0 \in S, \A m \in 0 .. n - 1 : m \in S => m + 1 \in S
  PROVE  0 .. n \subseteq S
<1> DEFINE T == {m \in 0 .. n : m \notin S}
           R == OpToRel(<, Nat)
<1> SUFFICES ASSUME T # {} PROVE FALSE
  OBVIOUS
<1>1. T \in SUBSET Nat
  OBVIOUS
<1>0. IsWellFoundedOn(R, Nat)
  BY NatLessThanWellFounded
<1> HIDE DEF R, T
<1>2. PICK m \in T : \A k \in T : ~ (<<k, m>> \in R)
  BY <1>0, <1>1, WFMin
<1>3. m \in 0 .. n /\ m \notin S
  BY DEF T
<1>4. m - 1 \in Nat /\ m \in Nat /\ m - 1 < m /\ m - 1 \in 0 .. n - 1
  BY <1>3
<1>5. m - 1 \notin T
  BY <1>2, <1>4 DEF R, OpToRel
<1>6. m - 1 \in S
  BY <1>4, <1>5 DEF T
<1> QED
  BY <1>3, <1>4, <1>6

----------------------------------------------------------------------------
(* Lists: next[i] is the node after i, start[l] the first node of list l   *)
(* and place[i] the list that i is on.                                     *)

ListsTyped(D, next, start, place) ==
  /\ Nil \notin D
  /\ next \in [D -> D \union {Nil}]
  /\ start \in [DOMAIN start -> D \union {Nil}]
  /\ place \in [D -> DOMAIN start]

OnePrev(D, next) == \A i, j \in D : next[i] # Nil /\ next[i] = next[j] => i = j

\* no list goes round, in either direction
AllEnd(D, next) == \A S \in SUBSET D : S # {} => \E i \in S : next[i] \notin S
AllBegin(D, next) ==
  \A S \in SUBSET D : S # {} => \E i \in S : \A j \in S : next[j] # i

\* a list stays in its place, and begins where nothing comes before
SamePlace(D, next, place) ==
  \A i \in D : next[i] # Nil => place[next[i]] = place[i]
StartsPlaced(start, place) ==
  \A l \in DOMAIN start : start[l] # Nil => place[start[l]] = l
StartsFirst(D, next, start) ==
  \A l \in DOMAIN start : start[l] # Nil => \A i \in D : next[i] # start[l]
NoneLost(D, next, start, place) ==
  \A i \in D : start[place[i]] = i \/ \E j \in D : next[j] = i

Linked(D, next, start, place) ==
  /\ ListsTyped(D, next, start, place)
  /\ OnePrev(D, next) /\ AllEnd(D, next) /\ AllBegin(D, next)
  /\ SamePlace(D, next, place)
  /\ StartsPlaced(start, place) /\ StartsFirst(D, next, start)
  /\ NoneLost(D, next, start, place)

\* The first node of a list becomes the first of another.
LEMMA FirstMoves ==
  ASSUME NEW D, NEW next, NEW start, NEW place, Linked(D, next, start, place),
         NEW x \in D, NEW c \in DOMAIN start, c # place[x], start[place[x]] = x
  PROVE  Linked(D, [next EXCEPT ![x] = start[c]],
                [start EXCEPT ![place[x]] = next[x], ![c] = x],
                [place EXCEPT ![x] = c])
<1> DEFINE b  == place[x]
           n1 == [next EXCEPT ![x] = start[c]]
           s1 == [start EXCEPT ![place[x]] = next[x], ![c] = x]
           p1 == [place EXCEPT ![x] = c]
<1>0. /\ ListsTyped(D, next, start, place)
      /\ OnePrev(D, next) /\ AllEnd(D, next) /\ AllBegin(D, next)
      /\ SamePlace(D, next, place)
      /\ StartsPlaced(start, place) /\ StartsFirst(D, next, start)
      /\ NoneLost(D, next, start, place)
  BY DEF Linked
<1>1. /\ DOMAIN next = D /\ DOMAIN place = D /\ Nil \notin D
      /\ \A i \in D : next[i] \in D \union {Nil} /\ place[i] \in DOMAIN start
      /\ \A l \in DOMAIN start : start[l] \in D \union {Nil}
  BY <1>0 DEF ListsTyped
<1>2. /\ DOMAIN s1 = DOMAIN start /\ b \in DOMAIN start
      /\ n1[x] = start[c] /\ \A i \in D : i # x => n1[i] = next[i]
      /\ s1[c] = x /\ s1[b] = next[x]
      /\ \A l \in DOMAIN start : l # c /\ l # b => s1[l] = start[l]
      /\ p1[x] = c /\ \A i \in D : i # x => p1[i] = place[i]
      /\ DOMAIN n1 = D /\ DOMAIN p1 = D
  BY <1>1
<1>3. ListsTyped(D, n1, s1, p1)
  BY <1>1 DEF ListsTyped
<1>4. /\ \A i \in D : next[i] # x
      /\ next[x] # x
      /\ start[c] # x
      /\ start[c] # Nil => place[start[c]] = c /\ \A i \in D : next[i] # start[c]
      /\ next[x] # Nil => place[next[x]] = b
  BY <1>0, <1>1 DEF StartsFirst, StartsPlaced, SamePlace
<1> HIDE DEF n1, s1, p1, b
<1>5. OnePrev(D, n1)
  BY <1>0, <1>2, <1>4 DEF OnePrev
<1>6. AllEnd(D, n1)
  <2> SUFFICES ASSUME NEW S \in SUBSET D, S # {} PROVE \E i \in S : n1[i] \notin S
    BY DEF AllEnd
  <2>1. CASE S = {x}
    BY <2>1, <1>2, <1>4
  <2>2. CASE S # {x}
    <3>1. S \ {x} # {} /\ S \ {x} \in SUBSET D
      BY <2>2
    <3>2. PICK i \in S \ {x} : next[i] \notin S \ {x}
      BY <3>1, <1>0 DEF AllEnd
    <3> QED
      BY <3>2, <1>2, <1>4
  <2> QED
    BY <2>1, <2>2
<1>7. AllBegin(D, n1)
  <2> SUFFICES ASSUME NEW S \in SUBSET D, S # {} PROVE \E i \in S : \A j \in S : n1[j] # i
    BY DEF AllBegin
  <2>1. CASE x \in S
    BY <2>1, <1>2, <1>4
  <2>2. CASE x \notin S
    <3>1. PICK i \in S : \A j \in S : next[j] # i
      BY <1>0 DEF AllBegin
    <3> QED
      BY <3>1, <2>2, <1>2
  <2> QED
    BY <2>1, <2>2
<1>8. SamePlace(D, n1, p1)
  BY <1>0, <1>1, <1>2, <1>4 DEF SamePlace
<1>9. StartsPlaced(s1, p1)
  BY <1>0, <1>1, <1>2, <1>4 DEF StartsPlaced, b
<1>10. StartsFirst(D, n1, s1)
  <2> SUFFICES ASSUME NEW l \in DOMAIN start, s1[l] # Nil, NEW i \in D, n1[i] = s1[l] PROVE FALSE
    BY <1>2 DEF StartsFirst
  <2>1. CASE l = c
    BY <2>1, <1>2, <1>4
  <2>2. CASE l = b /\ l # c
    BY <2>2, <1>0, <1>1, <1>2, <1>4 DEF OnePrev
  <2>3. CASE l # b /\ l # c
    BY <2>3, <1>0, <1>1, <1>2, <1>4 DEF StartsFirst, StartsPlaced
  <2> QED
    BY <2>1, <2>2, <2>3
<1>11. NoneLost(D, n1, s1, p1)
  <2> SUFFICES ASSUME NEW i \in D PROVE s1[p1[i]] = i \/ \E j \in D : n1[j] = i
    BY DEF NoneLost
  <2>1. CASE i = x
    BY <2>1, <1>2
  <2>2. CASE i # x /\ \E j \in D : next[j] = i
    <3>1. PICK j \in D : next[j] = i
      BY <2>2
    <3>2. CASE j # x
      BY <3>1, <3>2, <1>2
    <3>3. CASE j = x
      BY <3>1, <3>3, <2>2, <1>1, <1>2, <1>4
    <3> QED
      BY <3>2, <3>3
  <2>3. CASE i # x /\ start[place[i]] = i
    <3>1. place[i] # b
      BY <2>3 DEF b
    <3>2. CASE place[i] = c
      BY <2>3, <3>2, <1>2
    <3>3. CASE place[i] # c
      BY <2>3, <3>1, <3>3, <1>1, <1>2
    <3> QED
      BY <3>2, <3>3
  <2> QED
    BY <2>1, <2>2, <2>3, <1>0 DEF NoneLost
<1>12. Linked(D, n1, s1, p1)
  BY <1>3, <1>5, <1>6, <1>7, <1>8, <1>9, <1>10, <1>11 DEF Linked
<1> QED
  BY <1>12 DEF n1, s1, p1

\* A node with one before it on its list becomes the first of another.
LEMMA LaterMoves ==
  ASSUME NEW D, NEW next, NEW start, NEW place, Linked(D, next, start, place),
         NEW x \in D, NEW c \in DOMAIN start, c # place[x],
         NEW p \in D, next[p] = x
  PROVE  Linked(D, [next EXCEPT ![p] = next[x], ![x] = start[c]],
                [start EXCEPT ![c] = x], [place EXCEPT ![x] = c])
<1> DEFINE n1 == [next EXCEPT ![p] = next[x], ![x] = start[c]]
           s1 == [start EXCEPT ![c] = x]
           p1 == [place EXCEPT ![x] = c]
<1>0. /\ ListsTyped(D, next, start, place)
      /\ OnePrev(D, next) /\ AllEnd(D, next) /\ AllBegin(D, next)
      /\ SamePlace(D, next, place)
      /\ StartsPlaced(start, place) /\ StartsFirst(D, next, start)
      /\ NoneLost(D, next, start, place)
  BY DEF Linked
<1>1. /\ DOMAIN next = D /\ DOMAIN place = D /\ Nil \notin D
      /\ \A i \in D : next[i] \in D \union {Nil} /\ place[i] \in DOMAIN start
      /\ \A l \in DOMAIN start : start[l] \in D \union {Nil}
  BY <1>0 DEF ListsTyped
<1>a. \A i \in D : next[i] # i
  <2> SUFFICES ASSUME NEW i \in D PROVE next[i] # i
    OBVIOUS
  <2>1. {i} \in SUBSET D /\ {i} # {}
    OBVIOUS
  <2> QED
    BY <2>1, <1>0 DEF AllEnd
<1>b. p # x
  BY <1>a
<1>2. /\ DOMAIN s1 = DOMAIN start
      /\ n1[x] = start[c] /\ n1[p] = next[x]
      /\ \A i \in D : i # x /\ i # p => n1[i] = next[i]
      /\ s1[c] = x
      /\ \A l \in DOMAIN start : l # c => s1[l] = start[l]
      /\ p1[x] = c /\ \A i \in D : i # x => p1[i] = place[i]
      /\ DOMAIN n1 = D /\ DOMAIN p1 = D
  BY <1>1, <1>b
<1>3. ListsTyped(D, n1, s1, p1)
  BY <1>1 DEF ListsTyped
<1>4. /\ \A i \in D : next[i] = x => i = p
      /\ next[x] # x /\ next[x] # p
      /\ x # Nil /\ place[p] = place[x]
      /\ \A l \in DOMAIN start : start[l] # x
      /\ start[c] # Nil => place[start[c]] = c /\ \A i \in D : next[i] # start[c]
      /\ next[x] # Nil => place[next[x]] = place[x]
  <2>1. {p, x} \in SUBSET D /\ {p, x} # {}
    OBVIOUS
  <2>2. next[x] # p
    BY <2>1, <1>0 DEF AllEnd
  <2> QED
    BY <2>2, <1>a, <1>0, <1>1 DEF StartsFirst, StartsPlaced, SamePlace, OnePrev
<1> HIDE DEF n1, s1, p1
<1>5. OnePrev(D, n1)
  BY <1>0, <1>2, <1>4 DEF OnePrev
<1>6. AllEnd(D, n1)
  <2> SUFFICES ASSUME NEW S \in SUBSET D, S # {} PROVE \E i \in S : n1[i] \notin S
    BY DEF AllEnd
  <2>1. S \union {x} \in SUBSET D /\ S \union {x} # {} /\ S \ {x} \in SUBSET D
    OBVIOUS
  <2>2. PICK i \in S \union {x} : next[i] \notin S \union {x}
    BY <2>1, <1>0 DEF AllEnd
  <2>3. i # p
    BY <2>2
  <2>4. CASE i # x
    BY <2>2, <2>3, <2>4, <1>2
  <2>5. CASE i = x /\ p \in S
    BY <2>2, <2>5, <1>2
  <2>6. CASE i = x /\ p \notin S /\ S = {x}
    BY <2>6, <1>2, <1>4
  <2>7. CASE i = x /\ p \notin S /\ S # {x}
    <3>1. S \ {x} # {}
      BY <2>7
    <3>2. PICK j \in S \ {x} : next[j] \notin S \ {x}
      BY <2>1, <3>1, <1>0 DEF AllEnd
    <3>3. j # p /\ j \in D
      BY <2>7
    <3>4. next[j] # x /\ n1[j] = next[j]
      BY <3>2, <3>3, <1>2, <1>4
    <3> QED
      BY <3>2, <3>4
  <2> QED
    BY <2>4, <2>5, <2>6, <2>7
<1>7. AllBegin(D, n1)
  <2> SUFFICES ASSUME NEW S \in SUBSET D, S # {} PROVE \E i \in S : \A j \in S : n1[j] # i
    BY DEF AllBegin
  <2>1. CASE x \in S
    BY <2>1, <1>2, <1>4
  <2>2. CASE x \notin S
    <3>1. S \union {x} \in SUBSET D /\ S \union {x} # {}
      OBVIOUS
    <3>2. PICK i \in S \union {x} : \A j \in S \union {x} : next[j] # i
      BY <3>1, <1>0 DEF AllBegin
    <3>3. CASE i # x
      BY <3>2, <3>3, <2>2, <1>2
    <3>4. CASE i = x
      <4>1. p \notin S
        BY <3>2, <3>4
      <4>2. PICK k \in S : \A j \in S : next[j] # k
        BY <1>0 DEF AllBegin
      <4> QED
        BY <4>1, <4>2, <2>2, <1>2
    <3> QED
      BY <3>3, <3>4
  <2> QED
    BY <2>1, <2>2
<1>8. SamePlace(D, n1, p1)
  BY <1>0, <1>1, <1>2, <1>4 DEF SamePlace
<1>9. StartsPlaced(s1, p1)
  BY <1>0, <1>1, <1>2, <1>4 DEF StartsPlaced
<1>10. StartsFirst(D, n1, s1)
  <2> SUFFICES ASSUME NEW l \in DOMAIN start, s1[l] # Nil, NEW i \in D, n1[i] = s1[l] PROVE FALSE
    BY <1>2 DEF StartsFirst
  <2>1. CASE l = c
    BY <2>1, <1>2, <1>4
  <2>2. CASE l # c
    <3>1. start[l] # Nil /\ n1[i] = start[l] /\ place[start[l]] = l /\ \A j \in D : next[j] # start[l]
      BY <2>2, <1>0, <1>2 DEF StartsFirst, StartsPlaced
    <3>2. i = x \/ i = p \/ (i # x /\ i # p)
      OBVIOUS
    <3> QED
      BY <2>2, <3>1, <3>2, <1>2, <1>4
  <2> QED
    BY <2>1, <2>2
<1>11. NoneLost(D, n1, s1, p1)
  <2> SUFFICES ASSUME NEW i \in D PROVE s1[p1[i]] = i \/ \E j \in D : n1[j] = i
    BY DEF NoneLost
  <2>1. CASE i = x
    BY <2>1, <1>2
  <2>2. CASE i # x /\ \E j \in D : next[j] = i
    <3>1. PICK j \in D : next[j] = i
      BY <2>2
    <3>2. CASE j # x
      BY <3>1, <3>2, <2>2, <1>2
    <3>3. CASE j = x
      BY <3>1, <3>3, <1>2
    <3> QED
      BY <3>2, <3>3
  <2>3. CASE i # x /\ start[place[i]] = i
    <3>2. CASE place[i] = c
      BY <2>3, <3>2, <1>2
    <3>3. CASE place[i] # c
      BY <2>3, <3>3, <1>1, <1>2
    <3> QED
      BY <3>2, <3>3
  <2> QED
    BY <2>1, <2>2, <2>3, <1>0 DEF NoneLost
<1>12. Linked(D, n1, s1, p1)
  BY <1>3, <1>5, <1>6, <1>7, <1>8, <1>9, <1>10, <1>11 DEF Linked
<1> QED
  BY <1>12 DEF n1, s1, p1

\* What holds the first node of a list, and with a node the next one, holds
\* the whole list.
LEMMA Reached ==
  ASSUME NEW D, NEW next, NEW start, NEW place, Linked(D, next, start, place),
         NEW l \in DOMAIN start, NEW S \in SUBSET D, start[l] \in S \union {Nil},
         \A i \in S : next[i] \in S \union {Nil}
  PROVE  \A i \in D : place[i] = l => i \in S
<1> DEFINE B == {i \in D : place[i] = l /\ i \notin S}
<1> SUFFICES ASSUME B # {} PROVE FALSE
  OBVIOUS
<1>1. B \in SUBSET D
  OBVIOUS
<1>2. PICK i \in B : \A j \in B : next[j] # i
  BY <1>1 DEF Linked, AllBegin
<1>3. i \in D /\ place[i] = l /\ i \notin S /\ i # Nil
  BY DEF Linked, ListsTyped
<1>4. start[l] # i
  BY <1>3
<1>5. PICK j \in D : next[j] = i
  BY <1>3, <1>4 DEF Linked, NoneLost
<1>6. place[j] = l
  BY <1>3, <1>5 DEF Linked, SamePlace
<1>7. j \in S
  BY <1>2, <1>5, <1>6
<1> QED
  BY <1>3, <1>5, <1>7

\* What is on a list stays on it.
LEMMA StaysOn ==
  ASSUME NEW D, NEW next, NEW start, NEW place, Linked(D, next, start, place),
         NEW l \in DOMAIN start
  PROVE  LET S == {i \in D : place[i] = l}
         IN  start[l] \in S \union {Nil} /\ \A i \in S : next[i] \in S \union {Nil}
<1>1. /\ \A m \in DOMAIN start : start[m] \in D \union {Nil}
      /\ \A i \in D : next[i] \in D \union {Nil}
  BY DEF Linked, ListsTyped
<1>2. start[l] # Nil => place[start[l]] = l
  BY DEF Linked, StartsPlaced
<1>3. \A i \in D : next[i] # Nil => place[next[i]] = place[i]
  BY DEF Linked, SamePlace
<1> QED
  BY <1>1, <1>2, <1>3

\* f finds, from each node on, the first one that is in H.
Finds(f, D, next, H) ==
  f = [i \in D \union {Nil} |->
         IF i = Nil THEN Nil ELSE IF i \in H THEN i ELSE f[next[i]]]

\* A search along a list is defined.
LEMMA SearchExists ==
  ASSUME NEW D, NEW next \in [D -> D \union {Nil}], Nil \notin D, NEW H \in SUBSET D
  PROVE  \E f : Finds(f, D, next, H)
<1> DEFINE Upto(S) == \A i \in S : i \notin H => next[i] \in S \union {Nil}
           Firsts(i) == {j \in H : \A S \in SUBSET D : i \in S /\ Upto(S) => j \in S}
           First(i) == IF i = Nil \/ Firsts(i) = {} THEN Nil ELSE CHOOSE j \in H : j \in Firsts(i)
           f == [i \in D \union {Nil} |-> First(i)]
           G == [i \in D \union {Nil} |-> IF i = Nil THEN Nil ELSE IF i \in H THEN i ELSE f[next[i]]]
<1>1. First(Nil) = Nil
  OBVIOUS
<1>2. ASSUME NEW i \in H
      PROVE  First(i) = i
  <2>1. Upto({i}) /\ {i} \in SUBSET D
    OBVIOUS
  <2>2. Firsts(i) = {i}
    BY <2>1
  <2> HIDE DEF Firsts
  <2> QED
    BY <2>2
<1>3. ASSUME NEW i \in D, i \notin H, next[i] = Nil
      PROVE  First(i) = Nil
  <2>1. Upto({i}) /\ {i} \in SUBSET D
    BY <1>3
  <2>2. ASSUME NEW j \in Firsts(i) PROVE FALSE
    <3>1. j \in H /\ \A S \in SUBSET D : i \in S /\ Upto(S) => j \in S
      BY <2>2
    <3> HIDE DEF Upto
    <3>2. j \in {i}
      BY <2>1, <3>1
    <3> QED
      BY <1>3, <3>1, <3>2
  <2> HIDE DEF Firsts
  <2> QED
    BY <2>2
<1>4. ASSUME NEW i \in D, i \notin H, next[i] # Nil
      PROVE  First(i) = First(next[i])
  <2> DEFINE x == next[i]
  <2>1. x \in D /\ i # Nil /\ x # Nil
    BY <1>4
  <2>2. ASSUME NEW j \in Firsts(i) PROVE j \in Firsts(x)
    <3>1. ASSUME NEW S \in SUBSET D, x \in S, Upto(S) PROVE j \in S
      <4>1. Upto(S \union {i}) /\ S \union {i} \in SUBSET D
        BY <3>1
      <4>2. j \in S \union {i} /\ j \in H
        BY <4>1, <2>2
      <4> QED
        BY <4>2, <1>4
    <3> QED
      BY <3>1, <2>2
  <2>3. ASSUME NEW j \in Firsts(x) PROVE j \in Firsts(i)
    <3>1. ASSUME NEW S \in SUBSET D, i \in S, Upto(S) PROVE x \in S
      BY <3>1, <1>4
    <3> HIDE DEF Upto, x
    <3> QED
      BY <3>1, <2>3
  <2>4. Firsts(i) = Firsts(x)
    BY <2>2, <2>3
  <2> HIDE DEF Firsts
  <2> QED
    BY <2>1, <2>4
<1> HIDE DEF First
<1>5. ASSUME NEW i \in D \union {Nil}
      PROVE  f[i] = G[i]
  <2>1. CASE i = Nil
    BY <1>1, <2>1
  <2>2. CASE i \in H
    BY <1>2, <2>2
  <2>3. CASE i \in D /\ i \notin H /\ next[i] = Nil
    BY <1>1, <1>3, <2>3
  <2>4. CASE i \in D /\ i \notin H /\ next[i] # Nil
    BY <1>4, <2>4
  <2> QED
    BY <2>1, <2>2, <2>3, <2>4
<1>6. f = G
  <2>1. DOMAIN f = DOMAIN G
    OBVIOUS
  <2> HIDE DEF f
  <2> QED
    BY <2>1, <1>5 DEF f
<1> HIDE DEF f
<1> QED
  BY <1>6 DEF Finds

\* The nodes of a list are defined.
LEMMA FromExists ==
  ASSUME NEW D, NEW next \in [D -> D \union {Nil}], Nil \notin D
  PROVE  \E f : f = [i \in D \union {Nil} |->
                       IF i = Nil THEN {} ELSE {i} \union f[next[i]]]
<1> DEFINE Closed(S) == \A i \in S : next[i] \in S \union {Nil}
           On(i) == IF i = Nil THEN {} ELSE {j \in D : \A S \in SUBSET D : i \in S /\ Closed(S) => j \in S}
           f == [i \in D \union {Nil} |-> On(i)]
           G == [i \in D \union {Nil} |-> IF i = Nil THEN {} ELSE {i} \union f[next[i]]]
<1>1. ASSUME NEW i \in D
      PROVE  On(i) = {i} \union On(next[i])
  <2> DEFINE x == next[i]
  <2>0. i # Nil /\ x \in D \union {Nil}
    OBVIOUS
  <2>1. ASSUME NEW j \in On(i), j # i PROVE j \in On(x)
    <3>1. x # Nil
      <4> SUFFICES ASSUME x = Nil PROVE FALSE
        OBVIOUS
      <4>1. Closed({i}) /\ {i} \in SUBSET D
        OBVIOUS
      <4>2. \A S \in SUBSET D : i \in S /\ Closed(S) => j \in S
        BY <2>0, <2>1
      <4> HIDE DEF Closed
      <4>3. j \in {i}
        BY <4>1, <4>2
      <4> QED
        BY <2>1, <4>3
    <3>2. ASSUME NEW S \in SUBSET D, x \in S, Closed(S) PROVE j \in S
      <4>1. Closed(S \union {i}) /\ S \union {i} \in SUBSET D
        BY <3>2
      <4>2. j \in S \union {i}
        BY <4>1, <2>0, <2>1
      <4> QED
        BY <4>2, <2>1
    <3> QED
      BY <3>1, <3>2, <2>0, <2>1
  <2>2. ASSUME NEW j \in On(x) PROVE j \in On(i)
    <3>1. x # Nil /\ j \in D /\ \A S \in SUBSET D : x \in S /\ Closed(S) => j \in S
      BY <2>2
    <3>2. ASSUME NEW S \in SUBSET D, i \in S, Closed(S) PROVE x \in S
      BY <3>1, <3>2
    <3> HIDE DEF Closed, x
    <3> QED
      BY <3>1, <3>2, <2>0
  <2>3. i \in On(i)
    BY <2>0
  <2> HIDE DEF On, x
  <2> QED
    BY <2>1, <2>2, <2>3 DEF x
<1>2. On(Nil) = {}
  OBVIOUS
<1> HIDE DEF On
<1>3. ASSUME NEW i \in D \union {Nil}
      PROVE  f[i] = G[i]
  BY <1>1, <1>2
<1>4. f = G
  <2>1. DOMAIN f = DOMAIN G
    OBVIOUS
  <2> HIDE DEF f
  <2> QED
    BY <2>1, <1>3 DEF f
<1> HIDE DEF f
<1> QED
  BY <1>4


----------------------------------------------------------------------------
(* The table of references *)

USE RefTableAssumption

RefNode == [obj : Objects \union {NoObject}, refs : Nat, next : Int]

Nexts(r) == [i \in DOMAIN r.node |-> r.node[i].next]
Starts(r) == [l \in Lists(r) |-> Start(r, l)]
Places(r) ==
  [i \in DOMAIN r.node |-> IF r.node[i].obj = NoObject THEN SlotCount(r)
                           ELSE Bucket(r, r.node[i].obj)]
Taken(r) == {i \in DOMAIN r.node : r.node[i].obj # NoObject}

\* a table of n nodes
Refs(r, n) ==
  /\ n \in Nat \ {0}
  /\ r = [node |-> r.node, bucket |-> r.bucket, free |-> r.free, used |-> r.used]
  /\ r.node \in [0 .. n - 1 -> RefNode]
  /\ DOMAIN r.bucket = 0 .. n - 1

RefsLinked(r) == Linked(DOMAIN r.node, Nexts(r), Starts(r), Places(r))

OneNodeEach(r) ==
  \A i, j \in Taken(r) : r.node[i].obj = r.node[j].obj => i = j

RefsSound(r, n) ==
  /\ Refs(r, n) /\ RefsLinked(r) /\ OneNodeEach(r)
  /\ r.used = Cardinality(Taken(r))

\* The nodes count c, and there is a node for what is counted.
Counted(r, c) ==
  /\ \A i \in DOMAIN r.node :
       r.node[i].refs = IF r.node[i].obj = NoObject THEN 0 ELSE c[r.node[i].obj]
  /\ \A o \in Objects : c[o] # 0 => \E i \in DOMAIN r.node : r.node[i].obj = o

Positive(r) == \A i \in Taken(r) : r.node[i].refs # 0

\* What the shape of a table says of its indices.
LEMMA RefsAre ==
  ASSUME NEW r, NEW n, Refs(r, n)
  PROVE  /\ n \in Nat \ {0} /\ SlotCount(r) = n /\ DOMAIN r.node = 0 .. n - 1
         /\ Nil \notin 0 .. n - 1 /\ n \notin 0 .. n - 1 /\ Nil # n
         /\ Lists(r) = 0 .. n /\ n \in 0 .. n
         /\ \A i \in 0 .. n - 1 : i \in 0 .. n
         /\ \A i \in 0 .. n - 1 : r.node[i] \in RefNode
         /\ \A i \in 0 .. n - 1 : r.node[i].obj \in Objects \union {NoObject}
         /\ \A o \in Objects : Bucket(r, o) \in 0 .. n - 1 /\ Bucket(r, o) = ObjectHash[o] % n
         /\ DOMAIN r.bucket = 0 .. n - 1
<1>1. n \in Nat \ {0} /\ DOMAIN r.node = 0 .. n - 1
      /\ \A i \in 0 .. n - 1 : r.node[i] \in RefNode
  BY DEF Refs
<1>2. Cardinality(0 .. n - 1) = n
  BY <1>1, FS_Interval
<1>3. SlotCount(r) = n
  BY <1>1, <1>2 DEF SlotCount
<1>4. \A o \in Objects : ObjectHash[o] % n \in 0 .. n - 1
  BY <1>1
<1>5. Nil \notin 0 .. n - 1 /\ n \notin 0 .. n - 1 /\ Nil # n
      /\ \A i \in 0 .. n - 1 : i \in 0 .. n
  BY <1>1 DEF Nil
<1>6. \A i \in 0 .. n - 1 : r.node[i].obj \in Objects \union {NoObject}
  BY <1>1 DEF RefNode
<1>7. Lists(r) = 0 .. n /\ n \in 0 .. n
  BY <1>1, <1>3 DEF Lists
<1>8. DOMAIN r.bucket = 0 .. n - 1
  BY DEF Refs
<1> QED
  BY <1>1, <1>3, <1>4, <1>5, <1>6, <1>7, <1>8 DEF Bucket

\* The lists of a table, by node.
LEMMA ListsAre ==
  ASSUME NEW r, NEW n, Refs(r, n)
  PROVE  /\ DOMAIN Nexts(r) = 0 .. n - 1 /\ DOMAIN Starts(r) = 0 .. n
         /\ DOMAIN Places(r) = 0 .. n - 1
         /\ \A i \in 0 .. n - 1 : Nexts(r)[i] = r.node[i].next
         /\ Starts(r)[n] = r.free
         /\ \A b \in 0 .. n - 1 : Starts(r)[b] = r.bucket[b]
         /\ \A i \in 0 .. n - 1 : r.node[i].obj = NoObject => Places(r)[i] = n
         /\ \A i \in 0 .. n - 1 : r.node[i].obj # NoObject =>
              Places(r)[i] = Bucket(r, r.node[i].obj) /\ Places(r)[i] \in 0 .. n - 1
<1>1. /\ n \in Nat \ {0} /\ SlotCount(r) = n /\ DOMAIN r.node = 0 .. n - 1
      /\ n \notin 0 .. n - 1 /\ Lists(r) = 0 .. n /\ n \in 0 .. n
      /\ \A i \in 0 .. n - 1 : i \in 0 .. n
      /\ \A o \in Objects : Bucket(r, o) \in 0 .. n - 1
      /\ \A i \in 0 .. n - 1 : r.node[i].obj \in Objects \union {NoObject}
  BY RefsAre
<1> QED
  BY <1>1 DEF Nexts, Starts, Start, Places

\* Get finds the node of the object, or none when there is none.
LEMMA GetIs ==
  ASSUME NEW r, NEW n, Refs(r, n), RefsLinked(r), OneNodeEach(r), NEW o \in Objects
  PROVE  /\ Get(r, o) # Nil => Get(r, o) \in DOMAIN r.node /\ r.node[Get(r, o)].obj = o
         /\ \A i \in DOMAIN r.node : r.node[i].obj = o => Get(r, o) = i
<1> DEFINE D == DOMAIN r.node
           next == Nexts(r)
           H == {i \in D : r.node[i].obj = o}
           Is(f) == f = [i \in D \union {Nil} |->
                           IF i = Nil THEN Nil ELSE IF r.node[i].obj = o THEN i ELSE f[r.node[i].next]]
           s == CHOOSE f : Is(f)
           b == Bucket(r, o)
<1>1. Get(r, o) = s[r.bucket[b]]
  BY DEF Get
<1>2. /\ n \in Nat \ {0} /\ D = 0 .. n - 1 /\ Nil \notin D
      /\ o # NoObject /\ b \in D /\ b \in 0 .. n
  BY RefsAre
<1>3. /\ DOMAIN Starts(r) = 0 .. n /\ Starts(r)[b] = r.bucket[b]
      /\ \A i \in D : next[i] = r.node[i].next
      /\ \A i \in D : r.node[i].obj # NoObject => Places(r)[i] = Bucket(r, r.node[i].obj)
  BY <1>2, ListsAre
<1>4. /\ next \in [D -> D \union {Nil}]
      /\ \A l \in DOMAIN Starts(r) : Starts(r)[l] \in D \union {Nil}
      /\ AllEnd(D, next)
  BY DEF RefsLinked, Linked, ListsTyped
<1>5. Is(s)
  <2>0. H \in SUBSET D /\ \A i \in D : i \in H <=> r.node[i].obj = o
    OBVIOUS
  <2> HIDE DEF next, H, D
  <2>1. PICK f : Finds(f, D, next, H)
    BY <2>0, <1>2, <1>4, SearchExists
  <2>2. Is(f)
    BY <2>0, <2>1, <1>3 DEF Finds
  <2> QED
    BY <2>2
<1> HIDE DEF s
<1>6. /\ s[Nil] = Nil
      /\ \A i \in D : s[i] = IF r.node[i].obj = o THEN i ELSE s[next[i]]
  BY <1>2, <1>3, <1>5
<1>7. \A i \in D : s[i] # Nil => s[i] \in D /\ r.node[s[i]].obj = o
  <2> DEFINE B == {i \in D : ~ (s[i] # Nil => s[i] \in D /\ r.node[s[i]].obj = o)}
  <2> SUFFICES ASSUME B # {} PROVE FALSE
    OBVIOUS
  <2>1. PICK i \in B : next[i] \notin B
    BY <1>4 DEF AllEnd
  <2> HIDE DEF next
  <2> QED
    BY <2>1, <1>4, <1>6
<1>8. r.bucket[b] \in D \union {Nil}
  BY <1>2, <1>3, <1>4
<1>9. ASSUME NEW i \in D, r.node[i].obj = o
      PROVE  s[r.bucket[b]] # Nil
  <2> SUFFICES ASSUME s[r.bucket[b]] = Nil PROVE FALSE
    OBVIOUS
  <2> DEFINE S == {j \in D : s[j] = Nil}
  <2>1. \A j \in S : next[j] \in S \union {Nil}
    <3> HIDE DEF next
    <3> QED
      BY <1>2, <1>4, <1>6
  <2>2. Starts(r)[b] \in S \union {Nil} /\ S \in SUBSET D
    BY <1>3, <1>8
  <2>3. Places(r)[i] = b
    BY <1>2, <1>3, <1>9
  <2>4. b \in DOMAIN Starts(r)
    BY <1>2, <1>3
  <2> HIDE DEF S, next
  <2>5. i \in S
    BY <2>1, <2>2, <2>3, <2>4, <1>9, Reached DEF RefsLinked, next
  <2> QED
    BY <2>5, <1>2, <1>6, <1>9 DEF S
<1>10. ASSUME NEW i \in D, r.node[i].obj = o
       PROVE  Get(r, o) = i
  <2>1. Get(r, o) \in D /\ r.node[Get(r, o)].obj = o
    BY <1>1, <1>7, <1>8, <1>9, <1>10, <1>6
  <2> QED
    BY <2>1, <1>2, <1>10 DEF OneNodeEach, Taken
<1> QED
  BY <1>1, <1>6, <1>7, <1>8, <1>10

\* The nodes of list l are those whose place is l.
LEMMA OnListIs ==
  ASSUME NEW r, NEW n, Refs(r, n), RefsLinked(r), NEW l \in 0 .. n
  PROVE  OnList(r, l) = {i \in DOMAIN r.node : Places(r)[i] = l}
<1> DEFINE D == DOMAIN r.node
           next == Nexts(r)
           Is(f) == f = [i \in D \union {Nil} |->
                           IF i = Nil THEN {} ELSE {i} \union f[r.node[i].next]]
           s == CHOOSE f : Is(f)
           P == {i \in D : Places(r)[i] = l}
           h == Start(r, l)
<1>1. OnList(r, l) = s[h]
  BY DEF OnList
<1>2. /\ n \in Nat \ {0} /\ D = 0 .. n - 1 /\ Nil \notin D
      /\ Lists(r) = 0 .. n /\ Starts(r)[l] = h /\ l \in DOMAIN Starts(r)
      /\ \A i \in D : next[i] = r.node[i].next
  <2>1. /\ n \in Nat \ {0} /\ D = 0 .. n - 1 /\ Nil \notin D
        /\ Lists(r) = 0 .. n
    BY RefsAre
  <2> QED
    BY <2>1 DEF Starts, Nexts
<1>3. /\ next \in [D -> D \union {Nil}] /\ h \in D \union {Nil}
      /\ AllEnd(D, next)
  BY <1>2 DEF RefsLinked, Linked, ListsTyped
<1>4. Is(s)
  <2>1. PICK f : f = [i \in D \union {Nil} |-> IF i = Nil THEN {} ELSE {i} \union f[next[i]]]
    <3>1. next \in [D -> D \union {Nil}] /\ Nil \notin D
      BY <1>2, <1>3
    <3> HIDE DEF D, next
    <3> QED
      BY ONLY <3>1, FromExists
  <2>2. Is(f)
    BY <2>1, <1>2
  <2> QED
    BY <2>2
<1> HIDE DEF s
<1>5. /\ s[Nil] = {}
      /\ \A i \in D : s[i] = {i} \union s[next[i]]
  BY <1>2, <1>4
<1> HIDE DEF next, h
<1>6. h \in P \union {Nil} /\ \A i \in P : next[i] \in P \union {Nil}
  BY <1>2, StaysOn DEF RefsLinked, next
<1>7. \A i \in P : s[i] \subseteq P
  <2> DEFINE B == {i \in P : ~ (s[i] \subseteq P)}
  <2> SUFFICES ASSUME B # {} PROVE FALSE
    OBVIOUS
  <2>0. B \in SUBSET D
    OBVIOUS
  <2>1. PICK i \in B : next[i] \notin B
    BY <2>0, <1>3 DEF AllEnd
  <2>2. i \in P /\ ~ (s[i] \subseteq P) /\ i \in D
    OBVIOUS
  <2>3. s[next[i]] \subseteq P
    BY <2>1, <2>2, <1>5, <1>6
  <2> QED
    BY <2>2, <2>3, <1>5
<1>8. \A i \in P : i \in s[h]
  <2> DEFINE S == {j \in D : j \in s[h] /\ (next[j] = Nil \/ next[j] \in s[h])}
             All(i) == \A j \in s[i] : next[j] = Nil \/ next[j] \in s[i]
  <2>1. \A i \in D : All(i)
    <3> DEFINE B == {i \in D : ~ All(i)}
    <3> SUFFICES ASSUME B # {} PROVE FALSE
      OBVIOUS
    <3>1. B \in SUBSET D
      OBVIOUS
    <3>2. PICK i \in B : next[i] \notin B
      BY <3>1, <1>3 DEF AllEnd
    <3>3. i \in D /\ ~ All(i)
      OBVIOUS
    <3>4. next[i] = Nil \/ (next[i] \in D /\ All(next[i]) /\ next[i] \in s[next[i]])
      BY <3>2, <3>3, <1>3, <1>5
    <3> QED
      BY <3>3, <3>4, <1>5
  <2>2. h = Nil \/ (h \in s[h] /\ All(h))
    BY <2>1, <1>3, <1>5
  <2>3. \A j \in S : next[j] \in S \union {Nil}
    BY <2>2, <1>3, <1>5
  <2>4. S \in SUBSET D /\ h \in S \union {Nil}
    BY <2>2, <1>3
  <2> HIDE DEF S
  <2>5. \A i \in D : Places(r)[i] = l => i \in S
    BY <2>3, <2>4, <1>2, Reached DEF RefsLinked, next
  <2> QED
    BY <2>5 DEF S
<1> QED
  BY <1>1, <1>2, <1>5, <1>6, <1>7, <1>8

\* Equal lists.
LEMMA SameLists ==
  ASSUME NEW r, NEW n, Refs(r, n), RefsLinked(r), NEW u, Refs(u, n),
         u.free = r.free, u.bucket = r.bucket,
         \A i \in 0 .. n - 1 : u.node[i].obj = r.node[i].obj /\ u.node[i].next = r.node[i].next
  PROVE  RefsLinked(u) /\ Taken(u) = Taken(r)
<1>1. /\ DOMAIN r.node = 0 .. n - 1 /\ DOMAIN u.node = 0 .. n - 1
      /\ SlotCount(r) = n /\ SlotCount(u) = n
  BY RefsAre
<1>2. Nexts(u) = Nexts(r) /\ Taken(u) = Taken(r)
  BY <1>1 DEF Nexts, Taken
<1>3. Lists(u) = Lists(r) /\ \A l \in Lists(r) : Start(u, l) = Start(r, l)
  BY <1>1 DEF Lists, Start
<1>4. Starts(u) = Starts(r)
  BY <1>3 DEF Starts
<1>5. \A o : Bucket(u, o) = Bucket(r, o)
  BY <1>1 DEF Bucket
<1>6. Places(u) = Places(r)
  BY <1>1, <1>5 DEF Places
<1> QED
  BY <1>1, <1>2, <1>4, <1>6 DEF RefsLinked

Recounted(r, i, c) == [r EXCEPT !.node[i].refs = c]

\* u is r but for the count of node x
CountsElse(u, r, n, x, c) ==
  /\ RefsSound(u, n)
  /\ DOMAIN u.node = 0 .. n - 1
  /\ Taken(u) = Taken(r)
  /\ u.used = r.used
  /\ \A i \in 0 .. n - 1 : /\ u.node[i].obj = r.node[i].obj
                           /\ u.node[i].refs = IF i = x THEN c ELSE r.node[i].refs

\* A node that counts differently changes no list.
LEMMA RecountedIs ==
  ASSUME NEW r, NEW n, RefsSound(r, n), NEW x \in 0 .. n - 1, NEW c \in Nat
  PROVE  CountsElse(Recounted(r, x, c), r, n, x, c)
<1> DEFINE u == Recounted(r, x, c)
           m == [r.node EXCEPT ![x].refs = c]
<1>1. /\ Refs(r, n) /\ n \in Nat \ {0} /\ DOMAIN r.node = 0 .. n - 1
      /\ r = [node |-> r.node, bucket |-> r.bucket, free |-> r.free, used |-> r.used]
      /\ DOMAIN r.bucket = 0 .. n - 1
      /\ r.node \in [0 .. n - 1 -> RefNode]
  BY RefsAre DEF RefsSound, Refs
<1>2. u = [node |-> m, bucket |-> r.bucket, free |-> r.free, used |-> r.used]
  <2> DEFINE N == r.node
             B == r.bucket
             F == r.free
             U == r.used
  <2>1. r = [node |-> N, bucket |-> B, free |-> F, used |-> U]
    BY <1>1
  <2>2. u = [r EXCEPT !.node = [N EXCEPT ![x].refs = c]]
    BY DEF Recounted
  <2> HIDE DEF u, N, B, F, U
  <2>3. u = [node |-> [N EXCEPT ![x].refs = c], bucket |-> B, free |-> F, used |-> U]
    BY <2>1, <2>2
  <2> QED
    BY <2>3 DEF N, B, F, U
<1> HIDE DEF u
<1>3. m \in [0 .. n - 1 -> RefNode]
      /\ \A i \in 0 .. n - 1 : /\ m[i].obj = r.node[i].obj /\ m[i].next = r.node[i].next
                              /\ m[i].refs = IF i = x THEN c ELSE r.node[i].refs
  BY <1>1 DEF RefNode
<1> HIDE DEF m
<1>4. Refs(u, n)
  BY <1>1, <1>2, <1>3 DEF Refs
<1>5. /\ u.free = r.free /\ u.bucket = r.bucket /\ u.used = r.used /\ u.node = m
  BY <1>2
<1>6. RefsLinked(u) /\ Taken(u) = Taken(r)
  BY <1>1, <1>3, <1>4, <1>5, SameLists DEF RefsSound
<1>7. OneNodeEach(u)
  <2>1. OneNodeEach(r) /\ DOMAIN r.node = 0 .. n - 1
    BY <1>1 DEF RefsSound
  <2>2. \A i \in Taken(r) : u.node[i].obj = r.node[i].obj
    BY <2>1, <1>3, <1>5 DEF Taken
  <2> QED
    BY <2>1, <2>2, <1>6 DEF OneNodeEach
<1>8. RefsSound(u, n)
  BY <1>4, <1>5, <1>6, <1>7 DEF RefsSound
<1>9. DOMAIN u.node = 0 .. n - 1
  BY <1>3, <1>5
<1> QED
  BY <1>3, <1>5, <1>6, <1>8, <1>9 DEF u, CountsElse

\* While not every node is taken, there is a first free one.
LEMMA FreeIs ==
  ASSUME NEW r, NEW n, RefsSound(r, n)
  PROVE  /\ r.used # n => r.free # Nil
         /\ r.free # Nil => r.free \in 0 .. n - 1 /\ r.free \notin Taken(r)
         /\ Taken(r) \in SUBSET (0 .. n - 1) /\ IsFiniteSet(Taken(r))
<1>1. /\ Refs(r, n) /\ n \in Nat \ {0} /\ DOMAIN r.node = 0 .. n - 1 /\ Nil \notin 0 .. n - 1
      /\ n \in 0 .. n /\ n \notin 0 .. n - 1
      /\ \A i \in 0 .. n - 1 : r.node[i].obj \in Objects \union {NoObject}
  BY RefsAre DEF RefsSound
<1>2. /\ DOMAIN Starts(r) = 0 .. n /\ Starts(r)[n] = r.free
      /\ \A i \in 0 .. n - 1 : r.node[i].obj = NoObject => Places(r)[i] = n
      /\ \A i \in 0 .. n - 1 : r.node[i].obj # NoObject => Places(r)[i] \in 0 .. n - 1
  BY <1>1, ListsAre
<1>3. Linked(0 .. n - 1, Nexts(r), Starts(r), Places(r))
  BY <1>1 DEF RefsSound, RefsLinked
<1>4. r.free # Nil => r.free \in 0 .. n - 1 /\ Places(r)[r.free] = n
  BY <1>1, <1>2, <1>3 DEF Linked, ListsTyped, StartsPlaced
<1>5. Taken(r) \in SUBSET (0 .. n - 1)
  BY <1>1 DEF Taken
<1>6. IsFiniteSet(0 .. n - 1) /\ Cardinality(0 .. n - 1) = n
  BY <1>1, FS_Interval
<1>7. IsFiniteSet(Taken(r))
  BY <1>5, <1>6, FS_Subset
<1>8. ASSUME r.free = Nil PROVE r.used = n
  <2> DEFINE S == {}
             D == 0 .. n - 1
  <2>1. /\ Starts(r)[n] \in S \union {Nil} /\ S \in SUBSET D
        /\ \A i \in S : Nexts(r)[i] \in S \union {Nil}
    BY <1>2, <1>8
  <2>2. n \in DOMAIN Starts(r)
    BY <1>1, <1>2
  <2>5. Linked(D, Nexts(r), Starts(r), Places(r))
    BY <1>3
  <2> HIDE DEF S, D
  <2>3. \A i \in D : Places(r)[i] = n => i \in S
    BY <2>1, <2>2, <2>5, Reached
  <2>4. Taken(r) = 0 .. n - 1
    BY <2>3, <1>1, <1>2 DEF Taken, S, D
  <2> QED
    BY <2>4, <1>6 DEF RefsSound
<1>9. r.free # Nil => r.free \notin Taken(r)
  BY <1>1, <1>2, <1>4 DEF Taken
<1> QED
  BY <1>4, <1>5, <1>7, <1>8, <1>9

\* Add puts the object into the first free node.
LEMMA AddedIs ==
  ASSUME NEW r, NEW n, RefsSound(r, n), r.free # Nil, NEW o \in Objects,
         \A i \in 0 .. n - 1 : r.node[i].obj # o
  PROVE  /\ RefsSound(Added(r, o), n)
         /\ DOMAIN Added(r, o).node = 0 .. n - 1
         /\ Taken(Added(r, o)) = Taken(r) \union {r.free}
         /\ Added(r, o).used = r.used + 1
         /\ r.free \in 0 .. n - 1 /\ r.free \notin Taken(r)
         /\ \A i \in 0 .. n - 1 :
              /\ Added(r, o).node[i].obj = IF i = r.free THEN o ELSE r.node[i].obj
              /\ Added(r, o).node[i].refs = r.node[i].refs
<1> DEFINE x == r.free
           b == Bucket(r, o)
           m == [r.node EXCEPT ![x] = [obj |-> o, refs |-> r.node[x].refs, next |-> r.bucket[b]]]
           k == [r.bucket EXCEPT ![b] = x]
           f == r.node[x].next
           u == Added(r, o)
<1>1. /\ Refs(r, n) /\ n \in Nat \ {0} /\ DOMAIN r.node = 0 .. n - 1
      /\ DOMAIN r.bucket = 0 .. n - 1
      /\ n \in 0 .. n /\ n \notin 0 .. n - 1 /\ SlotCount(r) = n
      /\ Lists(r) = 0 .. n /\ \A i \in 0 .. n - 1 : i \in 0 .. n
      /\ \A i \in 0 .. n - 1 : r.node[i] \in RefNode
      /\ b \in 0 .. n - 1
  BY RefsAre DEF RefsSound
<1>2. x \in 0 .. n - 1 /\ x \notin Taken(r) /\ IsFiniteSet(Taken(r))
  BY FreeIs
<1>3. r.node[x].obj = NoObject /\ o # NoObject
  BY <1>1, <1>2 DEF Taken
<1>4. /\ DOMAIN Nexts(r) = 0 .. n - 1 /\ DOMAIN Starts(r) = 0 .. n
      /\ DOMAIN Places(r) = 0 .. n - 1
      /\ \A i \in 0 .. n - 1 : Nexts(r)[i] = r.node[i].next
      /\ Starts(r)[n] = x
      /\ \A c \in 0 .. n - 1 : Starts(r)[c] = r.bucket[c]
      /\ \A i \in 0 .. n - 1 : r.node[i].obj = NoObject => Places(r)[i] = n
  BY <1>1, ListsAre
<1>5. Linked(0 .. n - 1, Nexts(r), Starts(r), Places(r))
  BY <1>1 DEF RefsSound, RefsLinked
<1>6. Starts(r)[b] \in (0 .. n - 1) \union {Nil}
  BY <1>1, <1>4, <1>5 DEF Linked, ListsTyped
<1>7. u = [node |-> m, bucket |-> k, free |-> f, used |-> r.used + 1]
  <2> DEFINE N == r.node
             B == r.bucket
             F == r.free
             U == r.used
  <2>1. r = [node |-> N, bucket |-> B, free |-> F, used |-> U]
    BY <1>1 DEF Refs
  <2>2. N[F] = [obj |-> N[F].obj, refs |-> N[F].refs, next |-> N[F].next] /\ F \in DOMAIN N
    BY <1>1, <1>2 DEF RefNode
  <2>3. u = [r EXCEPT !.node[F].obj = o, !.node[F].next = B[b], !.bucket[b] = F,
                      !.free = N[F].next, !.used = U + 1]
    BY DEF Added
  <2> HIDE DEF u, N, B, F, U, b
  <2>4. u = [node |-> [[N EXCEPT ![F].obj = o] EXCEPT ![F].next = B[b]],
             bucket |-> [B EXCEPT ![b] = F], free |-> N[F].next, used |-> U + 1]
    BY <2>1, <2>3
  <2>5. [[N EXCEPT ![F].obj = o] EXCEPT ![F].next = B[b]]
          = [N EXCEPT ![F] = [obj |-> o, refs |-> N[F].refs, next |-> B[b]]]
    <3> DEFINE q == N[F]
               e == B[b]
    <3>1. q = [obj |-> q.obj, refs |-> q.refs, next |-> q.next]
      BY <2>2
    <3> HIDE DEF q, e
    <3>2. [[q EXCEPT !.obj = o] EXCEPT !.next = e] = [obj |-> o, refs |-> q.refs, next |-> e]
      <4> DEFINE q1 == q.obj
                 q2 == q.refs
                 q3 == q.next
      <4>1. q = [obj |-> q1, refs |-> q2, next |-> q3]
        BY <3>1
      <4> HIDE DEF q1, q2, q3
      <4> DEFINE g == [q EXCEPT !.obj = o]
      <4>3. g = [obj |-> o, refs |-> q2, next |-> q3]
        BY <4>1
      <4> HIDE DEF g
      <4>4. [g EXCEPT !.next = e] = [obj |-> o, refs |-> q2, next |-> e]
        BY <4>3
      <4>2. [[q EXCEPT !.obj = o] EXCEPT !.next = e] = [obj |-> o, refs |-> q2, next |-> e]
        BY <4>4 DEF g
      <4> QED
        BY <4>2 DEF q2
    <3>3. [[N EXCEPT ![F].obj = o] EXCEPT ![F].next = e]
            = [N EXCEPT ![F] = [[q EXCEPT !.obj = o] EXCEPT !.next = e]]
      BY <2>2 DEF q
    <3> QED
      BY <3>2, <3>3 DEF q, e
  <2> QED
    BY <2>4, <2>5 DEF N, B, F, U
<1>8. /\ DOMAIN m = 0 .. n - 1 /\ m \in [0 .. n - 1 -> RefNode]
      /\ m[x].obj = o /\ m[x].refs = r.node[x].refs /\ m[x].next = r.bucket[b]
      /\ \A i \in 0 .. n - 1 : i # x => m[i] = r.node[i]
  <2>1. r.bucket[b] \in Int
    BY <1>1, <1>4, <1>6 DEF Nil
  <2>2. r.node \in [0 .. n - 1 -> RefNode]
    BY DEF RefsSound, Refs
  <2> HIDE DEF b
  <2> QED
    BY <2>1, <2>2, <1>1, <1>2 DEF RefNode
<1>9. /\ DOMAIN k = 0 .. n - 1 /\ k[b] = x
      /\ \A c \in 0 .. n - 1 : c # b => k[c] = r.bucket[c]
  BY <1>1
<1>10. u.node = m /\ u.bucket = k /\ u.free = f /\ u.used = r.used + 1
  BY <1>7
<1> HIDE DEF u, m, k
<1>11. Refs(u, n)
  BY <1>1, <1>7, <1>8, <1>9, <1>10 DEF Refs
<1>12. /\ SlotCount(u) = n /\ Lists(u) = 0 .. n /\ DOMAIN u.node = 0 .. n - 1
       /\ \A e : Bucket(u, e) = Bucket(r, e)
  BY <1>1, <1>11, RefsAre DEF Bucket
<1>13. /\ DOMAIN Nexts(u) = 0 .. n - 1 /\ DOMAIN Starts(u) = 0 .. n
       /\ \A i \in 0 .. n - 1 : Nexts(u)[i] = u.node[i].next
       /\ Starts(u)[n] = u.free
       /\ \A c \in 0 .. n - 1 : Starts(u)[c] = u.bucket[c]
  BY <1>11, ListsAre
<1> HIDE DEF b
<1>14. Nexts(u) = [Nexts(r) EXCEPT ![x] = Starts(r)[b]]
  <2>1. \A i \in 0 .. n - 1 : u.node[i].next = IF i = x THEN Starts(r)[b] ELSE Nexts(r)[i]
    BY <1>1, <1>2, <1>4, <1>8, <1>10
  <2>2. Nexts(u) = [i \in 0 .. n - 1 |-> u.node[i].next]
    BY <1>12 DEF Nexts
  <2>3. Nexts(r) = [i \in 0 .. n - 1 |-> Nexts(r)[i]]
    BY <1>1 DEF Nexts
  <2> QED
    BY <2>1, <2>2, <2>3, <1>4
<1>15. Starts(u) = [Starts(r) EXCEPT ![n] = Nexts(r)[x], ![b] = x]
  <2>1. \A c \in 0 .. n : Start(u, c) = IF c = n THEN f ELSE k[c]
    BY <1>10, <1>12 DEF Start
  <2>2. \A c \in 0 .. n : c # n => c \in 0 .. n - 1
    BY <1>1
  <2>3. \A c \in 0 .. n : Start(u, c) = IF c = b THEN x ELSE IF c = n THEN Nexts(r)[x] ELSE Starts(r)[c]
    BY <2>1, <2>2, <1>1, <1>2, <1>4, <1>9
  <2>4. Starts(u) = [c \in 0 .. n |-> Start(u, c)]
    BY <1>12 DEF Starts
  <2> DEFINE v == [Starts(r) EXCEPT ![n] = Nexts(r)[x], ![b] = x]
  <2>5. DOMAIN v = 0 .. n
        /\ \A c \in 0 .. n : v[c] = IF c = b THEN x ELSE IF c = n THEN Nexts(r)[x] ELSE Starts(r)[c]
    BY <1>1, <1>4
  <2>6. v = [c \in 0 .. n |-> v[c]]
    <3>1. v = [c \in DOMAIN Starts(r) |-> v[c]]
      OBVIOUS
    <3> QED
      BY <3>1, <1>4
  <2> HIDE DEF v
  <2>7. Starts(u) = v
    BY <2>3, <2>4, <2>5, <2>6
  <2> QED
    BY <2>7 DEF v
<1>16. Places(u) = [Places(r) EXCEPT ![x] = b]
  <2>1. \A i \in 0 .. n - 1 : u.node[i].obj = IF i = x THEN o ELSE r.node[i].obj
    BY <1>8, <1>10
  <2>2. Places(u) = [i \in 0 .. n - 1 |-> IF u.node[i].obj = NoObject THEN n ELSE Bucket(r, u.node[i].obj)]
    BY <1>12 DEF Places
  <2>3. Places(r) = [i \in 0 .. n - 1 |-> IF r.node[i].obj = NoObject THEN n ELSE Bucket(r, r.node[i].obj)]
    BY <1>1 DEF Places
  <2>4. \A i \in 0 .. n - 1 : Places(u)[i] = IF i = x THEN b ELSE Places(r)[i]
    BY <2>1, <2>2, <2>3, <1>3 DEF b
  <2>5. Places(u) = [i \in 0 .. n - 1 |-> Places(u)[i]] /\ Places(r) = [i \in 0 .. n - 1 |-> Places(r)[i]]
    BY <1>1, <1>12 DEF Places
  <2> HIDE DEF b
  <2> QED
    BY <2>4, <2>5, <1>4
<1>17. Places(r)[x] = n /\ Starts(r)[Places(r)[x]] = x /\ b \in DOMAIN Starts(r) /\ b # Places(r)[x]
  BY <1>1, <1>2, <1>3, <1>4
<1> HIDE DEF x
<1>18. Linked(0 .. n - 1, [Nexts(r) EXCEPT ![x] = Starts(r)[b]],
              [Starts(r) EXCEPT ![Places(r)[x]] = Nexts(r)[x], ![b] = x],
              [Places(r) EXCEPT ![x] = b])
  BY <1>2, <1>5, <1>17, FirstMoves
<1>19. RefsLinked(u)
  BY <1>12, <1>14, <1>15, <1>16, <1>17, <1>18 DEF RefsLinked
<1>20. Taken(u) = Taken(r) \union {x}
  BY <1>1, <1>2, <1>3, <1>8, <1>10, <1>12 DEF Taken
<1>21. OneNodeEach(u)
  <2> SUFFICES ASSUME NEW i \in Taken(u), NEW j \in Taken(u), u.node[i].obj = u.node[j].obj
               PROVE  i = j
    BY DEF OneNodeEach
  <2>1. i \in 0 .. n - 1 /\ j \in 0 .. n - 1
    BY <1>12 DEF Taken
  <2>2. CASE i # x /\ j # x
    BY <2>1, <2>2, <1>8, <1>10, <1>20 DEF RefsSound, OneNodeEach
  <2>3. CASE i = x /\ j # x
    BY <2>1, <2>3, <1>8, <1>10
  <2>4. CASE i # x /\ j = x
    BY <2>1, <2>4, <1>8, <1>10
  <2> QED
    BY <2>2, <2>3, <2>4
<1>22. u.used = Cardinality(Taken(u))
  <2>1. Cardinality(Taken(r) \union {x}) = Cardinality(Taken(r)) + 1
    BY <1>2, FS_AddElement DEF x
  <2> QED
    BY <2>1, <1>10, <1>20 DEF RefsSound
<1>23. RefsSound(u, n)
  BY <1>11, <1>19, <1>21, <1>22 DEF RefsSound
<1>24. \A i \in 0 .. n - 1 : /\ u.node[i].obj = IF i = x THEN o ELSE r.node[i].obj
                            /\ u.node[i].refs = r.node[i].refs
  BY <1>8, <1>10
<1> QED
  BY <1>2, <1>10, <1>12, <1>20, <1>23, <1>24 DEF u, x

\* The node that goes becomes the first free one.
LEMMA UnlinkedIs ==
  ASSUME NEW r, NEW n, RefsSound(r, n), NEW o \in Objects, Get(r, o) # Nil
  PROVE  /\ RefsSound(Unlinked(r, o), n)
         /\ Get(r, o) \in 0 .. n - 1 /\ r.node[Get(r, o)].obj = o
         /\ \A i \in 0 .. n - 1 :
              /\ Unlinked(r, o).node[i].obj = IF i = Get(r, o) THEN NoObject ELSE r.node[i].obj
              /\ Unlinked(r, o).node[i].refs = IF i = Get(r, o) THEN 0 ELSE r.node[i].refs
<1> DEFINE x == Get(r, o)
           b == Bucket(r, o)
           p == CHOOSE j \in DOMAIN r.node : r.node[j].next = x
           freed == [obj |-> NoObject, refs |-> 0, next |-> r.free]
           first == r.bucket[b] = x
           u == Unlinked(r, o)
           N == u.node
           K == u.bucket
<1>1. /\ Refs(r, n) /\ n \in Nat \ {0} /\ DOMAIN r.node = 0 .. n - 1
      /\ DOMAIN r.bucket = 0 .. n - 1 /\ Nil \notin 0 .. n - 1
      /\ n \in 0 .. n /\ n \notin 0 .. n - 1 /\ SlotCount(r) = n
      /\ Lists(r) = 0 .. n /\ \A i \in 0 .. n - 1 : i \in 0 .. n
      /\ \A i \in 0 .. n - 1 : r.node[i] \in RefNode
      /\ b \in 0 .. n - 1
  BY RefsAre DEF RefsSound
<1>2. x \in 0 .. n - 1 /\ r.node[x].obj = o
  BY <1>1, GetIs DEF RefsSound
<1>3. x \in Taken(r) /\ o # NoObject /\ IsFiniteSet(Taken(r))
  BY <1>1, <1>2, FreeIs DEF Taken
<1>4. /\ DOMAIN Nexts(r) = 0 .. n - 1 /\ DOMAIN Starts(r) = 0 .. n
      /\ DOMAIN Places(r) = 0 .. n - 1
      /\ \A i \in 0 .. n - 1 : Nexts(r)[i] = r.node[i].next
      /\ Starts(r)[n] = r.free
      /\ \A c \in 0 .. n - 1 : Starts(r)[c] = r.bucket[c]
      /\ \A i \in 0 .. n - 1 : r.node[i].obj # NoObject => Places(r)[i] = Bucket(r, r.node[i].obj)
  BY <1>1, ListsAre
<1>5. Linked(0 .. n - 1, Nexts(r), Starts(r), Places(r))
  BY <1>1 DEF RefsSound, RefsLinked
<1>6. Starts(r)[n] \in (0 .. n - 1) \union {Nil} /\ Places(r)[x] = b /\ n # b
  BY <1>1, <1>2, <1>3, <1>4, <1>5 DEF Linked, ListsTyped
<1>7. ~ first => p \in 0 .. n - 1 /\ r.node[p].next = x
  <2> SUFFICES ASSUME ~ first PROVE \E j \in 0 .. n - 1 : r.node[j].next = x
    BY <1>1
  <2>1. \E j \in 0 .. n - 1 : Nexts(r)[j] = x
    BY <1>1, <1>2, <1>4, <1>5, <1>6 DEF Linked, NoneLost
  <2> QED
    BY <2>1, <1>4
<1>8. ~ first => p # x
  <2> SUFFICES ASSUME ~ first, p = x PROVE FALSE
    OBVIOUS
  <2>1. {x} \in SUBSET (0 .. n - 1) /\ {x} # {}
    BY <1>2
  <2>2. Nexts(r)[x] # x
    BY <2>1, <1>5 DEF Linked, AllEnd
  <2> HIDE DEF p, x, first
  <2> QED
    BY <2>2, <1>2, <1>4, <1>7
<1> HIDE DEF x, p, b
<1>9. u = [node   |-> IF first THEN [r.node EXCEPT ![x] = freed]
                      ELSE [[r.node EXCEPT ![p].next = r.node[x].next] EXCEPT ![x] = freed],
           bucket |-> IF first THEN [r.bucket EXCEPT ![b] = r.node[x].next] ELSE r.bucket,
           free   |-> x,
           used   |-> r.used - 1]
  <2> DEFINE A == r.node
             B == r.bucket
             F == r.free
             U == r.used
  <2>1. r = [node |-> A, bucket |-> B, free |-> F, used |-> U]
    BY <1>1 DEF Refs
  <2>2. CASE first
    <3>1. u = [r EXCEPT !.bucket[b] = A[x].next, !.node[x] = freed, !.free = x, !.used = U - 1]
      BY <2>2 DEF Unlinked, x, b
    <3> HIDE DEF u, freed, A, B, F, U, first
    <3>2. u = [node |-> [A EXCEPT ![x] = freed], bucket |-> [B EXCEPT ![b] = A[x].next],
               free |-> x, used |-> U - 1]
      BY <2>1, <3>1
    <3> QED
      BY <2>2, <3>2 DEF A, B, F, U
  <2>3. CASE ~ first
    <3>1. u = [r EXCEPT !.node[p].next = A[x].next, !.node[x] = freed, !.free = x, !.used = U - 1]
      BY <2>3 DEF Unlinked, x, b, p
    <3> HIDE DEF u, freed, A, B, F, U, first
    <3>2. u = [node |-> [[A EXCEPT ![p].next = A[x].next] EXCEPT ![x] = freed], bucket |-> B,
               free |-> x, used |-> U - 1]
      BY <2>1, <3>1
    <3> QED
      BY <2>3, <3>2 DEF A, B, F, U
  <2> HIDE DEF first
  <2> QED
    BY <2>2, <2>3
<1> HIDE DEF u
<1>10. /\ DOMAIN N = 0 .. n - 1
       /\ N[x] = freed
       /\ \A i \in 0 .. n - 1 : i # x /\ (first \/ i # p) => N[i] = r.node[i]
       /\ ~ first => N[p] = [obj |-> r.node[p].obj, refs |-> r.node[p].refs, next |-> r.node[x].next]
       /\ DOMAIN K = 0 .. n - 1
       /\ \A c \in 0 .. n - 1 : K[c] = IF first /\ c = b THEN r.node[x].next ELSE r.bucket[c]
       /\ u.free = x /\ u.used = r.used - 1
       /\ u = [node |-> N, bucket |-> K, free |-> x, used |-> r.used - 1]
  <2> HIDE DEF freed
  <2>1. CASE first
    <3>1. N = [r.node EXCEPT ![x] = freed] /\ K = [r.bucket EXCEPT ![b] = r.node[x].next]
          /\ u.free = x /\ u.used = r.used - 1
          /\ u = [node |-> N, bucket |-> K, free |-> x, used |-> r.used - 1]
      BY <1>9, <2>1
    <3> HIDE DEF N, K
    <3> QED
      BY <2>1, <3>1, <1>1, <1>2
  <2>2. CASE ~ first
    <3>1. N = [[r.node EXCEPT ![p].next = r.node[x].next] EXCEPT ![x] = freed] /\ K = r.bucket
          /\ u.free = x /\ u.used = r.used - 1
          /\ u = [node |-> N, bucket |-> K, free |-> x, used |-> r.used - 1]
      BY <1>9, <2>2
    <3>2. [r.node[p] EXCEPT !.next = r.node[x].next]
            = [obj |-> r.node[p].obj, refs |-> r.node[p].refs, next |-> r.node[x].next]
      <4>1. r.node[p] \in RefNode
        BY <1>1, <1>7, <2>2
      <4> QED
        BY ONLY <4>1 DEF RefNode
    <3> HIDE DEF N, K, first
    <3>3. N[p] = [r.node[p] EXCEPT !.next = r.node[x].next]
      BY <2>2, <3>1, <1>1, <1>2, <1>7, <1>8
    <3>4. /\ DOMAIN N = 0 .. n - 1 /\ N[x] = freed
          /\ \A i \in 0 .. n - 1 : i # x /\ i # p => N[i] = r.node[i]
      BY <3>1, <1>1, <1>2
    <3> QED
      BY <2>2, <3>1, <3>2, <3>3, <3>4, <1>1
  <2> QED
    BY <2>1, <2>2
<1> HIDE DEF N, K
<1>11. \A i \in 0 .. n - 1 :
         /\ N[i].obj = IF i = x THEN NoObject ELSE r.node[i].obj
         /\ N[i].refs = IF i = x THEN 0 ELSE r.node[i].refs
         /\ N[i].next = IF i = x THEN r.free
                        ELSE IF ~ first /\ i = p THEN r.node[x].next ELSE r.node[i].next
  BY <1>7, <1>8, <1>10
<1>12. N \in [0 .. n - 1 -> RefNode]
  <2>1. \A i \in 0 .. n - 1 : N[i] \in RefNode
    <3> SUFFICES ASSUME NEW i \in 0 .. n - 1 PROVE N[i] \in RefNode
      OBVIOUS
    <3>1. CASE i = x
      <4>1. r.free \in Int
        BY <1>1, <1>4, <1>6 DEF Nil
      <4> QED
        BY <4>1, <3>1, <1>10 DEF RefNode
    <3>2. CASE i # x /\ ~ first /\ i = p
      <4>1. r.node[p] \in RefNode /\ r.node[x] \in RefNode
        BY <1>1, <1>2, <1>7, <3>2
      <4> QED
        BY <4>1, <3>2, <1>10 DEF RefNode
    <3>3. CASE i # x /\ (first \/ i # p)
      BY <3>3, <1>1, <1>10
    <3> HIDE DEF first
    <3> QED
      BY <3>1, <3>2, <3>3
  <2>2. N = [i \in DOMAIN N |-> N[i]]
    BY <1>9 DEF N
  <2> QED
    BY <2>1, <2>2, <1>10
<1>13. Refs(u, n)
  <2>1. u.node = N /\ u.bucket = K
    BY DEF N, K
  <2> QED
    BY <2>1, <1>1, <1>10, <1>12 DEF Refs
<1> HIDE DEF first
<1>14. /\ SlotCount(u) = n /\ Lists(u) = 0 .. n /\ DOMAIN u.node = 0 .. n - 1
       /\ \A e : Bucket(u, e) = Bucket(r, e)
  BY <1>1, <1>13, RefsAre DEF Bucket
<1>15. /\ \A i \in 0 .. n - 1 : Nexts(u)[i] = N[i].next
       /\ Nexts(u) = [i \in 0 .. n - 1 |-> Nexts(u)[i]]
       /\ Starts(u)[n] = x
       /\ \A c \in 0 .. n - 1 : Starts(u)[c] = K[c]
       /\ Starts(u) = [c \in 0 .. n |-> Starts(u)[c]]
       /\ Places(u) = [i \in 0 .. n - 1 |-> Places(u)[i]]
       /\ \A i \in 0 .. n - 1 : Places(u)[i] = IF N[i].obj = NoObject THEN n ELSE Bucket(r, N[i].obj)
  BY <1>1, <1>10, <1>14 DEF Nexts, Starts, Start, Places, N, K
<1>16. /\ Places(r) = [i \in 0 .. n - 1 |-> Places(r)[i]]
       /\ \A i \in 0 .. n - 1 : Places(r)[i] = IF r.node[i].obj = NoObject THEN n ELSE Bucket(r, r.node[i].obj)
       /\ \A c \in 0 .. n : c # n => c \in 0 .. n - 1
  BY <1>1 DEF Places
<1>17. Places(u) = [Places(r) EXCEPT ![x] = n]
  <2>1. ASSUME NEW i \in 0 .. n - 1 PROVE Places(u)[i] = IF i = x THEN n ELSE Places(r)[i]
    <3>1. Places(u)[i] = IF N[i].obj = NoObject THEN n ELSE Bucket(r, N[i].obj)
      BY <1>15
    <3>2. Places(r)[i] = IF r.node[i].obj = NoObject THEN n ELSE Bucket(r, r.node[i].obj)
      BY <1>16
    <3>3. N[i].obj = IF i = x THEN NoObject ELSE r.node[i].obj
      BY <1>11
    <3> QED
      BY ONLY <3>1, <3>2, <3>3
  <2> QED
    BY <2>1, <1>4, <1>15, <1>16
<1>18. RefsLinked(u)
  <2>1. CASE first
    <3> DEFINE v == [Starts(r) EXCEPT ![b] = Nexts(r)[x], ![n] = x]
               w == [Nexts(r) EXCEPT ![x] = Starts(r)[n]]
    <3>1. DOMAIN v = 0 .. n /\ v = [c \in DOMAIN Starts(r) |-> v[c]]
          /\ DOMAIN w = 0 .. n - 1 /\ w = [i \in DOMAIN Nexts(r) |-> w[i]]
      BY <1>4
    <3>2. \A c \in 0 .. n : v[c] = IF c = n THEN x ELSE IF c = b THEN Nexts(r)[x] ELSE Starts(r)[c]
      BY <1>1, <1>4
    <3>3. \A i \in 0 .. n - 1 : w[i] = IF i = x THEN Starts(r)[n] ELSE Nexts(r)[i]
      BY <1>4
    <3>4. Starts(r)[Places(r)[x]] = x /\ n \in DOMAIN Starts(r) /\ n # Places(r)[x]
      BY <2>1, <1>1, <1>4, <1>6 DEF first
    <3>5. Linked(0 .. n - 1, [Nexts(r) EXCEPT ![x] = Starts(r)[n]],
                 [Starts(r) EXCEPT ![Places(r)[x]] = Nexts(r)[x], ![n] = x],
                 [Places(r) EXCEPT ![x] = n])
      BY <3>4, <1>2, <1>5, FirstMoves
    <3>6. Linked(0 .. n - 1, w, v, [Places(r) EXCEPT ![x] = n])
      BY <3>5, <1>6
    <3> HIDE DEF v, w
    <3>7. Starts(u) = v
      <4>1. \A c \in 0 .. n : Starts(u)[c] = v[c]
        <5> SUFFICES ASSUME NEW c \in 0 .. n PROVE Starts(u)[c] = v[c]
          OBVIOUS
        <5>1. v[c] = IF c = n THEN x ELSE IF c = b THEN Nexts(r)[x] ELSE Starts(r)[c]
          BY <3>2
        <5>2. CASE c = n
          BY <5>1, <5>2, <1>15
        <5>3. CASE c # n
          <6>1. c \in 0 .. n - 1
            BY <5>3, <1>16
          <6>2. Starts(u)[c] = IF c = b THEN r.node[x].next ELSE r.bucket[c]
            BY <2>1, <6>1, <1>10, <1>15
          <6>3. Nexts(r)[x] = r.node[x].next /\ Starts(r)[c] = r.bucket[c]
            BY <5>3, <6>1, <1>2, <1>4
          <6> QED
            BY ONLY <5>1, <5>3, <6>2, <6>3
        <5> QED
          BY <5>2, <5>3
      <4>2. v = [c \in 0 .. n |-> v[c]]
        BY <3>1, <1>4
      <4> QED
        BY <4>1, <4>2, <1>15
    <3>8. Nexts(u) = w
      <4>1. \A i \in 0 .. n - 1 : Nexts(u)[i] = w[i]
        BY <2>1, <3>3, <1>2, <1>4, <1>11, <1>15
      <4>2. w = [i \in 0 .. n - 1 |-> w[i]]
        BY <3>1, <1>4
      <4> QED
        BY <4>1, <4>2, <1>15
    <3> QED
      BY <3>6, <3>7, <3>8, <1>14, <1>17 DEF RefsLinked
  <2>2. CASE ~ first
    <3> DEFINE v == [Starts(r) EXCEPT ![n] = x]
               w == [Nexts(r) EXCEPT ![p] = Nexts(r)[x], ![x] = Starts(r)[n]]
    <3>1. DOMAIN v = 0 .. n /\ v = [c \in DOMAIN Starts(r) |-> v[c]]
          /\ DOMAIN w = 0 .. n - 1 /\ w = [i \in DOMAIN Nexts(r) |-> w[i]]
      BY <1>4
    <3>2. \A c \in 0 .. n : v[c] = IF c = n THEN x ELSE Starts(r)[c]
      BY <1>1, <1>4
    <3>3. \A i \in 0 .. n - 1 : w[i] = IF i = x THEN Starts(r)[n]
                                      ELSE IF i = p THEN Nexts(r)[x] ELSE Nexts(r)[i]
      BY <1>4
    <3>4. n \in DOMAIN Starts(r) /\ n # Places(r)[x] /\ p \in 0 .. n - 1 /\ Nexts(r)[p] = x
      BY <2>2, <1>1, <1>4, <1>6, <1>7
    <3>6. Linked(0 .. n - 1, w, v, [Places(r) EXCEPT ![x] = n])
      BY <3>4, <1>2, <1>5, LaterMoves
    <3> HIDE DEF v, w
    <3>7. Starts(u) = v
      <4>1. \A c \in 0 .. n : Starts(u)[c] = v[c]
        BY <2>2, <3>2, <1>1, <1>2, <1>4, <1>10, <1>15, <1>16
      <4>2. v = [c \in 0 .. n |-> v[c]]
        BY <3>1, <1>4
      <4> QED
        BY <4>1, <4>2, <1>15
    <3>8. Nexts(u) = w
      <4>1. \A i \in 0 .. n - 1 : Nexts(u)[i] = w[i]
        BY <2>2, <3>3, <1>2, <1>4, <1>11, <1>15
      <4>2. w = [i \in 0 .. n - 1 |-> w[i]]
        BY <3>1, <1>4
      <4> QED
        BY <4>1, <4>2, <1>15
    <3> QED
      BY <3>6, <3>7, <3>8, <1>14, <1>17 DEF RefsLinked
  <2> QED
    BY <2>1, <2>2
<1>19. Taken(u) = Taken(r) \ {x}
  BY <1>1, <1>11, <1>14 DEF Taken, N
<1>20. OneNodeEach(u)
  <2>1. \A i \in Taken(u) : i \in Taken(r) /\ i \in 0 .. n - 1 /\ u.node[i].obj = r.node[i].obj
    BY <1>1, <1>11, <1>19 DEF N, Taken
  <2> QED
    BY <2>1 DEF OneNodeEach, RefsSound
<1>21. u.used = Cardinality(Taken(u))
  <2>1. Cardinality(Taken(r) \ {x}) = Cardinality(Taken(r)) - 1
    BY <1>3, FS_RemoveElement
  <2> QED
    BY <2>1, <1>10, <1>19 DEF RefsSound
<1>22. RefsSound(u, n)
  BY <1>13, <1>18, <1>20, <1>21 DEF RefsSound
<1> QED
  BY <1>2, <1>11, <1>22 DEF u, x, N

\* A new table: every node is on the free list.
LEMMA AllocRefsAre ==
  ASSUME NEW n \in Nat \ {0}
  PROVE  /\ RefsSound(AllocRefs(n), n) /\ Taken(AllocRefs(n)) = {}
         /\ AllocRefs(n).used = 0
         /\ \A i \in 0 .. n - 1 : AllocRefs(n).node[i].obj = NoObject
                                 /\ AllocRefs(n).node[i].refs = 0
<1> DEFINE u == AllocRefs(n)
           a == u.node
           D == 0 .. n - 1
           next == Nexts(u)
<1>1. /\ a = [i \in D |-> [obj |-> NoObject, refs |-> 0,
                          next |-> IF i = n - 1 THEN Nil ELSE i + 1]]
      /\ u.bucket = [i \in D |-> Nil] /\ u.free = 0 /\ u.used = 0
      /\ u = [node |-> a, bucket |-> u.bucket, free |-> u.free, used |-> u.used]
  BY DEF AllocRefs
<1> HIDE DEF u
<1>2. /\ DOMAIN a = D /\ 0 \in D /\ n - 1 \in D
      /\ \A i \in D : /\ a[i].obj = NoObject /\ a[i].refs = 0 /\ a[i] \in RefNode
                      /\ a[i].next = IF i = n - 1 THEN Nil ELSE i + 1
  BY <1>1 DEF RefNode, Nil
<1>3. Refs(u, n)
  BY <1>1, <1>2 DEF Refs
<1>4. /\ SlotCount(u) = n /\ Nil \notin D /\ n \notin D /\ Nil # n /\ Lists(u) = 0 .. n
      /\ n \in 0 .. n /\ \A i \in D : i \in 0 .. n
      /\ \A c \in 0 .. n : c = n \/ c \in D
  BY <1>3, RefsAre
<1>5. Taken(u) = {} /\ Cardinality(Taken(u)) = 0
  BY <1>2, FS_EmptySet DEF Taken
<1>6. /\ DOMAIN next = D /\ DOMAIN Starts(u) = 0 .. n /\ DOMAIN Places(u) = D
      /\ \A i \in D : next[i] = IF i = n - 1 THEN Nil ELSE i + 1
      /\ \A c \in 0 .. n : Starts(u)[c] = IF c = n THEN 0 ELSE Nil
      /\ \A i \in D : Places(u)[i] = n
  BY <1>1, <1>2, <1>4 DEF Nexts, Starts, Start, Places
<1>7. next = [i \in D |-> next[i]] /\ Starts(u) = [c \in 0 .. n |-> Starts(u)[c]]
      /\ Places(u) = [i \in D |-> Places(u)[i]]
  BY <1>2, <1>4 DEF Nexts, Starts, Places
<1> HIDE DEF next
<1>8. ListsTyped(D, next, Starts(u), Places(u))
  <2>1. \A i \in D : next[i] \in D \union {Nil}
    BY <1>6
  <2>2. \A c \in 0 .. n : Starts(u)[c] \in D \union {Nil}
    BY <1>2, <1>6
  <2>3. \A i \in D : Places(u)[i] \in 0 .. n
    BY <1>4, <1>6
  <2> HIDE DEF D
  <2> QED
    BY <2>1, <2>2, <2>3, <1>4, <1>6, <1>7 DEF ListsTyped
<1>9. OnePrev(D, next)
  BY <1>6 DEF OnePrev
<1>10. AllEnd(D, next)
  <2> SUFFICES ASSUME NEW S \in SUBSET D, \A i \in S : next[i] \in S PROVE S = {}
    BY DEF AllEnd
  <2> DEFINE T == {m \in 0 .. n - 1 : n - 1 - m \notin S}
  <2>1. 0 \in T
    <3>1. next[n - 1] = Nil /\ Nil \notin S
      BY <1>2, <1>4, <1>6
    <3>2. n - 1 \notin S
      BY <3>1
    <3> QED
      BY <3>2
  <2>2. ASSUME NEW m \in 0 .. (n - 1) - 1, m \in T PROVE m + 1 \in T
    <3>1. n - 1 - (m + 1) \in D /\ n - 1 - (m + 1) # n - 1 /\ n - 1 - (m + 1) + 1 = n - 1 - m
          /\ m + 1 \in 0 .. n - 1
      OBVIOUS
    <3>2. next[n - 1 - (m + 1)] = n - 1 - m
      BY <3>1, <1>6
    <3> QED
      BY <3>1, <3>2, <2>2
  <2> HIDE DEF T
  <2>3. 0 .. n - 1 \subseteq T
    <3>1. n - 1 \in Nat
      OBVIOUS
    <3> QED
      BY <3>1, <2>1, <2>2, Induction
  <2>4. ASSUME NEW i \in S PROVE FALSE
    <3>1. n - 1 - i \in 0 .. n - 1 /\ n - 1 - (n - 1 - i) = i
      OBVIOUS
    <3> QED
      BY <3>1, <2>3 DEF T
  <2> QED
    BY <2>4
<1>11. AllBegin(D, next)
  <2> SUFFICES ASSUME NEW S \in SUBSET D, \A i \in S : \E j \in S : next[j] = i PROVE S = {}
    BY DEF AllBegin
  <2> DEFINE T == {m \in 0 .. n - 1 : m \notin S}
  <2>1. 0 \in T
    <3> SUFFICES ASSUME 0 \in S PROVE FALSE
      BY <1>2
    <3>1. PICK j \in S : next[j] = 0
      OBVIOUS
    <3>2. j \in D /\ (next[j] = -1 \/ next[j] = j + 1)
      BY <1>6 DEF Nil
    <3> QED
      BY <3>1, <3>2
  <2>2. ASSUME NEW m \in 0 .. (n - 1) - 1, m \in T PROVE m + 1 \in T
    <3> SUFFICES ASSUME m + 1 \in S PROVE FALSE
      BY <2>2
    <3>1. PICK j \in S : next[j] = m + 1
      OBVIOUS
    <3>2. j \in D /\ (next[j] = -1 \/ next[j] = j + 1)
      BY <1>6 DEF Nil
    <3>3. j = m
      BY <3>1, <3>2
    <3> QED
      BY <3>3, <2>2
  <2> HIDE DEF T
  <2>3. 0 .. n - 1 \subseteq T
    <3>1. n - 1 \in Nat
      OBVIOUS
    <3> QED
      BY <3>1, <2>1, <2>2, Induction
  <2> QED
    BY <2>3 DEF T
<1>12. /\ SamePlace(D, next, Places(u)) /\ StartsPlaced(Starts(u), Places(u))
       /\ StartsFirst(D, next, Starts(u))
  BY <1>2, <1>4, <1>6 DEF SamePlace, StartsPlaced, StartsFirst, Nil
<1>13. NoneLost(D, next, Starts(u), Places(u))
  <2> SUFFICES ASSUME NEW i \in D, i # 0 PROVE \E j \in D : next[j] = i
    BY <1>4, <1>6 DEF NoneLost
  <2>1. i - 1 \in D /\ i - 1 # n - 1 /\ i - 1 + 1 = i
    OBVIOUS
  <2> QED
    BY <2>1, <1>6
<1>14. RefsLinked(u)
  BY <1>2, <1>8, <1>9, <1>10, <1>11, <1>12, <1>13 DEF RefsLinked, Linked, next
<1>15. RefsSound(u, n)
  BY <1>1, <1>3, <1>5, <1>14 DEF RefsSound, OneNodeEach
<1> QED
  BY <1>1, <1>2, <1>5, <1>15 DEF u

\* What one step of the loop of Resize does with the node before i.
Readded(a, i, u) == IF a[i - 1].obj = NoObject THEN u ELSE AddedWith(u, a[i - 1])

\* f is that loop.
Readds(f, r, m, n) ==
  f = [i \in 0 .. m |-> IF i = 0 THEN AllocRefs(n) ELSE Readded(r.node, i, f[i - 1])]

\* The loop of Resize is defined.
LEMMA ResizedBy ==
  ASSUME NEW r, NEW m \in Nat, SlotCount(r) = m, NEW n
  PROVE  \E f : Readds(f, r, m, n) /\ Resized(r, n) = f[m]
<1> DEFINE z == AllocRefs(n)
           a == r.node
           Is(l, f) == f = [i \in 0 .. l |-> IF i = 0 THEN z ELSE Readded(a, i, f[i - 1])]
           S == {l \in 0 .. m : \E f : Is(l, f)}
           into == CHOOSE f : Is(m, f)
<1>1. Resized(r, n) = into[m]
  BY DEF Resized, Readded
<1> HIDE DEF z, a
<1>2. 0 \in S
  <2> DEFINE g == [i \in 0 .. 0 |-> z]
  <2>1. Is(0, g)
    OBVIOUS
  <2> HIDE DEF Is, g
  <2> QED
    BY <2>1
<1>3. ASSUME NEW l \in 0 .. m - 1, l \in S PROVE l + 1 \in S
  <2>1. PICK f : Is(l, f)
    BY <1>3
  <2> DEFINE g == [i \in 0 .. l + 1 |-> IF i <= l THEN f[i] ELSE Readded(a, l + 1, f[l])]
  <2>2. ASSUME NEW i \in 0 .. l + 1
        PROVE  g[i] = IF i = 0 THEN z ELSE Readded(a, i, g[i - 1])
    <3> HIDE DEF Is
    <3>1. CASE i <= l
      BY <2>1, <3>1 DEF Is
    <3>2. CASE i = l + 1
      BY <3>2
    <3> QED
      BY <3>1, <3>2
  <2>3. Is(l + 1, g)
    BY <2>2
  <2>4. l + 1 \in 0 .. m
    OBVIOUS
  <2> HIDE DEF Is, g
  <2> QED
    BY <2>3, <2>4
<1> HIDE DEF S, Is
<1>4. 0 .. m \subseteq S
  BY <1>2, <1>3, Induction
<1>5. \E f : Is(m, f)
  BY <1>4 DEF S
<1>6. Is(m, into)
  BY <1>5
<1> HIDE DEF into
<1> QED
  BY <1>1, <1>6 DEF Is, z, a, Readds

\* Counts of a node that is added, or counts differently.
LEMMA AddedCounts ==
  ASSUME NEW r, NEW n, RefsSound(r, n), r.free # Nil, NEW o \in Objects,
         \A i \in 0 .. n - 1 : r.node[i].obj # o,
         NEW c \in [Objects -> Nat], Counted(r, c)
  PROVE  Counted(Added(r, o), c)
<1> DEFINE u == Added(r, o)
           x == r.free
<1>1. /\ DOMAIN u.node = 0 .. n - 1 /\ x \in 0 .. n - 1 /\ x \notin Taken(r)
      /\ \A i \in 0 .. n - 1 : /\ u.node[i].obj = IF i = x THEN o ELSE r.node[i].obj
                              /\ u.node[i].refs = r.node[i].refs
  BY AddedIs
<1>2. DOMAIN r.node = 0 .. n - 1
  BY RefsAre DEF RefsSound
<1> HIDE DEF u, x
<1>3. r.node[x].obj = NoObject /\ c[o] = 0 /\ o # NoObject
  BY <1>1, <1>2 DEF Taken, Counted
<1>4. ASSUME NEW i \in DOMAIN u.node
      PROVE  u.node[i].refs = IF u.node[i].obj = NoObject THEN 0 ELSE c[u.node[i].obj]
  BY <1>1, <1>2, <1>3 DEF Counted
<1>5. ASSUME NEW e \in Objects, c[e] # 0
      PROVE  \E i \in DOMAIN u.node : u.node[i].obj = e
  <2>1. PICK i \in 0 .. n - 1 : r.node[i].obj = e
    BY <1>2, <1>5 DEF Counted
  <2>2. i # x
    BY <2>1, <1>3
  <2> QED
    BY <2>1, <2>2, <1>1
<1> QED
  BY <1>4, <1>5 DEF Counted, u

\* what has been added back when the nodes before i are done
Upto(a, c, i) ==
  [o \in Objects |-> IF \E j \in 0 .. i - 1 : a[j].obj = o THEN c[o] ELSE 0]

Readd(r, n, m, i, u, c) ==
  /\ RefsSound(u, m) /\ u.used \in Nat /\ u.used <= i
  /\ Counted(u, Upto(r.node, c, i)) /\ Positive(u)

\* One node of the loop of Resize.
LEMMA ReaddedIs ==
  ASSUME NEW r, NEW n, RefsSound(r, n), NEW c \in [Objects -> Nat], Counted(r, c), Positive(r),
         NEW m, m \in Nat, n <= m, NEW i \in 0 .. n - 1, NEW u, Readd(r, n, m, i, u, c)
  PROVE  Readd(r, n, m, i + 1, Readded(r.node, i + 1, u), c)
<1> DEFINE d == r.node[i]
           o == d.obj
           C == Upto(r.node, c, i)
           E == Upto(r.node, c, i + 1)
           w == Readded(r.node, i + 1, u)
<1>1. /\ n \in Nat \ {0} /\ DOMAIN r.node = 0 .. n - 1 /\ OneNodeEach(r)
      /\ d \in RefNode /\ d.refs \in Nat /\ o \in Objects \union {NoObject}
  BY RefsAre DEF RefsSound, RefNode
<1>2. i + 1 - 1 = i /\ \A j \in 0 .. i : j \in 0 .. i - 1 \/ j = i
  OBVIOUS
<1>3. /\ RefsSound(u, m) /\ u.used \in Nat /\ u.used <= i
      /\ Counted(u, C) /\ Positive(u)
  BY DEF Readd
<1>4. C \in [Objects -> Nat] /\ E \in [Objects -> Nat]
  BY DEF Upto
<1>5. \A e \in Objects : C[e] = IF \E j \in 0 .. i - 1 : r.node[j].obj = e THEN c[e] ELSE 0
  BY DEF Upto
<1>6. \A e \in Objects : E[e] = IF \E j \in 0 .. i : r.node[j].obj = e THEN c[e] ELSE 0
  BY <1>2 DEF Upto
<1> HIDE DEF C, E
<1>7. CASE o = NoObject
  <2>1. w = u
    BY <1>2, <1>7 DEF Readded
  <2>2. \A e \in Objects : E[e] = C[e]
    <3> SUFFICES ASSUME NEW e \in Objects PROVE E[e] = C[e]
      OBVIOUS
    <3>1. (\E j \in 0 .. i : r.node[j].obj = e) <=> (\E j \in 0 .. i - 1 : r.node[j].obj = e)
      BY <1>2, <1>7
    <3> QED
      BY <3>1, <1>5, <1>6
  <2>3. E = C
    BY <2>2, <1>4
  <2> QED
    BY <2>1, <2>3, <1>3 DEF Readd, E, C
<1>8. CASE o # NoObject
  <2> DEFINE v == Added(u, o)
             x == u.free
  <2>1. w = Recounted(v, x, d.refs)
    <3>1. w = AddedWith(u, d)
      BY <1>2, <1>8 DEF Readded
    <3> QED
      BY <3>1 DEF AddedWith, Recounted
  <2>2. o \in Objects /\ i \in Taken(r) /\ d.refs = c[o] /\ d.refs # 0
    BY <1>1, <1>8 DEF Taken, Counted, Positive
  <2>3. \A j \in 0 .. i - 1 : r.node[j].obj # o
    <3> SUFFICES ASSUME NEW j \in 0 .. i - 1, r.node[j].obj = o PROVE FALSE
      OBVIOUS
    <3>1. j \in Taken(r) /\ j # i
      BY <1>1, <1>8 DEF Taken
    <3> QED
      BY <3>1, <2>2, <1>1 DEF OneNodeEach
  <2>4. C[o] = 0 /\ E[o] = c[o]
    BY <2>2, <2>3, <1>5, <1>6
  <2>5. \A e \in Objects : e # o => E[e] = C[e]
    <3> SUFFICES ASSUME NEW e \in Objects, e # o PROVE E[e] = C[e]
      OBVIOUS
    <3>1. (\E j \in 0 .. i : r.node[j].obj = e) <=> (\E j \in 0 .. i - 1 : r.node[j].obj = e)
      BY <1>2
    <3> QED
      BY <3>1, <1>5, <1>6
  <2>6. DOMAIN u.node = 0 .. m - 1 /\ m \in Nat \ {0}
        /\ \A j \in 0 .. m - 1 : u.node[j].obj \in Objects \union {NoObject}
    BY <1>3, RefsAre DEF RefsSound
  <2>7. \A j \in 0 .. m - 1 : u.node[j].obj # o
    <3> SUFFICES ASSUME NEW j \in 0 .. m - 1, u.node[j].obj = o PROVE FALSE
      OBVIOUS
    <3> HIDE DEF o
    <3>1. j \in DOMAIN u.node /\ u.node[j].obj # NoObject
      BY <1>8, <2>6
    <3>2. u.node[j].refs = C[o]
      BY <3>1, <1>3 DEF Counted
    <3>3. j \in Taken(u)
      BY <3>1 DEF Taken
    <3> QED
      BY <3>2, <3>3, <2>4, <1>3 DEF Positive
  <2>8. x # Nil
    <3>1. u.used # m
      BY <1>1, <1>3
    <3> QED
      BY <3>1, <1>3, FreeIs
  <2> HIDE DEF d, o
  <2>9. /\ RefsSound(v, m) /\ DOMAIN v.node = 0 .. m - 1
        /\ Taken(v) = Taken(u) \union {x} /\ v.used = u.used + 1
        /\ x \in 0 .. m - 1 /\ x \notin Taken(u)
        /\ \A j \in 0 .. m - 1 : /\ v.node[j].obj = IF j = x THEN o ELSE u.node[j].obj
                                /\ v.node[j].refs = u.node[j].refs
    BY <1>3, <2>2, <2>7, <2>8, AddedIs
  <2>10. Counted(v, C)
    BY <1>3, <1>4, <2>2, <2>7, <2>8, AddedCounts
  <2> HIDE DEF v
  <2> DEFINE q == d.refs
             k == Recounted(v, x, q)
  <2>17. q \in Nat
    BY <1>1
  <2>18. RefsSound(v, m) /\ x \in 0 .. m - 1
    BY <2>9
  <2> HIDE DEF q, x
  <2>11. /\ RefsSound(k, m) /\ DOMAIN k.node = 0 .. m - 1 /\ Taken(k) = Taken(v) /\ k.used = v.used
         /\ \A j \in 0 .. m - 1 : /\ k.node[j].obj = v.node[j].obj
                                 /\ k.node[j].refs = IF j = x THEN q ELSE v.node[j].refs
    <3>1. CountsElse(k, v, m, x, q)
      BY <2>17, <2>18, RecountedIs
    <3> HIDE DEF k
    <3> QED
      BY <3>1 DEF CountsElse
  <2> HIDE DEF k
  <2>12. Counted(k, E)
    <3>1. ASSUME NEW j \in 0 .. m - 1
          PROVE  k.node[j].refs = IF k.node[j].obj = NoObject THEN 0 ELSE E[k.node[j].obj]
      <4>1. CASE j = x
        BY <4>1, <1>8, <2>2, <2>4, <2>9, <2>11 DEF q
      <4>2. CASE j # x
        <5>1. k.node[j].obj = v.node[j].obj /\ k.node[j].refs = v.node[j].refs
              /\ v.node[j].obj = u.node[j].obj
          BY <4>2, <2>9, <2>11
        <5>2. v.node[j].obj # o /\ v.node[j].obj \in Objects \union {NoObject}
          BY <5>1, <2>6, <2>7
        <5>3. v.node[j].refs = IF v.node[j].obj = NoObject THEN 0 ELSE C[v.node[j].obj]
          BY <2>9, <2>10 DEF Counted
        <5> QED
          BY <5>1, <5>2, <5>3, <2>5
      <4> QED
        BY <4>1, <4>2
    <3>2. ASSUME NEW e \in Objects, E[e] # 0
          PROVE  \E j \in 0 .. m - 1 : k.node[j].obj = e
      <4>1. CASE e = o
        BY <4>1, <2>9, <2>11
      <4>2. CASE e # o
        <5>1. PICK j \in 0 .. m - 1 : v.node[j].obj = e
          BY <4>2, <3>2, <2>5, <2>9, <2>10 DEF Counted
        <5> QED
          BY <5>1, <2>11
      <4> QED
        BY <4>1, <4>2
    <3> QED
      BY <3>1, <3>2, <2>11 DEF Counted
  <2>13. Positive(k)
    <3> SUFFICES ASSUME NEW j \in Taken(k) PROVE k.node[j].refs # 0
      BY DEF Positive
    <3>1. j \in 0 .. m - 1 /\ j \in Taken(u) \union {x}
      BY <2>9, <2>11 DEF Taken
    <3>2. CASE j = x
      BY <3>1, <3>2, <2>2, <2>11 DEF q
    <3>3. CASE j # x
      BY <3>1, <3>3, <1>3, <2>9, <2>11 DEF Positive
    <3> QED
      BY <3>2, <3>3
  <2>14. k.used \in Nat /\ k.used <= i + 1
    BY <1>3, <2>9, <2>11
  <2> HIDE DEF w
  <2>15. w = k
    BY <2>1 DEF k, q
  <2>16. Readd(r, n, m, i + 1, k, c)
    BY <2>11, <2>12, <2>13, <2>14 DEF Readd, E
  <2> QED
    BY <2>15, <2>16 DEF w
<1> QED
  BY <1>7, <1>8

\* A table that has grown counts what it counted before, and has room.
LEMMA ResizedIs ==
  ASSUME NEW r, NEW n, RefsSound(r, n), NEW c \in [Objects -> Nat], Counted(r, c), Positive(r),
         NEW m \in Nat, n <= m
  PROVE  /\ RefsSound(Resized(r, m), m) /\ Resized(r, m).used <= n
         /\ Resized(r, m).used \in Nat
         /\ Counted(Resized(r, m), c) /\ Positive(Resized(r, m))
<1>1. n \in Nat \ {0} /\ SlotCount(r) = n /\ DOMAIN r.node = 0 .. n - 1
  BY RefsAre DEF RefsSound
<1>2. PICK into : Readds(into, r, n, m) /\ Resized(r, m) = into[n]
  <2>1. n \in Nat /\ SlotCount(r) = n
    BY <1>1
  <2> QED
    BY <2>1, ResizedBy
<1>3. /\ into[0] = AllocRefs(m)
      /\ \A i \in 0 .. n - 1 : into[i + 1] = Readded(r.node, i + 1, into[i])
  <2>1. \A i \in 0 .. n - 1 : i + 1 \in 0 .. n /\ i + 1 # 0 /\ i + 1 - 1 = i
    BY <1>1
  <2>2. \A i \in 0 .. n : into[i] = IF i = 0 THEN AllocRefs(m) ELSE Readded(r.node, i, into[i - 1])
    BY <1>2 DEF Readds
  <2>3. 0 \in 0 .. n
    BY <1>1
  <2> QED
    BY <2>1, <2>2, <2>3
<1> DEFINE S == {i \in 0 .. n : Readd(r, n, m, i, into[i], c)}
<1>4. 0 \in S
  <2> DEFINE u == AllocRefs(m)
             C == Upto(r.node, c, 0)
  <2>1. m \in Nat \ {0}
    BY <1>1
  <2>2. /\ RefsSound(u, m) /\ Taken(u) = {} /\ u.used = 0
        /\ \A i \in 0 .. m - 1 : u.node[i].obj = NoObject /\ u.node[i].refs = 0
    BY <2>1, AllocRefsAre
  <2>3. \A o \in Objects : C[o] = 0
    BY DEF Upto
  <2> HIDE DEF u, C
  <2>4. DOMAIN u.node = 0 .. m - 1
    BY <2>2, RefsAre DEF RefsSound
  <2>5. Counted(u, C)
    BY <2>2, <2>3, <2>4 DEF Counted
  <2>6. Readd(r, n, m, 0, u, c)
    BY <2>2, <2>5 DEF Readd, Positive, C
  <2> QED
    BY <1>1, <1>3, <2>6 DEF u
<1>5. ASSUME NEW i \in 0 .. n - 1, i \in S PROVE i + 1 \in S
  <2>1. Readd(r, n, m, i, into[i], c) /\ i + 1 \in 0 .. n
    BY <1>1, <1>5
  <2>2. Readd(r, n, m, i + 1, Readded(r.node, i + 1, into[i]), c)
    BY <2>1, ReaddedIs
  <2>3. Readd(r, n, m, i + 1, into[i + 1], c)
    BY <1>3, <2>2
  <2> QED
    BY <2>1, <2>3
<1> HIDE DEF S
<1>6. 0 .. n \subseteq S
  BY <1>1, <1>4, <1>5, Induction
<1>7. Readd(r, n, m, n, Resized(r, m), c)
  BY <1>1, <1>2, <1>6 DEF S
<1>8. Upto(r.node, c, n) = c
  <2>1. \A o \in Objects : (\E j \in 0 .. n - 1 : r.node[j].obj = o) \/ c[o] = 0
    BY <1>1 DEF Counted
  <2> QED
    BY <2>1 DEF Upto
<1> QED
  BY <1>7, <1>8 DEF Readd

----------------------------------------------------------------------------
(* The operations *)

\* What AddRef counts in: there is a node, and only it may count none yet.
Ready(r, o, c) ==
  /\ \E n : RefsSound(r, n)
  /\ Counted(r, c)
  /\ Get(r, o) # Nil
  /\ \A i \in Taken(r) : r.node[i].obj # o => r.node[i].refs # 0

\* An object that is added has its node.
LEMMA AddedReady ==
  ASSUME NEW r, NEW n, RefsSound(r, n), r.used # n, NEW o \in Objects, Get(r, o) = Nil,
         NEW c \in [Objects -> Nat], Counted(r, c), Positive(r)
  PROVE  Ready(Added(r, o), o, c)
<1> DEFINE u == Added(r, o)
           x == r.free
<1>1. x # Nil /\ DOMAIN r.node = 0 .. n - 1 /\ Nil \notin 0 .. n - 1
  BY FreeIs, RefsAre DEF RefsSound
<1>2. \A i \in 0 .. n - 1 : r.node[i].obj # o
  BY <1>1, GetIs DEF RefsSound
<1>3. /\ RefsSound(u, n) /\ DOMAIN u.node = 0 .. n - 1 /\ x \in 0 .. n - 1
      /\ Taken(u) = Taken(r) \union {x}
      /\ \A i \in 0 .. n - 1 : /\ u.node[i].obj = IF i = x THEN o ELSE r.node[i].obj
                              /\ u.node[i].refs = r.node[i].refs
  BY <1>1, <1>2, AddedIs
<1>4. Counted(u, c)
  BY <1>1, <1>2, AddedCounts
<1> HIDE DEF u
<1>5. Get(u, o) = x
  <2>1. Refs(u, n) /\ RefsLinked(u) /\ OneNodeEach(u)
    BY <1>3 DEF RefsSound
  <2>2. x \in DOMAIN u.node /\ u.node[x].obj = o
    BY <1>3
  <2> HIDE DEF x
  <2> QED
    BY <2>1, <2>2, GetIs
<1>6. ASSUME NEW i \in Taken(u), u.node[i].obj # o PROVE u.node[i].refs # 0
  <2>1. i \in 0 .. n - 1 /\ i # x /\ i \in Taken(r)
    BY <1>3, <1>6 DEF Taken
  <2> QED
    BY <2>1, <1>3 DEF Positive
<1> QED
  BY <1>1, <1>3, <1>4, <1>5, <1>6 DEF Ready, u

\* Get with add: there is a node for the object, in a table that may have grown.
LEMMA WithNodeReady ==
  ASSUME NEW r, NEW n, RefsSound(r, n), NEW o \in Objects,
         NEW c \in [Objects -> Nat], Counted(r, c), Positive(r)
  PROVE  Ready(WithNode(r, o), o, c)
<1>1. n \in Nat \ {0} /\ SlotCount(r) = n /\ DOMAIN r.node = 0 .. n - 1
  BY RefsAre DEF RefsSound
<1>2. CASE Get(r, o) # Nil
  BY <1>2 DEF WithNode, Ready, Positive
<1>3. CASE Get(r, o) = Nil /\ r.used # n
  <2>1. WithNode(r, o) = Added(r, o)
    BY <1>1, <1>3 DEF WithNode
  <2> QED
    BY <2>1, <1>3, AddedReady
<1>4. CASE Get(r, o) = Nil /\ r.used = n
  <2> DEFINE m == 2 * n
             u == Resized(r, m)
  <2>1. WithNode(r, o) = Added(u, o)
    BY <1>1, <1>4 DEF WithNode
  <2>2. m \in Nat /\ n <= m
    BY <1>1
  <2> HIDE DEF m
  <2>3. RefsSound(u, m) /\ u.used <= n /\ u.used \in Nat /\ Counted(u, c) /\ Positive(u)
    BY <2>2, ResizedIs
  <2>4. u.used # m
    BY <2>3, <1>1 DEF m
  <2>5. DOMAIN u.node = 0 .. m - 1
    BY <2>3, RefsAre DEF RefsSound
  <2> HIDE DEF u
  <2>6. \A i \in 0 .. n - 1 : r.node[i].obj # o
    <3>1. Nil \notin 0 .. n - 1
      BY RefsAre DEF RefsSound
    <3> QED
      BY <3>1, <1>1, <1>4, GetIs DEF RefsSound
  <2>7. c[o] = 0
    BY <1>1, <2>6 DEF Counted
  <2>8. Get(u, o) = Nil
    <3> SUFFICES ASSUME Get(u, o) # Nil PROVE FALSE
      OBVIOUS
    <3> DEFINE i == Get(u, o)
    <3>1. i \in 0 .. m - 1 /\ u.node[i].obj = o
      BY <2>3, <2>5, GetIs DEF RefsSound
    <3> HIDE DEF i
    <3>2. i \in Taken(u) /\ u.node[i].refs = c[o]
      BY <2>3, <2>5, <3>1 DEF Taken, Counted
    <3> QED
      BY <2>3, <2>7, <3>2 DEF Positive
  <2>9. Ready(Added(u, o), o, c)
    BY <2>3, <2>4, <2>8, AddedReady
  <2> QED
    BY <2>1, <2>9
<1> QED
  BY <1>2, <1>3, <1>4

\* The inductive invariant.
RefsOk == \E n : RefsSound(refs, n)

RefsInv == RefsOk /\ held \in [Objects -> Nat] /\ Counted(refs, held) /\ Positive(refs)

\* The table begins with its invariant.
LEMMA RefsInit == RInit => RefsInv
<1> SUFFICES ASSUME RInit PROVE RefsInv
  OBVIOUS
<1>1. refs = AllocRefs(4) /\ held = [o \in Objects |-> 0] /\ 4 \in Nat \ {0}
  BY DEF RInit
<1>2. /\ RefsSound(refs, 4) /\ Taken(refs) = {}
      /\ \A i \in 0 .. 4 - 1 : refs.node[i].obj = NoObject /\ refs.node[i].refs = 0
  BY <1>1, AllocRefsAre
<1>3. DOMAIN refs.node = 0 .. 4 - 1
  BY <1>2, RefsAre DEF RefsSound
<1>4. Counted(refs, held) /\ Positive(refs)
  BY <1>1, <1>2, <1>3 DEF Counted, Positive
<1> QED
  BY <1>1, <1>2, <1>4 DEF RefsInv, RefsOk

\* The count of o in r becomes k, and so does that of its holders.
LEMMA CountChanges ==
  ASSUME NEW r, NEW n, RefsSound(r, n), NEW o \in Objects, NEW c \in [Objects -> Nat],
         Counted(r, c), Get(r, o) # Nil, NEW k \in Nat \ {0},
         \A i \in Taken(r) : r.node[i].obj # o => r.node[i].refs # 0
  PROVE  /\ RefsSound(Recounted(r, Get(r, o), k), n)
         /\ Counted(Recounted(r, Get(r, o), k), [c EXCEPT ![o] = k])
         /\ Positive(Recounted(r, Get(r, o), k))
<1> DEFINE x == Get(r, o)
           u == Recounted(r, x, k)
           e == [c EXCEPT ![o] = k]
<1>1. /\ DOMAIN r.node = 0 .. n - 1 /\ o # NoObject
      /\ \A i \in 0 .. n - 1 : r.node[i].obj \in Objects \union {NoObject}
  BY RefsAre DEF RefsSound
<1>2. x \in 0 .. n - 1 /\ r.node[x].obj = o /\ \A i \in 0 .. n - 1 : r.node[i].obj = o => x = i
  <2>1. Refs(r, n) /\ RefsLinked(r) /\ OneNodeEach(r)
    BY DEF RefsSound
  <2> QED
    BY <2>1, <1>1, GetIs
<1> HIDE DEF x
<1>3. CountsElse(u, r, n, x, k)
  BY <1>2, RecountedIs
<1> HIDE DEF u
<1>4. /\ RefsSound(u, n) /\ DOMAIN u.node = 0 .. n - 1 /\ Taken(u) = Taken(r)
      /\ \A i \in 0 .. n - 1 : /\ u.node[i].obj = r.node[i].obj
                              /\ u.node[i].refs = IF i = x THEN k ELSE r.node[i].refs
  BY <1>3 DEF CountsElse
<1>5. e[o] = k /\ \A y \in Objects : y # o => e[y] = c[y]
  OBVIOUS
<1> HIDE DEF e
<1>6. ASSUME NEW i \in 0 .. n - 1
      PROVE  u.node[i].refs = IF u.node[i].obj = NoObject THEN 0 ELSE e[u.node[i].obj]
  <2>1. CASE i = x
    BY <2>1, <1>1, <1>2, <1>4, <1>5
  <2>2. CASE i # x
    <3>1. u.node[i].obj = r.node[i].obj /\ u.node[i].refs = r.node[i].refs /\ r.node[i].obj # o
      BY <2>2, <1>2, <1>4
    <3>2. r.node[i].refs = IF r.node[i].obj = NoObject THEN 0 ELSE c[r.node[i].obj]
      BY <1>1 DEF Counted
    <3> QED
      BY <3>1, <3>2, <1>1, <1>5
  <2> QED
    BY <2>1, <2>2
<1>7. ASSUME NEW y \in Objects, e[y] # 0 PROVE \E i \in 0 .. n - 1 : u.node[i].obj = y
  <2>1. CASE y = o
    BY <2>1, <1>2, <1>4
  <2>2. CASE y # o
    <3>1. PICK i \in 0 .. n - 1 : r.node[i].obj = y
      BY <2>2, <1>1, <1>5, <1>7 DEF Counted
    <3> QED
      BY <3>1, <1>4
  <2> QED
    BY <2>1, <2>2
<1>8. Counted(u, e)
  BY <1>4, <1>6, <1>7 DEF Counted
<1>9. ASSUME NEW i \in Taken(u) PROVE u.node[i].refs # 0
  <2>1. i \in Taken(r) /\ i \in 0 .. n - 1
    BY <1>1, <1>4 DEF Taken
  <2>2. CASE i = x
    BY <2>1, <2>2, <1>4
  <2>3. CASE i # x
    <3>1. r.node[i].obj # o
      BY <2>1, <2>3, <1>2
    <3> QED
      BY <2>1, <2>3, <3>1, <1>4
  <2> QED
    BY <2>2, <2>3
<1> QED
  BY <1>4, <1>8, <1>9 DEF u, x, e, Positive

\* A holder more.
LEMMA AddRefKeeps ==
  ASSUME RefsInv, NEW o \in Objects, AddRef(o)
  PROVE  RefsInv'
<1> DEFINE r == WithNode(refs, o)
           x == Get(r, o)
           k == r.node[x].refs + 1
<1>1. PICK n : RefsSound(refs, n)
  BY DEF RefsInv, RefsOk
<1>2. /\ Counted(refs, held) /\ Positive(refs) /\ held \in [Objects -> Nat]
      /\ held' = [held EXCEPT ![o] = @ + 1]
  BY DEF RefsInv, AddRef
<1>3. Ready(r, o, held)
  BY <1>1, <1>2, WithNodeReady
<1>4. refs' = [r EXCEPT !.node[x].refs = @ + 1]
  BY DEF AddRef
<1> HIDE DEF r
<1>5. PICK m : RefsSound(r, m)
  BY <1>3 DEF Ready
<1>6. /\ Counted(r, held) /\ x # Nil
      /\ \A i \in Taken(r) : r.node[i].obj # o => r.node[i].refs # 0
  BY <1>3 DEF Ready
<1>7. x \in DOMAIN r.node /\ r.node[x].obj = o
  BY <1>5, <1>6, GetIs DEF RefsSound
<1>8. r.node[x].refs = held[o]
  BY <1>6, <1>7 DEF Counted
<1>9. k \in Nat \ {0} /\ held[o] + 1 = k
  BY <1>2, <1>8
<1>10. refs' = Recounted(r, x, k)
  BY <1>4 DEF Recounted
<1> HIDE DEF k
<1>11. /\ RefsSound(Recounted(r, x, k), m) /\ Positive(Recounted(r, x, k))
       /\ Counted(Recounted(r, x, k), [held EXCEPT ![o] = k])
  BY <1>2, <1>5, <1>6, <1>9, CountChanges
<1>12. held' = [held EXCEPT ![o] = k] /\ held' \in [Objects -> Nat]
  BY <1>2, <1>9
<1> QED
  BY <1>10, <1>11, <1>12 DEF RefsInv, RefsOk

\* A holder less.
LEMMA ReleaseKeeps ==
  ASSUME RefsInv, NEW o \in Objects, Release(o)
  PROVE  RefsInv'
<1> DEFINE x == Get(refs, o)
           u == Unlinked(refs, o)
           k == refs.node[x].refs - 1
           e == [held EXCEPT ![o] = @ - 1]
<1>1. PICK n : RefsSound(refs, n)
  BY DEF RefsInv, RefsOk
<1>2. /\ Counted(refs, held) /\ Positive(refs) /\ held \in [Objects -> Nat]
      /\ held' = e /\ held[o] > 0 /\ x # Nil
  BY DEF RefsInv, Release
<1>3. /\ DOMAIN refs.node = 0 .. n - 1 /\ o # NoObject
      /\ \A i \in 0 .. n - 1 : refs.node[i].obj \in Objects \union {NoObject}
  BY <1>1, RefsAre DEF RefsSound
<1>4. x \in 0 .. n - 1 /\ refs.node[x].obj = o /\ \A i \in 0 .. n - 1 : refs.node[i].obj = o => x = i
  BY <1>1, <1>2, <1>3, GetIs DEF RefsSound
<1>5. refs.node[x].refs = held[o]
  BY <1>2, <1>3, <1>4 DEF Counted
<1>6. e \in [Objects -> Nat] /\ e[o] = held[o] - 1 /\ \A y \in Objects : y # o => e[y] = held[y]
  BY <1>2
<1>7. CASE refs.node[x].refs # 1
  <2>1. k \in Nat \ {0} /\ e = [held EXCEPT ![o] = k]
    BY <1>2, <1>5, <1>7
  <2>2. refs' = Recounted(refs, x, k)
    BY <1>7 DEF Release, Recounted
  <2>3. \A i \in Taken(refs) : refs.node[i].obj # o => refs.node[i].refs # 0
    BY <1>2 DEF Positive
  <2> HIDE DEF k, e
  <2>4. /\ RefsSound(Recounted(refs, x, k), n) /\ Positive(Recounted(refs, x, k))
        /\ Counted(Recounted(refs, x, k), [held EXCEPT ![o] = k])
    BY <1>1, <1>2, <2>1, <2>3, CountChanges
  <2> QED
    BY <2>1, <2>2, <2>4, <1>2, <1>6 DEF RefsInv, RefsOk
<1>8. CASE refs.node[x].refs = 1
  <2>1. refs' = u
    BY <1>8 DEF Release
  <2>2. /\ RefsSound(u, n)
        /\ \A i \in 0 .. n - 1 :
             /\ u.node[i].obj = IF i = x THEN NoObject ELSE refs.node[i].obj
             /\ u.node[i].refs = IF i = x THEN 0 ELSE refs.node[i].refs
    BY <1>1, <1>2, UnlinkedIs
  <2> HIDE DEF u, x, e
  <2>3. DOMAIN u.node = 0 .. n - 1
    BY <2>2, RefsAre DEF RefsSound
  <2>4. ASSUME NEW i \in 0 .. n - 1
        PROVE  u.node[i].refs = IF u.node[i].obj = NoObject THEN 0 ELSE e[u.node[i].obj]
    <3>1. CASE i = x
      BY <3>1, <2>2
    <3>2. CASE i # x
      <4>1. u.node[i].obj = refs.node[i].obj /\ u.node[i].refs = refs.node[i].refs
            /\ refs.node[i].obj # o
        BY <3>2, <1>4, <2>2
      <4>2. refs.node[i].refs = IF refs.node[i].obj = NoObject THEN 0 ELSE held[refs.node[i].obj]
        BY <1>2, <1>3 DEF Counted
      <4> QED
        BY <4>1, <4>2, <1>3, <1>6
    <3> QED
      BY <3>1, <3>2
  <2>5. ASSUME NEW y \in Objects, e[y] # 0 PROVE \E i \in 0 .. n - 1 : u.node[i].obj = y
    <3>1. y # o
      BY <2>5, <1>5, <1>6, <1>8
    <3>2. PICK i \in 0 .. n - 1 : refs.node[i].obj = y
      BY <2>5, <3>1, <1>2, <1>3, <1>6 DEF Counted
    <3>3. i # x
      BY <3>1, <3>2, <1>4
    <3> QED
      BY <3>2, <3>3, <2>2
  <2>6. Counted(u, e)
    BY <2>3, <2>4, <2>5 DEF Counted
  <2>7. Positive(u)
    BY <2>2, <2>3, <1>2, <1>3 DEF Positive, Taken
  <2> QED
    BY <2>1, <2>2, <2>6, <2>7, <1>2, <1>6 DEF RefsInv, RefsOk
<1> QED
  BY <1>7, <1>8

\* No step breaks it.
LEMMA RefsStep == RefsInv /\ [RNext]_rvars => RefsInv'
<1> SUFFICES ASSUME RefsInv, [RNext]_rvars PROVE RefsInv'
  OBVIOUS
<1>1. ASSUME NEW o \in Objects, AddRef(o) PROVE RefsInv'
  BY <1>1, AddRefKeeps
<1>2. ASSUME NEW o \in Objects, Release(o) PROVE RefsInv'
  BY <1>2, ReleaseKeeps
<1>3. CASE UNCHANGED rvars
  BY <1>3 DEF rvars, RefsInv, RefsOk
<1> QED
  BY <1>1, <1>2, <1>3 DEF RNext

(* The lists of the table stay linked, and its counts those of the holders, *)
(* whatever is added and released and however often the table grows.        *)
THEOREM RefsInvariant == RSpec => []RefsInv
BY RefsInit, RefsStep, PTL DEF RSpec

\* Counted, by what Get finds.
LEMMA CountsHoldersFollows == RefsInv => CountsHolders
<1> SUFFICES ASSUME RefsInv, NEW o \in Objects
             PROVE  held[o] = IF Get(refs, o) = Nil THEN 0 ELSE refs.node[Get(refs, o)].refs
  BY DEF CountsHolders
<1>1. PICK n : RefsSound(refs, n)
  BY DEF RefsInv, RefsOk
<1>2. DOMAIN refs.node = 0 .. n - 1 /\ Nil \notin 0 .. n - 1 /\ o # NoObject
  BY <1>1, RefsAre DEF RefsSound
<1>3. /\ Get(refs, o) # Nil => Get(refs, o) \in 0 .. n - 1 /\ refs.node[Get(refs, o)].obj = o
      /\ \A i \in 0 .. n - 1 : refs.node[i].obj = o => Get(refs, o) = i
  BY <1>1, <1>2, GetIs DEF RefsSound
<1>4. Counted(refs, held)
  BY DEF RefsInv
<1>5. CASE Get(refs, o) = Nil
  BY <1>2, <1>3, <1>4, <1>5 DEF Counted
<1>6. CASE Get(refs, o) # Nil
  BY <1>2, <1>3, <1>4, <1>6 DEF Counted
<1> QED
  BY <1>5, <1>6

(* An object is in the table as long as, and as often as, C++ holds it.    *)
THEOREM CountsHoldersHolds == RSpec => []CountsHolders
BY RefsInvariant, CountsHoldersFollows, PTL

\* Linked, by the lists.
LEMMA ListsPartitionFollows == RefsInv => ListsPartition
<1> SUFFICES ASSUME RefsInv PROVE ListsPartition
  OBVIOUS
<1> DEFINE D == DOMAIN refs.node
           free == OnList(refs, SlotCount(refs))
<1>1. PICK n : RefsSound(refs, n)
  BY DEF RefsInv, RefsOk
<1>2. /\ Refs(refs, n) /\ RefsLinked(refs)
      /\ n \in Nat \ {0} /\ SlotCount(refs) = n /\ D = 0 .. n - 1 /\ Lists(refs) = 0 .. n
      /\ n \in 0 .. n /\ n \notin 0 .. n - 1 /\ \A i \in 0 .. n - 1 : i \in 0 .. n
  BY <1>1, RefsAre DEF RefsSound
<1>3. /\ \A i \in D : refs.node[i].obj = NoObject => Places(refs)[i] = n
      /\ \A i \in D : refs.node[i].obj # NoObject => Places(refs)[i] \in 0 .. n - 1
  BY <1>2, ListsAre
<1>4. \A l \in 0 .. n : OnList(refs, l) = {i \in D : Places(refs)[i] = l}
  BY <1>2, OnListIs
<1>5. \A i \in D : Places(refs)[i] \in 0 .. n
  BY <1>2, <1>3
<1>6. UNION {OnList(refs, l) : l \in Lists(refs)} = D
  <2>1. \A i \in D : i \in OnList(refs, Places(refs)[i]) /\ Places(refs)[i] \in Lists(refs)
    BY <1>2, <1>4, <1>5
  <2>2. \A l \in Lists(refs) : OnList(refs, l) \subseteq D
    BY <1>2, <1>4
  <2> HIDE DEF D
  <2> QED
    BY <2>1, <2>2
<1>7. \A l, m \in Lists(refs) : l # m => OnList(refs, l) \intersect OnList(refs, m) = {}
  BY <1>2, <1>4
<1>8. free = D \ Taken(refs)
  BY <1>2, <1>3, <1>4 DEF Taken
<1>9. refs.used = SlotCount(refs) - Cardinality(free)
  <2>0. n \in Nat /\ D = 0 .. n - 1
    BY <1>2
  <2>8. /\ IsFiniteSet(0 .. n - 1)
        /\ Cardinality(0 .. n - 1) = IF 0 > n - 1 THEN 0 ELSE n - 1 - 0 + 1
    BY ONLY <2>0, FS_Interval
  <2>1. IsFiniteSet(D) /\ Cardinality(D) = n
    BY ONLY <2>0, <2>8
  <2>2. Taken(refs) \in SUBSET D /\ IsFiniteSet(Taken(refs))
    BY <1>1, <1>2, FreeIs
  <2>3. Cardinality(D \ Taken(refs)) = Cardinality(D) - Cardinality(D \intersect Taken(refs))
    BY <2>1, FS_Difference
  <2>4. D \intersect Taken(refs) = Taken(refs)
    BY <2>2
  <2>5. Cardinality(Taken(refs)) \in Nat
    BY <2>2, FS_CardinalityType
  <2>6. refs.used = Cardinality(Taken(refs))
    BY <1>1 DEF RefsSound
  <2>7. Cardinality(free) = n - Cardinality(Taken(refs))
    BY <2>1, <2>3, <2>4, <1>8
  <2> HIDE DEF D, free
  <2> QED
    BY <2>5, <2>6, <2>7, <1>2
<1>10. ASSUME NEW i \in D
       PROVE  (i \in free) = (refs.node[i].obj = NoObject /\ refs.node[i].refs = 0)
  BY <1>8 DEF RefsInv, Counted, Taken
<1> QED
  BY <1>6, <1>7, <1>9, <1>10 DEF ListsPartition

(* Every node is on exactly one list, and _slotused counts those that are  *)
(* not on the free list.                                                   *)
THEOREM ListsPartitionHolds == RSpec => []ListsPartition
BY RefsInvariant, ListsPartitionFollows, PTL

----------------------------------------------------------------------------
(* The table of strings *)

USE StringsAssumption

Once(l) == \A i, j \in 1 .. Len(l) : l[i] = l[j] => i = j
Among(l) == {l[i] : i \in 1 .. Len(l)}

\* List b of n has the strings of U that belong there, each once.
BucketsHold(q, n, U) ==
  \A b \in 0 .. n - 1 :
    Once(q[b]) /\ Among(q[b]) = {x \in U : StringHash[x] % n = b}

\* n lists with the strings of U
StringsIn(s, n, U) ==
  /\ n \in Nat \ {0} /\ U \subseteq Strings
  /\ s = [list |-> s.list, used |-> s.used]
  /\ s.list \in [0 .. n - 1 -> Seq(Strings)]
  /\ BucketsHold(s.list, n, U)

\* What the shape of the lists says of their indices.
LEMMA StringsAre ==
  ASSUME NEW s, NEW n, NEW U, StringsIn(s, n, U)
  PROVE  /\ n \in Nat \ {0} /\ DOMAIN s.list = 0 .. n - 1 /\ Buckets(s) = n
         /\ \A x \in Strings : BucketOf(s, x) = StringHash[x] % n /\ BucketOf(s, x) \in 0 .. n - 1
         /\ \A b \in 0 .. n - 1 : s.list[b] \in Seq(Strings)
<1>1. n \in Nat \ {0} /\ DOMAIN s.list = 0 .. n - 1 /\ \A b \in 0 .. n - 1 : s.list[b] \in Seq(Strings)
  BY DEF StringsIn
<1>2. Cardinality(0 .. n - 1) = n
  BY <1>1, FS_Interval
<1>3. Buckets(s) = n
  BY <1>1, <1>2 DEF Buckets
<1>4. \A x \in Strings : StringHash[x] % n \in 0 .. n - 1
  BY <1>1
<1> QED
  BY <1>1, <1>3, <1>4 DEF BucketOf

\* In front of a list, and out of it.
LEMMA InFront ==
  ASSUME NEW l \in Seq(Strings), NEW x \in Strings, Once(l), x \notin Among(l)
  PROVE  LET k == <<x>> \o l
         IN  k \in Seq(Strings) /\ Once(k) /\ Among(k) = Among(l) \union {x}
<1> DEFINE k == <<x>> \o l
<1>1. /\ k \in Seq(Strings) /\ Len(k) = Len(l) + 1 /\ k[1] = x /\ Len(l) \in Nat
      /\ \A i \in 1 .. Len(l) : k[i + 1] = l[i]
  OBVIOUS
<1> HIDE DEF k
<1>2. \A i \in 1 .. Len(k) : i = 1 \/ (i - 1 \in 1 .. Len(l) /\ k[i] = l[i - 1])
  <2> SUFFICES ASSUME NEW i \in 1 .. Len(k), i # 1 PROVE i - 1 \in 1 .. Len(l) /\ k[i] = l[i - 1]
    OBVIOUS
  <2>1. i - 1 \in 1 .. Len(l) /\ i - 1 + 1 = i
    BY <1>1
  <2> QED
    BY <2>1, <1>1
<1>3. \A i \in 1 .. Len(l) : l[i] # x
  BY DEF Among
<1>4. Once(k)
  <2> SUFFICES ASSUME NEW i \in 1 .. Len(k), NEW j \in 1 .. Len(k), k[i] = k[j] PROVE i = j
    BY DEF Once
  <2>0. ASSUME NEW y \in 1 .. Len(k), y # 1 PROVE k[y] # x
    BY <2>0, <1>2, <1>3
  <2>1. CASE i = 1 \/ j = 1
    BY <2>0, <2>1, <1>1
  <2>2. CASE i # 1 /\ j # 1
    <3>1. i - 1 = j - 1
      BY <2>2, <1>2 DEF Once
    <3> QED
      BY <3>1
  <2> QED
    BY <2>1, <2>2
<1>5. Among(k) = Among(l) \union {x}
  <2>1. ASSUME NEW i \in 1 .. Len(k) PROVE k[i] \in Among(l) \union {x}
    BY <1>1, <1>2 DEF Among
  <2>2. x \in Among(k)
    <3>1. 1 \in 1 .. Len(k)
      BY <1>1
    <3> QED
      BY <3>1, <1>1 DEF Among
  <2>3. ASSUME NEW i \in 1 .. Len(l) PROVE l[i] \in Among(k)
    <3>1. i + 1 \in 1 .. Len(k) /\ k[i + 1] = l[i]
      BY <1>1
    <3> QED
      BY <3>1 DEF Among
  <2> QED
    BY <2>1, <2>2, <2>3 DEF Among
<1> QED
  BY <1>1, <1>4, <1>5 DEF k

\* What is left of a list.
LEMMA OutOf ==
  ASSUME NEW l \in Seq(Strings), Once(l), NEW p \in 1 .. Len(l)
  PROVE  LET k == RemoveAt(l, p)
         IN  k \in Seq(Strings) /\ Once(k) /\ Among(k) = Among(l) \ {l[p]}
<1> DEFINE k == RemoveAt(l, p)
           n == Len(l)
           a == SubSeq(l, 1, p - 1)
           z == SubSeq(l, p + 1, n)
<1>1. n \in Nat /\ p \in 1 .. n /\ \A i \in 1 .. n : l[i] \in Strings
  OBVIOUS
<1>2. /\ a \in Seq(Strings) /\ Len(a) = p - 1
      /\ \A i \in 1 .. p - 1 : a[i] = l[i]
  BY <1>1
<1>3. /\ z \in Seq(Strings) /\ Len(z) = n - p
      /\ \A i \in 1 .. n - p : z[i] = l[p + i]
  <2>1. /\ p + 1 \in Int /\ n \in Int /\ \A i \in p + 1 .. n : l[i] \in Strings
        /\ n - (p + 1) + 1 = n - p /\ \A i \in 1 .. n - p : p + 1 + i - 1 = p + i
    BY <1>1
  <2> HIDE DEF n
  <2>2. /\ z \in Seq(Strings)
        /\ Len(z) = (IF p + 1 <= n THEN n - (p + 1) + 1 ELSE 0)
        /\ \A i \in 1 .. n - (p + 1) + 1 : z[i] = l[p + 1 + i - 1]
    BY <2>1, SubSeqProperties
  <2> QED
    BY <2>1, <2>2, <1>1
<1>4. k = a \o z
  BY DEF RemoveAt
<1> HIDE DEF k, a, z, n
<1>5. /\ k \in Seq(Strings) /\ Len(k) = n - 1
      /\ \A i \in 1 .. n - 1 : k[i] = IF i < p THEN l[i] ELSE l[i + 1]
  <2>0. a \in Seq(Strings) /\ z \in Seq(Strings)
    BY <1>2, <1>3
  <2>3. /\ k \in Seq(Strings) /\ Len(k) = Len(a) + Len(z)
        /\ \A i \in 1 .. Len(a) + Len(z) : k[i] = IF i <= Len(a) THEN a[i] ELSE z[i - Len(a)]
    BY ONLY <2>0, <1>4, ConcatProperties
  <2>1. k \in Seq(Strings) /\ Len(k) = n - 1 /\ Len(a) = p - 1 /\ Len(a) + Len(z) = n - 1
    BY <2>3, <1>1, <1>2, <1>3
  <2>2. ASSUME NEW i \in 1 .. n - 1 PROVE k[i] = IF i < p THEN l[i] ELSE l[i + 1]
    <3>0. k[i] = IF i <= p - 1 THEN a[i] ELSE z[i - (p - 1)]
      BY <2>1, <2>3
    <3>1. CASE i < p
      <4>1. i \in 1 .. p - 1
        BY <3>1, <1>1
      <4> QED
        BY <3>0, <3>1, <4>1, <1>2
    <3>2. CASE ~ (i < p)
      <4>1. i - (p - 1) \in 1 .. n - p /\ p + (i - (p - 1)) = i + 1 /\ ~ (i <= p - 1)
        BY <3>2, <1>1
      <4> QED
        BY <3>0, <3>2, <4>1, <1>3
    <3> QED
      BY <3>1, <3>2
  <2> QED
    BY <2>1, <2>2
<1>6. Once(k)
  <2> SUFFICES ASSUME NEW i \in 1 .. Len(k), NEW j \in 1 .. Len(k), k[i] = k[j] PROVE i = j
    BY DEF Once
  <2> DEFINE u(m) == IF m < p THEN m ELSE m + 1
  <2>1. i \in 1 .. n - 1 /\ j \in 1 .. n - 1 /\ u(i) \in 1 .. n /\ u(j) \in 1 .. n
    <3>1. n \in Nat /\ p \in 1 .. n /\ i \in 1 .. n - 1 /\ j \in 1 .. n - 1
      BY <1>1, <1>5
    <3> HIDE DEF n
    <3> QED
      BY <3>1
  <2>2. k[i] = l[u(i)] /\ k[j] = l[u(j)]
    BY <2>1, <1>5
  <2>3. u(i) = u(j)
    <3> HIDE DEF u
    <3> QED
      BY <2>1, <2>2 DEF Once, n
  <2> QED
    BY <2>1, <2>3, <1>1
<1>7. Among(k) = Among(l) \ {l[p]}
  <2>1. ASSUME NEW i \in 1 .. Len(k) PROVE k[i] \in Among(l) \ {l[p]}
    <3> DEFINE u == IF i < p THEN i ELSE i + 1
    <3>1. i \in 1 .. n - 1 /\ u \in 1 .. n /\ u # p
      BY <1>1, <1>5
    <3>2. k[i] = l[u]
      BY <3>1, <1>5
    <3> HIDE DEF u
    <3> QED
      BY <3>1, <3>2, <1>1 DEF Among, Once, n
  <2>2. ASSUME NEW i \in 1 .. n, i # p PROVE l[i] \in Among(k)
    <3> DEFINE u == IF i < p THEN i ELSE i - 1
    <3>1. u \in 1 .. n - 1 /\ (IF u < p THEN u ELSE u + 1) = i
      BY <1>1, <2>2
    <3>2. k[u] = l[i]
      BY <3>1, <1>5
    <3> HIDE DEF u
    <3> QED
      BY <3>1, <3>2, <1>5 DEF Among
  <2> QED
    BY <2>1, <2>2, <1>1 DEF Among, n
<1> QED
  BY <1>5, <1>6, <1>7 DEF k

\* A string that is new goes in front of its list.
LEMMA PrependedIs ==
  ASSUME NEW s, NEW n, NEW U, StringsIn(s, n, U), NEW x \in Strings \ U
  PROVE  StringsIn(Prepended(s, x), n, U \union {x}) /\ Prepended(s, x).used = s.used
<1> DEFINE b == BucketOf(s, x)
           q == s.list
           k == <<x>> \o q[b]
           p == [q EXCEPT ![b] = k]
           d == s.used
<1>1. /\ n \in Nat \ {0} /\ DOMAIN q = 0 .. n - 1 /\ b \in 0 .. n - 1 /\ b = StringHash[x] % n
      /\ q[b] \in Seq(Strings)
  BY StringsAre
<1>2. s = [list |-> q, used |-> d] /\ q \in [0 .. n - 1 -> Seq(Strings)] /\ U \subseteq Strings
      /\ BucketsHold(q, n, U)
  BY DEF StringsIn
<1>3. Prepended(s, x) = [s EXCEPT !.list = p]
  BY DEF Prepended
<1> HIDE DEF q, d, b
<1>4. Prepended(s, x) = [list |-> p, used |-> d]
  <2> HIDE DEF p
  <2> QED
    BY <1>2, <1>3
<1>5. Once(q[b]) /\ x \notin Among(q[b]) /\ Among(q[b]) = {y \in U : StringHash[y] % n = b}
  BY <1>1, <1>2 DEF BucketsHold
<1>6. k \in Seq(Strings) /\ Once(k) /\ Among(k) = Among(q[b]) \union {x}
  BY <1>1, <1>5, InFront
<1> HIDE DEF k
<1>7. p \in [0 .. n - 1 -> Seq(Strings)] /\ p[b] = k /\ \A c \in 0 .. n - 1 : c # b => p[c] = q[c]
  BY <1>1, <1>2, <1>6
<1>8. BucketsHold(p, n, U \union {x})
  <2> SUFFICES ASSUME NEW c \in 0 .. n - 1
               PROVE  Once(p[c]) /\ Among(p[c]) = {y \in U \union {x} : StringHash[y] % n = c}
    BY DEF BucketsHold
  <2>1. CASE c = b
    BY <2>1, <1>1, <1>5, <1>6, <1>7
  <2>2. CASE c # b
    BY <2>2, <1>1, <1>2, <1>7 DEF BucketsHold
  <2> QED
    BY <2>1, <2>2
<1> HIDE DEF p
<1> QED
  BY <1>1, <1>2, <1>4, <1>7, <1>8 DEF StringsIn, d

\* New lists are empty.
LEMMA AllocStringsAre ==
  ASSUME NEW n \in Nat \ {0}
  PROVE  StringsIn(AllocStrings(n), n, {})
<1> DEFINE q == [b \in 0 .. n - 1 |-> <<>>]
<1>1. \A b \in 0 .. n - 1 : q[b] \in Seq(Strings) /\ Len(q[b]) = 0
  OBVIOUS
<1>2. q \in [0 .. n - 1 -> Seq(Strings)]
  BY <1>1
<1>3. BucketsHold(q, n, {})
  <2> HIDE DEF q
  <2> QED
    BY <1>1 DEF BucketsHold, Once, Among
<1>4. AllocStrings(n) = [list |-> q, used |-> 0]
  BY DEF AllocStrings
<1> HIDE DEF q
<1> QED
  BY <1>2, <1>3, <1>4 DEF StringsIn

\* f is the loop over a list.
Relinks(f, s, l) ==
  f = [i \in 0 .. Len(l) |-> IF i = 0 THEN s ELSE Prepended(f[i - 1], l[i])]

\* It is defined.
LEMMA RelinkedBy ==
  ASSUME NEW s, NEW l, Len(l) \in Nat
  PROVE  \E f : Relinks(f, s, l) /\ Relinked(s, l) = f[Len(l)]
<1> DEFINE m == Len(l)
           Is(k, f) == f = [i \in 0 .. k |-> IF i = 0 THEN s ELSE Prepended(f[i - 1], l[i])]
           S == {k \in 0 .. m : \E f : Is(k, f)}
           to == CHOOSE f : Is(m, f)
<1>0. m \in Nat
  OBVIOUS
<1>1. Relinked(s, l) = to[m]
  BY DEF Relinked
<1>2. 0 \in S
  <2> DEFINE g == [i \in 0 .. 0 |-> s]
  <2>1. Is(0, g)
    OBVIOUS
  <2> HIDE DEF Is, g
  <2> QED
    BY <2>1
<1> HIDE DEF m
<1>3. ASSUME NEW k \in 0 .. m - 1, k \in S PROVE k + 1 \in S
  <2>1. PICK f : Is(k, f)
    BY <1>3
  <2> DEFINE g == [i \in 0 .. k + 1 |-> IF i <= k THEN f[i] ELSE Prepended(f[k], l[k + 1])]
  <2>2. ASSUME NEW i \in 0 .. k + 1
        PROVE  g[i] = IF i = 0 THEN s ELSE Prepended(g[i - 1], l[i])
    <3> HIDE DEF Is
    <3>1. CASE i <= k
      BY <2>1, <3>1 DEF Is
    <3>2. CASE i = k + 1
      BY <3>2
    <3> QED
      BY <3>1, <3>2
  <2>3. Is(k + 1, g)
    BY <2>2
  <2>4. k + 1 \in 0 .. m
    BY <1>0
  <2> HIDE DEF Is, g
  <2> QED
    BY <2>3, <2>4
<1> HIDE DEF S, Is
<1>7. m \in 0 .. m
  BY ONLY <1>0
<1>8. 0 .. m \subseteq S
  BY ONLY <1>0, <1>2, <1>3, Induction
<1>4. 0 .. m \subseteq S /\ m \in 0 .. m
  BY ONLY <1>7, <1>8
<1>5. \E f : Is(m, f)
  BY <1>4 DEF S
<1>6. Is(m, to)
  BY <1>5
<1> HIDE DEF to
<1> QED
  BY <1>1, <1>6 DEF Is, m, Relinks

\* The strings of a list move into other lists.
LEMMA RelinkedIs ==
  ASSUME NEW s, NEW n, NEW U, StringsIn(s, n, U),
         NEW l \in Seq(Strings), Once(l), Among(l) \intersect U = {}
  PROVE  StringsIn(Relinked(s, l), n, U \union Among(l))
<1>0. Len(l) \in Nat /\ \A i \in 1 .. Len(l) : l[i] \in Strings
  OBVIOUS
<1>1. PICK to : Relinks(to, s, l) /\ Relinked(s, l) = to[Len(l)]
  BY <1>0, RelinkedBy
<1>2. \A i \in 0 .. Len(l) : to[i] = IF i = 0 THEN s ELSE Prepended(to[i - 1], l[i])
  BY <1>1 DEF Relinks
<1> DEFINE V(i) == U \union {l[j] : j \in 1 .. i}
           S == {i \in 0 .. Len(l) : StringsIn(to[i], n, V(i))}
<1>3. 0 \in S
  <2>1. V(0) = U /\ to[0] = s
    BY <1>0, <1>2
  <2> HIDE DEF V
  <2> QED
    BY <2>1, <1>0
<1>4. ASSUME NEW i \in 0 .. Len(l) - 1, i \in S PROVE i + 1 \in S
  <2>1. i + 1 \in 0 .. Len(l) /\ i + 1 # 0 /\ i + 1 - 1 = i /\ i + 1 \in 1 .. Len(l)
        /\ i \in 0 .. Len(l)
    BY <1>0
  <2>2. to[i + 1] = Prepended(to[i], l[i + 1])
    BY <2>1, <1>2
  <2>3. V(i + 1) = V(i) \union {l[i + 1]}
    <3>1. \A j : j \in 1 .. i + 1 <=> (j \in 1 .. i \/ j = i + 1)
      BY <2>1
    <3> QED
      BY <3>1
  <2>4. l[i + 1] \in Strings \ V(i)
    <3>1. l[i + 1] \in Among(l)
      BY <2>1 DEF Among
    <3>2. \A j \in 1 .. i : j \in 1 .. Len(l) /\ j # i + 1
      BY <2>1
    <3>3. \A j \in 1 .. i : l[j] # l[i + 1]
      BY <3>2, <2>1 DEF Once
    <3> QED
      BY <3>1, <3>3, <2>1, <1>0
  <2>5. StringsIn(to[i], n, V(i))
    BY <1>4
  <2> HIDE DEF V
  <2>6. StringsIn(to[i + 1], n, V(i + 1))
    BY <2>2, <2>3, <2>4, <2>5, PrependedIs
  <2> QED
    BY <2>1, <2>6
<1> HIDE DEF S
<1>5. Len(l) \in S
  <2> DEFINE m == Len(l)
  <2>1. m \in Nat /\ 0 \in S /\ \A i \in 0 .. m - 1 : i \in S => i + 1 \in S
    BY <1>0, <1>3, <1>4
  <2> HIDE DEF m
  <2>2. 0 .. m \subseteq S
    BY <2>1, Induction
  <2>3. m \in 0 .. m
    BY <2>1
  <2> QED
    BY <2>2, <2>3 DEF m
<1>6. StringsIn(to[Len(l)], n, V(Len(l)))
  BY <1>5 DEF S
<1>7. V(Len(l)) = U \union Among(l)
  BY DEF Among
<1> QED
  BY <1>1, <1>6, <1>7

\* f is the loop over the buckets.
Refills(f, s, m, n) ==
  f = [b \in 0 .. m |-> IF b = 0 THEN AllocStrings(n) ELSE Relinked(f[b - 1], s.list[b - 1])]

\* It is defined.
LEMMA ResizedStringsBy ==
  ASSUME NEW s, NEW m \in Nat, Buckets(s) = m, NEW n
  PROVE  \E f : Refills(f, s, m, n) /\ ResizedStrings(s, n) = [f[m] EXCEPT !.used = s.used]
<1> DEFINE z == AllocStrings(n)
           q == s.list
           Is(k, f) == f = [b \in 0 .. k |-> IF b = 0 THEN z ELSE Relinked(f[b - 1], q[b - 1])]
           S == {k \in 0 .. m : \E f : Is(k, f)}
           to == CHOOSE f : Is(m, f)
<1>1. ResizedStrings(s, n) = [to[m] EXCEPT !.used = s.used]
  BY DEF ResizedStrings
<1> HIDE DEF z, q
<1>2. 0 \in S
  <2> DEFINE g == [b \in 0 .. 0 |-> z]
  <2>1. Is(0, g)
    OBVIOUS
  <2> HIDE DEF Is, g
  <2> QED
    BY <2>1
<1>3. ASSUME NEW k \in 0 .. m - 1, k \in S PROVE k + 1 \in S
  <2>1. PICK f : Is(k, f)
    BY <1>3
  <2> DEFINE g == [b \in 0 .. k + 1 |-> IF b <= k THEN f[b] ELSE Relinked(f[k], q[k])]
  <2>2. ASSUME NEW b \in 0 .. k + 1
        PROVE  g[b] = IF b = 0 THEN z ELSE Relinked(g[b - 1], q[b - 1])
    <3> HIDE DEF Is
    <3>1. CASE b <= k
      BY <2>1, <3>1 DEF Is
    <3>2. CASE b = k + 1
      <4>1. b - 1 = k /\ k \in 0 .. k + 1
        BY <3>2
      <4> QED
        BY <3>2, <4>1
    <3> QED
      BY <3>1, <3>2
  <2>3. Is(k + 1, g)
    BY <2>2
  <2>4. k + 1 \in 0 .. m
    OBVIOUS
  <2> HIDE DEF Is, g
  <2> QED
    BY <2>3, <2>4
<1> HIDE DEF S, Is
<1>4. 0 .. m \subseteq S /\ m \in 0 .. m
  BY <1>2, <1>3, Induction
<1>5. \E f : Is(m, f)
  BY <1>4 DEF S
<1>6. Is(m, to)
  BY <1>5
<1> HIDE DEF to
<1> QED
  BY <1>1, <1>6 DEF Is, z, q, Refills

\* Lists that are built anew have the same strings.
LEMMA ResizedStringsAre ==
  ASSUME NEW s, NEW n, NEW U, StringsIn(s, n, U), NEW m \in Nat \ {0}
  PROVE  StringsIn(ResizedStrings(s, m), m, U) /\ ResizedStrings(s, m).used = s.used
<1> DEFINE q == s.list
           V(b) == {x \in U : StringHash[x] % n < b}
           In(b) == {x \in U : StringHash[x] % n = b}
<1>1. /\ n \in Nat \ {0} /\ Buckets(s) = n /\ \A b \in 0 .. n - 1 : q[b] \in Seq(Strings)
      /\ \A x \in Strings : StringHash[x] % n \in 0 .. n - 1
  <2>1. \A x \in Strings : StringHash[x] % n = BucketOf(s, x) /\ BucketOf(s, x) \in 0 .. n - 1
    BY StringsAre
  <2> QED
    BY <2>1, StringsAre
<1>2. U \subseteq Strings /\ \A b \in 0 .. n - 1 : Once(q[b]) /\ Among(q[b]) = In(b)
  BY DEF StringsIn, BucketsHold
<1>3. PICK to : Refills(to, s, n, m) /\ ResizedStrings(s, m) = [to[n] EXCEPT !.used = s.used]
  <2>1. n \in Nat /\ Buckets(s) = n
    BY <1>1
  <2> QED
    BY <2>1, ResizedStringsBy
<1>4. \A b \in 0 .. n : to[b] = IF b = 0 THEN AllocStrings(m) ELSE Relinked(to[b - 1], q[b - 1])
  BY <1>3 DEF Refills
<1> DEFINE S == {b \in 0 .. n : StringsIn(to[b], m, V(b))}
<1>5. 0 \in S
  <2>1. 0 \in 0 .. n /\ V(0) = {}
    BY <1>1, <1>2
  <2> HIDE DEF V
  <2> QED
    BY <2>1, <1>4, AllocStringsAre
<1>6. ASSUME NEW b \in 0 .. n - 1, b \in S PROVE b + 1 \in S
  <2>1. b + 1 \in 0 .. n /\ b + 1 # 0 /\ b + 1 - 1 = b
    BY <1>1
  <2>2. to[b + 1] = Relinked(to[b], q[b])
    BY <2>1, <1>4
  <2>3. V(b + 1) = V(b) \union In(b) /\ In(b) \intersect V(b) = {}
    <3>1. \A x \in U : StringHash[x] % n \in Int
      BY <1>1, <1>2
    <3> QED
      BY <3>1
  <2>4. StringsIn(to[b], m, V(b))
    BY <1>6
  <2> HIDE DEF V, In
  <2>5. q[b] \in Seq(Strings) /\ Once(q[b]) /\ Among(q[b]) = In(b)
    BY <1>1, <1>2
  <2> HIDE DEF q
  <2>6. StringsIn(to[b + 1], m, V(b + 1))
    BY <2>2, <2>3, <2>4, <2>5, RelinkedIs
  <2> QED
    BY <2>1, <2>6
<1> HIDE DEF S
<1>7. 0 .. n \subseteq S /\ n \in 0 .. n
  <2>1. n \in Nat /\ 0 \in S /\ \A b \in 0 .. n - 1 : b \in S => b + 1 \in S
    BY <1>1, <1>5, <1>6
  <2> QED
    BY <2>1, Induction
<1>8. V(n) = U
  BY <1>1, <1>2
<1>9. StringsIn(to[n], m, U)
  BY <1>7, <1>8 DEF S
<1> DEFINE a == to[n].list
           d == to[n].used
           e == s.used
<1>10. to[n] = [list |-> a, used |-> d] /\ a \in [0 .. m - 1 -> Seq(Strings)] /\ BucketsHold(a, m, U)
  BY <1>9 DEF StringsIn
<1>11. ResizedStrings(s, m) = [to[n] EXCEPT !.used = e]
  BY <1>3
<1> HIDE DEF a, d, e
<1>12. ResizedStrings(s, m) = [list |-> a, used |-> e]
  BY <1>10, <1>11
<1> QED
  BY <1>2, <1>10, <1>12 DEF StringsIn, e

----------------------------------------------------------------------------

\* The inductive invariant.
StringsOk == \E n : StringsIn(strings, n, used)
StringsInv == StringsOk /\ IsFiniteSet(used) /\ strings.used = Cardinality(used)

\* The table begins with its invariant.
LEMMA StringsInit == SInit => StringsInv
<1> SUFFICES ASSUME SInit PROVE StringsInv
  OBVIOUS
<1>1. strings = AllocStrings(4) /\ used = {} /\ strings.used = 0
  BY DEF SInit, AllocStrings
<1>2. StringsIn(strings, 4, used)
  BY <1>1, AllocStringsAre
<1> QED
  BY <1>1, <1>2, FS_EmptySet DEF StringsInv, StringsOk

\* A string is found exactly when it is in use.
LEMMA ContainsIs ==
  ASSUME NEW n, StringsIn(strings, n, used), NEW x \in Strings
  PROVE  Contains(strings.list[BucketOf(strings, x)], x) <=> x \in used
<1> DEFINE b == BucketOf(strings, x)
<1>1. b \in 0 .. n - 1 /\ b = StringHash[x] % n
  BY StringsAre
<1>2. Among(strings.list[b]) = {y \in used : StringHash[y] % n = b}
  BY <1>1 DEF StringsIn, BucketsHold
<1> HIDE DEF b
<1>3. Contains(strings.list[b], x) <=> x \in Among(strings.list[b])
  BY DEF Contains, Among
<1> QED
  BY <1>1, <1>2, <1>3 DEF b

\* A string comes into use.
LEMMA AddStringKeeps ==
  ASSUME StringsInv, NEW x \in Strings, AddString(x)
  PROVE  StringsInv'
<1> DEFINE p == Prepended(strings, x)
           s == [p EXCEPT !.used = @ + 1]
           U == used \union {x}
<1>1. PICK n : StringsIn(strings, n, used)
  BY DEF StringsInv, StringsOk
<1>2. used' = U /\ IsFiniteSet(used) /\ strings.used = Cardinality(used)
      /\ n \in Nat \ {0} /\ Buckets(strings) = n
  BY <1>1, StringsAre DEF AddString, StringsInv
<1>3. CASE x \in used
  <2>1. strings' = strings /\ used' = used
    BY <1>1, <1>2, <1>3, ContainsIs DEF AddString
  <2> QED
    BY <2>1 DEF StringsInv, StringsOk
<1>4. CASE x \notin used
  <2>1. StringsIn(p, n, U) /\ p.used = strings.used
    BY <1>1, <1>4, PrependedIs
  <2>2. Cardinality(U) = Cardinality(used) + 1 /\ IsFiniteSet(U)
    BY <1>2, <1>4, FS_AddElement
  <2> HIDE DEF p, U
  <2>3. StringsIn(s, n, U) /\ s.used = p.used + 1
    <3> DEFINE a == p.list
               d == p.used
    <3>1. p = [list |-> a, used |-> d] /\ a \in [0 .. n - 1 -> Seq(Strings)] /\ BucketsHold(a, n, U)
          /\ U \subseteq Strings
      BY <2>1 DEF StringsIn
    <3> HIDE DEF a, d
    <3>2. s = [list |-> a, used |-> d + 1]
      BY <3>1
    <3> HIDE DEF s
    <3> QED
      BY <3>1, <3>2, <1>2 DEF StringsIn, d
  <2>4. s.used = Cardinality(U)
    BY <2>1, <2>2, <2>3, <1>2
  <2>5. strings' = s \/ strings' = ResizedStrings(s, 2 * n)
    <3>1. ~ Contains(strings.list[BucketOf(strings, x)], x)
      BY <1>1, <1>4, ContainsIs
    <3>2. Buckets(s) = Buckets(strings)
      BY <2>3, <1>2, StringsAre
    <3>3. strings' = IF Contains(strings.list[BucketOf(strings, x)], x) THEN strings
                     ELSE IF s.used > Buckets(s) THEN ResizedStrings(s, 2 * Buckets(s)) ELSE s
      BY DEF AddString, p
    <3> HIDE DEF s
    <3> QED
      BY <3>1, <3>2, <3>3, <1>2
  <2>6. 2 * n \in Nat \ {0}
    BY <1>2
  <2> HIDE DEF s
  <2>7. StringsIn(ResizedStrings(s, 2 * n), 2 * n, U) /\ ResizedStrings(s, 2 * n).used = s.used
    BY <2>3, <2>6, ResizedStringsAre
  <2> QED
    BY <2>2, <2>3, <2>4, <2>5, <2>7, <1>2 DEF StringsInv, StringsOk
<1> QED
  BY <1>3, <1>4

\* A string goes out of use.
LEMMA RemoveStringKeeps ==
  ASSUME StringsInv, NEW x \in Strings, RemoveString(x)
  PROVE  StringsInv'
<1> DEFINE b == BucketOf(strings, x)
           q == strings.list
           l == q[b]
           i == CHOOSE j \in DOMAIN l : l[j] = x
           k == RemoveAt(l, i)
           p == [q EXCEPT ![b] = k]
           d == strings.used
           U == used \ {x}
<1>1. PICK n : StringsIn(strings, n, used)
  BY DEF StringsInv, StringsOk
<1>2. /\ used' = U /\ x \in used /\ IsFiniteSet(used) /\ d = Cardinality(used)
      /\ strings' = [strings EXCEPT !.list[b] = k, !.used = d - 1]
  BY DEF RemoveString, StringsInv
<1>3. /\ n \in Nat \ {0} /\ b \in 0 .. n - 1 /\ b = StringHash[x] % n
      /\ l \in Seq(Strings)
  BY <1>1, StringsAre
<1>4. strings = [list |-> q, used |-> d] /\ q \in [0 .. n - 1 -> Seq(Strings)]
      /\ used \subseteq Strings /\ BucketsHold(q, n, used)
  BY <1>1 DEF StringsIn
<1>5. Once(l) /\ Among(l) = {y \in used : StringHash[y] % n = b}
  BY <1>3, <1>4 DEF BucketsHold
<1>6. i \in 1 .. Len(l) /\ l[i] = x
  <2>1. x \in Among(l)
    BY <1>2, <1>3, <1>5
  <2>2. \E j \in 1 .. Len(l) : l[j] = x
    BY <2>1 DEF Among
  <2>3. DOMAIN l = 1 .. Len(l)
    BY <1>3
  <2> HIDE DEF l
  <2> QED
    BY <2>2, <2>3
<1> HIDE DEF l, i, b, d
<1>7. k \in Seq(Strings) /\ Once(k) /\ Among(k) = Among(l) \ {x}
  BY <1>3, <1>5, <1>6, OutOf
<1> HIDE DEF k
<1>8. p \in [0 .. n - 1 -> Seq(Strings)] /\ p[b] = k /\ \A c \in 0 .. n - 1 : c # b => p[c] = q[c]
  BY <1>3, <1>4, <1>7
<1>9. strings' = [list |-> p, used |-> d - 1]
  <2> HIDE DEF q
  <2> QED
    BY <1>2, <1>4
<1>10. BucketsHold(p, n, U)
  <2> SUFFICES ASSUME NEW c \in 0 .. n - 1
               PROVE  Once(p[c]) /\ Among(p[c]) = {y \in U : StringHash[y] % n = c}
    BY DEF BucketsHold
  <2> HIDE DEF p
  <2>1. CASE c = b
    BY <2>1, <1>5, <1>7, <1>8
  <2>2. CASE c # b
    <3>1. Once(q[c]) /\ Among(q[c]) = {y \in used : StringHash[y] % n = c}
      BY <1>4 DEF BucketsHold
    <3> QED
      BY <2>2, <3>1, <1>3, <1>8
  <2> QED
    BY <2>1, <2>2
<1> HIDE DEF p
<1>11. StringsIn(strings', n, U)
  BY <1>3, <1>4, <1>8, <1>9, <1>10 DEF StringsIn
<1>12. Cardinality(U) = Cardinality(used) - 1 /\ IsFiniteSet(U)
  BY <1>2, FS_RemoveElement
<1>13. strings'.used = d - 1
  BY <1>9
<1> QED
  BY <1>2, <1>11, <1>12, <1>13 DEF StringsInv, StringsOk

\* No step breaks it.
LEMMA StringsStep == StringsInv /\ [SNext]_svars => StringsInv'
<1> SUFFICES ASSUME StringsInv, [SNext]_svars PROVE StringsInv'
  OBVIOUS
<1>1. ASSUME NEW x \in Strings, AddString(x) PROVE StringsInv'
  BY <1>1, AddStringKeeps
<1>2. ASSUME NEW x \in Strings, RemoveString(x) PROVE StringsInv'
  BY <1>2, RemoveStringKeeps
<1>3. CASE UNCHANGED svars
  BY <1>3 DEF svars, StringsInv, StringsOk
<1> QED
  BY <1>1, <1>2, <1>3 DEF SNext

\* Each string once, counted.
LEMMA StringsAreUniqueFollows == StringsInv => StringsAreUnique
<1> SUFFICES ASSUME StringsInv PROVE StringsAreUnique
  OBVIOUS
<1>1. PICK n : StringsIn(strings, n, used)
  BY DEF StringsInv, StringsOk
<1>2. /\ DOMAIN strings.list = 0 .. n - 1
      /\ \A x \in Strings : BucketOf(strings, x) = StringHash[x] % n
      /\ \A b \in 0 .. n - 1 : strings.list[b] \in Seq(Strings)
  BY <1>1, StringsAre
<1>3. ASSUME NEW x \in Strings, NEW b \in DOMAIN strings.list
      PROVE  Cardinality({i \in DOMAIN strings.list[b] : strings.list[b][i] = x})
               = IF x \in used /\ b = BucketOf(strings, x) THEN 1 ELSE 0
  <2> DEFINE l == strings.list[b]
             I == {i \in DOMAIN l : l[i] = x}
  <2>1. Once(l) /\ Among(l) = {y \in used : StringHash[y] % n = b} /\ DOMAIN l = 1 .. Len(l)
    BY <1>1, <1>2 DEF StringsIn, BucketsHold
  <2> HIDE DEF l
  <2>2. CASE x \in used /\ b = BucketOf(strings, x)
    <3>1. x \in Among(l)
      BY <2>1, <2>2, <1>2
    <3>2. PICK i \in 1 .. Len(l) : l[i] = x
      BY <3>1 DEF Among
    <3>3. I = {i}
      BY <3>2, <2>1 DEF Once
    <3> QED
      BY <2>2, <3>3, FS_Singleton DEF l
  <2>3. CASE ~ (x \in used /\ b = BucketOf(strings, x))
    <3>1. x \notin Among(l)
      BY <2>1, <2>3, <1>2
    <3>2. I = {}
      BY <3>1, <2>1 DEF Among
    <3> QED
      BY <2>3, <3>2, FS_EmptySet DEF l
  <2> QED
    BY <2>2, <2>3
<1> QED
  BY <1>3 DEF StringsAreUnique, StringsInv

(* One object for each string in use, on the list it is looked for on,     *)
(* whatever is added and removed and however often the table grows.        *)
THEOREM StringsAreUniqueHolds == SSpec => []StringsAreUnique
BY StringsInit, StringsStep, StringsAreUniqueFollows, PTL DEF SSpec
=============================================================================
