--------------------------- MODULE SqTableProofs ----------------------------
(***************************************************************************)
(* The hash table of the Squirrel VM, for any keys, hashes and values and  *)
(* any tables: it implements the dictionary, and a foreach is exact.       *)
(*                                                                         *)
(* A key is found from its main position.  That is so because chains are   *)
(* paths (OnePrev, AllEnd), because a node in which a chain goes on is     *)
(* above _firstfree, so that no chain runs through a free node, and        *)
(* because a key that is not in its main position is never in that of      *)
(* another (Home): moving it out of the way cuts no chain that starts      *)
(* there.                                                                  *)
(*                                                                         *)
(* A loop of the code over nodes is a function of how far it has come, and *)
(* what it does is proved by induction on a set of numbers.                *)
(***************************************************************************)
EXTENDS SqTable, FiniteSetTheorems, WellFoundedInduction, TLAPS

Node == [key : Keys \union {Null}, val : Vals \union {Null}, next : Int]

\* an array of n nodes
Array(a, n) ==
  /\ n \in Nat \ {0}
  /\ a \in [0 .. n - 1 -> Node]
  /\ \A i \in 0 .. n - 1 : a[i].next \in (0 .. n - 1) \union {None}

InUse(a) == {i \in DOMAIN a : a[i].key # Null}

\* the main positions of the keys in n nodes
Mains(n) == [k \in Keys |-> Hash[k] % n]

\* Where the chain that starts in i leads.
ClosedIn(a, S) == \A i \in S : a[i].next \in S \union {None}
Leads(a, i, j) == \A S \in SUBSET DOMAIN a : i \in S /\ ClosedIn(a, S) => j \in S

OnePrev(a) ==
  \A i, j \in DOMAIN a : a[i].next # None /\ a[i].next = a[j].next => i = j

AllEnd(a) == \A S \in SUBSET DOMAIN a : S # {} => \E i \in S : a[i].next \notin S

AllLead(a, h) == \A i \in InUse(a) : Leads(a, h[a[i].key], i)

OneEach(a) == \A i, j \in InUse(a) : a[i].key = a[j].key => i = j

Home(a, h) == \A i, j \in InUse(a) : h[a[j].key] = i => h[a[i].key] = i

Good(a, h) == OnePrev(a) /\ AllEnd(a) /\ AllLead(a, h) /\ OneEach(a) /\ Home(a, h)

\* what _firstfree is
Unused(a, f) ==
  /\ f \in DOMAIN a
  /\ a[f].key = Null /\ a[f].next = None
  /\ \A i \in DOMAIN a : a[i].next # None => a[i].next > f

Pairs(a) == {<<a[i].key, a[i].val>> : i \in InUse(a)}

\* Sizes that the table has: 4, and what doubling makes of it.
Powers ==
  {n \in Nat : \A S \in SUBSET Nat : 4 \in S /\ (\A m \in S : 2 * m \in S) => n \in S}

Sound(t) ==
  /\ t = [node |-> t.node, free |-> t.free, used |-> t.used, full |-> t.full]
  /\ Array(t.node, Size(t))
  /\ Good(t.node, Mains(Size(t)))
  /\ Unused(t.node, t.free)
  /\ t.used = Cardinality(InUse(t.node))
  /\ t.full = FALSE

\* what a table is in which nothing has been deleted
Fresh(t) ==
  \A i \in DOMAIN t.node : t.node[i].key = Null => t.node[i].next = None /\ i <= t.free

LoopTyped ==
  /\ at \in Int /\ (at = None \/ at >= 0)
  /\ stayed \subseteq Keys
  /\ visits \in [Keys -> Int]
  /\ \A k \in stayed : Find(table, k) # None

IInv == Sound(table) /\ Size(table) \in Powers /\ LoopTyped /\ LoopIsExact
----------------------------------------------------------------------------
(* Induction *)

LEMMA Least ==
  ASSUME NEW S \in SUBSET Nat, S # {}
  PROVE  \E n \in S : \A m \in S : n <= m
<1> DEFINE R == OpToRel(<, Nat)
<1>1. IsWellFoundedOn(R, Nat)
  BY NatLessThanWellFounded
<1> HIDE DEF R
<1>2. PICK n \in S : \A m \in S : ~ (<<m, n>> \in R)
  BY <1>1, WFMin
<1>3. \A m \in S : ~ (m < n)
  BY <1>2 DEF R, OpToRel
<1> QED
  BY <1>3

LEMMA Induction ==
  ASSUME NEW n \in Nat, NEW S, 0 \in S, \A m \in 0 .. n - 1 : m \in S => m + 1 \in S
  PROVE  0 .. n \subseteq S
<1> DEFINE T == {m \in 0 .. n : m \notin S}
<1> SUFFICES ASSUME T # {} PROVE FALSE
  OBVIOUS
<1>1. T \in SUBSET Nat
  OBVIOUS
<1> HIDE DEF T
<1>2. PICK m \in T : \A k \in T : m <= k
  BY <1>1, Least
<1>3. m \in 0 .. n /\ m \notin S
  BY DEF T
<1>4. m - 1 \in 0 .. n - 1 /\ m - 1 \notin T
  BY <1>2, <1>3
<1>5. m - 1 \in S
  BY <1>4 DEF T
<1> QED
  BY <1>3, <1>4, <1>5

LEMMA Greatest ==
  ASSUME NEW n \in Nat, NEW S \in SUBSET (0 .. n), S # {}
  PROVE  Max(S) \in S /\ \A m \in S : m <= Max(S)
<1> DEFINE T == {n - m : m \in S}
<1>1. T \in SUBSET Nat /\ T # {}
  <2>1. \A m \in S : n - m \in Nat
    OBVIOUS
  <2>2. PICK m \in S : TRUE
    OBVIOUS
  <2>3. n - m \in T
    BY <2>2
  <2> QED
    BY <2>1, <2>3
<1> HIDE DEF T
<1>2. PICK d \in T : \A e \in T : d <= e
  BY <1>1, Least
<1>3. PICK x \in S : d = n - x
  BY DEF T
<1>4. \A m \in S : n - m \in T
  BY DEF T
<1>5. \A m \in S : x >= m
  BY <1>2, <1>3, <1>4
<1> QED
  BY <1>5 DEF Max

\* The last element of a set of indices, as Next and _firstfree use it.
LEMMA Smallest ==
  ASSUME NEW S \in SUBSET Nat, S # {}
  PROVE  Min(S) \in S /\ \A m \in S : Min(S) <= m
BY Least DEF Min

----------------------------------------------------------------------------
(* Looking a key up *)

USE TableAssumption

LEMMA Remainder ==
  ASSUME NEW n \in Nat \ {0}, NEW x \in Nat
  PROVE  x % n \in 0 .. n - 1
OBVIOUS

LEMMA SizeIs ==
  ASSUME NEW t, NEW n, Array(t.node, n)
  PROVE  /\ Size(t) = n /\ DOMAIN t.node = 0 .. n - 1
         /\ Mains(n) \in [Keys -> 0 .. n - 1]
         /\ \A k \in Keys : MainPos(t, k) = Mains(n)[k]
         /\ \A k \in Keys \union {Null} : MainPos(t, k) \in 0 .. n - 1
<1>1. n \in Nat \ {0} /\ DOMAIN t.node = 0 .. n - 1
  BY DEF Array
<1>2. Cardinality(0 .. n - 1) = n
  BY <1>1, FS_Interval
<1>3. Size(t) = n
  BY <1>1, <1>2 DEF Size
<1>4. \A k \in Keys : Hash[k] % n \in 0 .. n - 1
  BY <1>1, Remainder
<1> QED
  BY <1>1, <1>3, <1>4 DEF Mains, MainPos

\* What the type of an array says of its indices.
LEMMA ArrayIs ==
  ASSUME NEW a, NEW n, Array(a, n)
  PROVE  /\ n \in Nat \ {0} /\ DOMAIN a = 0 .. n - 1 /\ None \notin 0 .. n - 1
         /\ None \notin DOMAIN a
         /\ \A i \in DOMAIN a : /\ a[i] \in Node /\ a[i].next \in DOMAIN a \union {None}
                               /\ a[i].key \in Keys \union {Null}
         /\ \A i \in InUse(a) : i \in DOMAIN a /\ a[i].key \in Keys /\ a[i].key # Null
         /\ Null \notin Keys
<1>1. n \in Nat \ {0} /\ DOMAIN a = 0 .. n - 1 /\ \A i \in DOMAIN a : a[i] \in Node
  BY DEF Array
<1>2. None \notin 0 .. n - 1
  BY <1>1 DEF None
<1>3. \A i \in DOMAIN a : a[i].next \in DOMAIN a \union {None} /\ a[i].key \in Keys \union {Null}
  BY <1>1 DEF Array, Node
<1> QED
  BY <1>1, <1>2, <1>3 DEF InUse

LEMMA UnusedIs ==
  ASSUME NEW a, NEW n, Array(a, n), NEW f, Unused(a, f)
  PROVE  /\ f \in DOMAIN a /\ f \in 0 .. n - 1 /\ a[f].next = None /\ a[f].key = Null
         /\ \A i \in DOMAIN a : a[i].next # f /\ (a[i].next # None => a[i].next > f)
<1>1. DOMAIN a = 0 .. n - 1 /\ n \in Nat \ {0} /\ None \notin 0 .. n - 1
  BY ArrayIs
<1>2. f \in 0 .. n - 1 /\ f # None
  BY <1>1 DEF Unused
<1>3. ASSUME NEW i \in DOMAIN a PROVE a[i].next # f /\ (a[i].next # None => a[i].next > f)
  <2>1. a[i].next # None => a[i].next > f
    BY DEF Unused
  <2>2. CASE a[i].next = None
    BY <1>2, <2>2
  <2>3. CASE a[i].next > f
    BY <1>2, <2>3
  <2> QED
    BY <2>1, <2>2, <2>3
<1> QED
  BY <1>2, <1>3 DEF Unused

\* search is defined: from each node it finds the first one with the key.
LEMMA SearchIs ==
  ASSUME NEW a, NEW n, Array(a, n), NEW k
  PROVE  \E f : f = [i \in DOMAIN a |-> IF a[i].key = k THEN i
                                       ELSE IF a[i].next = None THEN None ELSE f[a[i].next]]
<1> DEFINE D == DOMAIN a
           Upto(S) == \A i \in S : a[i].key # k => a[i].next \in S \union {None}
           Firsts(i) == {j \in D : a[j].key = k /\ \A S \in SUBSET D : i \in S /\ Upto(S) => j \in S}
           First(i) == IF Firsts(i) = {} THEN None ELSE CHOOSE j \in D : j \in Firsts(i)
           f == [i \in D |-> First(i)]
<1>1. ASSUME NEW i \in D
      PROVE  a[i].next \in D \union {None}
  BY DEF Array
<1>2. ASSUME NEW i \in D, a[i].key = k
      PROVE  First(i) = i
  <2>1. Upto({i})
    BY <1>2
  <2>2. i \in Firsts(i)
    BY <1>2
  <2>3. ASSUME NEW j \in Firsts(i) PROVE j = i
    <3>1. \A S \in SUBSET D : i \in S /\ Upto(S) => j \in S
      BY <2>3
    <3>2. {i} \in SUBSET D
      OBVIOUS
    <3> HIDE DEF Upto, Firsts, D
    <3>3. j \in {i}
      BY <2>1, <3>1, <3>2
    <3> QED
      BY <3>3
  <2> HIDE DEF Firsts, D
  <2> QED
    BY <2>2, <2>3
<1>3. ASSUME NEW i \in D, a[i].key # k, a[i].next = None
      PROVE  First(i) = None
  <2>1. Upto({i})
    BY <1>3
  <2>2. ASSUME NEW j \in Firsts(i) PROVE FALSE
    <3>1. a[j].key = k /\ \A S \in SUBSET D : i \in S /\ Upto(S) => j \in S
      BY <2>2
    <3> HIDE DEF Upto
    <3>2. j \in {i}
      BY <2>1, <3>1
    <3> QED
      BY <1>3, <3>1, <3>2
  <2> HIDE DEF Firsts
  <2> QED
    BY <2>2
<1>4. ASSUME NEW i \in D, a[i].key # k, a[i].next # None
      PROVE  First(i) = First(a[i].next) /\ a[i].next \in D
  <2> DEFINE x == a[i].next
  <2>1. x \in D
    BY <1>1, <1>4
  <2>2. ASSUME NEW j \in Firsts(i) PROVE j \in Firsts(x)
    <3>1. ASSUME NEW S \in SUBSET D, x \in S, Upto(S) PROVE j \in S
      <4>1. Upto(S \union {i}) /\ S \union {i} \in SUBSET D
        BY <3>1
      <4>2. j \in S \union {i} /\ a[j].key = k
        BY <4>1, <2>2
      <4> QED
        BY <4>2, <1>4
    <3> QED
      BY <3>1, <2>2
  <2>3. ASSUME NEW j \in Firsts(x) PROVE j \in Firsts(i)
    <3>1. ASSUME NEW S \in SUBSET D, i \in S, Upto(S) PROVE x \in S
      BY <3>1, <1>4
    <3> HIDE DEF Upto, x
    <3> QED
      BY <3>1, <2>3
  <2>4. Firsts(i) = Firsts(x)
    BY <2>2, <2>3
  <2> HIDE DEF Firsts
  <2> QED
    BY <2>1, <2>4
<1> HIDE DEF First, D
<1>5. ASSUME NEW i \in D
      PROVE  f[i] = IF a[i].key = k THEN i ELSE IF a[i].next = None THEN None ELSE f[a[i].next]
  BY <1>2, <1>3, <1>4
<1>6. f = [i \in D |-> IF a[i].key = k THEN i ELSE IF a[i].next = None THEN None ELSE f[a[i].next]]
  <2> DEFINE G == [i \in D |-> IF a[i].key = k THEN i ELSE IF a[i].next = None THEN None ELSE f[a[i].next]]
  <2>1. DOMAIN f = DOMAIN G /\ \A i \in D : f[i] = G[i]
    BY <1>5
  <2> QED
    BY <2>1
<1> HIDE DEF f
<1> QED
  BY <1>6 DEF D

\* What _Get finds has the key, and it finds what the chain leads to.
LEMMA FindIs ==
  ASSUME NEW t, NEW n, Array(t.node, n), AllEnd(t.node), NEW k \in Keys \union {Null}
  PROVE  /\ Find(t, k) \in DOMAIN t.node \union {None}
         /\ Find(t, k) # None => t.node[Find(t, k)].key = k
         /\ \A j \in DOMAIN t.node :
              t.node[j].key = k /\ Leads(t.node, MainPos(t, k), j) => Find(t, k) # None
<1> DEFINE a == t.node
           D == DOMAIN a
           Is(f) == f = [i \in D |-> IF a[i].key = k THEN i
                                    ELSE IF a[i].next = None THEN None ELSE f[a[i].next]]
           s == CHOOSE f : Is(f)
<1>1. Find(t, k) = s[MainPos(t, k)]
  BY DEF Find
<1>2. Is(s)
  <2>1. \E f : Is(f)
    BY SearchIs
  <2> QED
    BY <2>1
<1> HIDE DEF s
<1>3. \A i \in D : s[i] = IF a[i].key = k THEN i ELSE IF a[i].next = None THEN None ELSE s[a[i].next]
  BY <1>2
<1>4. D = 0 .. n - 1 /\ MainPos(t, k) \in D /\ None \notin D
      /\ \A i \in D : a[i].next \in D \union {None}
  <2>1. D = 0 .. n - 1 /\ MainPos(t, k) \in 0 .. n - 1
    BY SizeIs
  <2>2. n \in Nat /\ \A i \in 0 .. n - 1 : a[i].next \in (0 .. n - 1) \union {None}
    BY DEF Array
  <2>3. None \notin 0 .. n - 1
    BY <2>2 DEF None
  <2> QED
    BY <2>1, <2>2, <2>3
<1>5. \A i \in D : s[i] \in D \union {None} /\ (s[i] # None => a[s[i]].key = k)
  <2> DEFINE B == {i \in D : ~ (s[i] \in D \union {None} /\ (s[i] # None => a[s[i]].key = k))}
  <2> SUFFICES ASSUME B # {} PROVE FALSE
    OBVIOUS
  <2>1. PICK i \in B : a[i].next \notin B
    BY DEF AllEnd
  <2> QED
    BY <2>1, <1>3, <1>4
<1>6. ASSUME NEW j \in D, a[j].key = k, Leads(a, MainPos(t, k), j), s[MainPos(t, k)] = None
      PROVE  FALSE
  <2> DEFINE S == {i \in D : s[i] = None}
  <2>1. ClosedIn(a, S)
    BY <1>3, <1>4 DEF ClosedIn
  <2>2. j \in S
    BY <2>1, <1>4, <1>6 DEF Leads
  <2> QED
    BY <2>2, <1>3, <1>4, <1>6
<1> QED
  BY <1>1, <1>4, <1>5, <1>6
\* A key is found where it is.
LEMMA FindKey ==
  ASSUME NEW t, NEW n, Array(t.node, n), Good(t.node, Mains(n)), NEW k \in Keys
  PROVE  /\ Find(t, k) \in (0 .. n - 1) \union {None}
         /\ Find(t, k) # None => Find(t, k) \in InUse(t.node) /\ t.node[Find(t, k)].key = k
         /\ \A i \in InUse(t.node) : t.node[i].key = k => Find(t, k) = i
         /\ Find(t, k) = None <=> \A i \in InUse(t.node) : t.node[i].key # k
<1> DEFINE a == t.node
<1>1. /\ DOMAIN a = 0 .. n - 1 /\ MainPos(t, k) = Mains(n)[k]
      /\ n \in Nat /\ None \notin 0 .. n - 1 /\ k # Null
  <2>1. /\ DOMAIN t.node = 0 .. n - 1 /\ n \in Nat \ {0} /\ None \notin 0 .. n - 1 /\ Null \notin Keys
    BY ArrayIs
  <2>2. MainPos(t, k) = Mains(n)[k]
    BY SizeIs
  <2> QED
    BY <2>1, <2>2
<1>2. /\ Find(t, k) \in DOMAIN a \union {None}
      /\ Find(t, k) # None => a[Find(t, k)].key = k
      /\ \A j \in DOMAIN a : a[j].key = k /\ Leads(a, MainPos(t, k), j) => Find(t, k) # None
  BY FindIs DEF Good
<1>3. Find(t, k) # None => Find(t, k) \in InUse(a)
  BY <1>1, <1>2 DEF InUse
<1>4. ASSUME NEW i \in InUse(a), a[i].key = k
      PROVE  Find(t, k) = i
  <2>1. Leads(a, MainPos(t, k), i) /\ i \in DOMAIN a
    BY <1>1, <1>4 DEF Good, AllLead, InUse
  <2>2. Find(t, k) # None
    BY <1>2, <1>4, <2>1
  <2> QED
    BY <1>2, <1>3, <1>4, <2>2 DEF Good, OneEach
<1>5. Find(t, k) = None => \A i \in InUse(a) : a[i].key # k
  BY <1>1, <1>4 DEF InUse
<1> QED
  BY <1>1, <1>2, <1>3, <1>4, <1>5

LEMMA FindNone ==
  ASSUME NEW t, NEW n, Array(t.node, n), Good(t.node, Mains(n)), NEW k \in Keys
  PROVE  Find(t, k) = None <=> \A i \in InUse(t.node) : t.node[i].key # k
BY FindKey

LEMMA FindThere ==
  ASSUME NEW t, NEW n, Array(t.node, n), Good(t.node, Mains(n)), NEW k \in Keys, Find(t, k) # None
  PROVE  Find(t, k) \in InUse(t.node) /\ t.node[Find(t, k)].key = k
BY FindKey

LEMMA SameFinds ==
  ASSUME NEW t, NEW u, NEW n, Array(t.node, n), Good(t.node, Mains(n)),
         Array(u.node, n), Good(u.node, Mains(n)), InUse(u.node) = InUse(t.node),
         \A i \in InUse(t.node) : u.node[i].key = t.node[i].key, NEW j \in Keys
  PROVE  Find(u, j) = Find(t, j)
<1>1. CASE Find(t, j) = None
  <2>1. \A i \in InUse(t.node) : t.node[i].key # j
    BY <1>1, FindNone
  <2>2. \A i \in InUse(u.node) : u.node[i].key # j
    BY <2>1
  <2>3. Find(u, j) = None
    BY <2>2, FindNone
  <2> QED
    BY <1>1, <2>3
<1>2. CASE Find(t, j) # None
  <2> DEFINE i == Find(t, j)
  <2>1. i \in InUse(t.node) /\ t.node[i].key = j
    BY <1>2, FindThere
  <2> HIDE DEF i
  <2>2. i \in InUse(u.node) /\ u.node[i].key = j
    BY <2>1
  <2>3. Find(u, j) = i
    BY <2>2, FindKey
  <2> QED
    BY <2>3 DEF i
<1> QED
  BY <1>1, <1>2

\* What a table contains, by its nodes.
LEMMA ContentsIs ==
  ASSUME NEW t, NEW n, Array(t.node, n), Good(t.node, Mains(n))
  PROVE  /\ DOMAIN Contents(t) = {t.node[i].key : i \in InUse(t.node)}
         /\ \A i \in InUse(t.node) : Contents(t)[t.node[i].key] = t.node[i].val
<1>1. \A i \in InUse(t.node) : t.node[i].key \in Keys
  BY DEF InUse, Array, Node
<1>2. ASSUME NEW i \in InUse(t.node)
      PROVE  Find(t, t.node[i].key) = i /\ i # None
  <2>1. i # None
    BY ArrayIs
  <2>2. t.node[i].key \in Keys
    BY <1>1
  <2> QED
    BY <2>1, <2>2, FindKey
<1>3. ASSUME NEW k \in Keys, Find(t, k) # None
      PROVE  k \in {t.node[i].key : i \in InUse(t.node)}
  <2>1. Find(t, k) \in InUse(t.node) /\ t.node[Find(t, k)].key = k
    BY <1>3, FindKey
  <2> QED
    BY <2>1
<1> QED
  BY <1>1, <1>2, <1>3 DEF Contents

----------------------------------------------------------------------------
(* Chains *)

\* What a chain leads to, but its start, has a node before it.
LEMMA HasPrev ==
  ASSUME NEW a, NEW i \in DOMAIN a, NEW j \in DOMAIN a, Leads(a, i, j), i # j, AllEnd(a),
         \A x \in DOMAIN a : a[x].next \in DOMAIN a \union {None}, None \notin DOMAIN a
  PROVE  \E p \in DOMAIN a : a[p].next = j /\ p # j
<1> SUFFICES ASSUME \A p \in DOMAIN a : a[p].next = j => p = j PROVE FALSE
  OBVIOUS
<1>1. a[j].next # j
  <2>1. {j} \in SUBSET DOMAIN a /\ {j} # {}
    OBVIOUS
  <2> QED
    BY <2>1 DEF AllEnd
<1>2. ClosedIn(a, DOMAIN a \ {j})
  BY <1>1 DEF ClosedIn
<1>3. DOMAIN a \ {j} \in SUBSET DOMAIN a /\ i \in DOMAIN a \ {j}
  OBVIOUS
<1> QED
  BY <1>2, <1>3 DEF Leads

\* A node up to _firstfree is in its main position.
LEMMA BelowFree ==
  ASSUME NEW a, NEW n, Array(a, n), NEW h \in [Keys -> 0 .. n - 1], Good(a, h),
         NEW f, Unused(a, f), NEW m \in InUse(a), m <= f
  PROVE  h[a[m].key] = m
<1> SUFFICES ASSUME h[a[m].key] # m PROVE FALSE
  OBVIOUS
<1>1. /\ DOMAIN a = 0 .. n - 1 /\ n \in Nat /\ a[m].key \in Keys /\ m \in 0 .. n - 1
      /\ None \notin DOMAIN a
  BY ArrayIs
<1>2. \A x \in DOMAIN a : a[x].next \in DOMAIN a \union {None}
  BY ArrayIs
<1> DEFINE x == h[a[m].key]
<1>3. x \in DOMAIN a /\ Leads(a, x, m) /\ AllEnd(a)
  BY <1>1 DEF Good, AllLead
<1>4. x # m /\ m \in DOMAIN a
  BY <1>1
<1> HIDE DEF x
<1>5. PICK p \in DOMAIN a : a[p].next = m
  BY <1>1, <1>2, <1>3, <1>4, HasPrev
<1>6. f \in 0 .. n - 1 /\ (a[p].next # None => a[p].next > f)
  BY UnusedIs
<1>7. m > f
  BY <1>1, <1>4, <1>5, <1>6
<1> QED
  BY <1>1, <1>6, <1>7

----------------------------------------------------------------------------
(* The three ways in which a key is placed *)

\* Its main position has no key.
LEMMA GoodAtMain ==
  ASSUME NEW a, NEW n, Array(a, n), NEW h \in [Keys -> 0 .. n - 1], Good(a, h),
         NEW k \in Keys, \A i \in InUse(a) : a[i].key # k,
         a[h[k]].key = Null
  PROVE  Good([a EXCEPT ![h[k]].key = k], h)
<1> DEFINE m == h[k]
           b == [a EXCEPT ![m].key = k]
<1>1. m \in DOMAIN a /\ DOMAIN b = DOMAIN a /\ k # Null /\ DOMAIN a = 0 .. n - 1
  BY DEF Array
<1>2. \A i \in DOMAIN a : b[i].next = a[i].next /\ b[i].key = IF i = m THEN k ELSE a[i].key
  BY <1>1 DEF Array, Node
<1>3. a[m].key = Null /\ h[k] = m
  OBVIOUS
<1> HIDE DEF b, m
<1>4. /\ InUse(b) = InUse(a) \union {m} /\ m \notin InUse(a)
      /\ \A x \in InUse(b) : (x = m /\ b[x].key = k) \/ (x \in InUse(a) /\ b[x].key = a[x].key)
  <2>1. InUse(a) \subseteq DOMAIN a /\ m \notin InUse(a)
    BY <1>3 DEF InUse
  <2>2. InUse(b) = InUse(a) \union {m}
    BY <1>1, <1>2, <1>3 DEF InUse
  <2>3. ASSUME NEW x \in InUse(b)
        PROVE  (x = m /\ b[x].key = k) \/ (x \in InUse(a) /\ b[x].key = a[x].key)
    <3>1. x = m \/ (x \in InUse(a) /\ x \in DOMAIN a /\ x # m)
      BY <2>1, <2>2
    <3> QED
      BY <1>1, <1>2, <3>1
  <2> QED
    BY <2>1, <2>2, <2>3
<1>5. OnePrev(b) /\ AllEnd(b)
  BY <1>1, <1>2 DEF Good, OnePrev, AllEnd
<1>6. \A S \in SUBSET DOMAIN a : ClosedIn(b, S) => ClosedIn(a, S)
  BY <1>2 DEF ClosedIn
<1>7. \A i, j \in DOMAIN a : Leads(a, i, j) => Leads(b, i, j)
  BY <1>1, <1>6 DEF Leads
<1>8. AllLead(b, h)
  <2> SUFFICES ASSUME NEW i \in InUse(b) PROVE Leads(b, h[b[i].key], i)
    BY DEF AllLead
  <2>1. CASE i = m
    BY <1>1, <1>2, <1>3, <2>1 DEF Leads
  <2>2. CASE i # m
    <3>1. i \in InUse(a) /\ b[i].key = a[i].key /\ a[i].key \in Keys /\ i \in DOMAIN a
      BY <1>2, <1>4, <2>2 DEF InUse, Array, Node
    <3> QED
      BY <1>1, <1>7, <3>1 DEF Good, AllLead
  <2> QED
    BY <2>1, <2>2
<1>9. OneEach(b)
  <2> SUFFICES ASSUME NEW i \in InUse(b), NEW j \in InUse(b), b[i].key = b[j].key PROVE i = j
    BY DEF OneEach
  <2> QED
    BY <1>4 DEF Good, OneEach
<1>10. Home(b, h)
  <2> SUFFICES ASSUME NEW i \in InUse(b), NEW j \in InUse(b), h[b[j].key] = i
               PROVE  h[b[i].key] = i
    BY DEF Home
  <2> QED
    BY <1>3, <1>4 DEF Good, Home
<1> QED
  BY <1>5, <1>8, <1>9, <1>10 DEF Good, b, m
\* The key there is in its main position: the new one goes to the free node,
\* next in the chain.
LEMMA GoodAtFree ==
  ASSUME NEW a, NEW n, Array(a, n), NEW h \in [Keys -> 0 .. n - 1], Good(a, h),
         NEW f, Unused(a, f),
         NEW k \in Keys, \A i \in InUse(a) : a[i].key # k,
         NEW m, m = h[k], a[m].key # Null, h[a[m].key] = m,
         NEW b, DOMAIN b = DOMAIN a,
         \A i \in DOMAIN a :
           /\ b[i].key = IF i = f THEN k ELSE a[i].key
           /\ b[i].next = IF i = m THEN f ELSE IF i = f THEN a[m].next ELSE a[i].next
  PROVE  Good(b, h) /\ \A i \in DOMAIN a : b[i].next # None => b[i].next >= f
<1>1. /\ DOMAIN a = 0 .. n - 1 /\ n \in Nat /\ None \notin DOMAIN a /\ k # Null
      /\ \A i \in DOMAIN a : a[i].next \in DOMAIN a \union {None}
  BY ArrayIs
<1>2. m \in DOMAIN a /\ f \in DOMAIN a /\ m # f
  BY <1>1 DEF Unused
<1>3. a[f].next = None /\ a[f].key = Null /\ \A i \in DOMAIN a : a[i].next # f /\ (a[i].next # None => a[i].next > f)
  BY UnusedIs
<1>4. /\ InUse(b) = InUse(a) \union {f} /\ f \notin InUse(a) /\ m \in InUse(a)
      /\ \A x \in InUse(b) : (x = f /\ b[x].key = k) \/ (x \in InUse(a) /\ b[x].key = a[x].key)
  <2>1. InUse(a) \subseteq DOMAIN a /\ f \notin InUse(a) /\ m \in InUse(a)
    BY <1>2, <1>3 DEF InUse
  <2>2. InUse(b) = InUse(a) \union {f}
    BY <1>1, <1>2, <1>3 DEF InUse
  <2>3. ASSUME NEW x \in InUse(b)
        PROVE  (x = f /\ b[x].key = k) \/ (x \in InUse(a) /\ b[x].key = a[x].key)
    <3>1. x = f \/ (x \in InUse(a) /\ x \in DOMAIN a /\ x # f)
      BY <2>1, <2>2
    <3> QED
      BY <1>1, <1>2, <3>1
  <2> QED
    BY <2>1, <2>2, <2>3
<1>5. OnePrev(b)
  BY <1>1, <1>2, <1>3 DEF Good, OnePrev
<1>6. AllEnd(b)
  <2> SUFFICES ASSUME NEW S \in SUBSET DOMAIN a, S # {} PROVE \E i \in S : b[i].next \notin S
    BY DEF AllEnd
  <2>1. CASE S = {f}
    BY <1>1, <1>2, <1>3, <2>1
  <2>2. CASE S # {f}
    <3>0. S \ {f} \in SUBSET DOMAIN a /\ S \ {f} # {}
      BY <2>2
    <3>1. PICK i \in S \ {f} : a[i].next \notin S \ {f}
      BY <3>0 DEF Good, AllEnd
    <3>2. CASE i # m
      BY <1>3, <3>1, <3>2
    <3>3. CASE i = m
      BY <1>2, <1>3, <3>1, <3>3
    <3> QED
      BY <3>2, <3>3
  <2> QED
    BY <2>1, <2>2
<1>7. \A S \in SUBSET DOMAIN a : ClosedIn(b, S) => ClosedIn(a, S) /\ (m \in S => f \in S)
  <2> SUFFICES ASSUME NEW S \in SUBSET DOMAIN a, ClosedIn(b, S)
               PROVE  ClosedIn(a, S) /\ (m \in S => f \in S)
    OBVIOUS
  <2>1. m \in S => f \in S
    BY <1>1, <1>2 DEF ClosedIn
  <2>2. ASSUME NEW i \in S PROVE a[i].next \in S \union {None}
    BY <1>2, <1>3, <2>1 DEF ClosedIn
  <2> QED
    BY <2>1, <2>2 DEF ClosedIn
<1>8. \A i, j \in DOMAIN a : Leads(a, i, j) => Leads(b, i, j)
  BY <1>7 DEF Leads
<1>9. Leads(b, m, f)
  BY <1>7 DEF Leads
<1>10. AllLead(b, h)
  <2> SUFFICES ASSUME NEW i \in InUse(b) PROVE Leads(b, h[b[i].key], i)
    BY DEF AllLead
  <2>1. CASE i = f
    BY <1>2, <1>9, <2>1
  <2>2. CASE i # f
    <3>1. i \in InUse(a) /\ b[i].key = a[i].key
      BY <1>4, <2>2
    <3>2. a[i].key \in Keys /\ i \in DOMAIN a
      BY <3>1, ArrayIs
    <3> QED
      BY <1>1, <1>8, <3>1, <3>2 DEF Good, AllLead
  <2> QED
    BY <2>1, <2>2
<1>11. OneEach(b)
  <2> SUFFICES ASSUME NEW i \in InUse(b), NEW j \in InUse(b), b[i].key = b[j].key PROVE i = j
    BY DEF OneEach
  <2> QED
    BY <1>4 DEF Good, OneEach
<1>12. Home(b, h)
  <2> SUFFICES ASSUME NEW i \in InUse(b), NEW j \in InUse(b), h[b[j].key] = i
               PROVE  h[b[i].key] = i
    BY DEF Home
  \* nothing has a node as its main position that no chain goes on from
  <2>1. ASSUME i = f, j # f PROVE FALSE
    <3>1. j \in InUse(a) /\ h[a[j].key] = f
      BY <1>4, <2>1
    <3>2. Leads(a, f, j) /\ j \in DOMAIN a
      BY <3>1, ArrayIs DEF Good, AllLead
    <3>3. {f} \in SUBSET DOMAIN a /\ ClosedIn(a, {f})
      BY <1>2, <1>3 DEF ClosedIn
    <3>4. j \in {f}
      BY <3>2, <3>3 DEF Leads
    <3> QED
      BY <2>1, <3>4
  <2>2. CASE i = f /\ j = f
    BY <2>2
  <2>3. CASE i # f /\ j = f
    BY <1>2, <1>4, <2>3
  <2>4. CASE i # f /\ j # f
    BY <1>4, <2>4 DEF Good, Home
  <2> QED
    BY <2>1, <2>2, <2>3, <2>4
<1>13. \A i \in DOMAIN a : b[i].next # None => b[i].next >= f
  BY <1>1, <1>2, <1>3
<1> QED
  BY <1>5, <1>6, <1>10, <1>11, <1>12, <1>13 DEF Good

\* The key there is not in its main position: it moves to the free node.
Moved(a, f, k, m, p, b) ==
  /\ DOMAIN b = DOMAIN a
  /\ \A i \in DOMAIN a :
       /\ b[i].key = IF i = m THEN k ELSE IF i = f THEN a[m].key ELSE a[i].key
       /\ b[i].next = IF i = m THEN None ELSE IF i = f THEN a[m].next
                      ELSE IF i = p THEN f ELSE a[i].next

LEMMA GoodMoved ==
  ASSUME NEW a, NEW n, Array(a, n), NEW h \in [Keys -> 0 .. n - 1], Good(a, h),
         NEW f, Unused(a, f),
         NEW k \in Keys, \A i \in InUse(a) : a[i].key # k,
         NEW m, m = h[k], a[m].key # Null, h[a[m].key] # m,
         NEW p, p \in DOMAIN a, a[p].next = m,
         NEW b, Moved(a, f, k, m, p, b)
  PROVE  Good(b, h) /\ \A i \in DOMAIN a : b[i].next # None => b[i].next >= f
<1> USE DEF Moved
<1>1. /\ DOMAIN a = 0 .. n - 1 /\ n \in Nat /\ None \notin DOMAIN a /\ k # Null
      /\ \A i \in DOMAIN a : a[i].next \in DOMAIN a \union {None}
  BY ArrayIs
<1>2. m \in DOMAIN a /\ f \in DOMAIN a /\ m # f
  BY <1>1 DEF Unused
<1>3. a[f].next = None /\ a[f].key = Null /\ \A i \in DOMAIN a : a[i].next # f /\ (a[i].next # None => a[i].next > f)
  BY UnusedIs
<1>4. p # m /\ p # f /\ a[m].next # m /\ \A i \in DOMAIN a : a[i].next = m => i = p
  <2>1. {m} \in SUBSET DOMAIN a /\ {m} # {}
    BY <1>2
  <2>2. a[m].next # m
    <3>1. AllEnd(a)
      BY DEF Good
    <3>2. PICK i \in {m} : a[i].next \notin {m}
      BY <2>1, <3>1 DEF AllEnd
    <3> QED
      BY <3>2
  <2>3. m # None
    BY <1>1, <1>2
  <2> QED
    BY <1>2, <1>3, <2>2, <2>3 DEF Good, OnePrev
<1>5. /\ InUse(b) = InUse(a) \union {f} /\ f \notin InUse(a) /\ m \in InUse(a)
      /\ \A x \in InUse(b) : \/ (x = m /\ b[x].key = k)
                           \/ (x = f /\ b[x].key = a[m].key)
                           \/ (x \in InUse(a) \ {m} /\ x # f /\ b[x].key = a[x].key)
  <2>1. InUse(a) \subseteq DOMAIN a /\ f \notin InUse(a) /\ m \in InUse(a)
    BY <1>2, <1>3 DEF InUse
  <2>2. InUse(b) = InUse(a) \union {f}
    <3>1. DOMAIN b = DOMAIN a /\ b[m].key # Null /\ b[f].key # Null
          /\ \A x \in DOMAIN a : x \notin {m, f} => b[x].key = a[x].key
      BY <1>1, <1>2
    <3> HIDE DEF Moved
    <3> QED
      BY <1>2, <2>1, <3>1 DEF InUse
  <2>3. ASSUME NEW x \in InUse(b)
        PROVE  \/ (x = m /\ b[x].key = k)
               \/ (x = f /\ b[x].key = a[m].key)
               \/ (x \in InUse(a) \ {m} /\ x # f /\ b[x].key = a[x].key)
    <3>1. x = m \/ x = f \/ (x \in InUse(a) /\ x \in DOMAIN a /\ x # f /\ x # m)
      BY <2>1, <2>2
    <3> QED
      BY <1>1, <1>2, <3>1
  <2> QED
    BY <2>1, <2>2, <2>3
<1>6. OnePrev(b)
  BY <1>1, <1>2, <1>3, <1>4 DEF Good, OnePrev
<1>7. AllEnd(b)
  <2> SUFFICES ASSUME NEW S \in SUBSET DOMAIN a, S # {} PROVE \E i \in S : b[i].next \notin S
    BY DEF AllEnd
  <2> DEFINE T == (S \ {m, f}) \union (IF f \in S THEN {m} ELSE {})
  <2>1. CASE S = {m}
    BY <1>1, <1>2, <2>1
  <2>2. CASE S # {m}
    <3>1. T \in SUBSET DOMAIN a /\ T # {}
      BY <1>2, <2>2
    <3>2. PICK i \in T : a[i].next \notin T
      BY <3>1 DEF Good, AllEnd
    <3>3. CASE i = m
      BY <1>2, <1>3, <1>4, <3>2, <3>3
    <3>4. CASE i = p
      BY <1>2, <1>3, <1>4, <3>2, <3>4
    <3>5. CASE i # m /\ i # p
      BY <1>2, <1>3, <1>4, <3>1, <3>2, <3>5
    <3> QED
      BY <3>3, <3>4, <3>5
  <2> QED
    BY <2>1, <2>2
\* What is closed after the move, with the key at its old place
<1>8. ASSUME NEW S \in SUBSET DOMAIN a, ClosedIn(b, S)
      PROVE  LET T == IF f \in S THEN S \union {m} ELSE S \ {m}
             IN  T \in SUBSET DOMAIN a /\ ClosedIn(a, T)
  <2> DEFINE T == IF f \in S THEN S \union {m} ELSE S \ {m}
  <2>1. T \in SUBSET DOMAIN a
    BY <1>2
  <2>2. ASSUME NEW i \in T PROVE a[i].next \in T \union {None}
    <3>1. CASE i = m
      BY <1>2, <1>8, <2>2, <3>1 DEF ClosedIn
    <3>2. CASE i = p
      BY <1>1, <1>2, <1>4, <1>8, <2>2, <3>2 DEF ClosedIn
    <3>3. CASE i = f
      BY <1>3, <3>3
    <3>4. CASE i \notin {m, p, f}
      <4>1. i \in S /\ a[i].next # m /\ b[i].next = a[i].next
        BY <1>4, <2>1, <2>2, <3>4
      <4> QED
        BY <1>8, <4>1 DEF ClosedIn
    <3> QED
      BY <3>1, <3>2, <3>3, <3>4
  <2> QED
    BY <2>1, <2>2 DEF ClosedIn
<1>9. ASSUME NEW i \in InUse(a), i # m
      PROVE  Leads(b, h[a[i].key], i)
  <2>1. a[i].key \in Keys /\ i \in DOMAIN a
    BY <1>9, ArrayIs
  <2>2. Leads(a, h[a[i].key], i) /\ h[a[i].key] # m
    BY <1>5, <1>9 DEF Good, AllLead, Home
  <2> SUFFICES ASSUME NEW S \in SUBSET DOMAIN a, h[a[i].key] \in S, ClosedIn(b, S) PROVE i \in S
    BY DEF Leads
  <2>3. i \in IF f \in S THEN S \union {m} ELSE S \ {m}
    BY <1>8, <2>2 DEF Leads
  <2> QED
    BY <1>9, <2>3
<1>10. Leads(b, h[a[m].key], f)
  <2>1. Leads(a, h[a[m].key], m)
    BY <1>5 DEF Good, AllLead
  <2> SUFFICES ASSUME NEW S \in SUBSET DOMAIN a, h[a[m].key] \in S, ClosedIn(b, S) PROVE f \in S
    BY DEF Leads
  <2>2. m \in IF f \in S THEN S \union {m} ELSE S \ {m}
    BY <1>8, <2>1 DEF Leads
  <2> QED
    BY <2>2
<1>11. AllLead(b, h)
  <2> SUFFICES ASSUME NEW i \in InUse(b) PROVE Leads(b, h[b[i].key], i)
    BY DEF AllLead
  <2>1. CASE i = m /\ b[i].key = k
    BY <2>1 DEF Leads
  <2>2. CASE i = f /\ b[i].key = a[m].key
    BY <1>10, <2>2
  <2>3. CASE i \in InUse(a) \ {m} /\ b[i].key = a[i].key
    BY <1>9, <2>3
  <2> QED
    BY <1>5, <2>1, <2>2, <2>3
<1>12. OneEach(b)
  <2> SUFFICES ASSUME NEW i \in InUse(b), NEW j \in InUse(b), b[i].key = b[j].key PROVE i = j
    BY DEF OneEach
  <2> QED
    BY <1>5 DEF Good, OneEach
<1>13. Home(b, h)
  <2> SUFFICES ASSUME NEW i \in InUse(b), NEW j \in InUse(b), h[b[j].key] = i
               PROVE  h[b[i].key] = i
    BY DEF Home
  <2>1. CASE i = m
    BY <1>2, <1>5, <2>1
  <2>2. ASSUME i = f PROVE FALSE
    <3>1. PICK j0 \in InUse(a) : h[a[j0].key] = f
      BY <1>2, <1>5, <2>2
    <3>2. Leads(a, f, j0)
      BY <3>1 DEF Good, AllLead
    <3>3. {f} \in SUBSET DOMAIN a /\ ClosedIn(a, {f})
      BY <1>2, <1>3 DEF ClosedIn
    <3>4. j0 \in {f}
      BY <3>2, <3>3 DEF Leads
    <3> QED
      BY <1>5, <3>1, <3>4
  <2>3. CASE i \in InUse(a) /\ i # m /\ i # f
    <3>1. PICK j0 \in InUse(a) : h[a[j0].key] = i
      BY <1>5, <2>3
    <3> QED
      BY <1>5, <2>3, <3>1 DEF Good, Home
  <2> QED
    BY <1>5, <2>1, <2>2, <2>3
<1>14. ASSUME NEW i \in DOMAIN a, b[i].next # None
       PROVE  b[i].next >= f
  <2>1. b[i].next = f \/ b[i].next = a[m].next \/ b[i].next = a[i].next
    BY <1>14
  <2>2. f \in Int
    BY <1>1, <1>2
  <2>3. (a[m].next # None => a[m].next > f) /\ (a[i].next # None => a[i].next > f)
    BY <1>2, <1>3
  <2>4. a[m].next \in Int /\ a[i].next \in Int
    BY <1>1, <1>2 DEF None
  <2> HIDE DEF Moved
  <2> QED
    BY <1>14, <2>1, <2>2, <2>3, <2>4
<1> QED
  BY <1>6, <1>7, <1>11, <1>12, <1>13, <1>14 DEF Good

\* What the nodes b are when a key k that a does not have has been placed in w.
PlacedOk(a, f, k, n, h, b, w) ==
  /\ Array(b, n) /\ Good(b, h)
  /\ w \in InUse(b) /\ b[w].key = k
  /\ \A i \in DOMAIN a : b[i].next # None => b[i].next >= f
  /\ \A i \in DOMAIN a : b[i].next = f => b[f].key # Null
  /\ \E x \in DOMAIN a \ InUse(a) : InUse(b) = InUse(a) \union {x}
  /\ \A i \in DOMAIN a : b[i].key = Null =>
       a[i].key = Null /\ (a[i].next = None => b[i].next = None)
  /\ \A i \in InUse(b) \ {w} :
       \E j \in InUse(a) : a[j].key = b[i].key /\ a[j].val = b[i].val
  /\ \A j \in InUse(a) :
       \E i \in InUse(b) \ {w} : a[j].key = b[i].key /\ a[j].val = b[i].val

LEMMA PlacedAtMain ==
  ASSUME NEW a, NEW n, Array(a, n), NEW h \in [Keys -> 0 .. n - 1], Good(a, h),
         NEW f, Unused(a, f),
         NEW k \in Keys, \A i \in InUse(a) : a[i].key # k,
         NEW m, m = h[k], a[m].key = Null
  PROVE  PlacedOk(a, f, k, n, h, [a EXCEPT ![m].key = k], m)
<1> DEFINE b == [a EXCEPT ![m].key = k]
<1>1. /\ DOMAIN a = 0 .. n - 1 /\ n \in Nat \ {0} /\ None \notin DOMAIN a /\ k # Null
      /\ \A i \in DOMAIN a : a[i] \in Node /\ a[i].next \in DOMAIN a \union {None}
  BY ArrayIs
<1>2. m \in DOMAIN a /\ f \in DOMAIN a
  BY <1>1 DEF Unused
<1>3. a[f].next = None /\ a[f].key = Null /\ \A i \in DOMAIN a : a[i].next # f /\ (a[i].next # None => a[i].next > f)
  BY UnusedIs
<1>4. /\ DOMAIN b = DOMAIN a
      /\ \A i \in DOMAIN a : b[i].next = a[i].next /\ b[i].val = a[i].val
                           /\ b[i].key = IF i = m THEN k ELSE a[i].key
  BY <1>1, <1>2 DEF Node
<1>5. Array(b, n)
  <2>1. a \in [DOMAIN a -> Node]
    BY <1>1 DEF Array
  <2>2. [a[m] EXCEPT !.key = k] \in Node
    BY <1>1, <1>2 DEF Node
  <2> DEFINE z == [a[m] EXCEPT !.key = k]
  <2>3. b = [a EXCEPT ![m] = z]
    OBVIOUS
  <2> HIDE DEF z
  <2>4. b \in [DOMAIN a -> Node]
    BY <1>2, <2>1, <2>2, <2>3 DEF z
  <2>5. \A i \in DOMAIN a : b[i].next \in DOMAIN a \union {None}
    BY <1>1, <1>4
  <2> HIDE DEF b
  <2> QED
    BY <1>1, <2>4, <2>5 DEF Array
<1>6. Good(b, h)
  BY GoodAtMain
<1> HIDE DEF b
<1>7. InUse(b) = InUse(a) \union {m} /\ m \in DOMAIN a \ InUse(a) /\ InUse(a) \subseteq DOMAIN a
  BY <1>1, <1>2, <1>4 DEF InUse
<1>8. \A i \in DOMAIN a : b[i].next # None => b[i].next >= f
  BY <1>1, <1>2, <1>3, <1>4
<1>9. \A i \in DOMAIN a : b[i].next # f
  BY <1>3, <1>4
<1>10. \A i \in DOMAIN a : b[i].key = Null =>
         a[i].key = Null /\ (a[i].next = None => b[i].next = None)
  BY <1>1, <1>4
<1>11. \A i \in InUse(a) : i \in InUse(b) \ {m} /\ a[i].key = b[i].key /\ a[i].val = b[i].val
  BY <1>4, <1>7
<1>12. InUse(b) \ {m} \subseteq InUse(a)
  BY <1>7
<1>13. \A i \in InUse(b) \ {m} : \E j \in InUse(a) : a[j].key = b[i].key /\ a[j].val = b[i].val
  BY <1>11, <1>12
<1>14. \A j \in InUse(a) : \E i \in InUse(b) \ {m} : a[j].key = b[i].key /\ a[j].val = b[i].val
  BY <1>11
<1>15. m \in InUse(b) /\ b[m].key = k
  BY <1>2, <1>4, <1>7
<1>16. PlacedOk(a, f, k, n, h, b, m)
  BY <1>5, <1>6, <1>7, <1>8, <1>9, <1>10, <1>13, <1>14, <1>15, Zenon DEF PlacedOk
<1> QED
  BY <1>16 DEF b

PrevOf(a, m) == CHOOSE i \in DOMAIN a : a[i].next = m

MovedTo(a, f, k, m) ==
  [a EXCEPT ![PrevOf(a, m)].next = f, ![f] = a[m],
            ![m] = [key |-> k, val |-> Null, next |-> None]]

LEMMA PlacedMoved ==
  ASSUME NEW a, NEW n, Array(a, n), NEW h \in [Keys -> 0 .. n - 1], Good(a, h),
         NEW f, Unused(a, f),
         NEW k \in Keys, \A i \in InUse(a) : a[i].key # k,
         NEW m, m = h[k], a[m].key # Null, h[a[m].key] # m
  PROVE  PlacedOk(a, f, k, n, h, MovedTo(a, f, k, m), m)
<1> DEFINE q == PrevOf(a, m)
           z == [key |-> k, val |-> Null, next |-> None]
           b == [a EXCEPT ![q].next = f, ![f] = a[m], ![m] = z]
<1>1. /\ DOMAIN a = 0 .. n - 1 /\ n \in Nat \ {0} /\ None \notin DOMAIN a /\ k # Null
      /\ \A i \in DOMAIN a : /\ a[i] \in Node /\ a[i].next \in DOMAIN a \union {None}
                            /\ a[i].key \in Keys \union {Null}
  BY ArrayIs
<1>2. m \in DOMAIN a /\ f \in DOMAIN a
  BY <1>1 DEF Unused
<1>3. a[f].next = None /\ a[f].key = Null /\ \A i \in DOMAIN a : a[i].next # f /\ (a[i].next # None => a[i].next > f)
  BY UnusedIs
<1>4. m # f /\ m \in InUse(a) /\ a[m].key \in Keys
  BY <1>1, <1>2, <1>3 DEF InUse
<1>5. q \in DOMAIN a /\ a[q].next = m /\ q # m /\ q # f
  <2>1. Leads(a, h[a[m].key], m) /\ h[a[m].key] \in DOMAIN a
    BY <1>1, <1>4 DEF Good, AllLead
  <2>2. AllEnd(a) /\ OnePrev(a)
    BY DEF Good
  <2>3. \E i \in DOMAIN a : a[i].next = m /\ i # m
    <3>1. \A x \in DOMAIN a : a[x].next \in DOMAIN a \union {None}
      BY <1>1
    <3> DEFINE x == h[a[m].key]
    <3>2. /\ x \in DOMAIN a /\ m \in DOMAIN a /\ Leads(a, x, m) /\ x # m /\ AllEnd(a)
          /\ None \notin DOMAIN a
      BY <1>1, <1>2, <2>1, <2>2
    <3> HIDE DEF x, b, z
    <3>3. \E i \in DOMAIN a : a[i].next = m /\ i # m
      BY <3>1, <3>2, HasPrev
    <3> QED
      BY <3>3
  <2>4. q \in DOMAIN a /\ a[q].next = m
    BY <2>3 DEF PrevOf
  <2>5. m # None
    BY <1>1, <1>2
  <2> QED
    BY <1>3, <2>2, <2>3, <2>4, <2>5 DEF OnePrev
<1>6. /\ DOMAIN b = DOMAIN a
      /\ b[m] = z /\ b[f] = a[m] /\ b[q] = [a[q] EXCEPT !.next = f]
      /\ \A i \in DOMAIN a \ {m, f, q} : b[i] = a[i]
  BY <1>2, <1>4, <1>5
<1>7. a[q] \in Node /\ f \in Int
  BY <1>1, <1>2, <1>5
<1>8. b[q] \in Node /\ b[q].key = a[q].key /\ b[q].val = a[q].val /\ b[q].next = f
  <2> HIDE DEF b
  <2>1. a[q] = [key |-> a[q].key, val |-> a[q].val, next |-> a[q].next]
        /\ a[q].key \in Keys \union {Null} /\ a[q].val \in Vals \union {Null}
    BY <1>7 DEF Node
  <2>2. b[q] = [key |-> a[q].key, val |-> a[q].val, next |-> f]
    BY <1>6, <2>1
  <2> QED
    BY <1>7, <2>1, <2>2 DEF Node
<1>9. b = [i \in DOMAIN a |-> b[i]]
  <2> DEFINE c == [a EXCEPT ![q].next = f]
             d == [c EXCEPT ![f] = a[m]]
  <2>1. DOMAIN c = DOMAIN a /\ DOMAIN d = DOMAIN c /\ b = [d EXCEPT ![m] = z]
    OBVIOUS
  <2> HIDE DEF c, d, b, z
  <2> QED
    BY <2>1
<1> HIDE DEF b
<1>10. \A i \in DOMAIN a :
        /\ b[i].key = IF i = m THEN k ELSE IF i = f THEN a[m].key ELSE a[i].key
        /\ b[i].val = IF i = m THEN Null ELSE IF i = f THEN a[m].val ELSE a[i].val
        /\ b[i].next = IF i = m THEN None ELSE IF i = f THEN a[m].next
                       ELSE IF i = q THEN f ELSE a[i].next
  <2> SUFFICES ASSUME NEW i \in DOMAIN a
               PROVE  /\ b[i].key = IF i = m THEN k ELSE IF i = f THEN a[m].key ELSE a[i].key
                      /\ b[i].val = IF i = m THEN Null ELSE IF i = f THEN a[m].val ELSE a[i].val
                      /\ b[i].next = IF i = m THEN None ELSE IF i = f THEN a[m].next
                                     ELSE IF i = q THEN f ELSE a[i].next
    OBVIOUS
  <2>1. CASE i = m
    BY <1>6, <2>1
  <2>2. CASE i = f
    BY <1>4, <1>6, <2>2
  <2>3. CASE i = q
    BY <1>5, <1>8, <2>3
  <2>4. CASE i \notin {m, f, q}
    BY <1>6, <2>4
  <2> QED
    BY <2>1, <2>2, <2>3, <2>4
<1>11. Array(b, n)
  <2>1. z \in Node
    BY DEF Node, None
  <2>2. ASSUME NEW i \in DOMAIN a PROVE b[i] \in Node
    <3>1. i \notin {m, f, q} => b[i] = a[i]
      BY <1>6
    <3>2. b[m] = z /\ b[f] = a[m]
      BY <1>6
    <3>3. a[i] \in Node /\ a[m] \in Node /\ b[q] \in Node
      BY <1>1, <1>2, <1>8
    <3> HIDE DEF z, q
    <3> QED
      BY <2>1, <3>1, <3>2, <3>3
  <2>3. ASSUME NEW i \in DOMAIN a PROVE b[i].next \in DOMAIN a \union {None}
    <3>1. b[i].next \in {None, a[m].next, f, a[i].next}
      BY <1>10
    <3> QED
      BY <1>1, <1>2, <3>1
  <2> QED
    BY <1>1, <1>9, <2>2, <2>3 DEF Array
<1>12. Good(b, h) /\ \A i \in DOMAIN a : b[i].next # None => b[i].next >= f
  <2>1. Moved(a, f, k, m, q, b)
    BY <1>6, <1>10 DEF Moved
  <2> HIDE DEF z, q
  <2> QED
    BY <1>5, <2>1, GoodMoved
<1>13. InUse(b) = InUse(a) \union {f} /\ f \in DOMAIN a \ InUse(a) /\ InUse(a) \subseteq DOMAIN a
  <2>1. f \notin InUse(a) /\ InUse(a) \subseteq DOMAIN a
    BY <1>3 DEF InUse
  <2>2. /\ b[m].key # Null /\ b[f].key # Null /\ DOMAIN b = DOMAIN a /\ a[m].key # Null
        /\ \A i \in DOMAIN a \ {m, f} : b[i].key = a[i].key
    BY <1>1, <1>2, <1>4, <1>6, <1>10
  <2>3. InUse(b) = InUse(a) \union {f}
    BY <1>2, <2>2 DEF InUse
  <2> QED
    BY <1>2, <2>1, <2>3
<1>14. b[f].key # Null
  BY <1>2, <1>4, <1>10
<1>15. \A i \in DOMAIN a : b[i].key = Null =>
         a[i].key = Null /\ (a[i].next = None => b[i].next = None)
  <2> SUFFICES ASSUME NEW i \in DOMAIN a, b[i].key = Null
               PROVE  a[i].key = Null /\ (a[i].next = None => b[i].next = None)
    OBVIOUS
  <2>1. i # f /\ i # m
    BY <1>1, <1>10, <1>14
  <2>2. a[q].next # None
    BY <1>1, <1>2, <1>5
  <2> QED
    BY <1>10, <2>1, <2>2
<1>16. ASSUME NEW i \in InUse(b) \ {m}
       PROVE  \E j \in InUse(a) : a[j].key = b[i].key /\ a[j].val = b[i].val
  <2>1. CASE i = f
    BY <1>2, <1>4, <1>10, <2>1
  <2>2. CASE i # f
    BY <1>10, <1>13, <2>2
  <2> QED
    BY <2>1, <2>2
<1>17. ASSUME NEW j \in InUse(a)
       PROVE  \E i \in InUse(b) \ {m} : a[j].key = b[i].key /\ a[j].val = b[i].val
  <2>1. CASE j = m
    BY <1>2, <1>4, <1>10, <1>13, <2>1
  <2>2. CASE j # m
    BY <1>10, <1>13, <2>2
  <2> QED
    BY <2>1, <2>2
<1>18. m \in InUse(b) /\ b[m].key = k
  BY <1>2, <1>4, <1>10, <1>13
<1>19. PlacedOk(a, f, k, n, h, b, m)
  BY <1>11, <1>12, <1>13, <1>14, <1>15, <1>16, <1>17, <1>18, Zenon DEF PlacedOk
<1> QED
  BY <1>19 DEF b, MovedTo

LEMMA PlacedAtFree ==
  ASSUME NEW a, NEW n, Array(a, n), NEW h \in [Keys -> 0 .. n - 1], Good(a, h),
         NEW f, Unused(a, f),
         NEW k \in Keys, \A i \in InUse(a) : a[i].key # k,
         NEW m, m = h[k], a[m].key # Null, h[a[m].key] = m
  PROVE  PlacedOk(a, f, k, n, h,
                  [a EXCEPT ![f].key = k, ![f].next = a[m].next, ![m].next = f], f)
<1> DEFINE b == [a EXCEPT ![f].key = k, ![f].next = a[m].next, ![m].next = f]
<1>1. /\ DOMAIN a = 0 .. n - 1 /\ n \in Nat \ {0} /\ None \notin DOMAIN a /\ k # Null
      /\ \A i \in DOMAIN a : /\ a[i] \in Node /\ a[i].next \in DOMAIN a \union {None}
                            /\ a[i].key \in Keys \union {Null}
  BY ArrayIs
<1>2. m \in DOMAIN a /\ f \in DOMAIN a
  BY <1>1 DEF Unused
<1>3. a[f].next = None /\ a[f].key = Null /\ \A i \in DOMAIN a : a[i].next # f /\ (a[i].next # None => a[i].next > f)
  BY UnusedIs
<1>4. m # f
  BY <1>3
<1>5. \A i \in DOMAIN a : a[i] = [key |-> a[i].key, val |-> a[i].val, next |-> a[i].next]
  BY <1>1 DEF Node
<1>6. /\ DOMAIN b = DOMAIN a
      /\ \A i \in DOMAIN a \ {m, f} : b[i] = a[i]
      /\ b[f] = [[a[f] EXCEPT !.key = k] EXCEPT !.next = a[m].next]
      /\ b[m] = [a[m] EXCEPT !.next = f]
  BY <1>2, <1>4
<1>7. b = [i \in DOMAIN a |-> b[i]]
  OBVIOUS
<1> HIDE DEF b
<1>8. /\ b[f] = [key |-> k, val |-> a[f].val, next |-> a[m].next]
      /\ b[m] = [key |-> a[m].key, val |-> a[m].val, next |-> f]
  BY <1>2, <1>5, <1>6
<1>9. \A i \in DOMAIN a :
        /\ b[i].key = IF i = f THEN k ELSE a[i].key
        /\ b[i].val = a[i].val
        /\ b[i].next = IF i = m THEN f ELSE IF i = f THEN a[m].next ELSE a[i].next
  BY <1>4, <1>6, <1>8
<1>10. Array(b, n)
  <2>1. b[f] \in Node /\ b[m] \in Node
    BY <1>1, <1>2, <1>8 DEF Node, None
  <2>2. \A i \in DOMAIN a : b[i] \in Node
    BY <1>1, <1>6, <2>1
  <2>3. \A i \in DOMAIN a : b[i].next \in DOMAIN a \union {None}
    BY <1>1, <1>2, <1>9
  <2> QED
    BY <1>1, <1>7, <2>2, <2>3 DEF Array
<1>11. Good(b, h) /\ \A i \in DOMAIN a : b[i].next # None => b[i].next >= f
  BY <1>6, <1>9, GoodAtFree
<1>12. InUse(b) = InUse(a) \union {f} /\ f \in DOMAIN a \ InUse(a) /\ InUse(a) \subseteq DOMAIN a
  <2>1. f \notin InUse(a) /\ InUse(a) \subseteq DOMAIN a
    BY <1>3 DEF InUse
  <2>2. InUse(b) = InUse(a) \union {f}
    BY <1>1, <1>2, <1>6, <1>9 DEF InUse
  <2> QED
    BY <1>2, <2>1, <2>2
<1>13. b[f].key = k
  BY <1>2, <1>9
<1>14. \A i \in DOMAIN a : b[i].key = Null =>
         a[i].key = Null /\ (a[i].next = None => b[i].next = None)
  BY <1>1, <1>9, <1>13
<1>15. \A i \in InUse(a) : i \in InUse(b) \ {f} /\ a[i].key = b[i].key /\ a[i].val = b[i].val
  BY <1>9, <1>12
<1>16. InUse(b) \ {f} \subseteq InUse(a) /\ f \in InUse(b)
  BY <1>12
<1>17. \A i \in InUse(b) \ {f} : \E j \in InUse(a) : a[j].key = b[i].key /\ a[j].val = b[i].val
  BY <1>15, <1>16
<1>18. \A j \in InUse(a) : \E i \in InUse(b) \ {f} : a[j].key = b[i].key /\ a[j].val = b[i].val
  BY <1>15
<1>19. PlacedOk(a, f, k, n, h, b, f)
  BY <1>1, <1>10, <1>11, <1>12, <1>13, <1>14, <1>16, <1>17, <1>18, Zenon DEF PlacedOk
<1> QED
  BY <1>19 DEF b

\* Whatever the main position holds, the key gets a node.
LEMMA PlacedIs ==
  ASSUME NEW t, NEW n, Array(t.node, n), Good(t.node, Mains(n)), Unused(t.node, t.free),
         NEW k \in Keys, \A i \in InUse(t.node) : t.node[i].key # k
  PROVE  PlacedOk(t.node, t.free, k, n, Mains(n), Placed(t, k).node, Placed(t, k).at)
<1> DEFINE m == MainPos(t, k)
<1>1. /\ Mains(n) \in [Keys -> 0 .. n - 1] /\ m = Mains(n)[k] /\ m \in DOMAIN t.node
      /\ \A j \in Keys : MainPos(t, j) = Mains(n)[j]
  <2>1. /\ DOMAIN t.node = 0 .. n - 1 /\ Mains(n) \in [Keys -> 0 .. n - 1]
        /\ \A j \in Keys : MainPos(t, j) = Mains(n)[j]
    BY SizeIs
  <2> QED
    BY <2>1
<1>2. CASE t.node[m].key = Null
  <2>1. Placed(t, k) = [at |-> m, node |-> [t.node EXCEPT ![m].key = k]]
    BY <1>2 DEF Placed
  <2> HIDE DEF m
  <2>2. PlacedOk(t.node, t.free, k, n, Mains(n), [t.node EXCEPT ![m].key = k], m)
    BY <1>1, <1>2, PlacedAtMain
  <2> QED
    BY <2>1, <2>2
<1>3. ASSUME t.node[m].key # Null
      PROVE  /\ MainPos(t, t.node[m].key) = Mains(n)[t.node[m].key]
             /\ ~ (m > t.free) => Mains(n)[t.node[m].key] = m
  <2>1. t.node[m].key \in Keys /\ m \in InUse(t.node)
    BY <1>1, <1>3, ArrayIs DEF InUse
  <2>2. ~ (m > t.free) => m <= t.free
    BY <1>1, ArrayIs DEF Unused
  <2>3. m <= t.free => Mains(n)[t.node[m].key] = m
    <3> HIDE DEF m
    <3> QED
      BY <1>1, <2>1, BelowFree
  <2> QED
    BY <1>1, <2>1, <2>2, <2>3
<1>4. CASE t.node[m].key # Null /\ m > t.free /\ MainPos(t, t.node[m].key) # m
  <2>1. Placed(t, k) = [at |-> m, node |-> MovedTo(t.node, t.free, k, m)]
    BY <1>4 DEF Placed, MovedTo, PrevOf
  <2>2. Mains(n)[t.node[m].key] # m
    BY <1>3, <1>4
  <2> HIDE DEF m
  <2>3. PlacedOk(t.node, t.free, k, n, Mains(n), MovedTo(t.node, t.free, k, m), m)
    BY <1>1, <1>4, <2>2, PlacedMoved
  <2> QED
    BY <2>1, <2>3
<1>5. CASE t.node[m].key # Null /\ ~ (m > t.free /\ MainPos(t, t.node[m].key) # m)
  <2> DEFINE b == [t.node EXCEPT ![t.free].key = k, ![t.free].next = t.node[m].next,
                                 ![m].next = t.free]
  <2>1. Placed(t, k) = [at |-> t.free, node |-> b]
    BY <1>5 DEF Placed
  <2>2. Mains(n)[t.node[m].key] = m
    BY <1>3, <1>5
  <2> HIDE DEF m
  <2>3. PlacedOk(t.node, t.free, k, n, Mains(n), b, t.free)
    <3> DEFINE a == t.node
               f == t.free
               h == Mains(n)
    <3>1. Array(a, n) /\ Good(a, h) /\ Unused(a, f) /\ h \in [Keys -> 0 .. n - 1]
      BY <1>1
    <3>2. m = h[k] /\ a[m].key # Null /\ h[a[m].key] = m
      BY <1>1, <1>5, <2>2
    <3>3. \A i \in InUse(a) : a[i].key # k
      OBVIOUS
    <3>4. b = [a EXCEPT ![f].key = k, ![f].next = a[m].next, ![m].next = f]
      OBVIOUS
    <3> HIDE DEF a, f, h, b
    <3>5. PlacedOk(a, f, k, n, h, b, f)
      BY <3>1, <3>2, <3>3, <3>4, PlacedAtFree
    <3> QED
      BY <3>5 DEF a, f, h
  <2>4. Placed(t, k).node = b /\ Placed(t, k).at = t.free
    <3> HIDE DEF b
    <3> QED
      BY <2>1
  <2> HIDE DEF b
  <2> QED
    BY <2>3, <2>4
<1> QED
  BY <1>2, <1>4, <1>5

----------------------------------------------------------------------------
(* Values *)

LEMMA SameShape ==
  ASSUME NEW a, NEW n, Array(a, n), NEW b, DOMAIN b = DOMAIN a,
         \A i \in DOMAIN a : b[i].key = a[i].key /\ b[i].next = a[i].next
  PROVE  /\ InUse(b) = InUse(a)
         /\ \A f : Unused(a, f) => Unused(b, f)
         /\ \A h \in [Keys -> 0 .. n - 1] : Good(a, h) => Good(b, h)
<1>1. InUse(b) = InUse(a) /\ InUse(a) \subseteq DOMAIN a
  BY DEF InUse
<1>2. \A f : Unused(a, f) => Unused(b, f)
  BY DEF Unused
<1>3. \A S \in SUBSET DOMAIN a : ClosedIn(b, S) => ClosedIn(a, S)
  BY DEF ClosedIn
<1>4. \A i, j : Leads(a, i, j) => Leads(b, i, j)
  BY <1>3 DEF Leads
<1>5. ASSUME NEW h \in [Keys -> 0 .. n - 1], Good(a, h) PROVE Good(b, h)
  <2>1. OnePrev(b)
    BY <1>5 DEF Good, OnePrev
  <2>2. AllEnd(b)
    BY <1>5 DEF Good, AllEnd
  <2>3. AllLead(b, h)
    BY <1>1, <1>4, <1>5 DEF Good, AllLead
  <2>4. OneEach(b) /\ Home(b, h)
    BY <1>1, <1>5 DEF Good, OneEach, Home
  <2> QED
    BY <2>1, <2>2, <2>3, <2>4 DEF Good
<1> QED
  BY <1>1, <1>2, <1>5

Given(a, w, v) == [a EXCEPT ![w].val = v]

\* Giving a node a value changes nothing else.
LEMMA Valued ==
  ASSUME NEW a, NEW n, Array(a, n), NEW w \in DOMAIN a, NEW v \in Vals \union {Null},
         NEW b, b = Given(a, w, v)
  PROVE  /\ Array(b, n) /\ DOMAIN b = DOMAIN a
         /\ \A i \in DOMAIN a : /\ b[i].key = a[i].key /\ b[i].next = a[i].next
                               /\ b[i].val = IF i = w THEN v ELSE a[i].val
<1>1. /\ DOMAIN a = 0 .. n - 1 /\ n \in Nat \ {0}
      /\ \A i \in DOMAIN a : a[i] \in Node /\ a[i].next \in DOMAIN a \union {None}
  BY ArrayIs
<1>2. a[w] = [key |-> a[w].key, val |-> a[w].val, next |-> a[w].next]
  BY <1>1 DEF Node
<1>3. /\ DOMAIN b = DOMAIN a /\ b[w] = [key |-> a[w].key, val |-> v, next |-> a[w].next]
      /\ \A i \in DOMAIN a \ {w} : b[i] = a[i]
      /\ b = [i \in DOMAIN a |-> b[i]]
  BY <1>2 DEF Given
<1>4. \A i \in DOMAIN a : /\ b[i].key = a[i].key /\ b[i].next = a[i].next
                        /\ b[i].val = IF i = w THEN v ELSE a[i].val
  BY <1>3
<1>5. \A i \in DOMAIN a : b[i] \in Node
  BY <1>1, <1>3 DEF Node
<1>6. Array(b, n)
  BY <1>1, <1>3, <1>4, <1>5 DEF Array
<1> QED
  BY <1>3, <1>4, <1>6

----------------------------------------------------------------------------
(* What nodes hold *)

Holds(a, d) ==
  /\ d = [k \in DOMAIN d |-> d[k]]
  /\ DOMAIN d = {a[i].key : i \in InUse(a)}
  /\ \A i \in InUse(a) : d[a[i].key] = a[i].val

With(d, k, v) == [j \in DOMAIN d \union {k} |-> IF j = k THEN v ELSE d[j]]

LEMMA ContentsHeld ==
  ASSUME NEW t, NEW n, Array(t.node, n), Good(t.node, Mains(n))
  PROVE  /\ Holds(t.node, Contents(t))
         /\ \A d : Holds(t.node, d) => Contents(t) = d
<1>1. Holds(t.node, Contents(t))
  <2>1. Contents(t) = [k \in DOMAIN Contents(t) |-> Contents(t)[k]]
    BY DEF Contents
  <2> QED
    BY <2>1, ContentsIs DEF Holds
<1>2. ASSUME NEW d, Holds(t.node, d) PROVE Contents(t) = d
  <2> DEFINE c == Contents(t)
  <2>1. Holds(t.node, c)
    BY <1>1
  <2> HIDE DEF c
  <2>2. DOMAIN c = DOMAIN d /\ \A k \in DOMAIN d : c[k] = d[k]
    BY <1>2, <2>1 DEF Holds
  <2>3. c = d
    BY <1>2, <2>1, <2>2 DEF Holds
  <2> QED
    BY <2>3 DEF c
<1> QED
  BY <1>1, <1>2

\* Placing a key adds a slot with it, which has the value put there.
LEMMA PlacedHolds ==
  ASSUME NEW a, NEW n, Array(a, n), NEW f, NEW k, NEW h, NEW b, NEW w,
         PlacedOk(a, f, k, n, h, b, w), NEW d, Holds(a, d)
  PROVE  Holds(b, With(d, k, b[w].val))
<1> DEFINE e == With(d, k, b[w].val)
<1>1. /\ w \in InUse(b) /\ b[w].key = k /\ OneEach(b)
      /\ \A i \in InUse(b) \ {w} :
           \E j \in InUse(a) : a[j].key = b[i].key /\ a[j].val = b[i].val
      /\ \A j \in InUse(a) :
           \E i \in InUse(b) \ {w} : a[j].key = b[i].key /\ a[j].val = b[i].val
  BY DEF PlacedOk, Good
<1>2. DOMAIN e = DOMAIN d \union {k} /\ \A j \in DOMAIN e : e[j] = IF j = k THEN b[w].val ELSE d[j]
  BY DEF With
<1>3. e = [j \in DOMAIN e |-> e[j]]
  BY DEF With
<1> HIDE DEF e
<1>4. DOMAIN e = {b[i].key : i \in InUse(b)}
  <2>1. ASSUME NEW x \in DOMAIN e PROVE \E i \in InUse(b) : b[i].key = x
    BY <1>1, <1>2 DEF Holds
  <2>2. ASSUME NEW i \in InUse(b) PROVE b[i].key \in DOMAIN e
    <3>1. CASE i = w
      BY <1>1, <1>2, <3>1
    <3>2. CASE i # w
      BY <1>1, <1>2, <3>2 DEF Holds
    <3> QED
      BY <3>1, <3>2
  <2> QED
    BY <2>1, <2>2
<1>5. ASSUME NEW i \in InUse(b) PROVE e[b[i].key] = b[i].val
  <2>1. CASE i = w
    BY <1>1, <1>2, <2>1
  <2>2. CASE i # w
    <3>1. b[i].key # k
      BY <1>1, <2>2 DEF OneEach
    <3>2. PICK j \in InUse(a) : a[j].key = b[i].key /\ a[j].val = b[i].val
      BY <1>1, <2>2
    <3>3. d[a[j].key] = a[j].val /\ a[j].key \in DOMAIN d
      BY DEF Holds
    <3> QED
      BY <1>2, <3>1, <3>2, <3>3
  <2> QED
    BY <2>1, <2>2
<1>6. Holds(b, e)
  BY <1>3, <1>4, <1>5 DEF Holds
<1> QED
  BY <1>6 DEF e

\* So does giving a value to a slot that is there.
LEMMA ValuedHolds ==
  ASSUME NEW a, NEW n, Array(a, n), OneEach(a), NEW w \in InUse(a), NEW v \in Vals \union {Null},
         NEW b, b = Given(a, w, v), NEW d, Holds(a, d)
  PROVE  Holds(b, With(d, a[w].key, v))
<1> DEFINE k == a[w].key
           e == With(d, k, v)
<1>1. /\ DOMAIN b = DOMAIN a /\ InUse(b) = InUse(a) /\ InUse(a) \subseteq DOMAIN a
      /\ \A i \in DOMAIN a : b[i].key = a[i].key /\ b[i].val = IF i = w THEN v ELSE a[i].val
  <2>1. w \in DOMAIN a /\ InUse(a) \subseteq DOMAIN a
    BY DEF InUse
  <2>2. /\ Array(b, n) /\ DOMAIN b = DOMAIN a
        /\ \A i \in DOMAIN a : /\ b[i].key = a[i].key /\ b[i].next = a[i].next
                              /\ b[i].val = IF i = w THEN v ELSE a[i].val
    <3> HIDE DEF k, e
    <3>1. w \in DOMAIN a /\ v \in Vals \union {Null} /\ b = Given(a, w, v) /\ Array(a, n)
      BY <2>1
    <3> QED
      BY ONLY <3>1, Valued
  <2> QED
    BY <2>1, <2>2 DEF InUse
<1>2. DOMAIN e = DOMAIN d \union {k} /\ \A j \in DOMAIN e : e[j] = IF j = k THEN v ELSE d[j]
  BY DEF With
<1>3. e = [j \in DOMAIN e |-> e[j]]
  BY DEF With
<1> HIDE DEF e
<1>4. DOMAIN e = {b[i].key : i \in InUse(b)}
  BY <1>1, <1>2 DEF Holds
<1>5. ASSUME NEW i \in InUse(b) PROVE e[b[i].key] = b[i].val
  <2>1. i = w <=> a[i].key = k
    BY <1>1 DEF OneEach
  <2>2. d[a[i].key] = a[i].val /\ a[i].key \in DOMAIN d
    BY <1>1 DEF Holds
  <2> QED
    BY <1>1, <1>2, <2>1, <2>2
<1>6. Holds(b, e)
  BY <1>3, <1>4, <1>5 DEF Holds
<1> QED
  BY <1>6 DEF e

----------------------------------------------------------------------------
(* Creating a slot *)

\* The nodes as they are when the array has no free one for the next key.
Filled(t, n) ==
  /\ t = [node |-> t.node, free |-> t.free, used |-> t.used, full |-> t.full]
  /\ Array(t.node, n) /\ Good(t.node, Mains(n))
  /\ t.full = TRUE
  /\ t.used \in Nat /\ Cardinality(InUse(t.node)) = t.used + 1

LEMMA InUseFinite ==
  ASSUME NEW a, NEW n, Array(a, n)
  PROVE  /\ IsFiniteSet(InUse(a)) /\ Cardinality(InUse(a)) \in Nat
         /\ \A f : Unused(a, f) => Cardinality(InUse(a)) < n
<1>1. DOMAIN a = 0 .. n - 1 /\ n \in Nat \ {0} /\ InUse(a) \subseteq 0 .. n - 1
  BY ArrayIs DEF InUse
<1>2. IsFiniteSet(0 .. n - 1) /\ Cardinality(0 .. n - 1) = n
  BY <1>1, FS_Interval
<1>3. /\ IsFiniteSet(InUse(a)) /\ Cardinality(InUse(a)) <= n
      /\ Cardinality(InUse(a)) = n => InUse(a) = 0 .. n - 1
  BY <1>1, <1>2, FS_Subset
<1>4. Cardinality(InUse(a)) \in Nat
  BY <1>3, FS_CardinalityType
<1>5. \A f : Unused(a, f) => f \in 0 .. n - 1 /\ f \notin InUse(a)
  BY <1>1 DEF Unused, InUse
<1> QED
  BY <1>1, <1>3, <1>4, <1>5

GivenTo(t, k, v) == [t EXCEPT !.node[Find(t, k)].val = v]

LEMMA InsertOld ==
  ASSUME NEW t, NEW n, Size(t) = n, Sound(t), NEW k \in Keys, Find(t, k) # None,
         NEW v \in Vals \union {Null}, NEW u, u = GivenTo(t, k, v)
  PROVE  /\ Sound(u) /\ Size(u) = n
         /\ Contents(u) = With(Contents(t), k, v)
         /\ InUse(u.node) = InUse(t.node)
         /\ \A j \in Keys : Find(u, j) = Find(t, j)
<1> DEFINE w == Find(t, k)
           b == Given(t.node, w, v)
<1>1. Array(t.node, n) /\ Good(t.node, Mains(n)) /\ Unused(t.node, t.free)
      /\ t = [node |-> t.node, free |-> t.free, used |-> t.used, full |-> t.full]
      /\ Mains(n) \in [Keys -> 0 .. n - 1]
  BY SizeIs DEF Sound
<1>2. w \in InUse(t.node) /\ t.node[w].key = k /\ w \in DOMAIN t.node
  BY <1>1, FindKey DEF InUse
<1>3. u = [node |-> b, free |-> t.free, used |-> t.used, full |-> t.full]
  BY <1>1 DEF Given, GivenTo
<1>4. u.node = b /\ u.free = t.free /\ u.used = t.used /\ u.full = t.full
  BY <1>3
<1> HIDE DEF w, b
<1>5. Array(b, n)
  BY <1>1, <1>2, Valued DEF b
<1>6. DOMAIN b = DOMAIN t.node
  BY <1>1, <1>2, Valued DEF b
<1>7. \A i \in DOMAIN t.node : b[i].key = t.node[i].key /\ b[i].next = t.node[i].next
  BY <1>1, <1>2, Valued DEF b
<1>8. InUse(b) = InUse(t.node) /\ Good(b, Mains(n)) /\ Unused(b, t.free)
  <2>1. InUse(b) = InUse(t.node)
    BY <1>1, <1>6, <1>7, SameShape
  <2>2. Good(b, Mains(n))
    BY <1>1, <1>6, <1>7, SameShape
  <2>3. Unused(b, t.free)
    BY <1>1, <1>6, <1>7, SameShape
  <2> QED
    BY <2>1, <2>2, <2>3
<1>9. Size(u) = n
  BY <1>4, <1>5, SizeIs
<1>10. Sound(u)
  BY <1>3, <1>4, <1>5, <1>8, <1>9 DEF Sound
<1>11. Contents(u) = With(Contents(t), k, v)
  <2>1. Holds(t.node, Contents(t)) /\ OneEach(t.node)
    BY <1>1, ContentsHeld DEF Good
  <2>2. Holds(b, With(Contents(t), t.node[w].key, v))
    BY <1>1, <1>2, <2>1, ValuedHolds DEF b
  <2>3. Holds(u.node, With(Contents(t), k, v))
    BY <1>2, <1>4, <2>2
  <2>4. Array(u.node, n) /\ Good(u.node, Mains(n))
    BY <1>4, <1>5, <1>8
  <2> QED
    BY <2>3, <2>4, ContentsHeld
<1>12. ASSUME NEW j \in Keys PROVE Find(u, j) = Find(t, j)
  <2>1. Array(u.node, n) /\ Good(u.node, Mains(n)) /\ InUse(u.node) = InUse(t.node)
    BY <1>4, <1>5, <1>8
  <2>2. \A i \in InUse(t.node) : u.node[i].key = t.node[i].key
    BY <1>4, <1>7 DEF InUse
  <2>3. Array(t.node, n) /\ Good(t.node, Mains(n))
    BY <1>1
  <2> QED
    BY <2>1, <2>2, <2>3, SameFinds
<1> QED
  BY <1>4, <1>8, <1>9, <1>10, <1>11, <1>12

\* A new slot: either _firstfree goes down to the next free node, or there
\* is none and the table is to be built anew.
LEMMA InsertNew ==
  ASSUME NEW t, NEW n, Size(t) = n, Sound(t), NEW k \in Keys, Find(t, k) = None,
         NEW v \in Vals \union {Null}
  PROVE  LET p == Placed(t, k)
             u == Insert(t, k, v)
         IN  /\ FreeBelow(p.node, t.free) # {} =>
                  /\ Sound(u) /\ Size(u) = n
                  /\ Contents(u) = With(Contents(t), k, v)
                  /\ Cardinality(InUse(u.node)) = Cardinality(InUse(t.node)) + 1
                  /\ Fresh(t) => Fresh(u)
             /\ FreeBelow(p.node, t.free) = {} =>
                  /\ Filled(u, n)
                  /\ u.used = Cardinality(InUse(t.node))
                  /\ \E x : Contents(u) = With(Contents(t), k, x)
<1> DEFINE p == Placed(t, k)
           u == Insert(t, k, v)
           a == t.node
           f == t.free
           h == Mains(n)
           free == FreeBelow(p.node, f)
           g == Max(free)
           c == Given(p.node, p.at, v)
<1>1. /\ Array(a, n) /\ Good(a, h) /\ Unused(a, f)
      /\ t = [node |-> a, free |-> f, used |-> t.used, full |-> FALSE]
      /\ t.used = Cardinality(InUse(a)) /\ t.used \in Nat
      /\ h \in [Keys -> 0 .. n - 1]
      /\ DOMAIN a = 0 .. n - 1 /\ n \in Nat \ {0} /\ f \in 0 .. n - 1 /\ IsFiniteSet(InUse(a))
  <2>1. /\ Array(a, n) /\ Good(a, h) /\ Unused(a, f)
        /\ t = [node |-> a, free |-> f, used |-> t.used, full |-> FALSE]
        /\ t.used = Cardinality(InUse(a))
    BY DEF Sound
  <2>2. DOMAIN a = 0 .. n - 1 /\ n \in Nat \ {0}
    BY <2>1, ArrayIs
  <2>3. h \in [Keys -> 0 .. n - 1]
    BY <2>1, SizeIs
  <2>4. IsFiniteSet(InUse(a)) /\ Cardinality(InUse(a)) \in Nat
    BY <2>1, InUseFinite
  <2>5. f \in DOMAIN a
    BY <2>1 DEF Unused
  <2> QED
    BY <2>1, <2>2, <2>3, <2>4, <2>5
<1>2. PlacedOk(a, f, k, n, h, p.node, p.at)
  <2>1. \A i \in InUse(t.node) : t.node[i].key # k
    BY <1>1, FindKey
  <2> QED
    BY <1>1, <2>1, PlacedIs
<1>3. /\ Array(p.node, n) /\ Good(p.node, h) /\ DOMAIN p.node = DOMAIN a
      /\ p.at \in InUse(p.node) /\ p.node[p.at].key = k /\ p.at \in DOMAIN p.node
      /\ Cardinality(InUse(p.node)) = Cardinality(InUse(a)) + 1
  <2> HIDE DEF p, a, f, h
  <2>1. /\ Array(p.node, n) /\ Good(p.node, h)
        /\ p.at \in InUse(p.node) /\ p.node[p.at].key = k
    BY <1>2 DEF PlacedOk
  <2>2. PICK x \in DOMAIN a \ InUse(a) : InUse(p.node) = InUse(a) \union {x}
    BY <1>2 DEF PlacedOk
  <2>3. Cardinality(InUse(p.node)) = Cardinality(InUse(a)) + 1
    BY <1>1, <2>2, FS_AddElement
  <2>4. DOMAIN p.node = DOMAIN a /\ p.at \in DOMAIN p.node
    BY <1>1, <2>1, ArrayIs DEF InUse
  <2> QED
    BY <2>1, <2>3, <2>4
<1>4. Find(t, k) = None
  OBVIOUS
<1>5. Holds(p.node, With(Contents(t), k, p.node[p.at].val))
  <2>1. Holds(a, Contents(t))
    BY <1>1, ContentsHeld
  <2> HIDE DEF p, a, f, h
  <2> QED
    BY <1>1, <1>2, <2>1, PlacedHolds
<1>6. CASE free # {}
  <2>1. u = [[[t EXCEPT !.node = c] EXCEPT !.free = g] EXCEPT !.used = @ + 1]
    BY <1>4, <1>6 DEF Insert, Given
  <2> HIDE DEF g, c
  <2>2. u = [node |-> c, free |-> g, used |-> t.used + 1, full |-> FALSE]
    <3>1. t = [node |-> a, free |-> f, used |-> t.used, full |-> FALSE]
      BY <1>1
    <3> DEFINE x == t.used
    <3>2. t = [node |-> a, free |-> f, used |-> x, full |-> FALSE] /\ t.used = x
      BY <3>1
    <3>3. u = [[[t EXCEPT !.node = c] EXCEPT !.free = g] EXCEPT !.used = x + 1]
      BY <2>1
    <3> HIDE DEF u, a, f, x
    <3>4. u = [node |-> c, free |-> g, used |-> x + 1, full |-> FALSE]
      BY <3>2, <3>3
    <3> QED
      BY <3>4 DEF x
  <2> HIDE DEF u, p, a, f, h
  <2>3. u.node = c /\ u.free = g /\ u.used = t.used + 1 /\ u.full = FALSE
    BY <2>2
  <2>4. g \in free /\ \A m \in free : m <= g
    <3>1. f \in Nat /\ free \in SUBSET (0 .. f)
      BY <1>1 DEF FreeBelow
    <3> HIDE DEF free
    <3> QED
      BY <1>6, <3>1, Greatest DEF g
  <2>5. /\ Array(c, n) /\ DOMAIN c = DOMAIN p.node
        /\ \A i \in DOMAIN p.node : c[i].key = p.node[i].key /\ c[i].next = p.node[i].next
    <3> DEFINE e == p.node
               w == p.at
    <3>1. Array(e, n) /\ w \in DOMAIN e /\ v \in Vals \union {Null} /\ c = Given(e, w, v)
      BY <1>3 DEF c
    <3> HIDE DEF e, w
    <3>2. /\ Array(Given(e, w, v), n) /\ DOMAIN Given(e, w, v) = DOMAIN e
          /\ \A i \in DOMAIN e : /\ Given(e, w, v)[i].key = e[i].key
                                /\ Given(e, w, v)[i].next = e[i].next
      BY ONLY <3>1, Valued
    <3> QED
      BY <3>1, <3>2 DEF e
  <2>6. DOMAIN c = DOMAIN p.node
    BY <2>5
  <2>7. \A i \in DOMAIN p.node : c[i].key = p.node[i].key /\ c[i].next = p.node[i].next
    BY <2>5
  <2>8. InUse(c) = InUse(p.node)
    BY <1>3, <2>6, <2>7, SameShape
  <2>9. Good(c, h)
    BY <1>1, <1>3, <2>6, <2>7, SameShape
  <2>10. /\ g \in 0 .. f /\ p.node[g].key = Null /\ p.node[g].next = None
    BY <2>4 DEF FreeBelow
  <2>11. Unused(c, g)
    <3>1. g \in DOMAIN c /\ c[g].key = Null /\ c[g].next = None
      BY <1>1, <1>3, <2>6, <2>7, <2>10
    <3>2. ASSUME NEW i \in DOMAIN c, c[i].next # None PROVE c[i].next > g
      <4>1. p.node[i].next = c[i].next /\ i \in DOMAIN a
        BY <1>3, <2>6, <2>7, <3>2
      <4>2. p.node[i].next >= f /\ (p.node[i].next = f => p.node[f].key # Null)
        BY <1>2, <3>2, <4>1 DEF PlacedOk
      <4>3. p.node[i].next \in 0 .. n - 1
        BY <1>1, <1>3, <3>2, <4>1, ArrayIs
      <4> QED
        BY <1>1, <2>10, <4>1, <4>2, <4>3
    <3> QED
      BY <3>1, <3>2 DEF Unused
  <2>12. Size(u) = n
    BY <2>3, <2>5, SizeIs
  <2>13. u = [node |-> u.node, free |-> u.free, used |-> u.used, full |-> u.full]
    BY <2>2, <2>3
  <2>14. Sound(u)
    <3>1. u.used = Cardinality(InUse(c))
      BY <1>1, <1>3, <2>3, <2>8
    <3> QED
      BY <2>3, <2>5, <2>9, <2>11, <2>12, <2>13, <3>1 DEF Sound, h
  <2>15. Contents(u) = With(Contents(t), k, v)
    <3> DEFINE d == With(Contents(t), k, p.node[p.at].val)
    <3>1. OneEach(p.node)
      BY <1>3 DEF Good
    <3>2. Holds(c, With(d, p.node[p.at].key, v))
      <4> HIDE DEF d
      <4>1. Holds(p.node, d)
        BY <1>5 DEF d
      <4> QED
        BY <1>3, <3>1, <4>1, ValuedHolds DEF c
    <3>3. With(d, k, v) = With(Contents(t), k, v)
      BY DEF With
    <3>4. Holds(u.node, With(Contents(t), k, v))
      BY <1>3, <2>3, <3>2, <3>3
    <3>5. Array(u.node, n) /\ Good(u.node, Mains(n))
      BY <2>3, <2>5, <2>9 DEF h
    <3> QED
      BY <3>4, <3>5, ContentsHeld
  <2>16. Cardinality(InUse(u.node)) = Cardinality(InUse(a)) + 1
    BY <1>3, <2>3, <2>8
  <2>17. ASSUME Fresh(t) PROVE Fresh(u)
    <3> SUFFICES ASSUME NEW i \in DOMAIN c, c[i].key = Null PROVE c[i].next = None /\ i <= g
      BY <2>3 DEF Fresh
    <3>1. i \in DOMAIN a /\ p.node[i].key = Null /\ i \in 0 .. n - 1
      BY <1>1, <1>3, <2>6, <2>7
    <3>2. a[i].key = Null /\ (a[i].next = None => p.node[i].next = None)
      BY <1>2, <3>1 DEF PlacedOk
    <3>3. a[i].next = None /\ i <= f
      BY <2>17, <3>1, <3>2 DEF Fresh, a, f
    <3>4. i \in free
      BY <1>1, <3>1, <3>2, <3>3 DEF FreeBelow
    <3> QED
      BY <1>3, <2>4, <2>6, <2>7, <3>2, <3>3, <3>4
  <2> QED
    BY <1>6, <2>12, <2>14, <2>15, <2>16, <2>17 DEF u, a, p, f
<1>7. CASE free = {}
  <2>1. u = [[[t EXCEPT !.node = p.node] EXCEPT !.free = 0] EXCEPT !.full = TRUE]
    BY <1>4, <1>7 DEF Insert
  <2>2. u = [node |-> p.node, free |-> 0, used |-> t.used, full |-> TRUE]
    <3>1. t = [node |-> a, free |-> f, used |-> t.used, full |-> FALSE]
      BY <1>1
    <3> HIDE DEF u, a, f, p
    <3> QED
      BY <2>1, <3>1
  <2> HIDE DEF u, p, a, f, h
  <2>3. u.node = p.node /\ u.free = 0 /\ u.used = t.used /\ u.full = TRUE
    BY <2>2
  <2>4. Filled(u, n)
    BY <1>1, <1>3, <2>2, <2>3 DEF Filled, h
  <2>5. Contents(u) = With(Contents(t), k, p.node[p.at].val)
    <3>1. Array(u.node, n) /\ Good(u.node, Mains(n))
      BY <1>3, <2>3 DEF h
    <3> QED
      BY <1>5, <2>3, <3>1, ContentsHeld
  <2>6. u.used = Cardinality(InUse(a))
    BY <1>1, <2>3
  <2> QED
    BY <1>7, <2>4, <2>5, <2>6 DEF u, p, a, f
<1> QED
  BY <1>6, <1>7

\* Where nothing has been deleted there is a free node as long as one is left.
LEMMA HasRoom ==
  ASSUME NEW t, NEW n, Size(t) = n, Sound(t), Fresh(t), NEW k \in Keys, Find(t, k) = None,
         Cardinality(InUse(t.node)) + 1 < n
  PROVE  FreeBelow(Placed(t, k).node, t.free) # {}
<1> DEFINE b == Placed(t, k).node
           w == Placed(t, k).at
           a == t.node
           f == t.free
<1>1. Array(a, n) /\ Good(a, Mains(n)) /\ Unused(a, f)
  BY DEF Sound
<1>2. PlacedOk(a, f, k, n, Mains(n), b, w)
  <2>1. \A i \in InUse(t.node) : t.node[i].key # k
    BY <1>1, FindKey
  <2> QED
    BY <1>1, <2>1, PlacedIs
<1> HIDE DEF b, w, a, f
<1>3. PICK x \in DOMAIN a \ InUse(a) : InUse(b) = InUse(a) \union {x}
  BY <1>2 DEF PlacedOk
<1>4. IsFiniteSet(InUse(a)) /\ DOMAIN a = 0 .. n - 1 /\ n \in Nat /\ f \in 0 .. n - 1
  <2>1. IsFiniteSet(InUse(a)) /\ DOMAIN a = 0 .. n - 1 /\ n \in Nat
    BY <1>1, InUseFinite, ArrayIs
  <2> QED
    BY <1>1, <2>1 DEF Unused
<1>5. Cardinality(InUse(b)) = Cardinality(InUse(a)) + 1
  BY <1>3, <1>4, FS_AddElement
<1>6. Cardinality(InUse(b)) < n
  BY <1>5 DEF a
<1>7. DOMAIN b = 0 .. n - 1 /\ Cardinality(0 .. n - 1) = n
  <2>1. Array(b, n)
    BY <1>2 DEF PlacedOk
  <2>2. DOMAIN b = 0 .. n - 1
    BY <2>1, ArrayIs
  <2>3. Cardinality(0 .. n - 1) = n
    <3>1. n \in Nat \ {0}
      BY <1>4
    <3> QED
      BY <3>1, FS_Interval
  <2> QED
    BY <2>2, <2>3
<1>8. PICK j \in 0 .. n - 1 : j \notin InUse(b)
  <2>1. InUse(b) # 0 .. n - 1
    BY <1>4, <1>6, <1>7
  <2>2. InUse(b) \subseteq 0 .. n - 1
    BY <1>7 DEF InUse
  <2> QED
    BY <2>1, <2>2
<1>9. b[j].key = Null
  BY <1>7, <1>8 DEF InUse
<1>10. a[j].key = Null /\ (a[j].next = None => b[j].next = None)
  BY <1>2, <1>4, <1>9 DEF PlacedOk
<1>11. a[j].next = None /\ j <= f
  BY <1>4, <1>10 DEF Fresh, a, f
<1>12. j \in FreeBelow(b, f)
  BY <1>4, <1>9, <1>10, <1>11 DEF FreeBelow
<1> QED
  BY <1>12 DEF b, f

----------------------------------------------------------------------------
(* Building a table anew *)

LEMMA AllocIs ==
  ASSUME NEW n \in Nat \ {0}
  PROVE  LET t == AllocNodes(n)
         IN  /\ Sound(t) /\ Fresh(t) /\ Size(t) = n
             /\ InUse(t.node) = {} /\ DOMAIN Contents(t) = {}
<1> DEFINE t == AllocNodes(n)
           a == t.node
<1>1. /\ t = [node |-> a, free |-> n - 1, used |-> 0, full |-> FALSE]
      /\ a = [i \in 0 .. n - 1 |-> [key |-> Null, val |-> Null, next |-> None]]
  BY DEF AllocNodes
<1>2. t.free = n - 1 /\ t.used = 0 /\ t.full = FALSE
  BY DEF AllocNodes
<1> HIDE DEF t
<1>3. DOMAIN a = 0 .. n - 1 /\ \A i \in 0 .. n - 1 : a[i].key = Null /\ a[i].next = None
  BY <1>1
<1>4. Array(a, n)
  BY <1>1, <1>3 DEF Array, Node, None
<1>5. InUse(a) = {} /\ Cardinality(InUse(a)) = 0
  BY <1>3, FS_EmptySet DEF InUse
<1>6. Good(a, Mains(n))
  <2>1. OnePrev(a)
    BY <1>3 DEF OnePrev
  <2>2. AllEnd(a)
    <3>1. None \notin DOMAIN a
      BY <1>4, ArrayIs
    <3> QED
      BY <1>3, <3>1 DEF AllEnd
  <2>3. AllLead(a, Mains(n)) /\ OneEach(a) /\ Home(a, Mains(n))
    BY <1>5 DEF AllLead, OneEach, Home
  <2> QED
    BY <2>1, <2>2, <2>3 DEF Good
<1>7. Unused(a, t.free) /\ Fresh(t)
  BY <1>2, <1>3 DEF Unused, Fresh
<1>8. Size(t) = n
  BY <1>4, SizeIs
<1>9. Sound(t)
  BY <1>1, <1>2, <1>4, <1>5, <1>6, <1>7, <1>8 DEF Sound
<1>10. DOMAIN Contents(t) = {}
  <2>1. DOMAIN Contents(t) = {a[i].key : i \in InUse(a)}
    BY <1>4, <1>6, ContentsIs
  <2> QED
    BY <1>5, <2>1
<1>11. Sound(t) /\ Fresh(t) /\ Size(t) = n /\ InUse(t.node) = {} /\ DOMAIN Contents(t) = {}
  BY <1>5, <1>7, <1>8, <1>9, <1>10
<1> QED
  BY <1>11 DEF t

\* the slots in the nodes J of a, and what they hold
HoldsOf(a, J, d) ==
  /\ d = [k \in DOMAIN d |-> d[k]]
  /\ DOMAIN d = {a[i].key : i \in J}
  /\ \A i \in J : d[a[i].key] = a[i].val

Before(a, i) == {j \in InUse(a) : j < i}

LEMMA OneMore ==
  ASSUME NEW a, NEW n, Array(a, n), OneEach(a), NEW i \in DOMAIN a,
         NEW d, HoldsOf(a, Before(a, i), d)
  PROVE  /\ a[i].key = Null =>
              /\ HoldsOf(a, Before(a, i + 1), d)
              /\ Cardinality(Before(a, i + 1)) = Cardinality(Before(a, i))
         /\ a[i].key # Null =>
              /\ HoldsOf(a, Before(a, i + 1), With(d, a[i].key, a[i].val))
              /\ Cardinality(Before(a, i + 1)) = Cardinality(Before(a, i)) + 1
              /\ a[i].key \notin DOMAIN d
         /\ Cardinality(Before(a, i + 1)) <= Cardinality(InUse(a))
         /\ Cardinality(Before(a, i + 1)) \in Nat
<1>1. /\ DOMAIN a = 0 .. n - 1 /\ n \in Nat \ {0} /\ i \in Int
      /\ InUse(a) \subseteq Int /\ IsFiniteSet(InUse(a))
  <2>1. DOMAIN a = 0 .. n - 1 /\ n \in Nat \ {0}
    BY ArrayIs
  <2>2. IsFiniteSet(InUse(a))
    BY InUseFinite
  <2> QED
    BY <2>1, <2>2 DEF InUse
<1>2. /\ Before(a, i) \subseteq InUse(a) /\ Before(a, i + 1) \subseteq InUse(a)
      /\ i \notin Before(a, i)
  BY <1>1 DEF Before
<1>3. IsFiniteSet(Before(a, i)) /\ IsFiniteSet(Before(a, i + 1))
      /\ Cardinality(Before(a, i + 1)) <= Cardinality(InUse(a))
  BY <1>1, <1>2, FS_Subset
<1>7a. Cardinality(Before(a, i + 1)) \in Nat
  BY <1>3, FS_CardinalityType
<1>4. CASE a[i].key = Null
  <2>1. i \notin InUse(a)
    BY <1>4 DEF InUse
  <2>2. Before(a, i + 1) = Before(a, i)
    BY <1>1, <2>1 DEF Before
  <2> QED
    BY <1>3, <1>7a, <1>4, <2>2
<1>5. CASE a[i].key # Null
  <2>1. i \in InUse(a)
    BY <1>5 DEF InUse
  <2>2. Before(a, i + 1) = Before(a, i) \union {i}
    BY <1>1, <2>1 DEF Before
  <2>3. Cardinality(Before(a, i + 1)) = Cardinality(Before(a, i)) + 1
    BY <1>2, <1>3, <2>2, FS_AddElement
  <2>4. a[i].key \notin DOMAIN d
    BY <1>2, <2>1 DEF HoldsOf, OneEach
  <2> DEFINE e == With(d, a[i].key, a[i].val)
  <2>5. /\ DOMAIN e = DOMAIN d \union {a[i].key}
        /\ \A j \in DOMAIN e : e[j] = IF j = a[i].key THEN a[i].val ELSE d[j]
        /\ e = [k \in DOMAIN e |-> e[k]]
    BY DEF With
  <2> HIDE DEF e
  <2>6. DOMAIN e = {a[j].key : j \in Before(a, i + 1)}
    BY <2>2, <2>5 DEF HoldsOf
  <2>7. ASSUME NEW j \in Before(a, i + 1) PROVE e[a[j].key] = a[j].val
    BY <2>2, <2>4, <2>5 DEF HoldsOf
  <2>8. HoldsOf(a, Before(a, i + 1), e)
    BY <2>5, <2>6, <2>7 DEF HoldsOf
  <2> QED
    BY <1>3, <1>7a, <1>5, <2>3, <2>4, <2>8 DEF e
<1> QED
  BY <1>4, <1>5

\* What one step of the loop of Rehash does with the node before i.
Stepped(a, i, u) ==
  IF a[i - 1].key = Null THEN u ELSE Insert(u, a[i - 1].key, a[i - 1].val)

LEMMA RebuiltBy ==
  ASSUME NEW t, NEW m \in Nat, Size(t) = m, NEW n
  PROVE  \E f : /\ f = [i \in 0 .. m |-> IF i = 0 THEN AllocNodes(n)
                                         ELSE Stepped(t.node, i, f[i - 1])]
                /\ Rebuilt(t, n) = f[m]
<1> DEFINE z == AllocNodes(n)
           a == t.node
           Is(l, f) == f = [i \in 0 .. l |-> IF i = 0 THEN z ELSE Stepped(a, i, f[i - 1])]
           S == {l \in 0 .. m : \E f : Is(l, f)}
           into == CHOOSE f : Is(m, f)
<1>1. Rebuilt(t, n) = into[m]
  BY DEF Rebuilt, Stepped
<1> HIDE DEF z, a
<1>2. 0 \in S
  <2> DEFINE g == [i \in 0 .. 0 |-> z]
  <2>1. Is(0, g)
    OBVIOUS
  <2> HIDE DEF Is, g
  <2> QED
    BY <2>1
<1>3. ASSUME NEW l \in 0 .. m - 1, l \in S PROVE l + 1 \in S
  <2>1. PICK f : Is(l, f)
    BY <1>3
  <2> DEFINE g == [i \in 0 .. l + 1 |-> IF i <= l THEN f[i] ELSE Stepped(a, l + 1, f[l])]
  <2>2. ASSUME NEW i \in 0 .. l + 1
        PROVE  g[i] = IF i = 0 THEN z ELSE Stepped(a, i, g[i - 1])
    <3> HIDE DEF Is
    <3>1. CASE i <= l
      BY <2>1, <3>1 DEF Is
    <3>2. CASE i = l + 1
      BY <3>2
    <3> QED
      BY <3>1, <3>2
  <2>3. Is(l + 1, g)
    BY <2>2
  <2>4. l + 1 \in 0 .. m
    OBVIOUS
  <2> HIDE DEF Is, g
  <2> QED
    BY <2>3, <2>4
<1> HIDE DEF S, Is
<1>4. 0 .. m \subseteq S
  BY <1>2, <1>3, Induction
<1>5. \E f : Is(m, f)
  BY <1>4 DEF S
<1>6. Is(m, into)
  BY <1>5
<1> HIDE DEF into
<1> QED
  BY <1>1, <1>6 DEF Is, z, a

\* A table built anew has the slots of the old one, and room for one more.
LEMMA RebuiltIs ==
  ASSUME NEW t, NEW m, Size(t) = m, Array(t.node, m), OneEach(t.node),
         NEW n \in Nat \ {0}, Cardinality(InUse(t.node)) < n
  PROVE  LET u == Rebuilt(t, n)
         IN  /\ Sound(u) /\ Fresh(u) /\ Size(u) = n
             /\ Cardinality(InUse(u.node)) = Cardinality(InUse(t.node))
             /\ \A d : Holds(t.node, d) => Contents(u) = d
<1> DEFINE a == t.node
<1>1. /\ DOMAIN a = 0 .. m - 1 /\ m \in Nat \ {0} /\ \A i \in DOMAIN a : a[i] \in Node
  BY ArrayIs
<1>2. PICK into : /\ into = [i \in 0 .. m |-> IF i = 0 THEN AllocNodes(n)
                                            ELSE Stepped(a, i, into[i - 1])]
                  /\ Rebuilt(t, n) = into[m]
  <2>1. m \in Nat
    BY <1>1
  <2> QED
    BY <2>1, RebuiltBy
<1>3. /\ into[0] = AllocNodes(n)
      /\ \A i \in 0 .. m - 1 : into[i + 1] = Stepped(a, i + 1, into[i])
  BY <1>1, <1>2
<1> HIDE DEF a
<1> DEFINE Ok(i, u) == /\ Sound(u) /\ Fresh(u) /\ Size(u) = n
                       /\ Cardinality(InUse(u.node)) = Cardinality(Before(a, i))
                       /\ HoldsOf(a, Before(a, i), Contents(u))
           S == {i \in 0 .. m : Ok(i, into[i])}
<1>4. 0 \in S
  <2> DEFINE u == AllocNodes(n)
  <2>1. Sound(u) /\ Fresh(u) /\ Size(u) = n /\ InUse(u.node) = {} /\ DOMAIN Contents(u) = {}
    BY AllocIs
  <2>2. Before(a, 0) = {}
    BY <1>1 DEF Before, InUse, a
  <2>3. Contents(u) = [k \in DOMAIN Contents(u) |-> Contents(u)[k]]
    BY DEF Contents
  <2> HIDE DEF u
  <2>4. HoldsOf(a, {}, Contents(u))
    BY <2>1, <2>3 DEF HoldsOf
  <2>5. Ok(0, u)
    BY <2>1, <2>2, <2>4
  <2> QED
    BY <1>1, <1>3, <2>5 DEF u
<1>5. ASSUME NEW i \in 0 .. m - 1, i \in S PROVE i + 1 \in S
  <2> DEFINE u == into[i]
             k == a[i].key
             v == a[i].val
             c == Contents(u)
  <2>1. Ok(i, u) /\ i \in DOMAIN a /\ i + 1 \in 0 .. m /\ i + 1 - 1 = i
    BY <1>1, <1>5 DEF a
  <2>2. into[i + 1] = IF k = Null THEN u ELSE Insert(u, k, v)
    BY <1>3, <2>1 DEF Stepped
  <2>3. Array(a, m) /\ OneEach(a) /\ HoldsOf(a, Before(a, i), c)
    BY <2>1 DEF a
  <2> HIDE DEF u, c
  <2>4. CASE k = Null
    <3>1. HoldsOf(a, Before(a, i + 1), c) /\ Cardinality(Before(a, i + 1)) = Cardinality(Before(a, i))
      BY <2>1, <2>3, <2>4, OneMore
    <3>2. Ok(i + 1, into[i + 1])
      BY <2>1, <2>2, <2>4, <3>1 DEF c
    <3> QED
      BY <2>1, <3>2
  <2>5. CASE k # Null
    <3>1. /\ HoldsOf(a, Before(a, i + 1), With(c, k, v)) /\ k \notin DOMAIN c
          /\ Cardinality(Before(a, i + 1)) = Cardinality(Before(a, i)) + 1
      BY <2>1, <2>3, <2>5, OneMore
    <3>2. Cardinality(Before(a, i + 1)) < n
      <4>1. /\ Cardinality(Before(a, i + 1)) <= Cardinality(InUse(a))
            /\ Cardinality(Before(a, i + 1)) \in Nat
        BY <2>1, <2>3, OneMore
      <4>2. Cardinality(InUse(a)) \in Nat /\ Cardinality(InUse(a)) < n
        BY <2>3, InUseFinite DEF a
      <4> QED
        BY <4>1, <4>2
    <3>3. k \in Keys /\ v \in Vals \union {Null}
      BY <1>1, <2>1, <2>5 DEF Node, a
    <3>4. Find(u, k) = None
      BY <3>1, <3>3 DEF Contents, c
    <3> DEFINE w == Insert(u, k, v)
    <3> HIDE DEF k, v
    <3>5. FreeBelow(Placed(u, k).node, u.free) # {}
      BY <2>1, <3>1, <3>2, <3>3, <3>4, HasRoom
    <3>6. /\ Sound(w) /\ Size(w) = n
          /\ Contents(w) = With(Contents(u), k, v)
          /\ Cardinality(InUse(w.node)) = Cardinality(InUse(u.node)) + 1
          /\ Fresh(w)
      BY <2>1, <3>3, <3>4, <3>5, InsertNew
    <3>7. into[i + 1] = w
      BY <2>2, <2>5 DEF k, v
    <3> HIDE DEF w
    <3>8. Ok(i + 1, w)
      BY <2>1, <3>1, <3>6 DEF c
    <3> QED
      BY <2>1, <3>7, <3>8
  <2> QED
    BY <2>4, <2>5
<1>6. m \in S
  <2> HIDE DEF S
  <2>1. 0 .. m \subseteq S
    BY <1>1, <1>4, <1>5, Induction
  <2> QED
    BY <1>1, <2>1
<1> DEFINE u == Rebuilt(t, n)
<1>7. Ok(m, u)
  BY <1>2, <1>6
<1>8. Before(a, m) = InUse(a)
  BY <1>1 DEF Before, InUse, a
<1> HIDE DEF u
<1>9. HoldsOf(a, InUse(a), Contents(u))
  BY <1>7, <1>8
<1>10. ASSUME NEW d, Holds(a, d) PROVE Contents(u) = d
  <2> DEFINE c == Contents(u)
  <2>1. c = [k \in DOMAIN c |-> c[k]] /\ DOMAIN c = {a[i].key : i \in InUse(a)}
        /\ \A i \in InUse(a) : c[a[i].key] = a[i].val
    BY <1>9 DEF HoldsOf
  <2>2. d = [k \in DOMAIN d |-> d[k]] /\ DOMAIN d = {a[i].key : i \in InUse(a)}
        /\ \A i \in InUse(a) : d[a[i].key] = a[i].val
    BY <1>10 DEF Holds
  <2> HIDE DEF c
  <2>3. DOMAIN c = DOMAIN d /\ \A k \in DOMAIN d : c[k] = d[k]
    BY <2>1, <2>2
  <2>4. c = d
    BY <2>1, <2>2, <2>3
  <2> QED
    BY <2>4 DEF c
<1>11. /\ Sound(u) /\ Fresh(u) /\ Size(u) = n
       /\ Cardinality(InUse(u.node)) = Cardinality(InUse(a))
  BY <1>7, <1>8
<1> QED
  BY <1>10, <1>11 DEF u, a

----------------------------------------------------------------------------
(* Sizes *)

LEMMA PowersAre ==
  /\ 4 \in Powers
  /\ \A n \in Powers : /\ 2 * n \in Powers
                       /\ \E q \in Nat \ {0} : n = 4 * q
                       /\ n = 4 \/ \E h \in Powers : n = 2 * h
<1>1. 4 \in Powers
  BY DEF Powers
<1>2. ASSUME NEW n \in Powers PROVE 2 * n \in Powers
  <2>1. n \in Nat /\ \A S \in SUBSET Nat : 4 \in S /\ (\A m \in S : 2 * m \in S) => n \in S
    BY DEF Powers
  <2>2. ASSUME NEW S \in SUBSET Nat, 4 \in S, \A m \in S : 2 * m \in S PROVE 2 * n \in S
    BY <2>1, <2>2
  <2>3. 2 * n \in Nat
    BY <2>1
  <2> QED
    BY <2>2, <2>3 DEF Powers
<1>3. ASSUME NEW n \in Powers PROVE \E q \in Nat \ {0} : n = 4 * q
  <2> DEFINE S == {4 * q : q \in Nat \ {0}}
  <2>1. S \in SUBSET Nat /\ 4 \in S
    <3>1. 4 = 4 * 1 /\ 1 \in Nat \ {0}
      OBVIOUS
    <3>2. \A q \in Nat : 4 * q \in Nat
      OBVIOUS
    <3> QED
      BY <3>1, <3>2
  <2>2. ASSUME NEW m \in S PROVE 2 * m \in S
    <3>1. PICK q \in Nat \ {0} : m = 4 * q
      OBVIOUS
    <3>2. 2 * m = 4 * (2 * q) /\ 2 * q \in Nat \ {0}
      BY <3>1
    <3> QED
      BY <3>2
  <2> HIDE DEF S
  <2>3. n \in S
    BY <2>1, <2>2 DEF Powers
  <2> QED
    BY <2>3 DEF S
<1>4. ASSUME NEW n \in Powers PROVE n = 4 \/ \E h \in Powers : n = 2 * h
  <2> DEFINE S == {m \in Powers : m = 4 \/ \E h \in Powers : m = 2 * h}
  <2>1. S \in SUBSET Nat /\ 4 \in S
    BY <1>1 DEF Powers
  <2>2. ASSUME NEW m \in S PROVE 2 * m \in S
    <3>1. m \in Powers /\ 2 * m \in Powers
      BY <1>2
    <3> QED
      BY <3>1
  <2> HIDE DEF S
  <2>3. n \in S
    BY <2>1, <2>2 DEF Powers
  <2> QED
    BY <2>3 DEF S
<1> QED
  BY <1>1, <1>2, <1>3, <1>4

\* A table built anew always has room for the slots and one more.
LEMMA NewSizeIs ==
  ASSUME NEW t, NEW n \in Powers, Size(t) = n, t.used \in 0 .. n - 1, NEW force \in BOOLEAN
  PROVE  LET s == NewSize(t, force)
         IN  /\ s # 0 => s \in Powers /\ s \in Nat \ {0} /\ t.used + 1 < s
             /\ force => s # 0
             /\ ~force => s # n
<1>1. PICK q \in Nat \ {0} : n = 4 * q
  BY PowersAre
<1>2. /\ n \div 4 = q /\ n - n \div 4 = 3 * q /\ n \div 2 = 2 * q /\ n \in Nat \ {0}
      /\ 2 * n = 8 * q
  BY <1>1
<1>3. /\ 2 * n \in Powers
      /\ n > 4 => n \div 2 \in Powers
  <2>1. n = 4 \/ \E h \in Powers : n = 2 * h
    BY PowersAre
  <2>2. ASSUME n > 4 PROVE n \div 2 \in Powers
    <3>1. PICK h \in Powers : n = 2 * h
      BY <2>1, <2>2
    <3>2. h \in Nat
      BY DEF Powers
    <3>3. n \div 2 = h
      BY <3>1, <3>2
    <3> QED
      BY <3>3
  <2> QED
    BY <2>2, PowersAre
<1> DEFINE s == NewSize(t, force)
           x == t.used
<1>4. s = IF x >= 3 * q THEN 8 * q
          ELSE IF x <= q /\ n > 4 THEN 2 * q ELSE IF force THEN n ELSE 0
  BY <1>2 DEF NewSize, MINPOWER2
<1>5. x \in 0 .. 4 * q - 1
  BY <1>1
<1> HIDE DEF s, x
<1>6. CASE x >= 3 * q
  BY <1>1, <1>2, <1>3, <1>4, <1>5, <1>6 DEF s, x
<1>7. CASE ~ (x >= 3 * q) /\ x <= q /\ n > 4
  BY <1>1, <1>2, <1>3, <1>4, <1>5, <1>7 DEF s, x
<1>8. CASE ~ (x >= 3 * q) /\ ~ (x <= q /\ n > 4)
  BY <1>1, <1>2, <1>3, <1>4, <1>5, <1>8 DEF s, x
<1> QED
  BY <1>6, <1>7, <1>8

LEMMA RehashIs ==
  ASSUME NEW t, NEW n \in Powers, Size(t) = n, Array(t.node, n), OneEach(t.node),
         t.used \in 0 .. n - 1, Cardinality(InUse(t.node)) <= t.used + 1,
         NEW force \in BOOLEAN
  PROVE  LET u == Rehash(t, force)
         IN  /\ NewSize(t, force) # 0 =>
                  /\ Sound(u) /\ Size(u) = NewSize(t, force) /\ Size(u) \in Powers
                  /\ \A d : Holds(t.node, d) => Contents(u) = d
             /\ NewSize(t, force) = 0 => u = t
             /\ force => NewSize(t, force) # 0
             /\ ~force => NewSize(t, force) # n
<1> DEFINE s == NewSize(t, force)
           u == Rehash(t, force)
<1>1. /\ s # 0 => s \in Powers /\ s \in Nat \ {0} /\ t.used + 1 < s
      /\ force => s # 0
      /\ ~force => s # n
  BY NewSizeIs
<1>2. u = IF s = 0 THEN t ELSE Rebuilt(t, s)
  BY DEF Rehash
<1> HIDE DEF s, u
<1>3. ASSUME s # 0
      PROVE  Sound(u) /\ Size(u) = s /\ Size(u) \in Powers /\ \A d : Holds(t.node, d) => Contents(u) = d
  <2>1. Cardinality(InUse(t.node)) \in Nat /\ t.used \in Nat
    <3>1. n \in Nat
      BY DEF Powers
    <3> QED
      BY <3>1, InUseFinite
  <2>2. Cardinality(InUse(t.node)) < s /\ s \in Nat \ {0} /\ u = Rebuilt(t, s) /\ s \in Powers
    BY <1>1, <1>2, <1>3, <2>1
  <2>3. LET w == Rebuilt(t, s)
        IN  /\ Sound(w) /\ Fresh(w) /\ Size(w) = s
            /\ Cardinality(InUse(w.node)) = Cardinality(InUse(t.node))
            /\ \A d : Holds(t.node, d) => Contents(w) = d
    BY <2>2, RebuiltIs
  <2> QED
    BY <2>2, <2>3
<1> QED
  BY <1>1, <1>2, <1>3 DEF s, u

----------------------------------------------------------------------------
(* The operations *)

LEMMA CreatedIs ==
  ASSUME NEW t, NEW n \in Powers, Size(t) = n, Sound(t),
         NEW k \in Keys, NEW v \in Vals \union {Null}
  PROVE  LET u == Created(t, k, v)
         IN  /\ Sound(u) /\ Size(u) \in Powers
             /\ Contents(u) = With(Contents(t), k, v)
             /\ Find(t, k) # None =>
                  /\ Size(u) = n /\ InUse(u.node) = InUse(t.node)
                  /\ \A j \in Keys : Find(u, j) = Find(t, j)
<1> DEFINE w == Insert(t, k, v)
<1>1. Created(t, k, v) = IF w.full THEN Insert(Rehash(w, TRUE), k, v) ELSE w
  BY DEF Created
<1>2. CASE Find(t, k) # None
  <2>1. w = GivenTo(t, k, v)
    BY <1>2 DEF Insert, GivenTo
  <2> HIDE DEF w
  <2>2. Sound(w) /\ Size(w) = n /\ InUse(w.node) = InUse(t.node)
    BY <1>2, <2>1, InsertOld
  <2>3. Contents(w) = With(Contents(t), k, v)
    BY <1>2, <2>1, InsertOld
  <2>4. \A j \in Keys : Find(w, j) = Find(t, j)
    BY <1>2, <2>1, InsertOld
  <2>5. Created(t, k, v) = w
    BY <1>1, <2>2 DEF Sound
  <2> QED
    BY <2>2, <2>3, <2>4, <2>5
<1>3. CASE Find(t, k) = None /\ FreeBelow(Placed(t, k).node, t.free) # {}
  <2>1. Sound(w) /\ Size(w) = n /\ Contents(w) = With(Contents(t), k, v)
    BY <1>3, InsertNew
  <2> HIDE DEF w
  <2>2. Created(t, k, v) = w
    BY <1>1, <2>1 DEF Sound
  <2> QED
    BY <1>3, <2>1, <2>2
<1>4. CASE Find(t, k) = None /\ FreeBelow(Placed(t, k).node, t.free) = {}
  <2>1. /\ Filled(w, n) /\ w.used = Cardinality(InUse(t.node))
        /\ \E x : Contents(w) = With(Contents(t), k, x)
    BY <1>4, InsertNew
  <2> HIDE DEF w
  <2>2. PICK x : Contents(w) = With(Contents(t), k, x)
    BY <2>1
  <2>3. /\ Array(w.node, n) /\ Good(w.node, Mains(n)) /\ w.full = TRUE
        /\ w.used \in Nat /\ Cardinality(InUse(w.node)) = w.used + 1
    BY <2>1 DEF Filled
  <2>4. Size(w) = n /\ OneEach(w.node) /\ n \in Nat
    BY <2>3, SizeIs DEF Good, Powers
  <2>5. w.used < n
    <3>1. Array(t.node, n) /\ Unused(t.node, t.free)
      BY DEF Sound
    <3> QED
      BY <2>1, <3>1, InUseFinite
  <2> DEFINE r == Rehash(w, TRUE)
  <2>6. Sound(r) /\ Size(r) \in Powers /\ \A d : Holds(w.node, d) => Contents(r) = d
    <3>1. w.used \in 0 .. n - 1 /\ Cardinality(InUse(w.node)) <= w.used + 1
      BY <2>3, <2>4, <2>5
    <3>2. TRUE \in BOOLEAN
      OBVIOUS
    <3> QED
      BY <2>3, <2>4, <3>1, <3>2, RehashIs
  <2> HIDE DEF r
  <2>7. Contents(r) = With(Contents(t), k, x)
    <3>1. Holds(w.node, Contents(w))
      BY <2>3, ContentsHeld
    <3> QED
      BY <2>2, <2>6, <3>1
  <2>8. Find(r, k) # None
    <3>1. k \in DOMAIN Contents(r)
      BY <2>7 DEF With
    <3> QED
      BY <3>1 DEF Contents
  <2> DEFINE u == Insert(r, k, v)
  <2>9. Created(t, k, v) = u /\ u = GivenTo(r, k, v)
    BY <1>1, <2>3, <2>8 DEF Insert, GivenTo, r
  <2> HIDE DEF u
  <2>10. Sound(u) /\ Size(u) = Size(r) /\ Contents(u) = With(Contents(r), k, v)
    <3>1. Sound(u) /\ Size(u) = Size(r)
      BY <2>6, <2>8, <2>9, InsertOld
    <3>2. Contents(u) = With(Contents(r), k, v)
      BY <2>6, <2>8, <2>9, InsertOld
    <3> QED
      BY <3>1, <3>2
  <2>11. With(Contents(r), k, v) = With(Contents(t), k, v)
    BY <2>7 DEF With
  <2> QED
    BY <1>4, <2>6, <2>9, <2>10, <2>11
<1> QED
  BY <1>2, <1>3, <1>4

\* Deleting keys empties nodes and leaves the chains as they are.
Emptied(a, b) ==
  /\ DOMAIN b = DOMAIN a
  /\ \A i \in DOMAIN a : /\ b[i].next = a[i].next
                         /\ b[i].key # Null => b[i].key = a[i].key /\ b[i].val = a[i].val

LEMMA EmptiedIs ==
  ASSUME NEW a, NEW n, Array(a, n), NEW b, Emptied(a, b)
  PROVE  /\ InUse(b) \subseteq InUse(a)
         /\ \A i \in InUse(b) : b[i].key = a[i].key /\ b[i].val = a[i].val
         /\ \A h : Good(a, h) => Good(b, h)
         /\ \A f : Unused(a, f) => Unused(b, f)
<1>1. /\ InUse(b) \subseteq InUse(a) /\ InUse(a) \subseteq DOMAIN a
      /\ \A i \in InUse(b) : b[i].key = a[i].key /\ b[i].val = a[i].val
  BY DEF InUse, Emptied
<1>2. ASSUME NEW f, Unused(a, f) PROVE Unused(b, f)
  <2>1. f \in DOMAIN b /\ b[f].next = None /\ \A i \in DOMAIN b : b[i].next # None => b[i].next > f
    BY <1>2 DEF Unused, Emptied
  <2>2. b[f].key = Null
    BY <1>2 DEF Unused, Emptied
  <2> QED
    BY <2>1, <2>2 DEF Unused
<1>3. \A S \in SUBSET DOMAIN a : ClosedIn(b, S) => ClosedIn(a, S)
  BY DEF ClosedIn, Emptied
<1>4. \A i, j : Leads(a, i, j) => Leads(b, i, j)
  BY <1>3 DEF Leads, Emptied
<1>5. ASSUME NEW h, Good(a, h) PROVE Good(b, h)
  <2>1. OnePrev(b) /\ AllEnd(b)
    BY <1>5 DEF Good, OnePrev, AllEnd, Emptied
  <2>2. AllLead(b, h)
    BY <1>1, <1>4, <1>5 DEF Good, AllLead
  <2>3. OneEach(b)
    BY <1>1, <1>5 DEF Good, OneEach
  <2>4. Home(b, h)
    BY <1>1, <1>5 DEF Good, Home
  <2> QED
    BY <2>1, <2>2, <2>3, <2>4 DEF Good
<1> QED
  BY <1>1, <1>2, <1>5

Without(d, k) == [j \in DOMAIN d \ {k} |-> d[j]]

\* the table as Remove leaves it for Rehash
Taken(t, k) ==
  [t EXCEPT !.node[Find(t, k)].key = Null, !.node[Find(t, k)].val = Null, !.used = @ - 1]

LEMMA TakenIs ==
  ASSUME NEW t, NEW n, Size(t) = n, Sound(t), NEW k \in Keys, Find(t, k) # None
  PROVE  LET u == Taken(t, k)
         IN  /\ Sound(u) /\ Size(u) = n
             /\ Contents(u) = Without(Contents(t), k)
             /\ InUse(u.node) = InUse(t.node) \ {Find(t, k)}
             /\ Find(u, k) = None
             /\ \A j \in Keys \ {k} : Find(u, j) = Find(t, j)
<1> DEFINE u == Taken(t, k)
           a == t.node
           w == Find(t, k)
           h == Mains(n)
           b == [a EXCEPT ![w].key = Null, ![w].val = Null]
           x == t.used
<1>1. /\ Array(a, n) /\ Good(a, h) /\ Unused(a, t.free) /\ x = Cardinality(InUse(a))
      /\ t = [node |-> a, free |-> t.free, used |-> x, full |-> FALSE]
  BY DEF Sound
<1>2. /\ w \in InUse(a) /\ a[w].key = k /\ w \in DOMAIN a /\ DOMAIN a = 0 .. n - 1
      /\ n \in Nat \ {0} /\ Null # k
      /\ \A i \in DOMAIN a : a[i] \in Node /\ a[i].next \in DOMAIN a \union {None}
  BY <1>1, FindKey, ArrayIs DEF InUse
<1>3. a[w] = [key |-> a[w].key, val |-> a[w].val, next |-> a[w].next]
  BY <1>2 DEF Node
<1>4. /\ DOMAIN b = DOMAIN a /\ \A i \in DOMAIN a \ {w} : b[i] = a[i]
      /\ b[w] = [[a[w] EXCEPT !.key = Null] EXCEPT !.val = Null]
      /\ b = [i \in DOMAIN a |-> b[i]]
  BY <1>2
<1>5. u.node = b /\ u.free = t.free /\ u.used = x - 1 /\ u.full = FALSE
      /\ u = [node |-> b, free |-> t.free, used |-> x - 1, full |-> FALSE]
  <2> DEFINE y == t.free
             g == FALSE
  <2>1. t = [node |-> a, free |-> y, used |-> x, full |-> g]
    BY <1>1
  <2>2. u = [[t EXCEPT !.node = b] EXCEPT !.used = x - 1]
    <3> DEFINE d == [a EXCEPT ![w].key = Null]
               s == [t EXCEPT !.node = d]
    <3>1. u = [t EXCEPT !.node[w].key = Null, !.node[w].val = Null, !.used = @ - 1]
      BY DEF Taken
    <3>2. u = [[s EXCEPT !.node[w].val = Null] EXCEPT !.used = @ - 1]
      BY <3>1, <2>1
    <3>3. [d EXCEPT ![w].val = Null] = b
      OBVIOUS
    <3> HIDE DEF u, w, a, x, y, g, d, b
    <3>4. s = [node |-> d, free |-> y, used |-> x, full |-> g]
      BY ONLY <2>1 DEF s
    <3> HIDE DEF s
    <3>5. s.node = d
      BY <3>4
    <3>6. [s EXCEPT !.node[w].val = Null] = [s EXCEPT !.node = b]
      BY <3>3, <3>5
    <3>7. [s EXCEPT !.node = b] = [node |-> b, free |-> y, used |-> x, full |-> g]
      BY ONLY <3>4
    <3>8. [t EXCEPT !.node = b] = [node |-> b, free |-> y, used |-> x, full |-> g]
      BY ONLY <2>1
    <3> DEFINE r == [t EXCEPT !.node = b]
    <3>9. [s EXCEPT !.node[w].val = Null] = r /\ r.used = x
      BY <3>6, <3>7, <3>8
    <3> HIDE DEF r
    <3>10. u = [r EXCEPT !.used = x - 1]
      BY <3>2, <3>9
    <3> QED
      BY <3>10 DEF r
  <2> HIDE DEF a, x, b, u, y, g
  <2>3. u = [node |-> b, free |-> y, used |-> x - 1, full |-> g]
    BY <2>1, <2>2
  <2> QED
    BY <2>3 DEF y, g
<1> HIDE DEF b, u, w, a, x, h
<1>6. b[w] = [key |-> Null, val |-> Null, next |-> a[w].next]
  BY <1>3, <1>4
<1>7. Emptied(a, b)
  BY <1>2, <1>4, <1>6 DEF Emptied
<1>8. Array(b, n)
  <2>1. b[w] \in Node
    BY <1>2, <1>6 DEF Node, None
  <2>2. ASSUME NEW i \in DOMAIN a PROVE b[i] \in Node
    <3>1. i # w => b[i] = a[i]
      BY <1>4
    <3> QED
      BY <1>2, <2>1, <3>1
  <2>3. ASSUME NEW i \in DOMAIN a PROVE b[i].next \in DOMAIN a \union {None}
    <3>1. b[i].next = a[i].next
      BY <1>4, <1>6
    <3> QED
      BY <1>2, <3>1
  <2> QED
    BY <1>2, <1>4, <2>2, <2>3 DEF Array
<1>9. Good(b, h) /\ Unused(b, t.free)
  <2>1. Good(b, h)
    BY <1>1, <1>7, EmptiedIs
  <2>2. Unused(b, t.free)
    BY <1>1, <1>7, EmptiedIs
  <2> QED
    BY <2>1, <2>2
<1>10. InUse(b) = InUse(a) \ {w}
  <2>1. /\ DOMAIN b = DOMAIN a /\ w \in DOMAIN a /\ b[w].key = Null
        /\ \A i \in DOMAIN a \ {w} : b[i].key = a[i].key
    BY <1>2, <1>4, <1>6
  <2> QED
    BY <2>1 DEF InUse
<1>11. Cardinality(InUse(b)) = x - 1
  <2>1. IsFiniteSet(InUse(a))
    BY <1>1, InUseFinite
  <2>2. w \in InUse(a) /\ x = Cardinality(InUse(a))
    BY <1>1, <1>2
  <2>3. Cardinality(InUse(a) \ {w}) = Cardinality(InUse(a)) - 1
    BY <2>1, <2>2, FS_RemoveElement
  <2> QED
    BY <1>10, <2>2, <2>3
<1>12. Size(u) = n
  <2>1. Array(u.node, n)
    BY <1>5, <1>8
  <2> QED
    BY ONLY <2>1, SizeIs
<1>13. Sound(u)
  BY <1>5, <1>8, <1>9, <1>11, <1>12 DEF Sound, h
<1>14. Array(u.node, n) /\ Good(u.node, Mains(n))
  BY <1>5, <1>8, <1>9 DEF h
<1>15. \A i \in InUse(b) : b[i].key = a[i].key /\ b[i].val = a[i].val /\ i \in InUse(a)
  BY <1>1, <1>7, EmptiedIs
<1>16. \A i \in InUse(b) : b[i].key # k
  BY <1>1, <1>2, <1>10, <1>15 DEF Good, OneEach
<1>17. Find(u, k) = None
  BY <1>5, <1>14, <1>16, FindKey
<1>18. ASSUME NEW j \in Keys \ {k} PROVE Find(u, j) = Find(t, j)
  <2>1. Find(t, j) = None <=> \A i \in InUse(a) : a[i].key # j
    BY <1>1, FindKey DEF a, h
  <2>2. Find(u, j) = None <=> \A i \in InUse(b) : b[i].key # j
    BY <1>5, <1>14, FindKey
  <2>3. Find(t, j) # None => Find(t, j) \in InUse(a) /\ a[Find(t, j)].key = j
    BY <1>1, FindKey DEF a, h
  <2>4. Find(u, j) # None => Find(u, j) \in InUse(b) /\ b[Find(u, j)].key = j
    BY <1>5, <1>14, FindKey
  <2> QED
    BY <1>1, <1>2, <1>10, <1>15, <2>1, <2>2, <2>3, <2>4 DEF Good, OneEach
<1>19. Contents(u) = Without(Contents(t), k)
  <2> DEFINE c == Contents(t)
             d == Without(c, k)
  <2>1. Holds(a, c)
    BY <1>1, ContentsHeld DEF a, h
  <2> HIDE DEF c
  <2>2. d = [j \in DOMAIN d |-> d[j]] /\ DOMAIN d = DOMAIN c \ {k} /\ \A j \in DOMAIN d : d[j] = c[j]
    BY DEF Without
  <2> HIDE DEF d
  <2>3. DOMAIN d = {b[i].key : i \in InUse(b)}
    <3>1. ASSUME NEW j \in DOMAIN d PROVE \E i \in InUse(b) : b[i].key = j
      BY <1>2, <1>10, <1>15, <2>1, <2>2 DEF Holds
    <3>2. ASSUME NEW i \in InUse(b) PROVE b[i].key \in DOMAIN d
      BY <1>15, <1>16, <2>1, <2>2 DEF Holds
    <3> QED
      BY <3>1, <3>2
  <2>4. \A i \in InUse(b) : d[b[i].key] = b[i].val
    BY <1>15, <2>1, <2>2, <2>3 DEF Holds
  <2>5. Holds(u.node, d)
    BY <1>5, <2>2, <2>3, <2>4 DEF Holds
  <2> QED
    BY <1>14, <2>5, ContentsHeld DEF d, c
<1> QED
  BY <1>5, <1>10, <1>12, <1>13, <1>17, <1>18, <1>19 DEF u, w, a

LEMMA RemovedIs ==
  ASSUME NEW t, NEW n \in Powers, Size(t) = n, Sound(t), NEW k \in Keys, Find(t, k) # None
  PROVE  LET u == Removed(t, k)
         IN  /\ Sound(u) /\ Size(u) \in Powers
             /\ Contents(u) = Without(Contents(t), k)
             /\ Size(u) = n =>
                  /\ Find(u, k) = None /\ \A j \in Keys \ {k} : Find(u, j) = Find(t, j)
                  /\ InUse(u.node) = InUse(t.node) \ {Find(t, k)}
<1> DEFINE r == Taken(t, k)
           u == Removed(t, k)
<1>1. u = Rehash(r, FALSE)
  BY DEF Removed, Taken
<1>2. /\ Sound(r) /\ Size(r) = n /\ Contents(r) = Without(Contents(t), k)
      /\ InUse(r.node) = InUse(t.node) \ {Find(t, k)}
      /\ Find(r, k) = None /\ \A j \in Keys \ {k} : Find(r, j) = Find(t, j)
  BY TakenIs
<1> HIDE DEF r, u
<1>3. /\ Array(r.node, n) /\ Good(r.node, Mains(n)) /\ OneEach(r.node)
      /\ r.used = Cardinality(InUse(r.node)) /\ Unused(r.node, r.free)
  BY <1>2 DEF Sound, Good
<1>4. r.used \in 0 .. n - 1 /\ Cardinality(InUse(r.node)) <= r.used + 1
  <2>1. Cardinality(InUse(r.node)) \in Nat /\ Cardinality(InUse(r.node)) < n
    BY <1>3, InUseFinite
  <2>2. n \in Nat
    BY DEF Powers
  <2> QED
    BY <1>3, <2>1, <2>2
<1>5. /\ NewSize(r, FALSE) # 0 =>
           /\ Sound(u) /\ Size(u) = NewSize(r, FALSE) /\ Size(u) \in Powers
           /\ \A d : Holds(r.node, d) => Contents(u) = d
      /\ NewSize(r, FALSE) = 0 => u = r
      /\ NewSize(r, FALSE) # n
  <2>1. FALSE \in BOOLEAN
    OBVIOUS
  <2> QED
    BY <1>1, <1>2, <1>3, <1>4, <2>1, RehashIs
<1>6. CASE NewSize(r, FALSE) = 0
  <2>1. u = r
    BY <1>5, <1>6
  <2> QED
    BY <1>2, <2>1 DEF u
<1>7. CASE NewSize(r, FALSE) # 0
  <2>1. Holds(r.node, Contents(r))
    BY <1>3, ContentsHeld
  <2>2. Sound(u) /\ Size(u) \in Powers /\ Size(u) # n /\ Contents(u) = Contents(r)
    BY <1>5, <1>7, <2>1
  <2> QED
    BY <1>2, <2>2 DEF u
<1> QED
  BY <1>6, <1>7

\* the table as Clear leaves it for Rehash
Blank(t) ==
  [t EXCEPT !.node = [i \in DOMAIN @ |-> [@[i] EXCEPT !.key = Null, !.val = Null]],
            !.used = 0]

LEMMA ClearedIs ==
  ASSUME NEW t, NEW n \in Powers, Size(t) = n, Sound(t)
  PROVE  LET u == Cleared(t)
         IN  Sound(u) /\ Size(u) \in Powers /\ DOMAIN Contents(u) = {}
<1> DEFINE r == Blank(t)
           u == Cleared(t)
           a == t.node
           b == [i \in DOMAIN a |-> [a[i] EXCEPT !.key = Null, !.val = Null]]
<1>1. u = Rehash(r, TRUE)
  BY DEF Cleared, Blank
<1>2. /\ Array(a, n) /\ Good(a, Mains(n))
      /\ t = [node |-> a, free |-> t.free, used |-> t.used, full |-> FALSE]
      /\ DOMAIN a = 0 .. n - 1 /\ n \in Nat \ {0}
      /\ \A i \in DOMAIN a : a[i] \in Node /\ a[i].next \in DOMAIN a \union {None}
  BY ArrayIs DEF Sound
<1>3. r.node = b /\ r.used = 0
  <2>1. r = [[t EXCEPT !.node = b] EXCEPT !.used = 0]
    BY <1>2 DEF Blank
  <2> DEFINE x == t.used
             y == t.free
  <2>2. t = [node |-> a, free |-> y, used |-> x, full |-> FALSE]
    BY <1>2
  <2> HIDE DEF b, r, a, x, y
  <2>3. r = [node |-> b, free |-> y, used |-> 0, full |-> FALSE]
    BY <2>1, <2>2
  <2> QED
    BY <2>3
<1>4. /\ DOMAIN b = DOMAIN a
      /\ \A i \in DOMAIN a : b[i] = [key |-> Null, val |-> Null, next |-> a[i].next]
  <2> SUFFICES ASSUME NEW i \in DOMAIN a
               PROVE  b[i] = [key |-> Null, val |-> Null, next |-> a[i].next]
    OBVIOUS
  <2> DEFINE x == a[i].key
             y == a[i].val
             z == a[i].next
             c == a[i]
  <2>1. c = [key |-> x, val |-> y, next |-> z]
    BY <1>2 DEF Node
  <2>2. b[i] = [[c EXCEPT !.key = Null] EXCEPT !.val = Null]
    OBVIOUS
  <2> HIDE DEF b, x, y, z, c
  <2>3. b[i] = [key |-> Null, val |-> Null, next |-> z]
    BY <2>1, <2>2
  <2> QED
    BY <2>3 DEF z
<1>5. b = [i \in DOMAIN a |-> b[i]]
  OBVIOUS
<1> HIDE DEF r, u, b, a
<1>6. Array(b, n)
  <2>1. \A i \in DOMAIN a : b[i] \in Node /\ b[i].next \in DOMAIN a \union {None}
    BY <1>2, <1>4 DEF Node
  <2> QED
    BY <1>2, <1>4, <1>5, <2>1 DEF Array
<1>7. InUse(b) = {} /\ Cardinality(InUse(b)) = 0 /\ OneEach(b)
  <2>1. InUse(b) = {}
    BY <1>4 DEF InUse
  <2> QED
    BY <2>1, FS_EmptySet DEF OneEach
<1>8. Size(r) = n
  BY <1>3, <1>6, SizeIs
<1> DEFINE e == [k \in {} |-> Null]
<1>9. Holds(b, e)
  BY <1>7 DEF Holds
<1>10. DOMAIN e = {}
  OBVIOUS
<1> HIDE DEF e
<1>11. Sound(u) /\ Size(u) \in Powers /\ \A d : Holds(r.node, d) => Contents(u) = d
  <2>1. TRUE \in BOOLEAN /\ r.used \in 0 .. n - 1 /\ Cardinality(InUse(r.node)) <= r.used + 1
    BY <1>2, <1>3, <1>7
  <2>2. Array(r.node, n) /\ OneEach(r.node)
    BY <1>3, <1>6, <1>7
  <2> QED
    BY <1>1, <1>8, <2>1, <2>2, RehashIs
<1>12. Contents(u) = e
  BY <1>3, <1>9, <1>11
<1> QED
  BY <1>10, <1>11, <1>12 DEF u

\* What one step of the loop of Clone does with the node before i.
Copied(a, i, u) ==
  IF a[i - 1].key = Null THEN u ELSE Created(u, a[i - 1].key, a[i - 1].val)

LEMMA ClonedBy ==
  ASSUME NEW t, NEW m \in Nat, Size(t) = m
  PROVE  \E f : /\ f = [i \in 0 .. m |-> IF i = 0 THEN AllocNodes(m)
                                         ELSE Copied(t.node, i, f[i - 1])]
                /\ Cloned(t) = f[m]
<1> DEFINE z == AllocNodes(m)
           a == t.node
           Is(l, f) == f = [i \in 0 .. l |-> IF i = 0 THEN z ELSE Copied(a, i, f[i - 1])]
           S == {l \in 0 .. m : \E f : Is(l, f)}
           into == CHOOSE f : Is(m, f)
<1>1. Cloned(t) = into[m]
  BY DEF Cloned, Copied
<1> HIDE DEF z, a
<1>2. 0 \in S
  <2> DEFINE g == [i \in 0 .. 0 |-> z]
  <2>1. Is(0, g)
    OBVIOUS
  <2> HIDE DEF Is, g
  <2> QED
    BY <2>1
<1>3. ASSUME NEW l \in 0 .. m - 1, l \in S PROVE l + 1 \in S
  <2>1. PICK f : Is(l, f)
    BY <1>3
  <2> DEFINE g == [i \in 0 .. l + 1 |-> IF i <= l THEN f[i] ELSE Copied(a, l + 1, f[l])]
  <2>2. ASSUME NEW i \in 0 .. l + 1
        PROVE  g[i] = IF i = 0 THEN z ELSE Copied(a, i, g[i - 1])
    <3> HIDE DEF Is
    <3>1. CASE i <= l
      BY <2>1, <3>1 DEF Is
    <3>2. CASE i = l + 1
      BY <3>2
    <3> QED
      BY <3>1, <3>2
  <2>3. Is(l + 1, g)
    BY <2>2
  <2>4. l + 1 \in 0 .. m
    OBVIOUS
  <2> HIDE DEF Is, g
  <2> QED
    BY <2>3, <2>4
<1> HIDE DEF S, Is
<1>4. 0 .. m \subseteq S
  BY <1>2, <1>3, Induction
<1>5. \E f : Is(m, f)
  BY <1>4 DEF S
<1>6. Is(m, into)
  BY <1>5
<1> HIDE DEF into
<1> QED
  BY <1>1, <1>6 DEF Is, z, a

LEMMA ClonedIs ==
  ASSUME NEW t, NEW m \in Powers, Size(t) = m, Sound(t)
  PROVE  LET u == Cloned(t)
         IN  Sound(u) /\ Size(u) \in Powers /\ Contents(u) = Contents(t)
<1> DEFINE a == t.node
<1>1. /\ DOMAIN a = 0 .. m - 1 /\ m \in Nat \ {0} /\ \A i \in DOMAIN a : a[i] \in Node
      /\ Array(a, m) /\ OneEach(a) /\ Good(a, Mains(m))
  <2>1. Array(a, m) /\ Good(a, Mains(m))
    BY DEF Sound
  <2> QED
    BY <2>1, ArrayIs DEF Good
<1>2. PICK into : /\ into = [i \in 0 .. m |-> IF i = 0 THEN AllocNodes(m)
                                            ELSE Copied(a, i, into[i - 1])]
                  /\ Cloned(t) = into[m]
  <2>1. m \in Nat
    BY <1>1
  <2> QED
    BY <2>1, ClonedBy
<1>3. /\ into[0] = AllocNodes(m)
      /\ \A i \in 0 .. m - 1 : into[i + 1] = Copied(a, i + 1, into[i])
  BY <1>1, <1>2
<1> HIDE DEF a
<1> DEFINE Ok(i, u) == /\ Sound(u) /\ Size(u) \in Powers
                       /\ HoldsOf(a, Before(a, i), Contents(u))
           S == {i \in 0 .. m : Ok(i, into[i])}
<1>4. 0 \in S
  <2> DEFINE u == AllocNodes(m)
  <2>1. Sound(u) /\ Size(u) = m /\ DOMAIN Contents(u) = {}
    BY <1>1, AllocIs
  <2>2. Before(a, 0) = {}
    BY <1>1 DEF Before, InUse
  <2>3. Contents(u) = [k \in DOMAIN Contents(u) |-> Contents(u)[k]]
    BY DEF Contents
  <2> HIDE DEF u
  <2>4. HoldsOf(a, {}, Contents(u))
    BY <2>1, <2>3 DEF HoldsOf
  <2>5. Ok(0, u)
    BY <2>1, <2>2, <2>4
  <2> QED
    BY <1>1, <1>3, <2>5 DEF u
<1>5. ASSUME NEW i \in 0 .. m - 1, i \in S PROVE i + 1 \in S
  <2> DEFINE u == into[i]
             k == a[i].key
             v == a[i].val
             c == Contents(u)
  <2>1. Ok(i, u) /\ i \in DOMAIN a /\ i + 1 \in 0 .. m /\ i + 1 - 1 = i
    BY <1>1, <1>5
  <2>2. into[i + 1] = IF k = Null THEN u ELSE Created(u, k, v)
    BY <1>3, <2>1 DEF Copied
  <2>3. HoldsOf(a, Before(a, i), c)
    BY <2>1
  <2> HIDE DEF u, c
  <2>4. CASE k = Null
    <3>1. HoldsOf(a, Before(a, i + 1), c)
      BY <1>1, <2>1, <2>3, <2>4, OneMore
    <3>2. Ok(i + 1, into[i + 1])
      BY <2>1, <2>2, <2>4, <3>1 DEF c
    <3> QED
      BY <2>1, <3>2
  <2>5. CASE k # Null
    <3>1. HoldsOf(a, Before(a, i + 1), With(c, k, v))
      BY <1>1, <2>1, <2>3, <2>5, OneMore
    <3>2. k \in Keys /\ v \in Vals \union {Null}
      BY <1>1, <2>1, <2>5 DEF Node
    <3> DEFINE w == Created(u, k, v)
    <3> HIDE DEF k, v
    <3>3. Sound(w) /\ Size(w) \in Powers /\ Contents(w) = With(Contents(u), k, v)
      BY <2>1, <3>2, CreatedIs
    <3>4. into[i + 1] = w
      BY <2>2, <2>5 DEF k, v
    <3> HIDE DEF w
    <3>5. Ok(i + 1, w)
      BY <3>1, <3>3 DEF c
    <3> QED
      BY <2>1, <3>4, <3>5
  <2> QED
    BY <2>4, <2>5
<1>6. m \in S
  <2> HIDE DEF S
  <2>1. 0 .. m \subseteq S
    BY <1>1, <1>4, <1>5, Induction
  <2> QED
    BY <1>1, <2>1
<1> DEFINE u == Cloned(t)
<1>7. Ok(m, u)
  BY <1>2, <1>6
<1>8. Before(a, m) = InUse(a)
  BY <1>1 DEF Before, InUse
<1> HIDE DEF u
<1>9. Holds(a, Contents(u))
  BY <1>7, <1>8 DEF HoldsOf, Holds
<1>10. Contents(t) = Contents(u)
  BY <1>1, <1>9, ContentsHeld DEF a
<1> QED
  BY <1>7, <1>10 DEF u

\* Set on null gives a value to a node without a key.
LEMMA NullSetIs ==
  ASSUME NEW t, NEW n, Size(t) = n, Sound(t), Find(t, Null) # None,
         NEW v \in Vals, NEW u, u = GivenTo(t, Null, v)
  PROVE  /\ Sound(u) /\ Size(u) = n
         /\ Contents(u) = Contents(t)
         /\ InUse(u.node) = InUse(t.node)
         /\ \A j \in Keys : Find(u, j) = Find(t, j)
<1> DEFINE w == Find(t, Null)
           b == Given(t.node, w, v)
<1>1. Array(t.node, n) /\ Good(t.node, Mains(n)) /\ Unused(t.node, t.free)
      /\ t = [node |-> t.node, free |-> t.free, used |-> t.used, full |-> t.full]
      /\ Mains(n) \in [Keys -> 0 .. n - 1]
  BY SizeIs DEF Sound
<1>2. w \in DOMAIN t.node /\ t.node[w].key = Null /\ v \in Vals \union {Null}
  <2>1. AllEnd(t.node) /\ Null \in Keys \union {Null}
    BY <1>1 DEF Good
  <2>2. Find(t, Null) \in DOMAIN t.node \union {None}
    BY <1>1, <2>1, FindIs
  <2>3. Find(t, Null) # None => t.node[Find(t, Null)].key = Null
    BY <1>1, <2>1, FindIs
  <2> QED
    BY <2>2, <2>3
<1>3. u = [node |-> b, free |-> t.free, used |-> t.used, full |-> t.full]
  BY <1>1 DEF Given, GivenTo
<1>4. u.node = b /\ u.free = t.free /\ u.used = t.used /\ u.full = t.full
  BY <1>3
<1> HIDE DEF w, b
<1>5. Array(b, n)
  BY <1>1, <1>2, Valued DEF b
<1>6. DOMAIN b = DOMAIN t.node
  BY <1>1, <1>2, Valued DEF b
<1>7. \A i \in DOMAIN t.node : b[i].key = t.node[i].key /\ b[i].next = t.node[i].next
  BY <1>1, <1>2, Valued DEF b
<1>7a. \A i \in DOMAIN t.node : b[i].val = IF i = w THEN v ELSE t.node[i].val
  BY <1>1, <1>2, Valued DEF b
<1>8. InUse(b) = InUse(t.node) /\ Good(b, Mains(n)) /\ Unused(b, t.free)
  <2>1. InUse(b) = InUse(t.node)
    BY <1>1, <1>6, <1>7, SameShape
  <2>2. Good(b, Mains(n))
    BY <1>1, <1>6, <1>7, SameShape
  <2>3. Unused(b, t.free)
    BY <1>1, <1>6, <1>7, SameShape
  <2> QED
    BY <2>1, <2>2, <2>3
<1>9. Size(u) = n
  BY <1>4, <1>5, SizeIs
<1>10. Sound(u)
  BY <1>3, <1>4, <1>5, <1>8, <1>9 DEF Sound
<1>11. /\ Array(u.node, n) /\ Good(u.node, Mains(n)) /\ InUse(u.node) = InUse(t.node)
       /\ \A i \in InUse(t.node) : /\ u.node[i].key = t.node[i].key
                                   /\ u.node[i].val = t.node[i].val
  BY <1>2, <1>4, <1>5, <1>7, <1>7a, <1>8 DEF InUse
<1>12. Contents(u) = Contents(t)
  <2> DEFINE c == Contents(t)
  <2>1. Holds(t.node, c)
    BY <1>1, ContentsHeld
  <2> HIDE DEF c
  <2>2. Holds(u.node, c)
    BY <1>11, <2>1 DEF Holds
  <2> QED
    BY <1>11, <2>2, ContentsHeld DEF c
<1>13. ASSUME NEW j \in Keys PROVE Find(u, j) = Find(t, j)
  <2>1. Array(t.node, n) /\ Good(t.node, Mains(n))
    BY <1>1
  <2>2. Array(u.node, n) /\ Good(u.node, Mains(n)) /\ InUse(u.node) = InUse(t.node)
    BY <1>11
  <2>3. \A i \in InUse(t.node) : u.node[i].key = t.node[i].key
    BY <1>11
  <2> QED
    BY <2>1, <2>2, <2>3, SameFinds
<1> QED
  BY <1>9, <1>10, <1>11, <1>12, <1>13

LEMMA DoubledIs ==
  ASSUME NEW n \in Nat
  PROVE  \A d \in 0 .. n : Doubled(n)[d] \in Powers
<1> DEFINE Is(l, f) == f = [d \in 0 .. l |-> IF d = 0 THEN MINPOWER2 ELSE 2 * f[d - 1]]
           S == {l \in 0 .. n : \E f : Is(l, f)}
           size == CHOOSE f : Is(n, f)
<1>1. Doubled(n) = size
  BY DEF Doubled
<1>2. 0 \in S
  <2> DEFINE g == [d \in 0 .. 0 |-> MINPOWER2]
  <2>1. Is(0, g)
    OBVIOUS
  <2> HIDE DEF Is, g
  <2> QED
    BY <2>1
<1>3. ASSUME NEW l \in 0 .. n - 1, l \in S PROVE l + 1 \in S
  <2>1. PICK f : Is(l, f)
    BY <1>3
  <2> DEFINE g == [d \in 0 .. l + 1 |-> IF d <= l THEN f[d] ELSE 2 * f[l]]
  <2>2. ASSUME NEW d \in 0 .. l + 1
        PROVE  g[d] = IF d = 0 THEN MINPOWER2 ELSE 2 * g[d - 1]
    <3> HIDE DEF Is
    <3>1. CASE d <= l
      BY <2>1, <3>1 DEF Is
    <3>2. CASE d = l + 1
      BY <3>2
    <3> QED
      BY <3>1, <3>2
  <2>3. Is(l + 1, g)
    BY <2>2
  <2>4. l + 1 \in 0 .. n
    OBVIOUS
  <2> HIDE DEF Is, g
  <2> QED
    BY <2>3, <2>4
<1>4. \E f : Is(n, f)
  <2> HIDE DEF S, Is
  <2>1. 0 .. n \subseteq S
    BY <1>2, <1>3, Induction
  <2> QED
    BY <2>1 DEF S
<1>5. Is(n, size)
  BY <1>4
<1> HIDE DEF size
<1> DEFINE T == {d \in 0 .. n : size[d] \in Powers}
<1>6. 0 \in T
  BY <1>5, PowersAre DEF MINPOWER2
<1>7. ASSUME NEW d \in 0 .. n - 1, d \in T PROVE d + 1 \in T
  <2>1. size[d + 1] = 2 * size[d] /\ size[d] \in Powers /\ d + 1 \in 0 .. n
    BY <1>5, <1>7
  <2> QED
    BY <2>1, PowersAre
<1> HIDE DEF T
<1>8. 0 .. n \subseteq T
  BY <1>6, <1>7, Induction
<1> QED
  BY <1>1, <1>8 DEF T

----------------------------------------------------------------------------
(* The invariant *)

LEMMA FoundIs ==
  ASSUME Sound(table)
  PROVE  /\ \A k \in Keys : Find(table, k) # None =>
              /\ Find(table, k) \in InUse(table.node) /\ Find(table, k) \in Nat
              /\ table.node[Find(table, k)].key = k
         /\ \A i \in InUse(table.node) : /\ table.node[i].key \in Keys /\ i \in Nat
                                         /\ Find(table, table.node[i].key) = i
         /\ None < 0
<1> DEFINE n == Size(table)
<1>1. Array(table.node, n) /\ Good(table.node, Mains(n))
  BY DEF Sound
<1>2. \A i \in InUse(table.node) : table.node[i].key \in Keys /\ i \in Nat
  BY <1>1, ArrayIs DEF InUse
<1> HIDE DEF n
<1>3. \A k \in Keys : Find(table, k) # None =>
        Find(table, k) \in InUse(table.node) /\ table.node[Find(table, k)].key = k
  BY <1>1, FindKey
<1>4. ASSUME NEW i \in InUse(table.node) PROVE Find(table, table.node[i].key) = i
  BY <1>1, <1>2, FindKey
<1> QED
  BY <1>2, <1>3, <1>4 DEF None

LEMMA InvInit == Init => IInv /\ DOMAIN Contents(table) = {}
<1> SUFFICES ASSUME Init PROVE IInv /\ DOMAIN Contents(table) = {}
  OBVIOUS
<1>0. PICK n \in InitialSizes : \E d \in 0 .. n : table = AllocNodes(Doubled(n)[d])
  BY DEF Init
<1>1. PICK d \in 0 .. n : table = AllocNodes(Doubled(n)[d])
  BY <1>0
<1>2. n \in Nat
  OBVIOUS
<1> DEFINE s == Doubled(n)[d]
<1>3. s \in Powers
  BY <1>2, DoubledIs
<1> HIDE DEF s
<1>4. s \in Nat \ {0}
  BY <1>3, PowersAre DEF Powers
<1>5. Sound(table) /\ Size(table) = s /\ DOMAIN Contents(table) = {}
  BY <1>1, <1>4, AllocIs DEF s
<1>6. LoopTyped /\ LoopIsExact
  BY DEF Init, LoopTyped, LoopIsExact, None
<1> QED
  BY <1>3, <1>5, <1>6 DEF IInv

LEMMA NoLoopOk ==
  ASSUME NoLoop
  PROVE  LoopTyped' /\ LoopIsExact'
BY DEF NoLoop, LoopTyped, LoopIsExact, None

\* A step that creates nothing and moves nothing, and finds what it found
\* but for the keys it deletes.
LEMMA BecomesOk ==
  ASSUME IInv, NEW t, NEW creates \in BOOLEAN, Becomes(t, creates),
         Sound(t), Size(t) \in Powers,
         ~creates /\ Size(t) = Size(table) =>
           \A j \in Keys : Find(t, j) # None => Find(t, j) = Find(table, j)
  PROVE  IInv'
<1>1. table' = t /\ Sound(table') /\ Size(table') \in Powers
  BY DEF Becomes
<1>2. CASE at = None \/ creates \/ Size(t) # Size(table)
  <2>1. NoLoop
    BY <1>1, <1>2 DEF Becomes
  <2> QED
    BY <1>1, <2>1, NoLoopOk DEF IInv
<1>3. CASE ~ (at = None \/ creates \/ Size(t) # Size(table))
  <2>1. /\ at' = at /\ at # None /\ stayed' = {k \in stayed : Find(t, k) # None}
        /\ visits' = [k \in Keys |-> IF k \in stayed' THEN visits[k] ELSE 0]
        /\ \A j \in Keys : Find(t, j) # None => Find(t, j) = Find(table, j)
    BY <1>1, <1>3 DEF Becomes
  <2>2. LoopTyped /\ LoopIsExact
    BY DEF IInv
  <2>3. LoopTyped'
    <3>1. visits' \in [Keys -> Int]
      BY <2>1, <2>2 DEF LoopTyped
    <3> QED
      BY <1>1, <2>1, <2>2, <3>1 DEF LoopTyped
  <2>4. LoopIsExact'
    BY <1>1, <2>1, <2>2 DEF LoopTyped, LoopIsExact
  <2> QED
    BY <1>1, <2>3, <2>4 DEF IInv
<1> QED
  BY <1>2, <1>3

LEMMA LoopNextOk ==
  ASSUME IInv, LoopNext
  PROVE  IInv'
<1> DEFINE m == Min(Following)
           km == table.node[m].key
<1>1. Sound(table) /\ Size(table) \in Powers /\ LoopTyped /\ LoopIsExact
  BY DEF IInv
<1>2. /\ at # None /\ Following # {} /\ at' = m + 1
      /\ visits' = [visits EXCEPT ![km] = @ + 1] /\ table' = table /\ stayed' = stayed
  BY DEF LoopNext
<1>3. m \in Following /\ \A i \in Following : m <= i
  <2>1. Following \in SUBSET Nat
    BY <1>1, FoundIs DEF Following, Used, InUse
  <2> HIDE DEF Following
  <2> QED
    BY <1>2, <2>1, Smallest
<1> HIDE DEF m
<1>4. m \in InUse(table.node) /\ m >= at /\ m \in Nat /\ km \in Keys /\ Find(table, km) = m
  <2>1. m \in InUse(table.node) /\ m >= at
    BY <1>3 DEF Following, Used, InUse
  <2> QED
    BY <1>1, <2>1, FoundIs
<1> HIDE DEF km
<1>5. LoopTyped'
  <2>1. visits' \in [Keys -> Int]
    BY <1>1, <1>2, <1>4 DEF LoopTyped
  <2>2. at' \in Int /\ at' >= 0
    BY <1>2, <1>4
  <2> QED
    BY <1>1, <1>2, <2>1, <2>2 DEF LoopTyped
<1>6. ASSUME NEW k \in stayed
      PROVE  visits'[k] = IF Find(table, k) < at' THEN 1 ELSE 0
  <2> DEFINE j == Find(table, k)
  <2>1. k \in Keys /\ j # None /\ visits[k] = IF j < at THEN 1 ELSE 0
    BY <1>1, <1>2, <1>6 DEF LoopTyped, LoopIsExact
  <2>2. j \in InUse(table.node) /\ j \in Nat /\ table.node[j].key = k /\ at \in Int
    BY <1>1, <2>1, FoundIs DEF LoopTyped
  <2>3. j >= at => m <= j
    BY <1>3, <2>2 DEF Following, Used, InUse
  <2>4. j = m <=> k = km
    BY <1>4, <2>2 DEF km
  <2>5. visits'[k] = IF k = km THEN visits[k] + 1 ELSE visits[k]
    BY <1>1, <1>2, <2>1 DEF LoopTyped
  <2> HIDE DEF j
  <2>6. visits'[k] = IF j < at' THEN 1 ELSE 0
    BY <1>2, <1>4, <2>1, <2>2, <2>3, <2>4, <2>5
  <2> QED
    BY <2>6 DEF j
<1>7. LoopIsExact'
  BY <1>2, <1>6 DEF LoopIsExact
<1> QED
  BY <1>1, <1>2, <1>5, <1>7 DEF IInv

LEMMA LoopBeginsOk ==
  ASSUME IInv, LoopBegins
  PROVE  IInv'
<1>1. Sound(table) /\ Size(table) \in Powers /\ LoopTyped
  BY DEF IInv
<1>2. /\ at' = 0 /\ stayed' = DOMAIN Contents(table) /\ visits' = [k \in Keys |-> 0]
      /\ table' = table
  BY DEF LoopBegins
<1>3. \A k \in stayed' : k \in Keys /\ Find(table, k) # None
  BY <1>2 DEF Contents
<1>4. \A k \in stayed' : Find(table, k) \in Nat
  BY <1>1, <1>3, FoundIs
<1>5. LoopTyped'
  BY <1>2, <1>3 DEF LoopTyped
<1>6. LoopIsExact'
  BY <1>2, <1>3, <1>4 DEF LoopIsExact
<1> QED
  BY <1>1, <1>2, <1>5, <1>6 DEF IInv

\* What an operation of the table does, for the invariant and for the
\* dictionary.
LEMMA NewSlotIs ==
  ASSUME IInv, NEW k \in Keys, NEW v \in Vals, NewSlot(k, v)
  PROVE  IInv' /\ Contents(table') = With(Contents(table), k, v)
<1> DEFINE t == Created(table, k, v)
           n == Size(table)
<1>1. Sound(table) /\ n \in Powers
  BY DEF IInv
<1>2. Becomes(t, Find(table, k) = None)
  BY DEF NewSlot
<1>3. /\ Sound(t) /\ Size(t) \in Powers
      /\ Contents(t) = With(Contents(table), k, v)
      /\ Find(table, k) # None =>
           /\ Size(t) = n /\ InUse(t.node) = InUse(table.node)
           /\ \A j \in Keys : Find(t, j) = Find(table, j)
  <2>1. v \in Vals \union {Null}
    OBVIOUS
  <2> QED
    BY <1>1, <2>1, CreatedIs
<1> HIDE DEF t
<1>4. (Find(table, k) = None) \in BOOLEAN
  OBVIOUS
<1>5. IInv'
  BY <1>2, <1>3, <1>4, BecomesOk
<1> QED
  BY <1>2, <1>3, <1>5 DEF Becomes

LEMMA SetIs ==
  ASSUME IInv, NEW k \in Keys \union {Null}, NEW v \in Vals, Set(k, v)
  PROVE  /\ IInv'
         /\ Contents(table') = IF k = Null THEN Contents(table)
                               ELSE With(Contents(table), k, v)
<1> DEFINE t == GivenTo(table, k, v)
           n == Size(table)
<1>1. Sound(table) /\ n \in Powers /\ Null \notin Keys /\ v \in Vals \union {Null}
  BY DEF IInv
<1>2. Becomes(t, FALSE) /\ Find(table, k) # None
  BY DEF Set, GivenTo
<1>3. /\ Sound(t) /\ Size(t) = n /\ \A j \in Keys : Find(t, j) = Find(table, j)
      /\ Contents(t) = IF k = Null THEN Contents(table) ELSE With(Contents(table), k, v)
  <2>1. CASE k = Null
    <3>1. Sound(t) /\ Size(t) = n /\ \A j \in Keys : Find(t, j) = Find(table, j)
      BY <1>1, <1>2, <2>1, NullSetIs
    <3>2. Contents(t) = Contents(table)
      BY <1>1, <1>2, <2>1, NullSetIs
    <3> QED
      BY <2>1, <3>1, <3>2
  <2>2. CASE k \in Keys
    <3>1. Sound(t) /\ Size(t) = n /\ \A j \in Keys : Find(t, j) = Find(table, j)
      BY <1>1, <1>2, <2>2, InsertOld
    <3>2. Contents(t) = With(Contents(table), k, v)
      BY <1>1, <1>2, <2>2, InsertOld
    <3> QED
      BY <1>1, <2>2, <3>1, <3>2
  <2> QED
    BY <2>1, <2>2
<1> HIDE DEF t
<1>4. IInv'
  BY <1>1, <1>2, <1>3, BecomesOk
<1> QED
  BY <1>2, <1>3, <1>4 DEF Becomes

LEMMA DeleteSlotIs ==
  ASSUME IInv, NEW k \in Keys, DeleteSlot(k)
  PROVE  /\ IInv'
         /\ k \in DOMAIN Contents(table)
         /\ Contents(table') = Without(Contents(table), k)
<1> DEFINE t == Removed(table, k)
           n == Size(table)
<1>1. Sound(table) /\ n \in Powers
  BY DEF IInv
<1>2. Becomes(t, FALSE) /\ Find(table, k) # None
  BY DEF DeleteSlot
<1>3. /\ Sound(t) /\ Size(t) \in Powers
      /\ Contents(t) = Without(Contents(table), k)
      /\ Size(t) = n =>
           /\ Find(t, k) = None /\ \A j \in Keys \ {k} : Find(t, j) = Find(table, j)
           /\ InUse(t.node) = InUse(table.node) \ {Find(table, k)}
  BY <1>1, <1>2, RemovedIs
<1> HIDE DEF t
<1>4. IInv'
  BY <1>1, <1>2, <1>3, BecomesOk
<1>5. k \in DOMAIN Contents(table)
  BY <1>2 DEF Contents
<1> QED
  BY <1>2, <1>3, <1>4, <1>5 DEF Becomes

LEMMA ClearIs ==
  ASSUME IInv, Clear
  PROVE  IInv' /\ DOMAIN Contents(table') = {}
<1> DEFINE t == Cleared(table)
<1>1. Sound(table) /\ Size(table) \in Powers
  BY DEF IInv
<1>2. Sound(t) /\ Size(t) \in Powers /\ DOMAIN Contents(t) = {}
  BY <1>1, ClearedIs
<1>3. Becomes(t, TRUE)
  BY DEF Clear
<1> HIDE DEF t
<1>4. IInv'
  BY <1>2, <1>3, BecomesOk
<1> QED
  BY <1>2, <1>3, <1>4 DEF Becomes

LEMMA CloneIs ==
  ASSUME IInv, Clone
  PROVE  IInv' /\ Contents(table') = Contents(table)
<1> DEFINE t == Cloned(table)
<1>1. Sound(table) /\ Size(table) \in Powers
  BY DEF IInv
<1>2. Sound(t) /\ Size(t) \in Powers /\ Contents(t) = Contents(table)
  BY <1>1, ClonedIs
<1>3. Becomes(t, TRUE)
  BY DEF Clone
<1> HIDE DEF t
<1>4. IInv'
  BY <1>2, <1>3, BecomesOk
<1> QED
  BY <1>2, <1>3, <1>4 DEF Becomes

LEMMA InvNext == IInv /\ [Next]_vars => IInv'
<1> SUFFICES ASSUME IInv, [Next]_vars PROVE IInv'
  OBVIOUS
<1>1. ASSUME NEW k \in Keys, NEW v \in Vals, NewSlot(k, v) PROVE IInv'
  BY <1>1, NewSlotIs
<1>2. ASSUME NEW k \in Keys \union {Null}, NEW v \in Vals, Set(k, v) PROVE IInv'
  BY <1>2, SetIs
<1>3. ASSUME NEW k \in Keys, DeleteSlot(k) PROVE IInv'
  BY <1>3, DeleteSlotIs
<1>4. CASE Clear
  BY <1>4, ClearIs
<1>5. CASE Clone
  BY <1>5, CloneIs
<1>6. CASE LoopBegins
  BY <1>6, LoopBeginsOk
<1>7. CASE LoopNext
  BY <1>7, LoopNextOk
<1>8. CASE LoopEnds
  <2>1. NoLoop /\ table' = table
    BY <1>8 DEF LoopEnds
  <2> QED
    BY <2>1, NoLoopOk DEF IInv
<1>9. CASE UNCHANGED vars
  BY <1>9 DEF vars, loop, IInv, LoopTyped, LoopIsExact
<1> QED
  BY <1>1, <1>2, <1>3, <1>4, <1>5, <1>6, <1>7, <1>8, <1>9 DEF Next

\* What the operations of the table keep up.
THEOREM TableInvariant == Spec => []IInv
<1>1. Init => IInv
  BY InvInit
<1>2. IInv /\ [Next]_vars => IInv'
  BY InvNext
<1> QED
  BY <1>1, <1>2, PTL DEF Spec

----------------------------------------------------------------------------
(* The properties of the runs *)

\* _firstfree is a node that is empty and in no chain, and the table never
\* stays without one: a rehash does not start another (sqtable.cpp, NewSlot).
THEOREM FreeIsFreeHolds == Spec => []FreeIsFree
<1>1. IInv => FreeIsFree
  BY DEF IInv, Sound, Unused, FreeIsFree, Array, None
<1> QED
  BY <1>1, TableInvariant, PTL

\* len() counts the slots, and _Get finds each of them.
THEOREM AllAreFoundHolds == Spec => []AllAreFound
<1>1. IInv => AllAreFound
  <2> SUFFICES ASSUME IInv PROVE AllAreFound
    OBVIOUS
  <2>1. Sound(table)
    BY DEF IInv
  <2>2. InUse(table.node) = Used(table)
    BY DEF InUse, Used
  <2>3. table.used = Cardinality(Used(table))
    BY <2>1, <2>2 DEF Sound
  <2>4. \A i \in Used(table) : Find(table, table.node[i].key) = i
    BY <2>1, <2>2, FoundIs
  <2> QED
    BY <2>3, <2>4 DEF AllAreFound
<1> QED
  BY <1>1, TableInvariant, PTL

\* A foreach gives a key that stays exactly once.
THEOREM LoopIsExactHolds == Spec => []LoopIsExact
<1>1. IInv => LoopIsExact
  BY DEF IInv
<1> QED
  BY <1>1, TableInvariant, PTL

\* The table implements the dictionary.
THEOREM TableIsDictionary == Spec => DictSpec
<1>1. Init => AsDict!Init
  <2> SUFFICES ASSUME Init PROVE AsDict!Init
    OBVIOUS
  <2>1. DOMAIN Contents(table) = {}
    BY InvInit
  <2>2. Contents(table) = [k \in DOMAIN Contents(table) |-> Contents(table)[k]]
    BY DEF Contents
  <2> QED
    BY <2>1, <2>2 DEF AsDict!Init
<1>2. IInv /\ [Next]_vars => [AsDict!Next]_(Contents(table))
  <2> SUFFICES ASSUME IInv, [Next]_vars PROVE AsDict!Next \/ UNCHANGED Contents(table)
    OBVIOUS
  <2>1. ASSUME NEW k \in Keys, NEW v \in Vals, Contents(table') = With(Contents(table), k, v)
        PROVE  AsDict!Next
    BY <2>1 DEF AsDict!Next, AsDict!Put, With
  <2>2. ASSUME NEW k \in Keys, NEW v \in Vals, NewSlot(k, v) PROVE AsDict!Next
    BY <2>1, <2>2, NewSlotIs
  <2>3. ASSUME NEW k \in Keys \union {Null}, NEW v \in Vals, Set(k, v)
        PROVE  AsDict!Next \/ UNCHANGED Contents(table)
    BY <2>1, <2>3, SetIs
  <2>4. ASSUME NEW k \in Keys, DeleteSlot(k) PROVE AsDict!Next
    BY <2>4, DeleteSlotIs DEF AsDict!Next, AsDict!Drop, Without
  <2>5. CASE Clear
    <3>1. DOMAIN Contents(table') = {}
      BY <2>5, ClearIs
    <3>2. Contents(table') = [k \in DOMAIN Contents(table') |-> Contents(table')[k]]
      BY DEF Contents
    <3> QED
      BY <3>1, <3>2 DEF AsDict!Next, AsDict!DropAll
  <2>6. CASE Clone
    BY <2>6, CloneIs
  <2>7. CASE LoopBegins \/ LoopNext \/ LoopEnds \/ UNCHANGED vars
    BY <2>7 DEF LoopBegins, LoopNext, LoopEnds, vars
  <2> QED
    BY <2>2, <2>3, <2>4, <2>5, <2>6, <2>7 DEF Next
<1> QED
  BY <1>1, <1>2, TableInvariant, PTL DEF Spec, DictSpec, AsDict!Spec
=============================================================================
