------------------------------ MODULE SqTable -------------------------------
(***************************************************************************)
(* The hash table of the Squirrel VM that runs the scripts: the root       *)
(* table, with every function and Device of a script in it, is one.  It is *)
(* an array of nodes in which a slot that is not in its main position is   *)
(* chained to the one that is; _firstfree goes down the array and a table  *)
(* without a free node below it is built anew.                             *)
(*                                                                         *)
(* An operation of the table is one step: a table is used by one thread.   *)
(* Node i of the code is node[i]; `next' holds an index or None.           *)
(***************************************************************************)
EXTENDS Integers, FiniteSets, FiniteSetsExt

CONSTANTS
  Keys,          \* keys other than null
  Vals,
  Null,          \* the null of Squirrel, both as a key and as a value
  Hash,          \* HashObj: of an integer the integer, of a string its hash
  InitialSizes   \* nInitialSize, as the compiler guesses it

ASSUME TableAssumption ==
  /\ Null \notin Keys \union Vals
  /\ Vals # {}
  /\ Hash \in [Keys -> Nat]
  /\ InitialSizes \subseteq Nat

VARIABLES
  table,     \* nodes, _firstfree, _usednodes; full when a rehash found no room
  at,        \* the index a foreach goes on from, None without one
  stayed,    \* keys there since the foreach began
  visits     \* how often it has been given each

loop == <<at, stayed, visits>>
vars == <<table, at, stayed, visits>>

None == -1
MINPOWER2 == 4

Size(t) == Cardinality(DOMAIN t.node)
Used(t) == {i \in DOMAIN t.node : t.node[i].key # Null}

AllocNodes(n) ==
  [node |-> [i \in 0 .. n - 1 |-> [key |-> Null, val |-> Null, next |-> None]],
   free |-> n - 1, used |-> 0, full |-> FALSE]

----------------------------------------------------------------------------
(* Looking a key up *)

MainPos(t, k) == IF k = Null THEN 0 ELSE Hash[k] % Size(t)

\* _Get: the node with the key, along the chain of its main position
Find(t, k) ==
  LET search[i \in DOMAIN t.node] ==
        IF t.node[i].key = k THEN i
        ELSE IF t.node[i].next = None THEN None ELSE search[t.node[i].next]
  IN  search[MainPos(t, k)]

Contents(t) ==
  [k \in {j \in Keys : Find(t, j) # None} |-> t.node[Find(t, k)].val]

----------------------------------------------------------------------------
(* Creating a slot *)

PlacedUnlinked(t, k) ==
  IF t.node[MainPos(t, k)].key = Null
  THEN [at |-> MainPos(t, k), node |-> [t.node EXCEPT ![MainPos(t, k)].key = k]]
  ELSE [at |-> t.free, node |-> [t.node EXCEPT ![t.free].key = k]]

\* The node that gets the key.  A node in the way that is not in its own main
\* position moves to the free node; otherwise the new key goes there.
Placed(t, k) ==
  LET mp    == MainPos(t, k)
      n     == t.free
      other == MainPos(t, t.node[mp].key)
      prev  == CHOOSE i \in DOMAIN t.node : t.node[i].next = mp
  IN  IF t.node[mp].key = Null
      THEN [at |-> mp, node |-> [t.node EXCEPT ![mp].key = k]]
      ELSE IF mp > n /\ other # mp
      THEN [at   |-> mp,
            node |-> [t.node EXCEPT ![prev].next = n,
                                    ![n]  = t.node[mp],
                                    ![mp] = [key |-> k, val |-> Null, next |-> None]]]
      ELSE [at   |-> n,
            node |-> [t.node EXCEPT ![n].key = k,
                                    ![n].next = t.node[mp].next,
                                    ![mp].next = n]]

FreeOfKey(node, f) == {i \in 0 .. f : node[i].key = Null}

FreeBelow(node, f) ==
  {i \in 0 .. f : node[i].key = Null /\ node[i].next = None}

\* NewSlot up to the call of Rehash: without a free node the key is in its
\* node, but neither its value nor _usednodes is set.
Insert(t, k, v) ==
  LET p    == Placed(t, k)
      free == FreeBelow(p.node, t.free)
  IN  IF Find(t, k) # None
      THEN [t EXCEPT !.node[Find(t, k)].val = v]
      ELSE IF free = {}
      THEN [t EXCEPT !.node = p.node, !.free = 0, !.full = TRUE]
      ELSE [t EXCEPT !.node = [p.node EXCEPT ![p.at].val = v],
                     !.free = Max(free), !.used = @ + 1]

NewSize(t, force) ==
  IF t.used >= Size(t) - Size(t) \div 4 THEN 2 * Size(t)
  ELSE IF t.used <= Size(t) \div 4 /\ Size(t) > MINPOWER2 THEN Size(t) \div 2
  ELSE IF force THEN Size(t) ELSE 0

RebuiltFromOne(t, n) ==
  LET into[i \in 0 .. Size(t)] ==
        IF i <= 1 THEN AllocNodes(n)
        ELSE IF t.node[i - 1].key = Null THEN into[i - 1]
        ELSE Insert(into[i - 1], t.node[i - 1].key, t.node[i - 1].val)
  IN  into[Size(t)]

\* the slots of t, in the order of its nodes, in n new ones
Rebuilt(t, n) ==
  LET into[i \in 0 .. Size(t)] ==
        IF i = 0 THEN AllocNodes(n)
        ELSE IF t.node[i - 1].key = Null THEN into[i - 1]
        ELSE Insert(into[i - 1], t.node[i - 1].key, t.node[i - 1].val)
  IN  into[Size(t)]

Rehash(t, force) ==
  IF NewSize(t, force) = 0 THEN t ELSE Rebuilt(t, NewSize(t, force))

Created(t, k, v) ==
  LET u == Insert(t, k, v)
  IN  IF u.full THEN Insert(Rehash(u, TRUE), k, v) ELSE u

----------------------------------------------------------------------------
\* MINPOWER2 doubled up to n times
Doubled(n) ==
  LET size[d \in 0 .. n] == IF d = 0 THEN MINPOWER2 ELSE 2 * size[d - 1]
  IN  size

Init ==
  /\ \E n \in InitialSizes : \E d \in 0 .. n :
       /\ n <= Doubled(n)[d] /\ \A e \in 0 .. d - 1 : n > Doubled(n)[e]
       /\ table = AllocNodes(Doubled(n)[d])
  /\ at = None /\ stayed = {} /\ visits = [k \in Keys |-> 0]

NoLoop == at' = None /\ stayed' = {} /\ visits' = [k \in Keys |-> 0]

\* What a change of the table means for a foreach that runs over it.  One
\* during which a slot is created or the nodes move is not followed further:
\* Next goes on from an index that means nothing any more.
Becomes(t, creates) ==
  /\ table' = t
  /\ IF at = None \/ creates \/ Size(table') # Size(table)
     THEN NoLoop
     ELSE /\ at' = at
          /\ stayed' = {k \in stayed : Find(table', k) # None}
          /\ visits' = [k \in Keys |-> IF k \in stayed' THEN visits[k] ELSE 0]

NewSlot(k, v) == Becomes(Created(table, k, v), Find(table, k) = None)

\* Set does not test for null, which is the key of every free node.
Set(k, v) ==
  /\ Find(table, k) # None
  /\ Becomes([table EXCEPT !.node[Find(table, k)].val = v], FALSE)

\* The VM calls Remove only for a key that Get has found.  The node keeps its
\* place in the chain.
Removed(t, k) ==
  LET i == Find(t, k)
  IN  Rehash([t EXCEPT !.node[i].key = Null, !.node[i].val = Null, !.used = @ - 1],
             FALSE)

DeleteSlot(k) ==
  /\ Find(table, k) # None
  /\ Becomes(Removed(table, k), FALSE)

Cleared(t) ==
  Rehash([t EXCEPT !.node = [i \in DOMAIN @ |-> [@[i] EXCEPT !.key = Null, !.val = Null]],
                   !.used = 0], TRUE)

Clear == Becomes(Cleared(table), TRUE)

\* clone t takes the place of t
Cloned(t) ==
  LET into[i \in 0 .. Size(t)] ==
        IF i = 0 THEN AllocNodes(Size(t))
        ELSE IF t.node[i - 1].key = Null THEN into[i - 1]
        ELSE Created(into[i - 1], t.node[i - 1].key, t.node[i - 1].val)
  IN  into[Size(t)]

Clone == Becomes(Cloned(table), TRUE)

----------------------------------------------------------------------------
(* foreach: Next is called with the index it gave before *)

LoopBegins ==
  /\ at = None
  /\ at' = 0
  /\ stayed' = DOMAIN Contents(table)
  /\ visits' = [k \in Keys |-> 0]
  /\ UNCHANGED table

Following == {i \in Used(table) : i >= at}

LoopStays ==
  /\ at # None
  /\ Following # {}
  /\ at' = Min(Following)
  /\ visits' = [visits EXCEPT ![table.node[Min(Following)].key] = @ + 1]
  /\ UNCHANGED <<table, stayed>>

LoopNext ==
  /\ at # None
  /\ Following # {}
  /\ at' = Min(Following) + 1
  /\ visits' = [visits EXCEPT ![table.node[Min(Following)].key] = @ + 1]
  /\ UNCHANGED <<table, stayed>>

LoopEnds ==
  /\ at # None
  /\ Following = {}
  /\ NoLoop
  /\ UNCHANGED table

Next ==
  \/ \E k \in Keys, v \in Vals : NewSlot(k, v)
  \/ \E k \in Keys \union {Null}, v \in Vals : Set(k, v)
  \/ \E k \in Keys : DeleteSlot(k)
  \/ Clear
  \/ Clone
  \/ LoopBegins
  \/ LoopNext
  \/ LoopEnds

Spec == Init /\ [][Next]_vars

----------------------------------------------------------------------------
(* Properties *)

(* The table implements a dictionary: whatever keys collide, are deleted   *)
(* and created again, and however often it grows and shrinks, a key has    *)
(* the value it was last given, until it is deleted.                       *)
AsDict == INSTANCE Dictionary WITH dict <- Contents(table)
DictSpec == AsDict!Spec

(* NewSlot can always use _firstfree: that node is empty and in no chain,  *)
(* and the rehash NewSlot calls never runs out of nodes itself, which      *)
(* would start another one in the middle of its loop.                      *)
FreeIsFree ==
  /\ table.node[table.free].key = Null
  /\ table.node[table.free].next = None
  /\ \A i \in DOMAIN table.node : table.node[i].next # table.free
  /\ ~table.full

(* t.len() is the number of slots, and every one is found from its main    *)
(* position: none is left behind in a chain that does not lead to it.      *)
AllAreFound ==
  /\ table.used = Cardinality(Used(table))
  /\ \A i \in Used(table) : Find(table, table.node[i].key) = i

(* A foreach gives each key that was there when it began and still is      *)
(* exactly once, although slots are assigned and deleted in its body, as   *)
(* long as none is created and the table does not shrink.                  *)
LoopIsExact ==
  at # None =>
    \A k \in stayed : visits[k] = IF Find(table, k) < at THEN 1 ELSE 0
=============================================================================
