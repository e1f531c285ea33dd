------------------------------ MODULE RefTable ------------------------------
(***************************************************************************)
(* The table in which the Squirrel VM keeps the objects that C++ code      *)
(* holds: MyScript holds the compiled script, every Sqrat::Object,         *)
(* Function and Table what it wraps.  sq_addref and sq_release count here; *)
(* an object that leaves the table may be freed.                           *)
(*                                                                         *)
(* An operation of the table is one step.  Node i of the code is node[i];  *)
(* `next' and the buckets hold an index or None.                           *)
(***************************************************************************)
EXTENDS Integers, FiniteSets

CONSTANTS
  Objects,
  NoObject,     \* the null object of a free node
  ObjectHash,   \* HashObj of a reference: its address
  MaxRefs       \* bound: C++ holders of one object at a time

ASSUME RefTableAssumption ==
  /\ NoObject \notin Objects
  /\ ObjectHash \in [Objects -> Nat]
  /\ MaxRefs \in Nat \ {0}

VARIABLES
  refs,    \* nodes, buckets, _freelist and _slotused
  held     \* how many C++ objects hold each, which is not in the table

rvars == <<refs, held>>

Nil == -1
SlotCount(r) == Cardinality(DOMAIN r.node)

\* AllocNodes: every node on the free list, in order
AllocRefs(n) ==
  [node   |-> [i \in 0 .. n - 1 |->
                 [obj |-> NoObject, refs |-> 0,
                  next |-> IF i = n - 1 THEN Nil ELSE i + 1]],
   bucket |-> [i \in 0 .. n - 1 |-> Nil], free |-> 0, used |-> 0]

Bucket(r, o) == ObjectHash[o] % SlotCount(r)

\* Get: the node of the object in its bucket
Get(r, o) ==
  LET search[i \in DOMAIN r.node \union {Nil}] ==
        IF i = Nil THEN Nil
        ELSE IF r.node[i].obj = o THEN i ELSE search[r.node[i].next]
  IN  search[r.bucket[Bucket(r, o)]]

\* Add: the first free node becomes the first of the bucket
Added(r, o) ==
  [r EXCEPT !.node[r.free].obj = o,
            !.node[r.free].next = r.bucket[Bucket(r, o)],
            !.bucket[Bucket(r, o)] = r.free,
            !.free = r.node[r.free].next,
            !.used = @ + 1]

AddedWith(s, d) == [Added(s, d.obj) EXCEPT !.node[s.free].refs = d.refs]

ResizedUncounted(r, n) ==
  LET into[i \in 0 .. SlotCount(r)] ==
        IF i = 0 THEN AllocRefs(n)
        ELSE IF r.node[i - 1].obj = NoObject THEN into[i - 1]
        ELSE Added(into[i - 1], r.node[i - 1].obj)
  IN  into[SlotCount(r)]

\* what r holds, in the order of its nodes, in n new ones
Resized(r, n) ==
  LET into[i \in 0 .. SlotCount(r)] ==
        IF i = 0 THEN AllocRefs(n)
        ELSE IF r.node[i - 1].obj = NoObject THEN into[i - 1]
        ELSE AddedWith(into[i - 1], r.node[i - 1])
  IN  into[SlotCount(r)]

WithNode(r, o) ==
  IF Get(r, o) # Nil THEN r
  ELSE IF r.used = SlotCount(r) THEN Added(Resized(r, 2 * SlotCount(r)), o)
  ELSE Added(r, o)

UnlinkedFirst(r, o) ==
  LET i == Get(r, o)
  IN  [r EXCEPT !.bucket[Bucket(r, o)] = r.node[i].next,
                !.node[i] = [obj |-> NoObject, refs |-> 0, next |-> r.free],
                !.free = i, !.used = @ - 1]

\* the node of the object leaves its bucket, where the search came to it from
\* prev, and becomes the first free one
Unlinked(r, o) ==
  LET i     == Get(r, o)
      prev  == CHOOSE j \in DOMAIN r.node : r.node[j].next = i
      freed == [obj |-> NoObject, refs |-> 0, next |-> r.free]
  IN  IF r.bucket[Bucket(r, o)] = i
      THEN [r EXCEPT !.bucket[Bucket(r, o)] = r.node[i].next, !.node[i] = freed,
                     !.free = i, !.used = @ - 1]
      ELSE [r EXCEPT !.node[prev].next = r.node[i].next, !.node[i] = freed,
                     !.free = i, !.used = @ - 1]

----------------------------------------------------------------------------
RInit == refs = AllocRefs(4) /\ held = [o \in Objects |-> 0]

\* a holder is constructed or copied
AddRef(o) ==
  /\ held[o] < MaxRefs
  /\ held' = [held EXCEPT ![o] = @ + 1]
  /\ LET r == WithNode(refs, o)
     IN  refs' = [r EXCEPT !.node[Get(r, o)].refs = @ + 1]

\* a holder is destroyed; if the object is not there, assert(0)
Release(o) ==
  /\ held[o] > 0
  /\ held' = [held EXCEPT ![o] = @ - 1]
  /\ Get(refs, o) # Nil
  /\ refs' = IF refs.node[Get(refs, o)].refs = 1 THEN Unlinked(refs, o)
             ELSE [refs EXCEPT !.node[Get(refs, o)].refs = @ - 1]

RNext == \E o \in Objects : AddRef(o) \/ Release(o)
RSpec == RInit /\ [][RNext]_rvars

----------------------------------------------------------------------------
(* The table counts what is held: an object is in it as long as, and as    *)
(* often as, C++ code holds it, through every growth of the table.         *)
CountsHolders ==
  \A o \in Objects :
    held[o] = IF Get(refs, o) = Nil THEN 0 ELSE refs.node[Get(refs, o)].refs

\* List l is bucket l; the last one is the free list.
Lists(r) == 0 .. SlotCount(r)
Start(r, l) == IF l = SlotCount(r) THEN r.free ELSE r.bucket[l]

\* the nodes of a list
OnList(r, l) ==
  LET from[i \in DOMAIN r.node \union {Nil}] ==
        IF i = Nil THEN {} ELSE {i} \union from[r.node[i].next]
  IN  from[Start(r, l)]

(* Every node is on the free list or in one bucket, and on one list only.  *)
(* The code's assertions say parts of it: the free list is empty when all  *)
(* slots are used, a free node counts no references, and a table that is   *)
(* resized has every slot in use.                                          *)
ListsPartition ==
  LET free == OnList(refs, SlotCount(refs))
  IN  /\ UNION {OnList(refs, l) : l \in Lists(refs)} = DOMAIN refs.node
      /\ \A l, m \in Lists(refs) :
           l # m => OnList(refs, l) \intersect OnList(refs, m) = {}
      /\ refs.used = SlotCount(refs) - Cardinality(free)
      /\ \A i \in DOMAIN refs.node :
           (i \in free) = (refs.node[i].obj = NoObject /\ refs.node[i].refs = 0)
=============================================================================
