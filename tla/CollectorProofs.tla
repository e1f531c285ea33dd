-------------------------- MODULE CollectorProofs ---------------------------
(***************************************************************************)
(* The frees of the Squirrel VM, for any objects, any number of references *)
(* in each and any cycles: nothing dangles, and what was not reached goes. *)
(*                                                                         *)
(* Frees nest.  What keeps an object while an outer call goes on with it   *)
(* is a reference that the call itself holds and that counts (Counting,    *)
(* Backed); an object without a count has its one end coming (Ending,      *)
(* Kept).  A sweep is complete because what it has come to refers to       *)
(* nothing (Swept), the marked refer to the marked (Marked), and what is   *)
(* then left has no count.                                                 *)
(*                                                                         *)
(* The recursive marking ends with what is reached, each once: a call      *)
(* takes at least one object from those that are left (Does).              *)
(***************************************************************************)
EXTENDS Marking, FiniteSetTheorems, SequenceTheorems, WellFoundedInduction, TLAPS

Names == {"drop", "destroy", "clear", "free", "next", "unmark", "forget"}
Calls == [call : Names, on : Cells]

\* the places of references, and those that refer to o
Places == UNION {{r} \X (1 .. Width[r]) : r \in Cells}
Slots(o) == {p \in Places : slot[p[1]][p[2]] = o}

Is(e, c, o) == e.call = c /\ e.on = o

\* the calls of s that hold a reference to o
Holds(e, o) == e.on = o /\ e.call \in {"drop", "next"}
Holding(s, o) == {i \in 1 .. Len(s) : Holds(s[i], o)}

Bit(b) == IF b THEN 1 ELSE 0

Typed ==
  /\ made \subseteq Cells /\ owned \subseteq Things
  /\ chain \subseteq Cells /\ marked \subseteq Cells /\ doomed \subseteq Cells
  /\ ahead \subseteq chain
  /\ DOMAIN slot = Cells
  /\ \A o \in Cells : DOMAIN slot[o] = 1 .. Width[o]
  /\ \A o \in Cells : \A i \in 1 .. Width[o] : slot[o][i] \in Cells \union {NoThing}
  /\ count \in [Cells -> Int]
  /\ todo \in Seq(Calls)
  /\ open \in BOOLEAN

\* A count is the number of the references that there are.
Counts(o) ==
  /\ IsFiniteSet(Slots(o))
  /\ count[o] = Cardinality(Slots(o)) + Cardinality(Holding(todo, o))
                + Bit(o \in owned) + Bit(o = Root /\ open)

Counting == \A o \in Cells : Counts(o)

Unmade == \A o \in Cells \ made : count[o] = 0 /\ AllNull(o)

\* the calls of the end of an object
Ends(e) == e.call \in {"destroy", "free"}

Ending ==
  \A i \in 1 .. Len(todo) : Ends(todo[i]) =>
    /\ todo[i].on \in made \ marked /\ count[todo[i].on] = 0
    /\ \A j \in 1 .. Len(todo) : Ends(todo[j]) /\ todo[j].on = todo[i].on => j = i

\* the end of an object is begun at once
Topmost == \A i \in 1 .. Len(todo) : todo[i].call = "destroy" => i = Len(todo)

\* what no reference is left of has its end coming
Kept ==
  \A o \in made : count[o] = 0 => \E i \in 1 .. Len(todo) : Ends(todo[i]) /\ todo[i].on = o

\* the references of what is freed go before
Emptied ==
  \A i \in 1 .. Len(todo) : todo[i].call = "free" =>
    AllNull(todo[i].on) \/ (i < Len(todo) /\ Is(todo[i + 1], "clear", todo[i].on))

\* whose references go is held, or is being freed
Backed ==
  \A i \in 1 .. Len(todo) : todo[i].call = "clear" =>
    /\ todo[i].on \notin marked /\ i > 1
    /\ todo[i - 1].on = todo[i].on /\ todo[i - 1].call \in {"next", "free", "drop"}

Chained ==
  /\ chain \intersect marked = {}
  /\ chain \union marked = {o \in made : \A i \in 1 .. Len(todo) : ~Is(todo[i], "free", o)}

Collecting == todo # <<>> /\ Is(todo[1], "unmark", Root)
Closing == todo # <<>> /\ Is(todo[1], "forget", Root)

Bottom ==
  /\ \A i \in 1 .. Len(todo) : todo[i].call \in {"unmark", "forget"} => i = 1 /\ todo[i].on = Root
  /\ Collecting => open
  /\ Closing => ~open

\* What is marked refers to what is marked, and is held by it or from outside.
Marked ==
  /\ ~Collecting => marked = {}
  /\ Collecting =>
       /\ Closed(marked)
       /\ \A o \in marked : \/ o = Root \/ o \in owned
                            \/ \E r \in marked : \E i \in 1 .. Width[r] : slot[r][i] = o

\* what a sweep has come to refers to nothing, or will soon
Swept ==
  /\ Collecting \/ (~open /\ ~Closing) =>
       \A o \in chain : o \in ahead \/ AllNull(o)
                        \/ \E i \in 1 .. Len(todo) : Is(todo[i], "clear", o)
  /\ ~open /\ ~Closing => owned = {}

Ahead ==
  /\ (\A i \in 1 .. Len(todo) : todo[i].call # "next") => ahead = {}
  /\ \A i \in 1 .. Len(todo) : todo[i].call = "next" => todo[i].on \notin ahead

Doomed ==
  /\ ~Collecting => doomed \intersect made = {}
  /\ Collecting => doomed \intersect marked = {}

IInv ==
  /\ Typed /\ Counting /\ Unmade /\ Ending /\ Topmost /\ Kept /\ Emptied /\ Backed
  /\ Chained /\ Bottom /\ Marked /\ Swept /\ Ahead /\ Doomed

----------------------------------------------------------------------------
(* What the definitions say of a stack and of the places of references *)

USE CollectorAssumption

\* Everything but the top of a stack, and the top.
LEMMA Stack ==
  ASSUME NEW s \in Seq(Calls), s # <<>>
  PROVE  /\ Len(s) \in Nat \ {0}
         /\ Front(s) \in Seq(Calls) /\ Last(s) \in Calls
         /\ Len(Front(s)) = Len(s) - 1
         /\ \A i \in 1 .. Len(s) - 1 : Front(s)[i] = s[i]
         /\ s[Len(s)] = Last(s)
         /\ s = Append(Front(s), Last(s))
<1>1. Len(s) \in Nat \ {0}
  BY EmptySeq
<1>2. \A i \in 1 .. Len(s) - 1 : s[i] \in Calls
  BY <1>1, ElementOfSeq
<1>3. /\ SubSeq(s, 1, Len(s) - 1) \in Seq(Calls)
      /\ Len(SubSeq(s, 1, Len(s) - 1)) = Len(s) - 1
      /\ \A i \in 1 .. Len(s) - 1 : SubSeq(s, 1, Len(s) - 1)[i] = s[i]
  <2> DEFINE n == Len(s) - 1
  <2>1. n \in Nat /\ n \in Int /\ 1 \in Int /\ \A i \in 1 .. n : s[i] \in Calls
    BY <1>1, <1>2
  <2> HIDE DEF n
  <2>2. /\ SubSeq(s, 1, n) \in Seq(Calls)
        /\ Len(SubSeq(s, 1, n)) = IF 1 <= n THEN n - 1 + 1 ELSE 0
        /\ \A i \in 1 .. n - 1 + 1 : SubSeq(s, 1, n)[i] = s[1 + i - 1]
    BY <2>1, SubSeqProperties
  <2>3. n - 1 + 1 = n /\ \A i \in 1 .. n : 1 + i - 1 = i
    BY <2>1
  <2>4. \A i \in 1 .. n : SubSeq(s, 1, n)[i] = s[i]
    BY <2>2, <2>3
  <2>5. Len(SubSeq(s, 1, n)) = n
    BY <2>1, <2>2
  <2> QED
    BY <2>2, <2>4, <2>5 DEF n
<1>4. Last(s) = s[Len(s)] /\ Last(s) \in Calls
  BY <1>1, ElementOfSeq DEF Last
<1>5. Front(s) = SubSeq(s, 1, Len(s) - 1)
  BY DEF Front
<1>6. /\ Append(Front(s), Last(s)) \in Seq(Calls)
      /\ Len(Append(Front(s), Last(s))) = Len(s)
      /\ \A i \in 1 .. Len(s) : Append(Front(s), Last(s))[i] = s[i]
  BY <1>1, <1>3, <1>4, <1>5, AppendProperties
<1>7. s = Append(Front(s), Last(s))
  BY <1>6, SeqEqual
<1> QED
  BY <1>1, <1>3, <1>4, <1>5, <1>7

\* What a stack is with one more call on it.
LEMMA Push ==
  ASSUME NEW s \in Seq(Calls), NEW e \in Calls
  PROVE  /\ s \o <<e>> = Append(s, e)
         /\ Append(s, e) \in Seq(Calls) /\ Len(Append(s, e)) = Len(s) + 1
         /\ \A i \in 1 .. Len(s) : Append(s, e)[i] = s[i]
         /\ Append(s, e)[Len(s) + 1] = e
<1>1. /\ Append(s, e) \in Seq(Calls) /\ Len(Append(s, e)) = Len(s) + 1
      /\ \A i \in 1 .. Len(s) : Append(s, e)[i] = s[i]
      /\ Append(s, e)[Len(s) + 1] = e
  BY AppendProperties
<1>2. <<e>> \in Seq(Calls) /\ Len(<<e>>) = 1 /\ <<e>>[1] = e
  OBVIOUS
<1>3. /\ s \o <<e>> \in Seq(Calls) /\ Len(s \o <<e>>) = Len(s) + 1
      /\ \A i \in 1 .. Len(s) + 1 : (s \o <<e>>)[i] = IF i <= Len(s) THEN s[i] ELSE <<e>>[i - Len(s)]
  BY <1>2, ConcatProperties
<1>4. Len(s) \in Nat
  BY LenProperties
<1>5. \A i \in 1 .. Len(s) + 1 : (s \o <<e>>)[i] = Append(s, e)[i]
  BY <1>1, <1>2, <1>3, <1>4
<1>6. s \o <<e>> = Append(s, e)
  BY <1>1, <1>3, <1>5, SeqEqual
<1> QED
  BY <1>1, <1>6

LEMMA PushTwo ==
  ASSUME NEW s \in Seq(Calls), NEW d \in Calls, NEW e \in Calls
  PROVE  s \o <<d, e>> = Append(Append(s, d), e)
<1> DEFINE t == <<d, e>>
           u == Append(Append(s, d), e)
<1>1. t \in Seq(Calls) /\ Len(t) = 2 /\ t[1] = d /\ t[2] = e
  OBVIOUS
<1>2. /\ s \o t \in Seq(Calls) /\ Len(s \o t) = Len(s) + Len(t)
      /\ \A i \in 1 .. Len(s) + Len(t) : (s \o t)[i] = IF i <= Len(s) THEN s[i] ELSE t[i - Len(s)]
  BY <1>1, ConcatProperties
<1>3. /\ u \in Seq(Calls) /\ Len(u) = Len(s) + 2
      /\ \A i \in 1 .. Len(s) : u[i] = s[i]
      /\ u[Len(s) + 1] = d /\ u[Len(s) + 2] = e
  <2>1. /\ Append(s, d) \in Seq(Calls) /\ Len(Append(s, d)) = Len(s) + 1
        /\ \A i \in 1 .. Len(s) : Append(s, d)[i] = s[i]
        /\ Append(s, d)[Len(s) + 1] = d
    BY Push
  <2>2. /\ u \in Seq(Calls) /\ Len(u) = Len(s) + 1 + 1
        /\ \A i \in 1 .. Len(s) + 1 : u[i] = Append(s, d)[i]
        /\ u[Len(s) + 1 + 1] = e
    BY <2>1, Push
  <2>3. Len(s) \in Nat
    BY LenProperties
  <2> QED
    BY <2>1, <2>2, <2>3
<1>4. Len(s) \in Nat
  BY LenProperties
<1> HIDE DEF t, u
<1>5. \A i \in 1 .. Len(u) : (s \o t)[i] = u[i]
  BY <1>1, <1>2, <1>3, <1>4
<1>6. s \o t = u
  BY <1>1, <1>2, <1>3, <1>5, SeqEqual
<1> QED
  BY <1>6 DEF t, u

\* The counted references of the calls of a stack.
LEMMA HoldingPushed ==
  ASSUME NEW s \in Seq(Calls), NEW e \in Calls, NEW o \in Cells
  PROVE  /\ Cardinality(Holding(s, o)) \in Nat
         /\ Cardinality(Holding(Append(s, e), o)) = Cardinality(Holding(s, o)) + Bit(Holds(e, o))
<1>1. /\ Len(s) \in Nat /\ Len(Append(s, e)) = Len(s) + 1
      /\ \A i \in 1 .. Len(s) : Append(s, e)[i] = s[i]
      /\ Append(s, e)[Len(s) + 1] = e
  BY Push, LenProperties
<1>2. IsFiniteSet(Holding(s, o)) /\ Cardinality(Holding(s, o)) \in Nat
  <2>1. IsFiniteSet(1 .. Len(s))
    BY <1>1, FS_Interval
  <2>2. Holding(s, o) \subseteq 1 .. Len(s)
    BY DEF Holding
  <2> QED
    BY <2>1, <2>2, FS_Subset, FS_CardinalityType
<1>3. Len(s) + 1 \notin Holding(s, o)
  BY <1>1 DEF Holding
<1>4. CASE Holds(e, o)
  <2>1. Holding(Append(s, e), o) = Holding(s, o) \union {Len(s) + 1}
    BY <1>1, <1>4 DEF Holding, Holds
  <2> QED
    BY <1>2, <1>3, <1>4, <2>1, FS_AddElement DEF Bit
<1>5. CASE ~Holds(e, o)
  <2>1. Holding(Append(s, e), o) = Holding(s, o)
    BY <1>1, <1>5 DEF Holding, Holds
  <2> QED
    BY <1>2, <1>5, <2>1 DEF Bit
<1> QED
  BY <1>4, <1>5

LEMMA CallIs ==
  ASSUME NEW c \in Names, NEW o \in Cells
  PROVE  Call(c, o) \in Calls /\ Call(c, o).call = c /\ Call(c, o).on = o
BY DEF Call, Calls

LEMMA HoldingCall ==
  ASSUME NEW s \in Seq(Calls), NEW c \in Names, NEW q \in Cells, NEW o \in Cells
  PROVE  /\ Cardinality(Holding(s, o)) \in Nat
         /\ Cardinality(Holding(Append(s, Call(c, q)), o))
              = Cardinality(Holding(s, o)) + Bit(q = o /\ c \in {"drop", "next"})
<1>1. Holds(Call(c, q), o) <=> q = o /\ c \in {"drop", "next"}
  BY CallIs DEF Holds
<1>2. Bit(Holds(Call(c, q), o)) = Bit(q = o /\ c \in {"drop", "next"})
  BY <1>1 DEF Bit
<1> QED
  BY <1>2, CallIs, HoldingPushed

LEMMA HoldingNone ==
  ASSUME NEW o \in Cells
  PROVE  Cardinality(Holding(<<>>, o)) = 0
<1>1. Holding(<<>>, o) = {}
  BY DEF Holding
<1> QED
  BY <1>1, FS_EmptySet

LEMMA PlaceOf ==
  /\ \A r \in Cells : \A i \in 1 .. Width[r] : <<r, i>> \in Places
  /\ \A p \in Places : p[1] \in Cells /\ p[2] \in 1 .. Width[p[1]] /\ p = <<p[1], p[2]>>
BY DEF Places

\* One reference set: its place refers to the new one, and no more to the old.
LEMMA SlotSet ==
  ASSUME Typed, NEW r \in Cells, NEW i \in 1 .. Width[r], NEW x \in Cells \union {NoThing},
         slot'[r][i] = x,
         \A q \in Cells : \A j \in 1 .. Width[q] : q # r \/ j # i => slot'[q][j] = slot[q][j],
         NEW o \in Cells, IsFiniteSet(Slots(o))
  PROVE  /\ IsFiniteSet(Slots(o)')
         /\ Cardinality(Slots(o)) \in Nat
         /\ Cardinality(Slots(o)') = Cardinality(Slots(o)) + Bit(x = o) - Bit(slot[r][i] = o)
<1> DEFINE p == <<r, i>>
           R == Slots(o) \ {p}
<1>1. p \in Places /\ p[1] = r /\ p[2] = i
  BY PlaceOf
<1>2. \A q \in Places : q # p => slot'[q[1]][q[2]] = slot[q[1]][q[2]]
  BY PlaceOf
<1>3. IsFiniteSet(R) /\ Cardinality(R) \in Nat /\ p \notin R
  BY FS_RemoveElement, FS_CardinalityType
<1>4. Slots(o)' = IF x = o THEN R \union {p} ELSE R
  BY <1>1, <1>2 DEF Slots, Places
<1>5. Slots(o) = IF slot[r][i] = o THEN R \union {p} ELSE R
  BY <1>1 DEF Slots
<1>6. IsFiniteSet(R \union {p}) /\ Cardinality(R \union {p}) = Cardinality(R) + 1
  BY <1>3, FS_AddElement
<1> HIDE DEF R
<1> QED
  BY <1>3, <1>4, <1>5, <1>6 DEF Bit

----------------------------------------------------------------------------
(* What follows from the counts *)

\* A reference that there is was counted, each once.
LEMMA CountFacts ==
  ASSUME Typed, Counting, NEW o \in Cells
  PROVE  /\ count[o] \in Nat
         /\ \A r \in Cells : \A i \in 1 .. Width[r] : slot[r][i] = o => count[o] >= 1
         /\ o \in owned => count[o] >= 1
         /\ o = Root /\ open => count[o] >= 1
         /\ \A k \in 1 .. Len(todo) : Holds(todo[k], o) =>
              /\ count[o] >= 1
              /\ (o \in owned \/ (o = Root /\ open)) => count[o] >= 2
              /\ \A r \in Cells : \A i \in 1 .. Width[r] : slot[r][i] = o => count[o] >= 2
<1> DEFINE S == Cardinality(Slots(o))
           H == Cardinality(Holding(todo, o))
<1>1. IsFiniteSet(Slots(o)) /\ S \in Nat
  BY FS_CardinalityType DEF Counting, Counts
<1>2. IsFiniteSet(Holding(todo, o)) /\ H \in Nat
  <2>1. IsFiniteSet(1 .. Len(todo)) /\ Holding(todo, o) \subseteq 1 .. Len(todo)
    BY LenProperties, FS_Interval DEF Typed, Holding
  <2> QED
    BY <2>1, FS_Subset, FS_CardinalityType
<1>3. ASSUME NEW r \in Cells, NEW i \in 1 .. Width[r], slot[r][i] = o
      PROVE  S >= 1
  <2>1. <<r, i>> \in Slots(o)
    BY <1>3, PlaceOf DEF Slots
  <2>2. Slots(o) # {}
    BY <2>1
  <2> QED
    BY <1>1, <2>2, FS_EmptySet
<1>4. ASSUME NEW k \in 1 .. Len(todo), Holds(todo[k], o)
      PROVE  H >= 1
  <2>1. Holding(todo, o) # {}
    BY <1>4 DEF Holding
  <2> QED
    BY <1>2, <2>1, FS_EmptySet
<1>5. count[o] = S + H + Bit(o \in owned) + Bit(o = Root /\ open)
  BY DEF Counting, Counts
<1> HIDE DEF S, H
<1> QED
  BY <1>1, <1>2, <1>3, <1>4, <1>5 DEF Bit

\* What nothing refers to has the count 0.
LEMMA CountNone ==
  ASSUME Typed, Counting, NEW o \in Cells,
         \A r \in Cells : \A i \in 1 .. Width[r] : slot[r][i] # o,
         o \notin owned, ~(o = Root /\ open),
         \A k \in 1 .. Len(todo) : ~Holds(todo[k], o)
  PROVE  count[o] = 0
<1>1. Slots(o) = {}
  BY PlaceOf DEF Slots
<1>2. Holding(todo, o) = {}
  BY DEF Holding
<1>3. Cardinality(Slots(o)) = 0 /\ Cardinality(Holding(todo, o)) = 0
  BY <1>1, <1>2, FS_EmptySet
<1>4. Bit(o \in owned) = 0 /\ Bit(o = Root /\ open) = 0
  BY DEF Bit
<1>5. count[o] = Cardinality(Slots(o)) + Cardinality(Holding(todo, o))
                 + Bit(o \in owned) + Bit(o = Root /\ open)
  BY DEF Counting, Counts
<1> QED
  BY <1>3, <1>4, <1>5

\* What is referred to is in memory.
LEMMA Referred ==
  ASSUME Typed, Counting, Unmade, NEW o \in Cells
  PROVE  /\ \A r \in Cells : \A i \in 1 .. Width[r] : slot[r][i] = o => o \in made
         /\ o \in owned => o \in made
         /\ o = Root /\ open => o \in made
         /\ \A k \in 1 .. Len(todo) : Holds(todo[k], o) => o \in made
BY CountFacts DEF Unmade

\* What the script or a collection reaches is in memory, refers to no other,
\* and each has what it is reached by.
LEMMA ReachedIs ==
  ASSUME Typed, Counting, Unmade, open
  PROVE  /\ Reached \subseteq made
         /\ Closed(Reached)
         /\ \A o \in Reached : \/ o = Root \/ o \in owned
                               \/ \E r \in Reached : \E i \in 1 .. Width[r] : slot[r][i] = o
<1>1. Closed(made)
  BY Referred DEF Closed, Typed, Cells
<1>2. Reached \subseteq made
  BY <1>1 DEF Reached, Typed
<1>3. Closed(Reached)
  <2>1. {Root} \union owned \subseteq Reached
    BY DEF Reached, Closed, Typed, Cells
  <2>2. ASSUME NEW o \in Reached, NEW i \in 1 .. Width[o], slot[o][i] # NoThing
        PROVE  slot[o][i] \in Reached
    <3>1. o \in Cells /\ slot[o][i] \in Cells
      BY <2>2 DEF Reached, Typed
    <3>2. ASSUME NEW S \in SUBSET Cells, Closed(S)
          PROVE  slot[o][i] \in S
      BY <2>2, <3>2 DEF Reached, Closed
    <3> QED
      BY <3>1, <3>2 DEF Reached
  <2> QED
    BY <2>1, <2>2 DEF Closed
<1>4. ASSUME NEW o \in Reached, o # Root, o \notin owned,
             \A r \in Reached : \A i \in 1 .. Width[r] : slot[r][i] # o
      PROVE  FALSE
  <2> DEFINE S == Reached \ {o}
  <2>1. S \in SUBSET Cells
    BY DEF Reached
  <2>2. Closed(S)
    BY <1>3, <1>4 DEF Closed
  <2>3. o \in S
    BY <2>1, <2>2 DEF Reached
  <2> QED
    BY <2>3
<1> QED
  BY <1>2, <1>3, <1>4

\* The call that returns is the top one.
LEMMA Returned ==
  ASSUME Typed, NEW c \in Names, NEW o \in Cells, Returns(c, o)
  PROVE  /\ Len(todo) \in Nat \ {0}
         /\ todo[Len(todo)].call = c /\ todo[Len(todo)].on = o
         /\ Front(todo) \in Seq(Calls) /\ Len(Front(todo)) = Len(todo) - 1
         /\ \A i \in 1 .. Len(todo) - 1 : Front(todo)[i] = todo[i]
         /\ todo = Append(Front(todo), Call(c, o))
BY Stack, CallIs DEF Typed, Returns

\* A step above the first call, or of no collection, leaves what goes on.
LEMMA BottomSame ==
  ASSUME Typed, Typed', Bottom, open' = open,
         NEW m \in Nat, m <= Len(todo), m <= Len(todo'),
         \A i \in 1 .. m : todo'[i] = todo[i],
         \A i \in m + 1 .. Len(todo) : todo[i].call \notin {"unmark", "forget"},
         \A i \in m + 1 .. Len(todo') : todo'[i].call \notin {"unmark", "forget"}
  PROVE  /\ Collecting' <=> Collecting
         /\ Closing' <=> Closing
         /\ Bottom'
<1>1. /\ Len(todo) \in Nat /\ Len(todo') \in Nat
      /\ todo = <<>> <=> Len(todo) = 0
      /\ todo' = <<>> <=> Len(todo') = 0
  BY EmptySeq, LenProperties DEF Typed
<1>2. (Collecting' <=> Collecting) /\ (Closing' <=> Closing)
  <2>1. CASE m = 0
    BY <1>1, <2>1 DEF Collecting, Closing, Is
  <2>2. CASE m > 0
    BY <1>1, <2>2 DEF Collecting, Closing, Is
  <2> QED
    BY <2>1, <2>2
<1>3. Bottom'
  <2>1. \A i \in 1 .. Len(todo') : todo'[i].call \in {"unmark", "forget"} => i \in 1 .. m
    BY <1>1
  <2>2. \A i \in 1 .. Len(todo') : todo'[i].call \in {"unmark", "forget"} => i = 1 /\ todo'[i].on = Root
    BY <1>1, <2>1 DEF Bottom
  <2> QED
    BY <1>2, <2>2 DEF Bottom
<1> QED
  BY <1>2, <1>3

----------------------------------------------------------------------------
(* The steps *)

(* A reference that goes takes its count with it; the last one brings the  *)
(* end of the object, unless it is marked, and then it is not the last.    *)
LEMMA DropStep ==
  ASSUME IInv, NEW o \in Cells, Drop(o)
  PROVE  IInv'
<1> DEFINE n == Len(todo)
           f == Front(todo)
<1>1. Typed /\ Counting /\ Unmade /\ Ending /\ Topmost /\ Kept /\ Emptied /\ Backed
  BY DEF IInv
<1>2. Chained /\ Bottom /\ Marked /\ Swept /\ Ahead /\ Doomed
  BY DEF IInv
<1>3. /\ n \in Nat \ {0} /\ todo[n].call = "drop" /\ todo[n].on = o
      /\ f \in Seq(Calls) /\ Len(f) = n - 1
      /\ \A i \in 1 .. n - 1 : f[i] = todo[i]
      /\ todo = Append(f, Call("drop", o))
  BY <1>1, Returned DEF Drop, Names
<1>4. Holds(todo[n], o)
  BY <1>3 DEF Holds
<1>5. count[o] \in Nat /\ count[o] >= 1 /\ o \in made
  BY <1>1, <1>3, <1>4, CountFacts, Referred
<1>6. o \in marked => count[o] >= 2
  BY <1>1, <1>2, <1>3, <1>4, CountFacts DEF Marked, Bottom, Typed
<1>7. /\ count' \in [Cells -> Int] /\ count'[o] = count[o] - 1
      /\ \A p \in Cells : p # o => count'[p] = count[p]
  BY <1>1, <1>5 DEF Drop, Typed
<1>8. UNCHANGED <<made, slot, owned, chain, ahead, marked, doomed, open>>
  BY DEF Drop
<1>9. \/ /\ count[o] = 1 /\ o \notin marked
         /\ todo' = Append(f, Call("destroy", o)) /\ todo' \in Seq(Calls) /\ Len(todo') = n
         /\ \A i \in 1 .. n - 1 : todo'[i] = todo[i]
         /\ todo'[n].call = "destroy" /\ todo'[n].on = o
      \/ /\ count[o] > 1
         /\ todo' = f /\ todo' \in Seq(Calls) /\ Len(todo') = n - 1
         /\ \A i \in 1 .. n - 1 : todo'[i] = todo[i]
  <2>1. Call("destroy", o) \in Calls
    BY CallIs DEF Names
  <2>2. CASE count[o] = 1 /\ o \notin marked
    <3>1. todo' = f \o <<Call("destroy", o)>>
      BY <2>2 DEF Drop, Continues
    <3> QED
      BY <1>3, <2>1, <2>2, <3>1, Push, CallIs DEF Names
  <2>3. CASE ~(count[o] = 1 /\ o \notin marked)
    <3>1. todo' = f \o <<>>
      BY <2>3 DEF Drop, Continues
    <3>2. todo' = f
      BY <1>3, <3>1, ConcatEmptySeq
    <3> HIDE DEF f, n
    <3>3. count[o] > 1
      BY <1>5, <1>6, <2>3
    <3> QED
      BY <1>3, <3>2, <3>3
  <2> QED
    BY <2>2, <2>3
<1> HIDE DEF f, n
<1>10. Typed'
  BY <1>1, <1>7, <1>8, <1>9 DEF Typed
<1>11. (Collecting' <=> Collecting) /\ (Closing' <=> Closing) /\ Bottom'
  <2>1. n - 1 \in Nat /\ n - 1 <= n /\ n = Len(todo) /\ n - 1 <= Len(todo')
    BY <1>3, <1>9 DEF n
  <2>2. \A i \in n - 1 + 1 .. n : todo[i].call \notin {"unmark", "forget"}
    BY <1>3
  <2>3. \A i \in n - 1 + 1 .. Len(todo') : todo'[i].call \notin {"unmark", "forget"}
    BY <1>3, <1>9
  <2>4. \A i \in 1 .. n - 1 : todo'[i] = todo[i]
    BY <1>9
  <2> QED
    BY <1>1, <1>2, <1>8, <1>10, <2>1, <2>2, <2>3, <2>4, BottomSame
<1>12. /\ n \in 1 .. Len(todo) /\ todo[n].call = "drop" /\ todo[n].on = o
       /\ \A i \in 1 .. Len(todo) : i # n => i \in 1 .. Len(todo') /\ todo'[i] = todo[i]
       /\ \A i \in 1 .. Len(todo') : i # n => i \in 1 .. Len(todo) /\ todo'[i] = todo[i]
       /\ n \in 1 .. Len(todo') =>
            todo'[n].call = "destroy" /\ todo'[n].on = o /\ o \notin marked /\ count[o] = 1
       /\ count[o] = 1 => n \in 1 .. Len(todo')
  BY <1>3, <1>9 DEF n
<1>13. Counting'
  <2> SUFFICES ASSUME NEW p \in Cells PROVE Counts(p)'
    BY DEF Counting
  <2>1. Counts(p) /\ Slots(p)' = Slots(p)
    BY <1>1, <1>8 DEF Counting, Slots
  <2>2. /\ Cardinality(Holding(f, p)) \in Nat
        /\ Cardinality(Holding(todo, p)) = Cardinality(Holding(f, p)) + Bit(p = o)
    BY <1>3, HoldingCall DEF Names, Bit
  <2>3. Cardinality(Holding(todo', p)) = Cardinality(Holding(f, p))
    <3>1. Cardinality(Holding(Append(f, Call("destroy", o)), p)) = Cardinality(Holding(f, p))
      BY <1>3, <2>2, HoldingCall DEF Names, Bit
    <3>2. todo' = f \/ todo' = Append(f, Call("destroy", o))
      BY <1>9
    <3> QED
      BY <3>1, <3>2
  <2>4. IsFiniteSet(Slots(p)) /\ Cardinality(Slots(p)) \in Nat
    BY <2>1, FS_CardinalityType DEF Counts
  <2>5. count'[p] = count[p] - Bit(p = o)
    BY <1>1, <1>7 DEF Bit, Typed
  <2>6. Bit(p \in owned)' = Bit(p \in owned) /\ Bit(p = Root /\ open)' = Bit(p = Root /\ open)
    BY <1>8
  <2> QED
    BY <2>1, <2>2, <2>3, <2>4, <2>5, <2>6 DEF Counts, Bit
<1>14. Unmade'
  BY <1>1, <1>5, <1>7, <1>8 DEF Unmade, AllNull
<1>15. Ending'
  <2>1. count[o] >= 1 /\ count'[o] = count[o] - 1
    BY <1>5, <1>7
  <2>2. \A i \in 1 .. Len(todo) : Ends(todo[i]) => todo[i].on \in Cells /\ todo[i].on # o
    BY <1>1, <2>1 DEF Ending, Typed
  <2>3. ASSUME NEW i \in 1 .. Len(todo'), Ends(todo'[i])
        PROVE  todo'[i].on \in made \ marked /\ count'[todo'[i].on] = 0
    <3>1. CASE i = n
      <4>1. todo'[i].on = o /\ o \notin marked /\ count'[o] = 0
        BY <1>5, <1>7, <1>12, <3>1
      <4> QED
        BY <1>5, <4>1
    <3>2. CASE i # n
      <4>1. i \in 1 .. Len(todo) /\ todo'[i] = todo[i]
        BY <1>12, <3>2
      <4>2. Ends(todo[i])
        BY <2>3, <4>1 DEF Ends
      <4>3. todo[i].on \in made \ marked /\ count[todo[i].on] = 0
        BY <1>1, <4>1, <4>2 DEF Ending
      <4>4. count'[todo[i].on] = count[todo[i].on]
        BY <1>7, <2>2, <4>1, <4>2
      <4> QED
        BY <4>1, <4>3, <4>4
    <3> QED
      BY <3>1, <3>2
  <2>4. ASSUME NEW i \in 1 .. Len(todo'), Ends(todo'[i]),
               NEW j \in 1 .. Len(todo'), Ends(todo'[j]), todo'[j].on = todo'[i].on
        PROVE  j = i
    <3>1. \A a \in 1 .. Len(todo') : a # n =>
            a \in 1 .. Len(todo) /\ todo'[a] = todo[a]
      BY <1>12
    <3>2. n \in 1 .. Len(todo') => todo'[n].on = o
      BY <1>12
    <3>3. \A a, b \in 1 .. Len(todo) :
            Ends(todo[a]) /\ Ends(todo[b]) /\ todo[b].on = todo[a].on => b = a
      BY <1>1 DEF Ending
    <3>4. CASE i = n \/ j = n
      BY <2>2, <2>4, <3>1, <3>2, <3>4
    <3>5. CASE i # n /\ j # n
      <4>1. /\ i \in 1 .. Len(todo) /\ todo'[i] = todo[i]
            /\ j \in 1 .. Len(todo) /\ todo'[j] = todo[j]
        BY <2>4, <3>1, <3>5
      <4>2. Ends(todo[i]) /\ Ends(todo[j])
        BY <2>4, <4>1 DEF Ends
      <4> QED
        BY <2>4, <3>3, <4>1, <4>2
    <3> QED
      BY <3>4, <3>5
  <2> QED
    BY <1>8, <2>3, <2>4 DEF Ending
<1>16. Kept'
  <2>1. ASSUME NEW p \in made, count'[p] = 0
        PROVE  \E i \in 1 .. Len(todo') : Ends(todo'[i]) /\ todo'[i].on = p
    <3>1. CASE p = o
      BY <1>5, <1>7, <1>12, <2>1, <3>1 DEF Ends
    <3>2. CASE p # o
      <4>1. count[p] = 0
        BY <1>1, <1>7, <2>1, <3>2 DEF Typed
      <4>2. PICK i \in 1 .. Len(todo) : Ends(todo[i]) /\ todo[i].on = p
        BY <1>1, <4>1 DEF Kept
      <4>3. i # n
        BY <1>12, <4>2 DEF Ends
      <4> QED
        BY <1>12, <4>2, <4>3
    <3> QED
      BY <3>1, <3>2
  <2> QED
    BY <1>8, <2>1 DEF Kept
<1>17. Emptied'
  <2> SUFFICES ASSUME NEW i \in 1 .. Len(todo'), todo'[i].call = "free"
               PROVE  AllNull(todo'[i].on) \/ (i < Len(todo') /\ Is(todo'[i + 1], "clear", todo'[i].on))
    BY <1>8 DEF Emptied, AllNull
  <2>1. i # n /\ i \in 1 .. Len(todo) /\ todo'[i] = todo[i]
    BY <1>12
  <2>2. AllNull(todo[i].on) \/ (i < Len(todo) /\ Is(todo[i + 1], "clear", todo[i].on))
    BY <1>1, <2>1 DEF Emptied
  <2>3. ASSUME i < Len(todo), Is(todo[i + 1], "clear", todo[i].on)
        PROVE  i < Len(todo') /\ Is(todo'[i + 1], "clear", todo[i].on)
    <3>1. i + 1 \in 1 .. Len(todo) /\ i + 1 # n
      BY <1>3, <1>12, <2>1, <2>3 DEF Is, n
    <3>2. i + 1 \in 1 .. Len(todo') /\ todo'[i + 1] = todo[i + 1]
      BY <1>12, <3>1
    <3> QED
      BY <2>1, <2>3, <3>2
  <2> QED
    BY <2>1, <2>2, <2>3
<1>18. Backed'
  <2> SUFFICES ASSUME NEW i \in 1 .. Len(todo'), todo'[i].call = "clear"
               PROVE  /\ todo'[i].on \notin marked /\ i > 1
                      /\ todo'[i - 1].on = todo'[i].on /\ todo'[i - 1].call \in {"next", "free", "drop"}
    BY <1>8 DEF Backed
  <2>1. i # n /\ i \in 1 .. Len(todo) /\ todo'[i] = todo[i]
    BY <1>12
  <2>2. /\ todo[i].on \notin marked /\ i > 1
        /\ todo[i - 1].on = todo[i].on /\ todo[i - 1].call \in {"next", "free", "drop"}
    BY <1>1, <2>1 DEF Backed
  <2>3. i - 1 \in 1 .. Len(todo) /\ i - 1 # n
    BY <1>3, <2>1, <2>2 DEF n
  <2>4. todo'[i - 1] = todo[i - 1]
    BY <1>12, <2>3
  <2> QED
    BY <2>1, <2>2, <2>4
<1>19. Chained'
  <2>1. \A p : (\A i \in 1 .. Len(todo) : ~Is(todo[i], "free", p))
               <=> (\A i \in 1 .. Len(todo') : ~Is(todo'[i], "free", p))
    BY <1>12 DEF Is
  <2> QED
    BY <1>2, <1>8, <2>1 DEF Chained
<1>20. Marked'
  BY <1>2, <1>8, <1>11 DEF Marked, Closed
<1>21. Swept'
  <2>1. \A p : (\E i \in 1 .. Len(todo) : Is(todo[i], "clear", p))
               => (\E i \in 1 .. Len(todo') : Is(todo'[i], "clear", p))
    BY <1>12 DEF Is
  <2> QED
    BY <1>2, <1>8, <1>11, <2>1 DEF Swept, AllNull
<1>22. Ahead'
  <2>1. (\A i \in 1 .. Len(todo') : todo'[i].call # "next")
        => (\A i \in 1 .. Len(todo) : todo[i].call # "next")
    BY <1>12
  <2>2. \A i \in 1 .. Len(todo') : todo'[i].call = "next" => todo'[i].on \notin ahead
    BY <1>2, <1>12 DEF Ahead
  <2> QED
    BY <1>2, <1>8, <2>1, <2>2 DEF Ahead
<1>23. Doomed'
  BY <1>2, <1>8, <1>11 DEF Doomed
<1>24. Topmost'
  <2>1. \A i \in 1 .. Len(todo) : todo[i].call # "destroy"
    BY <1>1, <1>12 DEF Topmost, n
  <2> QED
    BY <1>9, <1>12, <2>1 DEF Topmost
<1> QED
  BY <1>10, <1>11, <1>13, <1>14, <1>15, <1>16, <1>17, <1>18, <1>19, <1>20, <1>21, <1>22, <1>23, <1>24 DEF IInv

(* An object that ends leaves the chain.                                   *)
LEMMA DestroyStep ==
  ASSUME IInv, NEW o \in Cells, Destroy(o)
  PROVE  IInv'
<1> DEFINE n == Len(todo)
           f == Front(todo)
<1>1. Typed /\ Counting /\ Unmade /\ Ending /\ Topmost /\ Kept /\ Emptied /\ Backed
  BY DEF IInv
<1>2. Chained /\ Bottom /\ Marked /\ Swept /\ Ahead /\ Doomed
  BY DEF IInv
<1>3. /\ n \in Nat \ {0} /\ todo[n].call = "destroy" /\ todo[n].on = o
      /\ f \in Seq(Calls) /\ Len(f) = n - 1
      /\ \A i \in 1 .. n - 1 : f[i] = todo[i]
      /\ todo = Append(f, Call("destroy", o))
  BY <1>1, Returned DEF Destroy, Names
<1>4. UNCHANGED <<made, slot, owned, count, marked, doomed, open>>
  BY DEF Destroy
<1>5. chain' = chain \ {o} /\ ahead' = ahead \ {o}
  BY DEF Destroy
<1>6. /\ todo' = Append(Append(f, Call("free", o)), Call("clear", o)) /\ todo' \in Seq(Calls)
      /\ Append(f, Call("free", o)) \in Seq(Calls)
      /\ Len(todo') = n + 1
      /\ \A i \in 1 .. n - 1 : todo'[i] = todo[i]
      /\ todo'[n].call = "free" /\ todo'[n].on = o
      /\ todo'[n + 1].call = "clear" /\ todo'[n + 1].on = o
  <2> DEFINE g == Append(f, Call("free", o))
  <2>1. Call("free", o) \in Calls /\ Call("clear", o) \in Calls
    BY CallIs DEF Names
  <2>2. todo' = Append(g, Call("clear", o))
    BY <1>3, <2>1, PushTwo DEF Destroy, Continues
  <2>3. /\ g \in Seq(Calls) /\ Len(g) = n
        /\ \A i \in 1 .. n - 1 : g[i] = todo[i]
        /\ g[n] = Call("free", o)
    BY <1>3, <2>1, Push
  <2> HIDE DEF g, n
  <2>4. /\ Append(g, Call("clear", o)) \in Seq(Calls) /\ Len(Append(g, Call("clear", o))) = n + 1
        /\ \A i \in 1 .. n : Append(g, Call("clear", o))[i] = g[i]
        /\ Append(g, Call("clear", o))[n + 1] = Call("clear", o)
    BY <2>1, <2>3, Push
  <2>5. \A i \in 1 .. n - 1 : todo'[i] = todo[i]
    BY <1>3, <2>2, <2>3, <2>4
  <2>6. todo'[n] = Call("free", o) /\ todo'[n + 1] = Call("clear", o)
    BY <1>3, <2>2, <2>3, <2>4
  <2> QED
    BY <2>2, <2>3, <2>4, <2>5, <2>6, CallIs DEF g, Names
<1> HIDE DEF f, n
<1>7. Typed'
  BY <1>1, <1>4, <1>5, <1>6 DEF Typed
<1>8. (Collecting' <=> Collecting) /\ (Closing' <=> Closing) /\ Bottom'
  <2>1. n - 1 \in Nat /\ n - 1 <= n /\ n = Len(todo) /\ n - 1 <= Len(todo')
    BY <1>3, <1>6 DEF n
  <2>2. \A i \in n - 1 + 1 .. n : todo[i].call \notin {"unmark", "forget"}
    BY <1>3
  <2>3. \A i \in n - 1 + 1 .. Len(todo') : todo'[i].call \notin {"unmark", "forget"}
    BY <1>3, <1>6
  <2>4. \A i \in 1 .. n - 1 : todo'[i] = todo[i]
    BY <1>6
  <2> QED
    BY <1>1, <1>2, <1>4, <1>7, <2>1, <2>2, <2>3, <2>4, BottomSame
<1>9. /\ n \in 1 .. Len(todo) /\ Ends(todo[n]) /\ todo[n].call = "destroy" /\ todo[n].on = o
      /\ n \in 1 .. Len(todo') /\ todo'[n].call = "free" /\ todo'[n].on = o
      /\ n + 1 \in 1 .. Len(todo') /\ todo'[n + 1].call = "clear" /\ todo'[n + 1].on = o
      /\ \A i \in 1 .. Len(todo) : i # n => i \in 1 .. Len(todo') /\ todo'[i] = todo[i]
      /\ \A i \in 1 .. Len(todo') : i # n /\ i # n + 1 => i \in 1 .. Len(todo) /\ todo'[i] = todo[i]
  BY <1>3, <1>6 DEF n, Ends
<1>10. /\ o \in made \ marked /\ count[o] = 0
       /\ \A j \in 1 .. Len(todo) : Ends(todo[j]) /\ todo[j].on = o => j = n
  BY <1>1, <1>9 DEF Ending
<1>11. Counting'
  <2> SUFFICES ASSUME NEW p \in Cells PROVE Counts(p)'
    BY DEF Counting
  <2>1. Counts(p) /\ Slots(p)' = Slots(p)
    BY <1>1, <1>4 DEF Counting, Slots
  <2>2. Cardinality(Holding(todo, p)) = Cardinality(Holding(f, p))
    BY <1>3, HoldingCall DEF Names, Bit
  <2>3. Cardinality(Holding(todo', p)) = Cardinality(Holding(f, p))
    <3>1. Cardinality(Holding(Append(f, Call("free", o)), p)) = Cardinality(Holding(f, p))
      BY <1>3, HoldingCall DEF Names, Bit
    <3> DEFINE g == Append(f, Call("free", o))
    <3>2. g \in Seq(Calls) /\ todo' = Append(g, Call("clear", o))
      BY <1>6
    <3> HIDE DEF g
    <3>3. Cardinality(Holding(todo', p)) = Cardinality(Holding(g, p))
      BY <3>2, HoldingCall DEF Names, Bit
    <3> QED
      BY <3>1, <3>3 DEF g
  <2> QED
    BY <1>4, <2>1, <2>2, <2>3 DEF Counts
<1>12. Unmade'
  BY <1>1, <1>4 DEF Unmade, AllNull
<1>13. Ending'
  <2>1. ASSUME NEW i \in 1 .. Len(todo'), Ends(todo'[i])
        PROVE  todo'[i].on \in made \ marked /\ count[todo'[i].on] = 0
    BY <1>1, <1>9, <1>10, <2>1 DEF Ending, Ends
  <2>2. ASSUME NEW i \in 1 .. Len(todo'), Ends(todo'[i]),
               NEW j \in 1 .. Len(todo'), Ends(todo'[j]), todo'[j].on = todo'[i].on
        PROVE  j = i
    <3>1. i # n + 1 /\ j # n + 1
      BY <1>9, <2>2 DEF Ends
    <3>2. CASE i = n \/ j = n
      BY <1>9, <1>10, <2>2, <3>1, <3>2
    <3>3. CASE i # n /\ j # n
      BY <1>1, <1>9, <2>2, <3>1, <3>3 DEF Ending
    <3> QED
      BY <3>2, <3>3
  <2> QED
    BY <1>4, <2>1, <2>2 DEF Ending
<1>14. Kept'
  <2>1. ASSUME NEW p \in made, count[p] = 0
        PROVE  \E i \in 1 .. Len(todo') : Ends(todo'[i]) /\ todo'[i].on = p
    <3>1. PICK i \in 1 .. Len(todo) : Ends(todo[i]) /\ todo[i].on = p
      BY <1>1, <2>1 DEF Kept
    <3>2. CASE i = n
      BY <1>9, <3>1, <3>2 DEF Ends
    <3>3. CASE i # n
      BY <1>9, <3>1, <3>3
    <3> QED
      BY <3>2, <3>3
  <2> QED
    BY <1>4, <2>1 DEF Kept
<1>15. Emptied'
  <2> SUFFICES ASSUME NEW i \in 1 .. Len(todo'), todo'[i].call = "free"
               PROVE  AllNull(todo'[i].on) \/ (i < Len(todo') /\ Is(todo'[i + 1], "clear", todo'[i].on))
    BY <1>4 DEF Emptied, AllNull
  <2>1. CASE i = n
    BY <1>6, <2>1 DEF Is
  <2>2. CASE i # n
    <3>1. i \in 1 .. Len(todo) /\ todo'[i] = todo[i]
      BY <1>9, <2>2
    <3>2. AllNull(todo[i].on) \/ (i < Len(todo) /\ Is(todo[i + 1], "clear", todo[i].on))
      BY <1>1, <3>1 DEF Emptied
    <3>3. ASSUME i < Len(todo), Is(todo[i + 1], "clear", todo[i].on)
          PROVE  i < Len(todo') /\ Is(todo'[i + 1], "clear", todo'[i].on)
      BY <1>3, <1>6, <3>1, <3>3 DEF Is, n
    <3> QED
      BY <3>1, <3>2, <3>3
  <2> QED
    BY <2>1, <2>2
<1>16. Backed'
  BY <1>1, <1>3, <1>4, <1>6, <1>10 DEF Backed, n
<1>17. Chained'
  <2>1. \A p : p # o => ((\A i \in 1 .. Len(todo) : ~Is(todo[i], "free", p))
                          <=> (\A i \in 1 .. Len(todo') : ~Is(todo'[i], "free", p)))
    BY <1>9 DEF Is
  <2>2. ~(\A i \in 1 .. Len(todo') : ~Is(todo'[i], "free", o))
    BY <1>9 DEF Is
  <2>3. /\ chain \intersect marked = {}
        /\ chain \union marked = {p \in made : \A i \in 1 .. Len(todo) : ~Is(todo[i], "free", p)}
    BY <1>2 DEF Chained
  <2>4. chain' \intersect marked = {}
    BY <1>5, <2>3
  <2>5. chain' \union marked = (chain \union marked) \ {o}
    BY <1>5, <1>10
  <2>6. {p \in made : \A i \in 1 .. Len(todo') : ~Is(todo'[i], "free", p)}
        = {p \in made : \A i \in 1 .. Len(todo) : ~Is(todo[i], "free", p)} \ {o}
    BY <2>1, <2>2
  <2> QED
    BY <1>4, <2>3, <2>4, <2>5, <2>6 DEF Chained
<1>18. Marked'
  BY <1>2, <1>4, <1>8 DEF Marked, Closed
<1>19. Swept'
  <2>1. \A p : (\E i \in 1 .. Len(todo) : Is(todo[i], "clear", p))
               => (\E i \in 1 .. Len(todo') : Is(todo'[i], "clear", p))
    BY <1>9 DEF Is
  <2> QED
    BY <1>2, <1>4, <1>5, <1>8, <2>1 DEF Swept, AllNull
<1>20. Ahead'
  <2>1. (\A i \in 1 .. Len(todo') : todo'[i].call # "next")
        => (\A i \in 1 .. Len(todo) : todo[i].call # "next")
    BY <1>9
  <2>2. \A i \in 1 .. Len(todo') : todo'[i].call = "next" => todo'[i].on \notin ahead
    BY <1>2, <1>9 DEF Ahead
  <2> QED
    BY <1>2, <1>5, <2>1, <2>2 DEF Ahead
<1>21. Doomed'
  BY <1>2, <1>4, <1>8 DEF Doomed
<1>22. Topmost'
  <2>1. \A i \in 1 .. Len(todo) : i # n => todo[i].call # "destroy"
    BY <1>1, <1>9 DEF Topmost, n
  <2> QED
    BY <1>9, <2>1 DEF Topmost
<1> QED
  BY <1>7, <1>8, <1>11, <1>12, <1>13, <1>14, <1>15, <1>16, <1>17, <1>18, <1>19, <1>20, <1>21, <1>22 DEF IInv

\* A call that returns, with no other in its place.
LEMMA Pop ==
  ASSUME Typed, NEW c \in Names, NEW o \in Cells, Returns(c, o), Continues(<<>>)
  PROVE  /\ Len(todo) \in Nat \ {0} /\ Len(todo) \in 1 .. Len(todo)
         /\ todo[Len(todo)].call = c /\ todo[Len(todo)].on = o
         /\ todo' \in Seq(Calls) /\ Len(todo') = Len(todo) - 1
         /\ todo = Append(todo', Call(c, o))
         /\ \A i \in 1 .. Len(todo) : i # Len(todo) => i \in 1 .. Len(todo') /\ todo'[i] = todo[i]
         /\ \A i \in 1 .. Len(todo') :
              i \in 1 .. Len(todo) /\ i < Len(todo) /\ todo'[i] = todo[i]
<1>1. /\ Len(todo) \in Nat \ {0} /\ todo[Len(todo)].call = c /\ todo[Len(todo)].on = o
      /\ Front(todo) \in Seq(Calls) /\ Len(Front(todo)) = Len(todo) - 1
      /\ \A i \in 1 .. Len(todo) - 1 : Front(todo)[i] = todo[i]
      /\ todo = Append(Front(todo), Call(c, o))
  BY Returned
<1>2. todo' = Front(todo)
  BY <1>1, ConcatEmptySeq DEF Continues
<1> QED
  BY <1>1, <1>2

LEMMA PopBottom ==
  ASSUME Typed, Typed', Bottom, open' = open, NEW c \in Names \ {"unmark", "forget"}, NEW o \in Cells,
         Returns(c, o), Continues(<<>>)
  PROVE  (Collecting' <=> Collecting) /\ (Closing' <=> Closing) /\ Bottom'
<1> DEFINE m == Len(todo) - 1
<1>1. /\ m \in Nat /\ m <= Len(todo) /\ m = Len(todo')
      /\ \A i \in 1 .. m : todo'[i] = todo[i]
      /\ \A i \in m + 1 .. Len(todo) : todo[i].call \notin {"unmark", "forget"}
      /\ \A i \in m + 1 .. Len(todo') : todo'[i].call \notin {"unmark", "forget"}
  BY Pop
<1> HIDE DEF m
<1>2. m <= Len(todo')
  BY <1>1
<1> QED
  BY <1>1, <1>2, BottomSame

(* The last of an object's references has gone.                            *)
LEMMA ClearEndsStep ==
  ASSUME IInv, NEW o \in Cells, Returns("clear", o), AllNull(o), Continues(<<>>),
         UNCHANGED <<made, slot, owned, count, chain, ahead, marked, doomed, open>>
  PROVE  IInv'
<1> DEFINE n == Len(todo)
<1>1. Typed /\ Counting /\ Unmade /\ Ending /\ Topmost /\ Kept /\ Emptied /\ Backed
  BY DEF IInv
<1>2. Chained /\ Bottom /\ Marked /\ Swept /\ Ahead /\ Doomed
  BY DEF IInv
<1>3. /\ n \in Nat \ {0} /\ n \in 1 .. Len(todo) /\ todo[n].call = "clear" /\ todo[n].on = o
      /\ todo' \in Seq(Calls) /\ Len(todo') = n - 1
      /\ todo = Append(todo', Call("clear", o))
      /\ \A i \in 1 .. Len(todo) : i # n => i \in 1 .. Len(todo') /\ todo'[i] = todo[i]
      /\ \A i \in 1 .. Len(todo') : i \in 1 .. Len(todo) /\ i < n /\ todo'[i] = todo[i]
  BY <1>1, Pop DEF Names
<1>4. Typed'
  BY <1>1, <1>3 DEF Typed
<1>5. (Collecting' <=> Collecting) /\ (Closing' <=> Closing) /\ Bottom'
  BY <1>1, <1>2, <1>4, PopBottom DEF Names
<1>6. Counting'
  <2> SUFFICES ASSUME NEW p \in Cells PROVE Counts(p)'
    BY DEF Counting
  <2>1. Counts(p) /\ Slots(p)' = Slots(p)
    BY <1>1 DEF Counting, Slots
  <2>2. Cardinality(Holding(todo, p)) = Cardinality(Holding(todo', p))
    BY <1>3, HoldingCall DEF Names, Bit
  <2> QED
    BY <2>1, <2>2 DEF Counts
<1>7. Unmade'
  BY <1>1 DEF Unmade, AllNull
<1>8. Ending'
  BY <1>1, <1>3 DEF Ending
<1>9. Kept'
  <2>1. ASSUME NEW p \in made, count[p] = 0
        PROVE  \E i \in 1 .. Len(todo') : Ends(todo'[i]) /\ todo'[i].on = p
    <3>1. PICK i \in 1 .. Len(todo) : Ends(todo[i]) /\ todo[i].on = p
      BY <1>1, <2>1 DEF Kept
    <3>2. i # n
      BY <1>3, <3>1 DEF Ends
    <3> QED
      BY <1>3, <3>1, <3>2
  <2> QED
    BY <2>1 DEF Kept
<1>10. Emptied'
  <2> SUFFICES ASSUME NEW i \in 1 .. Len(todo'), todo'[i].call = "free"
               PROVE  AllNull(todo'[i].on) \/ (i < Len(todo') /\ Is(todo'[i + 1], "clear", todo'[i].on))
    BY DEF Emptied, AllNull
  <2>1. i \in 1 .. Len(todo) /\ i < n /\ todo'[i] = todo[i]
    BY <1>3
  <2>2. AllNull(todo[i].on) \/ Is(todo[i + 1], "clear", todo[i].on)
    BY <1>1, <2>1 DEF Emptied
  <2>3. CASE i + 1 = n
    BY <1>3, <2>1, <2>2, <2>3 DEF Is
  <2>4. CASE i + 1 # n
    BY <1>3, <2>1, <2>2, <2>4
  <2> QED
    BY <2>3, <2>4
<1>11. Backed'
  BY <1>1, <1>3 DEF Backed
<1>12. Chained'
  <2>1. \A p : (\A i \in 1 .. Len(todo) : ~Is(todo[i], "free", p))
               <=> (\A i \in 1 .. Len(todo') : ~Is(todo'[i], "free", p))
    BY <1>3 DEF Is
  <2> QED
    BY <1>2, <2>1 DEF Chained
<1>13. Marked'
  BY <1>2, <1>5 DEF Marked, Closed
<1>14. Swept'
  <2>1. \A p : (\E i \in 1 .. Len(todo) : Is(todo[i], "clear", p))
               => p = o \/ \E i \in 1 .. Len(todo') : Is(todo'[i], "clear", p)
    BY <1>3 DEF Is
  <2> QED
    BY <1>2, <1>5, <2>1 DEF Swept, AllNull
<1>15. Ahead'
  <2>1. (\A i \in 1 .. Len(todo') : todo'[i].call # "next")
        => (\A i \in 1 .. Len(todo) : todo[i].call # "next")
    BY <1>3
  <2>2. \A i \in 1 .. Len(todo') : todo'[i].call = "next" => todo'[i].on \notin ahead
    BY <1>2, <1>3 DEF Ahead
  <2> QED
    BY <1>2, <2>1, <2>2 DEF Ahead
<1>16. Doomed'
  BY <1>2, <1>5 DEF Doomed
<1>17. Topmost'
  <2>1. \A i \in 1 .. Len(todo) : todo[i].call # "destroy"
    BY <1>1, <1>3 DEF Topmost
  <2> QED
    BY <1>3, <2>1 DEF Topmost
<1> QED
  BY <1>4, <1>5, <1>6, <1>7, <1>8, <1>9, <1>10, <1>11, <1>12, <1>13, <1>14, <1>15, <1>16, <1>17 DEF IInv

(* An object that has no reference left leaves memory.                     *)
LEMMA FreeStep ==
  ASSUME IInv, NEW o \in Cells, Free(o)
  PROVE  IInv'
<1> DEFINE n == Len(todo)
<1>1. Typed /\ Counting /\ Unmade /\ Ending /\ Topmost /\ Kept /\ Emptied /\ Backed
  BY DEF IInv
<1>2. Chained /\ Bottom /\ Marked /\ Swept /\ Ahead /\ Doomed
  BY DEF IInv
<1>3. /\ n \in Nat \ {0} /\ n \in 1 .. Len(todo) /\ todo[n].call = "free" /\ todo[n].on = o
      /\ todo' \in Seq(Calls) /\ Len(todo') = n - 1
      /\ todo = Append(todo', Call("free", o))
      /\ \A i \in 1 .. Len(todo) : i # n => i \in 1 .. Len(todo') /\ todo'[i] = todo[i]
      /\ \A i \in 1 .. Len(todo') : i \in 1 .. Len(todo) /\ i < n /\ todo'[i] = todo[i]
  BY <1>1, Pop DEF Free, Names
<1>4. UNCHANGED <<slot, owned, count, chain, ahead, marked, doomed, open>> /\ made' = made \ {o}
  BY DEF Free
<1>5. /\ Ends(todo[n]) /\ o \in made \ marked /\ count[o] = 0
      /\ \A j \in 1 .. Len(todo) : Ends(todo[j]) /\ todo[j].on = o => j = n
  BY <1>1, <1>3 DEF Ending, Ends
<1>6. AllNull(o)
  <2>1. AllNull(todo[n].on) \/ n < Len(todo)
    BY <1>1, <1>3 DEF Emptied
  <2> QED
    BY <1>3, <2>1
<1>7. Typed'
  BY <1>1, <1>3, <1>4 DEF Typed
<1>8. (Collecting' <=> Collecting) /\ (Closing' <=> Closing) /\ Bottom'
  BY <1>1, <1>2, <1>4, <1>7, PopBottom DEF Names, Free
<1>9. Counting'
  <2> SUFFICES ASSUME NEW p \in Cells PROVE Counts(p)'
    BY DEF Counting
  <2>1. Counts(p) /\ Slots(p)' = Slots(p)
    BY <1>1, <1>4 DEF Counting, Slots
  <2>2. Cardinality(Holding(todo, p)) = Cardinality(Holding(todo', p))
    BY <1>3, HoldingCall DEF Names, Bit
  <2> QED
    BY <1>4, <2>1, <2>2 DEF Counts
<1>10. Unmade'
  BY <1>1, <1>4, <1>5, <1>6 DEF Unmade, AllNull
<1>11. Ending'
  <2>1. ASSUME NEW i \in 1 .. Len(todo'), Ends(todo'[i])
        PROVE  todo'[i].on # o
    BY <1>3, <1>5, <2>1
  <2> QED
    BY <1>1, <1>3, <1>4, <2>1 DEF Ending, Ends
<1>12. Kept'
  <2>1. ASSUME NEW p \in made', count[p] = 0
        PROVE  \E i \in 1 .. Len(todo') : Ends(todo'[i]) /\ todo'[i].on = p
    <3>1. PICK i \in 1 .. Len(todo) : Ends(todo[i]) /\ todo[i].on = p
      BY <1>1, <1>4, <2>1 DEF Kept
    <3>2. i # n
      BY <1>3, <1>4, <2>1, <3>1
    <3> QED
      BY <1>3, <3>1, <3>2
  <2> QED
    BY <1>4, <2>1 DEF Kept
<1>13. Emptied'
  <2> SUFFICES ASSUME NEW i \in 1 .. Len(todo'), todo'[i].call = "free"
               PROVE  AllNull(todo'[i].on) \/ (i < Len(todo') /\ Is(todo'[i + 1], "clear", todo'[i].on))
    BY <1>4 DEF Emptied, AllNull
  <2>1. i \in 1 .. Len(todo) /\ i < n /\ todo'[i] = todo[i]
    BY <1>3
  <2>2. AllNull(todo[i].on) \/ Is(todo[i + 1], "clear", todo[i].on)
    BY <1>1, <2>1 DEF Emptied
  <2>3. CASE i + 1 = n
    BY <1>3, <2>1, <2>2, <2>3 DEF Is
  <2>4. CASE i + 1 # n
    BY <1>3, <2>1, <2>2, <2>4
  <2> QED
    BY <2>3, <2>4
<1>14. Backed'
  BY <1>1, <1>3, <1>4 DEF Backed
<1>15. Chained'
  <2>1. \A p : p # o => ((\A i \in 1 .. Len(todo) : ~Is(todo[i], "free", p))
                          <=> (\A i \in 1 .. Len(todo') : ~Is(todo'[i], "free", p)))
    BY <1>3 DEF Is
  <2>2. ~(\A i \in 1 .. Len(todo) : ~Is(todo[i], "free", o))
    BY <1>3 DEF Is
  <2> QED
    BY <1>2, <1>4, <2>1, <2>2 DEF Chained
<1>16. Marked'
  BY <1>2, <1>4, <1>8 DEF Marked, Closed
<1>17. Swept'
  <2>1. \A p : (\E i \in 1 .. Len(todo) : Is(todo[i], "clear", p))
               => \E i \in 1 .. Len(todo') : Is(todo'[i], "clear", p)
    BY <1>3 DEF Is
  <2> QED
    BY <1>2, <1>4, <1>8, <2>1 DEF Swept, AllNull
<1>18. Ahead'
  <2>1. (\A i \in 1 .. Len(todo') : todo'[i].call # "next")
        => (\A i \in 1 .. Len(todo) : todo[i].call # "next")
    BY <1>3
  <2>2. \A i \in 1 .. Len(todo') : todo'[i].call = "next" => todo'[i].on \notin ahead
    BY <1>2, <1>3 DEF Ahead
  <2> QED
    BY <1>2, <1>4, <2>1, <2>2 DEF Ahead
<1>19. Doomed'
  BY <1>2, <1>4, <1>8 DEF Doomed
<1>20. Topmost'
  <2>1. \A i \in 1 .. Len(todo) : todo[i].call # "destroy"
    BY <1>1, <1>3 DEF Topmost
  <2> QED
    BY <1>3, <2>1 DEF Topmost
<1> QED
  BY <1>7, <1>8, <1>9, <1>10, <1>11, <1>12, <1>13, <1>14, <1>15, <1>16, <1>17, <1>18, <1>19, <1>20 DEF IInv

\* A release that a call makes, which goes on after it.
LEMMA Released ==
  ASSUME Typed, NEW x \in Cells, todo' = todo \o Releases(x)
  PROVE  /\ Len(todo) \in Nat
         /\ todo' = Append(todo, Call("drop", x)) /\ todo' \in Seq(Calls)
         /\ Len(todo') = Len(todo) + 1 /\ Len(todo') \in 1 .. Len(todo')
         /\ todo'[Len(todo')].call = "drop" /\ todo'[Len(todo')].on = x
         /\ \A i \in 1 .. Len(todo) : i \in 1 .. Len(todo') /\ i < Len(todo') /\ todo'[i] = todo[i]
         /\ \A i \in 1 .. Len(todo') : i # Len(todo') => i \in 1 .. Len(todo) /\ todo'[i] = todo[i]
<1>1. todo \in Seq(Calls) /\ Len(todo) \in Nat
  BY LenProperties DEF Typed
<1>2. todo' = todo \o <<Call("drop", x)>>
  BY DEF Releases
<1>3. Call("drop", x) \in Calls /\ Call("drop", x).call = "drop" /\ Call("drop", x).on = x
  BY CallIs DEF Names
<1>4. /\ todo' = Append(todo, Call("drop", x)) /\ todo' \in Seq(Calls)
      /\ Len(todo') = Len(todo) + 1
      /\ \A i \in 1 .. Len(todo) : todo'[i] = todo[i]
      /\ todo'[Len(todo) + 1] = Call("drop", x)
  BY <1>1, <1>2, <1>3, Push
<1> QED
  BY <1>1, <1>3, <1>4

LEMMA ReleasedBottom ==
  ASSUME Typed, Typed', Bottom, open' = open, NEW x \in Cells, todo' = todo \o Releases(x)
  PROVE  (Collecting' <=> Collecting) /\ (Closing' <=> Closing) /\ Bottom'
<1> DEFINE m == Len(todo)
<1>1. /\ m \in Nat /\ m <= Len(todo) /\ m <= Len(todo')
      /\ \A i \in 1 .. m : todo'[i] = todo[i]
      /\ \A i \in m + 1 .. Len(todo) : todo[i].call \notin {"unmark", "forget"}
  <2>1. m \in Nat /\ Len(todo') = m + 1 /\ \A i \in 1 .. m : todo'[i] = todo[i]
    BY Released
  <2> QED
    BY <2>1
<1>2. \A i \in m + 1 .. Len(todo') : todo'[i].call \notin {"unmark", "forget"}
  <2>1. m \in Nat /\ Len(todo') = m + 1 /\ todo'[Len(todo')].call = "drop"
    BY Released
  <2> HIDE DEF m
  <2> QED
    BY <2>1
<1> HIDE DEF m
<1> QED
  BY <1>1, <1>2, BottomSame

(* A reference of an object that is cleared goes.                          *)
LEMMA ClearOneStep ==
  ASSUME IInv, NEW o \in Cells, Returns("clear", o),
         NEW k \in 1 .. Width[o], slot[o][k] # NoThing,
         slot' = [slot EXCEPT ![o][k] = NoThing],
         todo' = todo \o Releases(slot[o][k]),
         UNCHANGED <<made, owned, count, chain, ahead, marked, doomed, open>>
  PROVE  IInv'
<1> DEFINE x == slot[o][k]
           n == Len(todo')
<1>1. Typed /\ Counting /\ Unmade /\ Ending /\ Topmost /\ Kept /\ Emptied /\ Backed
  BY DEF IInv
<1>2. Chained /\ Bottom /\ Marked /\ Swept /\ Ahead /\ Doomed
  BY DEF IInv
<1>3. x \in Cells
  BY <1>1 DEF Typed
<1>4. o \notin marked
  <2>1. Len(todo) \in 1 .. Len(todo) /\ todo[Len(todo)].call = "clear" /\ todo[Len(todo)].on = o
    BY <1>1, Returned DEF Names
  <2> QED
    BY <1>1, <2>1 DEF Backed
<1>5. /\ Len(todo) \in Nat
      /\ todo' = Append(todo, Call("drop", x)) /\ todo' \in Seq(Calls)
      /\ n = Len(todo) + 1 /\ n \in 1 .. Len(todo')
      /\ todo'[n].call = "drop" /\ todo'[n].on = x
      /\ \A i \in 1 .. Len(todo) : i \in 1 .. Len(todo') /\ i < n /\ todo'[i] = todo[i]
      /\ \A i \in 1 .. Len(todo') : i # n => i \in 1 .. Len(todo) /\ todo'[i] = todo[i]
  BY <1>1, <1>3, Released
<1>6. /\ DOMAIN slot' = Cells /\ \A p \in Cells : DOMAIN slot'[p] = 1 .. Width[p]
      /\ slot'[o][k] = NoThing
      /\ \A p \in Cells : \A i \in 1 .. Width[p] : slot'[p][i] = slot[p][i] \/ slot'[p][i] = NoThing
      /\ \A p \in Cells : p # o => slot'[p] = slot[p]
  BY <1>1 DEF Typed
<1>7. \A p \in Cells : AllNull(p) => AllNull(p)'
  BY <1>6 DEF AllNull
<1>8. Typed'
  BY <1>1, <1>5, <1>6 DEF Typed
<1>9. (Collecting' <=> Collecting) /\ (Closing' <=> Closing) /\ Bottom'
  BY <1>1, <1>2, <1>3, <1>8, ReleasedBottom
<1>10. Counting'
  <2> SUFFICES ASSUME NEW p \in Cells PROVE Counts(p)'
    BY DEF Counting
  <2>1. Counts(p)
    BY <1>1 DEF Counting
  <2>2. /\ IsFiniteSet(Slots(p)') /\ Cardinality(Slots(p)) \in Nat
        /\ Cardinality(Slots(p)') = Cardinality(Slots(p)) + Bit(NoThing = p) - Bit(x = p)
    <3>1. IsFiniteSet(Slots(p)) /\ NoThing \in Cells \union {NoThing}
      BY <2>1 DEF Counts
    <3>2. \A q \in Cells : \A j \in 1 .. Width[q] : q # o \/ j # k => slot'[q][j] = slot[q][j]
      BY <1>1 DEF Typed
    <3>3. /\ IsFiniteSet(Slots(p)') /\ Cardinality(Slots(p)) \in Nat
          /\ Cardinality(Slots(p)') = Cardinality(Slots(p)) + Bit(NoThing = p) - Bit(slot[o][k] = p)
      <4>1. Typed /\ slot'[o][k] = NoThing /\ o \in Cells /\ k \in 1 .. Width[o]
        BY <1>1, <1>6
      <4> QED
        BY <4>1, <3>1, <3>2, SlotSet
    <3> QED
      BY <3>3
  <2>3. /\ Cardinality(Holding(todo, p)) \in Nat
        /\ Cardinality(Holding(todo', p)) = Cardinality(Holding(todo, p)) + Bit(x = p)
    <3>1. todo \in Seq(Calls) /\ todo' = Append(todo, Call("drop", x)) /\ "drop" \in Names /\ x \in Cells
      BY <1>1, <1>3, <1>5 DEF Names, Typed
    <3> HIDE DEF x
    <3> QED
      BY ONLY <3>1, HoldingCall, p \in Cells DEF Bit
  <2>4. Bit(NoThing = p) = 0 /\ Bit(x = p) \in Nat
    BY DEF Bit, CollectorAssumption
  <2>5. Bit(p \in owned)' = Bit(p \in owned) /\ Bit(p = Root /\ open)' = Bit(p = Root /\ open)
    OBVIOUS
  <2>6. count'[p] = Cardinality(Slots(p)) + Cardinality(Holding(todo, p))
                    + Bit(p \in owned) + Bit(p = Root /\ open)
    BY <2>1 DEF Counts
  <2>7. Cardinality(Slots(p)') + Cardinality(Holding(todo', p))
        = Cardinality(Slots(p)) + Cardinality(Holding(todo, p))
    BY <2>2, <2>3, <2>4
  <2> QED
    BY <2>2, <2>5, <2>6, <2>7 DEF Counts
<1> HIDE DEF x, n
<1>11. Unmade'
  BY <1>1, <1>7 DEF Unmade
<1>12. Ending'
  <2>1. \A i \in 1 .. Len(todo') : Ends(todo'[i]) => i \in 1 .. Len(todo) /\ todo'[i] = todo[i]
    BY <1>5 DEF Ends
  <2> QED
    BY <1>1, <2>1 DEF Ending
<1>13. Kept'
  BY <1>1, <1>5 DEF Kept
<1>14. Emptied'
  <2> DEFINE Nulled(q) == \A j \in 1 .. Width[q] : slot'[q][j] = NoThing
  <2> SUFFICES ASSUME NEW i \in 1 .. Len(todo'), todo'[i].call = "free"
               PROVE  Nulled(todo'[i].on) \/ (i < Len(todo') /\ Is(todo'[i + 1], "clear", todo'[i].on))
    BY DEF Emptied, AllNull
  <2>1. i \in 1 .. Len(todo) /\ i < n /\ todo'[i] = todo[i] /\ todo[i].on \in Cells
    BY <1>1, <1>5 DEF Ending, Ends, Typed
  <2>2. AllNull(todo[i].on) \/ (i < Len(todo) /\ Is(todo[i + 1], "clear", todo[i].on))
    BY <1>1, <2>1 DEF Emptied
  <2>3. CASE AllNull(todo[i].on)
    BY <1>7, <2>1, <2>3 DEF AllNull
  <2>4. CASE i < Len(todo) /\ Is(todo[i + 1], "clear", todo[i].on)
    <3>1. i + 1 \in 1 .. Len(todo) /\ i < Len(todo')
      BY <1>5, <2>1, <2>4
    <3> QED
      BY <1>5, <2>1, <2>4, <3>1
  <2> QED
    BY <2>2, <2>3, <2>4
<1>15. Backed'
  <2> SUFFICES ASSUME NEW i \in 1 .. Len(todo'), todo'[i].call = "clear"
               PROVE  /\ todo'[i].on \notin marked /\ i > 1
                      /\ todo'[i - 1].on = todo'[i].on /\ todo'[i - 1].call \in {"next", "free", "drop"}
    BY DEF Backed
  <2>1. i \in 1 .. Len(todo) /\ todo'[i] = todo[i]
    BY <1>5
  <2>2. /\ todo[i].on \notin marked /\ i > 1
        /\ todo[i - 1].on = todo[i].on /\ todo[i - 1].call \in {"next", "free", "drop"}
    BY <1>1, <2>1 DEF Backed
  <2>3. i - 1 \in 1 .. Len(todo)
    BY <1>5, <2>1, <2>2
  <2> QED
    BY <1>5, <2>1, <2>2, <2>3
<1>16. Chained'
  <2>1. \A p : (\A i \in 1 .. Len(todo) : ~Is(todo[i], "free", p))
               <=> (\A i \in 1 .. Len(todo') : ~Is(todo'[i], "free", p))
    BY <1>5 DEF Is
  <2> QED
    BY <1>2, <2>1 DEF Chained
<1>17. Marked'
  <2>1. marked \subseteq Cells /\ \A p \in marked : slot'[p] = slot[p]
    BY <1>1, <1>4, <1>6 DEF Typed
  <2>2. Closed(marked) => Closed(marked)'
    BY <2>1 DEF Closed
  <2>3. \A q : (\E r \in marked : \E i \in 1 .. Width[r] : slot[r][i] = q)
               => \E r \in marked : \E i \in 1 .. Width[r] : slot'[r][i] = q
    BY <2>1
  <2> QED
    BY <1>2, <1>9, <2>2, <2>3 DEF Marked
<1>18. Swept'
  <2>1. \A p : (\E i \in 1 .. Len(todo) : Is(todo[i], "clear", p))
               => \E i \in 1 .. Len(todo') : Is(todo'[i], "clear", p)
    BY <1>5 DEF Is
  <2>2. chain \subseteq Cells
    BY <1>1 DEF Typed
  <2> QED
    BY <1>2, <1>7, <1>9, <2>1, <2>2 DEF Swept
<1>19. Ahead'
  <2>1. (\A i \in 1 .. Len(todo') : todo'[i].call # "next")
        => (\A i \in 1 .. Len(todo) : todo[i].call # "next")
    BY <1>5
  <2>2. \A i \in 1 .. Len(todo') : todo'[i].call = "next" => todo'[i].on \notin ahead
    BY <1>2, <1>5 DEF Ahead
  <2> QED
    BY <1>2, <2>1, <2>2 DEF Ahead
<1>20. Doomed'
  BY <1>2, <1>9 DEF Doomed
<1>21. Topmost'
  <2>1. todo[Len(todo)].call = "clear"
    BY <1>1, Returned DEF Names
  <2>2. \A i \in 1 .. Len(todo) : todo[i].call # "destroy"
    BY <1>1, <2>1 DEF Topmost
  <2> QED
    BY <1>5, <2>2 DEF Topmost
<1> QED
  BY <1>8, <1>9, <1>10, <1>11, <1>12, <1>13, <1>14, <1>15, <1>16, <1>17, <1>18, <1>19, <1>20, <1>21 DEF IInv

(* The sweep comes to its end.                                             *)
LEMMA SweepEndsStep ==
  ASSUME IInv, NEW o \in Cells, Returns("next", o), ahead = {},
         Continues(<<Call("drop", o)>>),
         UNCHANGED <<made, slot, owned, count, chain, ahead, marked, doomed, open>>
  PROVE  IInv'
<1> DEFINE n == Len(todo)
           f == Front(todo)
<1>1. Typed /\ Counting /\ Unmade /\ Ending /\ Topmost /\ Kept /\ Emptied /\ Backed
  BY DEF IInv
<1>2. Chained /\ Bottom /\ Marked /\ Swept /\ Ahead /\ Doomed
  BY DEF IInv
<1>3. /\ n \in Nat \ {0} /\ todo[n].call = "next" /\ todo[n].on = o
      /\ f \in Seq(Calls) /\ Len(f) = n - 1
      /\ \A i \in 1 .. n - 1 : f[i] = todo[i]
      /\ todo = Append(f, Call("next", o))
  BY <1>1, Returned DEF Names
<1>4. /\ todo' = Append(f, Call("drop", o)) /\ todo' \in Seq(Calls) /\ Len(todo') = n
      /\ \A i \in 1 .. n - 1 : todo'[i] = todo[i]
      /\ todo'[n].call = "drop" /\ todo'[n].on = o
  <2>1. Call("drop", o) \in Calls /\ todo' = f \o <<Call("drop", o)>>
    BY CallIs DEF Names, Continues
  <2> QED
    BY <1>3, <2>1, Push, CallIs DEF Names
<1> HIDE DEF f
<1>5. /\ n \in 1 .. Len(todo) /\ Len(todo') = Len(todo)
      /\ \A i \in 1 .. Len(todo) : i # n => i \in 1 .. n - 1 /\ todo'[i] = todo[i]
  BY <1>3, <1>4
<1>6. Typed'
  BY <1>1, <1>4 DEF Typed
<1>7. (Collecting' <=> Collecting) /\ (Closing' <=> Closing) /\ Bottom'
  <2> DEFINE m == n - 1
  <2>1. /\ m \in Nat /\ m <= Len(todo) /\ m <= Len(todo')
        /\ \A i \in 1 .. m : todo'[i] = todo[i]
        /\ \A i \in m + 1 .. Len(todo) : todo[i].call \notin {"unmark", "forget"}
        /\ \A i \in m + 1 .. Len(todo') : todo'[i].call \notin {"unmark", "forget"}
    BY <1>3, <1>4
  <2> HIDE DEF m
  <2> QED
    BY <1>1, <1>2, <1>6, <2>1, BottomSame
<1>8. Counting'
  <2> SUFFICES ASSUME NEW p \in Cells PROVE Counts(p)'
    BY DEF Counting
  <2>1. Counts(p) /\ Slots(p)' = Slots(p)
    BY <1>1 DEF Counting, Slots
  <2>2. Cardinality(Holding(todo, p)) = Cardinality(Holding(f, p)) + Bit(o = p)
    BY <1>3, HoldingCall DEF Names, Bit
  <2>3. Cardinality(Holding(todo', p)) = Cardinality(Holding(f, p)) + Bit(o = p)
    BY <1>3, <1>4, HoldingCall DEF Names, Bit
  <2> QED
    BY <2>1, <2>2, <2>3 DEF Counts
<1> HIDE DEF n
<1>9. Unmade'
  BY <1>1 DEF Unmade, AllNull
<1>10. Ending'
  <2>1. \A i \in 1 .. Len(todo') : Ends(todo'[i]) => i \in 1 .. Len(todo) /\ todo'[i] = todo[i]
    BY <1>4, <1>5 DEF Ends
  <2> QED
    BY <1>1, <2>1 DEF Ending
<1>11. Kept'
  <2>1. \A i \in 1 .. Len(todo) : Ends(todo[i]) => i \in 1 .. Len(todo') /\ todo'[i] = todo[i]
    BY <1>3, <1>5 DEF Ends
  <2> QED
    BY <1>1, <2>1 DEF Kept
<1>12. Emptied'
  <2> SUFFICES ASSUME NEW i \in 1 .. Len(todo'), todo'[i].call = "free"
               PROVE  AllNull(todo'[i].on) \/ (i < Len(todo') /\ Is(todo'[i + 1], "clear", todo'[i].on))
    BY DEF Emptied, AllNull
  <2>1. i # n /\ i \in 1 .. n - 1 /\ todo'[i] = todo[i]
    BY <1>4, <1>5
  <2>2. AllNull(todo[i].on) \/ Is(todo[i + 1], "clear", todo[i].on)
    BY <1>1, <1>5, <2>1 DEF Emptied
  <2>3. CASE i + 1 = n
    BY <1>3, <2>1, <2>2, <2>3 DEF Is
  <2>4. CASE i + 1 # n
    <3>1. i + 1 \in 1 .. Len(todo) /\ i < Len(todo')
      BY <1>3, <1>5, <2>1, <2>4
    <3> QED
      BY <1>5, <2>1, <2>2, <2>4, <3>1
  <2> QED
    BY <2>3, <2>4
<1>13. Backed'
  <2> SUFFICES ASSUME NEW i \in 1 .. Len(todo'), todo'[i].call = "clear"
               PROVE  /\ todo'[i].on \notin marked /\ i > 1
                      /\ todo'[i - 1].on = todo'[i].on /\ todo'[i - 1].call \in {"next", "free", "drop"}
    BY DEF Backed
  <2>1. i \in 1 .. Len(todo) /\ i \in 1 .. n - 1 /\ todo'[i] = todo[i]
    BY <1>4, <1>5
  <2>2. /\ todo[i].on \notin marked /\ i > 1
        /\ todo[i - 1].on = todo[i].on /\ todo[i - 1].call \in {"next", "free", "drop"}
    BY <1>1, <2>1 DEF Backed
  <2>3. i - 1 \in 1 .. n - 1
    BY <1>3, <2>1, <2>2
  <2> QED
    BY <1>4, <2>1, <2>2, <2>3
<1>14. Chained'
  <2>1. \A p : (\A i \in 1 .. Len(todo) : ~Is(todo[i], "free", p))
               <=> (\A i \in 1 .. Len(todo') : ~Is(todo'[i], "free", p))
    BY <1>3, <1>4, <1>5 DEF Is
  <2> QED
    BY <1>2, <2>1 DEF Chained
<1>15. Marked'
  BY <1>2, <1>7 DEF Marked, Closed
<1>16. Swept'
  <2>1. \A p : (\E i \in 1 .. Len(todo) : Is(todo[i], "clear", p))
               => \E i \in 1 .. Len(todo') : Is(todo'[i], "clear", p)
    BY <1>3, <1>5 DEF Is
  <2> QED
    BY <1>2, <1>7, <2>1 DEF Swept, AllNull
<1>17. Ahead'
  BY DEF Ahead
<1>18. Doomed'
  BY <1>2, <1>7 DEF Doomed
<1>19. Topmost'
  <2>1. \A i \in 1 .. Len(todo) : todo[i].call # "destroy"
    BY <1>1, <1>3 DEF Topmost, n
  <2> QED
    BY <1>4, <1>5, <2>1 DEF Topmost
<1> QED
  BY <1>6, <1>7, <1>8, <1>9, <1>10, <1>11, <1>12, <1>13, <1>14, <1>15, <1>16, <1>17, <1>18, <1>19 DEF IInv

\* A count that grows by one.
LEMMA CountedIs ==
  ASSUME count \in [Cells -> Int], NEW o \in Cells
  PROVE  /\ Counted(count, o) \in [Cells -> Int]
         /\ \A p \in Cells : Counted(count, o)[p] = count[p] + Bit(p = o)
BY DEF Counted, Bit

(* The sweep comes to the next one of the chain, and lets go of the last.  *)
LEMMA SweepGoesOnStep ==
  ASSUME IInv, NEW o \in Cells, Returns("next", o),
         NEW p \in ahead, ahead' = ahead \ {p}, count' = Counted(count, p),
         Continues(Sweeps(p) \o <<Call("drop", o)>>),
         UNCHANGED <<made, slot, owned, chain, marked, doomed, open>>
  PROVE  IInv'
<1> DEFINE n == Len(todo)
           f == Front(todo)
           g == Append(f, Call("next", p))
           h == Append(g, Call("clear", p))
<1>1. Typed /\ Counting /\ Unmade /\ Ending /\ Topmost /\ Kept /\ Emptied /\ Backed
  BY DEF IInv
<1>2. Chained /\ Bottom /\ Marked /\ Swept /\ Ahead /\ Doomed
  BY DEF IInv
<1>3. /\ n \in Nat \ {0} /\ todo[n].call = "next" /\ todo[n].on = o
      /\ f \in Seq(Calls) /\ Len(f) = n - 1
      /\ \A i \in 1 .. n - 1 : f[i] = todo[i]
      /\ todo = Append(f, Call("next", o))
  BY <1>1, Returned DEF Names
<1>4. /\ p \in Cells /\ p \in chain /\ p \notin marked /\ p # o
      /\ p \in made /\ \A i \in 1 .. Len(todo) : ~Is(todo[i], "free", p)
  BY <1>1, <1>2, <1>3 DEF Typed, Chained, Ahead
<1>5. /\ f \in Seq(Calls) /\ g \in Seq(Calls) /\ h \in Seq(Calls)
      /\ todo' = Append(h, Call("drop", o)) /\ todo' \in Seq(Calls) /\ Len(todo') = n + 2
      /\ \A i \in 1 .. n - 1 : todo'[i] = todo[i]
      /\ todo'[n].call = "next" /\ todo'[n].on = p
      /\ todo'[n + 1].call = "clear" /\ todo'[n + 1].on = p
      /\ todo'[n + 2].call = "drop" /\ todo'[n + 2].on = o
  <2>1. Call("next", p) \in Calls /\ Call("clear", p) \in Calls /\ Call("drop", o) \in Calls
    BY <1>4, CallIs DEF Names
  <2>2. Sweeps(p) \in Seq(Calls) /\ <<Call("drop", o)>> \in Seq(Calls)
    BY <2>1 DEF Sweeps
  <2>3. todo' = (f \o Sweeps(p)) \o <<Call("drop", o)>>
    BY <1>3, <2>2, ConcatAssociative DEF Continues
  <2>4. f \o Sweeps(p) = h
    BY <1>3, <2>1, PushTwo DEF Sweeps
  <2>5. /\ g \in Seq(Calls) /\ Len(g) = n
        /\ \A i \in 1 .. n - 1 : g[i] = todo[i]
        /\ g[n] = Call("next", p)
    BY <1>3, <2>1, Push
  <2> HIDE DEF f, g, n
  <2>6. /\ h \in Seq(Calls) /\ Len(h) = n + 1
        /\ \A i \in 1 .. n : h[i] = g[i]
        /\ h[n + 1] = Call("clear", p)
    BY <2>1, <2>5, Push
  <2> HIDE DEF h
  <2>7. todo' = Append(h, Call("drop", o))
    BY <2>1, <2>3, <2>4, <2>6, Push
  <2>8. /\ todo' \in Seq(Calls) /\ Len(todo') = n + 1 + 1
        /\ \A i \in 1 .. n + 1 : todo'[i] = h[i]
        /\ todo'[n + 1 + 1] = Call("drop", o)
    BY <2>1, <2>6, <2>7, Push
  <2>9. \A i \in 1 .. n - 1 : todo'[i] = todo[i]
    BY <1>3, <2>5, <2>6, <2>8
  <2>10. todo'[n] = Call("next", p) /\ todo'[n + 1] = Call("clear", p) /\ todo'[n + 2] = Call("drop", o)
    BY <1>3, <2>5, <2>6, <2>8
  <2>11. Len(todo') = n + 2
    BY <1>3, <2>8
  <2> QED
    BY <1>3, <1>4, <2>5, <2>6, <2>7, <2>8, <2>9, <2>10, <2>11, CallIs DEF Names
<1> HIDE DEF f, g, h
<1>6. /\ n \in 1 .. Len(todo)
      /\ n \in 1 .. Len(todo') /\ n + 1 \in 1 .. Len(todo') /\ n + 2 \in 1 .. Len(todo')
      /\ \A i \in 1 .. Len(todo) : i # n => i \in 1 .. n - 1
      /\ \A i \in 1 .. n - 1 : i \in 1 .. Len(todo) /\ i \in 1 .. Len(todo') /\ i # n /\ todo'[i] = todo[i]
      /\ \A i \in 1 .. Len(todo') : i \in 1 .. n - 1 \/ i = n \/ i = n + 1 \/ i = n + 2
  <2>1. n = Len(todo) /\ n \in Nat \ {0} /\ Len(todo') = n + 2
    BY <1>3, <1>5
  <2> HIDE DEF n
  <2>2. \A i \in 1 .. n - 1 : i \in 1 .. Len(todo) /\ i \in 1 .. Len(todo') /\ i # n
    BY <2>1
  <2>3. \A i \in 1 .. n + 2 : i \in 1 .. n - 1 \/ i = n \/ i = n + 1 \/ i = n + 2
    BY <2>1
  <2>4. \A i \in 1 .. n - 1 : todo'[i] = todo[i]
    BY <1>5
  <2>5. /\ n \in 1 .. n /\ n \in 1 .. n + 2 /\ n + 1 \in 1 .. n + 2 /\ n + 2 \in 1 .. n + 2
        /\ \A i \in 1 .. n : i # n => i \in 1 .. n - 1
    BY <2>1
  <2>6. 1 .. Len(todo) = 1 .. n /\ 1 .. Len(todo') = 1 .. n + 2
    BY <2>1
  <2> QED
    BY ONLY <2>2, <2>3, <2>4, <2>5, <2>6
<1>7. count' \in [Cells -> Int] /\ \A q \in Cells : count'[q] = count[q] + Bit(q = p)
  BY <1>1, <1>4, CountedIs DEF Typed
<1>8. Typed'
  BY <1>1, <1>5, <1>7 DEF Typed
<1>9. (Collecting' <=> Collecting) /\ (Closing' <=> Closing) /\ Bottom'
  <2> DEFINE m == n - 1
  <2>1. /\ m \in Nat /\ m <= Len(todo) /\ m <= Len(todo')
        /\ \A i \in 1 .. m : todo'[i] = todo[i]
        /\ \A i \in m + 1 .. Len(todo) : todo[i].call \notin {"unmark", "forget"}
        /\ \A i \in m + 1 .. Len(todo') : todo'[i].call \notin {"unmark", "forget"}
    <3>1. m \in Nat /\ m + 1 = n /\ Len(todo) = n /\ Len(todo') = n + 2
      BY <1>3, <1>5
    <3>2. \A i \in 1 .. m : todo'[i] = todo[i]
      BY <1>5
    <3>3. todo[n].call \notin {"unmark", "forget"}
      BY <1>3
    <3>4. \A i \in {n, n + 1, n + 2} : todo'[i].call \notin {"unmark", "forget"}
      BY <1>5
    <3> HIDE DEF n, m
    <3>5. m <= Len(todo) /\ m <= Len(todo')
      BY <3>1
    <3>6. \A i \in m + 1 .. Len(todo) : i = n
      BY <3>1
    <3>7. \A i \in m + 1 .. Len(todo') : i \in {n, n + 1, n + 2}
      BY <3>1
    <3> QED
      BY ONLY <3>1, <3>2, <3>3, <3>4, <3>5, <3>6, <3>7
  <2> HIDE DEF m
  <2> QED
    BY <1>1, <1>2, <1>8, <2>1, BottomSame
<1>10. Counting'
  <2> SUFFICES ASSUME NEW q \in Cells PROVE Counts(q)'
    BY DEF Counting
  <2>1. Counts(q) /\ Slots(q)' = Slots(q)
    BY <1>1 DEF Counting, Slots
  <2>2. /\ Cardinality(Holding(f, q)) \in Nat
        /\ Cardinality(Holding(todo, q)) = Cardinality(Holding(f, q)) + Bit(o = q)
    BY <1>3, HoldingCall DEF Names, Bit
  <2>3. Cardinality(Holding(g, q)) = Cardinality(Holding(f, q)) + Bit(p = q)
    BY <1>4, <1>5, HoldingCall DEF Names, Bit, g
  <2>4. Cardinality(Holding(h, q)) = Cardinality(Holding(g, q))
    BY <1>4, <1>5, HoldingCall DEF Names, Bit, h
  <2>5. Cardinality(Holding(todo', q)) = Cardinality(Holding(h, q)) + Bit(o = q)
    <3>1. h \in Seq(Calls) /\ todo' = Append(h, Call("drop", o))
      BY <1>5
    <3>2. Cardinality(Holding(Append(h, Call("drop", o)), q)) = Cardinality(Holding(h, q)) + Bit(o = q)
      BY <3>1, HoldingCall DEF Names, Bit
    <3> QED
      BY <3>1, <3>2
  <2>6. Bit(q = p) = Bit(p = q) /\ Bit(p = q) \in Nat /\ Bit(o = q) \in Nat
    BY DEF Bit
  <2>7. IsFiniteSet(Slots(q)) /\ Cardinality(Slots(q)) \in Nat
    BY <2>1, FS_CardinalityType DEF Counts
  <2>8. Bit(q \in owned) \in Nat /\ Bit(q = Root /\ open) \in Nat
    BY DEF Bit
  <2>9. count[q] = Cardinality(Slots(q)) + Cardinality(Holding(todo, q))
                   + Bit(q \in owned) + Bit(q = Root /\ open)
    BY <2>1 DEF Counts
  <2>10. count'[q] = Cardinality(Slots(q)) + Cardinality(Holding(todo', q))
                     + Bit(q \in owned) + Bit(q = Root /\ open)
    BY <1>7, <2>2, <2>3, <2>4, <2>5, <2>6, <2>7, <2>8, <2>9
  <2> QED
    BY <2>1, <2>7, <2>10 DEF Counts
<1>11. \A q \in Cells : q # p => count'[q] = count[q]
  BY <1>1, <1>7 DEF Bit, Typed
<1>12. Unmade'
  BY <1>1, <1>4, <1>11 DEF Unmade, AllNull
<1>13. count[p] \in Nat /\ count'[p] = count[p] + 1
  BY <1>1, <1>4, <1>7, CountFacts DEF Bit
<1> HIDE DEF n
<1>14. /\ \A i \in 1 .. Len(todo) : todo[i].call # "destroy"
       /\ \A i \in 1 .. Len(todo') : todo'[i].call # "destroy"
  <2>1. \A i \in 1 .. Len(todo) : todo[i].call # "destroy"
    BY <1>1, <1>3 DEF Topmost, n
  <2> QED
    BY <1>5, <1>6, <2>1
<1>15. \A i \in 1 .. Len(todo) : Ends(todo[i]) => i \in 1 .. n - 1 /\ todo[i].on # p
  BY <1>3, <1>4, <1>6, <1>14 DEF Ends, Is
<1>16. Ending'
  <2>1. \A i \in 1 .. Len(todo') : Ends(todo'[i]) => i \in 1 .. Len(todo) /\ todo'[i] = todo[i]
    BY <1>5, <1>6 DEF Ends
  <2>2. \A i \in 1 .. Len(todo) : Ends(todo[i]) => todo[i].on \in Cells
    BY <1>1 DEF Ending, Typed
  <2>3. ASSUME NEW i \in 1 .. Len(todo'), Ends(todo'[i])
        PROVE  todo'[i].on \in made \ marked /\ count'[todo'[i].on] = 0
    <3>1. i \in 1 .. Len(todo) /\ todo'[i] = todo[i] /\ Ends(todo[i])
      BY <2>1, <2>3
    <3>2. todo[i].on \in made \ marked /\ count[todo[i].on] = 0
      BY <1>1, <3>1 DEF Ending
    <3>3. count'[todo[i].on] = count[todo[i].on]
      BY <1>11, <1>15, <2>2, <3>1
    <3> QED
      BY <3>1, <3>2, <3>3
  <2>4. ASSUME NEW i \in 1 .. Len(todo'), Ends(todo'[i]),
               NEW j \in 1 .. Len(todo'), Ends(todo'[j]), todo'[j].on = todo'[i].on
        PROVE  j = i
    BY <1>1, <2>1, <2>4 DEF Ending
  <2> QED
    BY <1>1, <2>3, <2>4 DEF Ending
<1>17. Topmost'
  BY <1>14 DEF Topmost
<1>18. Kept'
  <2>1. ASSUME NEW q \in made, count'[q] = 0
        PROVE  \E i \in 1 .. Len(todo') : Ends(todo'[i]) /\ todo'[i].on = q
    <3>1. count[q] = 0
      BY <1>1, <1>11, <1>13, <2>1 DEF Typed
    <3>2. PICK i \in 1 .. Len(todo) : Ends(todo[i]) /\ todo[i].on = q
      BY <1>1, <3>1 DEF Kept
    <3>3. i \in 1 .. Len(todo') /\ todo'[i] = todo[i]
      BY <1>6, <1>15, <3>2
    <3> QED
      BY <3>2, <3>3
  <2> QED
    BY <2>1 DEF Kept
<1>19. Emptied'
  <2> SUFFICES ASSUME NEW i \in 1 .. Len(todo'), todo'[i].call = "free"
               PROVE  AllNull(todo'[i].on) \/ (i < Len(todo') /\ Is(todo'[i + 1], "clear", todo'[i].on))
    BY DEF Emptied, AllNull
  <2>1. i \in 1 .. n - 1 /\ i \in 1 .. Len(todo) /\ todo'[i] = todo[i]
    BY <1>5, <1>6
  <2>2. AllNull(todo[i].on) \/ Is(todo[i + 1], "clear", todo[i].on)
    BY <1>1, <2>1 DEF Emptied
  <2>3. CASE i + 1 = n
    BY <1>3, <2>1, <2>2, <2>3 DEF Is
  <2>4. CASE i + 1 # n
    <3>1. n \in Nat /\ i \in 1 .. n - 1 /\ i + 1 # n /\ Len(todo') = n + 2
      BY <1>3, <1>5, <2>1, <2>4
    <3>2. i + 1 \in 1 .. n - 1 /\ i < Len(todo')
      BY ONLY <3>1
    <3> QED
      BY <1>6, <2>1, <2>2, <2>4, <3>2
  <2> QED
    BY <2>3, <2>4
<1>20. Backed'
  <2> SUFFICES ASSUME NEW i \in 1 .. Len(todo'), todo'[i].call = "clear"
               PROVE  /\ todo'[i].on \notin marked /\ i > 1
                      /\ todo'[i - 1].on = todo'[i].on /\ todo'[i - 1].call \in {"next", "free", "drop"}
    BY DEF Backed
  <2>1. CASE i = n + 1
    <3>1. i > 1 /\ i - 1 = n
      BY <1>3, <2>1
    <3> QED
      BY <1>4, <1>5, <2>1, <3>1
  <2>2. CASE i # n + 1
    <3>1. i \in 1 .. Len(todo) /\ i \in 1 .. n - 1 /\ todo'[i] = todo[i]
      BY <1>5, <1>6, <2>2
    <3>2. /\ todo[i].on \notin marked /\ i > 1
          /\ todo[i - 1].on = todo[i].on /\ todo[i - 1].call \in {"next", "free", "drop"}
      BY <1>1, <3>1 DEF Backed
    <3>3. i - 1 \in 1 .. n - 1
      BY <1>3, <3>1, <3>2
    <3> QED
      BY <1>6, <3>1, <3>2, <3>3
  <2> QED
    BY <2>1, <2>2
<1>21. Chained'
  <2>1. \A q : (\A i \in 1 .. Len(todo) : ~Is(todo[i], "free", q))
               <=> (\A i \in 1 .. Len(todo') : ~Is(todo'[i], "free", q))
    <3>1. \A i \in 1 .. Len(todo) : todo[i].call = "free" => i \in 1 .. Len(todo') /\ todo'[i] = todo[i]
      BY <1>3, <1>6
    <3>2. \A i \in 1 .. Len(todo') : todo'[i].call = "free" => i \in 1 .. Len(todo) /\ todo'[i] = todo[i]
      BY <1>5, <1>6
    <3> QED
      BY <3>1, <3>2 DEF Is
  <2> QED
    BY <1>2, <2>1 DEF Chained
<1>22. Marked'
  BY <1>2, <1>9 DEF Marked, Closed
<1>23. Swept'
  <2>1. \A q : (\E i \in 1 .. Len(todo) : Is(todo[i], "clear", q))
               => \E i \in 1 .. Len(todo') : Is(todo'[i], "clear", q)
    BY <1>3, <1>6 DEF Is
  <2>2. \E i \in 1 .. Len(todo') : Is(todo'[i], "clear", p)
    BY <1>5, <1>6 DEF Is
  <2> QED
    BY <1>2, <1>9, <2>1, <2>2 DEF Swept, AllNull
<1>24. Ahead'
  <2>1. ~\A i \in 1 .. Len(todo') : todo'[i].call # "next"
    BY <1>5, <1>6
  <2>2. \A i \in 1 .. Len(todo') : todo'[i].call = "next" => todo'[i].on \notin ahead \ {p}
    BY <1>2, <1>5, <1>6 DEF Ahead
  <2> QED
    BY <2>1, <2>2 DEF Ahead
<1>25. Doomed'
  BY <1>2, <1>9 DEF Doomed
<1> QED
  BY <1>8, <1>9, <1>10, <1>12, <1>16, <1>17, <1>18, <1>19, <1>20, <1>21, <1>22, <1>23, <1>24, <1>25 DEF IInv

----------------------------------------------------------------------------
(* The script between two calls *)

\* What holds while no call is under way.
LEMMA Idle ==
  ASSUME IInv, Running
  PROVE  /\ todo = <<>> /\ Len(todo) = 0 /\ open
         /\ marked = {} /\ ahead = {} /\ chain = made
         /\ doomed \intersect made = {}
         /\ \A o \in made : count[o] # 0
         /\ \A o \in Cells : Cardinality(Holding(todo, o)) = 0
<1>1. Typed /\ Kept /\ Chained /\ Marked /\ Ahead /\ Doomed
  BY DEF IInv
<1>2. todo = <<>> /\ Len(todo) = 0 /\ open
  BY DEF Running
<1>3. ~Collecting
  BY <1>2 DEF Collecting
<1>4. ahead = {} /\ marked = {} /\ doomed \intersect made = {}
  BY <1>1, <1>2, <1>3 DEF Ahead, Marked, Doomed
<1>5. chain = made
  <2>1. \A o \in made : \A i \in 1 .. Len(todo) : ~Is(todo[i], "free", o)
    BY <1>2
  <2>2. chain = {o \in made : \A i \in 1 .. Len(todo) : ~Is(todo[i], "free", o)}
    BY <1>1, <1>4 DEF Chained
  <2> QED
    BY <2>1, <2>2
<1>6. \A o \in made : count[o] # 0
  BY <1>1, <1>2 DEF Kept
<1> QED
  BY <1>2, <1>4, <1>5, <1>6, HoldingNone

\* The releases that a script makes.
LEMMA FirstReleases ==
  ASSUME NEW x \in Cells \union {NoThing}
  PROVE  /\ Releases(x) \in Seq(Calls)
         /\ \A i \in 1 .. Len(Releases(x)) : Releases(x)[i].call = "drop"
         /\ \A o \in Cells : Cardinality(Holding(Releases(x), o)) = Bit(x = o)
<1>1. CASE x = NoThing
  <2>1. Releases(x) = <<>>
    BY <1>1 DEF Releases
  <2>2. \A o \in Cells : Bit(x = o) = 0
    BY <1>1 DEF Bit, CollectorAssumption
  <2> QED
    BY <2>1, <2>2, HoldingNone
<1>2. CASE x # NoThing
  <2>1. x \in Cells /\ Call("drop", x) \in Calls /\ Call("drop", x).call = "drop"
    BY <1>2, CallIs DEF Names
  <2>2. <<>> \in Seq(Calls)
    OBVIOUS
  <2>3. Releases(x) = Append(<<>>, Call("drop", x))
    BY <1>2 DEF Releases
  <2>4. /\ Releases(x) \in Seq(Calls) /\ Len(Releases(x)) = 1
        /\ Releases(x)[1] = Call("drop", x)
    BY <1>2, <2>1 DEF Releases
  <2>5. ASSUME NEW o \in Cells
        PROVE  Cardinality(Holding(Releases(x), o)) = Bit(x = o)
    <3> DEFINE e == <<>>
    <3>1. e \in Seq(Calls) /\ Releases(x) = Append(e, Call("drop", x)) /\ Cardinality(Holding(e, o)) = 0
      BY <2>2, <2>3, HoldingNone
    <3> HIDE DEF e
    <3>2. Cardinality(Holding(Append(e, Call("drop", x)), o)) = Cardinality(Holding(e, o)) + Bit(x = o)
      <4>1. Holds(Call("drop", x), o) <=> x = o
        BY <2>1, CallIs DEF Holds, Names
      <4>2. Bit(Holds(Call("drop", x), o)) = Bit(x = o)
        BY <4>1 DEF Bit
      <4> QED
        BY <2>1, <3>1, <4>2, HoldingPushed
    <3> QED
      BY <3>1, <3>2 DEF Bit
  <2> QED
    BY <2>1, <2>4, <2>5
<1> QED
  BY <1>1, <1>2

\* A step of the script that leaves no more to do than releases.
LEMMA IdleThen ==
  ASSUME IInv, Running, Typed', Counting', Unmade', open' = open,
         UNCHANGED <<ahead, marked>>, chain' = made', doomed' \intersect made' = {},
         \A o \in made' : count'[o] # 0,
         \A i \in 1 .. Len(todo') : todo'[i].call = "drop"
  PROVE  IInv'
<1>1. marked' = {} /\ ahead' = {} /\ open'
  BY Idle
<1>2. ~Collecting' /\ ~Closing'
  <2>1. todo' # <<>> => 1 \in 1 .. Len(todo')
    BY EmptySeq DEF Typed
  <2> QED
    BY <2>1 DEF Collecting, Closing, Is
<1>3. Ending' /\ Topmost' /\ Kept' /\ Emptied' /\ Backed'
  BY DEF Ending, Topmost, Kept, Emptied, Backed, Ends
<1>4. Chained'
  BY <1>1 DEF Chained, Is
<1>5. Bottom' /\ Marked' /\ Swept' /\ Ahead' /\ Doomed'
  BY <1>1, <1>2 DEF Bottom, Marked, Swept, Ahead, Doomed
<1> QED
  BY <1>3, <1>4, <1>5 DEF IInv

\* A reference is set: the new object is counted, and the old one released.
LEMMA SetCounts ==
  ASSUME IInv, Running, NEW r \in Cells, NEW k \in 1 .. Width[r], NEW x \in Cells \union {NoThing},
         slot' = [slot EXCEPT ![r][k] = x],
         todo' = Releases(slot[r][k]),
         \A q \in Cells : count'[q] = count[q] + Bit(x = q),
         UNCHANGED <<owned, open>>
  PROVE  /\ Counting'
         /\ todo' \in Seq(Calls) /\ \A i \in 1 .. Len(todo') : todo'[i].call = "drop"
         /\ DOMAIN slot' = Cells /\ \A q \in Cells : DOMAIN slot'[q] = 1 .. Width[q]
         /\ \A q \in Cells : \A j \in 1 .. Width[q] : slot'[q][j] \in Cells \union {NoThing}
         /\ \A q \in Cells : q # r => slot'[q] = slot[q]
<1>1. Typed /\ Counting
  BY DEF IInv
<1>2. /\ DOMAIN slot' = Cells /\ \A q \in Cells : DOMAIN slot'[q] = 1 .. Width[q]
      /\ slot'[r][k] = x
      /\ \A q \in Cells : q # r => slot'[q] = slot[q]
      /\ \A q \in Cells : \A j \in 1 .. Width[q] : q # r \/ j # k => slot'[q][j] = slot[q][j]
  BY <1>1 DEF Typed
<1>3. slot[r][k] \in Cells \union {NoThing}
  BY <1>1 DEF Typed
<1>4. \A q \in Cells : \A j \in 1 .. Width[q] : slot'[q][j] \in Cells \union {NoThing}
  BY <1>1, <1>2 DEF Typed
<1>5. Counting'
  <2> SUFFICES ASSUME NEW p \in Cells PROVE Counts(p)'
    BY DEF Counting
  <2>1. /\ IsFiniteSet(Slots(p))
        /\ count[p] = Cardinality(Slots(p)) + Cardinality(Holding(todo, p))
                      + Bit(p \in owned) + Bit(p = Root /\ open)
    BY <1>1 DEF Counting, Counts
  <2>2. /\ IsFiniteSet(Slots(p)') /\ Cardinality(Slots(p)) \in Nat
        /\ Cardinality(Slots(p)') = Cardinality(Slots(p)) + Bit(x = p) - Bit(slot[r][k] = p)
    <3>1. IsFiniteSet(Slots(p)) /\ Typed
      BY <1>1, <2>1
    <3> QED
      BY <1>2, <3>1, SlotSet
  <2>3. Cardinality(Holding(todo, p)) = 0 /\ Cardinality(Holding(todo', p)) = Bit(slot[r][k] = p)
    BY <1>3, Idle, FirstReleases
  <2>4. /\ Bit(x = p) \in Nat /\ Bit(slot[r][k] = p) \in Nat
        /\ Bit(p \in owned) \in Nat /\ Bit(p = Root /\ open) \in Nat
    BY DEF Bit
  <2>5. count'[p] = Cardinality(Slots(p)') + Cardinality(Holding(todo', p))
                    + Bit(p \in owned) + Bit(p = Root /\ open)
    BY <2>1, <2>2, <2>3, <2>4
  <2> QED
    BY <2>2, <2>5 DEF Counts
<1> QED
  BY <1>2, <1>3, <1>4, <1>5, FirstReleases

(* A new object has the one reference that the script puts it into.        *)
LEMMA CreateStep ==
  ASSUME IInv, NEW r \in Cells, NEW k \in 1 .. Width[r], NEW o \in Things, Create(o, r, k)
  PROVE  IInv'
<1>1. Typed /\ Counting /\ Unmade
  BY DEF IInv
<1>2. Running /\ open
  BY DEF Create, Running
<1>3. /\ o \in Cells /\ o \notin made /\ r \in made
      /\ slot' = [slot EXCEPT ![r][k] = o] /\ todo' = Releases(slot[r][k])
      /\ UNCHANGED <<owned, ahead, marked, open>>
  BY <1>1, <1>2, ReachedIs DEF Create, Cells
<1>4. count' \in [Cells -> Int] /\ \A q \in Cells : count'[q] = IF q = o THEN 1 ELSE count[q]
  BY <1>1, <1>3 DEF Create, Typed
<1>5. \A q \in Cells : count'[q] = count[q] + Bit(o = q)
  <2>1. count[o] = 0
    BY <1>1, <1>3 DEF Unmade
  <2> QED
    BY <1>1, <1>4, <2>1 DEF Bit, Typed
<1>6. /\ Counting'
      /\ todo' \in Seq(Calls) /\ \A i \in 1 .. Len(todo') : todo'[i].call = "drop"
      /\ DOMAIN slot' = Cells /\ \A q \in Cells : DOMAIN slot'[q] = 1 .. Width[q]
      /\ \A q \in Cells : \A j \in 1 .. Width[q] : slot'[q][j] \in Cells \union {NoThing}
      /\ \A q \in Cells : q # r => slot'[q] = slot[q]
  BY <1>2, <1>3, <1>5, SetCounts
<1>7. /\ made' = made \union {o} /\ chain' = chain \union {o} /\ doomed' = doomed \ {o}
      /\ chain = made /\ ahead = {} /\ doomed \intersect made = {}
      /\ \A q \in made : count[q] # 0
  BY <1>2, Idle DEF Create
<1>8. Typed'
  <2>1. /\ made' \subseteq Cells /\ chain' \subseteq Cells /\ doomed' \subseteq Cells
        /\ ahead' \subseteq chain'
    BY <1>1, <1>3, <1>7 DEF Typed
  <2>2. owned' \subseteq Things /\ marked' \subseteq Cells /\ open' \in BOOLEAN
    BY <1>1, <1>3 DEF Typed
  <2> QED
    BY <2>1, <2>2, <1>4, <1>6 DEF Typed
<1>9. Unmade'
  <2> SUFFICES ASSUME NEW q \in Cells, q \notin made'
               PROVE  count'[q] = 0 /\ \A i \in 1 .. Width[q] : slot'[q][i] = NoThing
    BY DEF Unmade, AllNull
  <2>1. q # r /\ q # o /\ q \notin made
    BY <1>3, <1>7
  <2>2. count[q] = 0 /\ \A i \in 1 .. Width[q] : slot[q][i] = NoThing
    BY <1>1, <2>1 DEF Unmade, AllNull
  <2>3. count'[q] = count[q] /\ slot'[q] = slot[q]
    BY <1>4, <1>6, <2>1
  <2> QED
    BY <2>2, <2>3
<1>10. \A q \in made' : count'[q] # 0
  BY <1>1, <1>3, <1>4, <1>7 DEF Typed
<1> QED
  BY <1>2, <1>3, <1>6, <1>7, <1>8, <1>9, <1>10, IdleThen

(* What the script has is put in the place of what it refers to.           *)
LEMMA AssignStep ==
  ASSUME IInv, NEW r \in Cells, NEW k \in 1 .. Width[r], NEW o \in Cells \union {NoThing}, Assign(r, k, o)
  PROVE  IInv'
<1>1. Typed /\ Counting /\ Unmade
  BY DEF IInv
<1>2. Running /\ open
  BY DEF Assign, Running
<1>3. /\ o \in made \union {NoThing} /\ r \in made
      /\ slot' = [slot EXCEPT ![r][k] = o] /\ todo' = Releases(slot[r][k])
      /\ UNCHANGED <<made, owned, chain, ahead, marked, doomed, open>>
  BY <1>1, <1>2, ReachedIs DEF Assign
<1>4. /\ count' \in [Cells -> Int]
      /\ \A q \in Cells : count'[q] = IF q = o THEN count[q] + 1 ELSE count[q]
  BY <1>1 DEF Assign, Counted, Typed
<1>5. \A q \in Cells : count'[q] = count[q] + Bit(o = q)
  BY <1>1, <1>4 DEF Bit, Typed
<1>6. /\ Counting'
      /\ todo' \in Seq(Calls) /\ \A i \in 1 .. Len(todo') : todo'[i].call = "drop"
      /\ DOMAIN slot' = Cells /\ \A q \in Cells : DOMAIN slot'[q] = 1 .. Width[q]
      /\ \A q \in Cells : \A j \in 1 .. Width[q] : slot'[q][j] \in Cells \union {NoThing}
      /\ \A q \in Cells : q # r => slot'[q] = slot[q]
  BY <1>2, <1>3, <1>5, SetCounts
<1>7. /\ chain = made /\ ahead = {} /\ doomed \intersect made = {}
      /\ \A q \in made : count[q] # 0
  BY <1>2, Idle
<1>8. Typed'
  BY <1>1, <1>3, <1>4, <1>6 DEF Typed
<1>9. Unmade'
  <2> SUFFICES ASSUME NEW q \in Cells, q \notin made
               PROVE  count'[q] = 0 /\ \A i \in 1 .. Width[q] : slot'[q][i] = NoThing
    BY <1>3 DEF Unmade, AllNull
  <2>1. q # r /\ q # o
    BY <1>3, CollectorAssumption
  <2>2. count'[q] = count[q] /\ slot'[q] = slot[q]
    BY <1>4, <1>6, <2>1
  <2> QED
    BY <1>1, <2>2 DEF Unmade, AllNull
<1>10. \A q \in made' : count'[q] # 0
  <2> SUFFICES ASSUME NEW q \in made PROVE count'[q] # 0
    BY <1>3
  <2>1. q \in Cells /\ count[q] \in Nat /\ count[q] # 0
    BY <1>1, <1>7, CountFacts DEF Typed
  <2> QED
    BY <1>4, <2>1
<1> QED
  BY <1>2, <1>3, <1>6, <1>7, <1>8, <1>9, <1>10, IdleThen

(* C++ holds an object that the script gives it.                           *)
LEMMA HoldStep ==
  ASSUME IInv, NEW o \in Things, Hold(o)
  PROVE  IInv'
<1>1. Typed /\ Counting /\ Unmade
  BY DEF IInv
<1>2. Running /\ open
  BY DEF Hold, Running
<1>3. /\ o \in made /\ o \in Cells /\ o \notin owned
      /\ owned' = owned \union {o}
      /\ UNCHANGED <<made, slot, chain, ahead, marked, todo, doomed, open>>
  BY <1>1, <1>2, ReachedIs DEF Hold, Cells
<1>4. count' \in [Cells -> Int] /\ \A q \in Cells : count'[q] = count[q] + Bit(q = o)
  BY <1>1, <1>3, CountedIs DEF Hold, Typed
<1>5. /\ chain = made /\ ahead = {} /\ doomed \intersect made = {} /\ Len(todo) = 0
      /\ \A q \in made : count[q] # 0
  BY <1>2, Idle
<1>6. Typed'
  BY <1>1, <1>3, <1>4 DEF Typed
<1>7. Counting'
  <2> SUFFICES ASSUME NEW p \in Cells PROVE Counts(p)'
    BY DEF Counting
  <2>1. Counts(p) /\ Slots(p)' = Slots(p) /\ Holding(todo, p)' = Holding(todo, p)
    BY <1>1, <1>3 DEF Counting, Slots, Holding
  <2>2. /\ IsFiniteSet(Slots(p)) /\ Cardinality(Slots(p)) \in Nat
        /\ Cardinality(Holding(todo, p)) = 0
    BY <1>2, <2>1, Idle, FS_CardinalityType DEF Counts
  <2>3. Bit(p \in owned)' = Bit(p \in owned) + Bit(p = o)
    BY <1>3 DEF Bit
  <2>4. Bit(p \in owned) \in Nat /\ Bit(p = Root /\ open) \in Nat /\ Bit(p = o) \in Nat
    BY DEF Bit
  <2>5. count[p] = Cardinality(Slots(p)) + 0 + Bit(p \in owned) + Bit(p = Root /\ open)
    BY <2>1, <2>2 DEF Counts
  <2>6. count'[p] = Cardinality(Slots(p)) + 0 + Bit(p \in owned)' + Bit(p = Root /\ open)
    BY <1>4, <2>2, <2>3, <2>4, <2>5
  <2> QED
    BY <1>3, <2>1, <2>2, <2>6 DEF Counts
<1>8. Unmade'
  BY <1>1, <1>3, <1>4 DEF Unmade, AllNull, Bit
<1>9. \A q \in made' : count'[q] # 0
  <2> SUFFICES ASSUME NEW q \in made PROVE count'[q] # 0
    BY <1>3
  <2>1. q \in Cells /\ count[q] \in Nat /\ count[q] # 0
    BY <1>1, <1>5, CountFacts DEF Typed
  <2> QED
    BY <1>4, <2>1 DEF Bit
<1>10. chain' = made' /\ doomed' \intersect made' = {}
  BY <1>3, <1>5
<1>11. \A i \in 1 .. Len(todo') : todo'[i].call = "drop"
  BY <1>3, <1>5
<1> QED
  BY <1>2, <1>3, <1>6, <1>7, <1>8, <1>9, <1>10, <1>11, IdleThen

(* C++ lets go of one.                                                     *)
LEMMA LetGoStep ==
  ASSUME IInv, NEW o \in Things, LetGo(o)
  PROVE  IInv'
<1>1. Typed /\ Counting /\ Unmade
  BY DEF IInv
<1>2. Running /\ open
  BY DEF LetGo, Running
<1>3. /\ o \in Cells /\ o \in owned
      /\ owned' = owned \ {o} /\ todo' = Releases(o)
      /\ UNCHANGED <<made, slot, count, chain, ahead, marked, doomed, open>>
  BY DEF LetGo, Cells
<1>4. /\ chain = made /\ ahead = {} /\ doomed \intersect made = {}
      /\ \A q \in made : count[q] # 0
  BY <1>2, Idle
<1>5. /\ todo' \in Seq(Calls) /\ \A i \in 1 .. Len(todo') : todo'[i].call = "drop"
      /\ \A q \in Cells : Cardinality(Holding(todo', q)) = Bit(o = q)
  BY <1>3, FirstReleases
<1>6. Typed'
  BY <1>1, <1>3, <1>5 DEF Typed
<1>7. Counting'
  <2> SUFFICES ASSUME NEW p \in Cells PROVE Counts(p)'
    BY DEF Counting
  <2>1. Counts(p) /\ Slots(p)' = Slots(p)
    BY <1>1, <1>3 DEF Counting, Slots
  <2>2. /\ IsFiniteSet(Slots(p)) /\ Cardinality(Slots(p)) \in Nat
        /\ Cardinality(Holding(todo, p)) = 0 /\ Cardinality(Holding(todo', p)) = Bit(o = p)
    BY <1>2, <1>5, <2>1, Idle, FS_CardinalityType DEF Counts
  <2>3. Bit(p \in owned) = Bit(p \in owned') + Bit(o = p)
    BY <1>3 DEF Bit
  <2>4. Bit(p \in owned') \in Nat /\ Bit(p = Root /\ open) \in Nat /\ Bit(o = p) \in Nat
    BY DEF Bit
  <2>5. count[p] = Cardinality(Slots(p)) + 0 + Bit(p \in owned) + Bit(p = Root /\ open)
    BY <2>1, <2>2 DEF Counts
  <2>6. count[p] = Cardinality(Slots(p)) + Bit(o = p) + Bit(p \in owned') + Bit(p = Root /\ open)
    BY <2>2, <2>3, <2>4, <2>5
  <2> QED
    BY <1>3, <2>1, <2>2, <2>6 DEF Counts
<1>8. Unmade'
  BY <1>1, <1>3 DEF Unmade, AllNull
<1>9. chain' = made' /\ doomed' \intersect made' = {} /\ \A q \in made' : count'[q] # 0
  BY <1>3, <1>4
<1> QED
  BY <1>2, <1>3, <1>5, <1>6, <1>7, <1>8, <1>9, IdleThen

----------------------------------------------------------------------------
(* Collections, and the end of the VM *)

\* A sweep of s has come to o, with rest to follow.
Begun(s, rest, o) ==
  /\ ahead' = s \ {o}
  /\ count' \in [Cells -> Int] /\ \A q \in Cells : count'[q] = count[q] + Bit(q = o)
  /\ todo' \in Seq(Calls) /\ Len(todo') = Len(rest) + 2
  /\ \A i \in 1 .. Len(rest) : todo'[i] = rest[i]
  /\ todo'[Len(rest) + 1].call = "next" /\ todo'[Len(rest) + 1].on = o
  /\ todo'[Len(rest) + 2].call = "clear" /\ todo'[Len(rest) + 2].on = o
  /\ \A q \in Cells : /\ Cardinality(Holding(rest, q)) \in Nat
                      /\ Cardinality(Holding(todo', q)) = Cardinality(Holding(rest, q)) + Bit(q = o)

\* The calls with which a sweep starts.
LEMMA SweepIs ==
  ASSUME count \in [Cells -> Int], NEW s \in SUBSET Cells, NEW rest \in Seq(Calls),
         SweepStarts(s, rest)
  PROVE  \/ s = {} /\ ahead' = {} /\ todo' = rest /\ count' = count
         \/ \E o \in s : Begun(s, rest, o)
<1>1. CASE s = {} /\ ahead' = {} /\ todo' = rest /\ UNCHANGED count
  BY <1>1
<1>2. ASSUME NEW o \in s, ahead' = s \ {o}, count' = Counted(count, o),
             todo' = rest \o Sweeps(o)
      PROVE  Begun(s, rest, o)
  <2> DEFINE g == Append(rest, Call("next", o))
  <2>1. o \in Cells /\ Call("next", o) \in Calls /\ Call("clear", o) \in Calls
    BY CallIs DEF Names
  <2>2. todo' = Append(g, Call("clear", o))
    BY <1>2, <2>1, PushTwo DEF Sweeps
  <2>3. /\ g \in Seq(Calls) /\ Len(g) = Len(rest) + 1
        /\ \A i \in 1 .. Len(rest) : g[i] = rest[i]
        /\ g[Len(rest) + 1] = Call("next", o)
    BY <2>1, Push
  <2>4. \A q \in Cells : /\ Cardinality(Holding(rest, q)) \in Nat
                         /\ Cardinality(Holding(g, q)) = Cardinality(Holding(rest, q)) + Bit(q = o)
    <3> TAKE q \in Cells
    <3>1. Bit(o = q) = Bit(q = o)
      BY DEF Bit
    <3>2. Cardinality(Holding(g, q)) = Cardinality(Holding(rest, q)) + Bit(o = q)
      BY <2>1, HoldingCall DEF Names, Bit
    <3>3. Cardinality(Holding(rest, q)) \in Nat
      BY <2>1, HoldingCall DEF Names
    <3> QED
      BY <3>1, <3>2, <3>3
  <2> HIDE DEF g
  <2>5. /\ todo' \in Seq(Calls) /\ Len(todo') = Len(g) + 1
        /\ \A i \in 1 .. Len(g) : todo'[i] = g[i]
        /\ todo'[Len(g) + 1] = Call("clear", o)
    BY <2>1, <2>2, <2>3, Push
  <2>6. \A q \in Cells : Cardinality(Holding(todo', q)) = Cardinality(Holding(g, q))
    BY <2>1, <2>2, <2>3, HoldingCall DEF Names, Bit
  <2>7. Len(rest) \in Nat
    BY LenProperties
  <2>8. /\ Len(todo') = Len(rest) + 2
        /\ \A i \in 1 .. Len(rest) : todo'[i] = rest[i]
        /\ todo'[Len(rest) + 1] = Call("next", o) /\ todo'[Len(rest) + 2] = Call("clear", o)
    <3> DEFINE m == Len(rest)
    <3>1. /\ m \in Nat /\ m + 1 \in 1 .. m + 1 /\ m + 1 + 1 = m + 2
          /\ \A i \in 1 .. m : i \in 1 .. m + 1
      BY <2>7
    <3>2. /\ Len(g) = m + 1 /\ (\A i \in 1 .. m : g[i] = rest[i]) /\ g[m + 1] = Call("next", o)
      BY <2>3
    <3> HIDE DEF m
    <3>3. /\ Len(todo') = m + 2
          /\ \A i \in 1 .. m + 1 : todo'[i] = g[i]
          /\ todo'[m + 2] = Call("clear", o)
      BY <2>5, <3>1, <3>2
    <3>4. /\ \A i \in 1 .. m : todo'[i] = rest[i]
          /\ todo'[m + 1] = Call("next", o)
      BY <3>1, <3>2, <3>3
    <3> QED
      BY <3>3, <3>4 DEF m
  <2> QED
    BY <1>2, <2>1, <2>4, <2>5, <2>6, <2>8, CallIs, CountedIs DEF Names, Begun
<1>3. CASE ~(s = {} /\ ahead' = {} /\ todo' = rest /\ UNCHANGED count)
  <2>1. PICK o \in s : ahead' = s \ {o} /\ count' = Counted(count, o) /\ todo' = rest \o Sweeps(o)
    BY <1>3 DEF SweepStarts
  <2> QED
    BY <1>2, <2>1
<1> QED
  BY <1>1, <1>3

(* A collection marks what is reached; the rest is what it sweeps.         *)
LEMMA CollectStep ==
  ASSUME IInv, CollectGarbage
  PROVE  IInv'
<1> DEFINE rest == <<Call("unmark", Root)>>
<1>1. Typed /\ Counting /\ Unmade
  BY DEF IInv
<1>2. Running /\ open
  BY DEF CollectGarbage, Running
<1>3. /\ chain = made /\ \A q \in made : count[q] # 0
      /\ \A q \in Cells : Cardinality(Holding(todo, q)) = 0
  BY <1>2, Idle
<1>4. /\ Reached \subseteq made /\ Closed(Reached)
      /\ \A o \in Reached : \/ o = Root \/ o \in owned
                            \/ \E r \in Reached : \E i \in 1 .. Width[r] : slot[r][i] = o
  BY <1>1, <1>2, ReachedIs
<1>5. /\ marked' = Reached /\ chain' = chain \ Reached /\ doomed' = chain'
      /\ UNCHANGED <<made, slot, owned, open>>
      /\ SweepStarts(chain', rest)
  BY DEF CollectGarbage
<1>6. Call("unmark", Root) \in Calls /\ Call("unmark", Root).call = "unmark" /\ Call("unmark", Root).on = Root
  BY CallIs DEF Names, Cells
<1>7. /\ rest \in Seq(Calls) /\ Len(rest) = 1
      /\ rest[1].call = "unmark" /\ rest[1].on = Root
  BY <1>6
<1>8. \A q \in Cells : Cardinality(Holding(rest, q)) = 0
  <2> TAKE q \in Cells
  <2>1. Holding(rest, q) = {}
    BY <1>7 DEF Holding, Holds
  <2> QED
    BY <2>1, FS_EmptySet
<1> HIDE DEF rest
<1>9. chain' \in SUBSET Cells /\ chain' \in SUBSET made
  BY <1>1, <1>3, <1>5 DEF Typed
<1>10. \/ chain' = {} /\ ahead' = {} /\ todo' = rest /\ count' = count
       \/ \E o \in chain' :
            /\ ahead' = chain' \ {o}
            /\ count' \in [Cells -> Int] /\ \A q \in Cells : count'[q] = count[q] + Bit(q = o)
            /\ todo' \in Seq(Calls) /\ Len(todo') = 3
            /\ todo'[1] = rest[1]
            /\ todo'[2].call = "next" /\ todo'[2].on = o
            /\ todo'[3].call = "clear" /\ todo'[3].on = o
            /\ \A q \in Cells : Cardinality(Holding(todo', q)) = Bit(q = o)
  <2>1. PICK s \in SUBSET Cells : s = chain'
    BY <1>9
  <2>2. SweepStarts(s, rest)
    BY <1>5, <2>1 DEF SweepStarts
  <2>3. \/ s = {} /\ ahead' = {} /\ todo' = rest /\ count' = count
        \/ \E o \in s : Begun(s, rest, o)
    BY <1>1, <1>7, <2>2, SweepIs DEF Typed
  <2>4. ASSUME NEW o \in s, Begun(s, rest, o)
        PROVE  /\ ahead' = chain' \ {o}
               /\ count' \in [Cells -> Int] /\ \A q \in Cells : count'[q] = count[q] + Bit(q = o)
               /\ todo' \in Seq(Calls) /\ Len(todo') = 3
               /\ todo'[1] = rest[1]
               /\ todo'[2].call = "next" /\ todo'[2].on = o
               /\ todo'[3].call = "clear" /\ todo'[3].on = o
               /\ \A q \in Cells : Cardinality(Holding(todo', q)) = Bit(q = o)
    <3>1. Len(rest) + 1 = 2 /\ Len(rest) + 2 = 3 /\ 1 \in 1 .. Len(rest)
      BY <1>7
    <3>2. \A q \in Cells : Cardinality(Holding(rest, q)) + Bit(q = o) = Bit(q = o)
      BY <1>8 DEF Bit
    <3> QED
      BY <2>1, <2>4, <3>1, <3>2 DEF Begun
  <2>5. CASE s = {} /\ ahead' = {} /\ todo' = rest /\ count' = count
    BY <2>1, <2>5
  <2>6. CASE ~(s = {} /\ ahead' = {} /\ todo' = rest /\ count' = count)
    <3>1. PICK o \in s : Begun(s, rest, o)
      BY <2>3, <2>6
    <3>2. o \in chain'
      BY <2>1
    <3> QED
      BY <2>4, <3>1, <3>2
  <2> QED
    BY <2>5, <2>6
<1>11. PICK b \in {1, 3}, o \in Cells :
         /\ todo' \in Seq(Calls) /\ Len(todo') = b
         /\ todo'[1].call = "unmark" /\ todo'[1].on = Root
         /\ b = 1 => chain' = {} /\ ahead' = {}
         /\ b = 3 => /\ o \in chain' /\ ahead' = chain' \ {o}
                     /\ todo'[2].call = "next" /\ todo'[2].on = o
                     /\ todo'[3].call = "clear" /\ todo'[3].on = o
         /\ count' \in [Cells -> Int]
         /\ \A q \in Cells : /\ count'[q] = count[q] + Bit(b = 3 /\ q = o)
                             /\ Cardinality(Holding(todo', q)) = Bit(b = 3 /\ q = o)
  <2>1. CASE chain' = {} /\ ahead' = {} /\ todo' = rest /\ count' = count
    <3>1. \A q \in Cells : Bit(1 = 3 /\ q = Root) = 0 /\ count[q] + 0 = count[q]
      BY <1>1 DEF Bit, Typed
    <3>2. Root \in Cells
      BY DEF Cells
    <3> QED
      BY <1>1, <1>7, <1>8, <2>1, <3>1, <3>2 DEF Typed
  <2>2. CASE ~(chain' = {} /\ ahead' = {} /\ todo' = rest /\ count' = count)
    <3>1. PICK o \in chain' :
            /\ ahead' = chain' \ {o}
            /\ count' \in [Cells -> Int] /\ \A q \in Cells : count'[q] = count[q] + Bit(q = o)
            /\ todo' \in Seq(Calls) /\ Len(todo') = 3
            /\ todo'[1] = rest[1]
            /\ todo'[2].call = "next" /\ todo'[2].on = o
            /\ todo'[3].call = "clear" /\ todo'[3].on = o
            /\ \A q \in Cells : Cardinality(Holding(todo', q)) = Bit(q = o)
      BY <1>10, <2>2
    <3>2. \A q \in Cells : Bit(3 = 3 /\ q = o) = Bit(q = o)
      BY DEF Bit
    <3>3. o \in Cells
      BY <1>9
    <3> QED
      BY <1>7, <3>1, <3>2, <3>3
  <2> QED
    BY <2>1, <2>2
<1>12. /\ 1 \in 1 .. Len(todo') /\ todo' # <<>>
       /\ \A i \in 1 .. Len(todo') : i = 1 \/ (b = 3 /\ (i = 2 \/ i = 3))
       /\ b = 3 => 2 \in 1 .. Len(todo') /\ 3 \in 1 .. Len(todo')
  BY <1>11
<1>13. Collecting' /\ ~Closing' /\ Bottom'
  BY <1>2, <1>5, <1>11, <1>12 DEF Collecting, Closing, Bottom, Is
<1>14. Typed'
  BY <1>1, <1>4, <1>5, <1>9, <1>11 DEF Typed
<1>15. Counting'
  <2> SUFFICES ASSUME NEW p \in Cells PROVE Counts(p)'
    BY DEF Counting
  <2>1. Counts(p) /\ Slots(p)' = Slots(p)
    BY <1>1, <1>5 DEF Counting, Slots
  <2>2. /\ IsFiniteSet(Slots(p)) /\ Cardinality(Slots(p)) \in Nat
        /\ Cardinality(Holding(todo, p)) = 0
    BY <1>3, <2>1, FS_CardinalityType DEF Counts
  <2>3. /\ Bit(p \in owned) \in Nat /\ Bit(p = Root /\ open) \in Nat
        /\ Bit(b = 3 /\ p = o) \in Nat
    BY DEF Bit
  <2>4. count[p] = Cardinality(Slots(p)) + 0 + Bit(p \in owned) + Bit(p = Root /\ open)
    BY <2>1, <2>2 DEF Counts
  <2>5. count'[p] = Cardinality(Slots(p)) + Cardinality(Holding(todo', p))
                    + Bit(p \in owned) + Bit(p = Root /\ open)
    BY <1>11, <2>2, <2>3, <2>4
  <2> QED
    BY <1>5, <2>1, <2>2, <2>5 DEF Counts
<1>16. \A q \in made : count'[q] # 0
  <2> TAKE q \in made
  <2>1. q \in Cells /\ count[q] \in Nat /\ count[q] # 0
    BY <1>1, <1>3, CountFacts DEF Typed
  <2> QED
    BY <1>11, <2>1 DEF Bit
<1>17. Unmade'
  <2> SUFFICES ASSUME NEW q \in Cells, q \notin made
               PROVE  count'[q] = 0 /\ \A i \in 1 .. Width[q] : slot'[q][i] = NoThing
    BY <1>5 DEF Unmade, AllNull
  <2>1. ~(b = 3 /\ q = o)
    BY <1>9, <1>11
  <2>2. count'[q] = count[q] + 0
    BY <1>11, <2>1 DEF Bit
  <2> QED
    BY <1>1, <1>5, <2>2 DEF Unmade, AllNull
<1>18. Ending' /\ Topmost' /\ Emptied'
  BY <1>11, <1>12 DEF Ending, Topmost, Emptied, Ends
<1>19. Kept'
  BY <1>5, <1>16 DEF Kept
<1>20. Backed'
  <2> SUFFICES ASSUME NEW i \in 1 .. Len(todo'), todo'[i].call = "clear"
               PROVE  /\ todo'[i].on \notin marked' /\ i > 1
                      /\ todo'[i - 1].on = todo'[i].on /\ todo'[i - 1].call \in {"next", "free", "drop"}
    BY DEF Backed
  <2>1. i = 3 /\ b = 3
    BY <1>11, <1>12
  <2> QED
    BY <1>5, <1>11, <2>1
<1>21. Chained'
  <2>1. \A i \in 1 .. Len(todo') : todo'[i].call # "free"
    BY <1>11, <1>12
  <2> QED
    BY <1>3, <1>4, <1>5, <2>1 DEF Chained, Is
<1>22. Marked'
  BY <1>4, <1>5, <1>13 DEF Marked, Closed
<1>23. Swept'
  <2>1. \A p \in chain' : p \in ahead' \/ \E i \in 1 .. Len(todo') : Is(todo'[i], "clear", p)
    BY <1>11, <1>12 DEF Is
  <2> QED
    BY <1>2, <1>5, <2>1 DEF Swept
<1>24. Ahead'
  <2>1. b = 3 => ~\A i \in 1 .. Len(todo') : todo'[i].call # "next"
    BY <1>11, <1>12
  <2>2. \A i \in 1 .. Len(todo') : todo'[i].call = "next" => todo'[i].on \notin ahead'
    BY <1>11, <1>12
  <2> QED
    BY <1>11, <2>1, <2>2 DEF Ahead
<1>25. Doomed'
  BY <1>5, <1>13 DEF Doomed
<1> QED
  BY <1>13, <1>14, <1>15, <1>17, <1>18, <1>19, <1>20, <1>21, <1>22, <1>23, <1>24, <1>25 DEF IInv

\* When a sweep has come to its end, nothing is left that it was for.
LEMMA SweptAway ==
  ASSUME IInv, Collecting \/ (~open /\ ~Closing),
         \A i \in 1 .. Len(todo) : todo[i].call \notin {"next", "drop", "clear", "destroy", "free"}
  PROVE  chain = {}
<1>1. Typed /\ Counting /\ Unmade /\ Kept /\ Chained /\ Bottom /\ Marked /\ Swept /\ Ahead
  BY DEF IInv
<1>2. ahead = {}
  BY <1>1 DEF Ahead
<1>3. /\ \A o \in chain : AllNull(o)
      /\ ~open => owned = {} /\ marked = {}
  <2>1. ~open => ~Collecting /\ ~Closing
    BY <1>1 DEF Bottom
  <2> QED
    BY <1>1, <1>2, <2>1 DEF Swept, Marked, Is
<1>4. made = chain \union marked
  BY <1>1 DEF Chained, Is, Typed
<1>5. open => Closed(marked)
  BY <1>1 DEF Marked, Bottom
<1>6. SUFFICES ASSUME NEW o \in chain PROVE FALSE
  OBVIOUS
<1>7. o \in Cells /\ o \notin marked /\ o \in made
  BY <1>1, <1>4 DEF Typed, Chained
<1>8. \A r \in Cells : \A i \in 1 .. Width[r] : slot[r][i] # o
  <2> SUFFICES ASSUME NEW r \in Cells, NEW i \in 1 .. Width[r], slot[r][i] = o PROVE FALSE
    OBVIOUS
  <2>1. o # NoThing
    BY <1>7, CollectorAssumption
  <2>2. CASE r \notin made
    BY <1>1, <2>1, <2>2 DEF Unmade, AllNull
  <2>3. CASE r \in chain
    BY <1>3, <2>1, <2>3 DEF AllNull
  <2>4. CASE r \in marked
    BY <1>3, <1>5, <1>7, <2>1, <2>4 DEF Closed
  <2> QED
    BY <1>4, <2>2, <2>3, <2>4
<1>9. o \notin owned /\ ~(o = Root /\ open)
  BY <1>3, <1>5, <1>7 DEF Closed
<1>10. \A k \in 1 .. Len(todo) : ~Holds(todo[k], o)
  BY DEF Holds
<1>11. count[o] = 0
  BY <1>1, <1>7, <1>8, <1>9, <1>10, CountNone
<1> QED
  BY <1>1, <1>7, <1>11 DEF Kept, Ends

(* A collection ends with what it marked.                                  *)
LEMMA UnMarkStep ==
  ASSUME IInv, UnMark
  PROVE  IInv'
<1>1. Typed /\ Counting /\ Unmade /\ Ending /\ Topmost /\ Kept /\ Emptied /\ Backed
  BY DEF IInv
<1>2. Chained /\ Bottom /\ Marked /\ Swept /\ Ahead /\ Doomed
  BY DEF IInv
<1>3. Root \in Cells
  BY DEF Cells
<1>4. /\ Len(todo) \in Nat \ {0} /\ Len(todo) \in 1 .. Len(todo)
      /\ todo[Len(todo)].call = "unmark" /\ todo[Len(todo)].on = Root
      /\ todo' \in Seq(Calls) /\ Len(todo') = Len(todo) - 1
      /\ todo = Append(todo', Call("unmark", Root))
  BY <1>1, <1>3, Pop DEF UnMark, Names
<1>5. Len(todo) = 1
  BY <1>2, <1>4 DEF Bottom
<1>6. /\ todo' = <<>> /\ Len(todo') = 0
  BY <1>4, <1>5, EmptySeq
<1>7. Collecting /\ open
  BY <1>2, <1>4, <1>5 DEF Collecting, Bottom, Is, Returns, UnMark
<1>8. /\ UNCHANGED <<made, slot, owned, count, ahead, doomed, open>>
      /\ chain' = marked /\ marked' = {}
  BY DEF UnMark
<1>9. \A i \in 1 .. Len(todo) : todo[i].call = "unmark"
  BY <1>4, <1>5
<1>10. chain = {}
  BY <1>7, <1>9, SweptAway
<1>11. made = marked
  <2>1. {p \in made : \A i \in 1 .. Len(todo) : ~Is(todo[i], "free", p)} = made
    BY <1>9 DEF Is
  <2> QED
    BY <1>2, <1>10, <2>1 DEF Chained
<1>12. ahead = {}
  BY <1>2, <1>9 DEF Ahead
<1>13. ~Collecting' /\ ~Closing'
  BY <1>6 DEF Collecting, Closing
<1>14. Typed'
  BY <1>1, <1>4, <1>8, <1>12 DEF Typed
<1>15. Counting'
  <2> SUFFICES ASSUME NEW p \in Cells PROVE Counts(p)'
    BY DEF Counting
  <2>1. Counts(p) /\ Slots(p)' = Slots(p)
    BY <1>1, <1>8 DEF Counting, Slots
  <2>2. Cardinality(Holding(todo, p)) = Cardinality(Holding(todo', p))
    BY <1>3, <1>4, HoldingCall DEF Names, Bit
  <2> QED
    BY <1>8, <2>1, <2>2 DEF Counts
<1>16. Unmade'
  BY <1>1, <1>8 DEF Unmade, AllNull
<1>17. \A o \in made : count[o] # 0
  BY <1>1, <1>9 DEF Kept, Ends
<1>18. Ending' /\ Topmost' /\ Kept' /\ Emptied' /\ Backed'
  BY <1>6, <1>8, <1>17 DEF Ending, Topmost, Kept, Emptied, Backed
<1>19. Chained'
  BY <1>6, <1>8, <1>11 DEF Chained
<1>20. Bottom' /\ Marked' /\ Swept' /\ Ahead'
  BY <1>6, <1>7, <1>8, <1>12, <1>13 DEF Bottom, Marked, Swept, Ahead
<1>21. Doomed'
  BY <1>2, <1>7, <1>8, <1>11, <1>13 DEF Doomed
<1> QED
  BY <1>14, <1>15, <1>16, <1>18, <1>19, <1>20, <1>21 DEF IInv

(* The VM lets go of itself.                                               *)
LEMMA CloseStep ==
  ASSUME IInv, Close
  PROVE  IInv'
<1> DEFINE e == <<>>
           f == Append(e, Call("forget", Root))
           g == Append(f, Call("drop", Root))
<1>1. Typed /\ Counting /\ Unmade
  BY DEF IInv
<1>2. Running /\ open
  BY DEF Close, Running
<1>3. /\ marked = {} /\ ahead = {} /\ chain = made /\ doomed \intersect made = {}
      /\ \A o \in made : count[o] # 0
      /\ \A o \in Cells : Cardinality(Holding(todo, o)) = 0
  BY <1>2, Idle
<1>4. UNCHANGED <<made, slot, owned, count, chain, ahead, marked, doomed>> /\ open' = FALSE
  BY DEF Close
<1>5. Root \in Cells
  BY DEF Cells
<1>6. /\ Call("forget", Root) \in Calls /\ Call("drop", Root) \in Calls /\ Call("clear", Root) \in Calls
      /\ Call("forget", Root).call = "forget" /\ Call("forget", Root).on = Root
      /\ Call("drop", Root).call = "drop" /\ Call("drop", Root).on = Root
      /\ Call("clear", Root).call = "clear" /\ Call("clear", Root).on = Root
  BY <1>5, CallIs DEF Names
<1>7. /\ todo' \in Seq(Calls) /\ Len(todo') = 3 /\ todo' # <<>>
      /\ todo'[1].call = "forget" /\ todo'[1].on = Root
      /\ todo'[2].call = "drop" /\ todo'[2].on = Root
      /\ todo'[3].call = "clear" /\ todo'[3].on = Root
  BY <1>6 DEF Close
<1>8. \A i \in 1 .. Len(todo') : i = 1 \/ i = 2 \/ i = 3
  BY <1>7
<1>9. \A q \in Cells : Holding(todo', q) = IF q = Root THEN {2} ELSE {}
  BY <1>7 DEF Holding, Holds
<1>10. \A q \in Cells : Cardinality(Holding(todo', q)) = Bit(q = Root)
  BY <1>9, FS_EmptySet, FS_Singleton DEF Bit
<1>11. Closing' /\ ~Collecting' /\ Bottom'
  BY <1>4, <1>7, <1>8 DEF Closing, Collecting, Bottom, Is
<1>12. Typed'
  BY <1>1, <1>4, <1>7 DEF Typed
<1>13. Counting'
  <2> SUFFICES ASSUME NEW p \in Cells PROVE Counts(p)'
    BY DEF Counting
  <2>1. Counts(p) /\ Slots(p)' = Slots(p)
    BY <1>1, <1>4 DEF Counting, Slots
  <2>2. /\ IsFiniteSet(Slots(p)) /\ Cardinality(Slots(p)) \in Nat
        /\ Cardinality(Holding(todo, p)) = 0
    BY <1>3, <2>1, FS_CardinalityType DEF Counts
  <2>3. /\ Bit(p = Root /\ open) = Bit(p = Root) /\ Bit(p = Root /\ open') = 0
        /\ Bit(p \in owned) \in Nat /\ Bit(p = Root) \in Nat
    BY <1>2, <1>4 DEF Bit
  <2>4. count[p] = Cardinality(Slots(p)) + 0 + Bit(p \in owned) + Bit(p = Root /\ open)
    BY <2>1, <2>2 DEF Counts
  <2>5. count[p] = Cardinality(Slots(p)) + Cardinality(Holding(todo', p))
                   + Bit(p \in owned) + Bit(p = Root /\ open')
    BY <1>10, <2>2, <2>3, <2>4
  <2> QED
    BY <1>4, <2>1, <2>2, <2>5 DEF Counts
<1>14. Unmade'
  BY <1>1, <1>4 DEF Unmade, AllNull
<1>15. Ending' /\ Topmost' /\ Kept' /\ Emptied'
  BY <1>3, <1>4, <1>7, <1>8 DEF Ending, Topmost, Kept, Emptied, Ends
<1>16. Backed'
  <2> SUFFICES ASSUME NEW i \in 1 .. Len(todo'), todo'[i].call = "clear"
               PROVE  /\ todo'[i].on \notin marked' /\ i > 1
                      /\ todo'[i - 1].on = todo'[i].on /\ todo'[i - 1].call \in {"next", "free", "drop"}
    BY DEF Backed
  <2>1. i = 3
    BY <1>7, <1>8
  <2> QED
    BY <1>3, <1>4, <1>7, <2>1
<1>17. Chained'
  BY <1>3, <1>4, <1>7, <1>8 DEF Chained, Is
<1>18. Marked' /\ Swept' /\ Ahead' /\ Doomed'
  BY <1>3, <1>4, <1>7, <1>8, <1>11 DEF Marked, Swept, Ahead, Doomed
<1> QED
  BY <1>11, <1>12, <1>13, <1>14, <1>15, <1>16, <1>17, <1>18 DEF IInv

\* While C++'s objects are let go of, there is no other call.
LEMMA Forgetting ==
  ASSUME IInv, Returns("forget", Root)
  PROVE  /\ Len(todo) = 1 /\ todo[1].call = "forget" /\ todo[1].on = Root
         /\ Front(todo) = <<>> /\ Front(todo) \in Seq(Calls) /\ Len(Front(todo)) = 0
         /\ Closing /\ ~Collecting /\ ~open
         /\ marked = {} /\ ahead = {} /\ chain = made /\ doomed \intersect made = {}
         /\ \A o \in made : count[o] # 0
         /\ \A o \in Cells : Cardinality(Holding(todo, o)) = 0
<1>1. Typed /\ Kept /\ Chained /\ Bottom /\ Marked /\ Ahead /\ Doomed
  BY DEF IInv
<1>2. Root \in Cells
  BY DEF Cells
<1>3. /\ Len(todo) \in Nat \ {0} /\ todo[Len(todo)].call = "forget" /\ todo[Len(todo)].on = Root
      /\ Front(todo) \in Seq(Calls) /\ Len(Front(todo)) = Len(todo) - 1
      /\ todo = Append(Front(todo), Call("forget", Root))
  BY <1>1, <1>2, Returned DEF Names
<1>4. Len(todo) = 1
  BY <1>1, <1>3 DEF Bottom
<1>5. Front(todo) = <<>> /\ Len(Front(todo)) = 0
  BY <1>3, <1>4, EmptySeq
<1>6. \A i \in 1 .. Len(todo) : todo[i].call = "forget"
  BY <1>3, <1>4
<1>7. Closing /\ ~Collecting /\ ~open
  BY <1>1, <1>3, <1>4 DEF Bottom, Closing, Collecting, Is, Returns
<1>8. ahead = {} /\ marked = {} /\ doomed \intersect made = {}
  BY <1>1, <1>6, <1>7 DEF Ahead, Marked, Doomed
<1>9. chain = made
  BY <1>1, <1>6, <1>8 DEF Chained, Is
<1>10. \A o \in made : count[o] # 0
  BY <1>1, <1>6 DEF Kept, Ends
<1>11. \A o \in Cells : Cardinality(Holding(todo, o)) = 0
  <2> TAKE o \in Cells
  <2>1. Holding(todo, o) = {}
    BY <1>6 DEF Holding, Holds
  <2> QED
    BY <2>1, FS_EmptySet
<1> QED
  BY <1>3, <1>4, <1>5, <1>7, <1>8, <1>9, <1>10, <1>11

(* The table of references lets go of an object.                           *)
LEMMA ForgetStep ==
  ASSUME IInv, NEW o \in Things, Forget(o)
  PROVE  IInv'
<1>1. Typed /\ Counting /\ Unmade /\ Bottom
  BY DEF IInv
<1>2. /\ Len(todo) = 1 /\ todo[1].call = "forget" /\ todo[1].on = Root
      /\ Closing /\ ~Collecting /\ ~open
      /\ marked = {} /\ ahead = {} /\ chain = made /\ doomed \intersect made = {}
      /\ \A p \in made : count[p] # 0
      /\ \A p \in Cells : Cardinality(Holding(todo, p)) = 0
  BY Forgetting DEF Forget
<1>3. /\ o \in Cells /\ o \in owned /\ owned' = owned \ {o}
      /\ todo' = todo \o Releases(o)
      /\ UNCHANGED <<made, slot, count, chain, ahead, marked, doomed, open>>
  BY DEF Forget, Cells
<1>4. /\ todo' = Append(todo, Call("drop", o)) /\ todo' \in Seq(Calls) /\ Len(todo') = 2
      /\ todo'[1] = todo[1]
      /\ todo'[2].call = "drop" /\ todo'[2].on = o
      /\ \A i \in 1 .. Len(todo') : i = 1 \/ i = 2
  BY <1>1, <1>2, <1>3, Released
<1>5. Typed'
  BY <1>1, <1>3, <1>4 DEF Typed
<1>6. Closing' /\ ~Collecting' /\ Bottom'
  BY <1>1, <1>2, <1>3, <1>5, ReleasedBottom
<1>7. Counting'
  <2> SUFFICES ASSUME NEW p \in Cells PROVE Counts(p)'
    BY DEF Counting
  <2>1. Counts(p) /\ Slots(p)' = Slots(p)
    BY <1>1, <1>3 DEF Counting, Slots
  <2>2. /\ IsFiniteSet(Slots(p)) /\ Cardinality(Slots(p)) \in Nat
        /\ Cardinality(Holding(todo, p)) = 0
    BY <1>2, <2>1, FS_CardinalityType DEF Counts
  <2>3. Cardinality(Holding(todo', p)) = Cardinality(Holding(todo, p)) + Bit(o = p)
    BY <1>1, <1>3, <1>4, HoldingCall DEF Names, Bit, Typed
  <2>4. Bit(p \in owned) = Bit(p \in owned') + Bit(o = p)
    BY <1>3 DEF Bit
  <2>5. Bit(p \in owned') \in Nat /\ Bit(p = Root /\ open) \in Nat /\ Bit(o = p) \in Nat
    BY DEF Bit
  <2>6. count[p] = Cardinality(Slots(p)) + 0 + Bit(p \in owned) + Bit(p = Root /\ open)
    BY <2>1, <2>2 DEF Counts
  <2>7. count[p] = Cardinality(Slots(p)) + Cardinality(Holding(todo', p))
                   + Bit(p \in owned') + Bit(p = Root /\ open)
    BY <2>2, <2>3, <2>4, <2>5, <2>6
  <2> QED
    BY <1>3, <2>1, <2>2, <2>7 DEF Counts
<1>8. Unmade'
  BY <1>1, <1>3 DEF Unmade, AllNull
<1>9. \A i \in 1 .. Len(todo') : todo'[i].call \in {"forget", "drop"}
  BY <1>2, <1>4
<1>10. Ending' /\ Topmost' /\ Kept' /\ Emptied' /\ Backed'
  BY <1>2, <1>3, <1>9 DEF Ending, Topmost, Kept, Emptied, Backed, Ends
<1>11. Chained'
  BY <1>2, <1>3, <1>9 DEF Chained, Is
<1>12. Marked' /\ Swept' /\ Ahead' /\ Doomed'
  BY <1>2, <1>3, <1>6, <1>9 DEF Marked, Swept, Ahead, Doomed
<1> QED
  BY <1>5, <1>6, <1>7, <1>8, <1>10, <1>11, <1>12 DEF IInv

(* The last sweep starts, over all that there is.                          *)
LEMMA SweepAllStep ==
  ASSUME IInv, SweepAll
  PROVE  IInv'
<1> DEFINE rest == Front(todo)
<1>1. Typed /\ Counting /\ Unmade /\ Bottom
  BY DEF IInv
<1>2. /\ rest = <<>> /\ rest \in Seq(Calls) /\ Len(rest) = 0
      /\ ~open
      /\ marked = {} /\ ahead = {} /\ chain = made /\ doomed \intersect made = {}
      /\ \A p \in made : count[p] # 0
      /\ \A p \in Cells : Cardinality(Holding(todo, p)) = 0
  BY Forgetting DEF SweepAll
<1>3. /\ owned = {} /\ SweepStarts(chain, rest)
      /\ UNCHANGED <<made, slot, owned, chain, marked, doomed, open>>
  BY DEF SweepAll
<1>4. chain \in SUBSET Cells /\ count \in [Cells -> Int]
  BY <1>1 DEF Typed
<1>5. \A q \in Cells : Cardinality(Holding(rest, q)) = 0
  BY <1>2, HoldingNone
<1> HIDE DEF rest
<1>6. \/ chain = {} /\ ahead' = {} /\ todo' = rest /\ count' = count
      \/ \E o \in chain : Begun(chain, rest, o)
  <2>1. PICK s \in SUBSET Cells : s = chain
    BY <1>4
  <2>2. SweepStarts(s, rest)
    BY <1>3, <2>1
  <2>3. \/ s = {} /\ ahead' = {} /\ todo' = rest /\ count' = count
        \/ \E o \in s : Begun(s, rest, o)
    BY <1>2, <1>4, <2>2, SweepIs
  <2> QED
    BY <2>1, <2>3
<1>7. PICK b \in {0, 2}, o \in Cells :
         /\ todo' \in Seq(Calls) /\ Len(todo') = b
         /\ b = 0 => chain = {} /\ ahead' = {}
         /\ b = 2 => /\ o \in chain /\ ahead' = chain \ {o}
                     /\ todo'[1].call = "next" /\ todo'[1].on = o
                     /\ todo'[2].call = "clear" /\ todo'[2].on = o
         /\ count' \in [Cells -> Int]
         /\ \A q \in Cells : /\ count'[q] = count[q] + Bit(b = 2 /\ q = o)
                             /\ Cardinality(Holding(todo', q)) = Bit(b = 2 /\ q = o)
  <2>1. CASE chain = {} /\ ahead' = {} /\ todo' = rest /\ count' = count
    <3>1. \A q \in Cells : Bit(0 = 2 /\ q = Root) = 0 /\ count[q] + 0 = count[q]
      BY <1>4 DEF Bit
    <3>2. Root \in Cells
      BY DEF Cells
    <3> QED
      BY <1>2, <1>4, <1>5, <2>1, <3>1, <3>2
  <2>2. CASE ~(chain = {} /\ ahead' = {} /\ todo' = rest /\ count' = count)
    <3>1. PICK o \in chain : Begun(chain, rest, o)
      BY <1>6, <2>2
    <3>2. \A q \in Cells : /\ Bit(2 = 2 /\ q = o) = Bit(q = o)
                           /\ Cardinality(Holding(rest, q)) + Bit(q = o) = Bit(q = o)
      BY <1>5 DEF Bit
    <3>3. o \in Cells
      BY <1>4
    <3>4. Len(rest) + 1 = 1 /\ Len(rest) + 2 = 2
      BY <1>2
    <3> QED
      BY <3>1, <3>2, <3>3, <3>4 DEF Begun
  <2> QED
    BY <2>1, <2>2
<1>8. /\ \A i \in 1 .. Len(todo') : b = 2 /\ (i = 1 \/ i = 2)
      /\ b = 2 => 1 \in 1 .. Len(todo') /\ 2 \in 1 .. Len(todo')
      /\ todo' # <<>> => 1 \in 1 .. Len(todo')
  BY <1>7, EmptySeq
<1>9. ~Collecting' /\ ~Closing' /\ Bottom'
  BY <1>7, <1>8 DEF Collecting, Closing, Bottom, Is
<1>10. Typed'
  BY <1>1, <1>3, <1>7 DEF Typed
<1>11. Counting'
  <2> SUFFICES ASSUME NEW p \in Cells PROVE Counts(p)'
    BY DEF Counting
  <2>1. Counts(p) /\ Slots(p)' = Slots(p)
    BY <1>1, <1>3 DEF Counting, Slots
  <2>2. /\ IsFiniteSet(Slots(p)) /\ Cardinality(Slots(p)) \in Nat
        /\ Cardinality(Holding(todo, p)) = 0
    BY <1>2, <2>1, FS_CardinalityType DEF Counts
  <2>3. /\ Bit(p \in owned) \in Nat /\ Bit(p = Root /\ open) \in Nat
        /\ Bit(b = 2 /\ p = o) \in Nat
    BY DEF Bit
  <2>4. count[p] = Cardinality(Slots(p)) + 0 + Bit(p \in owned) + Bit(p = Root /\ open)
    BY <2>1, <2>2 DEF Counts
  <2>5. count'[p] = Cardinality(Slots(p)) + Cardinality(Holding(todo', p))
                    + Bit(p \in owned) + Bit(p = Root /\ open)
    BY <1>7, <2>2, <2>3, <2>4
  <2> QED
    BY <1>3, <2>1, <2>2, <2>5 DEF Counts
<1>12. \A q \in made : count'[q] # 0
  <2> TAKE q \in made
  <2>1. q \in Cells /\ count[q] \in Nat /\ count[q] # 0
    BY <1>1, <1>2, CountFacts DEF Typed
  <2> QED
    BY <1>7, <2>1 DEF Bit
<1>13. Unmade'
  <2> SUFFICES ASSUME NEW q \in Cells, q \notin made
               PROVE  count'[q] = 0 /\ \A i \in 1 .. Width[q] : slot'[q][i] = NoThing
    BY <1>3 DEF Unmade, AllNull
  <2>1. ~(b = 2 /\ q = o)
    BY <1>2, <1>7
  <2>2. count'[q] = count[q] + 0
    BY <1>7, <2>1 DEF Bit
  <2> QED
    BY <1>1, <1>3, <2>2 DEF Unmade, AllNull
<1>14. Ending' /\ Topmost' /\ Kept' /\ Emptied'
  BY <1>3, <1>7, <1>8, <1>12 DEF Ending, Topmost, Kept, Emptied, Ends
<1>15. Backed'
  <2> SUFFICES ASSUME NEW i \in 1 .. Len(todo'), todo'[i].call = "clear"
               PROVE  /\ todo'[i].on \notin marked' /\ i > 1
                      /\ todo'[i - 1].on = todo'[i].on /\ todo'[i - 1].call \in {"next", "free", "drop"}
    BY DEF Backed
  <2>1. i = 2 /\ b = 2
    BY <1>7, <1>8
  <2> QED
    BY <1>2, <1>3, <1>7, <2>1
<1>16. Chained'
  <2>1. \A i \in 1 .. Len(todo') : todo'[i].call # "free"
    BY <1>7, <1>8
  <2> QED
    BY <1>2, <1>3, <2>1 DEF Chained, Is
<1>17. Marked' /\ Doomed'
  BY <1>2, <1>3, <1>9 DEF Marked, Doomed
<1>18. Swept'
  <2>1. \A p \in chain : p \in ahead' \/ \E i \in 1 .. Len(todo') : Is(todo'[i], "clear", p)
    BY <1>7, <1>8 DEF Is
  <2> QED
    BY <1>3, <2>1 DEF Swept
<1>19. Ahead'
  <2>1. b = 2 => ~\A i \in 1 .. Len(todo') : todo'[i].call # "next"
    BY <1>7, <1>8
  <2>2. \A i \in 1 .. Len(todo') : todo'[i].call = "next" => todo'[i].on \notin ahead'
    BY <1>7, <1>8
  <2> QED
    BY <1>7, <2>1, <2>2 DEF Ahead
<1> QED
  BY <1>9, <1>10, <1>11, <1>13, <1>14, <1>15, <1>16, <1>17, <1>18, <1>19 DEF IInv

----------------------------------------------------------------------------
(* The theorems *)

LEMMA InitInvariant == GInit => IInv
<1> SUFFICES ASSUME GInit PROVE IInv
  OBVIOUS
<1>1. /\ made = {Root} /\ owned = {} /\ chain = {Root} /\ ahead = {} /\ marked = {} /\ doomed = {}
      /\ todo = <<>> /\ Len(todo) = 0 /\ todo \in Seq(Calls) /\ open = TRUE
      /\ Root \in Cells
  BY DEF GInit, Cells
<1>2. /\ DOMAIN slot = Cells /\ \A o \in Cells : DOMAIN slot[o] = 1 .. Width[o]
      /\ \A o \in Cells : \A i \in 1 .. Width[o] : slot[o][i] = NoThing
      /\ count \in [Cells -> Int]
      /\ \A o \in Cells : count[o] = IF o = Root THEN 1 ELSE 0
  BY DEF GInit
<1>3. Typed
  BY <1>1, <1>2 DEF Typed
<1>4. Counting
  <2> SUFFICES ASSUME NEW p \in Cells PROVE Counts(p)
    BY DEF Counting
  <2>1. Slots(p) = {}
    BY <1>2, PlaceOf, CollectorAssumption DEF Slots
  <2>2. IsFiniteSet(Slots(p)) /\ Cardinality(Slots(p)) = 0 /\ Cardinality(Holding(todo, p)) = 0
    BY <1>1, <2>1, FS_EmptySet, HoldingNone
  <2>3. Bit(p \in owned) = 0 /\ count[p] = Bit(p = Root /\ open)
    BY <1>1, <1>2 DEF Bit
  <2>4. count[p] = 0 + 0 + 0 + Bit(p = Root /\ open)
    BY <2>3 DEF Bit
  <2> QED
    BY <2>2, <2>3, <2>4 DEF Counts
<1>5. Unmade /\ Kept
  BY <1>1, <1>2 DEF Unmade, Kept, AllNull
<1>6. Ending /\ Topmost /\ Emptied /\ Backed /\ Chained
  BY <1>1 DEF Ending, Topmost, Emptied, Backed, Chained
<1>7. ~Collecting /\ ~Closing
  BY <1>1 DEF Collecting, Closing
<1>8. Bottom /\ Marked /\ Swept /\ Ahead /\ Doomed
  BY <1>1, <1>7 DEF Bottom, Marked, Swept, Ahead, Doomed
<1> QED
  BY <1>3, <1>4, <1>5, <1>6, <1>8 DEF IInv

LEMMA NextInvariant == IInv /\ [GNext]_gvars => IInv'
<1> SUFFICES ASSUME IInv, [GNext]_gvars PROVE IInv'
  OBVIOUS
<1>1. CASE UNCHANGED gvars
  <2>1. UNCHANGED <<made, slot, owned, count, chain, ahead, marked, todo, doomed, open>>
    BY <1>1 DEF gvars
  <2>2. /\ (Collecting' <=> Collecting) /\ (Closing' <=> Closing)
        /\ \A o : (AllNull(o)' <=> AllNull(o)) /\ Slots(o)' = Slots(o)
        /\ Closed(marked)' <=> Closed(marked)
    BY <2>1 DEF Collecting, Closing, AllNull, Slots, Closed
  <2>3. Typed' /\ Unmade'
    BY <2>1, <2>2 DEF IInv, Typed, Unmade
  <2>4. Counting'
    <3>1. \A o : Slots(o)' = Slots(o) /\ Holding(todo, o)' = Holding(todo, o)
      BY <2>1 DEF Slots, Holding
    <3> QED
      BY <2>1, <3>1 DEF IInv, Counting, Counts
  <2>5. Ending' /\ Topmost' /\ Kept'
    BY <2>1 DEF IInv, Ending, Topmost, Kept
  <2>6. Emptied' /\ Backed'
    BY <2>1 DEF IInv, Emptied, Backed, AllNull
  <2>7. Chained' /\ Bottom' /\ Marked' /\ Swept' /\ Ahead' /\ Doomed'
    BY <2>1, <2>2 DEF IInv, Chained, Bottom, Marked, Swept, Ahead, Doomed, AllNull
  <2> QED
    BY <2>3, <2>4, <2>5, <2>6, <2>7 DEF IInv
<1>2. ASSUME NEW r \in Cells, NEW i \in 1 .. Width[r], NEW o \in Things, Create(o, r, i) PROVE IInv'
  BY <1>2, CreateStep
<1>3. ASSUME NEW r \in Cells, NEW i \in 1 .. Width[r], NEW o \in Cells \union {NoThing},
             Assign(r, i, o)
      PROVE  IInv'
  BY <1>3, AssignStep
<1>4. ASSUME NEW o \in Things, Hold(o) \/ LetGo(o) \/ Forget(o) PROVE IInv'
  BY <1>4, HoldStep, LetGoStep, ForgetStep
<1>5. ASSUME NEW o \in Cells, Drop(o) \/ Destroy(o) \/ Free(o) PROVE IInv'
  BY <1>5, DropStep, DestroyStep, FreeStep
<1>6. ASSUME NEW o \in Cells, ClearSlot(o) PROVE IInv'
  <2>1. CASE AllNull(o) /\ Continues(<<>>) /\ UNCHANGED slot
    BY <1>6, <2>1, ClearEndsStep DEF ClearSlot
  <2>2. ASSUME NEW k \in 1 .. Width[o], slot[o][k] # NoThing,
               slot' = [slot EXCEPT ![o][k] = NoThing], todo' = todo \o Releases(slot[o][k])
        PROVE  IInv'
    <3>1. Returns("clear", o) /\ UNCHANGED <<made, owned, count, chain, ahead, marked, doomed, open>>
      BY <1>6 DEF ClearSlot
    <3> QED
      BY <2>2, <3>1, ClearOneStep
  <2> QED
    BY <1>6, <2>1, <2>2 DEF ClearSlot
<1>7. ASSUME NEW o \in Cells, SweepNext(o) PROVE IInv'
  <2>1. CASE ahead = {} /\ Continues(<<Call("drop", o)>>) /\ UNCHANGED <<count, ahead>>
    BY <1>7, <2>1, SweepEndsStep DEF SweepNext
  <2>2. ASSUME NEW p \in ahead, ahead' = ahead \ {p}, count' = Counted(count, p),
               Continues(Sweeps(p) \o <<Call("drop", o)>>)
        PROVE  IInv'
    <3>1. Returns("next", o) /\ UNCHANGED <<made, slot, owned, chain, marked, doomed, open>>
      BY <1>7 DEF SweepNext
    <3> QED
      BY <2>2, <3>1, SweepGoesOnStep
  <2> QED
    BY <1>7, <2>1, <2>2 DEF SweepNext
<1>8. CASE CollectGarbage \/ UnMark \/ Close \/ SweepAll
  BY <1>8, CollectStep, UnMarkStep, CloseStep, SweepAllStep
<1> QED
  BY <1>1, <1>2, <1>3, <1>4, <1>5, <1>6, <1>7, <1>8 DEF GNext

(* All of the above in every state of every behaviour.                     *)
THEOREM CollectorInvariant == GSpec => []IInv
<1> QED
  BY InitInvariant, NextInvariant, PTL DEF GSpec

\* An element of todo is the call that it says.
LEMMA CallOf ==
  ASSUME NEW e \in Calls, NEW c \in Names, NEW o \in Cells
  PROVE  e = Call(c, o) <=> Is(e, c, o)
BY DEF Calls, Call, Is

(* No step of the frees that a release or a collection sets off works on   *)
(* an object that another has freed, and none leaves a reference to one.   *)
THEOREM NothingDanglesHolds == GSpec => []NothingDangles
<1>1. IInv => NothingDangles
  <2> SUFFICES ASSUME IInv PROVE NothingDangles
    OBVIOUS
  <2>1. /\ Typed /\ Counting /\ Unmade /\ Ending /\ Backed /\ Chained /\ Bottom
        /\ DOMAIN todo = 1 .. Len(todo) /\ Len(todo) \in Nat
        /\ \A i \in 1 .. Len(todo) : todo[i] \in Calls
    BY LenProperties, ElementOfSeq DEF IInv, Typed
  <2>2. open => Root \in made
    BY <2>1, Referred DEF Cells
  <2>3. ASSUME NEW i \in 1 .. Len(todo), todo[i].call \in {"drop", "next", "destroy", "free"}
        PROVE  todo[i].on \in made
    <3>1. todo[i].on \in Cells
      BY <2>1 DEF Calls
    <3>2. CASE todo[i].call \in {"drop", "next"}
      BY <2>1, <3>1, <3>2, Referred DEF Holds
    <3>3. CASE todo[i].call \in {"destroy", "free"}
      BY <2>1, <3>3 DEF Ending, Ends
    <3> QED
      BY <2>3, <3>2, <3>3
  <2>4. ASSUME NEW i \in 1 .. Len(todo)
        PROVE  todo[i].on \in made \/ todo[i].call = "forget"
    <3>1. CASE todo[i].call = "clear"
      <4>1. i - 1 \in 1 .. Len(todo) /\ todo[i - 1].on = todo[i].on
            /\ todo[i - 1].call \in {"drop", "next", "destroy", "free"}
        BY <2>1, <3>1 DEF Backed
      <4> QED
        BY <2>3, <4>1
    <3>2. CASE todo[i].call = "unmark"
      <4>1. i = 1 /\ todo[1].on = Root /\ todo # <<>>
        BY <2>1, <3>2 DEF Bottom
      <4>2. open
        BY <2>1, <3>2, <4>1 DEF Bottom, Collecting, Is
      <4> QED
        BY <2>2, <4>1, <4>2
    <3>3. todo[i].call \in Names
      BY <2>1 DEF Calls
    <3> QED
      BY <2>3, <3>1, <3>2, <3>3 DEF Names
  <2>5. \A o \in made : \A i \in 1 .. Width[o] : slot[o][i] \in made \union {NoThing}
    BY <2>1, Referred DEF Typed
  <2>6. owned \subseteq made
    BY <2>1, Referred DEF Typed, Cells
  <2>7. chain \union marked = {o \in made : \A i \in DOMAIN todo : todo[i] # Call("free", o)}
    <3>1. \A o \in made : \A i \in 1 .. Len(todo) : todo[i] = Call("free", o) <=> Is(todo[i], "free", o)
      BY <2>1, CallOf DEF Typed, Names
    <3> QED
      BY <2>1, <3>1 DEF Chained
  <2> QED
    BY <2>1, <2>2, <2>4, <2>5, <2>6, <2>7 DEF NothingDangles
<1> QED
  BY <1>1, CollectorInvariant, PTL

(* What a collection did not reach is gone when it returns, and all is     *)
(* when the VM has been closed.                                            *)
THEOREM GarbageGoesHolds == GSpec => []GarbageGoes
<1>1. IInv => GarbageGoes
  <2> SUFFICES ASSUME IInv, todo = <<>>
               PROVE  doomed \intersect made = {} /\ (~open => made = {})
    BY DEF GarbageGoes
  <2>1. Chained /\ Doomed /\ Marked
    BY DEF IInv
  <2>2. ~Collecting /\ ~Closing /\ Len(todo) = 0
    BY DEF Collecting, Closing
  <2>3. ~open => chain = {}
    BY <2>2, SweptAway
  <2> QED
    BY <2>1, <2>2, <2>3 DEF Chained, Doomed, Marked
<1> QED
  BY <1>1, CollectorInvariant, PTL

----------------------------------------------------------------------------
(* Induction *)

\* A set of numbers has a least one.
LEMMA Least ==
  ASSUME NEW S \in SUBSET Nat, S # {}
  PROVE  \E n \in S : \A m \in S : n <= m
<1> DEFINE R == OpToRel(<, Nat)
<1>1. IsWellFoundedOn(R, Nat)
  BY NatLessThanWellFounded
<1> HIDE DEF R
<1>2. PICK n \in S : \A m \in S : ~ (<<m, n>> \in R)
  BY <1>1, WFMin
<1>3. \A m \in S : ~ (m < n)
  BY <1>2 DEF R, OpToRel
<1> QED
  BY <1>3

\* What holds at 0 and of the next number holds up to n.
LEMMA Induction ==
  ASSUME NEW n \in Nat, NEW S, 0 \in S, \A m \in 0 .. n - 1 : m \in S => m + 1 \in S
  PROVE  0 .. n \subseteq S
<1> DEFINE T == {m \in 0 .. n : m \notin S}
<1> SUFFICES ASSUME T # {} PROVE FALSE
  OBVIOUS
<1>1. T \in SUBSET Nat
  OBVIOUS
<1> HIDE DEF T
<1>2. PICK m \in T : \A k \in T : m <= k
  BY <1>1, Least
<1>3. m \in 0 .. n /\ m \notin S
  BY DEF T
<1>4. m - 1 \in 0 .. n - 1 /\ m - 1 \notin T
  BY <1>2, <1>3
<1>5. m - 1 \in S
  BY <1>4 DEF T
<1> QED
  BY <1>3, <1>4, <1>5

----------------------------------------------------------------------------
(* Marking *)

\* what the objects of S refer to is in S
Full(S) == \A x \in S : \A i \in 1 .. Width[x] : slot[x][i] \in S \union {NoThing}

\* there is something to mark
Markable == IsFiniteSet(made) /\ made \subseteq Cells /\ Full(made)

\* a marking under way: what is in the new chain is marked
UnderWay(m) ==
  /\ m \in Marks /\ m.seen \subseteq made
  /\ IsInjective(m.chain) /\ ToSet(m.chain) \subseteq m.seen

\* From m to r: what has been marked since is in the chain, and what it
\* refers to is marked.
Goes(m, r) ==
  /\ UnderWay(r) /\ m.seen \subseteq r.seen
  /\ ToSet(r.chain) = ToSet(m.chain) \union (r.seen \ m.seen)
  /\ \A x \in r.seen \ m.seen : \A i \in 1 .. Width[x] : slot[x][i] \in r.seen \union {NoThing}

\* From m to r, o is marked, and nothing but what o reaches.
MarksAll(m, o, r) ==
  /\ Goes(m, r) /\ o \in r.seen \union {NoThing}
  /\ \A S : Full(S) /\ o \in S \union {NoThing} => r.seen \subseteq m.seen \union S

\* f marks, if no more than n objects are unmarked.
Does(f, n) ==
  \A m, o : UnderWay(m) /\ o \in made \union {NoThing} /\ Cardinality(made \ m.seen) <= n
              => MarksAll(m, o, f[o][m])

LEMMA GoesNowhere == ASSUME NEW m, UnderWay(m) PROVE Goes(m, m)
BY DEF Goes

LEMMA GoesOn ==
  ASSUME NEW m, NEW p, NEW r, Goes(m, p), Goes(p, r)
  PROVE  Goes(m, r)
BY DEF Goes

\* The unmarked get fewer.
LEMMA Fewer ==
  ASSUME NEW m, NEW r, NEW n \in Nat, Markable, m.seen \subseteq r.seen,
         Cardinality(made \ m.seen) <= n
  PROVE  Cardinality(made \ r.seen) <= n
<1> DEFINE A == made \ m.seen
           B == made \ r.seen
<1>1. IsFiniteSet(A)
  BY FS_Subset DEF Markable
<1>2. B \in SUBSET A
  OBVIOUS
<1> HIDE DEF A, B
<1>3. Cardinality(B) <= Cardinality(A) /\ Cardinality(A) \in Nat /\ Cardinality(B) \in Nat
  BY <1>1, <1>2, FS_Subset, FS_CardinalityType
<1>4. Cardinality(A) <= n
  BY DEF A
<1>5. Cardinality(B) <= n
  BY ONLY <1>3, <1>4, n \in Nat
<1> QED
  BY <1>5 DEF B

\* A loop over the first k of s
Each(e, mark, m, s, k) ==
  e = [i \in 0 .. k |-> IF i = 0 THEN m ELSE mark[s[i]][e[i - 1]]]

LEMMA EachIs ==
  ASSUME NEW mark, NEW m, NEW s, NEW k \in Nat
  PROVE  \E e : Each(e, mark, m, s, k) /\ MarkEach(mark, m, s, k) = e[k]
<1> DEFINE S == {j \in 0 .. k : \E e : Each(e, mark, m, s, j)}
<1>1. 0 \in S
  <2> DEFINE e == [i \in 0 .. 0 |-> m]
  <2>1. e = [i \in 0 .. 0 |-> IF i = 0 THEN m ELSE mark[s[i]][e[i - 1]]]
    OBVIOUS
  <2> HIDE DEF e
  <2>2. Each(e, mark, m, s, 0)
    BY <2>1 DEF Each
  <2> QED
    BY <2>2
<1>2. ASSUME NEW j \in 0 .. k - 1, j \in S PROVE j + 1 \in S
  <2>1. PICK e : Each(e, mark, m, s, j)
    BY <1>2
  <2> DEFINE h == [i \in 0 .. j + 1 |-> IF i = j + 1 THEN mark[s[j + 1]][e[j]] ELSE e[i]]
  <2>2. \A i \in 0 .. j : e[i] = IF i = 0 THEN m ELSE mark[s[i]][e[i - 1]]
    BY <2>1 DEF Each
  <2>3. ASSUME NEW i \in 0 .. j + 1
        PROVE  h[i] = IF i = 0 THEN m ELSE mark[s[i]][h[i - 1]]
    <3>1. CASE i = 0
      BY <2>2, <3>1
    <3>2. CASE i = j + 1
      <4>1. h[i - 1] = e[j] /\ h[i] = mark[s[j + 1]][e[j]] /\ i # 0
        BY <3>2
      <4> QED
        BY <3>2, <4>1
    <3>3. CASE i # 0 /\ i # j + 1
      <4>1. i \in 0 .. j /\ i - 1 \in 0 .. j + 1 /\ i - 1 # j + 1
        BY <3>3
      <4>2. h[i] = e[i] /\ h[i - 1] = e[i - 1]
        BY <3>3, <4>1
      <4> QED
        BY <2>2, <3>3, <4>1, <4>2
    <3> QED
      BY <3>1, <3>2, <3>3
  <2>4. h = [i \in 0 .. j + 1 |-> h[i]]
    OBVIOUS
  <2> HIDE DEF h
  <2>5. h = [i \in 0 .. j + 1 |-> IF i = 0 THEN m ELSE mark[s[i]][h[i - 1]]]
    BY <2>3, <2>4
  <2>6. Each(h, mark, m, s, j + 1)
    BY <2>5 DEF Each
  <2>7. j + 1 \in 0 .. k
    OBVIOUS
  <2> QED
    BY <2>6, <2>7
<1> HIDE DEF S
<1>3. k \in S
  BY <1>1, <1>2, Induction
<1> DEFINE each == CHOOSE e : Each(e, mark, m, s, k)
<1>4. Each(each, mark, m, s, k)
  BY <1>3 DEF S
<1>5. MarkEach(mark, m, s, k) = each[k]
  BY DEF MarkEach, Each
<1> HIDE DEF each
<1> QED
  BY <1>4, <1>5

\* MarkEach marks the first k of s, and nothing but what they reach.
LEMMA EachMarks ==
  ASSUME NEW mark, NEW n \in Nat, Does(mark, n), Markable,
         NEW m, UnderWay(m), Cardinality(made \ m.seen) <= n,
         NEW s, NEW k \in Nat, \A i \in 1 .. k : s[i] \in made \union {NoThing},
         NEW r, r = MarkEach(mark, m, s, k)
  PROVE  /\ Goes(m, r)
         /\ \A i \in 1 .. k : s[i] \in r.seen \union {NoThing}
         /\ \A S : Full(S) /\ (\A i \in 1 .. k : s[i] \in S \union {NoThing})
                     => r.seen \subseteq m.seen \union S
<1>1. PICK e : Each(e, mark, m, s, k) /\ r = e[k]
  BY EachIs
<1>2. e[0] = m /\ \A i \in 1 .. k : e[i] = mark[s[i]][e[i - 1]]
  <2>1. \A i \in 0 .. k : e[i] = IF i = 0 THEN m ELSE mark[s[i]][e[i - 1]]
    BY <1>1 DEF Each
  <2> QED
    BY <2>1
<1> DEFINE Far(j) ==
      /\ Goes(m, e[j])
      /\ \A i \in 1 .. j : s[i] \in e[j].seen \union {NoThing}
      /\ \A S : Full(S) /\ (\A i \in 1 .. j : s[i] \in S \union {NoThing})
                  => e[j].seen \subseteq m.seen \union S
    T == {j \in 0 .. k : Far(j)}
<1>3. 0 \in T
  <2>1. Goes(m, e[0])
    BY <1>2, GoesNowhere
  <2>2. Far(0)
    BY <1>2, <2>1
  <2> QED
    BY <2>2
<1>4. ASSUME NEW j \in 0 .. k - 1, j \in T PROVE j + 1 \in T
  <2>1. Far(j)
    BY <1>4
  <2> DEFINE p == e[j]
             q == e[j + 1]
             o == s[j + 1]
  <2>2. j + 1 \in 1 .. k /\ (j + 1) - 1 = j /\ j + 1 \in 0 .. k
    OBVIOUS
  <2>3. q = mark[o][p] /\ o \in made \union {NoThing}
    BY <1>2, <2>2
  <2>4. UnderWay(p) /\ m.seen \subseteq p.seen
    BY <2>1 DEF Goes
  <2>5. Cardinality(made \ p.seen) <= n
    BY <2>4, Fewer
  <2> HIDE DEF p, q, o
  <2>6. MarksAll(p, o, q)
    BY <2>3, <2>4, <2>5 DEF Does
  <2>7. Goes(m, q)
    <3>1. Goes(m, p)
      BY <2>1 DEF p
    <3> QED
      BY <2>6, <3>1, GoesOn DEF MarksAll
  <2>8. \A i \in 1 .. j + 1 : s[i] \in q.seen \union {NoThing}
    <3>1. \A i \in 1 .. j : s[i] \in p.seen \union {NoThing}
      BY <2>1 DEF p
    <3>2. p.seen \subseteq q.seen /\ o \in q.seen \union {NoThing}
      BY <2>6 DEF MarksAll, Goes
    <3>3. \A i \in 1 .. j + 1 : i \in 1 .. j \/ i = j + 1
      OBVIOUS
    <3> QED
      BY <3>1, <3>2, <3>3 DEF o
  <2>9. ASSUME NEW S, Full(S), \A i \in 1 .. j + 1 : s[i] \in S \union {NoThing}
        PROVE  q.seen \subseteq m.seen \union S
    <3>1. (\A i \in 1 .. j : s[i] \in S \union {NoThing}) /\ o \in S \union {NoThing}
      BY <2>9 DEF o
    <3>2. p.seen \subseteq m.seen \union S
      BY <2>1, <2>9, <3>1 DEF p
    <3>3. q.seen \subseteq p.seen \union S
      BY <2>6, <2>9, <3>1 DEF MarksAll
    <3> QED
      BY <3>2, <3>3
  <2>10. Far(j + 1)
    BY <2>7, <2>8, <2>9 DEF q
  <2> QED
    BY <2>2, <2>10
<1> HIDE DEF T
<1>5. k \in T
  BY <1>3, <1>4, Induction
<1> QED
  BY <1>1, <1>5 DEF T

\* An object in front of a chain.
LEMMA InFront ==
  ASSUME NEW c \in Seq(Cells), NEW o \in Cells, IsInjective(c), o \notin ToSet(c)
  PROVE  /\ <<o>> \o c \in Seq(Cells) /\ IsInjective(<<o>> \o c)
         /\ ToSet(<<o>> \o c) = ToSet(c) \union {o}
<1> DEFINE d == <<o>> \o c
           l == Len(c)
<1>1. l \in Nat /\ DOMAIN c = 1 .. l
  OBVIOUS
<1>2. d \in Seq(Cells) /\ Len(d) = l + 1 /\ DOMAIN d = 1 .. l + 1
  OBVIOUS
<1>3. d[1] = o
  OBVIOUS
<1>4. \A i \in 2 .. l + 1 : d[i] = c[i - 1] /\ i - 1 \in 1 .. l
  OBVIOUS
<1> HIDE DEF d, l
<1>5. \A i \in 1 .. l : d[i + 1] = c[i] /\ i + 1 \in 1 .. l + 1
  <2> TAKE i \in 1 .. l
  <2>1. i + 1 \in 2 .. l + 1 /\ (i + 1) - 1 = i /\ i + 1 \in 1 .. l + 1
    BY <1>1
  <2> QED
    BY ONLY <1>4, <2>1
<1>6. \A i \in 1 .. l : c[i] # o
  BY <1>1 DEF ToSet
<1>7. \A i \in 1 .. l + 1 : i = 1 \/ i \in 2 .. l + 1
  BY <1>1
<1>8. IsInjective(d)
  <2> SUFFICES ASSUME NEW i \in 1 .. l + 1, NEW j \in 1 .. l + 1, d[i] = d[j] PROVE i = j
    BY <1>2 DEF IsInjective
  <2>1. CASE i = 1
    BY <1>3, <1>4, <1>6, <1>7, <2>1
  <2>2. CASE j = 1
    BY <1>3, <1>4, <1>6, <1>7, <2>2
  <2>3. CASE i # 1 /\ j # 1
    <3>1. i - 1 \in 1 .. l /\ j - 1 \in 1 .. l /\ c[i - 1] = c[j - 1]
      BY <1>4, <1>7, <2>3
    <3>2. i - 1 = j - 1
      BY <1>1, <3>1 DEF IsInjective
    <3> QED
      BY <1>1, <3>2
  <2> QED
    BY <2>1, <2>2, <2>3
<1>9. ToSet(d) = ToSet(c) \union {o}
  <2>1. ToSet(d) \subseteq ToSet(c) \union {o}
    <3>1. ASSUME NEW i \in 1 .. l + 1 PROVE d[i] \in ToSet(c) \union {o}
      <4>1. CASE i = 1
        BY <1>3, <4>1
      <4>2. CASE i \in 2 .. l + 1
        <5>1. d[i] = c[i - 1] /\ i - 1 \in 1 .. l
          BY <1>4, <4>2
        <5> QED
          BY <1>1, <5>1 DEF ToSet
      <4> QED
        BY <1>7, <4>1, <4>2
    <3> QED
      BY <1>2, <3>1 DEF ToSet
  <2>2. ToSet(c) \subseteq ToSet(d)
    BY <1>1, <1>2, <1>5 DEF ToSet
  <2>3. o \in ToSet(d)
    <3>1. 1 \in 1 .. l + 1
      BY <1>1
    <3> QED
      BY <1>2, <1>3, <3>1 DEF ToSet
  <2> QED
    BY <2>1, <2>2, <2>3
<1> QED
  BY <1>2, <1>8, <1>9 DEF d

\* Mark of an object marks it, if its calls mark what it refers to.
LEMMA MarksOne ==
  ASSUME NEW mark, NEW n \in Nat, Does(mark, n), Markable,
         NEW m, UnderWay(m), Cardinality(made \ m.seen) <= n + 1,
         NEW o \in made \union {NoThing}, NEW r, r = MarkBy(mark, m, o)
  PROVE  MarksAll(m, o, r)
<1>1. CASE o = NoThing \/ o \in m.seen
  <2>1. r = m
    BY <1>1 DEF MarkBy
  <2> QED
    BY <1>1, <2>1, GoesNowhere DEF MarksAll
<1>2. CASE ~ (o = NoThing \/ o \in m.seen)
  <2> DEFINE p == [seen |-> m.seen \union {o}, chain |-> m.chain]
             q == MarkEach(mark, p, slot[o], Width[o])
  <2>1. o \in made /\ o \in Cells /\ o \notin m.seen
    BY <1>2 DEF Markable
  <2>2. m.seen \in SUBSET Cells /\ m.chain \in Seq(Cells)
    BY DEF UnderWay, Marks
  <2>3. p.seen = m.seen \union {o} /\ p.chain = m.chain
    OBVIOUS
  <2>4. r = [seen |-> q.seen, chain |-> <<o>> \o q.chain]
    BY <1>2 DEF MarkBy
  <2>5. UnderWay(p)
    <3>1. m.seen \union {o} \in SUBSET Cells
      BY <2>1, <2>2
    <3>2. p \in Marks /\ p.seen = m.seen \union {o} /\ p.chain = m.chain
      BY <2>2, <3>1 DEF Marks
    <3> HIDE DEF p
    <3> QED
      BY <2>1, <3>2 DEF UnderWay
  <2>6. Cardinality(made \ p.seen) <= n
    <3> DEFINE A == made \ m.seen
               B == made \ p.seen
    <3>1. IsFiniteSet(A)
      BY FS_Subset DEF Markable
    <3>2. o \in A /\ B = A \ {o}
      BY <2>1, <2>3
    <3>3. Cardinality(A) <= n + 1
      OBVIOUS
    <3> HIDE DEF A, B
    <3>4. Cardinality(B) = Cardinality(A) - 1 /\ Cardinality(A) \in Nat
      BY <3>1, <3>2, FS_RemoveElement, FS_CardinalityType
    <3>5. Cardinality(B) <= n
      BY ONLY <3>3, <3>4, n \in Nat
    <3> QED
      BY <3>5 DEF B
  <2>7. p.seen = m.seen \union {o} /\ p.chain = m.chain
    BY <2>3
  <2>7a. q = MarkEach(mark, p, slot[o], Width[o])
    OBVIOUS
  <2>8. Width[o] \in Nat /\ \A i \in 1 .. Width[o] : slot[o][i] \in made \union {NoThing}
    BY <2>1 DEF Markable, Full
  <2> HIDE DEF p, q
  <2>9. /\ Goes(p, q)
        /\ \A i \in 1 .. Width[o] : slot[o][i] \in q.seen \union {NoThing}
        /\ \A S : Full(S) /\ (\A i \in 1 .. Width[o] : slot[o][i] \in S \union {NoThing})
                    => q.seen \subseteq p.seen \union S
    BY ONLY Does(mark, n), n \in Nat, Markable, <2>5, <2>6, <2>7a, <2>8, EachMarks

  <2>10. /\ UnderWay(q) /\ p.seen \subseteq q.seen
         /\ ToSet(q.chain) = ToSet(m.chain) \union (q.seen \ p.seen)
         /\ \A x \in q.seen \ p.seen :
              \A i \in 1 .. Width[x] : slot[x][i] \in q.seen \union {NoThing}
    BY <2>7, <2>9 DEF Goes
  <2>11. q \in Marks /\ q.seen \subseteq made
         /\ q.chain \in Seq(Cells) /\ q.seen \subseteq Cells /\ IsInjective(q.chain)
    BY <2>10 DEF UnderWay, Marks
  <2>13. ToSet(m.chain) \subseteq m.seen
    BY DEF UnderWay
  <2>14. o \notin ToSet(q.chain)
    BY <2>1, <2>7, <2>10, <2>13
  <2>15. /\ <<o>> \o q.chain \in Seq(Cells) /\ IsInjective(<<o>> \o q.chain)
         /\ ToSet(<<o>> \o q.chain) = ToSet(q.chain) \union {o}
    BY <2>1, <2>11, <2>14, InFront
  <2>16. r.seen = q.seen /\ r.chain = <<o>> \o q.chain /\ r \in Marks
    BY <2>4, <2>11, <2>15 DEF Marks
  <2>17. o \in r.seen /\ m.seen \subseteq r.seen
    BY <2>7, <2>10, <2>16
  <2>18. ToSet(r.chain) = ToSet(m.chain) \union (r.seen \ m.seen)
    BY <2>1, <2>7, <2>10, <2>15, <2>16, <2>17
  <2>19. UnderWay(r)
    BY <2>11, <2>13, <2>15, <2>16, <2>17, <2>18 DEF UnderWay
  <2>20. \A x \in r.seen \ m.seen : \A i \in 1 .. Width[x] : slot[x][i] \in r.seen \union {NoThing}
    <3>1. \A x \in r.seen \ m.seen : x = o \/ x \in q.seen \ p.seen
      BY <2>7, <2>16
    <3> QED
      BY <2>9, <2>10, <2>16, <3>1
  <2>21. ASSUME NEW S, Full(S), o \in S \union {NoThing}
         PROVE  r.seen \subseteq m.seen \union S
    <3>1. o \in S /\ \A i \in 1 .. Width[o] : slot[o][i] \in S \union {NoThing}
      BY <1>2, <2>21 DEF Full
    <3>2. q.seen \subseteq p.seen \union S
      BY <2>9, <2>21, <3>1
    <3> QED
      BY <2>7, <2>16, <3>1, <3>2
  <2> QED
    BY <2>17, <2>18, <2>19, <2>20, <2>21 DEF MarksAll, Goes
<1> QED
  BY <1>1, <1>2

\* The levels of Mark
Levels(f, deep) ==
  f = [d \in 0 .. deep |-> [o \in Cells \union {NoThing} |-> [m \in Marks |->
         IF d = 0 THEN m ELSE MarkBy(f[d - 1], m, o)]]]

LEMMA LevelsAre ==
  ASSUME NEW deep \in Nat
  PROVE  \E f : Levels(f, deep) /\ MarkDown(deep) = f[deep]
<1> DEFINE S == {j \in 0 .. deep : \E f : Levels(f, j)}
           At(d, below) == [o \in Cells \union {NoThing} |-> [m \in Marks |->
                              IF d = 0 THEN m ELSE MarkBy(below, m, o)]]
<1> HIDE DEF At
<1>1. ASSUME NEW f, NEW j PROVE Levels(f, j) <=> f = [d \in 0 .. j |-> At(d, f[d - 1])]
  BY DEF Levels, At
<1>2. ASSUME NEW x, NEW y PROVE At(0, x) = At(0, y)
  BY DEF At
<1>3. 0 \in S
  <2> DEFINE f == [d \in 0 .. 0 |-> At(0, 0)]
  <2>1. f = [d \in 0 .. 0 |-> At(d, f[d - 1])]
    <3>1. \A d \in 0 .. 0 : At(0, 0) = At(d, f[d - 1])
      BY <1>2
    <3> HIDE DEF f
    <3> QED
      BY <3>1 DEF f
  <2> HIDE DEF f
  <2>2. Levels(f, 0)
    BY <1>1, <2>1
  <2> QED
    BY <2>2
<1>4. ASSUME NEW j \in 0 .. deep - 1, j \in S PROVE j + 1 \in S
  <2>1. PICK f : Levels(f, j)
    BY <1>4
  <2> DEFINE h == [d \in 0 .. j + 1 |-> IF d = j + 1 THEN At(j + 1, f[j]) ELSE f[d]]
  <2>2. \A d \in 0 .. j : f[d] = At(d, f[d - 1])
    <3>1. f = [d \in 0 .. j |-> At(d, f[d - 1])]
      BY <1>1, <2>1
    <3> QED
      BY <3>1
  <2>3. ASSUME NEW d \in 0 .. j + 1
        PROVE  h[d] = At(d, h[d - 1])
    <3>1. CASE d = 0
      <4>1. h[d] = f[0] /\ 0 \in 0 .. j
        BY <3>1
      <4>2. f[0] = At(0, f[0 - 1])
        BY <2>2, <4>1
      <4> QED
        BY <1>2, <3>1, <4>1, <4>2
    <3>2. CASE d = j + 1
      <4>1. h[d - 1] = f[j] /\ h[d] = At(j + 1, f[j])
        BY <3>2
      <4> QED
        BY <3>2, <4>1
    <3>3. CASE d # 0 /\ d # j + 1
      <4>1. d \in 0 .. j /\ d - 1 \in 0 .. j + 1 /\ d - 1 # j + 1
        BY <3>3
      <4>2. h[d] = f[d] /\ h[d - 1] = f[d - 1]
        BY <3>3, <4>1
      <4> QED
        BY <2>2, <4>1, <4>2
    <3> QED
      BY <3>1, <3>2, <3>3
  <2>4. h = [d \in 0 .. j + 1 |-> h[d]]
    OBVIOUS
  <2> HIDE DEF h
  <2>5. h = [d \in 0 .. j + 1 |-> At(d, h[d - 1])]
    BY <2>3, <2>4
  <2>6. Levels(h, j + 1)
    BY <1>1, <2>5
  <2>7. j + 1 \in 0 .. deep
    OBVIOUS
  <2> QED
    BY <2>6, <2>7
<1> HIDE DEF S
<1>5. deep \in S
  BY <1>3, <1>4, Induction
<1> DEFINE mark == CHOOSE f : Levels(f, deep)
<1>6. Levels(mark, deep)
  BY <1>5 DEF S
<1>7. MarkDown(deep) = mark[deep]
  BY DEF MarkDown, Levels
<1> HIDE DEF mark
<1> QED
  BY <1>6, <1>7

\* As many levels as there are objects are enough.
LEMMA DownMarks ==
  ASSUME NEW deep \in Nat, Markable
  PROVE  Does(MarkDown(deep), deep)
<1>1. PICK f : Levels(f, deep) /\ MarkDown(deep) = f[deep]
  BY LevelsAre
<1>2. ASSUME NEW d \in 0 .. deep, NEW o \in made \union {NoThing}, NEW m \in Marks
      PROVE  f[d][o][m] = IF d = 0 THEN m ELSE MarkBy(f[d - 1], m, o)
  <2>1. o \in Cells \union {NoThing}
    BY DEF Markable
  <2>2. f = [k \in 0 .. deep |-> [p \in Cells \union {NoThing} |-> [q \in Marks |->
              IF k = 0 THEN q ELSE MarkBy(f[k - 1], q, p)]]]
    BY <1>1 DEF Levels
  <2>3. f[d] = [p \in Cells \union {NoThing} |-> [q \in Marks |->
              IF d = 0 THEN q ELSE MarkBy(f[d - 1], q, p)]]
    BY <2>2
  <2>4. f[d][o] = [q \in Marks |-> IF d = 0 THEN q ELSE MarkBy(f[d - 1], q, o)]
    BY <2>1, <2>3
  <2> QED
    BY <2>4
<1> DEFINE T == {d \in 0 .. deep : Does(f[d], d)}
<1>3. 0 \in T
  <2> SUFFICES ASSUME NEW m, NEW o, UnderWay(m), o \in made \union {NoThing},
                      Cardinality(made \ m.seen) <= 0
               PROVE  MarksAll(m, o, f[0][o][m])
    BY DEF Does
  <2>1. m \in Marks
    BY DEF UnderWay
  <2>2. f[0][o][m] = m
    BY <1>2, <2>1
  <2>3. made \ m.seen = {}
    <3> DEFINE A == made \ m.seen
    <3>1. IsFiniteSet(A)
      BY FS_Subset DEF Markable
    <3>2. Cardinality(A) <= 0
      OBVIOUS
    <3> HIDE DEF A
    <3>3. Cardinality(A) = 0
      BY <3>1, <3>2, FS_CardinalityType
    <3>4. A = {}
      BY <3>1, <3>3, FS_EmptySet
    <3> QED
      BY <3>4 DEF A
  <2> QED
    BY <2>2, <2>3, GoesNowhere DEF MarksAll
<1>4. ASSUME NEW d \in 0 .. deep - 1, d \in T PROVE d + 1 \in T
  <2>1. d + 1 \in 0 .. deep /\ d + 1 # 0 /\ (d + 1) - 1 = d /\ d \in Nat
    OBVIOUS
  <2>2. Does(f[d], d)
    BY <1>4
  <2>3. ASSUME NEW m, NEW o, UnderWay(m), o \in made \union {NoThing},
               Cardinality(made \ m.seen) <= d + 1
        PROVE  MarksAll(m, o, f[d + 1][o][m])
    <3>1. m \in Marks
      BY <2>3 DEF UnderWay
    <3>2. f[d + 1][o][m] = MarkBy(f[d], m, o)
      BY <1>2, <2>1, <2>3, <3>1
    <3> QED
      BY <2>1, <2>2, <2>3, <3>2, MarksOne
  <2>4. Does(f[d + 1], d + 1)
    BY <2>3 DEF Does
  <2> QED
    BY <2>1, <2>4
<1> HIDE DEF T
<1>5. deep \in T
  BY <1>3, <1>4, Induction
<1> QED
  BY <1>1, <1>5 DEF T

\* Taken from nothing, RunMark marks what is reached and puts it in the chain.
LEMMA RunMarks ==
  ASSUME Markable, Root \in made, owned \subseteq made
  PROVE  IsInjective(RunMark) /\ ToSet(RunMark) = Reached
<1> DEFINE n == Cardinality(made)
           s == SetToSeq(owned)
           k == Cardinality(owned)
           v == Mark[Root][NoMarks]
           r == MarkEach(Mark, v, s, k)
<1>1. n \in Nat /\ IsFiniteSet(owned) /\ k \in Nat
  BY FS_CardinalityType, FS_Subset DEF Markable
<1>2. s \in [1 .. k -> owned] /\ \A o \in owned : \E i \in 1 .. k : s[i] = o
  <2>1. ExistsBijection(1 .. k, owned)
    BY <1>1, FS_CardinalityType
  <2>2. PICK b \in Bijection(1 .. k, owned) : TRUE
    BY <2>1 DEF ExistsBijection
  <2>3. b \in [1 .. k -> owned] /\ IsInjective(b)
    BY <2>2 DEF Bijection, Injection, IsInjective
  <2>4. s \in [1 .. k -> owned] /\ IsInjective(s)
    BY <2>3 DEF SetToSeq
  <2>5. s \in Injection(1 .. k, owned)
    BY <2>4 DEF Injection
  <2>6. IsFiniteSet(1 .. k) /\ Cardinality(1 .. k) = k
    BY <1>1, FS_Interval
  <2>7. Cardinality(1 .. k) = Cardinality(owned)
    BY <2>6
  <2> HIDE DEF s, k
  <2>8. s \in Surjection(1 .. k, owned)
    BY <1>1, <2>5, <2>7, FS_Injection
  <2> QED
    BY <2>4, <2>8 DEF Surjection
<1>3. Does(Mark, n)
  BY <1>1, DownMarks DEF Mark
<1>4. UnderWay(NoMarks) /\ NoMarks.seen = {} /\ ToSet(NoMarks.chain) = {}
  BY DEF UnderWay, NoMarks, Marks, IsInjective, ToSet
<1>5. made \ NoMarks.seen = made /\ Cardinality(made \ NoMarks.seen) <= n
  BY <1>1, <1>4
<1>6. MarksAll(NoMarks, Root, v)
  BY <1>3, <1>4, <1>5 DEF Does
<1>7. UnderWay(v) /\ Cardinality(made \ v.seen) <= n
  <2>1. UnderWay(v) /\ NoMarks.seen \subseteq v.seen
    BY <1>6 DEF MarksAll, Goes
  <2> HIDE DEF v, n
  <2> QED
    BY <1>1, <1>5, <2>1, Fewer
<1>8. \A i \in 1 .. k : s[i] \in made \union {NoThing}
  BY <1>2
<1>9. RunMark = r.chain
  BY DEF RunMark
<1>10. r = MarkEach(Mark, v, s, k)
  OBVIOUS
<1> HIDE DEF n, s, k, v, r
<1>11. /\ Goes(v, r)
       /\ \A i \in 1 .. k : s[i] \in r.seen \union {NoThing}
       /\ \A S : Full(S) /\ (\A i \in 1 .. k : s[i] \in S \union {NoThing})
                   => r.seen \subseteq v.seen \union S
  BY ONLY Markable, <1>1, <1>3, <1>7, <1>8, <1>10, EachMarks
<1>12. Goes(NoMarks, r)
  BY <1>6, <1>11, GoesOn DEF MarksAll
<1>13. ToSet(r.chain) = r.seen /\ IsInjective(r.chain) /\ r.seen \subseteq Cells
  BY <1>4, <1>12 DEF Goes, UnderWay, Markable
<1>14. Root \in r.seen
  BY <1>6, <1>11 DEF MarksAll, Goes, Cells
<1>15. owned \subseteq r.seen
  <2>1. NoThing \notin owned
    BY DEF Markable
  <2> QED
    BY <1>2, <1>11, <2>1
<1>16. \A x \in r.seen : \A i \in 1 .. Width[x] : slot[x][i] \in r.seen \union {NoThing}
  BY <1>4, <1>12 DEF Goes
<1>17. Closed(r.seen)
  BY <1>14, <1>15, <1>16 DEF Closed
<1>18. ASSUME NEW S \in SUBSET Cells, Closed(S) PROVE r.seen \subseteq S
  <2>1. Full(S) /\ Root \in S /\ owned \subseteq S
    BY <1>18 DEF Closed, Full
  <2>2. v.seen \subseteq S
    BY <1>4, <1>6, <2>1 DEF MarksAll
  <2>3. \A i \in 1 .. k : s[i] \in S \union {NoThing}
    BY <1>2, <2>1
  <2>4. r.seen \subseteq v.seen \union S
    BY <1>11, <2>1, <2>3
  <2> QED
    BY <2>2, <2>4
<1>19. r.seen = Reached
  BY <1>13, <1>17, <1>18 DEF Reached
<1> QED
  BY <1>9, <1>13, <1>19

\* There are never more than finitely many objects.
MadeFinite == IsFiniteSet(made)

LEMMA MadeIsFinite == GSpec => []MadeFinite
<1>1. GInit => MadeFinite
  <2>1. IsFiniteSet({Root})
    BY ONLY FS_Singleton
  <2>2. GInit => made = {Root}
    BY DEF GInit
  <2> QED
    BY ONLY <2>1, <2>2 DEF MadeFinite
<1>2. MadeFinite /\ [GNext]_gvars => MadeFinite'
  <2> SUFFICES ASSUME IsFiniteSet(made), [GNext]_gvars PROVE IsFiniteSet(made')
    BY DEF MadeFinite
  <2>1. CASE made' = made
    BY <2>1
  <2>2. ASSUME NEW o, made' = made \union {o} PROVE IsFiniteSet(made')
    BY <2>2, FS_AddElement
  <2>3. ASSUME NEW o, made' = made \ {o} PROVE IsFiniteSet(made')
    BY <2>3, FS_RemoveElement
  <2>4. ASSUME NEW r \in Cells, NEW i \in 1 .. Width[r], NEW o \in Things, Create(o, r, i)
        PROVE  made' = made \union {o}
    BY <2>4 DEF Create
  <2>5. ASSUME NEW o \in Cells, Free(o) PROVE made' = made \ {o}
    BY <2>5 DEF Free
  <2>6. ASSUME NEW r \in Cells, NEW i \in 1 .. Width[r], NEW o \in Cells \union {NoThing},
               Assign(r, i, o)
        PROVE  made' = made
    BY <2>6 DEF Assign
  <2>7. ASSUME NEW o \in Things, Hold(o) \/ LetGo(o) \/ Forget(o) PROVE made' = made
    BY <2>7 DEF Hold, LetGo, Forget
  <2>8. ASSUME NEW o \in Cells, Drop(o) \/ Destroy(o) \/ ClearSlot(o) \/ SweepNext(o)
        PROVE  made' = made
    BY <2>8 DEF Drop, Destroy, ClearSlot, SweepNext
  <2>9. CollectGarbage \/ UnMark \/ Close \/ SweepAll => made' = made
    BY DEF CollectGarbage, UnMark, Close, SweepAll
  <2>10. UNCHANGED gvars => made' = made
    BY DEF gvars
  <2> QED
    BY <2>1, <2>2, <2>3, <2>4, <2>5, <2>6, <2>7, <2>8, <2>9, <2>10 DEF GNext
<1> QED
  BY <1>1, <1>2, PTL DEF GSpec

(* The recursive Mark of the VM and of what C++ holds, whatever cycles and *)
(* shared objects there are: it ends, and the new chain has each object    *)
(* that is reached, once, and no other.                                    *)
THEOREM MarkingReachesHolds == GSpec => []MarkingReaches
<1>1. IInv /\ NothingDangles /\ MadeFinite => MarkingReaches
  <2> SUFFICES ASSUME IInv, NothingDangles, IsFiniteSet(made), Running
               PROVE  IsInjective(RunMark) /\ ToSet(RunMark) = Reached
    BY DEF MarkingReaches, MadeFinite
  <2>1. made \subseteq Cells
    BY DEF IInv, Typed
  <2>2. Full(made) /\ owned \subseteq made
    BY DEF NothingDangles, Full
  <2>3. Root \in made
    BY DEF NothingDangles, Running
  <2> QED
    BY <2>1, <2>2, <2>3, RunMarks DEF Markable
<1> QED
  BY <1>1, CollectorInvariant, NothingDanglesHolds, MadeIsFinite, PTL
=============================================================================
