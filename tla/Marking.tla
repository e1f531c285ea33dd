------------------------------ MODULE Marking -------------------------------
(***************************************************************************)
(* The marking of a collection: Mark of an object takes it out of the      *)
(* chain of the VM, marks what it refers to, and puts it into another      *)
(* chain.  Collector takes the objects so marked as a set.                 *)
(***************************************************************************)
EXTENDS Collector

\* the objects that have MARK_FLAG, and tchain
Marks == [seen : SUBSET Cells, chain : Seq(Cells)]
NoMarks == [seen |-> {}, chain |-> <<>>]

\* MarkObject of the first n of s, where mark[o] is o->Mark
MarkEach(mark, m, s, n) ==
  LET each[i \in 0 .. n] ==
        IF i = 0 THEN m ELSE LET before == each[i - 1] IN mark[s[i]][before]
  IN  each[n]

\* o->Mark(chain): what it refers to before itself
MarkBy(mark, m, o) ==
  IF o = NoThing \/ o \in m.seen THEN m
  ELSE LET flagged == [seen |-> m.seen \union {o}, chain |-> m.chain]
           inner   == MarkEach(mark, flagged, slot[o], Width[o])
       IN  [seen |-> inner.seen, chain |-> <<o>> \o inner.chain]

\* Mark, whose calls of itself go deep levels down: no further than there
\* are objects, as each level marks one.
MarkDown(deep) ==
  LET mark[d \in 0 .. deep] ==
        [o \in Cells \union {NoThing} |-> [m \in Marks |->
           IF d = 0 THEN m ELSE LET below == mark[d - 1] IN MarkBy(below, m, o)]]
  IN  mark[deep]

Mark == MarkDown(Cardinality(made))

\* Mutant of RunMark: what only C++ holds is not marked.
RunMarkVm == Mark[Root][NoMarks].chain

\* RunMark: the VM, then the table of references
RunMark ==
  LET marks == Mark[Root][NoMarks]
  IN  MarkEach(Mark, marks, SetToSeq(owned), Cardinality(owned)).chain

(* Marking puts each object that the VM or C++ reaches into the new chain, *)
(* once, and no other: whatever cycles and shared objects there are.       *)
MarkingReaches == Running => IsInjective(RunMark) /\ ToSet(RunMark) = Reached
=============================================================================
