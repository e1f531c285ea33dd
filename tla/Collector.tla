----------------------------- MODULE Collector ------------------------------
(***************************************************************************)
(* How the Squirrel VM frees the objects of a script: at once when the     *)
(* last reference goes, and the cycles when the script calls               *)
(* collectgarbage(), or when the VM is closed.  C++ holds objects through  *)
(* the table of RefTable, and lets go of them: the compiled script, the    *)
(* function it calls, the array it was given.                              *)
(*                                                                         *)
(* A step is one operation of the script, or one call of those it sets     *)
(* off: todo is the stack of calls under way.  Only one thread uses a VM.  *)
(***************************************************************************)
EXTENDS Integers, FiniteSets, SequencesExt

CONSTANTS
  Root,       \* the VM with its root table
  Things,     \* what scripts create: tables, arrays, instances, closures
  NoThing,    \* null, and whatever is not counted
  Width,      \* bound: how many references each has room for
  MaxOwned    \* bound: how many objects C++ holds

Cells == Things \union {Root}

ASSUME CollectorAssumption ==
  /\ Root \notin Things /\ NoThing \notin Cells
  /\ Width \in [Cells -> Nat] /\ MaxOwned \in Nat

VARIABLES
  made,      \* objects in memory
  slot,      \* what each refers to
  owned,     \* the objects in the table of references, which counts each once
  count,     \* _uiRef without MARK_FLAG
  chain,     \* _gc_chain, in any order
  ahead,     \* those of the chain that a sweep has yet to come to
  marked,    \* RunMark's tchain: those with MARK_FLAG
  todo,      \* calls under way, the innermost last
  doomed,    \* history: what the last collection did not reach
  open       \* the VM is not being closed

gvars == <<made, slot, owned, count, chain, ahead, marked, todo, doomed, open>>

Call(name, o) == [call |-> name, on |-> o]

\* the release of a reference, null aside
Releases(o) == IF o = NoThing THEN <<>> ELSE <<Call("drop", o)>>

Counted(c, o) == [p \in Cells |-> IF p = o THEN c[p] + 1 ELSE c[p]]

AllNull(o) == \A i \in 1 .. Width[o] : slot[o][i] = NoThing

----------------------------------------------------------------------------
GInit ==
  /\ made = {Root}
  /\ slot = [o \in Cells |-> [i \in 1 .. Width[o] |-> NoThing]]
  /\ owned = {}
  /\ count = [o \in Cells |-> IF o = Root THEN 1 ELSE 0]
  /\ chain = {Root} /\ ahead = {} /\ marked = {} /\ todo = <<>>
  /\ doomed = {} /\ open = TRUE

(* The script *)

Running == todo = <<>> /\ open

\* Whatever holds the VM and what C++ holds, and all that these refer to.
Closed(S) ==
  /\ {Root} \union owned \subseteq S
  /\ \A o \in S : \A i \in 1 .. Width[o] : slot[o][i] \in S \union {NoThing}

\* What the script has or C++ gives it, and what RunMark marks: see Marking.
Reached == {o \in Cells : \A S \in SUBSET Cells : Closed(S) => o \in S}

\* x = {}, a new object where the script can put it
Create(o, r, i) ==
  /\ Running
  /\ o \notin made /\ r \in Reached
  /\ made' = made \union {o}
  /\ slot' = [slot EXCEPT ![r][i] = o]
  /\ count' = [count EXCEPT ![o] = 1]
  /\ chain' = chain \union {o}
  /\ todo' = Releases(slot[r][i])
  /\ doomed' = doomed \ {o}
  /\ UNCHANGED <<owned, ahead, marked, open>>

\* operator= of SQObjectPtr: the new one is counted, then the old one released
Assign(r, i, o) ==
  /\ Running
  /\ r \in Reached /\ o \in Reached \union {NoThing}
  /\ slot' = [slot EXCEPT ![r][i] = o]
  /\ count' = Counted(count, o)
  /\ todo' = Releases(slot[r][i])
  /\ UNCHANGED <<made, owned, chain, ahead, marked, doomed, open>>

\* C++ holds an object, and lets go of it.
Hold(o) ==
  /\ Running
  /\ o \in Reached \ owned /\ Cardinality(owned) < MaxOwned
  /\ owned' = owned \union {o}
  /\ count' = Counted(count, o)
  /\ UNCHANGED <<made, slot, chain, ahead, marked, todo, doomed, open>>

LetGo(o) ==
  /\ Running
  /\ o \in owned
  /\ owned' = owned \ {o}
  /\ todo' = Releases(o)
  /\ UNCHANGED <<made, slot, count, chain, ahead, marked, doomed, open>>

----------------------------------------------------------------------------
(* The calls that follow *)

Returns(c, o) == todo # <<>> /\ Last(todo) = Call(c, o)
Continues(s) == todo' = Front(todo) \o s

\* a reference goes
Drop(o) ==
  /\ Returns("drop", o)
  /\ count' = [count EXCEPT ![o] = @ - 1]
  /\ Continues(IF count[o] = 1 /\ o \notin marked THEN <<Call("destroy", o)>> ELSE <<>>)
  /\ UNCHANGED <<made, slot, owned, chain, ahead, marked, doomed, open>>

\* Release: the destructor takes it out of the chain, and then its references go
Destroy(o) ==
  /\ Returns("destroy", o)
  /\ chain' = chain \ {o} /\ ahead' = ahead \ {o}
  /\ Continues(<<Call("free", o), Call("clear", o)>>)
  /\ UNCHANGED <<made, slot, owned, count, marked, doomed, open>>

\* Mutant of ClearSlot: what it refers to stays.
ClearNone(o) ==
  /\ Returns("clear", o)
  /\ Continues(<<>>)
  /\ UNCHANGED <<made, slot, owned, count, chain, ahead, marked, doomed, open>>

\* The references of an object go one by one: in its destructor, and in
\* Finalize, which leaves them null.
ClearSlot(o) ==
  /\ Returns("clear", o)
  /\ \/ AllNull(o) /\ Continues(<<>>) /\ UNCHANGED slot
     \/ \E i \in 1 .. Width[o] :
          /\ slot[o][i] # NoThing
          /\ slot' = [slot EXCEPT ![o][i] = NoThing]
          /\ todo' = todo \o Releases(slot[o][i])
  /\ UNCHANGED <<made, owned, count, chain, ahead, marked, doomed, open>>

Free(o) ==
  /\ Returns("free", o)
  /\ made' = made \ {o}
  /\ Continues(<<>>)
  /\ UNCHANGED <<slot, owned, count, chain, ahead, marked, doomed, open>>

----------------------------------------------------------------------------
(* Collecting *)

\* A sweep comes to o: the reference that it takes, and Finalize.
Sweeps(o) == <<Call("next", o), Call("clear", o)>>

\* It starts on the objects of a chain, and goes on to rest.
SweepStarts(s, rest) ==
  \/ /\ s = {} /\ ahead' = {}
     /\ todo' = rest
     /\ UNCHANGED count
  \/ \E o \in s : /\ ahead' = s \ {o}
                  /\ count' = Counted(count, o)
                  /\ todo' = rest \o Sweeps(o)

CollectGarbage ==
  /\ Running
  /\ marked' = Reached
  /\ chain' = chain \ Reached
  /\ doomed' = chain'
  /\ SweepStarts(chain', <<Call("unmark", Root)>>)
  /\ UNCHANGED <<made, slot, owned, open>>

\* Mutant of SweepNext: the next one is not held.
SweepNextUnheld(o) ==
  /\ Returns("next", o)
  /\ \/ ahead = {} /\ Continues(<<Call("drop", o)>>) /\ UNCHANGED ahead
     \/ \E p \in ahead : ahead' = ahead \ {p} /\ Continues(Sweeps(p) \o <<Call("drop", o)>>)
  /\ UNCHANGED <<made, slot, owned, count, chain, marked, doomed, open>>

\* The next one in the chain is held before this one is let go of.
SweepNext(o) ==
  /\ Returns("next", o)
  /\ \/ /\ ahead = {}
        /\ Continues(<<Call("drop", o)>>)
        /\ UNCHANGED <<count, ahead>>
     \/ \E p \in ahead : /\ ahead' = ahead \ {p}
                         /\ count' = Counted(count, p)
                         /\ Continues(Sweeps(p) \o <<Call("drop", o)>>)
  /\ UNCHANGED <<made, slot, owned, chain, marked, doomed, open>>

UnMark ==
  /\ Returns("unmark", Root)
  /\ chain' = marked /\ marked' = {}
  /\ Continues(<<>>)
  /\ UNCHANGED <<made, slot, owned, count, ahead, doomed, open>>

----------------------------------------------------------------------------
(* Closing *)

\* sq_close: the root VM goes first
Close ==
  /\ Running
  /\ open' = FALSE
  /\ todo' = <<Call("forget", Root), Call("drop", Root), Call("clear", Root)>>
  /\ UNCHANGED <<made, slot, owned, count, chain, ahead, marked, doomed>>

\* then what C++ still holds, one by one
Forget(o) ==
  /\ Returns("forget", Root)
  /\ o \in owned
  /\ owned' = owned \ {o}
  /\ todo' = todo \o Releases(o)
  /\ UNCHANGED <<made, slot, count, chain, ahead, marked, doomed, open>>

\* then all that is in the chain
SweepAll ==
  /\ Returns("forget", Root)
  /\ owned = {}
  /\ SweepStarts(chain, Front(todo))
  /\ UNCHANGED <<made, slot, owned, chain, marked, doomed, open>>

GNext ==
  \/ \E r \in Cells : \E i \in 1 .. Width[r] :
       (\E o \in Things : Create(o, r, i)) \/ (\E o \in Cells \union {NoThing} : Assign(r, i, o))
  \/ \E o \in Things : Hold(o) \/ LetGo(o) \/ Forget(o)
  \/ \E o \in Cells : Drop(o) \/ Destroy(o) \/ Free(o) \/ ClearSlot(o) \/ SweepNext(o)
  \/ CollectGarbage \/ UnMark
  \/ Close \/ SweepAll

GSpec == GInit /\ [][GNext]_gvars

----------------------------------------------------------------------------
(* Properties *)

(* No step of the frees that a release or a collection sets off works on   *)
(* an object that another has freed, and none leaves a reference to one:   *)
(* whatever cycles there are, in whatever order the chain has them.        *)
NothingDangles ==
  /\ \A i \in DOMAIN todo : todo[i].on \in made \/ todo[i].call = "forget"
  /\ \A o \in made : \A i \in 1 .. Width[o] : slot[o][i] \in made \union {NoThing}
  /\ owned \subseteq made
  /\ chain \union marked = {o \in made : \A i \in DOMAIN todo : todo[i] # Call("free", o)}
  /\ open => Root \in made

(* Every cycle goes that a collection could not reach from the VM or from  *)
(* what C++ holds, and when the VM has been closed nothing is left in the  *)
(* chain, as its destructor asserts.                                       *)
GarbageGoes ==
  todo = <<>> => /\ doomed \intersect made = {}
                 /\ ~open => made = {}
=============================================================================
