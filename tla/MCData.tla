------------------------------- MODULE MCData --------------------------------
(* Constants for TLC.  The tables of the VM and its collector: a behaviour  *)
(* exercises one part, for what one owes another is an operation of its own. *)
EXTENDS SqTable, RefTable, SqStrings, Marking

CONSTANTS v, w, null, nothing, vm, a, b, c

MCKeys == {0, 3, 4, 8}
MCVals == {v, w}
MCHash == [k \in MCKeys |-> k]
MCSizes == {0, 5}
MCObjects == {0, 1, 4, 5, 8}
MCAddress == [o \in MCObjects |-> o]
MCStrings == {0, 1, 4, 5, 8}
MCStringHash == [x \in MCStrings |-> x]
MCThings == {a, b, c}
MCWidth == [o \in Cells |-> IF o = Root THEN 2 ELSE 1]
Symmetric == Permutations(MCVals) \union Permutations({a, b, c})

VARIABLE part

PartInit ==
  /\ part \in {"table", "refs", "strings", "heap"}
  /\ Init /\ RInit /\ SInit /\ GInit
  /\ part # "table" => Size(table) = MINPOWER2

PartNext ==
  /\ UNCHANGED part
  /\ \/ part = "table" /\ Next /\ UNCHANGED <<rvars, svars, gvars>>
     \/ part = "refs" /\ RNext /\ UNCHANGED <<vars, svars, gvars>>
     \/ part = "strings" /\ SNext /\ UNCHANGED <<vars, rvars, gvars>>
     \/ part = "heap" /\ GNext /\ UNCHANGED <<vars, rvars, svars>>

PartSpec == PartInit /\ [][PartNext]_<<part, vars, rvars, svars, gvars>>
=============================================================================
