------------------------------- MODULE MCBytes -------------------------------
(* Constants for TLC.  What holds the bytes on their way, the conversions    *)
(* and the messages of the scripts share no state: a behaviour exercises     *)
(* one part.                                                                 *)
EXTENDS IoData, Codec, PayFrame

CONSTANTS t1, t2, a, b

MCThreads == {t1, t2}
MCBytes == {a, b}
MCMessages == {<<a>>, <<a, b>>}
MCSymmetry == Permutations(MCThreads)

UpTo(n, S) == UNION {[1 .. m -> S] : m \in 0 .. n}
MCArrays == UpTo(2, {0, 26, 255}) \union {<<1, 2, 3>>}
MCTexts == UpTo(3, {NoDigit, 1, 10})
             \union {<<1, 10, 0, 0>>, <<1, NoDigit, NoDigit, 10, 1>>, <<1, 10, 0, 0, 15, 15>>}
MCNumbers == {0, 258, 2147483647}
MCGarbage == {0, 171}
MCCommands == {18, 114}
MCErrors == {0, 1, 255}
MCBodies == {<<>>, <<2>>, <<18, 0, 255>>, [i \in 1 .. 260 |-> 7]}

VARIABLE part

PartInit ==
  /\ part \in {"queues", "codec", "frames"}
  /\ Init /\ CInit /\ PInit

PartNext ==
  /\ UNCHANGED part
  /\ \/ part = "queues" /\ Next /\ UNCHANGED <<cvars, pvars>>
     \/ part = "codec" /\ CNext /\ UNCHANGED <<vars, pvars>>
     \/ part = "frames" /\ PNext /\ UNCHANGED <<vars, cvars>>

PartSpec == PartInit /\ [][PartNext]_<<part, vars, cvars, pvars>>
=============================================================================
