----------------------------- MODULE Dictionary -----------------------------
(***************************************************************************)
(* What a Squirrel table promises a script: a map from keys to values.     *)
(* The representation, the order of the slots and the moment at which the  *)
(* table grows or shrinks are not part of the promise.                     *)
(***************************************************************************)
CONSTANTS Keys, Vals

VARIABLE dict

Dicts == UNION {[ks -> Vals] : ks \in SUBSET Keys}

Init == dict = [k \in {} |-> CHOOSE v \in Vals : TRUE]

\* t[k] <- v, and t[k] = v when there is a slot for k
Put(k, v) ==
  dict' = [j \in DOMAIN dict \union {k} |-> IF j = k THEN v ELSE dict[j]]

\* delete t[k]
Drop(k) ==
  /\ k \in DOMAIN dict
  /\ dict' = [j \in DOMAIN dict \ {k} |-> dict[j]]

\* t.clear()
DropAll == dict' = [k \in {} |-> CHOOSE v \in Vals : TRUE]

Next ==
  \/ \E k \in Keys, v \in Vals : Put(k, v)
  \/ \E k \in Keys : Drop(k)
  \/ DropAll

Spec == Init /\ [][Next]_dict
=============================================================================
