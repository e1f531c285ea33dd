----------------------------- MODULE SqStrings ------------------------------
(***************************************************************************)
(* The table of the Squirrel VM in which every string exists once.  Tables *)
(* compare keys by address: two copies of one string would be two keys.    *)
(*                                                                         *)
(* A string stands for its bytes; that a bucket lists it twice would mean  *)
(* two objects with the same bytes.  An operation is one step.             *)
(***************************************************************************)
EXTENDS Integers, FiniteSets, SequencesExt

CONSTANTS
  Strings,
  StringHash    \* _hashstr

ASSUME StringsAssumption == StringHash \in [Strings -> Nat]

VARIABLES
  strings,     \* the lists of the buckets, and _slotused
  used         \* the strings that something in the VM refers to

svars == <<strings, used>>

Buckets(s) == Cardinality(DOMAIN s.list)
BucketOf(s, x) == StringHash[x] % Buckets(s)

AllocStrings(n) == [list |-> [b \in 0 .. n - 1 |-> <<>>], used |-> 0]

Prepended(s, x) == [s EXCEPT !.list[BucketOf(s, x)] = <<x>> \o @]

ResizedInPlace(s, n) ==
  [list |-> [b \in 0 .. n - 1 |-> IF b < Buckets(s) THEN s.list[b] ELSE <<>>],
   used |-> s.used]

\* the strings of a list move to the front of their new ones, one by one
Relinked(s, l) ==
  LET to[i \in 0 .. Len(l)] == IF i = 0 THEN s ELSE Prepended(to[i - 1], l[i])
  IN  to[Len(l)]

\* bucket by bucket
ResizedStrings(s, n) ==
  LET to[b \in 0 .. Buckets(s)] ==
        IF b = 0 THEN AllocStrings(n) ELSE Relinked(to[b - 1], s.list[b - 1])
  IN  [to[Buckets(s)] EXCEPT !.used = s.used]

SInit == strings = AllocStrings(4) /\ used = {}

\* SQString::Create: the string there is, or a new one
AddString(x) ==
  /\ used' = used \union {x}
  /\ LET s == [Prepended(strings, x) EXCEPT !.used = @ + 1]
     IN  strings' = IF Contains(strings.list[BucketOf(strings, x)], x) THEN strings
                    ELSE IF s.used > Buckets(s) THEN ResizedStrings(s, 2 * Buckets(s))
                    ELSE s

\* the last reference to the string is gone
RemoveString(x) ==
  /\ x \in used
  /\ used' = used \ {x}
  /\ Contains(strings.list[BucketOf(strings, x)], x)
  /\ strings' = [strings EXCEPT !.list[BucketOf(strings, x)] =
                                   RemoveAt(@, CHOOSE i \in DOMAIN @ : @[i] = x),
                                !.used = @ - 1]

SNext == \E x \in Strings : AddString(x) \/ RemoveString(x)
SSpec == SInit /\ [][SNext]_svars

(* The VM has one object for each string in use, on the list on which the  *)
(* next string with the same bytes will be looked for.                     *)
StringsAreUnique ==
  /\ \A x \in Strings, b \in DOMAIN strings.list :
       Cardinality({i \in DOMAIN strings.list[b] : strings.list[b][i] = x})
         = IF x \in used /\ b = BucketOf(strings, x) THEN 1 ELSE 0
  /\ strings.used = Cardinality(used)
=============================================================================
