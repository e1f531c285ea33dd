------------------------------- MODULE Codec --------------------------------
(***************************************************************************)
(* The conversions between bytes, numbers and hexadecimal text that main() *)
(* gives to the scripts and Device uses for sendkey and binary input.      *)
(*                                                                         *)
(* A text is a sequence of digits, 0 to 15, and of NoDigit for any other   *)
(* character but a space, a sign or an x, which sscanf has rules of its    *)
(* own for.  Numbers are not negative: sprintf takes an int for unsigned,  *)
(* and the widest ones are eight digits.                                   *)
(***************************************************************************)
EXTENDS Integers, SequencesExt

CONSTANTS
  CodecArrays,    \* sequences of bytes
  CodecTexts,     \* sequences of digits and NoDigit
  CodecNumbers,
  PtrSize,        \* what arr2str's ptr holds: 4096 in the code
  Garbage         \* what an uninitialised int may hold

NoDigit == -1
NullEntry == -2     \* null in an array of the script
Byte == 0 .. 255
Digit == 0 .. 15

ASSUME CodecAssumption ==
  /\ \A a \in CodecArrays : a \in Seq(Byte)
  /\ \A s \in CodecTexts : s \in Seq(Digit \union {NoDigit})
  /\ \A n \in CodecNumbers : n \in Nat /\ n <= 2147483647
  /\ Garbage \subseteq Int /\ Garbage # {}
  /\ PtrSize \in Nat

VARIABLES
  text,    \* the static buffer of num2str
  did      \* the last call: the function, what it was given, what it returned

cvars == <<text, did>>

\* toString, and arr2str of an array without nulls: %02X of each byte
DupletSwapped(b) == <<b % 16, b \div 16>>
Duplet(b) == <<b \div 16, b % 16>>
Text(bytes) ==
  [i \in 1 .. 2 * Len(bytes) |-> Duplet(bytes[(i + 1) \div 2])[2 - (i % 2)]]

Sixteens == <<1, 16, 256, 4096, 65536, 1048576, 16777216, 268435456>>

\* %02X and its likes: as many digits as asked for, or as it takes
Printed(num, digits) ==
  LET n == Max({digits} \union {k \in 1 .. 8 : num \div Sixteens[k] > 0})
  IN  [i \in 1 .. n |-> IF n - i > 7 THEN 0 ELSE (num \div Sixteens[n - i + 1]) % 16]

\* sscanf of two characters from c on, or of the last one; without a digit
\* at c, val keeps what it had
Scanned(s, c, val) ==
  IF s[c] = NoDigit THEN val
  ELSE IF c = Len(s) \/ s[c + 1] = NoDigit THEN s[c]
  ELSE 16 * s[c] + s[c + 1]

\* toBinary: val starts uninitialised
ToBinary(s, garbage) ==
  LET n == (Len(s) + 1) \div 2
      val[i \in 0 .. n] ==
        IF i = 0 THEN garbage
        ELSE LET before == val[i - 1] IN Scanned(s, 2 * i - 1, before)
  IN  [i \in 1 .. n |-> val[i] % 256]

\* str2arr: the array has Len(s) / 2 nulls before the first Insert, and the
\* i-th byte goes to the index of its text, not of the byte
Str2Arr(s, garbage) ==
  LET bytes == ToBinary(s, garbage)
      ra[i \in 0 .. Len(bytes)] ==
        IF i = 0 THEN [j \in 1 .. Len(s) \div 2 |-> NullEntry]
        ELSE InsertAt(ra[i - 1], 2 * i - 1, bytes[i])
  IN  ra[Len(bytes)]

----------------------------------------------------------------------------
CInit == text = <<>> /\ did = [f |-> "none", arg |-> <<>>, res |-> <<>>]

Did(f, arg, res) == did' = [f |-> f, arg |-> arg, res |-> res]

Widths == {1, 2, 4, 8}

\* with any other width the text of the call before is returned again
Num2Str(num, bytes) ==
  /\ text' = IF bytes \in Widths THEN Printed(num, 2 * bytes) ELSE text
  /\ Did("num2str", <<num, bytes>>, text')

Num2Arr(num, bytes, garbage) ==
  /\ bytes \in Widths
  /\ Did("num2arr", <<num, bytes>>, Str2Arr(Printed(num, 2 * bytes), garbage))
  /\ UNCHANGED text

\* GetArray writes the array's size of bytes into ptr.
Arr2Str(a) ==
  /\ Len(a) <= PtrSize
  /\ Did("arr2str", a, Text(a))
  /\ UNCHANGED text

\* More than ptr holds go past its end; what is returned then, if the call
\* returns, is anything.
Arr2StrOverruns(a) ==
  /\ Len(a) > PtrSize
  /\ \E res \in {<<>>, Text(a), Tail(Text(a))} : Did("overrun", a, res)
  /\ UNCHANGED text

SendKey(s, garbage) == Did("sendkey", s, ToBinary(s, garbage)) /\ UNCHANGED text
TextToArray(s, garbage) == Did("str2arr", s, Str2Arr(s, garbage)) /\ UNCHANGED text

CNext ==
  \/ \E num \in CodecNumbers, bytes \in Widths \union {3} :
       Num2Str(num, bytes) \/ \E g \in Garbage : Num2Arr(num, bytes, g)
  \/ \E a \in CodecArrays : Arr2Str(a) \/ Arr2StrOverruns(a)
  \/ \E s \in CodecTexts, g \in Garbage : SendKey(s, g) \/ TextToArray(s, g)

CSpec == CInit /\ [][CNext]_cvars

----------------------------------------------------------------------------
(* What bytes and numbers become is their hexadecimal text: it is read     *)
(* back as they were, most significant byte first, whatever val held.      *)
(* The exceptions are arrays that are longer than ptr, numbers wider than  *)
(* asked for and other widths.                                             *)
Value(bytes) ==
  LET value[i \in 0 .. Len(bytes)] ==
        IF i = 0 THEN 0 ELSE 256 * value[i - 1] + bytes[i]
  IN  value[Len(bytes)]

TextIsBack ==
  \A g \in Garbage :
    /\ did.f = "arr2str" => Len(did.arg) <= PtrSize /\ ToBinary(did.res, g) = did.arg
    /\ did.f = "num2str" /\ did.arg[2] \in Widths /\ Len(did.res) = 2 * did.arg[2]
         => Value(ToBinary(did.res, g)) = did.arg[1]
=============================================================================
