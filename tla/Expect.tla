------------------------------- MODULE Expect -------------------------------
(***************************************************************************)
(* The waits for text of a Device (autocom_src/divais.cpp: strwaitt,       *)
(* strstr, binwaitt, any) with their clock, their accumulators, what they  *)
(* search for and how they trim what they searched.  DeviceIo has the      *)
(* queue under both threads; here it is only filled by the IO thread.      *)
(*                                                                         *)
(* Bytes are numbers and 0 is NUL, which ends a C string.  Time is counted *)
(* in sleeps of the running wait: a sleep takes at least its time.         *)
(***************************************************************************)
EXTENDS Integers, SequencesExt

CONSTANTS
  Chunks,        \* what one putIn may bring
  Texts,         \* expressions of strwaitt that are searched as they are
  Regexes,       \* pairs <<x, y>> for the expression ?x.*y
  TokenLists,    \* arguments of strstr
  Arrays,        \* arguments of binwaitt
  Remains,       \* what may follow the array in ptr[256], up to the next NUL
  Timeouts,      \* timeouts in sleeps, -1 for none
  TRIMEXPECT,    \* what an accumulator may hold
  MayWait,       \* may the script's function "waiting" end a wait?
  MaxArrived     \* bound: bytes that arrive in a behaviour

NUL == 0
Forever == -1

Strings == Seq(Nat \ {NUL})

\* The lengths of the first n tokens together.
Lengths(tokens, n) ==
  FoldLeft(LAMBDA sum, t : sum + Len(t), 0, SubSeq(tokens, 1, n))

\* An accumulator that is trimmed holds as much as is kept of it, after any
\* number of tokens.  (No list has a token longer than all of them together:
\* said here because Lengths is a fold, of which the provers know nothing.)
ASSUME ExpectAssumption ==
  /\ Chunks \subseteq Seq(Nat) \ {<<>>}
  /\ Texts \subseteq Strings
  /\ \A e \in Texts : Len(e) <= TRIMEXPECT + 1
  /\ \A r \in Regexes :
       /\ Len(r) = 2 /\ r[1] \in Strings /\ r[2] \in Strings
       /\ Len(r[1]) + Len(r[2]) + 3 <= TRIMEXPECT + 1
  /\ \A tokens \in TokenLists :
       /\ tokens \in Seq(Strings)
       /\ \A n \in 0..Len(tokens) : Lengths(tokens, n) \in 0..(TRIMEXPECT + 1)
       /\ \A i \in 1..Len(tokens) : Len(tokens[i]) <= Lengths(tokens, Len(tokens))
  /\ Arrays \subseteq Seq(Nat)
  /\ Remains \subseteq Strings
  /\ Timeouts \subseteq Int
  /\ TRIMEXPECT \in Nat
  /\ MayWait \in BOOLEAN
  /\ MaxArrived \in Nat

VARIABLES
  spc,       \* where the script thread is
  op,        \* the wait that is running, or has ended last
  want,      \* what it waits for: the expression, the two parts of a regular one,
             \* the tokens, the array
  ptr,       \* binwaitt: the C string that find takes the array for
  forever,   \* infinite
  left,      \* sleeps until expire
  running,   \* __alive
  in,        \* _io._in
  accum,     \* _accum
  baccum,    \* _baccum
  ret,       \* strstr's static ret
  result,    \* what the last wait returned
  fetched,   \* history: every byte the script took out of in
  mark       \* history: how many of them before the last wait began

call == <<op, want, ptr, forever>>
input == <<in, fetched>>
vars == <<spc, call, left, running, input, accum, baccum, ret, result, mark>>

Pcs ==
  { "idle",      \* between two calls
    "test",      \* the condition of the polling loop
    "look",      \* in the loop, before the queue is read
    "sleep",     \* at the sleep that ends a round
    "any",       \* the condition of any's loop
    "nap",       \* the sleep of any's loop
    "last",      \* any, after its loop and one more sleep
    "aborted" }  \* a C++ exception nobody catches ended the program

Ops == {"none", "text", "regex", "tokens", "array", "any"}

-----------------------------------------------------------------------------
(* Strings. *)

\* The bytes as (const char*)data() shows them: up to the first NUL.
CString(s) ==
  LET nul == SelectInSeq(s, LAMBDA b : b = NUL)
  IN  IF nul = 0 THEN s ELSE SubSeq(s, 1, nul - 1)

\* find(x) != npos on s.
Occurs(x, s) == x \in SubSeqs(s)

\* regex_search for x.*y.  Letters are taken after icase has made their cases
\* one, and no line end, which . does not match, is among the bytes.
Spans(r, s) == \E k \in 0..Len(s) :
  Occurs(r[1], SubSeq(s, 1, k)) /\ Occurs(r[2], SubSeq(s, k + 1, Len(s)))

LastBytes(s, n) == SubSeq(s, Len(s) - n + 1, Len(s))

\* Mutant of Trimmed: the first bytes are kept.
TrimmedFront(s, n) == IF Len(s) > TRIMEXPECT THEN SubSeq(s, 1, n) ELSE s

\* An accumulator that has grown too long keeps its last n bytes.
Trimmed(s, n) == IF Len(s) > TRIMEXPECT THEN LastBytes(s, n) ELSE s

\* ::strlen(expr): the ? and the .* of a regular expression count too.
Size == IF op = "text" THEN Len(want[1]) ELSE Len(want[1]) + Len(want[2]) + 3

\* The first token in s by the order of the list, 0 if none is.
FirstToken(s) == SelectInSeq(want, LAMBDA t : Occurs(t, s))

-----------------------------------------------------------------------------
Init ==
  /\ spc = "idle"
  /\ op = "none" /\ want = <<>> /\ ptr = <<>> /\ forever = FALSE
  /\ left = 0
  /\ running = TRUE
  /\ in = <<>> /\ fetched = <<>> /\ mark = 0
  /\ accum = <<>> /\ baccum = <<>> /\ ret = <<>>
  /\ result = "none"

\* The IO thread: IoData::putIn.
Arrives(c) ==
  /\ Len(fetched) + Len(in) + Len(c) <= MaxArrived
  /\ in' = in \o c
  /\ UNCHANGED <<spc, call, left, running, fetched, accum, baccum, ret, result,
                 mark>>

\* The script's exit(), in "waiting" or in a callback.
Exit ==
  /\ running' = FALSE
  /\ UNCHANGED <<spc, call, left, input, accum, baccum, ret, result, mark>>

\* A wait begins: expire = tick_count() + to.
Begins(o, w, p, to, pc) ==
  /\ spc = "idle"
  /\ spc' = pc
  /\ op' = o /\ want' = w /\ ptr' = p
  /\ left' = IF to > 0 THEN to ELSE 0
  /\ mark' = Len(fetched)
  /\ result' = "none"
  /\ UNCHANGED <<running, input, baccum, ret>>

\* Mutant of Strwaitt: what earlier waits heard is not cleared.
StrwaittOnTop(e, to) ==
  /\ Begins("text", <<e>>, <<>>, to, "test")
  /\ forever' = (to = Forever)
  /\ UNCHANGED accum

Strwaitt(e, to) ==
  /\ Begins("text", <<e>>, <<>>, to, "test")
  /\ forever' = (to = Forever)
  /\ accum' = <<>>

StrwaittRegex(r, to) ==
  /\ Begins("regex", r, <<>>, to, "test")
  /\ forever' = (to = Forever)
  /\ accum' = <<>>

\* Mutant of Strstr: what earlier waits heard is not cleared.
StrstrOnTop(tokens, to) ==
  /\ Begins("tokens", tokens, <<>>, to, "test")
  /\ forever' = FALSE
  /\ UNCHANGED accum

\* strstr knows no infinite timeout.
Strstr(tokens, to) ==
  /\ Begins("tokens", tokens, <<>>, to, "test")
  /\ forever' = FALSE
  /\ accum' = <<>>

\* find(ptr) takes the array for a C string: up to a NUL in it, or beyond its
\* end to the first NUL in what ptr[256] held before.
Binwaitt(a, rest, to) ==
  /\ Begins("array", <<a>>, CString(a \o rest), to, "test")
  /\ forever' = (to = Forever)
  /\ accum' = <<>>

WaitAny(to) ==
  /\ Begins("any", <<>>, <<>>, to, "any")
  /\ forever' = (to = Forever)
  /\ UNCHANGED accum

Gets ==
  /\ spc = "idle"
  /\ op' = "none" /\ result' = "none"
  /\ fetched' = fetched \o in /\ in' = <<>>
  /\ UNCHANGED <<spc, want, ptr, forever, left, running, accum, baccum, ret, mark>>

\* Mutant of InTime: the timeout is for ever put off.
InTimeAlways == running

InTime == (forever \/ left > 0) /\ running

\* tick_count() < expire && __alive && _notifyWaiting()==0
TestPasses ==
  /\ spc = "test"
  /\ InTime
  /\ spc' = "look"
  /\ UNCHANGED <<call, left, running, input, accum, baccum, ret, result, mark>>

TestEnds ==
  /\ spc = "test"
  /\ ~InTime \/ MayWait
  /\ spc' = "idle"
  /\ result' = IF op = "tokens" THEN "token" ELSE "failed"
  /\ UNCHANGED <<call, left, running, input, accum, baccum, ret, mark>>

\* strwaitt: append, search, trim.
LookForText ==
  /\ spc = "look"
  /\ op \in {"text", "regex"}
  /\ LET all == accum \o CString(in)
         match == IF op = "text" THEN Occurs(want[1], all) ELSE Spans(want, all)
     IN  /\ spc' = IF in # <<>> /\ match THEN "idle" ELSE "sleep"
         /\ result' = IF in # <<>> /\ match THEN "found" ELSE result
         /\ accum' = CASE in = <<>> -> accum
                       [] in # <<>> /\ match -> all
                       [] OTHER -> Trimmed(all, Size)
  /\ fetched' = fetched \o in /\ in' = <<>>
  /\ UNCHANGED <<call, left, running, baccum, ret, mark>>

\* strstr: append, search for each token in turn up to the first that is there,
\* trim to the lengths of the tokens searched for.  A match sets expire to now.
LookForTokens ==
  /\ spc = "look"
  /\ op = "tokens"
  /\ LET all == accum \o CString(in)
         first == FirstToken(all)
         tried == IF first = 0 THEN Len(want) ELSE first
     IN  IF in = <<>> THEN UNCHANGED <<accum, ret, left>>
         ELSE /\ accum' = Trimmed(all, Lengths(want, tried))
              /\ ret' = IF first = 0 THEN ret ELSE want[first]
              /\ left' = IF first = 0 THEN left ELSE 0
  /\ spc' = "sleep"
  /\ fetched' = fetched \o in /\ in' = <<>>
  /\ UNCHANGED <<call, running, baccum, result, mark>>

\* binwaitt: append to _baccum, which nothing has cleared, and search it.
LookForArray ==
  /\ spc = "look"
  /\ op = "array"
  /\ baccum' = baccum \o in
  /\ LET match == baccum' # <<>> /\ Occurs(ptr, baccum')
     IN  /\ spc' = IF match THEN "idle" ELSE "sleep"
         /\ result' = IF match THEN "found" ELSE result
  /\ fetched' = fetched \o in /\ in' = <<>>
  /\ UNCHANGED <<call, left, running, accum, ret, mark>>

\* Time goes by: one sleep at least.
TimePasses ==
  IF forever THEN UNCHANGED left
  ELSE left' \in 0..left /\ (left > 0 => left' < left)

\* After it, binwaitt trims _baccum.
TooLong == op = "array" /\ Len(baccum) > TRIMEXPECT

Sleeps ==
  /\ spc = "sleep"
  /\ ~TooLong
  /\ TimePasses
  /\ spc' = "test"
  /\ UNCHANGED <<call, running, input, accum, baccum, ret, result, mark>>

\* _accum.length()-sz is 0-sz: append throws length_error.
TrimThrows ==
  /\ spc = "sleep"
  /\ TooLong
  /\ want[1] # <<>>
  /\ spc' = "aborted"
  /\ UNCHANGED <<call, left, running, input, accum, baccum, ret, result, mark>>

TrimEmpties ==
  /\ spc = "sleep"
  /\ TooLong
  /\ want[1] = <<>>
  /\ TimePasses
  /\ baccum' = <<>>
  /\ spc' = "test"
  /\ UNCHANGED <<call, running, input, accum, ret, result, mark>>

\* any: its loop tests the queue, not the script.
AnyTests ==
  /\ spc = "any"
  /\ spc' = IF InTime /\ in = <<>> THEN "nap" ELSE "last"
  /\ UNCHANGED <<call, left, running, input, accum, baccum, ret, result, mark>>

AnySleeps ==
  /\ spc = "nap"
  /\ TimePasses
  /\ spc' = "any"
  /\ UNCHANGED <<call, running, input, accum, baccum, ret, result, mark>>

AnyEnds ==
  /\ spc = "last"
  /\ spc' = "idle"
  /\ result' = IF in = <<>> THEN "failed" ELSE "found"
  /\ UNCHANGED <<call, left, running, input, accum, baccum, ret, mark>>

-----------------------------------------------------------------------------
Calls ==
  \/ \E to \in Timeouts :
       \/ \E e \in Texts : Strwaitt(e, to)
       \/ \E r \in Regexes : StrwaittRegex(r, to)
       \/ \E tokens \in TokenLists : Strstr(tokens, to)
       \/ \E a \in Arrays, rest \in Remains : Binwaitt(a, rest, to)
       \/ WaitAny(to)
  \/ Gets

Rounds ==
  \/ TestPasses \/ TestEnds \/ LookForText \/ LookForTokens \/ LookForArray
  \/ Sleeps \/ TrimThrows \/ TrimEmpties \/ AnyTests \/ AnySleeps \/ AnyEnds

Next == Calls \/ Rounds \/ Exit \/ (\E c \in Chunks : Arrives(c))

Spec == Init /\ [][Next]_vars

\* The thread of a call runs on.
FairSpec == Spec /\ WF_vars(Rounds)

-----------------------------------------------------------------------------
(* Properties. *)

\* What the last wait has taken from the queue.
Heard == SubSeq(fetched, mark + 1, Len(fetched))

Waiting == {"test", "look", "sleep", "any", "nap", "last"}

\* strwaitt finds an expression in what arrived during the wait, whatever it
\* has trimmed away, and never one that did not arrive.  (Input without NUL.)
FoundIsHeard ==
  /\ op = "text" /\ result = "found" => Occurs(want[1], Heard)
  /\ op = "regex" /\ result = "found" => Spans(want, Heard)

\* When strwaitt gives up, the expression was in nothing it took from the
\* queue: neither a chunk boundary nor the trimming can hide it.  (Input
\* without NUL.)
FailedIsUnheard ==
  op = "text" /\ result = "failed" => ~Occurs(want[1], Heard)

\* The text buffer() shows is the end of what the wait took.  (Input without
\* NUL.)
AccumIsHeard ==
  op \in {"text", "regex", "tokens"} => IsSuffix(accum, Heard)

\* A strstr that took one of its tokens from the queue names one that it took,
\* whatever the boundaries of the chunks, the trimming and the accumulator and
\* result of an earlier wait.  One that took none may name an earlier one's: ret
\* is static.  (Input without NUL.)
TokenIsNamed ==
  result = "token" /\ (\E i \in DOMAIN want : Occurs(want[i], Heard)) =>
    (\E i \in DOMAIN want : ret = want[i]) /\ Occurs(ret, Heard)

\* Every wait with a timeout ends.
TimedWaitEnds == (spc \in Waiting /\ ~forever) ~> spc \notin Waiting

\* A wait without one ends when its expression has arrived.  (Input without
\* NUL.)
ForeverFinds ==
  (spc \in Waiting /\ op = "text" /\ Occurs(want[1], Heard \o in)) ~> spc = "idle"
=============================================================================
