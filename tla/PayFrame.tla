------------------------------ MODULE PayFrame ------------------------------
(***************************************************************************)
(* The messages of the payment terminal: how the script payutil builds one *)
(* and how the script include reads the answer, of which only the          *)
(* beginning may have come when it looks.                                  *)
(*                                                                         *)
(* The terminal answers with messages of the same form (STX, length,       *)
(* version, command, error, body, LRC); indices are the script's plus one. *)
(***************************************************************************)
EXTENDS Integers, SequencesExt

CONSTANTS
  Commands,     \* the command byte of an answer, or the one expected
  Errors,       \* the error byte of an answer
  Bodies,       \* sequences of bytes, whose length fits into two
  MaxRead       \* bound: what has come when the script looks

Octet == 0 .. 255

ASSUME PayFrameAssumption ==
  /\ Commands \union Errors \subseteq Octet
  /\ \A b \in Bodies : b \in Seq(Octet) /\ Len(b) < 65531
  /\ MaxRead \in Nat

VARIABLES
  sent,        \* the answer: its frame, and what it was built from
  read         \* how much of it had come, what was expected, what was made of it

pvars == <<sent, read>>

STX == 2
VERSION == 16
CMD_IDX == 4 + 1
ERR_IDX == 5 + 1

\* the exclusive or of the bytes: a bit is in it if an odd number of them
\* have it
calcLrc(message) ==
  LET lrc(bit) ==
        Cardinality({i \in DOMAIN message : (message[i] \div bit) % 2 = 1}) % 2
  IN  lrc(1) + 2 * lrc(2) + 4 * lrc(4) + 8 * lrc(8)
        + 16 * lrc(16) + 32 * lrc(32) + 64 * lrc(64) + 128 * lrc(128)

Header(length, command, error) ==
  <<length \div 256, length % 256, VERSION, command, error>>

\* the LRC taken before the length is known
getHdrLrcFirst(command, error, body) ==
  LET message == Header(5 + Len(body), command, error) \o body
  IN  <<STX>> \o message \o <<calcLrc(Header(0, command, error) \o body)>>

\* getHdr; a request has error 0
getHdr(command, error, body) ==
  LET message == Header(5 + Len(body), command, error) \o body
  IN  <<STX>> \o message \o <<calcLrc(message)>>

\* payutil takes the command and the error of what came one place before
\* those of enquire, as if there were no STX.
getCommand(message) == IF Len(message) > 3 THEN message[3 + 1] ELSE 0
getError(message) == IF Len(message) > 4 THEN message[4 + 1] ELSE 0

\* what enquire prints as the length of the message
GotLen(out) == 256 * out[2] + out[3]

\* Mutant of enquire: it looks where payutil does.
enquireByPayutil(out, response) ==
  IF Len(out) < 5 THEN "too short"
  ELSE IF getCommand(out) # response THEN "refused"
  ELSE IF getError(out) \in {0, 255} THEN "done" ELSE "error"

\* What enquire makes of the bytes that have come: with less than five it
\* says nothing, with five the index ERR_IDX is out of range and it throws.
enquire(out, response) ==
  IF Len(out) < 5 THEN "too short"
  ELSE IF Len(out) < ERR_IDX THEN "throws"
  ELSE IF out[CMD_IDX] # response THEN "refused"
  ELSE IF out[ERR_IDX] \in {0, 255} THEN "done" ELSE "error"

----------------------------------------------------------------------------
Unread == [len |-> 0, response |-> 0, outcome |-> "too short"]

PInit ==
  /\ sent = [frame |-> <<>>, command |-> 0, error |-> 0, body |-> <<>>]
  /\ read = Unread

\* the terminal answers the next request
Answers ==
  /\ \E c \in Commands, e \in Errors, b \in Bodies :
       sent' = [frame |-> getHdr(c, e, b), command |-> c, error |-> e, body |-> b]
  /\ read' = Unread

\* the script looks at what has come, as soon as there is something
Reads ==
  /\ read = Unread
  /\ \E n \in 1 .. Min({Len(sent.frame), MaxRead}), r \in Commands :
       read' = [len |-> n, response |-> r,
                outcome |-> enquire(SubSeq(sent.frame, 1, n), r)]
  /\ UNCHANGED sent

PNext == Answers \/ Reads
PSpec == PInit /\ [][PNext]_pvars

----------------------------------------------------------------------------
(* A message says what enquire needs, whatever its length: the length that *)
(* getHdr puts in is the one enquire takes out, and tells where the body   *)
(* and the message end; the LRC covers all of it after the STX.  (Both     *)
(* have its high byte first; a comment of include has the low one first.)  *)
FrameIsSound ==
  sent.frame # <<>> =>
    LET f      == sent.frame
        length == GotLen(f)
    IN  /\ Len(f) = length + 2
        /\ f[5] = sent.command /\ f[6] = sent.error
        /\ SubSeq(f, 7, length + 1) = sent.body
        /\ calcLrc(Tail(f)) = 0

(* However much of the answer has come, enquire never takes it for another *)
(* one: it is done only with the command that was expected and the error   *)
(* byte of success, and gives up only when these two have not come.  (With *)
(* exactly five bytes it throws, where it means to judge them.)            *)
AnswerIsRead ==
  /\ read.outcome = "done" =>
       sent.command = read.response /\ sent.error \in {0, 255}
  /\ read.len >= 6 =>
       read.outcome = IF sent.command # read.response THEN "refused"
                      ELSE IF sent.error \in {0, 255} THEN "done" ELSE "error"

(* The two ends of a payment agree, on what is sent and on what is read:   *)
(* what getHdr builds and what enquire takes apart.                        *)
FramesAgree == FrameIsSound /\ AnswerIsRead
=============================================================================
