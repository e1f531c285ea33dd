------------------------------- MODULE IoData -------------------------------
(***************************************************************************)
(* IoData, the two byte queues between the script's thread and the IO      *)
(* thread of a Device, down to the reads and writes of the strings: what   *)
(* its mutex is for.  The other modules take each of its calls as one      *)
(* step; this one shows that they may.                                     *)
(*                                                                         *)
(* std::string::append reads the length and the buffer and then writes     *)
(* both: two steps.  Any number of threads may call, in any order.         *)
(***************************************************************************)
EXTENDS Umutex, Sequences

CONSTANTS
  Threads,
  Bytes,
  Messages,     \* sequences of bytes: what the calls put
  MaxBytes      \* bound: bytes in a queue when a call that puts begins

ASSUME IoDataAssumption ==
  /\ NoThread \notin Threads
  /\ \A s \in Messages : s \in Seq(Bytes)
  /\ MaxBytes \in Nat

Queues == {"in", "out"}
Ops == {"put", "get", "has", "len"}
Inside == {"append", "store", "test", "clear", "look", "unlock"}

VARIABLES
  tmut,
  queue,     \* _in and _out
  pc,        \* where each thread is: "idle", "lock" or Inside
  call,      \* its call: the operation, the queue and the bytes it puts
  tmp,       \* the string as the thread has read it
  got        \* what its last call that reads has found

vars == <<tmut, queue, pc, call, tmp, got>>

NoCall == [op |-> "has", q |-> "in", bytes |-> <<>>]

Init ==
  /\ tmut = Free
  /\ queue = [q \in Queues |-> <<>>]
  /\ pc = [t \in Threads |-> "idle"]
  /\ call = [t \in Threads |-> NoCall]
  /\ tmp = [t \in Threads |-> <<>>]
  /\ got = [t \in Threads |-> <<>>]

At(t, step) == pc[t] = step
Goes(t, step) == pc' = [pc EXCEPT ![t] = step]

Calls(t, op, q, s) ==
  /\ At(t, "idle")
  /\ op = "put" => Len(queue[q]) < MaxBytes
  /\ call' = [call EXCEPT ![t] = [op |-> op, q |-> q, bytes |-> s]]
  /\ Goes(t, "lock")
  /\ UNCHANGED <<tmut, queue, tmp, got>>

FirstStep == [put |-> "append", get |-> "test", has |-> "look", len |-> "look"]

\* AutoLock l(&_tmut)
Locks(t) ==
  /\ At(t, "lock")
  /\ CanLock(tmut, t)
  /\ tmut' = Locked(tmut, t)
  /\ Goes(t, FirstStep[call[t].op])
  /\ UNCHANGED <<queue, call, tmp, got>>

\* putIn and putOut
Appends(t) ==
  /\ At(t, "append")
  /\ tmp' = [tmp EXCEPT ![t] = queue[call[t].q]]
  /\ Goes(t, "store")
  /\ UNCHANGED <<tmut, queue, call, got>>

Stores(t) ==
  /\ At(t, "store")
  /\ queue' = [queue EXCEPT ![call[t].q] = tmp[t] \o call[t].bytes]
  /\ Goes(t, "unlock")
  /\ UNCHANGED <<tmut, call, tmp, got>>

\* getIn and getOut
TestEmpty(t) ==
  /\ At(t, "test")
  /\ queue[call[t].q] = <<>>
  /\ got' = [got EXCEPT ![t] = <<>>]
  /\ Goes(t, "unlock")
  /\ UNCHANGED <<tmut, queue, call, tmp>>

TestCopies(t) ==
  /\ At(t, "test")
  /\ queue[call[t].q] # <<>>
  /\ tmp' = [tmp EXCEPT ![t] = queue[call[t].q]]
  /\ Goes(t, "clear")
  /\ UNCHANGED <<tmut, queue, call, got>>

ClearKeeps(t) ==
  /\ At(t, "clear")
  /\ got' = [got EXCEPT ![t] = tmp[t]]
  /\ Goes(t, "unlock")
  /\ UNCHANGED <<tmut, queue, call, tmp>>

Clears(t) ==
  /\ At(t, "clear")
  /\ queue' = [queue EXCEPT ![call[t].q] = <<>>]
  /\ got' = [got EXCEPT ![t] = tmp[t]]
  /\ Goes(t, "unlock")
  /\ UNCHANGED <<tmut, call, tmp>>

\* hasInput and hasOutput return !empty(); inLen and outLen !length(), which
\* is the opposite, and the same as empty()
Looks(t) ==
  /\ At(t, "look")
  /\ got' = [got EXCEPT ![t] = <<queue[call[t].q] = <<>> >>]
  /\ Goes(t, "unlock")
  /\ UNCHANGED <<tmut, queue, call, tmp>>

Unlocks(t) ==
  /\ At(t, "unlock")
  /\ tmut' = Unlocked(tmut, t)
  /\ Goes(t, "idle")
  /\ call' = [call EXCEPT ![t] = NoCall]
  /\ tmp' = [tmp EXCEPT ![t] = <<>>]
  /\ UNCHANGED <<queue, got>>

Steps(t) ==
  \/ Locks(t) \/ Appends(t) \/ Stores(t) \/ TestEmpty(t) \/ TestCopies(t)
  \/ Clears(t) \/ Looks(t) \/ Unlocks(t)

Next ==
  \E t \in Threads :
    \/ \E q \in Queues, s \in Messages : Calls(t, "put", q, s)
    \/ \E op \in Ops \ {"put"}, q \in Queues : Calls(t, op, q, <<>>)
    \/ Steps(t)

Spec == Init /\ [][Next]_vars

----------------------------------------------------------------------------
(* Properties *)

IoTypeOK ==
  /\ tmut \in [owner : Threads \union {NoThread}, count : Nat]
  /\ queue \in [Queues -> Seq(Bytes)]
  /\ pc \in [Threads -> Inside \union {"idle", "lock"}]
  /\ call \in [Threads -> [op : Ops, q : Queues, bytes : Seq(Bytes)]]
  /\ tmp \in [Threads -> Seq(Bytes)]

(* Between its lock and its unlock a thread owns the mutex, once, so that  *)
(* no other is between them.                                               *)
OneInside ==
  /\ \A t \in Threads :
       pc[t] \in Inside <=> tmut = [owner |-> t, count |-> 1]
  /\ tmut = Free \/ \E t \in Threads : tmut = [owner |-> t, count |-> 1]

(* What a thread has read is still what is in the queue when it writes.    *)
ReadIsCurrent ==
  \A t \in Threads : pc[t] \in {"store", "clear"} => tmp[t] = queue[call[t].q]

PutsAMessage ==
  \A t \in Threads :
    /\ pc[t] \in {"append", "store"} => call[t].op = "put"
    /\ call[t].op = "put" => call[t].bytes \in Messages

IoInv == IoTypeOK /\ OneInside /\ ReadIsCurrent /\ PutsAMessage

(* The calls of IoData take effect at once: with what one thread appends   *)
(* nothing is lost that another has appended, and what one takes no other  *)
(* takes again.                                                            *)
Atomic == INSTANCE ByteQueues WITH content <- queue, answer <- got
AtomicQueues == Atomic!Spec
=============================================================================
