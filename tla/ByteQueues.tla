----------------------------- MODULE ByteQueues -----------------------------
(***************************************************************************)
(* What the two byte queues of a Device promise to the threads that use    *)
(* them: a call takes effect at once, whatever other calls are under way.  *)
(***************************************************************************)
EXTENDS Sequences

CONSTANTS Threads, Queues, Messages

VARIABLES
  content,    \* of each queue
  answer      \* what the thread's last call that reads has found

vars == <<content, answer>>

Init ==
  /\ content = [q \in Queues |-> <<>>]
  /\ answer = [t \in Threads |-> <<>>]

Put(q, s) ==
  /\ content' = [content EXCEPT ![q] = @ \o s]
  /\ UNCHANGED answer

\* everything there is, which leaves the queue empty
Take(t, q) ==
  /\ answer' = [answer EXCEPT ![t] = content[q]]
  /\ content' = [content EXCEPT ![q] = <<>>]

IsEmpty(t, q) ==
  /\ answer' = [answer EXCEPT ![t] = <<content[q] = <<>> >>]
  /\ UNCHANGED content

Next ==
  \E q \in Queues :
    \/ \E s \in Messages : Put(q, s)
    \/ \E t \in Threads : Take(t, q) \/ IsEmpty(t, q)

Spec == Init /\ [][Next]_vars
=============================================================================
