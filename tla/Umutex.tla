------------------------------- MODULE Umutex -------------------------------
(***************************************************************************)
(* umutex on Linux: a recursive pthread mutex, as the values it can have   *)
(* and what its two calls make of them.  AutoLock is a call of mlock at    *)
(* the beginning of a block and one of munlock at its end, which is also   *)
(* reached by an exception.                                                *)
(***************************************************************************)
EXTENDS Integers

CONSTANT NoThread

Free == [owner |-> NoThread, count |-> 0]

\* the Windows mlock: with _inout set it returns 1 at once, and nobody looks
CanLockWindows(m, t) == TRUE

\* pthread_mutex_lock waits for another thread, never for its own
CanLock(m, t) == m.owner \in {NoThread, t}

Locked(m, t) == [owner |-> t, count |-> m.count + 1]

\* pthread_mutex_unlock: of another's mutex, EPERM
Unlocked(m, t) ==
  IF m.owner # t THEN m
  ELSE IF m.count = 1 THEN Free
  ELSE [m EXCEPT !.count = @ - 1]
=============================================================================
