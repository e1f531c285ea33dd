----------------------------- MODULE SerialPort -----------------------------
(***************************************************************************)
(* The serial ports of one process (autocom_src/serialport.cpp, Linux), as *)
(* the Devices of a script open, use and close them: the descriptor table  *)
(* they share, the lock on each line, and the number each keeps in _port.  *)
(*                                                                         *)
(* A step is one system call, or one test or assignment of _port.  Each    *)
(* Device has its IO thread; one thread runs the script, which constructs, *)
(* closes and deletes Devices one at a time.  What goes over a line is in  *)
(* DeviceIo.                                                               *)
(***************************************************************************)
EXTENDS Integers, FiniteSetsExt, Functions

CONSTANTS
  Ports,     \* the Devices a script makes, each with its SerialPort
  Lines,     \* device files
  LineOf,    \* the one that each opens
  Shared,    \* lines another process uses too
  MaxFd,     \* bound: descriptors 0..MaxFd, of which 0 is the terminal's
  Script,    \* the script thread
  Std,       \* what descriptor 0 is at first
  Free,      \* no file, no lock
  Other,     \* another process
  Faults     \* what may fail: a subset of FaultKinds

FaultKinds == {"mode", "open", "getattr", "setattr", "modem", "write"}

ASSUME PortsAssumption ==
  /\ LineOf \in [Ports -> Lines]
  /\ Shared \subseteq Lines
  /\ MaxFd \in Nat
  /\ Faults \subseteq FaultKinds
  /\ Script \notin Ports
  /\ Std \notin Ports \cup {Free}
  /\ Free \notin Ports \cup {Other}
  /\ Other \notin Ports

Fds == 0..MaxFd
Threads == Ports \cup {Script}

VARIABLES
  table,     \* what each descriptor refers to: a port means the file it opened
  lock,      \* whose open file has flock'ed each line
  port,      \* _port of each
  at,        \* where each thread is: an IO thread goes by the name of its port
  dev,       \* the port the script thread works on
  why,       \* the script's reason to close it
  cancall,   \* ports that have been opened
  alive,     \* ports of Devices that are not being deleted
  failed     \* history: ports whose IO thread gave them up on its own, after a
             \* failed write or a mode that does not exist

vars == <<table, lock, port, at, dev, why, cancall, alive, failed>>
kernel == <<table, lock>>
script == <<dev, why>>
flags == <<cancall, alive, failed>>

IoPcs ==
  { "none",                           \* no such Device yet
    "mode", "open", "lock",           \* OpenComport
    "settings", "getattr_unlock", "setattr_unlock", "setattr_reset",
    "loop", "poll",                   \* thread_main's loop, and its middle
    "send", "receive",                \* past isOpen, in SendBuf or Read
    "end",                            \* thread_main's last test of the port
    "gone" }                          \* the Device is deleted

ScriptPcs == { "idle", "constructing", "killing", "deleting" }

ClosePcs ==
  { "test",                           \* SerialComm::close
    "close", "unlock", "reset" }      \* CloseComport

Pcs == IoPcs \cup ScriptPcs \cup ClosePcs \cup {"ended"}

On(t) == IF t = Script THEN dev ELSE t

Holds(p) == \E fd \in Fds : table[fd] = p

-----------------------------------------------------------------------------
(* The system calls. *)

FreeFds == {fd \in Fds : table[fd] = Free}

\* close(fd): with the file goes its lock.
CloseFd(fd) ==
  IF fd \in Fds
  THEN /\ table' = [table EXCEPT ![fd] = Free]
       /\ lock' = [l \in Lines |-> IF lock[l] = table[fd] THEN Free ELSE lock[l]]
  ELSE UNCHANGED kernel

\* flock(fd, LOCK_UN)
UnlockFd(fd) ==
  /\ lock' = IF fd \in Fds
             THEN [l \in Lines |-> IF lock[l] = table[fd] THEN Free ELSE lock[l]]
             ELSE lock
  /\ UNCHANGED table

-----------------------------------------------------------------------------
Init ==
  /\ table = [fd \in Fds |-> IF fd = 0 THEN Std ELSE Free]
  /\ lock = [l \in Lines |-> Free]
  /\ port = [p \in Ports |-> -1]
  /\ at = [t \in Threads |-> IF t = Script THEN "idle" ELSE "none"]
  /\ dev \in Ports
  /\ why = "close"
  /\ cancall = {} /\ alive = {} /\ failed = {}

Goes(t, from, to) == at[t] = from /\ at' = [at EXCEPT ![t] = to]

(* The script. *)

\* Device::Device starts the IO thread.
Constructs(p) ==
  /\ at[Script] = "idle" /\ at[p] = "none"
  /\ at' = [at EXCEPT ![Script] = "constructing", ![p] = "mode"]
  /\ dev' = p
  /\ alive' = alive \cup {p}
  /\ UNCHANGED <<kernel, port, why, cancall, failed>>

Constructed ==
  /\ Goes(Script, "constructing", "idle")
  /\ dev \in cancall
  /\ UNCHANGED <<kernel, port, script, flags>>

Constructible == {p \in cancall : at[p] # "gone"}

Closes(p) ==
  /\ p \in Constructible
  /\ Goes(Script, "idle", "test")
  /\ dev' = p /\ why' = "close"
  /\ UNCHANGED <<kernel, port, flags>>

Deletes(p) ==
  /\ p \in Constructible
  /\ Goes(Script, "idle", "test")
  /\ dev' = p /\ why' = "delete"
  /\ UNCHANGED <<kernel, port, flags>>

\* ~Device: _alive = false.
Kills ==
  /\ Goes(Script, "killing", "deleting")
  /\ alive' = alive \ {dev}
  /\ UNCHANGED <<kernel, port, script, cancall, failed>>

\* ~Device waits for _ended and deletes _pc, whose destructor closes again.
SeesEnded ==
  /\ Goes(Script, "deleting", "test")
  /\ at[dev] = "ended"
  /\ why' = "comm"
  /\ UNCHANGED <<kernel, port, dev, flags>>

(* Closing, by the script or by an IO thread. *)

\* Where a thread goes on, and with which reason, after SerialComm::close, and
\* after ~SerialPort ("port").
After(t) ==
  IF t # Script
  THEN at' = [at EXCEPT ![t] = "end"] /\ UNCHANGED why
  ELSE /\ at' = CASE why = "close"  -> [at EXCEPT ![t] = "idle"]
                  [] why = "delete" -> [at EXCEPT ![t] = "killing"]
                  [] why = "comm"   -> [at EXCEPT ![t] = "close"]
                  [] why = "port"   -> [at EXCEPT ![t] = "idle", ![dev] = "gone"]
       /\ why' = IF why = "comm" THEN "port" ELSE "close"

\* if(_device._port!=0)
Tests(t) ==
  /\ at[t] = "test"
  /\ IF port[On(t)] # 0
     THEN at' = [at EXCEPT ![t] = "close"] /\ UNCHANGED why
     ELSE After(t)
  /\ UNCHANGED <<kernel, port, dev, flags>>

ClosesFile(t) ==
  /\ Goes(t, "close", "unlock")
  /\ CloseFd(port[On(t)])
  /\ UNCHANGED <<port, script, flags>>

Unlocks(t) ==
  /\ Goes(t, "unlock", "reset")
  /\ UnlockFd(port[On(t)])
  /\ UNCHANGED <<port, script, flags>>

Resets(t) ==
  /\ at[t] = "reset"
  /\ port' = [port EXCEPT ![On(t)] = 0]
  /\ After(t)
  /\ UNCHANGED <<kernel, dev, flags>>

(* The IO thread: OpenComport. *)

\* No such speed or mode: _port keeps whatever the memory held.
ModeFails(p) ==
  /\ "mode" \in Faults
  /\ Goes(p, "mode", "end")
  /\ \E n \in Fds \cup {-1} : port' = [port EXCEPT ![p] = n]
  /\ failed' = failed \cup {p}
  /\ UNCHANGED <<kernel, script, cancall, alive>>

ModeIsValid(p) ==
  /\ Goes(p, "mode", "open")
  /\ UNCHANGED <<kernel, port, script, flags>>

\* The system gives the lowest free number.
Opens(p) ==
  /\ FreeFds # {}
  /\ Goes(p, "open", "lock")
  /\ table' = [table EXCEPT ![Min(FreeFds)] = p]
  /\ port' = [port EXCEPT ![p] = Min(FreeFds)]
  /\ UNCHANGED <<lock, script, flags>>

OpenFails(p) ==
  /\ "open" \in Faults \/ FreeFds = {}
  /\ Goes(p, "open", "end")
  /\ port' = [port EXCEPT ![p] = -1]
  /\ UNCHANGED <<kernel, script, flags>>

\* Mutant of Locks: whoever holds it.
LocksAnyway(p) ==
  /\ Goes(p, "lock", "settings")
  /\ lock' = IF lock[LineOf[p]] = Free THEN [lock EXCEPT ![LineOf[p]] = p] ELSE lock
  /\ UNCHANGED <<table, port, script, flags>>

Locks(p) ==
  /\ lock[LineOf[p]] = Free
  /\ Goes(p, "lock", "settings")
  /\ lock' = [lock EXCEPT ![LineOf[p]] = p]
  /\ UNCHANGED <<table, port, script, flags>>

LockFails(p) ==
  /\ lock[LineOf[p]] # Free
  /\ Goes(p, "lock", "end")
  /\ CloseFd(port[p])
  /\ UNCHANGED <<port, script, flags>>

\* Mutant of SettingsFail: nothing is closed.
SettingsFailOpen(p) ==
  /\ \/ "getattr" \in Faults /\ Goes(p, "settings", "getattr_unlock")
     \/ "setattr" \in Faults /\ Goes(p, "settings", "setattr_unlock")
  /\ UNCHANGED <<kernel, port, script, flags>>

\* tcgetattr or tcsetattr fails: close, then flock on the closed number, and
\* after tcsetattr _port = 0.
SettingsFail(p) ==
  /\ \/ "getattr" \in Faults /\ Goes(p, "settings", "getattr_unlock")
     \/ "setattr" \in Faults /\ Goes(p, "settings", "setattr_unlock")
  /\ CloseFd(port[p])
  /\ UNCHANGED <<port, script, flags>>

UnlocksClosed(p) ==
  /\ \/ Goes(p, "getattr_unlock", "end")
     \/ Goes(p, "setattr_unlock", "setattr_reset")
  /\ UnlockFd(port[p])
  /\ UNCHANGED <<port, script, flags>>

ResetsClosed(p) ==
  /\ Goes(p, "setattr_reset", "end")
  /\ port' = [port EXCEPT ![p] = 0]
  /\ UNCHANGED <<kernel, script, flags>>

\* An ioctl on the modem lines fails: the file stays open without its lock.
ModemFails(p) ==
  /\ "modem" \in Faults
  /\ Goes(p, "settings", "end")
  /\ UnlockFd(port[p])
  /\ UNCHANGED <<port, script, flags>>

\* OpenComport returns 0, and _cancall = true.
Opened(p) ==
  /\ Goes(p, "settings", "loop")
  /\ cancall' = cancall \cup {p}
  /\ UNCHANGED <<kernel, port, script, alive, failed>>

(* The IO thread: thread_main's loop. *)

IsOpen(p) == port[p] > 0

LoopEnds(p) ==
  /\ p \notin alive
  /\ Goes(p, "loop", "test")
  /\ UNCHANGED <<kernel, port, script, flags>>

NothingToSend(p) ==
  /\ p \in alive
  /\ Goes(p, "loop", "poll")
  /\ UNCHANGED <<kernel, port, script, flags>>

SendTo(p) ==
  /\ p \in alive
  /\ Goes(p, "loop", IF IsOpen(p) THEN "send" ELSE "end")
  /\ UNCHANGED <<kernel, port, script, flags>>

SendBuf(p) ==
  /\ \/ Goes(p, "send", "poll") /\ UNCHANGED failed
     \/ "write" \in Faults /\ Goes(p, "send", "end") /\ failed' = failed \cup {p}
  /\ UNCHANGED <<kernel, port, script, cancall, alive>>

RecFrom(p) ==
  /\ Goes(p, "poll", IF IsOpen(p) THEN "receive" ELSE "end")
  /\ UNCHANGED <<kernel, port, script, flags>>

Read(p) ==
  /\ Goes(p, "receive", "loop")
  /\ UNCHANGED <<kernel, port, script, flags>>

\* if(_pc->isOpen()) _pc->close(), and _ended = true.
EndTests(p) ==
  /\ Goes(p, "end", IF IsOpen(p) THEN "test" ELSE "ended")
  /\ UNCHANGED <<kernel, port, script, flags>>

(* Another process, which opens and closes lines as it should. *)
OtherLocks(l) ==
  /\ lock[l] = Free
  /\ lock' = [lock EXCEPT ![l] = Other]
  /\ UNCHANGED <<table, port, at, script, flags>>

OtherUnlocks(l) ==
  /\ lock[l] = Other
  /\ lock' = [lock EXCEPT ![l] = Free]
  /\ UNCHANGED <<table, port, at, script, flags>>

-----------------------------------------------------------------------------
Scripts == Constructed \/ Kills \/ SeesEnded
           \/ \E p \in Ports : Constructs(p) \/ Closes(p) \/ Deletes(p)

CloseComport(t) == Tests(t) \/ ClosesFile(t) \/ Unlocks(t) \/ Resets(t)

OpenComport(p) ==
  \/ ModeFails(p) \/ ModeIsValid(p) \/ Opens(p) \/ OpenFails(p) \/ Locks(p)
  \/ LockFails(p) \/ SettingsFail(p) \/ UnlocksClosed(p) \/ ResetsClosed(p)
  \/ ModemFails(p) \/ Opened(p)

Loop(p) ==
  \/ LoopEnds(p) \/ NothingToSend(p) \/ SendTo(p) \/ SendBuf(p)
  \/ RecFrom(p) \/ Read(p) \/ EndTests(p)

Next ==
  \/ Scripts
  \/ \E t \in Threads : CloseComport(t)
  \/ \E p \in Ports : OpenComport(p) \/ Loop(p)
  \/ \E l \in Shared : OtherLocks(l) \/ OtherUnlocks(l)

Spec == Init /\ [][Next]_vars

-----------------------------------------------------------------------------
(* Properties. *)

\* The types of the variables.
TypeOK ==
  /\ table \in [Fds -> Ports \cup {Std, Free}]
  /\ lock \in [Lines -> Ports \cup {Free, Other}]
  /\ port \in [Ports -> Fds \cup {-1}]
  /\ at \in [Threads -> Pcs]
  /\ dev \in Ports
  /\ why \in {"close", "delete", "comm", "port"}
  /\ cancall \subseteq Ports /\ alive \subseteq Ports /\ failed \subseteq Ports

\* The port is in use: open, by its own test and its own thread, and nobody is
\* on the way to close it.
InUse(p) ==
  /\ at[p] \in {"loop", "poll", "send", "receive"}
  /\ IsOpen(p)
  /\ ~(dev = p /\ at[Script] \in {"unlock", "reset"})

\* What a port in use reads and writes is the file it opened, and its line is
\* locked for it, whatever the script does with its other Devices (SendBuf, Read
\* and CloseComport go by the number): unless an IO thread gave its port up on
\* its own.
OwnFile == failed = {} => \A p \in Ports :
  InUse(p) => table[port[p]] = p /\ lock[LineOf[p]] = p

\* No Device whose thread has ended keeps a descriptor open or a line locked, on
\* whichever path its opening or its loop ended, but for descriptor 0, which
\* isOpen() takes for none and which goes when the Device is deleted: unless,
\* again, an IO thread gave its port up on its own.
NoLeak == failed = {} => \A p \in Ports :
  /\ at[p] = "ended" => table[0] = p \/ (~Holds(p) /\ lock[LineOf[p]] # p)
  /\ at[p] = "gone" => ~Holds(p) /\ lock[LineOf[p]] # p

\* Why they hold, where no IO thread has given its port up on its own.  Only
\* the port being constructed is opened or may fail to be, and the script waits
\* for it; every other is in its loop, or out of it because it was closed.
OpenPcs == { "mode", "open", "lock", "settings", "getattr_unlock",
             "setattr_unlock", "setattr_reset" }
LoopPcs == {"loop", "poll", "send", "receive"}
OutPcs == {"end", "test", "ended", "gone"}

UnopenedPlace(p) ==
  /\ at[p] \in OpenPcs \cup ClosePcs \cup {"none", "end", "ended"}
  /\ at[p] = "none" \/ (at[Script] = "constructing" /\ dev = p /\ p \in alive)
  /\ at[p] \in ClosePcs => port[p] > 0
  /\ at[p] = "ended" => port[p] =< 0

OpenedPlace(p) ==
  /\ at[p] \in LoopPcs \cup OutPcs
  /\ port[p] \in Fds
  /\ at[p] \in OutPcs \/ p \notin alive => port[p] = 0

\* The script: after the close of a deletion, _port is 0 and the second one
\* closes descriptor 0.
ScriptPlace ==
  /\ at[Script] \in ScriptPcs \cup ClosePcs
  /\ at[Script] \notin {"idle", "constructing"} => dev \in cancall /\ at[dev] # "gone"
  /\ at[Script] \in {"killing", "deleting"} => port[dev] = 0
  /\ at[Script] = "test" =>
       why \in {"close", "delete"} \/ (why = "comm" /\ port[dev] = 0 /\ at[dev] = "ended")
  /\ at[Script] \in {"close", "unlock", "reset"} =>
       \/ why \in {"close", "delete"} /\ port[dev] > 0
       \/ why = "port" /\ port[dev] = 0 /\ at[dev] = "ended"

Places ==
  /\ \A p \in Ports \ cancall : UnopenedPlace(p)
  /\ \A p \in cancall : OpenedPlace(p)
  /\ ScriptPlace

\* Who has closed its file and not yet forgotten its number.
Closed(p) ==
  \/ at[p] \in {"none", "mode", "open", "getattr_unlock", "setattr_unlock",
                "setattr_reset", "unlock", "reset", "gone"}
  \/ dev = p /\ at[Script] \in {"unlock", "reset"}

\* A descriptor's file is known by its number, and to its port only.
FilesKnown == \A fd \in Fds, p \in Ports :
  table[fd] = p => port[p] = fd /\ ~Closed(p)

LocksKnown == \A l \in Lines, p \in Ports :
  lock[l] = p => l = LineOf[p] /\ port[p] \in Fds /\ table[port[p]] = p

OpenedFile(p) ==
  port[p] > 0 /\ ~Closed(p) => table[port[p]] = p /\ lock[LineOf[p]] = p

UnopenedFile(p) ==
  /\ at[p] \in {"lock", "settings"} => port[p] \in Fds /\ table[port[p]] = p
  /\ at[p] = "settings" => lock[LineOf[p]] = p
  /\ at[p] \in {"end", "test", "close"} /\ port[p] > 0 => table[port[p]] \in {p, Free}
  /\ at[p] \in {"getattr_unlock", "setattr_unlock", "unlock"} =>
       port[p] \in Fds /\ table[port[p]] = Free

Files ==
  /\ FilesKnown
  /\ LocksKnown
  /\ \A p \in cancall : OpenedFile(p)
  /\ \A p \in Ports \ cancall : UnopenedFile(p)
  /\ at[Script] = "unlock" => table[port[dev]] = Free

PortInv == TypeOK /\ (failed = {} => Places /\ Files)

\* A port that OpenComport opened is open to isOpen() until it is closed.
OpenedIsOpen == \A p \in Ports :
  at[p] \in {"loop", "poll"} /\ Holds(p) => IsOpen(p)
=============================================================================
