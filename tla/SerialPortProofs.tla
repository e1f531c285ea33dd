-------------------------- MODULE SerialPortProofs --------------------------
(***************************************************************************)
(* For any number of ports, lines and descriptors: what keeps a port in    *)
(* use on its own file, and leaves none open behind a thread that ended.   *)
(***************************************************************************)
EXTENDS SerialPort, WellFoundedInduction, TLAPS

USE PortsAssumption

\* The lowest free number is a free one.
LEMMA MinIsFree ==
  ASSUME FreeFds # {}
  PROVE  Min(FreeFds) \in FreeFds
<1>1. FreeFds \subseteq Nat
  BY DEF FreeFds, Fds
<1>2. PICK x \in FreeFds : \A y \in FreeFds : <<y, x>> \notin OpToRel(<, Nat)
  BY <1>1, NatLessThanWellFounded, WFMin, Zenon
<1>3. \A y \in FreeFds : x =< y
  <2>1. SUFFICES ASSUME NEW y \in FreeFds, ~(x =< y) PROVE FALSE
    OBVIOUS
  <2>2. y < x /\ x \in Nat /\ y \in Nat
    BY <1>1, <2>1
  <2>3. <<y, x>> \in OpToRel(<, Nat)
    BY <2>2 DEF OpToRel
  <2> QED
    BY <1>2, <2>3
<1> QED
  BY <1>3 DEF Min

\* Both kinds of thread work on a port.
LEMMA PcTypes ==
  ASSUME TypeOK
  PROVE  /\ Ports \subseteq Threads /\ Script \in Threads
         /\ \A t \in Threads : On(t) \in Ports
BY DEF TypeOK, On, Threads

\* close() and flock(), with whatever number.
LEMMA CloseFdTypes ==
  ASSUME TypeOK, NEW fd, CloseFd(fd)
  PROVE  /\ table' \in [Fds -> Ports \cup {Std, Free}]
         /\ lock' \in [Lines -> Ports \cup {Free, Other}]
BY SMTT(30) DEF CloseFd, TypeOK, kernel

LEMMA UnlockFdTypes ==
  ASSUME TypeOK, NEW fd, UnlockFd(fd)
  PROVE  /\ table' \in [Fds -> Ports \cup {Std, Free}]
         /\ lock' \in [Lines -> Ports \cup {Free, Other}]
BY SMTT(30) DEF UnlockFd, TypeOK

\* The way on from SerialComm::close.
LEMMA AfterTypes ==
  ASSUME TypeOK, NEW t \in Threads, After(t)
  PROVE  /\ at' \in [Threads -> Pcs]
         /\ why' \in {"close", "delete", "comm", "port"}
BY SMTT(30), PcTypes DEF After, TypeOK, Pcs, IoPcs, ScriptPcs, ClosePcs

-----------------------------------------------------------------------------
\* Every step keeps the types.
LEMMA TypeStep == TypeOK /\ [Next]_vars => TypeOK'
<1> SUFFICES ASSUME TypeOK, [Next]_vars PROVE TypeOK'
  OBVIOUS
<1> USE PcTypes
<1> USE DEF TypeOK, Goes, kernel, script, flags
<1>1. CASE Scripts
  BY <1>1, SMTT(60) DEF Scripts, Constructs, Constructed, Closes, Deletes, Kills, SeesEnded,
     Constructible, Pcs, IoPcs, ScriptPcs, ClosePcs
<1>2. ASSUME NEW t \in Threads, CloseComport(t) PROVE TypeOK'
  <2>1. CASE Tests(t)
    BY <2>1, AfterTypes DEF Tests, Pcs, ClosePcs
  <2>2. CASE ClosesFile(t)
    BY <2>2, CloseFdTypes DEF ClosesFile, Pcs, ClosePcs
  <2>3. CASE Unlocks(t)
    BY <2>3, UnlockFdTypes DEF Unlocks, Pcs, ClosePcs
  <2>4. CASE Resets(t)
    BY <2>4, AfterTypes DEF Resets, Fds
  <2> QED
    BY <1>2, <2>1, <2>2, <2>3, <2>4 DEF CloseComport
<1>3. ASSUME NEW p \in Ports, OpenComport(p) PROVE TypeOK'
  <2> USE DEF Pcs, IoPcs
  <2>1. CASE ModeFails(p)
    BY <2>1 DEF ModeFails
  <2>2. CASE Opens(p)
    BY <2>2, MinIsFree DEF Opens, FreeFds
  <2>3. CASE LockFails(p) \/ SettingsFail(p)
    BY <2>3, CloseFdTypes DEF LockFails, SettingsFail
  <2>4. CASE UnlocksClosed(p) \/ ModemFails(p)
    BY <2>4, UnlockFdTypes DEF UnlocksClosed, ModemFails
  <2>5. CASE Locks(p)
    BY <2>5 DEF Locks
  <2>6. CASE ModeIsValid(p) \/ Opened(p)
    BY <2>6 DEF ModeIsValid, Opened
  <2>7. CASE OpenFails(p)
    BY <2>7 DEF OpenFails
  <2>8. CASE ResetsClosed(p)
    BY <2>8 DEF ResetsClosed, Fds
  <2> QED
    BY <1>3, <2>1, <2>2, <2>3, <2>4, <2>5, <2>6, <2>7, <2>8 DEF OpenComport
<1>4. ASSUME NEW p \in Ports, Loop(p) PROVE TypeOK'
  BY <1>4, SMTT(60) DEF Loop, LoopEnds, NothingToSend, SendTo, SendBuf, RecFrom, Read, EndTests,
     Pcs, IoPcs, ClosePcs
<1>5. ASSUME NEW l \in Shared, OtherLocks(l) \/ OtherUnlocks(l) PROVE TypeOK'
  BY <1>5 DEF OtherLocks, OtherUnlocks
<1>6. CASE UNCHANGED vars
  BY <1>6 DEF vars
<1> QED
  BY <1>1, <1>2, <1>3, <1>4, <1>5, <1>6 DEF Next

-----------------------------------------------------------------------------
\* Every step leaves the threads where Places has them.  That _port is a number
\* of the table when OpenComport succeeds is the one fact from Files.
LEMMA PlacesStep ==
  ASSUME TypeOK, Places, Files, Next, failed = {}, failed' = {}
  PROVE  Places'
<1> USE PcTypes
<1> USE DEF TypeOK, Places, UnopenedPlace, OpenedPlace, ScriptPlace, OpenPcs, LoopPcs, OutPcs,
            ClosePcs, ScriptPcs, Goes, kernel, script, flags
<1>1. CASE Constructed
  BY <1>1, SMTT(30) DEF Constructed
<1>2. CASE Kills
  BY <1>2, SMTT(30) DEF Kills
<1>3. CASE SeesEnded
  BY <1>3, SMTT(30) DEF SeesEnded
<1>4. ASSUME NEW p \in Ports, Constructs(p) PROVE Places'
  BY <1>4, SMTT(30) DEF Constructs
<1>5. ASSUME NEW p \in Ports, Closes(p) \/ Deletes(p) PROVE Places'
  BY <1>5, SMTT(30) DEF Closes, Deletes, Constructible
<1>6. ASSUME NEW t \in Threads, Tests(t) PROVE Places'
  <2>1. CASE port[On(t)] # 0 /\ t # Script
    BY <1>6, <2>1, SMTT(30) DEF Tests, On, Threads, Fds
  <2>2. CASE port[On(t)] # 0 /\ t = Script
    BY <1>6, <2>2, SMTT(30) DEF Tests, On, Fds
  <2>3. CASE port[On(t)] = 0 /\ t # Script
    BY <1>6, <2>3, SMTT(30) DEF Tests, After, On, Threads
  <2>4. CASE port[On(t)] = 0 /\ t = Script
    BY <1>6, <2>4, SMTT(30) DEF Tests, After, On
  <2> QED
    BY <2>1, <2>2, <2>3, <2>4
<1>7. ASSUME NEW t \in Threads, ClosesFile(t) PROVE Places'
  BY <1>7, SMTT(30) DEF ClosesFile, On, Threads
<1>8. ASSUME NEW t \in Threads, Unlocks(t) PROVE Places'
  BY <1>8, SMTT(30) DEF Unlocks, On, Threads
<1>9. ASSUME NEW t \in Threads, Resets(t) PROVE Places'
  BY <1>9, SMTT(30) DEF Resets, After, On, Threads, Fds
<1>10. ASSUME NEW p \in Ports, ModeIsValid(p) \/ OpenFails(p) \/ Locks(p) \/ LockFails(p)
      PROVE Places'
  BY <1>10, SMTT(30) DEF ModeIsValid, OpenFails, Locks, LockFails
<1>11. ASSUME NEW p \in Ports, Opens(p) PROVE Places'
  BY <1>11, SMTT(30) DEF Opens
<1>12. ASSUME NEW p \in Ports,
              SettingsFail(p) \/ UnlocksClosed(p) \/ ResetsClosed(p) \/ ModemFails(p)
       PROVE Places'
  BY <1>12, SMTT(30) DEF SettingsFail, UnlocksClosed, ResetsClosed, ModemFails
<1>13. ASSUME NEW p \in Ports, Opened(p) PROVE Places'
  <2>1. cancall' = cancall \cup {p} /\ at[p] = "settings"
    BY <1>13 DEF Opened
  <2>2. p \notin cancall /\ at[Script] = "constructing" /\ p \in alive
    BY <2>1
  <2>3. port[p] \in Fds
    BY <2>1, <2>2 DEF Files, UnopenedFile
  <2> QED
    BY <1>13, <2>1, <2>2, <2>3, SMTT(30) DEF Opened
<1>14. ASSUME NEW p \in Ports,
              LoopEnds(p) \/ NothingToSend(p) \/ SendTo(p) \/ RecFrom(p) \/ Read(p)
       PROVE Places'
  <2>1. CASE LoopEnds(p)
    BY <2>1, SMTT(30) DEF LoopEnds
  <2>2. CASE NothingToSend(p) \/ Read(p)
    BY <2>2, SMTT(30) DEF NothingToSend, Read
  <2>3. CASE SendTo(p)
    <3>1. CASE IsOpen(p)
      BY <2>3, <3>1, SMTT(30) DEF SendTo
    <3>2. CASE ~IsOpen(p)
      BY <2>3, <3>2, SMTT(30) DEF SendTo, IsOpen, Fds
    <3> QED
      BY <3>1, <3>2
  <2>4. CASE RecFrom(p)
    <3>1. CASE IsOpen(p)
      BY <2>4, <3>1, SMTT(30) DEF RecFrom
    <3>2. CASE ~IsOpen(p)
      BY <2>4, <3>2, SMTT(30) DEF RecFrom, IsOpen, Fds
    <3> QED
      BY <3>1, <3>2
  <2> QED
    BY <2>1, <2>2, <2>3, <2>4, <1>14
<1>15. ASSUME NEW p \in Ports, SendBuf(p) PROVE Places'
  BY <1>15, SMTT(30) DEF SendBuf
<1>16. ASSUME NEW p \in Ports, EndTests(p) PROVE Places'
  <2>1. CASE IsOpen(p)
    BY <1>16, <2>1, SMTT(30) DEF EndTests, IsOpen
  <2>2. CASE ~IsOpen(p)
    BY <1>16, <2>2, SMTT(30) DEF EndTests, IsOpen, Fds
  <2> QED
    BY <2>1, <2>2
<1>17. ASSUME NEW l \in Shared, OtherLocks(l) \/ OtherUnlocks(l) PROVE Places'
  BY <1>17, SMTT(30) DEF OtherLocks, OtherUnlocks
<1>18. ASSUME NEW p \in Ports, ModeFails(p) PROVE Places'
  BY <1>18 DEF ModeFails
<1> QED
  BY <1>1, <1>2, <1>3, <1>4, <1>5, <1>6, <1>7, <1>8, <1>9, <1>10, <1>11, <1>12, <1>13, <1>14,
     <1>15, <1>16, <1>17, <1>18
     DEF Next, Scripts, CloseComport, OpenComport, Loop

-----------------------------------------------------------------------------
\* Every step keeps files, locks and numbers together.
LEMMA FilesStep ==
  ASSUME TypeOK, Places, Files, Next, TypeOK', failed = {}, failed' = {}
  PROVE  Files'
<1> USE PcTypes
<1> USE DEF TypeOK, Places, UnopenedPlace, OpenedPlace, ScriptPlace, OpenPcs, LoopPcs, OutPcs,
            ClosePcs, ScriptPcs, Goes, kernel, script, flags,
            Files, FilesKnown, LocksKnown, Closed, OpenedFile, UnopenedFile
<1>1. CASE Constructed
  BY <1>1, SMTT(30) DEF Constructed
<1>2. CASE Kills
  BY <1>2, SMTT(30) DEF Kills
<1>3. CASE SeesEnded
  BY <1>3, SMTT(30) DEF SeesEnded
<1>4. ASSUME NEW p \in Ports, Constructs(p) PROVE Files'
  BY <1>4, SMTT(30) DEF Constructs
<1>5. ASSUME NEW p \in Ports, Closes(p) \/ Deletes(p) PROVE Files'
  BY <1>5, SMTT(30) DEF Closes, Deletes, Constructible
<1>6. ASSUME NEW t \in Threads, Tests(t) PROVE Files'
  <2>1. CASE port[On(t)] # 0 /\ t # Script
    BY <1>6, <2>1, SMTT(30) DEF Tests, On, Threads, Fds
  <2>2. CASE port[On(t)] # 0 /\ t = Script
    BY <1>6, <2>2, SMTT(30) DEF Tests, On, Fds
  <2>3. CASE port[On(t)] = 0 /\ t # Script
    BY <1>6, <2>3, SMTT(30) DEF Tests, After, On, Threads
  <2>4. CASE port[On(t)] = 0 /\ t = Script
    BY <1>6, <2>4, SMTT(30) DEF Tests, After, On
  <2> QED
    BY <2>1, <2>2, <2>3, <2>4
<1>7. ASSUME NEW t \in Threads, ClosesFile(t) PROVE Files'
  <2>1. CASE t = Script
    BY <1>7, <2>1, SMTT(30) DEF ClosesFile, On, CloseFd
  <2>2. CASE t # Script
    BY <1>7, <2>2, SMTT(30) DEF ClosesFile, On, CloseFd, Threads
  <2> QED
    BY <2>1, <2>2
<1>8. ASSUME NEW t \in Threads, Unlocks(t) PROVE Files'
  <2>1. CASE t = Script
    BY <1>8, <2>1, SMTT(30) DEF Unlocks, On, UnlockFd
  <2>2. CASE t # Script
    BY <1>8, <2>2, SMTT(30) DEF Unlocks, On, UnlockFd, Threads
  <2> QED
    BY <2>1, <2>2
<1>9. ASSUME NEW t \in Threads, Resets(t) PROVE Files'
  BY <1>9, SMTT(30) DEF Resets, After, On, Threads, Fds
<1>10. ASSUME NEW p \in Ports, ModeIsValid(p) \/ OpenFails(p) PROVE Files'
  BY <1>10, SMTT(30) DEF ModeIsValid, OpenFails
<1>11. ASSUME NEW p \in Ports, Locks(p) PROVE Files'
  <2>1. FilesKnown' /\ LocksKnown'
    BY <1>11, SMTT(30) DEF Locks
  <2>2. \A q \in cancall' : OpenedFile(q)'
    BY <1>11, SMTT(30) DEF Locks
  <2>3. \A q \in Ports \ cancall' : UnopenedFile(q)'
    BY <1>11, SMTT(30) DEF Locks
  <2>4. at'[Script] = "unlock" => table'[port'[dev']] = Free
    BY <1>11, SMTT(30) DEF Locks
  <2> QED
    BY <2>1, <2>2, <2>3, <2>4
<1>12. ASSUME NEW p \in Ports, LockFails(p) PROVE Files'
  <2>1. FilesKnown' /\ LocksKnown'
    BY <1>12, SMTT(30) DEF LockFails, CloseFd
  <2>2. \A q \in cancall' : OpenedFile(q)'
    BY <1>12, SMTT(30) DEF LockFails, CloseFd
  <2>3. \A q \in Ports \ cancall' : UnopenedFile(q)'
    BY <1>12, SMTT(30) DEF LockFails, CloseFd
  <2>4. at'[Script] = "unlock" => table'[port'[dev']] = Free
    BY <1>12, SMTT(30) DEF LockFails, CloseFd
  <2> QED
    BY <2>1, <2>2, <2>3, <2>4
<1>13. ASSUME NEW p \in Ports, Opens(p) PROVE Files'
  <2>1. FilesKnown' /\ LocksKnown'
    BY <1>13, MinIsFree, SMTT(30) DEF Opens, FreeFds
  <2>2. \A q \in cancall' : OpenedFile(q)'
    BY <1>13, MinIsFree, SMTT(30) DEF Opens, FreeFds
  <2>3. \A q \in Ports \ cancall' : UnopenedFile(q)'
    BY <1>13, MinIsFree, SMTT(30) DEF Opens, FreeFds
  <2>4. at'[Script] = "unlock" => table'[port'[dev']] = Free
    BY <1>13, MinIsFree, SMTT(30) DEF Opens, FreeFds
  <2> QED
    BY <2>1, <2>2, <2>3, <2>4
<1>14. ASSUME NEW p \in Ports, SettingsFail(p) PROVE Files'
  BY <1>14, SMTT(30) DEF SettingsFail, CloseFd
<1>15. ASSUME NEW p \in Ports, UnlocksClosed(p) PROVE Files'
  BY <1>15, SMTT(30) DEF UnlocksClosed, UnlockFd
<1>16. ASSUME NEW p \in Ports, ResetsClosed(p) PROVE Files'
  BY <1>16, SMTT(30) DEF ResetsClosed
<1>17. ASSUME NEW p \in Ports, ModemFails(p) PROVE Files'
  BY <1>17, SMTT(30) DEF ModemFails, UnlockFd
<1>18. ASSUME NEW p \in Ports, Opened(p) PROVE Files'
  BY <1>18, SMTT(30) DEF Opened
<1>19. ASSUME NEW p \in Ports, LoopEnds(p) \/ NothingToSend(p) \/ Read(p) PROVE Files'
  <2>1. CASE LoopEnds(p)
    BY <2>1, SMTT(30) DEF LoopEnds
  <2>2. CASE NothingToSend(p) \/ Read(p)
    BY <2>2, SMTT(30) DEF NothingToSend, Read
  <2> QED
    BY <2>1, <2>2, <1>19
<1>20. ASSUME NEW p \in Ports, SendBuf(p) PROVE Files'
  BY <1>20, SMTT(30) DEF SendBuf
<1>21. ASSUME NEW p \in Ports, EndTests(p) PROVE Files'
  BY <1>21, SMTT(30) DEF EndTests, IsOpen
<1>22. ASSUME NEW l \in Shared, OtherLocks(l) \/ OtherUnlocks(l) PROVE Files'
  BY <1>22, SMTT(30) DEF OtherLocks, OtherUnlocks
<1>23. ASSUME NEW p \in Ports, ModeFails(p) PROVE Files'
  BY <1>23 DEF ModeFails
<1>24. ASSUME NEW p \in Ports, SendTo(p) \/ RecFrom(p) PROVE Files'
  BY <1>24, SMTT(30) DEF SendTo, RecFrom, IsOpen
<1> QED
  BY <1>1, <1>2, <1>3, <1>4, <1>5, <1>6, <1>7, <1>8, <1>9, <1>10, <1>11, <1>12, <1>13, <1>14,
     <1>15, <1>16, <1>17, <1>18, <1>19, <1>20, <1>21, <1>22, <1>23, <1>24
     DEF Next, Scripts, CloseComport, OpenComport, Loop

-----------------------------------------------------------------------------
\* At first there is no file and no Device.
LEMMA InitHolds == Init => PortInv
<1> SUFFICES ASSUME Init PROVE PortInv
  OBVIOUS
<1>1. TypeOK
  BY SMTT(30) DEF Init, TypeOK, Threads, Fds, Pcs, IoPcs, ScriptPcs
<1>2. Places /\ Files
  BY <1>1, PcTypes, SMTT(30)
     DEF Init, TypeOK, Places, UnopenedPlace, OpenedPlace, ScriptPlace, OpenPcs, LoopPcs, OutPcs,
     ClosePcs, ScriptPcs, Files, FilesKnown, LocksKnown, Closed, OpenedFile, UnopenedFile
<1> QED
  BY <1>1, <1>2 DEF PortInv

\* A port that an IO thread gave up on its own is never taken off the list, so
\* that an invariant about its absence can be carried from step to step.
LEMMA FailedGrows == [Next]_vars => failed \subseteq failed'
BY SMTT(30) DEF Next, Scripts, Constructs, Constructed, Closes, Deletes, Kills, SeesEnded,
   CloseComport, Tests, ClosesFile, Unlocks, Resets, OpenComport, ModeFails, ModeIsValid, Opens, OpenFails, Locks,
   LockFails, SettingsFail, UnlocksClosed, ResetsClosed, ModemFails, Opened, Loop, LoopEnds,
   NothingToSend, SendTo, SendBuf, RecFrom, Read, EndTests, OtherLocks, OtherUnlocks, vars, flags

\* A step of nobody's disturbs nothing.
LEMMA StutterKeeps == PortInv /\ UNCHANGED vars => PortInv'
BY DEF vars, PortInv, TypeOK, Places, UnopenedPlace, OpenedPlace, ScriptPlace, Files,
   FilesKnown, LocksKnown, Closed, OpenedFile, UnopenedFile

-----------------------------------------------------------------------------
(* The theorems. *)

\* The inductive invariant.
THEOREM PortInvHolds == Spec => []PortInv
<1>1. PortInv /\ [Next]_vars => PortInv'
  <2> SUFFICES ASSUME PortInv, [Next]_vars, ~UNCHANGED vars PROVE PortInv'
    BY StutterKeeps
  <2>1. TypeOK'
    BY TypeStep DEF PortInv
  <2>2. ASSUME failed' = {} PROVE Places' /\ Files'
    <3>1. failed = {}
      BY <2>2, FailedGrows
    <3> QED
      BY <2>1, <2>2, <3>1, PlacesStep, FilesStep DEF PortInv
  <2> QED
    BY <2>1, <2>2 DEF PortInv
<1> QED
  BY InitHolds, <1>1, PTL DEF Spec

\* The variables keep their types, with every fault there is.
THEOREM TypesHold == Spec => []TypeOK
<1>1. PortInv => TypeOK
  BY DEF PortInv
<1> QED
  BY <1>1, PortInvHolds, PTL

\* A port in use has its own file behind its number and its own lock on the
\* line, as long as no IO thread has given its port up by itself: what isOpen,
\* SendBuf and Read of serialport.cpp rely on.
THEOREM PortsOwnTheirFiles == Spec => []OwnFile
<1>1. PortInv => OwnFile
  BY DEF PortInv, OwnFile, InUse, IsOpen, Places, Files, TypeOK, OpenedFile, UnopenedPlace, Closed,
     OpenPcs, ClosePcs
<1> QED
  BY <1>1, PortInvHolds, PTL

\* Under the same condition, a Device whose thread has ended has no descriptor
\* but 0 and no lock, on every path through OpenComport and CloseComport.
THEOREM NothingLeaks == Spec => []NoLeak
<1>1. ASSUME PortInv, failed = {}, NEW p \in Ports, at[p] \in {"ended", "gone"}
      PROVE  /\ at[p] = "ended" => table[0] = p \/ (~Holds(p) /\ lock[LineOf[p]] # p)
             /\ at[p] = "gone" => ~Holds(p) /\ lock[LineOf[p]] # p
  <2>1. port[p] \in Fds => port[p] = 0
    BY <1>1 DEF PortInv, Places, UnopenedPlace, OpenedPlace, OutPcs, OpenPcs, ClosePcs, Fds
  <2>2. Holds(p) => port[p] \in Fds /\ table[port[p]] = p /\ at[p] # "gone"
    BY <1>1 DEF PortInv, Files, FilesKnown, Closed, Holds
  <2>3. lock[LineOf[p]] = p => Holds(p)
    BY <1>1 DEF PortInv, Files, LocksKnown, Holds
  <2> QED
    BY <1>1, <2>1, <2>2, <2>3
<1>2. PortInv => NoLeak
  BY <1>1 DEF NoLeak
<1> QED
  BY <1>2, PortInvHolds, PTL
=============================================================================
