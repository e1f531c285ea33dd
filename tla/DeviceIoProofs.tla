--------------------------- MODULE DeviceIoProofs ---------------------------
(***************************************************************************)
(* Theorems about DeviceIo, for every value of its constants.              *)
(***************************************************************************)
EXTENDS DeviceIo, SequenceTheorems, TLAPS

-----------------------------------------------------------------------------
(* Sequences. *)

\* The bytes of a new buffer are numbers.
LEMMA FreshIsSeq ==
  ASSUME NEW h \in Seq(Nat), NEW n \in Nat
  PROVE  Fresh(h, n) \in Seq(Nat)
<1>1. Len(h) \in Nat
  BY LenProperties
<1>2. \A k \in 1..n : Len(h) + k \in Nat
  BY <1>1
<1> QED
  BY <1>2 DEF Fresh

\* A sequence is a prefix of what it is extended to.
LEMMA PrefixOfConcat ==
  ASSUME NEW s \in Seq(Nat), NEW t \in Seq(Nat)
  PROVE  IsPrefix(s, s \o t)
<1>1. /\ s \o t \in Seq(Nat)
      /\ Len(s \o t) = Len(s) + Len(t)
      /\ Len(s) \in Nat /\ Len(t) \in Nat
  BY ConcatProperties, LenProperties
<1>2. SubSeq(s, 1, Len(s)) = SubSeq(s \o t, 1, Len(s))
  <2>1. CASE Len(s) = 0
    BY <2>1, SubSeqEmpty
  <2>2. CASE Len(s) # 0
    <3>1. 1 \in 1..Len(s) /\ Len(s) \in 1..Len(s)
      BY <1>1, <2>2
    <3> QED
      BY <3>1, SubSeqOfConcat1
  <2> QED
    BY <2>1, <2>2
<1> QED
  BY <1>1, <1>2 DEF IsPrefix

\* Concatenation under a name whose definition stays hidden: the provers are
\* slow with \o nested in \o.
Joined(s, t) == s \o t

LEMMA JoinedType ==
  ASSUME NEW s \in Seq(Nat), NEW t \in Seq(Nat)
  PROVE  Joined(s, t) \in Seq(Nat)
BY ConcatProperties DEF Joined

LEMMA JoinedAssoc ==
  ASSUME NEW s \in Seq(Nat), NEW t \in Seq(Nat), NEW u \in Seq(Nat)
  PROVE  Joined(Joined(s, t), u) = Joined(s, Joined(t, u))
BY ConcatAssociative, SMTT(60) DEF Joined

LEMMA PrefixReflexive ==
  ASSUME NEW s \in Seq(Nat)
  PROVE  IsPrefix(s, s)
BY LenProperties DEF IsPrefix

\* What a prefix is extended by: the rest of the sequence.
LEMMA PrefixSplits ==
  ASSUME NEW s \in Seq(Nat), NEW t \in Seq(Nat), IsPrefix(s, t)
  PROVE  \E r \in Seq(Nat) : t = s \o r
<1> DEFINE r == SubSeq(t, Len(s) + 1, Len(t))
<1>1. Len(s) \in Nat /\ Len(t) \in Nat /\ Len(s) <= Len(t)
  BY LenProperties DEF IsPrefix
<1>2. \A i \in (Len(s) + 1)..Len(t) : t[i] \in Nat
  BY <1>1, ElementOfSeq
<1>3. r \in Seq(Nat)
  BY <1>1, <1>2, SubSeqProperties
<1>4. s = SubSeq(t, 1, Len(s))
  BY SubSeqFull DEF IsPrefix
<1>5. SubSeq(t, 1, Len(s)) \o SubSeq(t, Len(s) + 1, Len(t)) = SubSeq(t, 1, Len(t))
  <2>1. /\ 1 \in 1..(Len(t) + 1)
        /\ Len(s) \in (1 - 1)..Len(t)
        /\ Len(t) \in Len(s)..Len(t)
    BY <1>1
  <2> QED
    BY <2>1, ConcatAdjacentSubSeq, Zenon
<1>6. t = s \o r
  BY <1>4, <1>5, SubSeqFull
<1> QED
  BY <1>3, <1>6

\* A prefix stays one when the sequence is extended.
LEMMA PrefixExtends ==
  ASSUME NEW s \in Seq(Nat), NEW t \in Seq(Nat), NEW u \in Seq(Nat),
         IsPrefix(s, t)
  PROVE  IsPrefix(s, t \o u)
<1>1. PICK r \in Seq(Nat) : t = s \o r
  BY PrefixSplits
<1>2. t \o u = s \o (r \o u)
  <2>1. Joined(Joined(s, r), u) = Joined(s, Joined(r, u))
    BY JoinedAssoc
  <2> QED
    BY <1>1, <2>1, Zenon DEF Joined
<1>3. r \o u \in Seq(Nat)
  BY ConcatProperties
<1> QED
  BY <1>2, <1>3, PrefixOfConcat

-----------------------------------------------------------------------------
(* Types. *)

\* The initial state is well typed.
LEMMA InitTypeOK == Init => TypeOK
<1> SUFFICES ASSUME Init
             PROVE  TypeOK
  OBVIOUS
<1>1. running \in BOOLEAN /\ alive \in BOOLEAN /\ cancall \in BOOLEAN
      /\ ended \in BOOLEAN /\ stopped \in BOOLEAN
  BY Zenon DEF Init
<1>2. <<>> \in Seq(Nat)
  BY EmptySeq
<1> QED
  BY <1>1, <1>2 DEF Init, TypeOK, ScriptPcs, IoPcs, Ports

\* The three parts of TypeOK: where the threads and the port are, the flags,
\* the bytes.
PlaceTypes == spc \in ScriptPcs /\ ipc \in IoPcs /\ port \in Ports

FlagTypes ==
  /\ running \in BOOLEAN
  /\ alive \in BOOLEAN
  /\ cancall \in BOOLEAN
  /\ ended \in BOOLEAN
  /\ stopped \in BOOLEAN

ByteTypes ==
  /\ out \in Seq(Nat) /\ in \in Seq(Nat)
  /\ temp \in Seq(Nat) /\ shot \in Seq(Nat)
  /\ left \in Nat
  /\ ipc = "write" => left <= Len(temp)
  /\ queued \in Seq(Nat) /\ wire \in Seq(Nat)
  /\ got \in Seq(Nat) /\ taken \in Seq(Nat)

\* Every step keeps the types of the threads' places and the port.
LEMMA NextPlaceTypes == PlaceTypes /\ [Next]_vars => PlaceTypes'
<1> SUFFICES ASSUME PlaceTypes, [Next]_vars
             PROVE  PlaceTypes'
  OBVIOUS
<1> USE DEF PlaceTypes, ScriptPcs, IoPcs, Ports, ScriptGoes, IoGoes
<1>1. CASE ScriptChooses
  BY <1>1
     DEF ScriptChooses, Put, WaitingExits, Gets, ExpectStarts, ExpectPolls,
         ReadStarts, Exit, UsesNull, CallsNull, CloseTests, PortTest, ScriptEnds,
         DeleteStarts
<1>2. CASE ScriptRuns
  BY <1>2
     DEF ScriptRuns, NotATty, DeletesNull, CallsNull, ThreadStarts, ThreadFails, Constructed, PutReturns,
         ExpectEnds, ReadTakes, CloseCloses, CloseResets, DeleteTests,
         DeleteCloses, DeleteResets, PortTest, PortClose, PortReset, Kill,
         SeesEnded, DeletePc, StopThread, Join
<1>3. CASE IoOpens
  BY <1>3 DEF IoOpens, IoStart, OpenSucceeds, OpenFails, CanCall
<1>4. CASE LoopTest
  BY <1>4 DEF LoopTest
<1>5. CASE IoSends
  BY <1>5
     DEF IoSends, TakeOut, SendTo, WriteTakes, WriteTimesOut, WriteFails, WriteStray
<1>6. CASE IoReceives
  BY <1>6 DEF IoReceives, RecFrom, ReadNothing, ReadBytes, ReadStray, Store
<1>7. CASE IoCallback
  BY <1>7
     DEF IoCallback, Received, CallbackPut, CallbackGets, CallbackPutReturns,
         CallbackWaits, CallbackWaitEnds, CallbackCloseTests, CallbackCloses,
         CallbackResets, IoPortClose, IoPortReset
<1>8. CASE IoFinishes
  BY <1>8
     DEF IoFinishes, IoFin, IoCloses, IoResets, IoPortClose, IoPortReset, IoEnds,
         IoStops
<1>9. CASE UNCHANGED vars
  BY <1>9 DEF vars
<1> QED
  BY <1>1, <1>2, <1>3, <1>4, <1>5, <1>6, <1>7, <1>8, <1>9 DEF Next, IoRuns

\* Every step keeps the types of the flags.
LEMMA NextFlagTypes == FlagTypes /\ [Next]_vars => FlagTypes'
<1> SUFFICES ASSUME FlagTypes, [Next]_vars
             PROVE  FlagTypes'
  OBVIOUS
\* The steps that set one.
<1>1. CASE WaitingExits
  BY <1>1, Zenon DEF FlagTypes, WaitingExits, flags
<1>2. CASE Exit
  BY <1>2, Zenon DEF FlagTypes, Exit, flags
<1>3. CASE Kill
  BY <1>3, Zenon DEF FlagTypes, Kill
<1>4. CASE IoStart
  BY <1>4, Zenon DEF FlagTypes, IoStart
<1>5. CASE CanCall
  BY <1>5, Zenon DEF FlagTypes, CanCall
<1>6. CASE Received
  BY <1>6, Zenon DEF FlagTypes, Received, MayExit, flags
<1>7. CASE IoEnds
  BY <1>7, Zenon DEF FlagTypes, IoEnds
<1>8. CASE IoStops
  BY <1>8, Zenon DEF FlagTypes, IoStops
<1>15. CASE ThreadStarts \/ ThreadFails
  BY <1>15, Zenon DEF FlagTypes, ThreadStarts, ThreadFails
\* The steps that set none.
<1>9. ASSUME UNCHANGED <<running, flags>>
      PROVE  FlagTypes'
  BY <1>9, Zenon DEF FlagTypes, flags
<1>10. CASE (\E n \in PutSizes : Put(n)) \/ Gets \/ ExpectStarts \/ ExpectPolls
            \/ ReadStarts \/ UsesNull \/ CloseTests \/ ScriptEnds \/ DeleteStarts
  BY <1>9, <1>10, Zenon
     DEF Put, Gets, ExpectStarts, ExpectPolls, ReadStarts, UsesNull, CallsNull,
         CloseTests, PortTest, ScriptEnds, DeleteStarts
<1>11. CASE NotATty \/ DeletesNull \/ Constructed \/ PutReturns \/ ExpectEnds
            \/ ReadTakes \/ CloseCloses \/ CloseResets \/ DeleteTests
            \/ DeleteCloses \/ DeleteResets \/ SeesEnded \/ DeletePc
            \/ StopThread \/ Join
  BY <1>9, <1>11, Zenon
     DEF NotATty, DeletesNull, CallsNull, Constructed, PutReturns, ExpectEnds,
         ReadTakes, CloseCloses, CloseResets, DeleteTests, DeleteCloses,
         DeleteResets, PortTest, PortClose, PortReset, SeesEnded, DeletePc,
         StopThread, Join
<1>12. CASE OpenSucceeds \/ OpenFails \/ LoopTest \/ IoSends
  BY <1>9, <1>12, Zenon
     DEF OpenSucceeds, OpenFails, LoopTest, IoSends, TakeOut, SendTo, WriteTakes,
         WriteTimesOut, WriteFails, WriteStray
<1>13. CASE IoReceives \/ (\E n \in CallbackPuts : CallbackPut(n)) \/ CallbackGets
            \/ CallbackPutReturns \/ CallbackWaits \/ CallbackWaitEnds
            \/ CallbackCloseTests \/ CallbackCloses \/ CallbackResets
            \/ IoFin \/ IoCloses \/ IoResets
  BY <1>9, <1>13, Zenon
     DEF IoReceives, RecFrom, ReadNothing, ReadBytes, ReadStray, Store,
         CallbackPut, CallbackGets, CallbackPutReturns, CallbackWaits,
         CallbackWaitEnds, CallbackCloseTests, CallbackCloses, CallbackResets,
         IoFin, IoCloses, IoResets, IoPortClose, IoPortReset
<1>14. CASE UNCHANGED vars
  BY <1>9, <1>14, Zenon DEF vars
<1> QED
  BY <1>1, <1>2, <1>3, <1>4, <1>5, <1>6, <1>7, <1>8, <1>10, <1>11, <1>12, <1>13,
     <1>14, <1>15, Zenon
     DEF Next, ScriptChooses, ScriptRuns, IoRuns, IoOpens, IoCallback, IoFinishes

\* A put keeps the types of the bytes.
LEMMA PutOutKeepsTypes ==
  ASSUME ByteTypes, NEW n \in Nat, PutOut(n)
  PROVE  queued' \in Seq(Nat) /\ out' \in Seq(Nat)
BY FreshIsSeq, ConcatProperties DEF ByteTypes, PutOut

\* So does every step.
LEMMA NextByteTypes == ByteTypes /\ [Next]_vars => ByteTypes'
<1> SUFFICES ASSUME ByteTypes, [Next]_vars
             PROVE  ByteTypes'
  OBVIOUS
<1>1. /\ <<>> \in Seq(Nat) /\ Len(temp) \in Nat
      /\ PutSizes \subseteq Nat /\ CallbackPuts \subseteq Nat /\ ReadSizes \subseteq Nat
  BY EmptySeq, LenProperties, ConstantsAssumption DEF ByteTypes, ConstantsAssumption
<1>2. ASSUME UNCHANGED <<outbound, in, sending, shot, wire, got, taken>>,
             ipc' = "write" => ipc = "write"
      PROVE  ByteTypes'
  BY <1>2 DEF ByteTypes, outbound, sending
\* The steps that move bytes.
<1>3. ASSUME NEW n \in PutSizes, Put(n)
      PROVE  ByteTypes'
  BY <1>1, <1>3, PutOutKeepsTypes DEF ByteTypes, Put, ScriptGoes, sending
<1>4. ASSUME NEW n \in CallbackPuts, CallbackPut(n)
      PROVE  ByteTypes'
  BY <1>1, <1>4, PutOutKeepsTypes DEF ByteTypes, CallbackPut, IoGoes, sending
<1>5. CASE Gets \/ ExpectPolls \/ ReadTakes \/ CallbackGets \/ CallbackWaits
  <2>1. taken \o in \in Seq(Nat)
    BY ConcatProperties DEF ByteTypes
  <2> QED
    BY <1>1, <1>5, <2>1 DEF ByteTypes, Gets, ExpectPolls, ReadTakes, CallbackGets,
                            CallbackWaits, GetIn, ScriptGoes, IoGoes, outbound, sending
<1>6. CASE TakeOut
  BY <1>1, <1>6 DEF ByteTypes, TakeOut, IoGoes
<1>7. CASE SendTo
  <2>1. CASE IsOpen
    BY <1>1, <1>7, <2>1 DEF ByteTypes, SendTo, IoGoes, outbound
  <2>2. CASE ~IsOpen
    BY <1>1, <1>7, <2>2 DEF ByteTypes, SendTo, IoGoes, outbound
  <2> QED
    BY <2>1, <2>2
<1>8. ASSUME NEW n \in 1..left, WriteTakes(n)
      PROVE  ByteTypes'
  <2>1. n \in Nat /\ n <= left /\ left <= Len(temp) /\ left \in Nat
    BY <1>8 DEF ByteTypes, WriteTakes, IoGoes
  <2>2. wire' = wire \o SubSeq(temp, 1, n) /\ wire' \in Seq(Nat)
    <3>1. temp \in Seq(Nat) /\ wire \in Seq(Nat)
      BY DEF ByteTypes
    <3>2. \A i \in 1..n : temp[i] \in Nat
      BY <1>1, <2>1, <3>1, ElementOfSeq
    <3>3. SubSeq(temp, 1, n) \in Seq(Nat)
      BY <1>1, <2>1, <3>1, <3>2, SubSeqProperties
    <3> QED
      BY <1>8, <3>1, <3>3, ConcatProperties DEF WriteTakes
  <2>3. UNCHANGED <<out, queued, in, shot, got, taken>>
    BY <1>8 DEF WriteTakes, outbound
  <2>4. CASE IoGoes("write", "write") /\ left' = left - n /\ UNCHANGED temp
    BY SMTT(30), <1>1, <2>1, <2>2, <2>3, <2>4 DEF ByteTypes, IoGoes
  <2>5. CASE IoGoes("write", "recv") /\ left' = 0 /\ temp' = <<>>
    BY <1>1, <2>2, <2>3, <2>5 DEF ByteTypes, IoGoes
  <2> QED
    BY <1>8, <2>4, <2>5 DEF WriteTakes
<1>9. CASE WriteTimesOut \/ WriteFails \/ WriteStray
  <2>1. /\ left' = 0 /\ temp' = <<>> /\ ipc' # "write"
        /\ UNCHANGED <<out, queued, in, shot, wire, got, taken>>
    BY <1>9 DEF WriteTimesOut, WriteFails, WriteStray, IoGoes, outbound
  <2> QED
    BY <1>1, <2>1 DEF ByteTypes
<1>10. ASSUME NEW n \in ReadSizes, ReadBytes(n)
       PROVE  ByteTypes'
  <2>1. n \in Nat /\ got \in Seq(Nat)
    BY <1>1 DEF ByteTypes
  <2>2. shot' \in Seq(Nat) /\ got' \in Seq(Nat)
    BY <1>10, <2>1, FreshIsSeq, ConcatProperties DEF ReadBytes
  <2> QED
    BY <1>10, <2>2 DEF ByteTypes, ReadBytes, IoGoes, outbound, sending
<1>11. CASE ReadStray
  <2>1. shot' = <<0>> /\ got' = got \o <<0>> /\ got \in Seq(Nat)
    BY <1>11 DEF ReadStray, Foreign, ByteTypes
  <2>2. <<0>> \in Seq(Nat)
    OBVIOUS
  <2>3. got' \in Seq(Nat)
    BY <2>1, <2>2, ConcatProperties
  <2> QED
    BY <1>11, <2>1, <2>2, <2>3 DEF ByteTypes, ReadStray, IoGoes, outbound, sending
<1>12. CASE Store
  <2>1. in \o shot \in Seq(Nat)
    BY ConcatProperties DEF ByteTypes
  <2> QED
    BY <1>1, <1>12, <2>1 DEF ByteTypes, Store, IoGoes, outbound, sending
\* The steps that move none.
<1>13. CASE WaitingExits \/ ExpectStarts \/ ReadStarts \/ Exit \/ UsesNull
            \/ CloseTests \/ ScriptEnds \/ DeleteStarts
  BY <1>2, <1>13
     DEF WaitingExits, ExpectStarts, ReadStarts, Exit, UsesNull, CallsNull,
         CloseTests, PortTest, ScriptEnds, DeleteStarts, ScriptGoes
<1>14. CASE NotATty \/ DeletesNull \/ ThreadStarts \/ ThreadFails \/ Constructed \/ PutReturns \/ ExpectEnds
            \/ DeleteTests \/ Kill \/ SeesEnded \/ DeletePc \/ StopThread \/ Join
  BY <1>2, <1>14
     DEF NotATty, DeletesNull, CallsNull, ThreadStarts, ThreadFails, Constructed, PutReturns, ExpectEnds,
         DeleteTests, PortTest, Kill, SeesEnded, DeletePc, StopThread, Join,
         ScriptGoes
<1>15. CASE CloseCloses \/ CloseResets \/ DeleteCloses \/ DeleteResets
  BY <1>2, <1>15
     DEF CloseCloses, CloseResets, DeleteCloses, DeleteResets, PortClose,
         PortReset, ScriptGoes
<1>16. CASE IoOpens \/ LoopTest \/ RecFrom \/ ReadNothing
  BY <1>2, <1>16
     DEF IoOpens, IoStart, OpenSucceeds, OpenFails, CanCall, LoopTest, RecFrom,
         ReadNothing, IoGoes
<1>17. CASE Received \/ CallbackPutReturns \/ CallbackWaitEnds
            \/ CallbackCloseTests \/ CallbackCloses \/ CallbackResets \/ IoFinishes
  BY <1>2, <1>17
     DEF Received, CallbackPutReturns, CallbackWaitEnds, CallbackCloseTests,
         CallbackCloses, CallbackResets, IoFinishes, IoFin, IoCloses, IoResets,
         IoPortClose, IoPortReset, IoEnds, IoStops, IoGoes
<1>18. CASE UNCHANGED vars
  BY <1>2, <1>18 DEF vars
<1> QED
  BY <1>3, <1>4, <1>5, <1>6, <1>7, <1>8, <1>9, <1>10, <1>11, <1>12, <1>13, <1>14,
     <1>15, <1>16, <1>17, <1>18
     DEF Next, ScriptChooses, ScriptRuns, IoRuns, IoSends, IoReceives, IoCallback

\* Every step keeps the types.
LEMMA NextTypeOK == TypeOK /\ [Next]_vars => TypeOK'
<1>1. TypeOK <=> PlaceTypes /\ FlagTypes /\ ByteTypes
  BY Zenon DEF TypeOK, PlaceTypes, FlagTypes, ByteTypes
<1>2. TypeOK' <=> PlaceTypes' /\ FlagTypes' /\ ByteTypes'
  BY Zenon DEF TypeOK, PlaceTypes, FlagTypes, ByteTypes
<1> QED
  BY <1>1, <1>2, NextPlaceTypes, NextFlagTypes, NextByteTypes

\* The variables keep their types.
THEOREM TypeCorrect == Spec => []TypeOK
BY InitTypeOK, NextTypeOK, PTL DEF Spec

-----------------------------------------------------------------------------
(* The lifecycle: construction, the opening of the port, destruction. *)

LEMMA NextLifecycle ==
  TypeOK /\ Lifecycle /\ PortOnce /\ [Next]_vars => Lifecycle' /\ PortOnce'
<1> SUFFICES ASSUME TypeOK, Lifecycle, PortOnce, [Next]_vars
             PROVE  Lifecycle' /\ PortOnce'
  OBVIOUS
<1> USE DEF Lifecycle, PortOnce, Opening, Portless, ScriptGoes, IoGoes, flags
<1>1. CASE ScriptChooses
  BY <1>1 DEF ScriptChooses, Put, WaitingExits, Gets, ExpectStarts, ExpectPolls, ReadStarts, Exit, UsesNull, CallsNull, CloseTests, PortTest, ScriptEnds, DeleteStarts
<1>2. CASE ScriptRuns
  BY <1>2 DEF ScriptRuns, NotATty, DeletesNull, CallsNull, ThreadStarts, ThreadFails, Constructed, PutReturns, ExpectEnds, ReadTakes, CloseCloses, CloseResets, DeleteTests, DeleteCloses, DeleteResets, PortTest, PortClose, PortReset, Kill, SeesEnded, DeletePc, StopThread, Join
<1>3. CASE IoOpens
  BY <1>3 DEF IoOpens, IoStart, OpenSucceeds, OpenFails, CanCall
<1>4. CASE LoopTest
  BY <1>4 DEF LoopTest
<1>5. CASE IoSends
  BY <1>5 DEF IoSends, TakeOut, SendTo, WriteTakes, WriteTimesOut, WriteFails, WriteStray
<1>6. CASE IoReceives
  BY <1>6 DEF IoReceives, RecFrom, ReadNothing, ReadBytes, ReadStray, Store
<1>7. CASE IoCallback
  BY <1>7
     DEF IoCallback, Received, CallbackPut, CallbackGets, CallbackPutReturns,
         CallbackWaits, CallbackWaitEnds, CallbackCloseTests, CallbackCloses,
         CallbackResets, IoPortClose, IoPortReset
<1>8. CASE IoFinishes
  BY <1>8
     DEF IoFinishes, IoFin, IoCloses, IoResets, IoPortClose, IoPortReset, IoEnds,
         IoStops
<1>9. CASE UNCHANGED vars
  BY <1>9 DEF vars
<1> QED
  BY <1>1, <1>2, <1>3, <1>4, <1>5, <1>6, <1>7, <1>8, <1>9 DEF Next, IoRuns

\* The lifecycle invariant of every behaviour.
THEOREM LifecycleHolds == Spec => [](Lifecycle /\ PortOnce)
<1>1. Init => Lifecycle /\ PortOnce
  BY DEF Init, Lifecycle, PortOnce, Opening, Portless
<1> QED
  BY <1>1, TypeCorrect, NextLifecycle, PTL DEF Spec

\* No memory of a Device is freed under its IO thread.
THEOREM NeverUsedAfterFree == Spec => []NoUseAfterFree
<1>1. Lifecycle => NoUseAfterFree
  BY DEF Lifecycle, NoUseAfterFree
<1> QED
  BY <1>1, LifecycleHolds, PTL

\* The script meets a Device with tty:// credentials only with its port opened,
\* and one with other credentials without an IO thread.
THEOREM AlwaysOpenedBeforeUse == Spec => []OpenedBeforeUse
<1>1. Lifecycle /\ PortOnce => OpenedBeforeUse
  BY DEF Lifecycle, PortOnce, Opening, OpenedBeforeUse
<1> QED
  BY <1>1, LifecycleHolds, PTL

-----------------------------------------------------------------------------
(* Inbound bytes. *)

\* What getIn moves from the queue to the script stays accounted for.
LEMMA GetInKeepsInbound ==
  ASSUME TypeOK, Inbound, GetIn, UNCHANGED <<got, shot>>, ipc' = ipc
  PROVE  Inbound'
<1>1. taken' \o in' = taken \o in
  <2>1. taken \o in \in Seq(Nat)
    BY ConcatProperties DEF TypeOK
  <2> QED
    BY <2>1, ConcatEmptySeq DEF GetIn
<1> QED
  BY <1>1 DEF Inbound, InboundOnce

LEMMA NextInbound == TypeOK /\ Lifecycle /\ Inbound /\ [Next]_vars => Inbound'
<1> SUFFICES ASSUME TypeOK, Lifecycle, Inbound, [Next]_vars
             PROVE  Inbound'
  OBVIOUS
<1>1. CASE Gets
  BY <1>1, GetInKeepsInbound DEF Gets
<1>2. CASE ExpectPolls
  BY <1>2, GetInKeepsInbound DEF ExpectPolls
<1>3. CASE ReadTakes
  BY <1>3, GetInKeepsInbound DEF ReadTakes, ScriptGoes
<1>4. CASE CallbackGets
  BY <1>4, GetInKeepsInbound DEF CallbackGets, IoGoes
<1>19. CASE CallbackWaits
  <2>1. /\ GetIn /\ UNCHANGED <<got, shot>>
        /\ ipc' # "store" /\ shot' = <<>>
    BY <1>19 DEF CallbackWaits, IoGoes, Inbound
  <2>2. taken' \o in' = taken \o in
    <3>1. taken \o in \in Seq(Nat)
      BY ConcatProperties DEF TypeOK
    <3> QED
      BY <2>1, <3>1, ConcatEmptySeq DEF GetIn
  <2> QED
    BY <2>1, <2>2 DEF Inbound, InboundOnce
<1>5. ASSUME NEW b \in Seq(Nat), IoGoes("read", "store"), shot' = b,
             got' = got \o shot', UNCHANGED <<in, taken>>
      PROVE  Inbound'
  <2>1. got = taken \o in
    <3>1. shot = <<>> /\ taken \o in \in Seq(Nat)
      BY <1>5, ConcatProperties DEF Inbound, IoGoes, TypeOK
    <3> QED
      BY <3>1, ConcatEmptySeq DEF Inbound, InboundOnce
  <2> QED
    BY <1>5, <2>1 DEF Inbound, InboundOnce, IoGoes
<1>6. ASSUME NEW n \in ReadSizes, ReadBytes(n)
      PROVE  Inbound'
  <2>1. Fresh(got, n) \in Seq(Nat)
    BY ConstantsAssumption, FreshIsSeq DEF ConstantsAssumption, TypeOK
  <2> QED
    BY <1>5, <1>6, <2>1 DEF ReadBytes
<1>7. CASE ReadStray
  <2>1. <<Foreign>> \in Seq(Nat)
    BY DEF Foreign
  <2> QED
    BY <1>5, <1>7, <2>1 DEF ReadStray
<1>8. CASE Store
  <2>1. taken' \o in' = (taken \o in) \o shot
    <3>1. (taken \o in) \o shot = taken \o (in \o shot)
      <4>1. Joined(Joined(taken, in), shot) = Joined(taken, Joined(in, shot))
        BY JoinedAssoc DEF TypeOK
      <4> QED
        BY <4>1, Zenon DEF Joined
    <3> QED
      BY <1>8, <3>1 DEF Store
  <2>2. (taken' \o in') \o shot' = taken' \o in'
    <3>1. (taken \o in) \o shot \in Seq(Nat)
      BY ConcatProperties DEF TypeOK
    <3> QED
      BY <1>8, <2>1, <3>1, ConcatEmptySeq DEF Store
  <2> QED
    BY <1>8, <2>1, <2>2 DEF Store, Inbound, InboundOnce, IoGoes
<1>9. CASE UNCHANGED <<got, taken, in, shot>> /\ ipc' # "store" /\ ipc # "store"
  BY <1>9 DEF Inbound, InboundOnce
<1>10. CASE UNCHANGED <<got, taken, in, shot, ipc>>
  BY <1>10 DEF Inbound, InboundOnce
\* All other steps leave the inbound bytes where they are.
<1>11. CASE (\E n \in PutSizes : Put(n)) \/ WaitingExits \/ ExpectStarts
            \/ ReadStarts \/ Exit \/ UsesNull \/ CloseTests \/ ScriptEnds
            \/ DeleteStarts
  BY <1>10, <1>11
     DEF Put, WaitingExits, ExpectStarts, ReadStarts, Exit, UsesNull, CallsNull,
         CloseTests, PortTest, ScriptEnds, DeleteStarts, ScriptGoes
<1>12. CASE NotATty \/ DeletesNull \/ ThreadStarts \/ ThreadFails \/ Constructed \/ PutReturns
            \/ ExpectEnds \/ Kill \/ SeesEnded \/ DeletePc \/ StopThread \/ Join
  <2>1. CASE ThreadStarts
    BY <1>9, <2>1 DEF ThreadStarts, Lifecycle
  <2>2. CASE ~ThreadStarts
    BY <1>10, <1>12, <2>2
       DEF NotATty, DeletesNull, CallsNull, ThreadFails, Constructed, PutReturns, ExpectEnds, Kill, SeesEnded,
           DeletePc, StopThread, Join, ScriptGoes
  <2> QED
    BY <2>1, <2>2
<1>13. CASE CloseCloses \/ CloseResets \/ DeleteTests \/ DeleteCloses \/ DeleteResets
  BY <1>10, <1>13
     DEF CloseCloses, CloseResets, DeleteTests, DeleteCloses, DeleteResets,
         PortTest, PortClose, PortReset, ScriptGoes
<1>14. CASE IoOpens \/ LoopTest \/ IoSends
  BY <1>9, <1>14
     DEF IoOpens, IoStart, OpenSucceeds, OpenFails, CanCall, LoopTest, IoSends,
         TakeOut, SendTo, WriteTakes, WriteTimesOut, WriteFails, WriteStray,
         IoGoes
<1>15. CASE RecFrom \/ ReadNothing
  BY <1>9, <1>15 DEF RecFrom, ReadNothing, IoGoes
<1>16. CASE Received \/ (\E n \in CallbackPuts : CallbackPut(n)) \/ CallbackPutReturns
            \/ CallbackWaitEnds \/ CallbackCloseTests \/ CallbackCloses
            \/ CallbackResets
  BY <1>9, <1>16
     DEF Received, CallbackPut, CallbackPutReturns, CallbackWaitEnds,
         CallbackCloseTests, CallbackCloses, CallbackResets, IoPortClose,
         IoPortReset, IoGoes
<1>17. CASE IoFinishes
  BY <1>9, <1>17
     DEF IoFinishes, IoFin, IoCloses, IoResets, IoPortClose, IoPortReset, IoEnds,
         IoStops, IoGoes
<1>18. CASE UNCHANGED vars
  BY <1>10, <1>18 DEF vars
<1> QED
  BY <1>1, <1>2, <1>3, <1>4, <1>6, <1>7, <1>8, <1>11, <1>12, <1>13, <1>14,
     <1>15, <1>16, <1>17, <1>18, <1>19
     DEF Next, ScriptChooses, ScriptRuns, IoRuns, IoReceives, IoCallback

\* The inbound part of the invariant.
LEMMA InboundInvariant == Spec => []Inbound
<1>1. Init => Inbound
  BY EmptySeq, ConcatEmptySeq DEF Init, Inbound, InboundOnce
<1> QED
  BY <1>1, TypeCorrect, LifecycleHolds, NextInbound, PTL DEF Spec

\* Every byte read is on its way, queued or fetched: once, and in order.
THEOREM InboundHolds == Spec => []InboundOnce
<1>1. Inbound => InboundOnce
  BY DEF Inbound
<1> QED
  BY <1>1, InboundInvariant, PTL

-----------------------------------------------------------------------------
(* Outbound bytes, on a line whose ::write takes all of the buffer or fails. *)

\* No write is partial, none runs out of time.
WholeWrites == {"partial", "busy"} \cap Faults = {}

\* What putOut adds to the queue is added behind all the rest.
LEMMA PutOutKeepsOutbound ==
  ASSUME TypeOK, Outbound, NEW n \in Nat, PutOut(n),
         UNCHANGED <<port, temp, left, wire>>,
         \/ ipc' = ipc
         \/ ipc = "call" /\ ipc' = "cb_wc"
  PROVE  Outbound'
<1> DEFINE b == Fresh(queued, n)
<1>1. b \in Seq(Nat)
  BY FreshIsSeq DEF TypeOK
<1>2. /\ wire \in Seq(Nat) /\ temp \in Seq(Nat) /\ out \in Seq(Nat)
      /\ queued \in Seq(Nat)
  BY DEF TypeOK
<1>3. queued' = queued \o b /\ out' = out \o b
  BY DEF PutOut
<1> HIDE DEF b
<1>4. IsPrefix(wire, queued \o b)
  BY <1>1, <1>2, PrefixExtends DEF Outbound, WireIsPrefix
<1>5. ASSUME queued = wire \o (temp \o out)
      PROVE  queued' = wire' \o (temp' \o out')
  <2>1. (wire \o (temp \o out)) \o b = wire \o (temp \o (out \o b))
    <3>1. Joined(Joined(wire, Joined(temp, out)), b)
            = Joined(wire, Joined(temp, Joined(out, b)))
      BY <1>1, <1>2, JoinedType, JoinedAssoc
    <3> QED
      BY <3>1, Zenon DEF Joined
  <2> QED
    BY <1>3, <1>5, <2>1
<1> QED
  BY <1>3, <1>4, <1>5 DEF Outbound, WireIsPrefix, Opening, Finishing

\* A place of the IO thread and a state of the port that keep the bytes the
\* line has not taken yet in temp and out.
InStep(pc, p) == pc \in Opening \/ (p = "open" /\ pc \notin Finishing)

\* What a step has to leave alone for Outbound to stay.
LEMMA OutboundFrame ==
  ASSUME Outbound, UNCHANGED <<outbound, sending, wire>>,
         InStep(ipc', port') => InStep(ipc, port),
         \/ ipc' = ipc
         \/ ipc \notin {"send", "write"} /\ ipc' \notin {"send", "write"}
  PROVE  Outbound'
BY DEF Outbound, WireIsPrefix, InStep, outbound, sending

LEMMA NextOutbound ==
  ASSUME WholeWrites
  PROVE  TypeOK /\ Lifecycle /\ PortOnce /\ Outbound /\ [Next]_vars => Outbound'
<1> SUFFICES ASSUME TypeOK, Lifecycle, PortOnce, Outbound, [Next]_vars
             PROVE  Outbound'
  OBVIOUS
<1>1. /\ wire \in Seq(Nat) /\ temp \in Seq(Nat) /\ out \in Seq(Nat)
      /\ queued \in Seq(Nat) /\ temp \o out \in Seq(Nat)
  BY ConcatProperties DEF TypeOK
<1>2. ASSUME NEW n \in PutSizes, Put(n)
      PROVE  Outbound'
  <2>1. n \in Nat
    BY ConstantsAssumption DEF ConstantsAssumption
  <2> QED
    BY <1>2, <2>1, PutOutKeepsOutbound DEF Put, ScriptGoes, sending
<1>3. ASSUME NEW n \in CallbackPuts, CallbackPut(n)
      PROVE  Outbound'
  <2>1. n \in Nat
    BY ConstantsAssumption DEF ConstantsAssumption
  <2> QED
    BY <1>3, <2>1, PutOutKeepsOutbound DEF CallbackPut, IoGoes, sending
<1>4. CASE TakeOut
  <2>1. ipc = "poll" /\ temp = <<>>
    BY <1>4 DEF TakeOut, IoGoes, Outbound
  <2>2. temp \o out = temp' \o out'
    BY <1>1, <1>4, <2>1, ConcatEmptySeq DEF TakeOut
  <2>3. ipc' = "recv" => temp' = <<>>
    BY <1>4 DEF TakeOut, IoGoes
  <2> QED
    BY <1>4, <2>1, <2>2, <2>3
       DEF TakeOut, IoGoes, Outbound, WireIsPrefix, Opening, Finishing
<1>5. CASE SendTo
  <2>1. CASE IsOpen
    BY <1>5, <2>1 DEF SendTo, IoGoes, Outbound, WireIsPrefix, Opening, Finishing,
                          outbound
  <2>2. CASE ~IsOpen
    BY <1>5, <2>2 DEF SendTo, IoGoes, Outbound, WireIsPrefix, Opening, Finishing,
                          outbound
  <2> QED
    BY <2>1, <2>2
<1>6. ASSUME NEW n \in 1..left, WriteTakes(n)
      PROVE  Outbound'
  <2>1. n = left /\ left = Len(temp)
    BY <1>6 DEF WriteTakes, IoGoes, WholeWrites, Outbound
  <2>2. SubSeq(temp, 1, n) = temp
    BY <1>1, <2>1, SubSeqFull
  <2>3. port = "open" /\ ipc = "write" /\ ipc' = "recv" /\ wire' = wire \o temp
        /\ temp' = <<>> /\ UNCHANGED <<port, queued, out>>
    BY <1>6, <2>1, <2>2 DEF WriteTakes, IoGoes, outbound
  <2>4. queued = (wire \o temp) \o out
    <3>1. queued = wire \o (temp \o out)
      BY <2>3 DEF Outbound, Finishing
    <3>2. (wire \o temp) \o out = wire \o (temp \o out)
      <4>1. Joined(Joined(wire, temp), out) = Joined(wire, Joined(temp, out))
        BY <1>1, JoinedAssoc
      <4> QED
        BY <4>1, Zenon DEF Joined
    <3> QED
      BY <3>1, <3>2
  <2>5. wire \o temp \in Seq(Nat)
    BY <1>1, ConcatProperties
  <2>6. IsPrefix(wire', queued')
    BY <1>1, <2>3, <2>4, <2>5, PrefixOfConcat
  <2>7. queued' = wire' \o (temp' \o out')
    BY <1>1, <2>3, <2>4, ConcatEmptySeq
  <2> QED
    BY <2>3, <2>6, <2>7 DEF Outbound, WireIsPrefix
<1>7. CASE WriteTimesOut
  BY <1>7 DEF WriteTimesOut, WholeWrites
<1>8. CASE WriteFails \/ WriteStray
  BY <1>8
     DEF WriteFails, WriteStray, IoGoes, Outbound, WireIsPrefix, Opening, Finishing,
         outbound
<1>9. CASE OpenSucceeds \/ OpenFails
  BY <1>9
     DEF OpenSucceeds, OpenFails, IoGoes, Outbound, WireIsPrefix, Opening, Finishing,
         outbound, sending
<1>19. CASE ThreadStarts
  BY <1>19, OutboundFrame DEF ThreadStarts, Lifecycle, InStep, Opening
\* All other steps leave the outbound bytes where they are.
<1>10. CASE UNCHANGED <<outbound, sending, wire, port, ipc>>
  BY <1>10, OutboundFrame DEF InStep
<1>11. CASE WaitingExits \/ Gets \/ ExpectStarts \/ ExpectPolls \/ ReadStarts
            \/ Exit \/ UsesNull \/ CloseTests \/ ScriptEnds \/ DeleteStarts
  BY <1>10, <1>11
     DEF WaitingExits, Gets, ExpectStarts, ExpectPolls, ReadStarts, Exit,
         UsesNull, CallsNull, CloseTests, PortTest, ScriptEnds, DeleteStarts, ScriptGoes
<1>20. CASE NotATty
  BY <1>20, OutboundFrame DEF NotATty, ScriptGoes, Lifecycle, PortOnce, InStep, Opening
<1>12. CASE DeletesNull \/ ThreadFails \/ Constructed \/ PutReturns \/ ExpectEnds
            \/ ReadTakes \/ DeleteTests \/ Kill \/ SeesEnded \/ DeletePc
            \/ StopThread \/ Join
  BY <1>10, <1>12
     DEF DeletesNull, CallsNull, ThreadFails, Constructed, PutReturns, ExpectEnds, ReadTakes, DeleteTests,
         PortTest, Kill, SeesEnded, DeletePc, StopThread, Join, ScriptGoes
<1>13. CASE CloseCloses \/ CloseResets \/ DeleteCloses \/ DeleteResets
  BY <1>13, OutboundFrame
     DEF CloseCloses, CloseResets, DeleteCloses, DeleteResets, PortClose,
         PortReset, ScriptGoes, InStep
<1>14. CASE IoStart \/ CanCall \/ LoopTest
  BY <1>14, OutboundFrame
     DEF IoStart, CanCall, LoopTest, IoGoes, InStep, Opening, Finishing
<1>15. CASE IoReceives
  BY <1>15, OutboundFrame
     DEF IoReceives, RecFrom, ReadNothing, ReadBytes, ReadStray, Store, IoGoes,
         InStep, Opening, Finishing
<1>16. CASE Received \/ CallbackGets \/ CallbackPutReturns \/ CallbackWaits
            \/ CallbackWaitEnds \/ CallbackCloseTests \/ CallbackCloses
            \/ CallbackResets
  BY <1>16, OutboundFrame
     DEF Received, CallbackGets, CallbackPutReturns, CallbackWaits,
         CallbackWaitEnds, CallbackCloseTests, CallbackCloses, CallbackResets,
         IoPortClose, IoPortReset, IoGoes, InStep, Opening, Finishing
<1>17. CASE IoFinishes
  BY <1>17, OutboundFrame
     DEF IoFinishes, IoFin, IoCloses, IoResets, IoPortClose, IoPortReset, IoEnds, IoStops, IoGoes, InStep,
         Opening, Finishing
<1>18. CASE UNCHANGED vars
  BY <1>10, <1>18 DEF vars
<1> QED
  BY <1>2, <1>3, <1>4, <1>5, <1>6, <1>7, <1>8, <1>9, <1>19, <1>20, <1>11, <1>12,
     <1>13, <1>14, <1>15, <1>16, <1>17, <1>18
     DEF Next, ScriptChooses, ScriptRuns, IoRuns, IoOpens, IoSends, IoCallback

\* The outbound part of the invariant.
LEMMA OutboundInvariant == ASSUME WholeWrites PROVE Spec => []Outbound
<1>1. Init => Outbound
  BY EmptySeq, ConcatEmptySeq, PrefixReflexive
     DEF Init, Outbound, WireIsPrefix, Opening
<1> QED
  BY <1>1, TypeCorrect, LifecycleHolds, NextOutbound, PTL DEF Spec

\* The line takes the queued bytes in order, none skipped and none repeated.
THEOREM WireHolds == ASSUME WholeWrites PROVE Spec => []WireIsPrefix
<1>1. Outbound => WireIsPrefix
  BY DEF Outbound
<1> QED
  BY <1>1, OutboundInvariant, PTL

-----------------------------------------------------------------------------
(* Outbound bytes on any line. *)

\* putOut adds as many bytes to the queue as to the history.
LEMMA PutOutKeepsAccounting ==
  ASSUME TypeOK, Accounting, NEW n \in Nat, PutOut(n),
         UNCHANGED <<temp, left, wire>>, ipc' = "write" <=> ipc = "write"
  PROVE  Accounting'
<1> DEFINE b == Fresh(queued, n)
<1>1. b \in Seq(Nat) /\ queued \in Seq(Nat) /\ out \in Seq(Nat)
  BY FreshIsSeq DEF TypeOK
<1>2. queued' = queued \o b /\ out' = out \o b
  BY DEF PutOut
<1> HIDE DEF b
<1>3. /\ Len(queued') = Len(queued) + Len(b)
      /\ Len(out') = Len(out) + Len(b)
      /\ Len(queued) \in Nat /\ Len(out) \in Nat /\ Len(b) \in Nat
  BY <1>1, <1>2, ConcatProperties, LenProperties
<1>4. Len(wire) \in Nat /\ InHand \in Nat
  BY LenProperties DEF TypeOK, InHand
<1>5. wire' = wire /\ InHand' = InHand
  BY DEF InHand
<1> QED
  BY <1>3, <1>4, <1>5 DEF Accounting

LEMMA NextAccounting == TypeOK /\ Lifecycle /\ Accounting /\ [Next]_vars => Accounting'
<1> SUFFICES ASSUME TypeOK, Lifecycle, Accounting, [Next]_vars
             PROVE  Accounting'
  OBVIOUS
<1>1. /\ Len(wire) \in Nat /\ Len(temp) \in Nat /\ Len(out) \in Nat
      /\ Len(queued) \in Nat /\ left \in Nat /\ Len(<<>>) = 0
      /\ ipc = "write" => left <= Len(temp)
  BY LenProperties DEF TypeOK
<1>2. ASSUME NEW n \in PutSizes, Put(n)
      PROVE  Accounting'
  <2>1. n \in Nat
    BY ConstantsAssumption DEF ConstantsAssumption
  <2> QED
    BY <1>2, <2>1, PutOutKeepsAccounting DEF Put, ScriptGoes, sending
<1>3. ASSUME NEW n \in CallbackPuts, CallbackPut(n)
      PROVE  Accounting'
  <2>1. n \in Nat
    BY ConstantsAssumption DEF ConstantsAssumption
  <2> QED
    BY <1>3, <2>1, PutOutKeepsAccounting DEF CallbackPut, IoGoes, sending
<1>4. CASE TakeOut
  <2>1. temp' = out /\ out' = <<>> /\ UNCHANGED <<wire, queued>>
        /\ ipc # "write" /\ ipc' # "write"
    BY <1>4 DEF TakeOut, IoGoes
  <2> QED
    BY <1>1, <2>1 DEF Accounting, InHand
<1>5. CASE SendTo
  <2>1. CASE IsOpen
    BY <1>1, <1>5, <2>1 DEF SendTo, IoGoes, outbound, Accounting, InHand
  <2>2. CASE ~IsOpen
    BY <1>1, <1>5, <2>2 DEF SendTo, IoGoes, outbound, Accounting, InHand
  <2> QED
    BY <2>1, <2>2
<1>6. ASSUME NEW n \in 1..left, WriteTakes(n)
      PROVE  Accounting'
  <2>1. /\ ipc = "write" /\ n \in Nat /\ n <= left /\ left <= Len(temp)
        /\ wire' = wire \o SubSeq(temp, 1, n)
        /\ UNCHANGED <<out, queued>>
    BY <1>1, <1>6 DEF WriteTakes, IoGoes, outbound
  <2>2. /\ SubSeq(temp, 1, n) \in Seq(Nat)
        /\ Len(SubSeq(temp, 1, n)) = n
    <3>1. temp \in Seq(Nat) /\ \A i \in 1..n : temp[i] \in Nat
      <4>1. temp \in Seq(Nat) /\ left \in Nat
        BY <1>1, <2>1 DEF TypeOK
      <4>2. \A i \in 1..n : i \in 1..Len(temp)
        BY <2>1, <4>1, LenProperties
      <4> QED
        BY <4>1, <4>2, ElementOfSeq
    <3> QED
      BY <2>1, <3>1, SubSeqProperties
  <2>3. Len(wire') = Len(wire) + n
    <3>1. wire \in Seq(Nat)
      BY DEF TypeOK
    <3> QED
      BY <2>1, <2>2, <3>1, ConcatProperties
  <2>4. CASE n < left /\ IoGoes("write", "write") /\ left' = left - n /\ UNCHANGED temp
    BY <1>1, <2>1, <2>3, <2>4 DEF IoGoes, Accounting, InHand
  <2>5. CASE IoGoes("write", "recv") /\ left' = 0 /\ temp' = <<>>
    BY <1>1, <2>1, <2>3, <2>5 DEF IoGoes, Accounting, InHand
  <2> QED
    BY <1>6, <2>4, <2>5 DEF WriteTakes
<1>7. CASE WriteTimesOut \/ WriteFails \/ WriteStray
  <2>1. temp' = <<>> /\ UNCHANGED <<out, wire, queued>>
        /\ ipc = "write" /\ ipc' # "write"
    BY <1>7 DEF WriteTimesOut, WriteFails, WriteStray, IoGoes, outbound
  <2> QED
    BY <1>1, <2>1 DEF Accounting, InHand
\* All other steps leave the outbound bytes where they are.
<1>8. ASSUME UNCHANGED <<outbound, sending, wire>>, ipc' = "write" <=> ipc = "write"
      PROVE  Accounting'
  BY <1>8 DEF outbound, sending, Accounting, InHand
<1>9. CASE WaitingExits \/ Gets \/ ExpectStarts \/ ExpectPolls \/ ReadStarts
            \/ Exit \/ UsesNull \/ CloseTests \/ ScriptEnds \/ DeleteStarts
  BY <1>8, <1>9
     DEF WaitingExits, Gets, ExpectStarts, ExpectPolls, ReadStarts, Exit,
         UsesNull, CallsNull, CloseTests, PortTest, ScriptEnds, DeleteStarts, ScriptGoes
<1>10. CASE NotATty \/ DeletesNull \/ ThreadStarts \/ ThreadFails \/ Constructed
            \/ PutReturns \/ ExpectEnds \/ ReadTakes \/ DeleteTests \/ Kill \/ SeesEnded \/ DeletePc
            \/ StopThread \/ Join
  BY <1>8, <1>10
     DEF NotATty, DeletesNull, CallsNull, ThreadStarts, Lifecycle, ThreadFails, Constructed, PutReturns, ExpectEnds,
         ReadTakes, DeleteTests, PortTest, Kill, SeesEnded, DeletePc, StopThread,
         Join, ScriptGoes
<1>11. CASE CloseCloses \/ CloseResets \/ DeleteCloses \/ DeleteResets
  BY <1>8, <1>11
     DEF CloseCloses, CloseResets, DeleteCloses, DeleteResets, PortClose,
         PortReset, ScriptGoes
<1>12. CASE IoOpens \/ LoopTest \/ IoReceives
  BY <1>8, <1>12
     DEF IoOpens, IoStart, OpenSucceeds, OpenFails, CanCall, LoopTest, IoReceives,
         RecFrom, ReadNothing, ReadBytes, ReadStray, Store, IoGoes
<1>13. CASE Received \/ CallbackGets \/ CallbackPutReturns \/ CallbackWaits
            \/ CallbackWaitEnds \/ CallbackCloseTests \/ CallbackCloses
            \/ CallbackResets \/ IoFinishes
  BY <1>8, <1>13
     DEF Received, CallbackGets, CallbackPutReturns, CallbackWaits,
         CallbackWaitEnds, CallbackCloseTests, CallbackCloses, CallbackResets,
         IoFinishes, IoFin, IoCloses, IoResets, IoPortClose, IoPortReset, IoEnds,
         IoStops, IoGoes
<1>14. CASE UNCHANGED vars
  BY <1>8, <1>14 DEF vars
<1> QED
  BY <1>2, <1>3, <1>4, <1>5, <1>6, <1>7, <1>9, <1>10, <1>11, <1>12, <1>13, <1>14
     DEF Next, ScriptChooses, ScriptRuns, IoRuns, IoSends, IoCallback

\* However many writes are partial or run out of time, the line never takes
\* more bytes than were queued.
THEOREM AccountingHolds == Spec => []Accounting
<1>1. Init => Accounting
  BY EmptySeq DEF Init, Accounting, InHand
<1> QED
  BY <1>1, TypeCorrect, LifecycleHolds, NextAccounting, PTL DEF Spec
-----------------------------------------------------------------------------
(* What a put promises. *)

\* Only a put, and the IO thread that takes the queue over, change the queue; a
\* put returns only when it is empty or the program ends.
LEMMA NextPutHandsOver ==
  FlagTypes /\ Lifecycle /\ PutHandsOver /\ [Next]_vars => PutHandsOver'
<1> SUFFICES ASSUME FlagTypes, Lifecycle, PutHandsOver, [Next]_vars,
                    EXIT \notin WaitingResults
             PROVE  PutHandsOver'
  BY Zenon DEF PutHandsOver
<1>1. ~running \/ spc = "wc" \/ ipc = "cb_wc" \/ out = <<>>
  BY Zenon DEF PutHandsOver
<1>2. running \in BOOLEAN
  BY Zenon DEF FlagTypes
\* The program ends once: no step sets __alive again.
<1>3. ASSUME running' = FALSE
      PROVE  PutHandsOver'
  BY <1>3, Zenon DEF PutHandsOver
<1>4. ASSUME running' = running, out' = out, spc = "wc" => spc' = "wc",
             ipc = "cb_wc" => ipc' = "cb_wc"
      PROVE  PutHandsOver'
  BY <1>1, <1>4, Zenon DEF PutHandsOver
\* The steps that fill the queue, empty it, or return from a put.
<1>5. ASSUME NEW n \in PutSizes, Put(n)
      PROVE  PutHandsOver'
  BY <1>5, Zenon DEF Put, ScriptGoes, PutHandsOver
<1>6. CASE TakeOut
  BY <1>6, Zenon DEF TakeOut, PutHandsOver
<1>7. CASE PutReturns
  <2>1. ~running \/ out = <<>>
    BY <1>7, Zenon DEF PutReturns, Completed
  <2>2. running' = running /\ out' = out
    BY <1>7, Zenon DEF PutReturns, outbound
  <2> QED
    BY <2>1, <2>2, Zenon DEF PutHandsOver
\* The steps that may end the program.
<1>8. CASE WaitingExits \/ Exit
  BY <1>3, <1>8, Zenon DEF WaitingExits, Exit
<1>9. CASE Received
  <2>1. running' \in {running, FALSE} /\ UNCHANGED <<spc, out>> /\ ipc # "cb_wc"
    BY <1>9, Zenon DEF Received, MayExit, IoGoes, outbound
  <2>2. running' = running \/ running' = FALSE
    BY <2>1
  <2> QED
    BY <1>3, <1>4, <2>1, <2>2, Zenon
\* All other steps leave the queue alone.
<1>10. CASE Gets \/ ExpectStarts \/ ExpectPolls \/ ReadStarts \/ UsesNull
            \/ CloseTests \/ ScriptEnds \/ DeleteStarts
  <2>1. running' = running /\ out' = out /\ spc # "wc" /\ ipc' = ipc
    BY <1>10
       DEF Gets, ExpectStarts, ExpectPolls, ReadStarts, UsesNull, CallsNull,
           CloseTests, PortTest, ScriptEnds, DeleteStarts, ScriptGoes, outbound
  <2> QED
    BY <1>4, <2>1, Zenon
<1>11. CASE NotATty \/ DeletesNull \/ ThreadFails \/ Constructed
            \/ ExpectEnds \/ ReadTakes \/ CloseCloses \/ CloseResets \/ DeleteTests
            \/ DeleteCloses \/ DeleteResets \/ Kill \/ SeesEnded \/ DeletePc
            \/ StopThread \/ Join
  <2>1. running' = running /\ out' = out /\ spc # "wc" /\ ipc' = ipc
    BY <1>11
       DEF NotATty, DeletesNull, CallsNull, ThreadFails,
           Constructed, ExpectEnds, ReadTakes,
           CloseCloses, CloseResets, DeleteTests, DeleteCloses, DeleteResets,
           PortTest, PortClose, PortReset, Kill, SeesEnded, DeletePc,
           StopThread, Join, ScriptGoes, outbound
  <2> QED
    BY <1>4, <2>1, Zenon
<1>12. CASE IoOpens \/ LoopTest \/ IoReceives
  <2>1. running' = running /\ out' = out /\ spc' = spc /\ ipc # "cb_wc"
    BY <1>12
       DEF IoOpens, IoStart, OpenSucceeds, OpenFails, CanCall, LoopTest,
           IoReceives, RecFrom, ReadNothing, ReadBytes, ReadStray, Store,
           IoGoes, outbound
  <2> QED
    BY <1>4, <2>1, Zenon
<1>13. CASE SendTo \/ (\E n \in 1..left : WriteTakes(n)) \/ WriteTimesOut
            \/ WriteFails \/ WriteStray
  <2>1. running' = running /\ out' = out /\ spc' = spc /\ ipc # "cb_wc"
    BY <1>13
       DEF SendTo, WriteTakes, WriteTimesOut, WriteFails, WriteStray, IoGoes,
           outbound
  <2> QED
    BY <1>4, <2>1, Zenon
<1>14. CASE CallbackGets \/ CallbackWaits
            \/ CallbackWaitEnds \/ CallbackCloseTests \/ CallbackCloses
            \/ CallbackResets \/ IoFinishes
  <2>1. running' = running /\ out' = out /\ spc' = spc /\ ipc # "cb_wc"
    BY <1>14
       DEF CallbackGets, CallbackWaits, CallbackWaitEnds,
           CallbackCloseTests, CallbackCloses, CallbackResets, IoFinishes, IoFin,
           IoCloses, IoResets, IoPortClose, IoPortReset, IoEnds, IoStops, IoGoes,
           outbound
  <2> QED
    BY <1>4, <2>1, Zenon
<1>15. CASE UNCHANGED vars
  BY <1>4, <1>15, Zenon DEF vars, outbound
<1>16. ASSUME NEW n \in CallbackPuts, CallbackPut(n)
       PROVE  PutHandsOver'
  BY <1>16, Zenon DEF CallbackPut, IoGoes, PutHandsOver
<1>17. CASE ThreadStarts
  <2>1. running' = running /\ out' = out /\ spc = "new"
    BY <1>17, Zenon DEF ThreadStarts, outbound
  <2>2. ipc # "cb_wc"
    BY <2>1, Zenon DEF Lifecycle
  <2> QED
    BY <1>4, <2>1, <2>2, Zenon
<1>18. CASE CallbackPutReturns
  <2>1. ~running \/ out = <<>>
    BY <1>18, Zenon DEF CallbackPutReturns, Completed
  <2>2. running' = running /\ out' = out
    BY <1>18, Zenon DEF CallbackPutReturns, outbound
  <2> QED
    BY <2>1, <2>2, Zenon DEF PutHandsOver
<1> QED
  BY <1>5, <1>6, <1>7, <1>8, <1>9, <1>10, <1>11, <1>12, <1>13, <1>14, <1>15,
     <1>16, <1>17, <1>18, Zenon
     DEF Next, ScriptChooses, ScriptRuns, IoRuns, IoSends, IoCallback

\* While the program runs, no put of either thread has returned and left bytes in
\* the queue, unless "waiting" may cut it short.
THEOREM PutHandsOverHolds == Spec => []PutHandsOver
<1>1. Init => PutHandsOver
  BY DEF Init, PutHandsOver
<1>2. TypeOK => FlagTypes
  BY Zenon DEF TypeOK, FlagTypes
<1> QED
  BY <1>1, <1>2, TypeCorrect, LifecycleHolds, NextPutHandsOver, PTL DEF Spec

-----------------------------------------------------------------------------
(* The Device implements ByteChannel whenever ::write takes whole buffers  *)
(* and descriptor 0 is no terminal.                                        *)

CleanLine == WholeWrites /\ "stdin" \notin Faults

\* The initial states are the channel's.
LEMMA InitRefines == Init => Channel!Init
BY DEF Init, Channel!Init, Link

\* A step that leaves what the channel shows alone.
LEMMA Stutters ==
  ASSUME UNCHANGED <<port, queued, wire, got, taken>>
  PROVE  UNCHANGED Channel!vars
BY DEF Channel!vars, Link

\* putOut queues.
LEMMA PutOutQueues ==
  ASSUME TypeOK, NEW n \in Nat, PutOut(n), UNCHANGED <<port, wire, got, taken>>
  PROVE  Channel!Queue
<1>1. queued \in Seq(Nat) /\ Fresh(queued, n) \in Seq(Nat)
  BY FreshIsSeq DEF TypeOK
<1>2. IsPrefix(queued, queued')
  BY <1>1, PrefixOfConcat DEF PutOut
<1> QED
  BY <1>2 DEF Channel!Queue, Link, IsPrefix, Channel!IsPrefix

\* getIn hands bytes out.
LEMMA GetInHands ==
  ASSUME TypeOK, Inbound, GetIn, UNCHANGED <<port, queued, wire, got>>
  PROVE  Channel!Hand
<1>1. /\ taken \in Seq(Nat) /\ in \in Seq(Nat) /\ shot \in Seq(Nat)
      /\ taken \o in \in Seq(Nat)
  BY ConcatProperties DEF TypeOK
<1>2. IsPrefix(taken, taken \o in)
  BY <1>1, PrefixOfConcat
<1>3. IsPrefix(taken \o in, got)
  BY <1>1, PrefixOfConcat DEF Inbound, InboundOnce
<1> QED
  BY <1>2, <1>3 DEF GetIn, Channel!Hand, Link, IsPrefix, Channel!IsPrefix

\* A port that is closed or reset breaks the link, or finds it broken.
LEMMA ClosingBreaks ==
  ASSUME TypeOK, UNCHANGED <<queued, wire, got, taken>>,
         \/ port' \in {"dangling", "zero"}
         \/ port' = port
  PROVE  Channel!Break \/ UNCHANGED Channel!vars
<1>1. Link \in {"down", "up", "broken"}
  BY DEF TypeOK, Ports, Link
<1>2. CASE port' = port
  BY <1>2, Stutters
<1>3. CASE port' \in {"dangling", "zero"}
  BY <1>1, <1>3 DEF Link, Channel!Break, Channel!vars
<1> QED
  BY <1>2, <1>3

\* ::write carries bytes.
LEMMA WriteCarries ==
  ASSUME WholeWrites, TypeOK, Outbound, Outbound', NEW n \in 1..left, WriteTakes(n)
  PROVE  Channel!Carry
<1>1. n = left /\ left = Len(temp)
  BY DEF WriteTakes, IoGoes, WholeWrites, Outbound
<1>2. temp \in Seq(Nat) /\ wire \in Seq(Nat)
  BY DEF TypeOK
<1>3. SubSeq(temp, 1, n) = temp
  BY <1>1, <1>2, SubSeqFull
<1>4. wire' = wire \o temp /\ port = "open" /\ UNCHANGED <<port, queued, got, taken>>
  BY <1>3 DEF WriteTakes, outbound
<1>5. IsPrefix(wire, wire')
  BY <1>2, <1>4, PrefixOfConcat
<1>6. IsPrefix(wire', queued)
  BY <1>4 DEF Outbound, WireIsPrefix
<1> QED
  BY <1>4, <1>5, <1>6 DEF Channel!Carry, Link, IsPrefix, Channel!IsPrefix

\* ::read lets bytes arrive.
LEMMA ReadArrives ==
  ASSUME TypeOK, NEW n \in ReadSizes, ReadBytes(n)
  PROVE  Channel!Arrive
<1>1. Fresh(got, n) \in Seq(Nat) /\ got \in Seq(Nat)
  BY ConstantsAssumption, FreshIsSeq DEF ConstantsAssumption, TypeOK
<1>2. IsPrefix(got, got')
  BY <1>1, PrefixOfConcat DEF ReadBytes
<1> QED
  BY <1>2 DEF ReadBytes, outbound, Channel!Arrive, Link, IsPrefix, Channel!IsPrefix

\* Every step of the two threads is a step of the channel or invisible.
LEMMA NextRefines ==
  ASSUME CleanLine
  PROVE  /\ TypeOK /\ Lifecycle /\ PortOnce /\ Inbound /\ Outbound /\ Outbound'
         /\ [Next]_vars
         => [Channel!Next]_Channel!vars
<1> SUFFICES ASSUME TypeOK, Lifecycle, PortOnce, Inbound, Outbound, Outbound', [Next]_vars
             PROVE  [Channel!Next]_Channel!vars
  OBVIOUS
<1> USE DEF outbound, Channel!Next
<1>1. ASSUME NEW n \in PutSizes, Put(n)
      PROVE  Channel!Queue
  <2>1. n \in Nat
    BY ConstantsAssumption DEF ConstantsAssumption
  <2> QED
    BY <1>1, <2>1, PutOutQueues DEF Put
<1>2. ASSUME NEW n \in CallbackPuts, CallbackPut(n)
      PROVE  Channel!Queue
  <2>1. n \in Nat
    BY ConstantsAssumption DEF ConstantsAssumption
  <2> QED
    BY <1>2, <2>1, PutOutQueues DEF CallbackPut
<1>3. CASE Gets \/ ExpectPolls \/ ReadTakes \/ CallbackGets \/ CallbackWaits
  BY <1>3, GetInHands
     DEF Gets, ExpectPolls, ReadTakes, CallbackGets, CallbackWaits
<1>4. CASE CloseCloses \/ CloseResets \/ DeleteCloses \/ DeleteResets
           \/ IoCloses \/ IoResets \/ CallbackCloses \/ CallbackResets
  BY <1>4, ClosingBreaks
     DEF CloseCloses, CloseResets, DeleteCloses, DeleteResets, PortClose,
         PortReset, IoCloses, IoResets, CallbackCloses, CallbackResets,
         IoPortClose, IoPortReset
<1>5. CASE OpenSucceeds
  BY <1>5 DEF OpenSucceeds, IoGoes, PortOnce, Opening, Link, Channel!Connect
<1>6. CASE OpenFails
  <2>1. CASE port' = "open"
    BY <1>6, <2>1 DEF OpenFails, IoGoes, PortOnce, Opening, Link, Channel!Connect
  <2>2. CASE port' # "open"
    BY <1>6, <2>2, ClosingBreaks DEF OpenFails, IoGoes, PortOnce, Opening
  <2> QED
    BY <2>1, <2>2
<1>7. ASSUME NEW n \in 1..left, WriteTakes(n)
      PROVE  Channel!Carry
  BY <1>7, WriteCarries DEF CleanLine
<1>8. ASSUME NEW n \in ReadSizes, ReadBytes(n)
      PROVE  Channel!Arrive
  BY <1>8, ReadArrives
<1>9. CASE ReadStray
  BY <1>9 DEF ReadStray, CleanLine
\* The steps the channel does not see.
<1>15. CASE NotATty
  BY <1>15 DEF NotATty, ScriptGoes, Lifecycle, PortOnce, Opening, Channel!vars, Link
<1>10. CASE WaitingExits \/ ExpectStarts \/ ReadStarts \/ Exit \/ UsesNull
            \/ CloseTests \/ ScriptEnds \/ DeleteStarts
  BY <1>10, Stutters
     DEF WaitingExits, ExpectStarts, ReadStarts, Exit, UsesNull, CallsNull,
         CloseTests, PortTest, ScriptEnds, DeleteStarts
<1>11. CASE DeletesNull \/ ThreadStarts \/ ThreadFails \/ Constructed \/ PutReturns \/ ExpectEnds
            \/ DeleteTests \/ Kill \/ SeesEnded \/ DeletePc \/ StopThread \/ Join
  BY <1>11, Stutters
     DEF DeletesNull, CallsNull, ThreadStarts, ThreadFails, Constructed, PutReturns, ExpectEnds,
         DeleteTests, PortTest, Kill, SeesEnded, DeletePc, StopThread, Join
<1>12. CASE IoStart \/ CanCall \/ LoopTest \/ TakeOut \/ SendTo \/ WriteTimesOut
            \/ WriteFails \/ WriteStray
  BY <1>12, Stutters
     DEF IoStart, CanCall, LoopTest, TakeOut, SendTo, WriteTimesOut, WriteFails,
         WriteStray
<1>13. CASE RecFrom \/ ReadNothing \/ Store \/ Received \/ CallbackPutReturns
            \/ CallbackWaitEnds \/ CallbackCloseTests \/ IoFin \/ IoEnds \/ IoStops
  BY <1>13, Stutters
     DEF RecFrom, ReadNothing, Store, Received, CallbackPutReturns,
         CallbackWaitEnds, CallbackCloseTests, IoFin, IoEnds, IoStops
<1>14. CASE UNCHANGED vars
  BY <1>14, Stutters DEF vars
<1> QED
  BY <1>1, <1>2, <1>3, <1>4, <1>5, <1>6, <1>7, <1>8, <1>9, <1>10, <1>11, <1>12,
     <1>13, <1>14, <1>15
     DEF Next, ScriptChooses, ScriptRuns, IoRuns, IoOpens, IoSends,
         IoReceives, IoCallback, IoFinishes

\* The script thread, the IO thread and the queues between them implement the
\* byte channel.
THEOREM DeviceIsAChannel == ASSUME CleanLine PROVE Spec => ChannelSpec
<1>1. WholeWrites
  BY DEF CleanLine
<1>2. Spec => [](TypeOK /\ Lifecycle /\ PortOnce)
  BY TypeCorrect, LifecycleHolds, PTL
<1>3. Spec => []Inbound
  BY InboundInvariant
<1>4. Spec => []Outbound
  BY <1>1, OutboundInvariant
<1> QED
  BY <1>2, <1>3, <1>4, InitRefines, NextRefines, PTL
     DEF Spec, ChannelSpec, Channel!Spec
=============================================================================
