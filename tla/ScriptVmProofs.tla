--------------------------- MODULE ScriptVmProofs ---------------------------
(***************************************************************************)
(* Theorems about ScriptVm, for any number of Devices.  Whatever they do,  *)
(* the memory of a VM that is closed with no callback under way is freed   *)
(* with nobody in it (FreedLast).  On lines that are silent while the      *)
(* script runs, and with at most one Device that calls back, every thread  *)
(* works on its own frame (OwnFrame) and leaves the stack as high as it    *)
(* was (HeightKept), until the VM is closed under a callback.              *)
(***************************************************************************)
EXTENDS ScriptVm, SequenceTheorems, TLAPS

USE ScriptVmAssumption

\* At most one Device calls back.
OneCallback == \A c, d \in Callbacks : c = d

\* The calls of a thread are a sequence, and a script is called by main() only.
CallsType ==
  /\ calls = [t \in Threads |-> calls[t]]
  /\ \A t \in Threads : \E S : calls[t] \in Seq(S)
  /\ \A i \in DOMAIN calls[Script] : calls[Script][i].kind = "script" => i = 1

States == {"none", "open", "closed", "last", "ended", "gone"}

\* Only IO threads that call back are ever in the VM, and none that has ended;
\* whoever deletes a Device stays with it until it is gone.
ThreadsInv ==
  /\ dev \in [Devices -> States]
  /\ \A d \in Devices : InCall(d) => d \in Callbacks /\ dev[d] \in {"open", "closed", "last"}
  /\ \A d \in Devices :
       dev[d] \in {"closed", "last", "ended"} => \E t \in Threads : Deletes(t, d)

\* The VM is being closed, or its memory is freed, with no callback under way.
Shut == vm.state \in {"closing", "freed"} /\ vm.under = {}
Done == vm.state = "freed" /\ vm.under = {}

\* main() is out of the VM before its script and when it has closed it.  A VM
\* that is closed has no root table, so that no function is found in it.
ClosedInv ==
  /\ main \in {"start", "compile", "script", "Run", "ended"} => ~InCall(Script)
  /\ vm.state \in {"closing", "freed"} => ~vm.root /\ main \in {"close", "ended"}
  /\ vm.state \notin {"closing", "freed"} => vm.under = {}
  /\ Shut => \A d \in Devices : ~InCall(d)
  /\ Done => ~InCall(Script) /\ \A d \in Devices : dev[d] \in {"none", "gone"}

\* The type of vm.
VmTyped ==
  vm \in [state : {"none", "open", "closing", "freed"}, suspended : BOOLEAN, root : BOOLEAN,
          under : SUBSET Devices]

\* The inductive invariant.
FreedInv == CallsType /\ ThreadsInv /\ ClosedInv /\ VmTyped

----------------------------------------------------------------------------
(* Calls *)

\* A call is put on the calls of its thread, and those of the others stay.
LEMMA CallBegins ==
  ASSUME CallsType, NEW t \in Threads, NEW kind, NEW d, Begins(t, kind, d),
         kind = "script" => t # Script \/ ~InCall(Script)
  PROVE  /\ CallsType' /\ InCall(t)'
         /\ Last(calls[t])'.kind = kind /\ Last(calls[t])'.of = d
         /\ \A u \in Threads \ {t} : calls'[u] = calls[u]
<1> DEFINE c == [kind |-> kind, of |-> d, depth |-> Len(frames), top |-> Height]
<1>1. /\ calls'[t] = Append(calls[t], c)
      /\ calls' = [u \in Threads |-> calls'[u]]
      /\ \A u \in Threads \ {t} : calls'[u] = calls[u]
  BY DEF Begins, CallsType
<1>2. PICK S : calls[t] \in Seq(S)
  BY DEF CallsType
<1> HIDE DEF c
<1>3. /\ Append(calls[t], c) \in Seq(S \union {c})
      /\ Len(Append(calls[t], c)) = Len(calls[t]) + 1
      /\ Append(calls[t], c)[Len(calls[t]) + 1] = c
      /\ \A i \in 1 .. Len(calls[t]) : Append(calls[t], c)[i] = calls[t][i]
      /\ DOMAIN Append(calls[t], c) = 1 .. Len(calls[t]) + 1
      /\ DOMAIN calls[t] = 1 .. Len(calls[t]) /\ Len(calls[t]) \in Nat
  BY <1>2
<1>4. InCall(t)' /\ Last(calls[t])' = c
  BY <1>1, <1>3 DEF InCall, Last
<1>5. \A u \in Threads : \E R : calls'[u] \in Seq(R)
  BY <1>1, <1>3 DEF CallsType
<1>6. \A i \in DOMAIN calls'[Script] : calls'[Script][i].kind = "script" => i = 1
  <2>1. CASE t # Script
    BY <2>1, <1>1 DEF CallsType, Threads
  <2>2. CASE t = Script
    <3>1. c.kind = kind
      BY DEF c
    <3>2. kind = "script" => Len(calls[Script]) = 0
      BY <2>2, <1>2, <1>3 DEF InCall
    <3>3. QED
      BY <3>1, <3>2, <2>2, <1>1, <1>3 DEF CallsType
  <2>3. QED
    BY <2>1, <2>2
<1>7. c.kind = kind /\ c.of = d
  BY DEF c
<1>8. QED
  BY <1>1, <1>4, <1>5, <1>6, <1>7 DEF CallsType

\* A call ends, and with it the script's thread is out of the script.
LEMMA CallEnds ==
  ASSUME CallsType, NEW t \in Threads, InCall(t), Ends(t)
  PROVE  /\ CallsType'
         /\ \A u \in Threads \ {t} : calls'[u] = calls[u]
         /\ t = Script /\ Doing(Script, "script") => ~InCall(Script)'
<1>1. /\ calls'[t] = Front(calls[t])
      /\ calls' = [u \in Threads |-> calls'[u]]
      /\ \A u \in Threads \ {t} : calls'[u] = calls[u]
  BY DEF Ends, CallsType
<1>2. PICK S : calls[t] \in Seq(S)
  BY DEF CallsType
<1>3. Len(calls[t]) \in Nat \ {0} /\ DOMAIN calls[t] = 1 .. Len(calls[t])
  BY <1>2 DEF InCall
<1>4. /\ Front(calls[t]) \in Seq(S)
      /\ Len(Front(calls[t])) = Len(calls[t]) - 1
      /\ DOMAIN Front(calls[t]) = 1 .. Len(calls[t]) - 1
      /\ \A i \in 1 .. Len(calls[t]) - 1 : Front(calls[t])[i] = calls[t][i]
  BY <1>2, <1>3 DEF Front
<1>5. \A u \in Threads : \E R : calls'[u] \in Seq(R)
  BY <1>1, <1>4 DEF CallsType
<1>6. \A i \in DOMAIN calls'[Script] : calls'[Script][i].kind = "script" => i = 1
  <2>1. CASE t # Script
    BY <2>1, <1>1 DEF CallsType, Threads
  <2>2. CASE t = Script
    <3>1. \A i \in 1 .. Len(calls[t]) - 1 : i \in 1 .. Len(calls[t])
      BY <1>3
    <3>2. \A i \in 1 .. Len(calls[t]) - 1 : calls[t][i].kind = "script" => i = 1
      BY <2>2, <1>3, <3>1 DEF CallsType
    <3>3. QED
      BY <2>2, <3>2, <1>1, <1>4
  <2>3. QED
    BY <2>1, <2>2
<1>7. ASSUME t = Script, Doing(Script, "script") PROVE ~InCall(Script)'
  <2>1. Len(calls[t]) = 1
    BY <1>3, <1>7 DEF Doing, Last, CallsType
  <2>2. QED
    BY <2>1, <1>1, <1>4, <1>7 DEF InCall
<1>8. QED
  BY <1>1, <1>5, <1>6, <1>7 DEF CallsType

----------------------------------------------------------------------------
\* Init establishes the invariant.
LEMMA InitHolds == Init => FreedInv
<1> SUFFICES ASSUME Init PROVE FreedInv
  OBVIOUS
<1>1. <<>> \in Seq({}) /\ DOMAIN <<>> = {}
  OBVIOUS
<1>2. calls = [t \in Threads |-> <<>>]
  BY DEF Init
<1>3. CallsType
  BY <1>1, <1>2 DEF CallsType, Threads
<1>4. ThreadsInv /\ ClosedInv /\ VmTyped
  BY <1>2 DEF Init, ThreadsInv, ClosedInv, VmTyped, States, InCall, Threads, Shut, Done
<1>5. QED
  BY <1>3, <1>4 DEF FreedInv

\* Evaluate begins a call, or none.
LEMMA EvaluateCalls ==
  ASSUME NEW t \in Threads, Evaluate(t)
  PROVE  Begins(t, "function", Nobody) \/ UNCHANGED calls
BY DEF Evaluate

\* What a step leaves when it changes the calls of one thread that deletes
\* nothing, and no Device.
LEMMA CallKeeps ==
  ASSUME FreedInv, CallsType', NEW t \in Threads, ~Doing(t, "~Device"), UNCHANGED dev,
         \A u \in Threads \ {t} : calls'[u] = calls[u],
         t \in Devices => t \in Callbacks /\ dev[t] \in {"open", "closed", "last"}
  PROVE  ThreadsInv'
<1>1. \A d \in Devices : InCall(d)' => d \in Callbacks /\ dev'[d] \in {"open", "closed", "last"}
  BY DEF FreedInv, ThreadsInv, InCall, Threads
<1>2. ASSUME NEW d \in Devices, dev'[d] \in {"closed", "last", "ended"}
      PROVE  \E u \in Threads : Deletes(u, d)'
  <2>1. PICK u \in Threads : Deletes(u, d)
    BY <1>2 DEF FreedInv, ThreadsInv
  <2>2. u # t
    BY <2>1 DEF Deletes
  <2>3. QED
    BY <2>1, <2>2 DEF Deletes, Doing, InCall
<1>3. QED
  BY <1>1, <1>2 DEF FreedInv, ThreadsInv

\* A step that changes no calls, and lets a Device come to life or its IO
\* thread go on.
LEMMA NoCallKeeps ==
  ASSUME FreedInv, UNCHANGED calls, NEW d \in Devices, NEW s \in States,
         dev' = [dev EXCEPT ![d] = s],
         s \in {"closed", "last", "ended"} => dev[d] \in {"closed", "last"},
         InCall(d) => s \in {"open", "closed", "last"}
  PROVE  ThreadsInv'
<1>1. \A c \in Devices : InCall(c)' => c \in Callbacks /\ dev'[c] \in {"open", "closed", "last"}
  BY DEF FreedInv, ThreadsInv, InCall
<1>2. \A c \in Devices :
        dev'[c] \in {"closed", "last", "ended"} => dev[c] \in {"closed", "last", "ended"}
  BY DEF FreedInv, ThreadsInv, States
<1>3. \A c \in Devices :
        dev'[c] \in {"closed", "last", "ended"} => \E u \in Threads : Deletes(u, c)'
  BY <1>2 DEF FreedInv, ThreadsInv, Deletes, Doing, InCall
<1>4. dev' \in [Devices -> States]
  BY DEF FreedInv, ThreadsInv
<1>5. QED
  BY <1>1, <1>3, <1>4 DEF ThreadsInv

\* Whose call it is, where a step needs one.
LEMMA InScriptCalls ==
  ASSUME FreedInv, NEW t \in Threads, InCall(t)
  PROVE  t \in Devices => t \in Callbacks /\ dev[t] \in {"open", "closed", "last"}
BY DEF FreedInv, ThreadsInv

----------------------------------------------------------------------------
(* The threads *)

\* A deletion begins: whoever begins it is then in it.
LEMMA ReleasesKeeps ==
  ASSUME FreedInv, NEW t \in Threads, NEW d \in Devices, Releases(t, d)
  PROVE  CallsType' /\ ThreadsInv'
<1>1. /\ CallsType' /\ InCall(t)' /\ Last(calls[t])'.kind = "~Device" /\ Last(calls[t])'.of = d
      /\ \A u \in Threads \ {t} : calls'[u] = calls[u]
  BY CallBegins DEF Releases, FreedInv
<1>2. ~Doing(t, "~Device") /\ (t = Script \/ InCall(t))
  BY DEF Releases, InScript, Doing
<1>3. dev[d] = "open" /\ dev' = [dev EXCEPT ![d] = "closed"] /\ dev' \in [Devices -> States]
  BY DEF Releases, FreedInv, ThreadsInv, States
<1>4. \A c \in Devices : InCall(c)' => c \in Callbacks /\ dev'[c] \in {"open", "closed", "last"}
  BY <1>1, <1>2, <1>3 DEF FreedInv, ThreadsInv, InCall, Threads
<1>5. ASSUME NEW c \in Devices, dev'[c] \in {"closed", "last", "ended"}
      PROVE  \E u \in Threads : Deletes(u, c)'
  <2>1. CASE c = d
    BY <1>1, <2>1 DEF Deletes, Doing
  <2>2. CASE c # d
    <3>1. PICK u \in Threads : Deletes(u, c)
      BY <1>3, <1>5, <2>2 DEF FreedInv, ThreadsInv
    <3>2. u # t
      BY <1>2, <3>1 DEF Deletes
    <3>3. QED
      BY <1>1, <3>1, <3>2 DEF Deletes, Doing, InCall
  <2>3. QED
    BY <2>1, <2>2
<1>6. QED
  BY <1>1, <1>3, <1>4, <1>5 DEF ThreadsInv

\* A deletion ends: its Device is gone, and every other is with its own thread.
LEMMA DeletedKeeps ==
  ASSUME FreedInv, NEW t \in Threads, Deleted(t)
  PROVE  CallsType' /\ ThreadsInv'
<1> DEFINE d == Last(calls[t]).of
<1>1. InCall(t) /\ Deletes(t, d) /\ dev[d] = "ended"
  BY DEF Deleted, Doing, Deletes
<1>2. CallsType' /\ \A u \in Threads \ {t} : calls'[u] = calls[u]
  BY <1>1, CallEnds DEF Deleted, FreedInv
<1> HIDE DEF d
<1>3. dev' = [dev EXCEPT ![d] = "gone"] /\ dev' \in [Devices -> States]
  BY DEF Deleted, FreedInv, ThreadsInv, States, d
<1>4. ASSUME NEW c \in Devices, InCall(c)'
      PROVE  c \in Callbacks /\ dev'[c] \in {"open", "closed", "last"}
  <2>1. InCall(c)
    BY <1>1, <1>2, <1>4 DEF InCall, Threads
  <2>2. QED
    BY <2>1, <1>1, <1>3 DEF FreedInv, ThreadsInv
<1>5. ASSUME NEW c \in Devices, dev'[c] \in {"closed", "last", "ended"}
      PROVE  \E u \in Threads : Deletes(u, c)'
  <2>1. c # d /\ dev[c] = dev'[c]
    BY <1>3, <1>5 DEF FreedInv, ThreadsInv
  <2>2. PICK u \in Threads : Deletes(u, c)
    BY <2>1, <1>5 DEF FreedInv, ThreadsInv
  <2>3. u # t
    BY <2>1, <2>2, <1>1 DEF Deletes
  <2>4. QED
    BY <1>2, <2>2, <2>3 DEF Deletes, Doing, InCall
<1>6. QED
  BY <1>2, <1>3, <1>4, <1>5 DEF ThreadsInv
\* The IO thread calls a function, or finds none.
LEMMA ReceivesKeeps ==
  ASSUME FreedInv, NEW d \in Devices, Receives(d)
  PROVE  CallsType' /\ ThreadsInv'
<1> DEFINE s == IF dev[d] = "closed" THEN "last" ELSE dev[d]
<1>1. /\ d \in Callbacks /\ d \in Threads /\ dev[d] \in {"open", "closed"} /\ ~InCall(d)
      /\ dev' = [dev EXCEPT ![d] = s] /\ s \in {"open", "last"} /\ s \in States
      /\ s = "last" => dev[d] = "closed"
      /\ d # Script
  BY DEF Receives, Threads, States
<1> HIDE DEF s
<1>2. CASE UNCHANGED calls
  <2>1. ThreadsInv'
    BY <1>1, <1>2, NoCallKeeps
  <2>2. QED
    BY <2>1, <1>2 DEF FreedInv, CallsType
<1>3. CASE Begins(d, "function", Nobody)
  <2>1. CallsType' /\ \A u \in Threads \ {d} : calls'[u] = calls[u]
    BY <1>1, <1>3, CallBegins DEF FreedInv
  <2>2. \A c \in Devices : InCall(c)' => c \in Callbacks /\ dev'[c] \in {"open", "closed", "last"}
    BY <2>1, <1>1 DEF FreedInv, ThreadsInv, InCall, Threads
  <2>3. ASSUME NEW c \in Devices, dev'[c] \in {"closed", "last", "ended"}
        PROVE  \E u \in Threads : Deletes(u, c)'
    <3>1. dev[c] \in {"closed", "last", "ended"}
      BY <1>1, <2>3 DEF FreedInv, ThreadsInv
    <3>2. PICK u \in Threads : Deletes(u, c)
      BY <3>1 DEF FreedInv, ThreadsInv
    <3>3. u # d
      BY <1>1, <3>2 DEF Deletes, Doing
    <3>4. QED
      BY <2>1, <3>2, <3>3 DEF Deletes, Doing, InCall
  <2>4. dev' \in [Devices -> States]
    BY <1>1 DEF FreedInv, ThreadsInv
  <2>5. QED
    BY <2>1, <2>2, <2>3, <2>4 DEF ThreadsInv
<1>4. QED
  BY <1>1, <1>2, <1>3, EvaluateCalls DEF Receives

\* What main() and the functions of a script do to the calls.
LEMMA ThreadsStep == FreedInv /\ [Next]_vars => CallsType' /\ ThreadsInv'
<1> SUFFICES ASSUME FreedInv, [Next]_vars PROVE CallsType' /\ ThreadsInv'
  OBVIOUS
<1>0. Script \in Threads /\ Script \notin Devices
  BY DEF Threads
<1>1. ASSUME UNCHANGED <<calls, dev>> PROVE CallsType' /\ ThreadsInv'
  BY <1>1 DEF FreedInv, CallsType, ThreadsInv, Deletes, Doing, InCall
<1>2. ASSUME Opens \/ Compiles \/ ScriptDone \/ RunEnds \/ Finalizes \/ Frees \/ Closes
      PROVE  CallsType' /\ ThreadsInv'
  BY <1>1, <1>2 DEF Opens, Compiles, ScriptDone, RunEnds, Finalizes, Frees, Closes
<1>3. ASSUME Runs PROVE CallsType' /\ ThreadsInv'
  <2>1. ~InCall(Script) /\ UNCHANGED dev
    BY <1>3 DEF Runs, FreedInv, ClosedInv
  <2>2. CallsType' /\ \A u \in Threads \ {Script} : calls'[u] = calls[u]
    BY <2>1, <1>0, <1>3, CallBegins DEF Runs, FreedInv
  <2>3. QED
    BY <2>1, <2>2, <1>0, CallKeeps DEF Doing
<1>4. ASSUME ScriptEnds \/ Suspends PROVE CallsType' /\ ThreadsInv'
  <2>1. Doing(Script, "script") /\ InCall(Script) /\ ~Doing(Script, "~Device")
        /\ Ends(Script) /\ UNCHANGED dev
    BY <1>4 DEF ScriptEnds, Suspends, Doing
  <2>2. CallsType' /\ \A u \in Threads \ {Script} : calls'[u] = calls[u]
    BY <2>1, <1>0, CallEnds DEF FreedInv
  <2>3. QED
    BY <2>1, <2>2, <1>0, CallKeeps
<1>5. ASSUME NEW d \in Devices, Constructs(d) PROVE CallsType' /\ ThreadsInv'
  <2>1. dev[d] = "none" /\ dev' = [dev EXCEPT ![d] = "open"] /\ UNCHANGED calls
    BY <1>5 DEF Constructs
  <2>2. ThreadsInv'
    BY <2>1, NoCallKeeps DEF States
  <2>3. QED
    BY <2>1, <2>2 DEF FreedInv, CallsType
<1>6. ASSUME NEW d \in Devices, IoEnds(d) PROVE CallsType' /\ ThreadsInv'
  <2>1. /\ dev[d] \in {"closed", "last"} /\ dev' = [dev EXCEPT ![d] = "ended"]
        /\ UNCHANGED calls /\ ~InCall(d)
    BY <1>6 DEF IoEnds
  <2>2. ThreadsInv'
    BY <2>1, NoCallKeeps DEF States
  <2>3. QED
    BY <2>1, <2>2 DEF FreedInv, CallsType
<1>7. ASSUME NEW t \in Threads, NEW e \in Devices, CallsMethod(t, e)
      PROVE  CallsType' /\ ThreadsInv'
  <2>1. InCall(t) /\ ~Doing(t, "~Device") /\ UNCHANGED dev
    BY <1>7 DEF CallsMethod, InScript, Doing
  <2>2. CallsType' /\ \A u \in Threads \ {t} : calls'[u] = calls[u]
    BY <1>7, CallBegins DEF CallsMethod, FreedInv
  <2>3. QED
    BY <2>1, <2>2, CallKeeps, InScriptCalls
<1>7a. ASSUME NEW t \in Threads, NotifyWaiting(t) PROVE CallsType' /\ ThreadsInv'
  <2>1. InCall(t) /\ ~Doing(t, "~Device") /\ UNCHANGED dev
    BY <1>7a DEF NotifyWaiting, Doing
  <2>2. CASE UNCHANGED calls
    BY <2>1, <2>2, <1>1
  <2>3. CASE Begins(t, "function", Nobody)
    <3>1. CallsType' /\ \A u \in Threads \ {t} : calls'[u] = calls[u]
      BY <2>3, CallBegins DEF FreedInv
    <3>2. QED
      BY <3>1, <2>1, CallKeeps, InScriptCalls
  <2>4. QED
    BY <1>7a, <2>2, <2>3, EvaluateCalls DEF NotifyWaiting
<1>8. ASSUME NEW t \in Threads, MethodReturns(t) \/ FunctionEnds(t) PROVE CallsType' /\ ThreadsInv'
  <2>1. InCall(t) /\ ~Doing(t, "~Device") /\ UNCHANGED dev /\ Ends(t)
    BY <1>8 DEF MethodReturns, FunctionEnds, Doing
  <2>2. CallsType' /\ \A u \in Threads \ {t} : calls'[u] = calls[u]
    BY <2>1, CallEnds DEF FreedInv
  <2>3. QED
    BY <2>1, <2>2, CallKeeps, InScriptCalls
<1>9. ASSUME NEW t \in Threads, Exits(t) PROVE CallsType' /\ ThreadsInv'
  BY <1>1, <1>9 DEF Exits
<1>10. ASSUME UNCHANGED vars PROVE CallsType' /\ ThreadsInv'
  BY <1>1, <1>10 DEF vars
<1>11. QED
  BY <1>2, <1>3, <1>4, <1>5, <1>6, <1>7, <1>7a, <1>8, <1>9, <1>10, ReleasesKeeps, DeletedKeeps, ReceivesKeeps
     DEF Next, MainSteps

----------------------------------------------------------------------------
(* The closing *)

\* Once the memory is freed with nobody in the VM, sq_close returns and that
\* is all.
LEMMA Over ==
  ASSUME FreedInv, Done, Next
  PROVE  Closes
<1>1. /\ \A t \in Threads : ~InCall(t)
      /\ \A d \in Devices : dev[d] \in {"none", "gone"}
      /\ main \in {"close", "ended"} /\ vm.state = "freed"
  BY DEF FreedInv, ClosedInv, Done, Shut, Threads
<1>2. MainSteps => Closes
  BY <1>1 DEF MainSteps, Opens, Compiles, Runs, ScriptEnds, ScriptDone, Suspends, RunEnds,
              Finalizes, Frees
<1>3. ASSUME NEW d \in Devices PROVE ~(Constructs(d) \/ Receives(d) \/ IoEnds(d))
  BY <1>1 DEF Constructs, Receives, IoEnds, Doing, Threads
<1>4. ASSUME NEW t \in Threads
      PROVE  ~(NotifyWaiting(t) \/ MethodReturns(t) \/ FunctionEnds(t) \/ Exits(t) \/ Deleted(t))
  BY <1>1 DEF NotifyWaiting, MethodReturns, FunctionEnds, Exits, Deleted, InScript, Doing
<1>5. ASSUME NEW t \in Threads, NEW d \in Devices PROVE ~(CallsMethod(t, d) \/ Releases(t, d))
  BY <1>1 DEF CallsMethod, Releases, InScript, Doing
<1>6. QED
  BY <1>2, <1>3, <1>4, <1>5 DEF Next

\* Where a step is made by a thread that is in a call, or by the script's while
\* it deletes Devices.
LEMMA ClosedStays ==
  ASSUME FreedInv, ~Done, NEW t \in Threads, UNCHANGED <<main, vm>>,
         InCall(t) \/ (t = Script /\ main \in {"locals", "close"}),
         \A u \in Threads \ {t} : calls'[u] = calls[u]
  PROVE  ClosedInv' /\ VmTyped'
<1>1. main \in {"start", "compile", "script", "Run", "ended"} => ~InCall(Script)'
  BY DEF FreedInv, ClosedInv, InCall, Threads
<1>2. Shut => \A d \in Devices : ~InCall(d)'
  <2> SUFFICES ASSUME Shut, NEW d \in Devices PROVE ~InCall(d)'
    OBVIOUS
  <2>1. t = Script /\ d # Script /\ ~InCall(d)
    BY DEF FreedInv, ClosedInv, Threads
  <2>2. QED
    BY <2>1 DEF InCall, Threads
<1>3. QED
  BY <1>1, <1>2 DEF FreedInv, ClosedInv, VmTyped, Shut, Done

\* When the VM is finalized the callbacks that are under way are known, and
\* when its memory is freed with none of them no Device is left.
LEMMA ClosedByMain ==
  ASSUME FreedInv, RunEnds \/ Finalizes \/ Frees \/ Closes
  PROVE  ClosedInv' /\ VmTyped'
<1>1. CASE RunEnds
  BY <1>1 DEF RunEnds, FreedInv, ClosedInv, VmTyped, InCall, Shut, Done
<1>2. CASE Finalizes
  <2>1. /\ UNCHANGED <<main, calls>> /\ main = "close" /\ vm'.state = "closing" /\ vm'.root = FALSE
        /\ vm'.under = {d \in Devices : InCall(d)} /\ VmTyped'
    BY <1>2 DEF Finalizes, FreedInv, VmTyped
  <2>2. ASSUME vm'.under = {}, NEW d \in Devices PROVE ~InCall(d)
    BY ONLY <2>1, <2>2
  <2>3. QED
    BY <2>1, <2>2 DEF ClosedInv, InCall, Shut, Done
<1>3. CASE Frees
  <2>1. /\ UNCHANGED <<main, calls, dev>> /\ main = "close" /\ vm.state = "closing" /\ ~InCall(Script)
        /\ vm'.state = "freed" /\ vm'.root = vm.root /\ vm'.under = vm.under /\ VmTyped'
    BY <1>3 DEF Frees, FreedInv, VmTyped
  <2>2. ASSUME vm.under = {}, NEW d \in Devices PROVE ~InCall(d) /\ dev[d] \in {"none", "gone"}
    <3>1. \A t \in Threads : ~InCall(t)
      BY <2>1, <2>2 DEF FreedInv, ClosedInv, Shut, Threads
    <3>2. dev[d] # "open"
      BY <1>3, <2>2 DEF Frees, RootInUse
    <3>3. dev[d] \notin {"closed", "last", "ended"}
      BY <3>1 DEF FreedInv, ThreadsInv, Deletes, Doing
    <3>4. QED
      BY <3>1, <3>2, <3>3 DEF FreedInv, ThreadsInv, States, Threads
  <2>3. ~vm.root
    BY <2>1 DEF FreedInv, ClosedInv
  <2>4. QED
    BY <2>1, <2>2, <2>3 DEF ClosedInv, InCall, Shut, Done
<1>4. CASE Closes
  BY <1>4 DEF Closes, FreedInv, ClosedInv, VmTyped, InCall, Shut, Done
<1>5. QED
  BY <1>1, <1>2, <1>3, <1>4

LEMMA ClosedStep == FreedInv /\ [Next]_vars => ClosedInv' /\ VmTyped'
<1> SUFFICES ASSUME FreedInv, [Next]_vars PROVE ClosedInv' /\ VmTyped'
  OBVIOUS
<1>0. Script \in Threads /\ Script \notin Devices
  BY DEF Threads
<1>1. CASE UNCHANGED vars
  BY <1>1 DEF vars, FreedInv, ClosedInv, VmTyped, InCall, Shut, Done
<1>2. CASE Next /\ Done
  BY <1>2, Over, ClosedByMain
<1>3. CASE Next /\ ~Done
  <2>1. CASE Opens \/ Compiles \/ ScriptDone
    <3>1. /\ VmTyped' /\ UNCHANGED calls /\ main' \notin {"close", "ended"}
          /\ main \notin {"close", "ended"} /\ vm'.state \notin {"closing", "freed"}
          /\ vm'.under = {} /\ ~InCall(Script)
      <4>1. main \notin {"close", "ended"} /\ ~InCall(Script) /\ UNCHANGED calls
            /\ main' \notin {"close", "ended"}
        BY <2>1 DEF Opens, Compiles, ScriptDone, FreedInv, ClosedInv
      <4>2. vm.state \notin {"closing", "freed"} /\ vm.under = {}
        BY <4>1 DEF FreedInv, ClosedInv
      <4>3. CASE vm' = vm
        BY <4>1, <4>2, <4>3 DEF FreedInv, VmTyped
      <4>4. CASE Opens
        BY <4>1, <4>2, <4>4 DEF Opens, FreedInv, VmTyped
      <4>5. QED
        BY <2>1, <4>3, <4>4 DEF Compiles, ScriptDone
    <3>2. QED
      BY <3>1 DEF ClosedInv, InCall, Shut, Done
  <2>2. CASE Runs \/ ScriptEnds
    <3>1. /\ main \notin {"close", "ended"} /\ UNCHANGED vm
          /\ main' \notin {"start", "compile", "script", "Run", "ended", "close"}
      BY <2>2 DEF Runs, ScriptEnds
    <3>2. QED
      BY <3>1 DEF FreedInv, ClosedInv, VmTyped, Shut, Done
  <2>3. CASE Suspends
    <3>1. ~InCall(Script)' /\ main' = "Run"
      BY <2>3, <1>0, CallEnds DEF Suspends, FreedInv, Doing
    <3>2. vm.state \notin {"closing", "freed"} /\ vm.under = {}
      BY <2>3 DEF Suspends, FreedInv, ClosedInv
    <3>3. VmTyped' /\ vm'.state = vm.state /\ vm'.under = vm.under
      BY <2>3 DEF Suspends, FreedInv, VmTyped
    <3>4. QED
      BY <3>1, <3>2, <3>3 DEF ClosedInv, Shut, Done
  <2>4. ASSUME UNCHANGED <<main, vm, calls>> PROVE ClosedInv' /\ VmTyped'
    BY <1>3, <2>4 DEF FreedInv, ClosedInv, VmTyped, InCall, Shut, Done
  <2>5. ASSUME NEW d \in Devices, Constructs(d) \/ IoEnds(d) PROVE ClosedInv' /\ VmTyped'
    BY <2>4, <2>5 DEF Constructs, IoEnds
  <2>6. ASSUME NEW d \in Devices, Receives(d) PROVE ClosedInv' /\ VmTyped'
    <3>1. d \in Threads /\ d # Script /\ UNCHANGED <<main, vm>> /\ Evaluate(d)
      BY <2>6 DEF Receives, Threads
    <3>2. CASE UNCHANGED calls
      BY <3>1, <3>2, <2>4
    <3>3. CASE Begins(d, "function", Nobody)
      <4>1. calls'[Script] = calls[Script] /\ InCall(d)'
        BY <3>1, <3>3, <1>0, CallBegins DEF FreedInv
      <4>2. ~InCall(d)
        BY <2>6 DEF Receives
      <4>3. vm.root
        <5>1. ASSUME ~vm.root PROVE UNCHANGED calls
          BY <5>1, <3>1 DEF Evaluate, Found
        <5>2. QED
          BY <5>1, <4>1, <4>2 DEF InCall
      <4>4. ~Shut /\ ~Done
        BY <4>3 DEF FreedInv, ClosedInv, Shut, Done
      <4>5. QED
        BY <3>1, <4>1, <4>4 DEF FreedInv, ClosedInv, VmTyped, InCall, Shut, Done
    <3>4. QED
      BY <3>1, <3>2, <3>3, EvaluateCalls
  <2>7. ASSUME NEW t \in Threads, MethodReturns(t) \/ FunctionEnds(t) \/ Deleted(t)
        PROVE ClosedInv' /\ VmTyped'
    <3>1. InCall(t) /\ Ends(t) /\ UNCHANGED <<main, vm>>
      BY <2>7 DEF MethodReturns, FunctionEnds, Deleted, Doing
    <3>2. QED
      BY <1>3, <3>1, CallEnds, ClosedStays DEF FreedInv
  <2>8. ASSUME NEW t \in Threads, Exits(t) PROVE ClosedInv' /\ VmTyped'
    BY <2>4, <2>8 DEF Exits
  <2>9. ASSUME NEW t \in Threads, NEW kind, NEW d, Begins(t, kind, d), kind # "script",
               InCall(t) \/ (t = Script /\ main \in {"locals", "close"}), UNCHANGED <<main, vm>>
        PROVE  ClosedInv' /\ VmTyped'
    BY <1>3, <2>9, CallBegins, ClosedStays DEF FreedInv
  <2>10. ASSUME NEW t \in Threads, NotifyWaiting(t) PROVE ClosedInv' /\ VmTyped'
    <3>1. InCall(t) /\ UNCHANGED <<main, vm>>
      BY <2>10 DEF NotifyWaiting, Doing
    <3>2. Begins(t, "function", Nobody) \/ UNCHANGED calls
      BY <2>10, EvaluateCalls DEF NotifyWaiting
    <3>3. QED
      BY <3>1, <3>2, <2>4, <2>9
  <2>11. ASSUME NEW t \in Threads, NEW d \in Devices, CallsMethod(t, d) \/ Releases(t, d)
         PROVE ClosedInv' /\ VmTyped'
    <3>1. InCall(t) \/ (t = Script /\ main \in {"locals", "close"})
      BY <2>11 DEF CallsMethod, Releases, InScript, Doing
    <3>2. /\ Begins(t, "method", d) \/ Begins(t, "~Device", d)
          /\ UNCHANGED <<main, vm>>
      BY <2>11 DEF CallsMethod, Releases
    <3>3. QED
      BY <3>1, <3>2, <2>9
  <2>12. QED
    BY <1>3, <2>1, <2>2, <2>3, <2>5, <2>6, <2>7, <2>8, <2>10, <2>11, ClosedByMain
       DEF Next, MainSteps
<1>4. QED
  BY <1>1, <1>2, <1>3

\* When the VM is closed with no callback under way its memory is freed last:
\* every Device has been deleted, and no IO thread is in the VM.
THEOREM FreedWithNobodyInIt == Spec => []FreedLast
<1>1. FreedInv => FreedLast
  BY DEF FreedInv, ClosedInv, FreedLast, Shut, Done
<1>2. FreedInv /\ [Next]_vars => FreedInv'
  BY ThreadsStep, ClosedStep DEF FreedInv
<1>3. QED
  BY <1>1, <1>2, InitHolds, PTL DEF Spec
----------------------------------------------------------------------------
(* The stack.  On lines that are silent while the script runs, and with    *)
(* one Device that calls back, the frames of the two threads never mix.    *)

Frame == [by : Threads \union {Nobody}, height : Int]
Kinds == {"script", "method", "function", "~Device"}
Call == [kind : Kinds, of : Devices \union {Nobody}, depth : Nat \ {0}, top : Int]

\* the frames and the calls
StackTyped ==
  /\ frames \in Seq(Frame) /\ frames # <<>>
  /\ \A t \in Threads : calls[t] \in Seq(Call)

\* how many frames there are while the last call of t works: a deletion has
\* none of its own
Level(t) ==
  LET c == Last(calls[t]) IN IF c.kind = "~Device" THEN c.depth ELSE c.depth + 1

\* Each call of a thread has the frame just above that of its outer call, a
\* deletion calls nothing, and a method calls "waiting" with its frame empty.
Nested(t) ==
  \A i \in DOMAIN calls[t] :
    /\ InFrame(t, calls[t][i])
    /\ calls[t][i].depth = calls[t][1].depth + (i - 1)
    /\ i + 1 \in DOMAIN calls[t] =>
         /\ calls[t][i].kind # "~Device"
         /\ calls[t][i].kind = "method" =>
              calls[t][i + 1].kind = "function" /\ calls[t][i + 1].top = 0

\* where main() runs no script any more
Asleep == {"Run", "close", "ended"}

\* what an IO thread calls
IoKinds == {"function", "method", "~Device"}

\* An IO thread is in the VM only while the script's thread sleeps in Run or
\* in the deletion of its Device, and its frame is the last.
IoTurn(d) ==
  InCall(d) =>
    /\ main \in Asleep \/ Deletes(Script, d)
    /\ calls[d][1].kind = "function"
    /\ \A i \in DOMAIN calls[d] : calls[d][i].kind \in IoKinds
    /\ Len(frames) = Level(d)

Silent == \A d \in Devices : ~InCall(d)

\* The script's thread finds its own frame last, or it sleeps below that of
\* an IO thread; outside its script it does nothing but delete.
ScriptTurn ==
  /\ main = "running" =>
       /\ InCall(Script) /\ calls[Script][1].kind = "script" /\ calls[Script][1].depth = 1
       /\ Silent => Len(frames) = Level(Script)
       /\ \A d \in Devices : InCall(d) => calls[d][1].depth = Level(Script)
  /\ main # "running" =>
       \A i \in DOMAIN calls[Script] : i = 1 /\ calls[Script][i].kind = "~Device"

\* what main() has on the stack: nothing, the root table, the closure, and the
\* root table and the closure once more for its call
Rest(m) ==
  IF m = "start" THEN 0
  ELSE IF m \in {"compile", "Run"} THEN 1
  ELSE IF m = "script" THEN 2 ELSE 4

\* The values of main() are where it expects them, or will be when the IO
\* thread that is in the VM restores the top it has found.
MainHeight ==
  /\ vm.suspended => main \in Asleep
  /\ main = "running" => frames[1].height = 4
  /\ ~vm.suspended /\ main \notin {"running", "close", "ended"} =>
       /\ Silent => Len(frames) = 1 /\ frames[1].height = Rest(main)
       /\ \A d \in Devices : InCall(d) => calls[d][1].depth = 1 /\ calls[d][1].top = Rest(main)

MethodHeight == \A t \in Threads : Doing(t, "method") => Height = 0

\* The inductive invariant.
StackInv ==
  /\ StackTyped
  /\ \A t \in Threads : Nested(t)
  /\ \A d \in Devices : IoTurn(d)
  /\ ScriptTurn
  /\ MainHeight
  /\ MethodHeight

----------------------------------------------------------------------------
(* What the operations on the stack do *)

\* A sequence without its last element.
LEMMA FrontDoes ==
  ASSUME NEW S, NEW s \in Seq(S), s # <<>>
  PROVE  /\ Front(s) \in Seq(S) /\ Len(Front(s)) = Len(s) - 1
         /\ \A i \in 1 .. Len(s) - 1 : Front(s)[i] = s[i]
<1>1. Len(s) \in Nat \ {0}
  BY EmptySeq
<1>2. \A i \in 1 .. Len(s) - 1 : s[i] \in S
  BY <1>1, ElementOfSeq
<1>3. Front(s) = SubSeq(s, 1, Len(s) - 1)
  BY DEF Front
<1> DEFINE n == Len(s) - 1
<1>4. n \in Int /\ 1 \in Int /\ \A i \in 1 .. n : s[i] \in S
  BY <1>1, <1>2
<1>5. /\ SubSeq(s, 1, n) \in Seq(S)
      /\ Len(SubSeq(s, 1, n)) = IF 1 <= n THEN n - 1 + 1 ELSE 0
      /\ \A i \in 1 .. n - 1 + 1 : SubSeq(s, 1, n)[i] = s[1 + i - 1]
  BY <1>4, SubSeqProperties
<1>6. /\ Front(s) = SubSeq(s, 1, n) /\ n = Len(s) - 1 /\ n - 1 + 1 = n /\ n \in Nat
      /\ \A i \in 1 .. n : 1 + i - 1 = i
  BY <1>1, <1>3
<1>7. \A i \in 1 .. n : SubSeq(s, 1, n)[i] = s[i]
  BY <1>5, <1>6
<1> HIDE DEF n
<1> QED
  BY <1>5, <1>6, <1>7

\* One frame of the stack is replaced.
LEMMA ReplaceLast ==
  ASSUME NEW f \in Seq(Frame), f # <<>>, NEW e \in Frame, e.by = f[Len(f)].by,
         NEW g, g = [f EXCEPT ![Len(f)] = e]
  PROVE  /\ g \in Seq(Frame) /\ Len(g) = Len(f) /\ g # <<>>
         /\ \A i \in 1 .. Len(f) : g[i].by = f[i].by
         /\ \A i \in 1 .. Len(f) - 1 : g[i].height = f[i].height
         /\ g[Len(f)].height = e.height
<1>1. Len(f) \in Nat \ {0} /\ Len(f) \in 1 .. Len(f)
  BY EmptySeq
<1>2. /\ g \in Seq(Frame) /\ Len(g) = Len(f)
      /\ \A i \in 1 .. Len(f) : g[i] = IF i = Len(f) THEN e ELSE f[i]
  <2>1. /\ [f EXCEPT ![Len(f)] = e] \in Seq(Frame)
        /\ Len([f EXCEPT ![Len(f)] = e]) = Len(f)
        /\ \A i \in 1 .. Len(f) :
             [f EXCEPT ![Len(f)] = e][i] = IF i = Len(f) THEN e ELSE f[i]
    BY <1>1, ExceptSeq
  <2> QED
    BY <2>1, Zenon
<1>3. g # <<>>
  BY <1>1, <1>2, EmptySeq
<1>4. \A i \in 1 .. Len(f) - 1 : i \in 1 .. Len(f) /\ i # Len(f)
  BY <1>1
<1>5. \A i \in 1 .. Len(f) : g[i].by = f[i].by
  BY <1>2, Zenon
<1>6. \A i \in 1 .. Len(f) - 1 : g[i].height = f[i].height
  BY <1>2, <1>4, Zenon
<1>7. g[Len(f)].height = e.height
  BY <1>1, <1>2, Zenon
<1> QED
  BY <1>2, <1>3, <1>5, <1>6, <1>7, Zenon

LEMMA LastFrame ==
  ASSUME NEW f \in Seq(Frame), f # <<>>
  PROVE  /\ Len(f) \in Nat \ {0} /\ Len(f) \in 1 .. Len(f) /\ DOMAIN f = 1 .. Len(f)
         /\ f[Len(f)] \in Frame
<1>1. Len(f) \in Nat \ {0} /\ Len(f) \in 1 .. Len(f)
  BY EmptySeq
<1> QED
  BY <1>1, LenProperties, ElementOfSeq

LEMMA PushDoes ==
  ASSUME NEW f \in Seq(Frame), f # <<>>, NEW n \in Int
  PROVE  /\ Push(f, n) \in Seq(Frame) /\ Len(Push(f, n)) = Len(f) /\ Push(f, n) # <<>>
         /\ \A i \in 1 .. Len(f) : Push(f, n)[i].by = f[i].by
         /\ \A i \in 1 .. Len(f) - 1 : Push(f, n)[i].height = f[i].height
         /\ Push(f, n)[Len(f)].height = f[Len(f)].height + n
<1>1. DOMAIN f = 1 .. Len(f) /\ Len(f) \in DOMAIN f /\ f[Len(f)] \in Frame
  BY LastFrame
<1> DEFINE e == [f[Len(f)] EXCEPT !.height = @ + n]
<1>2. e \in Frame /\ e.by = f[Len(f)].by /\ e.height = f[Len(f)].height + n
  BY <1>1 DEF Frame
<1>3. Push(f, n) = [f EXCEPT ![Len(f)] = e]
  BY DEF Push
<1> HIDE DEF e
<1> QED
  BY <1>2, <1>3, ReplaceLast

LEMMA SetTopDoes ==
  ASSUME NEW f \in Seq(Frame), f # <<>>, NEW n \in Int
  PROVE  /\ SetTop(f, n) \in Seq(Frame) /\ Len(SetTop(f, n)) = Len(f) /\ SetTop(f, n) # <<>>
         /\ \A i \in 1 .. Len(f) : SetTop(f, n)[i].by = f[i].by
         /\ \A i \in 1 .. Len(f) - 1 : SetTop(f, n)[i].height = f[i].height
         /\ SetTop(f, n)[Len(f)].height = n
<1>1. DOMAIN f = 1 .. Len(f) /\ Len(f) \in DOMAIN f /\ f[Len(f)] \in Frame
  BY LastFrame
<1> DEFINE e == [f[Len(f)] EXCEPT !.height = n]
<1>2. e \in Frame /\ e.by = f[Len(f)].by /\ e.height = n
  BY <1>1 DEF Frame
<1>3. SetTop(f, n) = [f EXCEPT ![Len(f)] = e]
  BY DEF SetTop
<1> HIDE DEF e
<1> QED
  BY <1>2, <1>3, ReplaceLast

LEMMA EnterDoes ==
  ASSUME NEW f \in Seq(Frame), NEW t \in Threads
  PROVE  /\ Enter(f, t) \in Seq(Frame) /\ Len(Enter(f, t)) = Len(f) + 1 /\ Enter(f, t) # <<>>
         /\ \A i \in 1 .. Len(f) : Enter(f, t)[i] = f[i]
         /\ Enter(f, t)[Len(f) + 1].by = t /\ Enter(f, t)[Len(f) + 1].height = 0
<1> DEFINE e == [by |-> t, height |-> 0]
<1>1. e \in Frame /\ e.by = t /\ e.height = 0
  BY DEF Frame
<1>2. Enter(f, t) = Append(f, e)
  BY DEF Enter
<1> HIDE DEF e
<1> QED
  BY <1>1, <1>2, AppendProperties

LEMMA LeaveDoes ==
  ASSUME NEW f \in Seq(Frame), Len(f) > 1
  PROVE  /\ Leave(f) \in Seq(Frame) /\ Len(Leave(f)) = Len(f) - 1 /\ Leave(f) # <<>>
         /\ \A i \in 1 .. Len(f) - 1 : Leave(f)[i] = f[i]
<1>1. f # <<>> /\ Len(f) \in Nat
  BY EmptySeq, LenProperties
<1>2. /\ Leave(f) \in Seq(Frame) /\ Len(Leave(f)) = Len(f) - 1
      /\ \A i \in 1 .. Len(f) - 1 : Leave(f)[i] = f[i]
  BY <1>1, FrontDoes DEF Leave
<1> QED
  BY <1>1, <1>2, EmptySeq

\* Two stacks of the same frames are one.
LEMMA SameFrames ==
  ASSUME NEW f \in Seq(Frame), NEW g \in Seq(Frame), Len(f) = Len(g),
         \A i \in 1 .. Len(f) : f[i].by = g[i].by /\ f[i].height = g[i].height
  PROVE  f = g
<1>1. ASSUME NEW a \in Frame, NEW b \in Frame, a.by = b.by, a.height = b.height
      PROVE  a = b
  BY <1>1 DEF Frame
<1>2. \A i \in 1 .. Len(f) : f[i] \in Frame /\ g[i] \in Frame
  BY ElementOfSeq
<1>3. \A i \in 1 .. Len(f) : f[i] = g[i]
  BY <1>1, <1>2
<1> QED
  BY <1>3, SeqEqual

\* What is pushed and popped again leaves the stack as it was.
LEMMA PushPop ==
  ASSUME NEW f \in Seq(Frame), f # <<>>, NEW m \in Int, NEW n \in Int
  PROVE  Push(Push(f, m), n) = Push(f, m + n) /\ Push(f, 0) = f
<1>1. Len(f) \in Nat \ {0} /\ f[Len(f)] \in Frame
  BY LastFrame
<1>2. /\ Push(f, m) \in Seq(Frame) /\ Push(f, m) # <<>> /\ m + n \in Int
      /\ Len(Push(f, m)) = Len(f)
  BY PushDoes
<1> DEFINE a == Push(Push(f, m), n)
           b == Push(f, m + n)
           c == Push(f, 0)
           p == Push(f, m)
<1>3. /\ p \in Seq(Frame) /\ a \in Seq(Frame) /\ b \in Seq(Frame) /\ c \in Seq(Frame)
      /\ Len(p) = Len(f) /\ Len(a) = Len(p) /\ Len(b) = Len(f) /\ Len(c) = Len(f)
  BY <1>2, PushDoes
<1>4. /\ \A i \in 1 .. Len(f) : p[i].by = f[i].by
      /\ \A i \in 1 .. Len(f) - 1 : p[i].height = f[i].height
      /\ p[Len(f)].height = f[Len(f)].height + m
  BY PushDoes
<1>5. /\ \A i \in 1 .. Len(p) : a[i].by = p[i].by
      /\ \A i \in 1 .. Len(p) - 1 : a[i].height = p[i].height
      /\ a[Len(p)].height = p[Len(p)].height + n
  BY <1>2, PushDoes
<1>6. /\ \A i \in 1 .. Len(f) : b[i].by = f[i].by
      /\ \A i \in 1 .. Len(f) - 1 : b[i].height = f[i].height
      /\ b[Len(f)].height = f[Len(f)].height + (m + n)
  BY <1>2, PushDoes
<1>7. /\ \A i \in 1 .. Len(f) : c[i].by = f[i].by
      /\ \A i \in 1 .. Len(f) - 1 : c[i].height = f[i].height
      /\ c[Len(f)].height = f[Len(f)].height + 0
  BY PushDoes
<1> HIDE DEF a, b, c, p
<1>8. f[Len(f)].height \in Int
  BY <1>1 DEF Frame
<1>9. \A i \in 1 .. Len(f) : i \in 1 .. Len(f) - 1 \/ i = Len(f)
  BY <1>1
<1>10. a = b
  <2>1. a[Len(f)].height = b[Len(f)].height
    BY <1>3, <1>4, <1>5, <1>6, <1>8
  <2>2. \A i \in 1 .. Len(f) - 1 : a[i].height = b[i].height
    BY <1>3, <1>4, <1>5, <1>6
  <2>3. \A i \in 1 .. Len(a) : a[i].by = b[i].by /\ a[i].height = b[i].height
    BY <1>3, <1>4, <1>5, <1>6, <1>9, <2>1, <2>2
  <2> QED
    BY <1>3, <2>3, SameFrames
<1>11. c = f
  BY <1>3, <1>7, <1>8, <1>9, SameFrames
<1> QED
  BY <1>10, <1>11 DEF a, b, c

\* Looking a function up leaves the stack as it was.
LEMMA GetFunctionKeeps ==
  ASSUME NEW f \in Seq(Frame), f # <<>>, NEW what
  PROVE  GetFunction(f, what) = f
<1>1. /\ Push(f, 2) \in Seq(Frame) /\ Push(f, 2) # <<>>
      /\ Push(Push(f, 2), -1) = Push(f, 1) /\ Push(Push(f, 2), -2) = f
  BY PushDoes, PushPop
<1>2. Push(Push(f, 1), -1) = f
  BY PushPop
<1> QED
  BY <1>1, <1>2 DEF GetFunction, Pop

\* Evaluate calls a function in a frame of its own, or leaves the stack alone.
LEMMA EvaluateDoes ==
  ASSUME StackTyped, NEW t \in Threads, Evaluate(t)
  PROVE  \/ UNCHANGED <<calls, frames>>
         \/ Begins(t, "function", Nobody) /\ frames' = Enter(Push(frames, 3), t)
<1>1. frames \in Seq(Frame) /\ frames # <<>>
  BY DEF StackTyped
<1>2. \A what : GetFunction(frames, what) = frames
  BY <1>1, GetFunctionKeeps
<1>3. Pop(Push(frames, 2), 2) = frames
  BY <1>1, PushPop DEF Pop
<1> QED
  BY <1>2, <1>3 DEF Evaluate

----------------------------------------------------------------------------
(* What a call does to the calls and to the frames *)

\* The calls of a thread, as the lemmas below read them.
LEMMA CallsOf ==
  ASSUME StackTyped, NEW t \in Threads
  PROVE  /\ calls[t] \in Seq(Call) /\ Len(calls[t]) \in Nat /\ DOMAIN calls[t] = 1 .. Len(calls[t])
         /\ \A i \in DOMAIN calls[t] : calls[t][i] \in Call
         /\ InCall(t) => /\ Len(calls[t]) \in Nat \ {0} /\ Len(calls[t]) \in DOMAIN calls[t]
                         /\ 1 \in DOMAIN calls[t]
                         /\ Last(calls[t]) = calls[t][Len(calls[t])] /\ Last(calls[t]) \in Call
         /\ ~InCall(t) => Len(calls[t]) = 0
<1>1. calls[t] \in Seq(Call)
  BY DEF StackTyped
<1>2. Len(calls[t]) \in Nat /\ DOMAIN calls[t] = 1 .. Len(calls[t])
  BY <1>1, LenProperties
<1>3. \A i \in DOMAIN calls[t] : calls[t][i] \in Call
  BY <1>1, <1>2, ElementOfSeq
<1>4. InCall(t) => Len(calls[t]) \in Nat \ {0}
  BY <1>1, EmptySeq DEF InCall
<1>5. ~InCall(t) => Len(calls[t]) = 0
  BY EmptySeq DEF InCall
<1>6. InCall(t) => 1 \in 1 .. Len(calls[t]) /\ Len(calls[t]) \in 1 .. Len(calls[t])
  BY <1>4
<1> QED
  BY <1>1, <1>2, <1>3, <1>4, <1>5, <1>6 DEF Last

\* A call begins.
LEMMA CallsGrow ==
  ASSUME StackTyped, CallsType, NEW t \in Threads, NEW kind \in Kinds,
         NEW d \in Devices \union {Nobody}, Begins(t, kind, d)
  PROVE  /\ \A u \in Threads \ {t} : calls'[u] = calls[u]
         /\ calls'[t] \in Seq(Call) /\ Len(calls'[t]) = Len(calls[t]) + 1
         /\ \A i \in DOMAIN calls[t] : calls'[t][i] = calls[t][i]
         /\ DOMAIN calls'[t] = 1 .. Len(calls[t]) + 1
         /\ InCall(t)' /\ Last(calls[t])' = calls'[t][Len(calls[t]) + 1]
         /\ calls'[t][Len(calls[t]) + 1] =
              [kind |-> kind, of |-> d, depth |-> Len(frames), top |-> Height]
<1> DEFINE c == [kind |-> kind, of |-> d, depth |-> Len(frames), top |-> Height]
           s == calls[t]
<1>1. /\ calls'[t] = Append(s, c)
      /\ \A u \in Threads \ {t} : calls'[u] = calls[u]
  BY DEF Begins, CallsType
<1>2. c \in Call
  <2>1. Len(frames) \in Nat \ {0} /\ Height \in Int
    BY LastFrame DEF StackTyped, Height, Last, Frame
  <2> QED
    BY <2>1 DEF Call
<1>3. s \in Seq(Call) /\ DOMAIN s = 1 .. Len(s) /\ Len(s) \in Nat
  BY CallsOf
<1>4. c = [kind |-> kind, of |-> d, depth |-> Len(frames), top |-> Height]
  OBVIOUS
<1> HIDE DEF c
<1>5. /\ Append(s, c) \in Seq(Call) /\ Append(s, c) # <<>>
      /\ Len(Append(s, c)) = Len(s) + 1
      /\ \A i \in 1 .. Len(s) : Append(s, c)[i] = s[i]
      /\ Append(s, c)[Len(s) + 1] = c
  BY <1>2, <1>3, AppendProperties
<1>6. DOMAIN Append(s, c) = 1 .. Len(s) + 1
  BY <1>5, LenProperties
<1>7. InCall(t)' /\ Last(calls[t])' = calls'[t][Len(calls[t]) + 1]
  BY <1>1, <1>5 DEF InCall, Last
<1> QED
  BY <1>1, <1>3, <1>4, <1>5, <1>6, <1>7

\* A call ends.
LEMMA CallsShrink ==
  ASSUME StackTyped, CallsType, NEW t \in Threads, InCall(t), Ends(t)
  PROVE  /\ \A u \in Threads \ {t} : calls'[u] = calls[u]
         /\ calls'[t] \in Seq(Call) /\ Len(calls'[t]) = Len(calls[t]) - 1
         /\ DOMAIN calls'[t] = 1 .. Len(calls[t]) - 1
         /\ \A i \in DOMAIN calls'[t] : calls'[t][i] = calls[t][i] /\ i \in DOMAIN calls[t]
         /\ InCall(t)' <=> Len(calls[t]) > 1
         /\ InCall(t)' => Last(calls[t])' = calls[t][Len(calls[t]) - 1]
<1> DEFINE s == calls[t]
<1>1. /\ calls'[t] = Front(s)
      /\ \A u \in Threads \ {t} : calls'[u] = calls[u]
  BY DEF Ends, CallsType
<1>2. s \in Seq(Call) /\ s # <<>> /\ Len(s) \in Nat \ {0} /\ DOMAIN s = 1 .. Len(s)
  BY CallsOf DEF InCall
<1>3. /\ Front(s) \in Seq(Call) /\ Len(Front(s)) = Len(s) - 1
      /\ \A i \in 1 .. Len(s) - 1 : Front(s)[i] = s[i]
  BY <1>2, FrontDoes
<1>4. DOMAIN Front(s) = 1 .. Len(s) - 1
  BY <1>3, LenProperties
<1>5. \A i \in 1 .. Len(s) - 1 : i \in 1 .. Len(s)
  BY <1>2
<1>6. Front(s) # <<>> <=> Len(s) > 1
  BY <1>2, <1>3, EmptySeq
<1>7. Len(s) > 1 => Len(s) - 1 \in 1 .. Len(s) - 1
  BY <1>2
<1>8. Len(s) > 1 => Last(Front(s)) = s[Len(s) - 1]
  BY <1>3, <1>7 DEF Last
<1> QED
  BY <1>1, <1>2, <1>3, <1>4, <1>5, <1>6, <1>8 DEF InCall

\* The calls of a thread that does nothing stay in their frames.
LEMMA NestedStays ==
  ASSUME NEW u \in Threads, Nested(u), calls'[u] = calls[u],
         \A i \in DOMAIN calls[u] : calls[u][i].kind # "~Device" =>
           /\ Len(frames') > calls[u][i].depth
           /\ frames'[calls[u][i].depth + 1].by = frames[calls[u][i].depth + 1].by
  PROVE  Nested(u)'
BY DEF Nested, InFrame

\* What Nested says of one call.
LEMMA NestedAt ==
  ASSUME StackTyped, NEW t \in Threads, Nested(t), NEW i \in DOMAIN calls[t]
  PROVE  /\ InFrame(t, calls[t][i])
         /\ calls[t][i].depth \in Nat \ {0} /\ calls[t][1].depth \in Nat \ {0}
         /\ calls[t][i].depth = calls[t][1].depth + (i - 1)
         /\ i + 1 \in DOMAIN calls[t] =>
              /\ calls[t][i].kind # "~Device"
              /\ calls[t][i].kind = "method" =>
                   calls[t][i + 1].kind = "function" /\ calls[t][i + 1].top = 0
<1>1. 1 \in DOMAIN calls[t] /\ \A j \in DOMAIN calls[t] : calls[t][j] \in Call
  BY CallsOf
<1>2. \A j \in DOMAIN calls[t] : calls[t][j].depth \in Nat \ {0}
  BY <1>1 DEF Call
<1> QED
  BY <1>1, <1>2 DEF Nested

\* whether thread t may make a call of this kind: its own frame is the last
MayCall(t, kind) ==
  InCall(t) =>
    /\ Last(calls[t]).kind # "~Device"
    /\ Len(frames) = Last(calls[t]).depth + 1
    /\ Last(calls[t]).kind = "method" => kind = "function" /\ Height = 0

\* A call with a frame of its own.
LEMMA Enters ==
  ASSUME StackTyped, CallsType, \A u \in Threads : Nested(u),
         NEW t \in Threads, NEW kind \in Kinds, kind # "~Device", MayCall(t, kind),
         NEW e \in Devices \union {Nobody}, Begins(t, kind, e),
         NEW n \in Int, frames' = Enter(Push(frames, n), t)
  PROVE  /\ StackTyped' /\ \A u \in Threads : Nested(u)'
         /\ Len(frames') = Len(frames) + 1 /\ Level(t)' = Len(frames')
         /\ \A i \in 1 .. Len(frames) - 1 : frames'[i].height = frames[i].height
         /\ frames'[Len(frames')].height = 0
<1>1. frames \in Seq(Frame) /\ frames # <<>> /\ Len(frames) \in Nat \ {0}
  BY EmptySeq DEF StackTyped
<1> DEFINE p == Push(frames, n)
           m == Len(frames)
<1>2. /\ p \in Seq(Frame) /\ Len(p) = m /\ p # <<>>
      /\ \A i \in 1 .. m : p[i].by = frames[i].by
      /\ \A i \in 1 .. m - 1 : p[i].height = frames[i].height
  BY <1>1, PushDoes
<1>3. frames' = Enter(p, t)
  OBVIOUS
<1> HIDE DEF p
<1>4. /\ frames' \in Seq(Frame) /\ frames' # <<>> /\ Len(frames') = m + 1
      /\ \A i \in 1 .. m : frames'[i] = p[i]
      /\ frames'[m + 1].by = t /\ frames'[m + 1].height = 0
  BY <1>2, <1>3, EnterDoes
<1>5. \A i \in 1 .. m : frames'[i].by = frames[i].by
  BY <1>2, <1>4
<1>6. \A i \in 1 .. m - 1 : frames'[i].height = frames[i].height
  BY <1>1, <1>2, <1>4
<1>7. /\ \A u \in Threads \ {t} : calls'[u] = calls[u]
      /\ calls'[t] \in Seq(Call) /\ Len(calls'[t]) = Len(calls[t]) + 1
      /\ \A i \in DOMAIN calls[t] : calls'[t][i] = calls[t][i]
      /\ DOMAIN calls'[t] = 1 .. Len(calls[t]) + 1
      /\ InCall(t)' /\ Last(calls[t])' = calls'[t][Len(calls[t]) + 1]
      /\ calls'[t][Len(calls[t]) + 1] =
           [kind |-> kind, of |-> e, depth |-> m, top |-> Height]
  BY CallsGrow
<1>8. StackTyped'
  BY <1>4, <1>7 DEF StackTyped
<1>9. Level(t)' = Len(frames')
  BY <1>4, <1>7 DEF Level
<1>10. ASSUME NEW u \in Threads, NEW i \in DOMAIN calls[u], calls[u][i].kind # "~Device"
       PROVE  /\ Len(frames') > calls[u][i].depth /\ calls[u][i].depth + 1 \in 1 .. m
              /\ frames'[calls[u][i].depth + 1].by = frames[calls[u][i].depth + 1].by
  <2>1. Len(frames) > calls[u][i].depth /\ calls[u][i].depth \in Nat
    BY <1>10, CallsOf DEF Nested, InFrame, Call
  <2>2. calls[u][i].depth + 1 \in 1 .. m
    BY <2>1, <1>1
  <2> QED
    BY <2>1, <2>2, <1>1, <1>4, <1>5
<1>11. \A u \in Threads \ {t} : Nested(u)'
  BY <1>7, <1>10, NestedStays
<1>12. Nested(t)'
  <2> DEFINE k == Len(calls[t])
  <2>1. k \in Nat /\ DOMAIN calls[t] = 1 .. k
    BY CallsOf
  <2>2. SUFFICES ASSUME NEW i \in 1 .. k + 1
                 PROVE  /\ InFrame(t, calls[t][i])'
                        /\ calls'[t][i].depth = calls'[t][1].depth + (i - 1)
                        /\ i + 1 \in 1 .. k + 1 =>
                             /\ calls'[t][i].kind # "~Device"
                             /\ calls'[t][i].kind = "method" =>
                                  calls'[t][i + 1].kind = "function" /\ calls'[t][i + 1].top = 0
    BY <1>7 DEF Nested
  <2>5. m = calls'[t][1].depth + k
    <3>1. CASE k = 0
      BY <1>7, <3>1, <1>1
    <3>2. CASE k # 0
      <4>1. /\ InCall(t) /\ Last(calls[t]) = calls[t][k] /\ k \in 1 .. k /\ 1 \in 1 .. k
            /\ calls[t][1] \in Call
        BY <2>1, <3>2, CallsOf
      <4>2. m = calls[t][k].depth + 1 /\ calls[t][k].depth = calls[t][1].depth + (k - 1)
        BY <2>1, <4>1 DEF MayCall, Nested
      <4>3. calls'[t][1].depth = calls[t][1].depth /\ calls[t][1].depth \in Nat
        BY <1>7, <2>1, <4>1 DEF Call
      <4> HIDE DEF k, m
      <4> QED
        BY <2>1, <4>2, <4>3
    <3> QED
      BY <3>1, <3>2
  <2>3. CASE i = k + 1
    <3>1. calls'[t][i].depth = m /\ calls'[t][i].kind = kind
      BY <1>7, <2>3
    <3>2. Len(frames') > m
      BY <1>1, <1>4
    <3>3. calls'[t][i].depth = calls'[t][1].depth + (i - 1)
      BY <2>5, <2>3, <3>1
    <3> QED
      BY <3>1, <3>2, <3>3, <1>4, <2>1, <2>3 DEF InFrame
  <2>4. CASE i \in 1 .. k
    <3>1. calls'[t][i] = calls[t][i] /\ i \in DOMAIN calls[t]
      BY <1>7, <2>1, <2>4
    <3>2. InFrame(t, calls[t][i])' /\ calls'[t][i].depth = calls'[t][1].depth + (i - 1)
      <4>1. 1 \in DOMAIN calls[t] /\ calls'[t][1] = calls[t][1]
        BY <1>7, <2>1, <2>4
      <4>2. InFrame(t, calls[t][i]) /\ calls[t][i].depth = calls[t][1].depth + (i - 1)
        BY <3>1, NestedAt
      <4>3. InFrame(t, calls[t][i])'
        BY <1>10, <3>1, <4>2 DEF InFrame
      <4> QED
        BY <3>1, <4>1, <4>2, <4>3
    <3>3. CASE i + 1 \in 1 .. k
      <4>1. i + 1 \in DOMAIN calls[t] /\ calls'[t][i + 1] = calls[t][i + 1]
        BY <1>7, <2>1, <3>3
      <4> QED
        BY <3>1, <3>2, <4>1, NestedAt
    <3>4. CASE i = k
      <4>1. InCall(t) /\ Last(calls[t]) = calls[t][k]
        BY <2>1, <2>4, <3>4, CallsOf
      <4>2. /\ calls[t][k].kind # "~Device" /\ m = calls[t][k].depth + 1
            /\ calls[t][k].kind = "method" => kind = "function" /\ Height = 0
        BY <4>1 DEF MayCall
      <4>3. calls'[t][k + 1].kind = kind /\ calls'[t][k + 1].depth = m
            /\ calls'[t][k + 1].top = Height
        BY <1>7
      <4> HIDE DEF k
      <4> QED
        BY <3>1, <3>2, <3>4, <4>2, <4>3
    <3> QED
      BY <2>1, <2>4, <3>3, <3>4, <3>2
  <2> QED
    BY <2>1, <2>2, <2>3, <2>4
<1> QED
  BY <1>4, <1>6, <1>8, <1>9, <1>11, <1>12

\* The end of a call with a frame of its own.
LEMMA Leaves ==
  ASSUME StackTyped, CallsType, \A u \in Threads : Nested(u),
         NEW t \in Threads, InCall(t), Last(calls[t]).kind # "~Device",
         Len(frames) = Last(calls[t]).depth + 1, Ends(t),
         \/ frames' = Leave(frames)
         \/ frames' = SetTop(Leave(frames), Last(calls[t]).top)
  PROVE  /\ StackTyped' /\ \A u \in Threads : Nested(u)'
         /\ Len(frames') = Len(frames) - 1 /\ Len(frames) > 1
         /\ InCall(t)' => Level(t)' = Len(frames') /\ calls'[t][1] = calls[t][1]
         /\ \A i \in 1 .. Len(frames) - 2 : frames'[i].height = frames[i].height
         /\ frames' = Leave(frames) =>
              frames'[Len(frames')].height = frames[Len(frames')].height
         /\ frames' = SetTop(Leave(frames), Last(calls[t]).top) =>
              frames'[Len(frames')].height = Last(calls[t]).top
<1> DEFINE k == Len(calls[t])
           m == Len(frames)
           p == Leave(frames)
<1>1. /\ frames \in Seq(Frame) /\ m \in Nat /\ DOMAIN calls[t] = 1 .. k
      /\ k \in Nat \ {0} /\ k \in DOMAIN calls[t] /\ Last(calls[t]) = calls[t][k]
      /\ calls[t][k] \in Call
  BY CallsOf, LenProperties DEF StackTyped
<1>2. calls[t][k].depth \in Nat \ {0} /\ calls[t][k].top \in Int /\ m = calls[t][k].depth + 1
  BY <1>1 DEF Call
<1>3. m > 1 /\ m - 1 \in Nat \ {0}
  BY <1>1, <1>2
<1>4. /\ p \in Seq(Frame) /\ Len(p) = m - 1 /\ p # <<>>
      /\ \A i \in 1 .. m - 1 : p[i] = frames[i]
  BY <1>1, <1>3, LeaveDoes
<1>5. /\ frames' \in Seq(Frame) /\ frames' # <<>> /\ Len(frames') = m - 1
      /\ \A i \in 1 .. m - 1 : frames'[i].by = frames[i].by
      /\ \A i \in 1 .. m - 2 : frames'[i].height = frames[i].height
      /\ frames' = Leave(frames) => frames'[m - 1].height = frames[m - 1].height
      /\ frames' = SetTop(Leave(frames), Last(calls[t]).top) =>
           frames'[m - 1].height = Last(calls[t]).top
  <2>1. \A i \in 1 .. m - 2 : i \in 1 .. m - 1
    BY <1>3
  <2>2. m - 1 \in 1 .. m - 1 /\ m - 1 - 1 = m - 2
    BY <1>3
  <2>3. CASE frames' = p
    <3>1. /\ \A i \in 1 .. m - 1 : frames'[i] = frames[i]
      BY <1>4, <2>3
    <3>2. frames' = SetTop(p, Last(calls[t]).top) => frames'[m - 1].height = Last(calls[t]).top
      <4>1. calls[t][k].top \in Int /\ p \in Seq(Frame) /\ p # <<>> /\ Len(p) = m - 1
        BY <1>2, <1>4
      <4>2. SetTop(p, calls[t][k].top)[Len(p)].height = calls[t][k].top
        BY <4>1, SetTopDoes
      <4> QED
        BY <1>1, <4>1, <4>2
    <3> HIDE DEF p, m
    <3> QED
      BY <3>1, <3>2, <1>4, <2>1, <2>2, <2>3 DEF p
  <2>4. CASE frames' = SetTop(p, Last(calls[t]).top)
    <3> DEFINE q == SetTop(p, Last(calls[t]).top)
    <3>1. /\ q \in Seq(Frame) /\ Len(q) = m - 1 /\ q # <<>>
          /\ \A i \in 1 .. m - 1 : q[i].by = p[i].by
          /\ \A i \in 1 .. m - 1 - 1 : q[i].height = p[i].height
          /\ q[m - 1].height = Last(calls[t]).top
      <4>1. Last(calls[t]).top \in Int /\ p \in Seq(Frame) /\ p # <<>> /\ Len(p) = m - 1
        BY <1>1, <1>2, <1>4
      <4> DEFINE z == Last(calls[t]).top
                 l == m - 1
      <4> HIDE DEF p, z, l
      <4>2. /\ SetTop(p, z) \in Seq(Frame) /\ Len(SetTop(p, z)) = Len(p) /\ SetTop(p, z) # <<>>
            /\ \A i \in 1 .. Len(p) : SetTop(p, z)[i].by = p[i].by
            /\ \A i \in 1 .. Len(p) - 1 : SetTop(p, z)[i].height = p[i].height
            /\ SetTop(p, z)[Len(p)].height = z
        BY <4>1, SetTopDoes DEF z
      <4>3. Len(p) = l
        BY <4>1 DEF l
      <4> QED
        BY <4>2, <4>3, Zenon DEF z, l
    <3> HIDE DEF p, m, q
    <3>2. frames' = q
      BY <2>4 DEF q
    <3>3. frames' = p => frames'[m - 1].height = frames[m - 1].height
      BY <1>4, <2>2
    <3> QED
      BY <3>1, <3>2, <3>3, <1>4, <2>1, <2>2 DEF p
  <2> QED
    BY <2>3, <2>4
<1>6. /\ \A u \in Threads \ {t} : calls'[u] = calls[u]
      /\ calls'[t] \in Seq(Call) /\ Len(calls'[t]) = k - 1
      /\ DOMAIN calls'[t] = 1 .. k - 1
      /\ \A i \in DOMAIN calls'[t] : calls'[t][i] = calls[t][i] /\ i \in DOMAIN calls[t]
      /\ InCall(t)' <=> k > 1
      /\ InCall(t)' => Last(calls[t])' = calls[t][k - 1]
  BY CallsShrink
<1>7. StackTyped'
  BY <1>5, <1>6 DEF StackTyped
<1>8. k > 1 => /\ calls[t][k - 1].kind # "~Device" /\ calls[t][k].depth = calls[t][k - 1].depth + 1
               /\ 1 \in DOMAIN calls'[t] /\ calls[t][k - 1] \in Call
  <2>1. ASSUME k > 1 PROVE k - 1 \in 1 .. k /\ k - 1 + 1 = k /\ 1 \in 1 .. k - 1 /\ 1 \in 1 .. k
    BY <1>1, <2>1
  <2>2. ASSUME k > 1 PROVE calls[t][k - 1].kind # "~Device" /\ calls[t][k].depth = calls[t][k - 1].depth + 1
    <3>1. k - 1 \in DOMAIN calls[t] /\ k - 1 + 1 \in DOMAIN calls[t] /\ k - 1 + 1 = k
      BY <1>1, <2>1, <2>2
    <3>2. calls[t][k - 1].kind # "~Device"
      BY <1>1, <3>1, NestedAt
    <3>3. /\ calls[t][k].depth = calls[t][1].depth + (k - 1)
          /\ calls[t][k - 1].depth = calls[t][1].depth + (k - 1 - 1)
          /\ calls[t][1].depth \in Nat
      BY <1>1, <3>1, NestedAt
    <3>4. k \in Int
      BY <1>1
    <3> HIDE DEF k
    <3>5. calls[t][k].depth = calls[t][k - 1].depth + 1
      BY <3>3, <3>4
    <3> QED
      BY <3>2, <3>5
  <2> QED
    BY <1>1, <1>6, <2>1, <2>2, CallsOf
<1>9. InCall(t)' => Level(t)' = Len(frames') /\ calls'[t][1] = calls[t][1]
  <2>1. SUFFICES ASSUME k > 1, Last(calls[t])' = calls[t][k - 1]
                 PROVE  Level(t)' = Len(frames') /\ calls'[t][1] = calls[t][1]
    BY <1>6
  <2>2. Level(t)' = calls[t][k - 1].depth + 1
    BY <1>8, <2>1 DEF Level
  <2>3. calls'[t][1] = calls[t][1]
    BY <1>6, <1>8, <2>1
  <2>4. calls[t][k].depth = calls[t][k - 1].depth + 1 /\ Len(frames') = m - 1
    BY <1>5, <1>8, <2>1
  <2> HIDE DEF k, m
  <2> QED
    BY <1>2, <2>2, <2>3, <2>4
\* No other call that has a frame has the one that is left.
<1>10. ASSUME NEW u \in Threads, NEW i \in DOMAIN calls[u], calls[u][i].kind # "~Device",
              u = t => i # k
       PROVE  /\ Len(frames') > calls[u][i].depth
              /\ frames'[calls[u][i].depth + 1].by = frames[calls[u][i].depth + 1].by
  <2>1. /\ m > calls[u][i].depth /\ calls[u][i].depth \in Nat
        /\ frames[calls[u][i].depth + 1].by = u
    BY <1>10, CallsOf DEF Nested, InFrame, Call
  <2>2. calls[u][i].depth + 1 # m
    <3>1. CASE u # t
      <4>1. frames[m].by = t
        <5>1. k \in DOMAIN calls[t] /\ calls[t][k].kind # "~Device" /\ calls[t][k].depth + 1 = m
          BY <1>1, <1>2
        <5>2. InFrame(t, calls[t][k])
          BY <5>1 DEF Nested
        <5> HIDE DEF m, k
        <5> QED
          BY <5>1, <5>2 DEF InFrame
      <4> QED
        BY <4>1, <2>1, <3>1
    <3>2. CASE u = t
      <4>1. i \in 1 .. k - 1 /\ k > 1
        BY <1>1, <1>10, <3>2
      <4>2. /\ calls[t][i].depth = calls[t][1].depth + (i - 1)
            /\ calls[t][k].depth = calls[t][1].depth + (k - 1)
            /\ calls[t][1].depth \in Nat
        BY <1>1, <3>2, <4>1, CallsOf DEF Nested, Call
      <4>3. calls[t][i].depth < calls[t][k].depth
        BY <4>1, <4>2, <1>1
      <4> QED
        BY <4>3, <3>2, <1>2, <2>1
    <3> QED
      BY <3>1, <3>2
  <2>3. calls[u][i].depth + 1 \in 1 .. m - 1
    BY <2>1, <2>2, <1>1
  <2>4. Len(frames') > calls[u][i].depth
    <3>1. Len(frames') = m - 1
      BY <1>5
    <3> HIDE DEF m
    <3> QED
      BY <2>1, <2>3, <1>1, <3>1
  <2>5. \A j \in 1 .. m - 1 : frames'[j].by = frames[j].by
    BY <1>5
  <2> HIDE DEF m
  <2> QED
    BY <2>3, <2>4, <2>5
<1>11. \A u \in Threads \ {t} : Nested(u)'
  BY <1>6, <1>10, NestedStays
<1>12. Nested(t)'
  <2>1. SUFFICES ASSUME NEW i \in 1 .. k - 1
                 PROVE  /\ InFrame(t, calls[t][i])'
                        /\ calls'[t][i].depth = calls'[t][1].depth + (i - 1)
                        /\ i + 1 \in 1 .. k - 1 =>
                             /\ calls'[t][i].kind # "~Device"
                             /\ calls'[t][i].kind = "method" =>
                                  calls'[t][i + 1].kind = "function" /\ calls'[t][i + 1].top = 0
    BY <1>6 DEF Nested
  <2>2. calls'[t][i] = calls[t][i] /\ i \in DOMAIN calls[t] /\ i # k
    <3>1. k \in Nat /\ DOMAIN calls[t] = 1 .. k
      BY <1>1
    <3>2. calls'[t][i] = calls[t][i]
      BY <1>6, <2>1
    <3> HIDE DEF k
    <3> QED
      BY <2>1, <3>1, <3>2
  <2>3. InFrame(t, calls[t][i])' /\ calls'[t][i].depth = calls'[t][1].depth + (i - 1)
    <3>1. 1 \in 1 .. k - 1
      BY <1>1, <2>1
    <3>2. calls'[t][1] = calls[t][1]
      BY <1>6, <3>1
    <3>3. InFrame(t, calls[t][i]) /\ calls[t][i].depth = calls[t][1].depth + (i - 1)
      BY <2>2, NestedAt
    <3>4. InFrame(t, calls[t][i])'
      BY <1>10, <2>2, <3>3 DEF InFrame
    <3> QED
      BY <2>2, <3>2, <3>3, <3>4
  <2>4. ASSUME i + 1 \in 1 .. k - 1
        PROVE  calls'[t][i + 1] = calls[t][i + 1] /\ i + 1 \in DOMAIN calls[t]
    BY <1>6, <2>4
  <2> HIDE DEF k
  <2> QED
    BY <2>2, <2>3, <2>4 DEF Nested
<1> HIDE DEF k, m, p
<1>13. m = Len(frames) /\ Len(frames') = m - 1
  BY <1>5 DEF m
<1> QED
  BY <1>3, <1>5, <1>7, <1>9, <1>11, <1>12, <1>13

\* A deletion has no frame: it begins.
LEMMA DeletionBegins ==
  ASSUME StackTyped, CallsType, \A u \in Threads : Nested(u),
         NEW t \in Threads, NEW d \in Devices, Begins(t, "~Device", d), UNCHANGED frames,
         InCall(t) => /\ Last(calls[t]).kind \in {"script", "function"}
                      /\ Len(frames) = Last(calls[t]).depth + 1
  PROVE  /\ StackTyped' /\ \A u \in Threads : Nested(u)'
         /\ Level(t)' = Len(frames)
         /\ InCall(t) => calls'[t][1] = calls[t][1]
<1> DEFINE k == Len(calls[t])
           m == Len(frames)
<1>1. "~Device" \in Kinds /\ d \in Devices \union {Nobody}
  BY DEF Kinds
<1>2. /\ \A u \in Threads \ {t} : calls'[u] = calls[u]
      /\ calls'[t] \in Seq(Call) /\ Len(calls'[t]) = k + 1
      /\ \A i \in DOMAIN calls[t] : calls'[t][i] = calls[t][i]
      /\ DOMAIN calls'[t] = 1 .. k + 1
      /\ InCall(t)' /\ Last(calls[t])' = calls'[t][k + 1]
      /\ calls'[t][k + 1] = [kind |-> "~Device", of |-> d, depth |-> m, top |-> Height]
  BY <1>1, CallsGrow
<1>3. StackTyped'
  BY <1>2 DEF StackTyped
<1>4. Level(t)' = m
  BY <1>2 DEF Level
<1>5. InCall(t) => calls'[t][1] = calls[t][1]
  BY <1>2, CallsOf
<1>6. ASSUME NEW u \in Threads, NEW i \in DOMAIN calls[u], calls[u][i].kind # "~Device"
      PROVE  Len(frames') > calls[u][i].depth
  BY <1>6 DEF Nested, InFrame
<1>7. \A u \in Threads \ {t} : Nested(u)'
  BY <1>2, <1>6, NestedStays
<1>8. Nested(t)'
  <2>1. k \in Nat /\ DOMAIN calls[t] = 1 .. k
    BY CallsOf
  <2>2. SUFFICES ASSUME NEW i \in 1 .. k + 1
                 PROVE  /\ InFrame(t, calls[t][i])'
                        /\ calls'[t][i].depth = calls'[t][1].depth + (i - 1)
                        /\ i + 1 \in 1 .. k + 1 =>
                             /\ calls'[t][i].kind # "~Device"
                             /\ calls'[t][i].kind = "method" =>
                                  calls'[t][i + 1].kind = "function" /\ calls'[t][i + 1].top = 0
    BY <1>2 DEF Nested
  <2>5. m = calls'[t][1].depth + k
    <3>1. CASE k = 0
      BY <1>2, <3>1
    <3>2. CASE k # 0
      <4>1. /\ InCall(t) /\ Last(calls[t]) = calls[t][k] /\ k \in 1 .. k /\ 1 \in 1 .. k
            /\ calls[t][1] \in Call
        BY <2>1, <3>2, CallsOf
      <4>2. m = calls[t][k].depth + 1 /\ calls[t][k].depth = calls[t][1].depth + (k - 1)
        BY <2>1, <4>1 DEF Nested
      <4>3. calls'[t][1].depth = calls[t][1].depth /\ calls[t][1].depth \in Nat
        BY <1>2, <2>1, <4>1 DEF Call
      <4> HIDE DEF k, m
      <4> QED
        BY <2>1, <4>2, <4>3
    <3> QED
      BY <3>1, <3>2
  <2>3. CASE i = k + 1
    <3>1. calls'[t][i].kind = "~Device" /\ calls'[t][i].depth = m
      BY <1>2, <2>3
    <3>2. InFrame(t, calls[t][i])'
      BY <3>1 DEF InFrame
    <3>3. m = calls'[t][1].depth + (i - 1) /\ i + 1 \notin 1 .. k + 1
      BY <2>1, <2>3, <2>5
    <3> QED
      BY <3>1, <3>2, <3>3
  <2>4. CASE i \in 1 .. k
    <3>1. calls'[t][i] = calls[t][i] /\ i \in DOMAIN calls[t]
      BY <1>2, <2>1, <2>4
    <3>2. InFrame(t, calls[t][i])' /\ calls'[t][i].depth = calls'[t][1].depth + (i - 1)
      <4>1. 1 \in DOMAIN calls[t] /\ calls'[t][1] = calls[t][1]
        BY <1>2, <2>1, <2>4
      <4>2. InFrame(t, calls[t][i]) /\ calls[t][i].depth = calls[t][1].depth + (i - 1)
        BY <3>1, NestedAt
      <4>3. InFrame(t, calls[t][i])'
        BY <1>6, <3>1, <4>2 DEF InFrame
      <4> QED
        BY <3>1, <4>1, <4>2, <4>3
    <3>3. CASE i + 1 \in 1 .. k
      <4>1. i + 1 \in DOMAIN calls[t] /\ calls'[t][i + 1] = calls[t][i + 1]
        BY <1>2, <2>1, <3>3
      <4> QED
        BY <3>1, <3>2, <4>1, NestedAt
    <3>4. CASE i = k
      <4>1. InCall(t) /\ Last(calls[t]) = calls[t][k]
        BY <2>1, <2>4, <3>4, CallsOf
      <4>2. calls[t][k].kind \in {"script", "function"} /\ m = calls[t][k].depth + 1
        BY <4>1
      <4>3. calls'[t][k + 1].depth = m
        BY <1>2
      <4> HIDE DEF k
      <4> QED
        BY <3>1, <3>2, <3>4, <4>2, <4>3
    <3> QED
      BY <2>1, <2>4, <3>3, <3>4, <3>2
  <2> QED
    BY <2>1, <2>2, <2>3, <2>4
<1> QED
  BY <1>3, <1>4, <1>5, <1>7, <1>8

\* It ends.
LEMMA DeletionEnded ==
  ASSUME StackTyped, CallsType, \A u \in Threads : Nested(u),
         NEW t \in Threads, InCall(t), Last(calls[t]).kind = "~Device",
         Ends(t), UNCHANGED frames
  PROVE  /\ StackTyped' /\ \A u \in Threads : Nested(u)'
         /\ InCall(t)' => /\ Level(t)' = Level(t) /\ calls'[t][1] = calls[t][1]
                          /\ Last(calls[t])'.kind \in {"script", "function"}
<1> DEFINE k == Len(calls[t])
<1>1. /\ DOMAIN calls[t] = 1 .. k
      /\ k \in Nat \ {0} /\ k \in DOMAIN calls[t] /\ Last(calls[t]) = calls[t][k]
      /\ calls[t][k] \in Call
  BY CallsOf
<1>2. /\ \A u \in Threads \ {t} : calls'[u] = calls[u]
      /\ calls'[t] \in Seq(Call) /\ Len(calls'[t]) = k - 1
      /\ DOMAIN calls'[t] = 1 .. k - 1
      /\ \A i \in DOMAIN calls'[t] : calls'[t][i] = calls[t][i] /\ i \in DOMAIN calls[t]
      /\ InCall(t)' <=> k > 1
      /\ InCall(t)' => Last(calls[t])' = calls[t][k - 1]
  BY CallsShrink
<1>3. StackTyped'
  BY <1>2 DEF StackTyped
<1>4. k > 1 => /\ calls[t][k - 1].kind # "~Device" /\ calls[t][k].depth = calls[t][k - 1].depth + 1
               /\ calls[t][k - 1].kind # "method"
               /\ 1 \in DOMAIN calls'[t] /\ calls[t][k - 1] \in Call
  <2>1. ASSUME k > 1 PROVE k - 1 \in 1 .. k /\ k - 1 + 1 = k /\ 1 \in 1 .. k - 1 /\ 1 \in 1 .. k
    BY <1>1, <2>1
  <2>2. ASSUME k > 1 PROVE /\ calls[t][k - 1].kind # "~Device" /\ calls[t][k - 1].kind # "method"
                           /\ calls[t][k].depth = calls[t][k - 1].depth + 1
    <3>1. k - 1 \in DOMAIN calls[t] /\ k - 1 + 1 \in DOMAIN calls[t] /\ k - 1 + 1 = k
      BY <1>1, <2>1, <2>2
    <3>2. calls[t][k - 1].kind # "~Device" /\ calls[t][k - 1].kind # "method"
      BY <1>1, <3>1, NestedAt
    <3>3. /\ calls[t][k].depth = calls[t][1].depth + (k - 1)
          /\ calls[t][k - 1].depth = calls[t][1].depth + (k - 1 - 1)
          /\ calls[t][1].depth \in Nat
      BY <1>1, <3>1, NestedAt
    <3> HIDE DEF k
    <3> QED
      BY <1>1, <3>2, <3>3
  <2> QED
    BY <1>1, <1>2, <2>1, <2>2, CallsOf
<1>5. InCall(t)' => /\ Level(t)' = Level(t) /\ calls'[t][1] = calls[t][1]
                    /\ Last(calls[t])'.kind \in {"script", "function"}
  <2>1. SUFFICES ASSUME k > 1, Last(calls[t])' = calls[t][k - 1]
                 PROVE  /\ Level(t)' = Level(t) /\ calls'[t][1] = calls[t][1]
                        /\ calls[t][k - 1].kind \in {"script", "function"}
    BY <1>2
  <2>2. Level(t)' = calls[t][k - 1].depth + 1 /\ Level(t) = calls[t][k].depth
    BY <1>1, <1>4, <2>1 DEF Level
  <2> QED
    BY <1>2, <1>4, <2>1, <2>2 DEF Call, Kinds
<1>6. \A u \in Threads \ {t} : Nested(u)'
  BY <1>2, NestedStays DEF Nested, InFrame
<1>7. Nested(t)'
  <2>1. SUFFICES ASSUME NEW i \in 1 .. k - 1
                 PROVE  /\ InFrame(t, calls[t][i])'
                        /\ calls'[t][i].depth = calls'[t][1].depth + (i - 1)
                        /\ i + 1 \in 1 .. k - 1 =>
                             /\ calls'[t][i].kind # "~Device"
                             /\ calls'[t][i].kind = "method" =>
                                  calls'[t][i + 1].kind = "function" /\ calls'[t][i + 1].top = 0
    BY <1>2 DEF Nested
  <2>2. calls'[t][i] = calls[t][i] /\ i \in DOMAIN calls[t]
    BY <1>1, <1>2, <2>1
  <2>3. InFrame(t, calls[t][i])' /\ calls'[t][i].depth = calls'[t][1].depth + (i - 1)
    <3>1. 1 \in 1 .. k - 1
      BY <1>1, <2>1
    <3>2. calls'[t][1] = calls[t][1]
      BY <1>2, <3>1
    <3>3. InFrame(t, calls[t][i]) /\ calls[t][i].depth = calls[t][1].depth + (i - 1)
      BY <2>2, NestedAt
    <3>4. InFrame(t, calls[t][i])'
      BY <2>2, <3>3 DEF InFrame
    <3> QED
      BY <2>2, <3>2, <3>3, <3>4
  <2>4. ASSUME i + 1 \in 1 .. k - 1
        PROVE  calls'[t][i + 1] = calls[t][i + 1] /\ i + 1 \in DOMAIN calls[t]
    BY <1>2, <2>4
  <2> HIDE DEF k
  <2> QED
    BY <2>2, <2>3, <2>4 DEF Nested
<1> QED
  BY <1>3, <1>5, <1>6, <1>7

----------------------------------------------------------------------------
(* Whose turn it is *)

\* What holds in every state, and which lines the theorems below are about.
Turns == Quiet /\ OneCallback /\ FreedInv /\ StackInv

\* Only one IO thread is ever in the VM.
LEMMA OneIoThread ==
  ASSUME Turns, NEW c \in Devices, NEW d \in Devices, InCall(c), d # c
  PROVE  ~InCall(d) /\ d \notin Callbacks
BY DEF Turns, FreedInv, ThreadsInv, OneCallback

\* While an IO thread is in the VM the script's thread has nothing to do there.
LEMMA ScriptSleeps ==
  ASSUME Turns, NEW d \in Devices, InCall(d), InCall(Script)
  PROVE  Last(calls[Script]).kind = "~Device"
<1>1. CASE Deletes(Script, d)
  BY <1>1 DEF Deletes, Doing
<1>2. CASE main \in Asleep
  <2>1. Script \in Threads
    BY DEF Threads
  <2>2. Len(calls[Script]) \in DOMAIN calls[Script] /\ Last(calls[Script]) = calls[Script][Len(calls[Script])]
    BY <2>1, CallsOf DEF Turns, StackInv
  <2>3. main # "running"
    BY <1>2 DEF Asleep
  <2> QED
    BY <2>2, <2>3 DEF Turns, StackInv, ScriptTurn
<1> QED
  BY <1>1, <1>2 DEF Turns, StackInv, IoTurn

\* A script that works has the VM for itself.
LEMMA ScriptAlone ==
  ASSUME Turns, InCall(Script), Last(calls[Script]).kind # "~Device"
  PROVE  /\ Silent /\ main = "running"
         /\ Len(frames) = Last(calls[Script]).depth + 1
<1>1. Script \in Threads
  BY DEF Threads
<1>2. Silent
  BY ScriptSleeps DEF Silent
<1>3. main = "running"
  <2>1. Len(calls[Script]) \in DOMAIN calls[Script] /\ Last(calls[Script]) = calls[Script][Len(calls[Script])]
    BY <1>1, CallsOf DEF Turns, StackInv
  <2> QED
    BY <2>1 DEF Turns, StackInv, ScriptTurn
<1>4. Len(frames) = Level(Script)
  BY <1>2, <1>3 DEF Turns, StackInv, ScriptTurn
<1> QED
  BY <1>2, <1>3, <1>4 DEF Level

\* Whoever works in the VM finds its own frame last.
LEMMA OnTop ==
  ASSUME Turns, NEW t \in Threads, InCall(t), Last(calls[t]).kind # "~Device"
  PROVE  Len(frames) = Last(calls[t]).depth + 1
<1>1. CASE t = Script
  BY <1>1, ScriptAlone
<1>2. CASE t \in Devices
  BY <1>2 DEF Turns, StackInv, IoTurn, Level
<1> QED
  BY <1>1, <1>2 DEF Threads

\* The running script has a frame above that of main(), and more when it is
\* not the script itself that works.
LEMMA ScriptFrames ==
  ASSUME Turns, main = "running"
  PROVE  /\ InCall(Script) /\ Len(frames) > 1 /\ Len(frames) \in Nat /\ Level(Script) > 1
         /\ Level(Script) \in Nat
         /\ Last(calls[Script]).kind # "script" => Last(calls[Script]).depth > 1
         /\ Last(calls[Script]).depth \in Nat
<1> DEFINE k == Len(calls[Script])
<1>1. Script \in Threads /\ StackTyped /\ Nested(Script)
  BY DEF Threads, Turns, StackInv
<1>2. InCall(Script) /\ calls[Script][1].kind = "script" /\ calls[Script][1].depth = 1
  BY DEF Turns, StackInv, ScriptTurn
<1>3. /\ k \in Nat \ {0} /\ k \in DOMAIN calls[Script] /\ 1 \in DOMAIN calls[Script]
      /\ Last(calls[Script]) = calls[Script][k]
  BY <1>1, <1>2, CallsOf
<1>4. calls[Script][k].depth = 1 + (k - 1)
  BY <1>1, <1>2, <1>3, NestedAt
<1>5. InFrame(Script, calls[Script][1])
  BY <1>1, <1>3, NestedAt
<1>6. Len(frames) > 1 /\ Len(frames) \in Nat
  BY <1>1, <1>2, <1>5, LastFrame DEF InFrame, StackTyped
<1>7. calls[Script][k].kind # "script" => k > 1
  BY <1>2, <1>3
<1>8. Level(Script) = IF calls[Script][k].kind = "~Device" THEN calls[Script][k].depth ELSE calls[Script][k].depth + 1
  BY <1>3 DEF Level
<1> HIDE DEF k
<1> QED
  BY <1>2, <1>3, <1>4, <1>6, <1>7, <1>8

\* Outside Run and a deletion no IO thread is in the VM.
LEMMA SilentOutside ==
  ASSUME Turns, main \notin Asleep, InCall(Script) => Last(calls[Script]).kind # "~Device"
  PROVE  Silent
BY DEF Turns, StackInv, IoTurn, Silent, Deletes, Doing

\* The other parts of the invariant when the running script does something.
LEMMA ScriptMoves ==
  ASSUME Turns, main = "running", UNCHANGED <<main, vm>>, Silent,
         \A d \in Devices : calls'[d] = calls[d],
         StackTyped', \A u \in Threads : Nested(u)',
         InCall(Script)', calls'[Script][1] = calls[Script][1], Level(Script)' = Len(frames'),
         frames'[1].height = frames[1].height, MethodHeight'
  PROVE  StackInv'
<1>1. Silent' /\ \A d \in Devices : ~InCall(d)'
  BY DEF Silent, InCall
<1>2. \A d \in Devices : IoTurn(d)'
  BY <1>1 DEF IoTurn
<1>3. ScriptTurn'
  BY <1>1 DEF Turns, StackInv, ScriptTurn
<1>4. MainHeight'
  BY DEF Turns, StackInv, MainHeight
<1> QED
  BY <1>2, <1>3, <1>4 DEF StackInv

\* A step that leaves the calls, the stack and main() alone.
LEMMA NothingMoves ==
  ASSUME Turns, UNCHANGED <<calls, frames, main>>, vm'.suspended = vm.suspended
  PROVE  StackInv'
BY DEF Turns, StackInv, StackTyped, Nested, InFrame, IoTurn, InCall, Deletes, Doing, Level,
       ScriptTurn, Silent, MainHeight, MethodHeight, Height

----------------------------------------------------------------------------
(* The running script *)

LEMMA ScriptBegins ==
  ASSUME Turns, NEW kind \in {"method", "function"}, InCall(Script),
         \/ kind = "method" /\ Last(calls[Script]).kind \in {"script", "function"}
         \/ kind = "function" /\ Last(calls[Script]).kind = "method",
         NEW e \in Devices \union {Nobody}, Begins(Script, kind, e),
         NEW n \in Int, frames' = Enter(Push(frames, n), Script),
         UNCHANGED <<main, vm>>
  PROVE  StackInv'
<1>1. Script \in Threads /\ kind \in Kinds /\ kind # "~Device" /\ StackTyped /\ CallsType
      /\ \A u \in Threads : Nested(u)
  BY DEF Threads, Kinds, Turns, StackInv, FreedInv
<1>2. Silent /\ main = "running" /\ Len(frames) = Last(calls[Script]).depth + 1
  BY ScriptAlone
<1>3. MayCall(Script, kind)
  BY <1>1, <1>2 DEF MayCall, Turns, StackInv, MethodHeight, Doing
<1>4. /\ StackTyped' /\ \A u \in Threads : Nested(u)'
      /\ Len(frames') = Len(frames) + 1 /\ Level(Script)' = Len(frames')
      /\ \A i \in 1 .. Len(frames) - 1 : frames'[i].height = frames[i].height
      /\ frames'[Len(frames')].height = 0
  BY <1>1, <1>3, Enters
<1>5. /\ \A u \in Threads \ {Script} : calls'[u] = calls[u]
      /\ \A i \in DOMAIN calls[Script] : calls'[Script][i] = calls[Script][i]
      /\ InCall(Script)'
  BY <1>1, CallsGrow
<1>6. calls'[Script][1] = calls[Script][1] /\ \A d \in Devices : calls'[d] = calls[d]
  BY <1>1, <1>5, CallsOf DEF Threads
<1>7. frames'[1].height = frames[1].height
  BY <1>2, <1>4, ScriptFrames
<1>8. MethodHeight'
  BY <1>4 DEF MethodHeight, Height, Last
<1> QED
  BY <1>2, <1>4, <1>5, <1>6, <1>7, <1>8, ScriptMoves

LEMMA ScriptReturns ==
  ASSUME Turns, InCall(Script), Ends(Script), UNCHANGED <<main, vm>>,
         \/ Last(calls[Script]).kind = "method" /\ frames' = Leave(frames)
         \/ /\ Last(calls[Script]).kind = "function"
            /\ frames' = SetTop(Leave(frames), Last(calls[Script]).top)
  PROVE  StackInv'
<1> DEFINE k == Len(calls[Script])
<1>1. Script \in Threads /\ StackTyped /\ CallsType /\ (\A u \in Threads : Nested(u))
      /\ Last(calls[Script]).kind # "~Device"
  BY DEF Threads, Turns, StackInv, FreedInv
<1>2. Silent /\ main = "running" /\ Len(frames) = Last(calls[Script]).depth + 1
  BY <1>1, ScriptAlone
<1>3. /\ StackTyped' /\ (\A u \in Threads : Nested(u)')
      /\ Len(frames') = Len(frames) - 1
      /\ InCall(Script)' => Level(Script)' = Len(frames') /\ calls'[Script][1] = calls[Script][1]
      /\ \A i \in 1 .. Len(frames) - 2 : frames'[i].height = frames[i].height
      /\ frames' = SetTop(Leave(frames), Last(calls[Script]).top) =>
           frames'[Len(frames')].height = Last(calls[Script]).top
  BY <1>1, <1>2, Leaves
<1>4. /\ \A u \in Threads \ {Script} : calls'[u] = calls[u]
      /\ InCall(Script)' <=> k > 1
      /\ InCall(Script)' => Last(calls[Script])' = calls[Script][k - 1]
  BY <1>1, CallsShrink
<1>5. /\ k \in Nat \ {0} /\ k \in DOMAIN calls[Script] /\ Last(calls[Script]) = calls[Script][k]
      /\ DOMAIN calls[Script] = 1 .. k
  BY <1>1, CallsOf
<1>6. k > 1
  BY <1>2, <1>5 DEF Turns, StackInv, ScriptTurn
<1>7. frames'[1].height = frames[1].height
  <2>1. Last(calls[Script]).depth > 1 /\ Last(calls[Script]).depth \in Nat
    BY <1>2, ScriptFrames
  <2>2. 1 \in 1 .. Len(frames) - 2
    BY <1>2, <2>1
  <2> QED
    BY <1>3, <2>2
<1>8. MethodHeight'
  <2>0. \A d \in Devices : ~InCall(d)'
    BY <1>2, <1>4 DEF Silent, InCall, Threads
  <2>1. SUFFICES ASSUME calls[Script][k - 1].kind = "method"
                 PROVE  frames'[Len(frames')].height = 0
    BY <2>0, <1>4, <1>6 DEF MethodHeight, Doing, Height, Last, Threads
  <2>2. k - 1 \in DOMAIN calls[Script] /\ k - 1 + 1 = k
    BY <1>5, <1>6
  <2>3. calls[Script][k].kind = "function" /\ calls[Script][k].top = 0
    BY <1>1, <1>5, <2>1, <2>2, NestedAt
  <2> QED
    BY <1>3, <1>5, <2>3
<1>9. \A d \in Devices : calls'[d] = calls[d]
  BY <1>4 DEF Threads
<1> QED
  BY <1>2, <1>3, <1>4, <1>6, <1>7, <1>8, <1>9, ScriptMoves

\* The script's thread begins a deletion: in its script, in main() after it,
\* or when the VM is closed.
LEMMA ScriptReleases ==
  ASSUME Turns, NEW d \in Devices, Releases(Script, d)
  PROVE  StackInv'
<1>1. Script \in Threads /\ StackTyped /\ CallsType /\ \A u \in Threads : Nested(u)
  BY DEF Threads, Turns, StackInv, FreedInv
<1>2. Begins(Script, "~Device", d) /\ UNCHANGED <<main, vm, frames>>
  BY DEF Releases
<1>3. /\ \A u \in Threads \ {Script} : calls'[u] = calls[u]
      /\ Len(calls'[Script]) = Len(calls[Script]) + 1
      /\ DOMAIN calls'[Script] = 1 .. Len(calls[Script]) + 1
      /\ InCall(Script)' /\ Last(calls[Script])' = calls'[Script][Len(calls[Script]) + 1]
      /\ calls'[Script][Len(calls[Script]) + 1].kind = "~Device"
  <2>1. "~Device" \in Kinds /\ d \in Devices \union {Nobody}
    BY DEF Kinds
  <2>2. /\ \A u \in Threads \ {Script} : calls'[u] = calls[u]
        /\ Len(calls'[Script]) = Len(calls[Script]) + 1
        /\ DOMAIN calls'[Script] = 1 .. Len(calls[Script]) + 1
        /\ InCall(Script)' /\ Last(calls[Script])' = calls'[Script][Len(calls[Script]) + 1]
        /\ calls'[Script][Len(calls[Script]) + 1] =
             [kind |-> "~Device", of |-> d, depth |-> Len(frames), top |-> Height]
    BY <1>1, <1>2, <2>1, CallsGrow
  <2> QED
    BY <2>2
<1>4. \A c \in Devices : calls'[c] = calls[c]
  BY <1>3 DEF Threads
<1>5. MethodHeight'
  BY <1>2, <1>3, <1>4 DEF MethodHeight, Doing, InCall, Height, Threads, Turns, StackInv
<1>6. CASE InScript(Script)
  <2>1. InCall(Script) /\ Last(calls[Script]).kind \in {"script", "function"}
    BY <1>6 DEF InScript, Doing
  <2>2. Silent /\ main = "running" /\ Len(frames) = Last(calls[Script]).depth + 1
    BY <2>1, ScriptAlone
  <2>3. /\ StackTyped' /\ (\A u \in Threads : Nested(u)') /\ Level(Script)' = Len(frames)
        /\ calls'[Script][1] = calls[Script][1]
    BY <1>1, <1>2, <2>1, <2>2, DeletionBegins
  <2> QED
    BY <1>2, <1>3, <1>4, <1>5, <2>2, <2>3, ScriptMoves
<1>7. CASE ~InCall(Script) /\ main \in {"locals", "close"}
  <2>1. StackTyped' /\ \A u \in Threads : Nested(u)'
    BY <1>1, <1>2, <1>7, DeletionBegins
  <2>2. main = "locals" => Silent
    BY <1>7, SilentOutside DEF Asleep
  <2>3. \A c \in Devices : IoTurn(c)'
    <3>1. CASE main = "locals"
      BY <1>4, <2>2, <3>1 DEF Silent, InCall, IoTurn
    <3>2. CASE main = "close"
      BY <1>2, <1>4, <3>2 DEF Turns, StackInv, IoTurn, InCall, Level, Asleep
    <3> QED
      BY <1>7, <3>1, <3>2
  <2>4. ScriptTurn'
    BY <1>1, <1>2, <1>3, <1>7, CallsOf DEF ScriptTurn
  <2>5. MainHeight'
    BY <1>2, <1>4, <1>7 DEF Turns, StackInv, MainHeight, Silent, InCall
  <2> QED
    BY <1>5, <2>1, <2>3, <2>4, <2>5 DEF StackInv
<1> QED
  BY <1>6, <1>7 DEF Releases

\* The script's thread ends a deletion: its IO thread has ended before.
LEMMA ScriptDeleted ==
  ASSUME Turns, Deleted(Script)
  PROVE  StackInv'
<1> DEFINE k == Len(calls[Script])
<1>1. Script \in Threads /\ StackTyped /\ CallsType /\ \A u \in Threads : Nested(u)
  BY DEF Threads, Turns, StackInv, FreedInv
<1>2. /\ InCall(Script) /\ Last(calls[Script]).kind = "~Device" /\ Ends(Script)
      /\ UNCHANGED <<main, vm, frames>> /\ dev[Last(calls[Script]).of] = "ended"
  BY DEF Deleted, Doing
<1>3. /\ StackTyped' /\ \A u \in Threads : Nested(u)'
      /\ InCall(Script)' => /\ Level(Script)' = Level(Script) /\ calls'[Script][1] = calls[Script][1]
                            /\ Last(calls[Script])'.kind \in {"script", "function"}
  BY <1>1, <1>2, DeletionEnded
<1>4. /\ \A u \in Threads \ {Script} : calls'[u] = calls[u]
      /\ DOMAIN calls'[Script] = 1 .. k - 1
      /\ InCall(Script)' <=> k > 1
  BY <1>1, <1>2, CallsShrink
<1>5. \A c \in Devices : calls'[c] = calls[c]
  BY <1>4 DEF Threads
<1>6. MethodHeight'
  BY <1>2, <1>3, <1>5 DEF MethodHeight, Doing, InCall, Height, Threads, Turns, StackInv
<1>7. main \notin Asleep => Silent
  <2>1. ASSUME NEW c \in Devices, InCall(c), main \notin Asleep
        PROVE  FALSE
    <3>1. Last(calls[Script]).of = c
      BY <2>1 DEF Turns, StackInv, IoTurn, Deletes
    <3>2. dev[c] # "ended"
      BY <2>1 DEF Turns, FreedInv, ThreadsInv
    <3> QED
      BY <1>2, <3>1, <3>2
  <2> QED
    BY <2>1 DEF Silent
<1>8. /\ k \in Nat \ {0} /\ DOMAIN calls[Script] = 1 .. k
      /\ Last(calls[Script]) = calls[Script][k]
  BY <1>1, <1>2, CallsOf
<1>9. CASE main = "running"
  <2>1. Silent /\ Len(frames) = Level(Script)
    BY <1>7, <1>9 DEF Asleep, Turns, StackInv, ScriptTurn
  <2>2. k > 1
    BY <1>2, <1>8, <1>9 DEF Turns, StackInv, ScriptTurn
  <2> QED
    BY <1>2, <1>3, <1>4, <1>5, <1>6, <1>9, <2>1, <2>2, ScriptMoves
<1>10. CASE main # "running"
  <2>1. k = 1
    <3>1. k \in DOMAIN calls[Script]
      BY <1>8
    <3> QED
      BY <1>10, <3>1 DEF Turns, StackInv, ScriptTurn
  <2>2. ScriptTurn'
    BY <1>2, <1>4, <1>10, <2>1 DEF ScriptTurn
  <2>3. \A c \in Devices : IoTurn(c)'
    BY <1>2, <1>5, <1>7 DEF Turns, StackInv, IoTurn, InCall, Level, Silent
  <2>4. MainHeight'
    BY <1>2, <1>5, <1>10 DEF Turns, StackInv, MainHeight, Silent, InCall
  <2> QED
    BY <1>3, <1>6, <2>2, <2>3, <2>4 DEF StackInv
<1> QED
  BY <1>9, <1>10
----------------------------------------------------------------------------
(* The IO thread *)

\* The other parts of the invariant when the IO thread of d does something and
\* stays in the VM, or leaves it.
LEMMA IoMoves ==
  ASSUME Turns, NEW d \in Callbacks, UNCHANGED <<main, vm>>,
         calls'[Script] = calls[Script], \A c \in Devices \ {d} : calls'[c] = calls[c],
         StackTyped', \A u \in Threads : Nested(u)',
         main \in Asleep \/ Deletes(Script, d),
         main = "running" => frames'[1].height = frames[1].height,
         Doing(d, "method")' => Height' = 0,
         InCall(d)' => /\ \A i \in DOMAIN calls'[d] : calls'[d][i].kind \in IoKinds
                       /\ calls'[d][1].kind = "function"
                       /\ Len(frames') = Level(d)'
                       /\ main = "running" => calls'[d][1].depth = Level(Script)
                       /\ ~vm.suspended /\ main \notin {"running", "close", "ended"} =>
                            calls'[d][1].depth = 1 /\ calls'[d][1].top = Rest(main),
         ~InCall(d)' => /\ main = "running" => Len(frames') = Level(Script)
                        /\ ~vm.suspended /\ main \notin {"running", "close", "ended"} =>
                             Len(frames') = 1 /\ frames'[1].height = Rest(main)
  PROVE  StackInv'
<1>1. \A c \in Devices \ {d} : ~InCall(c)'
  BY DEF Turns, OneCallback, FreedInv, ThreadsInv, InCall
<1>2. d \in Devices
  OBVIOUS
<1>3. \A c \in Devices : IoTurn(c)'
  BY <1>1 DEF IoTurn, Deletes, Doing, InCall
<1>4. Silent' <=> ~InCall(d)'
  BY <1>1, <1>2 DEF Silent
<1>5. Level(Script)' = Level(Script) /\ InCall(Script)' = InCall(Script)
  BY DEF Level, InCall
<1>6. ScriptTurn'
  BY <1>1, <1>4, <1>5 DEF ScriptTurn, Turns, StackInv
<1>7. MainHeight'
  BY <1>1, <1>4 DEF MainHeight, Turns, StackInv
<1>8. ~Doing(Script, "method")
  <2>1. CASE main \in Asleep
    <3>1. Script \in Threads /\ main # "running"
      BY <2>1 DEF Threads, Asleep
    <3>2. ASSUME InCall(Script) PROVE Last(calls[Script]).kind = "~Device"
      BY <3>1, <3>2, CallsOf DEF Turns, StackInv, ScriptTurn
    <3> QED
      BY <3>2 DEF Doing
  <2>2. CASE Deletes(Script, d)
    BY <2>2 DEF Deletes, Doing
  <2> QED
    BY <2>1, <2>2
<1>9. MethodHeight'
  BY <1>1, <1>8 DEF MethodHeight, Doing, InCall, Threads
<1> QED
  BY <1>3, <1>6, <1>7, <1>9 DEF StackInv

\* A callback comes in while the script's thread rests.
LEMMA IoReceives ==
  ASSUME Turns, NEW d \in Devices, Receives(d)
  PROVE  StackInv'
<1>1. /\ d \in Threads /\ d \in Callbacks /\ d # Script /\ ~InCall(d) /\ UNCHANGED <<main, vm>>
      /\ StackTyped /\ CallsType /\ \A u \in Threads : Nested(u)
  BY DEF Receives, Threads, Turns, StackInv, FreedInv
<1>2. Rests(d) /\ Evaluate(d)
  BY DEF Receives, Turns
<1>3. CASE UNCHANGED <<calls, frames>>
  BY <1>1, <1>3, NothingMoves
<1>4. CASE Begins(d, "function", Nobody) /\ frames' = Enter(Push(frames, 3), d)
  <2>1. Silent
    BY <1>1 DEF Turns, OneCallback, FreedInv, ThreadsInv, Silent
  <2>2. "function" \in Kinds /\ MayCall(d, "function") /\ Nobody \in Devices \union {Nobody}
    BY <1>1 DEF Kinds, MayCall
  <2>3. /\ StackTyped' /\ (\A u \in Threads : Nested(u)')
        /\ Len(frames') = Len(frames) + 1 /\ Level(d)' = Len(frames')
        /\ \A i \in 1 .. Len(frames) - 1 : frames'[i].height = frames[i].height
    BY <1>1, <1>4, <2>2, Enters
  <2>4. /\ \A u \in Threads \ {d} : calls'[u] = calls[u]
        /\ DOMAIN calls'[d] = 1 .. Len(calls[d]) + 1 /\ InCall(d)'
        /\ calls'[d][Len(calls[d]) + 1] =
             [kind |-> "function", of |-> Nobody, depth |-> Len(frames), top |-> Height]
    BY <1>1, <1>4, <2>2, CallsGrow
  <2>5. /\ DOMAIN calls'[d] = {1} /\ calls'[d][1].kind = "function"
        /\ calls'[d][1].depth = Len(frames) /\ calls'[d][1].top = Height
    <3>1. Len(calls[d]) = 0
      BY <1>1, CallsOf
    <3> QED
      BY <2>4, <3>1
  <2>5a. (\A i \in DOMAIN calls'[d] : calls'[d][i].kind \in IoKinds) /\ ~Doing(d, "method")'
    <3>1. Last(calls[d])' = calls'[d][1]
      <4>1. Len(calls[d]) = 0
        BY <1>1, CallsOf
      <4>2. Last(calls[d])' = calls'[d][Len(calls[d]) + 1]
        BY <1>1, <1>4, <2>2, CallsGrow
      <4> QED
        BY <4>1, <4>2
    <3> QED
      BY <2>5, <3>1 DEF IoKinds, Doing
  <2>6. calls'[Script] = calls[Script] /\ \A c \in Devices \ {d} : calls'[c] = calls[c]
    BY <1>1, <2>4 DEF Threads
  <2>7. main \in Asleep \/ Deletes(Script, d)
    BY <1>2 DEF Rests, Asleep, Deletes
  <2>8. main = "running" => frames'[1].height = frames[1].height /\ Len(frames) = Level(Script)
    <3>1. ASSUME main = "running" PROVE 1 \in 1 .. Len(frames) - 1
      BY <3>1, ScriptFrames
    <3> QED
      BY <2>1, <2>3, <3>1 DEF Turns, StackInv, ScriptTurn
  <2>9. ~vm.suspended /\ main \notin {"running", "close", "ended"} =>
          Len(frames) = 1 /\ Height = Rest(main)
    BY <2>1 DEF Turns, StackInv, MainHeight, Height, Last
  <2> QED
    BY <1>1, <2>3, <2>4, <2>5, <2>5a, <2>6, <2>7, <2>8, <2>9, IoMoves
<1> QED
  BY <1>1, <1>2, <1>3, <1>4, EvaluateDoes

\* A function on the IO thread begins a method, or a method calls "waiting".
LEMMA IoBegins ==
  ASSUME Turns, NEW d \in Devices, NEW kind \in {"method", "function"}, InCall(d),
         \/ kind = "method" /\ Last(calls[d]).kind \in {"script", "function"}
         \/ kind = "function" /\ Last(calls[d]).kind = "method",
         NEW e \in Devices \union {Nobody}, Begins(d, kind, e),
         NEW n \in Int, frames' = Enter(Push(frames, n), d),
         UNCHANGED <<main, vm>>
  PROVE  StackInv'
<1>1. /\ d \in Threads /\ d # Script /\ kind \in Kinds /\ kind # "~Device" /\ kind \in IoKinds
      /\ StackTyped /\ CallsType /\ (\A u \in Threads : Nested(u)) /\ MethodHeight
  BY DEF Threads, Kinds, IoKinds, Turns, StackInv, FreedInv
<1>2. d \in Callbacks /\ IoTurn(d)
  BY DEF Turns, FreedInv, ThreadsInv, StackInv
<1>3. Last(calls[d]).kind # "~Device" /\ Len(frames) = Last(calls[d]).depth + 1
  BY <1>1, OnTop
<1>4. MayCall(d, kind)
  BY <1>1, <1>3 DEF MayCall, MethodHeight, Doing
<1>5. /\ StackTyped' /\ (\A u \in Threads : Nested(u)')
      /\ Len(frames') = Len(frames) + 1 /\ Level(d)' = Len(frames')
      /\ \A i \in 1 .. Len(frames) - 1 : frames'[i].height = frames[i].height
      /\ frames'[Len(frames')].height = 0
  BY <1>1, <1>4, Enters
<1>6. /\ \A u \in Threads \ {d} : calls'[u] = calls[u]
      /\ \A i \in DOMAIN calls[d] : calls'[d][i] = calls[d][i]
      /\ DOMAIN calls'[d] = 1 .. Len(calls[d]) + 1 /\ InCall(d)'
      /\ calls'[d][Len(calls[d]) + 1].kind = kind
  <2>1. /\ \A u \in Threads \ {d} : calls'[u] = calls[u]
        /\ \A i \in DOMAIN calls[d] : calls'[d][i] = calls[d][i]
        /\ DOMAIN calls'[d] = 1 .. Len(calls[d]) + 1 /\ InCall(d)'
        /\ calls'[d][Len(calls[d]) + 1] =
             [kind |-> kind, of |-> e, depth |-> Len(frames), top |-> Height]
    BY <1>1, CallsGrow
  <2> QED
    BY <2>1
<1>7. /\ \A i \in DOMAIN calls'[d] : calls'[d][i].kind \in IoKinds
      /\ calls'[d][1] = calls[d][1]
  <2>1. DOMAIN calls[d] = 1 .. Len(calls[d]) /\ Len(calls[d]) \in Nat \ {0}
    BY <1>1, CallsOf
  <2>2. \A i \in 1 .. Len(calls[d]) + 1 : i \in 1 .. Len(calls[d]) \/ i = Len(calls[d]) + 1
    BY <2>1
  <2>3. 1 \in 1 .. Len(calls[d])
    BY <2>1
  <2> QED
    BY <1>1, <1>2, <1>6, <2>1, <2>2, <2>3 DEF IoTurn
<1>8. calls'[Script] = calls[Script] /\ \A c \in Devices \ {d} : calls'[c] = calls[c]
  BY <1>1, <1>6 DEF Threads
<1>9. main \in Asleep \/ Deletes(Script, d)
  BY <1>2 DEF IoTurn
<1>10. /\ main = "running" => calls[d][1].depth = Level(Script)
       /\ ~vm.suspended /\ main \notin {"running", "close", "ended"} =>
            calls[d][1].depth = 1 /\ calls[d][1].top = Rest(main)
  BY DEF Turns, StackInv, ScriptTurn, MainHeight
<1>11. main = "running" => frames'[1].height = frames[1].height
  <2>1. ASSUME main = "running" PROVE 1 \in 1 .. Len(frames) - 1
    BY <2>1, ScriptFrames
  <2> QED
    BY <1>5, <2>1
<1>12. Height' = 0 /\ calls'[d][1].kind = "function"
  BY <1>2, <1>5, <1>7 DEF Height, Last, IoTurn
<1> QED
  BY <1>2, <1>5, <1>6, <1>7, <1>8, <1>9, <1>10, <1>11, <1>12, IoMoves

\* A function on the IO thread returns, or a method.
LEMMA IoReturns ==
  ASSUME Turns, NEW d \in Devices, FunctionEnds(d) \/ MethodReturns(d)
  PROVE  StackInv'
<1> DEFINE k == Len(calls[d])
           m == Len(frames)
<1>1. /\ d \in Threads /\ d # Script /\ InCall(d) /\ UNCHANGED <<main, vm>>
      /\ StackTyped /\ CallsType /\ (\A u \in Threads : Nested(u))
      /\ Last(calls[d]).kind # "~Device" /\ Ends(d)
      /\ \/ /\ Last(calls[d]).kind = "function"
            /\ frames' = SetTop(Leave(frames), Last(calls[d]).top)
         \/ Last(calls[d]).kind = "method" /\ frames' = Leave(frames)
  BY DEF FunctionEnds, MethodReturns, Threads, Turns, StackInv, FreedInv, Doing
<1>2. d \in Callbacks /\ IoTurn(d)
  BY <1>1 DEF Turns, FreedInv, ThreadsInv, StackInv
<1>3. m = Last(calls[d]).depth + 1
  BY <1>1, OnTop
<1>4. /\ StackTyped' /\ (\A u \in Threads : Nested(u)')
      /\ Len(frames') = m - 1
      /\ InCall(d)' => Level(d)' = Len(frames') /\ calls'[d][1] = calls[d][1]
      /\ \A i \in 1 .. m - 2 : frames'[i].height = frames[i].height
      /\ Last(calls[d]).kind = "function" => frames'[Len(frames')].height = Last(calls[d]).top
  BY <1>1, <1>3, Leaves
<1>5. /\ \A u \in Threads \ {d} : calls'[u] = calls[u]
      /\ DOMAIN calls'[d] = 1 .. k - 1
      /\ \A i \in DOMAIN calls'[d] : calls'[d][i] = calls[d][i] /\ i \in DOMAIN calls[d]
      /\ InCall(d)' <=> k > 1
      /\ InCall(d)' => Last(calls[d])' = calls[d][k - 1]
  BY <1>1, CallsShrink
<1>6. /\ k \in Nat \ {0} /\ k \in DOMAIN calls[d] /\ Last(calls[d]) = calls[d][k]
      /\ DOMAIN calls[d] = 1 .. k
  BY <1>1, CallsOf
<1>6a. Doing(d, "method")' => Height' = 0
  <2>1. SUFFICES ASSUME InCall(d)', calls[d][k - 1].kind = "method" PROVE frames'[Len(frames')].height = 0
    BY <1>5 DEF Doing, Height, Last
  <2>2. k - 1 \in DOMAIN calls[d] /\ k - 1 + 1 = k
    <3>1. k > 1 /\ k \in Nat /\ DOMAIN calls[d] = 1 .. k
      BY <1>5, <1>6, <2>1
    <3> HIDE DEF k
    <3> QED
      BY <3>1
  <2>3. calls[d][k].kind = "function" /\ calls[d][k].top = 0
    <3>1. Nested(d)
      BY <1>1
    <3> HIDE DEF k
    <3>2. k - 1 + 1 \in DOMAIN calls[d]
      BY <1>6, <2>2
    <3>3. calls[d][k - 1 + 1].kind = "function" /\ calls[d][k - 1 + 1].top = 0
      BY <3>1, <3>2, <2>1, <2>2, Zenon DEF Nested
    <3> QED
      BY ONLY <3>3, <1>6
  <2> HIDE DEF k
  <2> QED
    BY <1>4, <1>6, <2>3
<1>7. calls[d][k].depth = calls[d][1].depth + (k - 1) /\ calls[d][1].depth \in Nat
  BY <1>1, <1>6, NestedAt
<1>8. calls'[Script] = calls[Script] /\ \A c \in Devices \ {d} : calls'[c] = calls[c]
  BY <1>1, <1>5 DEF Threads
<1>9. main \in Asleep \/ Deletes(Script, d)
  BY <1>1, <1>2 DEF IoTurn
<1>10. main = "running" => calls[d][1].depth = Level(Script) /\ Level(Script) > 1
  BY <1>1, ScriptFrames DEF Turns, StackInv, ScriptTurn
<1>11. main = "running" => frames'[1].height = frames[1].height
  <2>1. ASSUME main = "running" PROVE 1 \in 1 .. m - 2
    <3>1. calls[d][1].depth > 1
      BY <2>1, <1>10
    <3> HIDE DEF k, m
    <3> QED
      BY <3>1, <1>3, <1>6, <1>7
  <2> QED
    BY <1>4, <2>1
<1>12. ~vm.suspended /\ main \notin {"running", "close", "ended"} =>
         calls[d][1].depth = 1 /\ calls[d][1].top = Rest(main)
  BY <1>1 DEF Turns, StackInv, MainHeight
<1>13. InCall(d)' => /\ \A i \in DOMAIN calls'[d] : calls'[d][i].kind \in IoKinds
                     /\ calls'[d][1].kind = "function"
  BY <1>1, <1>2, <1>4, <1>5 DEF IoTurn
<1>14. ~InCall(d)' => k = 1 /\ Len(frames') = calls[d][1].depth
                      /\ frames'[Len(frames')].height = calls[d][1].top
  <2>1. ASSUME ~InCall(d)' PROVE k = 1
    <3>1. ~(k > 1) /\ k \in Nat \ {0}
      BY <2>1, <1>5, <1>6
    <3> HIDE DEF k
    <3> QED
      BY <3>1
  <2>2. ASSUME ~InCall(d)' PROVE Len(frames') = calls[d][1].depth
    <3>1. m = calls[d][1].depth + 1
      BY <2>1, <2>2, <1>3, <1>6
    <3> HIDE DEF k, m
    <3> QED
      BY <3>1, <1>4, <1>7
  <2>3. ASSUME ~InCall(d)' PROVE Last(calls[d]).kind = "function"
    BY <2>1, <2>3, <1>1, <1>2, <1>6 DEF IoTurn
  <2> QED
    BY <2>1, <2>2, <2>3, <1>4, <1>6
<1> HIDE DEF k, m
<1>15. ~InCall(d)' =>
         /\ main = "running" => Len(frames') = Level(Script)
         /\ ~vm.suspended /\ main \notin {"running", "close", "ended"} =>
              Len(frames') = 1 /\ frames'[1].height = Rest(main)
  BY <1>10, <1>12, <1>14
<1>16. InCall(d)' =>
         /\ Len(frames') = Level(d)'
         /\ main = "running" => calls'[d][1].depth = Level(Script)
         /\ ~vm.suspended /\ main \notin {"running", "close", "ended"} =>
              calls'[d][1].depth = 1 /\ calls'[d][1].top = Rest(main)
  BY <1>4, <1>10, <1>12
<1> QED
  BY <1>1, <1>2, <1>4, <1>6a, <1>8, <1>9, <1>11, <1>13, <1>15, <1>16, IoMoves

\* The callback deletes a Device.
LEMMA IoDeletes ==
  ASSUME Turns, NEW d \in Devices, NEW e \in Devices, Releases(d, e)
  PROVE  StackInv'
<1>1. /\ d \in Threads /\ d # Script /\ InCall(d) /\ UNCHANGED <<main, vm, frames>>
      /\ StackTyped /\ CallsType /\ (\A u \in Threads : Nested(u))
      /\ Last(calls[d]).kind \in {"script", "function"} /\ Begins(d, "~Device", e)
  BY DEF Releases, Threads, Turns, StackInv, FreedInv, Doing, InScript
<1>2. d \in Callbacks /\ IoTurn(d)
  BY <1>1 DEF Turns, FreedInv, ThreadsInv, StackInv
<1>3. Len(frames) = Last(calls[d]).depth + 1
  BY <1>1, OnTop
<1>4. /\ StackTyped' /\ (\A u \in Threads : Nested(u)')
      /\ Level(d)' = Len(frames) /\ calls'[d][1] = calls[d][1]
  BY <1>1, <1>3, DeletionBegins
<1>5. "~Device" \in Kinds /\ e \in Devices \union {Nobody}
  BY DEF Kinds
<1>6. /\ \A u \in Threads \ {d} : calls'[u] = calls[u]
      /\ \A i \in DOMAIN calls[d] : calls'[d][i] = calls[d][i]
      /\ DOMAIN calls'[d] = 1 .. Len(calls[d]) + 1 /\ InCall(d)'
      /\ Last(calls[d])' = calls'[d][Len(calls[d]) + 1]
      /\ calls'[d][Len(calls[d]) + 1] =
           [kind |-> "~Device", of |-> e, depth |-> Len(frames), top |-> Height]
  BY <1>1, <1>5, CallsGrow
<1>6a. ~Doing(d, "method")'
  BY <1>6 DEF Doing
<1>7. \A i \in DOMAIN calls'[d] : calls'[d][i].kind \in IoKinds
  <2>1. DOMAIN calls[d] = 1 .. Len(calls[d]) /\ Len(calls[d]) \in Nat
    BY <1>1, CallsOf
  <2>2. \A i \in 1 .. Len(calls[d]) + 1 : i \in 1 .. Len(calls[d]) \/ i = Len(calls[d]) + 1
    BY <2>1
  <2> QED
    BY <1>1, <1>2, <1>6, <2>1, <2>2 DEF IoTurn, IoKinds
<1>8. calls'[Script] = calls[Script] /\ \A c \in Devices \ {d} : calls'[c] = calls[c]
  BY <1>1, <1>6 DEF Threads
<1>9. main \in Asleep \/ Deletes(Script, d)
  BY <1>1, <1>2 DEF IoTurn
<1>10. /\ main = "running" => calls[d][1].depth = Level(Script)
       /\ ~vm.suspended /\ main \notin {"running", "close", "ended"} =>
            calls[d][1].depth = 1 /\ calls[d][1].top = Rest(main)
  BY <1>1 DEF Turns, StackInv, ScriptTurn, MainHeight
<1> QED
  BY <1>1, <1>2, <1>4, <1>6, <1>6a, <1>7, <1>8, <1>9, <1>10, IoMoves DEF IoTurn

\* The deletion ends, and the callback goes on.
LEMMA IoDeleted ==
  ASSUME Turns, NEW d \in Devices, Deleted(d)
  PROVE  StackInv'
<1> DEFINE k == Len(calls[d])
<1>1. /\ d \in Threads /\ d # Script /\ InCall(d) /\ UNCHANGED <<main, vm, frames>>
      /\ StackTyped /\ CallsType /\ (\A u \in Threads : Nested(u))
      /\ Last(calls[d]).kind = "~Device" /\ Ends(d)
  BY DEF Deleted, Threads, Turns, StackInv, FreedInv, Doing
<1>2. d \in Callbacks /\ IoTurn(d)
  BY <1>1 DEF Turns, FreedInv, ThreadsInv, StackInv
<1>3. /\ StackTyped' /\ (\A u \in Threads : Nested(u)')
      /\ InCall(d)' => /\ Level(d)' = Level(d) /\ calls'[d][1] = calls[d][1]
                       /\ Last(calls[d])'.kind \in {"script", "function"}
  BY <1>1, DeletionEnded
<1>4. /\ \A u \in Threads \ {d} : calls'[u] = calls[u]
      /\ \A i \in DOMAIN calls'[d] : calls'[d][i] = calls[d][i] /\ i \in DOMAIN calls[d]
      /\ InCall(d)' <=> k > 1
  BY <1>1, CallsShrink
<1>5. /\ k \in Nat \ {0} /\ Last(calls[d]) = calls[d][k]
  BY <1>1, CallsOf
<1>6. InCall(d)'
  BY <1>1, <1>2, <1>4, <1>5 DEF IoTurn
<1>7. calls'[Script] = calls[Script] /\ \A c \in Devices \ {d} : calls'[c] = calls[c]
  BY <1>1, <1>4 DEF Threads
<1>8. main \in Asleep \/ Deletes(Script, d)
  BY <1>1, <1>2 DEF IoTurn
<1>9. /\ main = "running" => calls[d][1].depth = Level(Script)
      /\ ~vm.suspended /\ main \notin {"running", "close", "ended"} =>
           calls[d][1].depth = 1 /\ calls[d][1].top = Rest(main)
  BY <1>1 DEF Turns, StackInv, ScriptTurn, MainHeight
<1>10. /\ \A i \in DOMAIN calls'[d] : calls'[d][i].kind \in IoKinds
       /\ calls'[d][1].kind = "function" /\ Len(frames') = Level(d)'
  BY <1>1, <1>2, <1>3, <1>4, <1>6 DEF IoTurn
<1>11. ~Doing(d, "method")'
  BY <1>3, <1>6 DEF Doing
<1> HIDE DEF k
<1> QED
  BY <1>1, <1>2, <1>3, <1>6, <1>7, <1>8, <1>9, <1>10, <1>11, IoMoves
----------------------------------------------------------------------------
(* main() *)

\* A step of main() with the VM for itself, before its script or after it.
LEMMA MainMoves ==
  ASSUME Turns, Silent, ~InCall(Script), UNCHANGED calls, main' # "running",
         frames' \in Seq(Frame), frames' # <<>>,
         vm'.suspended => main' \in Asleep,
         ~vm'.suspended => Len(frames') = 1 /\ frames'[1].height = Rest(main')
  PROVE  StackInv'
<1>1. \A t \in Threads : ~InCall(t) /\ ~InCall(t)'
  BY DEF Silent, Threads, InCall
<1>2. \A t \in Threads : calls'[t] = <<>>
  BY <1>1 DEF InCall
<1>3. Script \in Threads /\ DOMAIN <<>> = {}
  BY DEF Threads
<1>4. StackTyped'
  BY DEF Turns, StackInv, StackTyped
<1>5. \A t \in Threads : Nested(t)'
  BY <1>2, <1>3 DEF Nested
<1>6. (\A d \in Devices : IoTurn(d)') /\ Silent' /\ MethodHeight'
  BY <1>1, <1>3 DEF IoTurn, Threads, Silent, MethodHeight, Doing
<1>7. ScriptTurn'
  BY <1>2, <1>3 DEF ScriptTurn
<1>8. MainHeight'
  BY <1>1 DEF MainHeight, Threads
<1> QED
  BY <1>4, <1>5, <1>6, <1>7, <1>8 DEF StackInv

\* What main() has on the stack before its script and after it.
LEMMA MainRests ==
  ASSUME Turns, main \in {"start", "compile", "script", "locals"}, ~InCall(Script)
  PROVE  /\ Silent /\ ~vm.suspended /\ Len(frames) = 1 /\ frames[1].height = Rest(main)
         /\ frames \in Seq(Frame) /\ frames # <<>>
<1>1. Silent
  BY SilentOutside DEF Asleep
<1> QED
  BY <1>1 DEF Turns, StackInv, MainHeight, Asleep, StackTyped

LEMMA MainOpens ==
  ASSUME Turns, Opens \/ Compiles
  PROVE  StackInv'
<1>1. main \in {"start", "compile"} /\ ~InCall(Script) /\ UNCHANGED calls
  BY DEF Opens, Compiles, Turns, FreedInv, ClosedInv
<1>2. /\ Silent /\ ~vm.suspended /\ Len(frames) = 1 /\ frames[1].height = Rest(main)
      /\ frames \in Seq(Frame) /\ frames # <<>>
  BY <1>1, MainRests
<1>3. /\ Push(frames, 1) \in Seq(Frame) /\ Push(frames, 1) # <<>> /\ Len(Push(frames, 1)) = 1
      /\ Push(frames, 1)[1].height = Rest(main) + 1
  BY <1>2, PushDoes
<1>4. ~vm'.suspended
  BY <1>2 DEF Opens, Compiles, Turns, FreedInv, VmTyped
<1>5. CASE Opens
  BY <1>1, <1>2, <1>3, <1>4, <1>5, MainMoves DEF Opens, Rest
<1>6. CASE main = "compile" /\ frames' = Push(frames, 1) /\ main' = "script"
  BY <1>1, <1>2, <1>3, <1>4, <1>6, MainMoves DEF Rest
<1>7. CASE main = "compile" /\ main' = "Run" /\ frames' = frames
  BY <1>1, <1>2, <1>4, <1>7, MainMoves DEF Rest
<1> QED
  BY <1>5, <1>6, <1>7 DEF Compiles

\* The script is called in the second frame.
LEMMA MainRuns ==
  ASSUME Turns, Runs
  PROVE  StackInv'
<1>1. /\ main = "script" /\ ~InCall(Script) /\ main' = "running" /\ UNCHANGED vm
      /\ Begins(Script, "script", Nobody) /\ frames' = Enter(Push(frames, 2), Script)
      /\ Script \in Threads /\ StackTyped /\ CallsType /\ (\A u \in Threads : Nested(u))
      /\ "script" \in Kinds /\ Nobody \in Devices \union {Nobody}
  BY DEF Runs, Turns, FreedInv, ClosedInv, StackInv, Threads, Kinds
<1>2. /\ Silent /\ ~vm.suspended /\ Len(frames) = 1 /\ frames[1].height = 2
      /\ frames \in Seq(Frame) /\ frames # <<>>
  BY <1>1, MainRests DEF Rest
<1>3. MayCall(Script, "script")
  BY <1>1 DEF MayCall
<1>4. /\ StackTyped' /\ (\A u \in Threads : Nested(u)')
      /\ Len(frames') = Len(frames) + 1 /\ Level(Script)' = Len(frames')
      /\ frames'[Len(frames')].height = 0
  BY <1>1, <1>3, Enters
<1>5. /\ \A u \in Threads \ {Script} : calls'[u] = calls[u]
      /\ DOMAIN calls'[Script] = 1 .. Len(calls[Script]) + 1 /\ InCall(Script)'
      /\ calls'[Script][Len(calls[Script]) + 1] =
           [kind |-> "script", of |-> Nobody, depth |-> Len(frames), top |-> Height]
  BY <1>1, CallsGrow
<1>6. calls'[Script][1].kind = "script" /\ calls'[Script][1].depth = 1
  <2>1. Len(calls[Script]) = 0
    BY <1>1, CallsOf
  <2> QED
    BY <1>2, <1>5, <2>1
<1>7. Silent' /\ \A d \in Devices : ~InCall(d)'
  BY <1>2, <1>5 DEF Silent, Threads, InCall
<1>8. frames'[1].height = 4
  <2> DEFINE p == Push(frames, 2)
  <2>1. p \in Seq(Frame) /\ Len(p) = 1 /\ p[1].height = 4
    BY <1>2, PushDoes
  <2>2. frames' = Enter(p, Script)
    BY <1>1
  <2> HIDE DEF p
  <2>3. \A i \in 1 .. Len(p) : frames'[i] = p[i]
    <3>1. Script \in Threads
      BY <1>1
    <3>2. \A i \in 1 .. Len(p) : Enter(p, Script)[i] = p[i]
      BY <2>1, <3>1, EnterDoes
    <3> QED
      BY <2>2, <3>2, Zenon
  <2>4. frames'[1] = p[1]
    BY <2>1, <2>3
  <2> QED
    BY <2>1, <2>4
<1>9. ScriptTurn' /\ (\A d \in Devices : IoTurn(d)')
  BY <1>1, <1>4, <1>5, <1>6, <1>7 DEF ScriptTurn, IoTurn
<1>10. MainHeight'
  BY <1>1, <1>2, <1>8 DEF MainHeight
<1>11. MethodHeight'
  BY <1>4 DEF MethodHeight, Height, Last
<1> QED
  BY <1>4, <1>9, <1>10, <1>11 DEF StackInv

\* The script's own call is the only one when it ends.
LEMMA OwnCall ==
  ASSUME Turns, Doing(Script, "script")
  PROVE  /\ Len(calls[Script]) = 1 /\ main = "running" /\ Silent /\ Len(frames) = 2
         /\ Last(calls[Script]).depth = 1 /\ frames[1].height = 4
<1>1. /\ Script \in Threads /\ StackTyped /\ InCall(Script) /\ CallsType
      /\ Last(calls[Script]).kind = "script"
  BY DEF Threads, Turns, StackInv, FreedInv, Doing
<1>2. /\ Len(calls[Script]) \in DOMAIN calls[Script]
      /\ Last(calls[Script]) = calls[Script][Len(calls[Script])]
  BY <1>1, CallsOf
<1>3. Len(calls[Script]) = 1
  BY <1>1, <1>2 DEF CallsType
<1>4. Silent /\ main = "running" /\ Len(frames) = Last(calls[Script]).depth + 1
  BY <1>1, ScriptAlone
<1> QED
  BY <1>2, <1>3, <1>4 DEF Turns, StackInv, ScriptTurn, MainHeight

LEMMA MainScriptEnds ==
  ASSUME Turns, ScriptEnds
  PROVE  StackInv'
<1>1. /\ Doing(Script, "script") /\ InCall(Script) /\ Last(calls[Script]).kind = "script"
      /\ Ends(Script) /\ frames' = Leave(frames)
      /\ main' = "locals" /\ UNCHANGED vm
      /\ Script \in Threads /\ StackTyped /\ CallsType /\ (\A u \in Threads : Nested(u))
  BY DEF ScriptEnds, Doing, Threads, Turns, StackInv, FreedInv
<1>2. /\ Len(calls[Script]) = 1 /\ main = "running" /\ Silent /\ Len(frames) = 2
      /\ Last(calls[Script]).depth = 1 /\ frames[1].height = 4
  BY <1>1, OwnCall
<1>3. /\ StackTyped' /\ (\A u \in Threads : Nested(u)')
      /\ Len(frames') = Len(frames) - 1
      /\ frames'[Len(frames')].height = frames[Len(frames')].height
  BY <1>1, <1>2, Leaves
<1>4. /\ \A u \in Threads \ {Script} : calls'[u] = calls[u]
      /\ DOMAIN calls'[Script] = 1 .. Len(calls[Script]) - 1
      /\ InCall(Script)' <=> Len(calls[Script]) > 1
  BY <1>1, CallsShrink
<1>5. DOMAIN calls'[Script] = {} /\ ~InCall(Script)'
  BY <1>2, <1>4
<1>6. Silent' /\ \A d \in Devices : ~InCall(d)'
  BY <1>2, <1>4 DEF Silent, Threads, InCall
<1>7. (\A d \in Devices : IoTurn(d)') /\ ScriptTurn' /\ MethodHeight'
  BY <1>1, <1>5, <1>6 DEF IoTurn, ScriptTurn, MethodHeight, Doing, Threads
<1>8. MainHeight'
  <2>1. Len(frames') = 1 /\ frames'[1].height = 4
    BY <1>2, <1>3
  <2>2. ~vm.suspended
    BY <1>2 DEF Turns, StackInv, MainHeight, Asleep
  <2> QED
    BY <1>1, <1>6, <2>1, <2>2 DEF MainHeight, Rest
<1> QED
  BY <1>3, <1>7, <1>8 DEF StackInv

\* Whether the script has returned or thrown, main() finds the root table.
LEMMA MainScriptDone ==
  ASSUME Turns, ScriptDone
  PROVE  StackInv'
<1>1. main = "locals" /\ ~InCall(Script) /\ main' = "Run" /\ UNCHANGED <<vm, calls>>
  BY DEF ScriptDone
<1>2. /\ Silent /\ ~vm.suspended /\ Len(frames) = 1 /\ frames[1].height = 4
      /\ frames \in Seq(Frame) /\ frames # <<>>
  BY <1>1, MainRests DEF Rest
<1>3. \A m \in Int : Push(frames, m) \in Seq(Frame) /\ Push(frames, m) # <<>>
  BY <1>2, PushDoes
<1>4. /\ Push(Push(frames, -1), 1) = frames
      /\ Push(frames, 0) = frames
      /\ Push(Push(frames, -2), -1) = Push(frames, -3)
      /\ Push(Push(frames, -1), -1) = Push(frames, -2)
  BY <1>2, PushPop
<1>5. frames' = Push(frames, -3)
  BY <1>4 DEF ScriptDone, RunReturns, RunThrows, Pop
<1>6. Len(frames') = 1 /\ frames'[1].height = 1
  <2>1. Len(Push(frames, -3)) = Len(frames)
        /\ Push(frames, -3)[Len(frames)].height = frames[Len(frames)].height + -3
    BY <1>2, PushDoes
  <2> QED
    BY <1>2, <1>5, <2>1
<1>7. frames' \in Seq(Frame) /\ frames' # <<>>
  BY <1>3, <1>5
<1>8. Rest(main') = 1
  BY <1>1 DEF Rest
<1>9. main' # "running" /\ ~vm'.suspended /\ UNCHANGED calls
  BY <1>1, <1>2
<1>10. Silent /\ ~InCall(Script) /\ Len(frames') = 1 /\ frames'[1].height = Rest(main')
  BY <1>1, <1>2, <1>6, <1>8
<1> QED
  BY <1>7, <1>9, <1>10, MainMoves

\* suspend() leaves the frame of the script on the stack.
LEMMA MainSuspends ==
  ASSUME Turns, Suspends
  PROVE  StackInv'
<1>1. /\ Doing(Script, "script") /\ InCall(Script) /\ Ends(Script)
      /\ frames' = Pop(Pop(Push(frames, 1), 2), 1)
      /\ main' = "Run" /\ vm'.suspended
      /\ Script \in Threads /\ StackTyped /\ CallsType
      /\ frames \in Seq(Frame) /\ frames # <<>>
  BY DEF Suspends, Doing, Threads, Turns, StackInv, FreedInv, StackTyped, VmTyped
<1>2. Len(calls[Script]) = 1 /\ Silent
  BY <1>1, OwnCall
<1>3. /\ \A u \in Threads \ {Script} : calls'[u] = calls[u]
      /\ calls'[Script] \in Seq(Call)
      /\ DOMAIN calls'[Script] = 1 .. Len(calls[Script]) - 1
      /\ InCall(Script)' <=> Len(calls[Script]) > 1
  BY <1>1, CallsShrink
<1>4. DOMAIN calls'[Script] = {} /\ ~InCall(Script)'
  BY <1>2, <1>3
<1>5. Silent' /\ (\A d \in Devices : ~InCall(d) /\ ~InCall(d)')
  BY <1>2, <1>3 DEF Silent, Threads, InCall
<1>6. frames' \in Seq(Frame) /\ frames' # <<>>
  <2>1. Push(frames, 1) \in Seq(Frame) /\ Push(frames, 1) # <<>>
    BY <1>1, PushDoes
  <2>2. Push(Push(frames, 1), -2) \in Seq(Frame) /\ Push(Push(frames, 1), -2) # <<>>
    BY <2>1, PushDoes
  <2> QED
    BY <1>1, <2>2, PushDoes DEF Pop
<1>7. StackTyped'
  BY <1>1, <1>3, <1>6 DEF StackTyped
<1>8. \A t \in Threads : Nested(t)'
  <2>1. ASSUME NEW t \in Threads PROVE DOMAIN calls'[t] = {}
    <3>1. CASE t = Script
      BY <1>4, <3>1
    <3>2. CASE t \in Devices /\ t # Script
      BY <1>3, <1>5, <2>1, <3>2 DEF InCall
    <3> QED
      BY <3>1, <3>2 DEF Threads
  <2> QED
    BY <2>1 DEF Nested
<1>9. (\A d \in Devices : IoTurn(d)') /\ ScriptTurn' /\ MethodHeight'
  BY <1>1, <1>4, <1>5 DEF IoTurn, ScriptTurn, MethodHeight, Doing, Threads
<1>10. MainHeight'
  BY <1>1 DEF MainHeight, Asleep
<1> QED
  BY <1>7, <1>8, <1>9, <1>10 DEF StackInv

\* Run ends, and the VM is closed: nothing on the stack counts any more.
LEMMA MainCloses ==
  ASSUME Turns, RunEnds \/ Frees \/ Closes
  PROVE  StackInv'
<1>1. /\ main \in {"Run", "close"} /\ main' \in {"close", "ended"} /\ UNCHANGED <<frames, calls>>
  BY DEF RunEnds, Frees, Closes
<1>2. main' \in Asleep /\ main \in Asleep /\ main' # "running" /\ main # "running"
  BY <1>1 DEF Asleep
<1>3. StackTyped' /\ (\A t \in Threads : Nested(t)') /\ MethodHeight'
  BY <1>1 DEF Turns, StackInv, StackTyped, Nested, InFrame, MethodHeight, Doing, InCall, Height
<1>4. \A d \in Devices : IoTurn(d)'
  BY <1>1, <1>2 DEF Turns, StackInv, IoTurn, InCall, Level
<1>5. ScriptTurn'
  BY <1>1, <1>2 DEF Turns, StackInv, ScriptTurn
<1>6. MainHeight'
  BY <1>1, <1>2 DEF MainHeight
<1> QED
  BY <1>3, <1>4, <1>5, <1>6 DEF StackInv

\* A VM that is finalized with no callback under way has its frames, but
\* nobody is in a call.
LEMMA MainFinalizes ==
  ASSUME Turns, Finalizes, vm'.under = {}
  PROVE  StackInv'
<1>1. /\ ~InCall(Script) /\ main = "close" /\ UNCHANGED <<main, calls>>
      /\ vm'.under = {d \in Devices : InCall(d)} /\ vm'.suspended = vm.suspended
  BY DEF Finalizes, Turns, FreedInv, VmTyped
<1>2. Silent
  BY ONLY vm'.under = {}, <1>1 DEF Silent
<1>3. frames' \in Seq(Frame) /\ frames' # <<>>
  <2>1. frames \in Seq(Frame) /\ Len(frames) \in Nat \ {0} /\ DOMAIN frames = 1 .. Len(frames)
    BY EmptySeq DEF Turns, StackInv, StackTyped
  <2>2. \A i \in 1 .. Len(frames) : [by |-> Nobody, height |-> frames[i].height] \in Frame
    <3>1. \A i \in 1 .. Len(frames) : frames[i] \in Frame
      BY <2>1, ElementOfSeq
    <3> QED
      BY <3>1 DEF Frame
  <2>3. frames' = [i \in 1 .. Len(frames) |-> [by |-> Nobody, height |-> frames[i].height]]
    BY <2>1 DEF Finalizes
  <2>4. frames' \in [1 .. Len(frames) -> Frame]
    BY <2>2, <2>3
  <2>5. frames' \in Seq(Frame) /\ DOMAIN frames' = 1 .. Len(frames)
    BY ONLY <2>1, <2>4, SeqDef
  <2> QED
    BY <2>1, <2>5
<1>4. \A t \in Threads : calls'[t] = <<>>
  BY <1>1, <1>2 DEF Silent, Threads, InCall
<1>5. DOMAIN <<>> = {} /\ Script \in Threads /\ Devices \subseteq Threads
  BY DEF Threads
<1>6. StackTyped'
  BY <1>1, <1>3 DEF Turns, StackInv, StackTyped
<1>7. (\A t \in Threads : Nested(t)') /\ (\A d \in Devices : IoTurn(d)') /\ MethodHeight'
  BY <1>4, <1>5 DEF Nested, IoTurn, MethodHeight, Doing, InCall
<1>8. ScriptTurn'
  BY <1>1, <1>4, <1>5 DEF ScriptTurn
<1>9. MainHeight'
  BY <1>1 DEF MainHeight, Asleep
<1> QED
  BY <1>6, <1>7, <1>8, <1>9 DEF StackInv

----------------------------------------------------------------------------
\* Init establishes the invariant.
LEMMA InitStack == Init => StackInv
<1> SUFFICES ASSUME Init PROVE StackInv
  OBVIOUS
<1>1. [by |-> Nobody, height |-> 0] \in Frame
  BY DEF Frame
<1>2. frames = <<[by |-> Nobody, height |-> 0]>>
  BY DEF Init
<1>3. frames \in Seq(Frame) /\ frames # <<>> /\ Len(frames) = 1 /\ frames[1].height = 0
  BY <1>1, <1>2
<1>4. Script \in Threads /\ DOMAIN <<>> = {} /\ <<>> \in Seq(Call)
  BY DEF Threads
<1>5. \A t \in Threads : calls[t] = <<>>
  BY DEF Init
<1>6. StackTyped /\ \A t \in Threads : Nested(t)
  BY <1>3, <1>4, <1>5 DEF StackTyped, Nested
<1>7. \A t \in Threads : ~InCall(t)
  BY <1>5 DEF InCall
<1>8. (\A d \in Devices : IoTurn(d)) /\ Silent /\ MethodHeight
  BY <1>4, <1>7 DEF IoTurn, Silent, MethodHeight, Doing, Threads
<1>9. ScriptTurn
  BY <1>4, <1>5 DEF Init, ScriptTurn
<1>10. MainHeight
  BY <1>3, <1>7 DEF Init, MainHeight, Rest, Threads
<1> QED
  BY <1>6, <1>8, <1>9, <1>10 DEF StackInv

LEMMA NextStack == Turns /\ [Next]_vars /\ vm'.under = {} => StackInv'
<1> SUFFICES ASSUME Turns, [Next]_vars, vm'.under = {} PROVE StackInv'
  OBVIOUS
<1>0. Push(frames, 0) = frames
  BY PushPop DEF Turns, StackInv, StackTyped
<1>1. CASE UNCHANGED vars
  BY <1>1, NothingMoves DEF vars
<1>2. CASE MainSteps
  BY <1>2, MainOpens, MainRuns, MainScriptEnds, MainScriptDone, MainSuspends, MainFinalizes,
     MainCloses DEF MainSteps
<1>3. ASSUME NEW d \in Devices, Constructs(d) \/ IoEnds(d) PROVE StackInv'
  BY <1>3, NothingMoves DEF Constructs, IoEnds
<1>4. ASSUME NEW d \in Devices, Receives(d) PROVE StackInv'
  BY <1>4, IoReceives
<1>5. ASSUME NEW t \in Threads, NEW e \in Devices, CallsMethod(t, e) PROVE StackInv'
  <2>1. /\ InCall(t) /\ Last(calls[t]).kind \in {"script", "function"}
        /\ Begins(t, "method", e) /\ UNCHANGED <<main, vm>>
        /\ frames' = Enter(Push(frames, 0), t)
    BY <1>0, <1>5 DEF CallsMethod, InScript, Doing
  <2> QED
    BY <2>1, ScriptBegins, IoBegins DEF Threads
<1>6. ASSUME NEW t \in Threads, NotifyWaiting(t) PROVE StackInv'
  <2>1. /\ InCall(t) /\ Last(calls[t]).kind = "method" /\ Evaluate(t)
        /\ UNCHANGED <<main, vm>>
    BY <1>6 DEF NotifyWaiting, Doing
  <2>2. CASE UNCHANGED <<calls, frames>>
    BY <2>1, <2>2, NothingMoves
  <2>3. CASE Begins(t, "function", Nobody) /\ frames' = Enter(Push(frames, 3), t)
    BY <2>1, <2>3, ScriptBegins, IoBegins DEF Threads
  <2> QED
    BY <2>1, <2>2, <2>3, EvaluateDoes DEF Turns, StackInv
<1>7. ASSUME NEW t \in Threads, MethodReturns(t) \/ FunctionEnds(t) PROVE StackInv'
  <2>1. CASE t = Script
    BY <1>7, <2>1, ScriptReturns DEF MethodReturns, FunctionEnds, Doing
  <2> QED
    BY <1>7, <2>1, IoReturns DEF Threads
<1>8. ASSUME NEW t \in Threads, Exits(t) PROVE StackInv'
  BY <1>8, NothingMoves DEF Exits
<1>9. ASSUME NEW t \in Threads, Deleted(t) PROVE StackInv'
  BY <1>9, ScriptDeleted, IoDeleted DEF Threads
<1>10. ASSUME NEW t \in Threads, NEW d \in Devices, Releases(t, d) PROVE StackInv'
  BY <1>10, ScriptReleases, IoDeletes DEF Threads
<1> QED
  BY <1>1, <1>2, <1>3, <1>4, <1>5, <1>6, <1>7, <1>8, <1>9, <1>10 DEF Next

\* Callbacks that were under way when the VM was finalized stay known.
LEMMA UnderStays == FreedInv /\ [Next]_vars /\ vm'.under = {} => vm.under = {}
<1> SUFFICES ASSUME FreedInv, [Next]_vars, vm.under # {} PROVE vm'.under = vm.under
  OBVIOUS
<1>1. vm.state \in {"closing", "freed"} /\ main \in {"close", "ended"}
  BY DEF FreedInv, ClosedInv
<1>2. MainSteps => vm'.under = vm.under
  BY <1>1 DEF MainSteps, Opens, Compiles, Runs, ScriptEnds, ScriptDone, Suspends, RunEnds,
              Finalizes, Frees, Closes, FreedInv, VmTyped
<1>3. ASSUME NEW d \in Devices, Constructs(d) \/ Receives(d) \/ IoEnds(d) PROVE vm' = vm
  BY <1>3 DEF Constructs, Receives, IoEnds
<1>4. ASSUME NEW t \in Threads,
             NotifyWaiting(t) \/ MethodReturns(t) \/ FunctionEnds(t) \/ Exits(t) \/ Deleted(t)
      PROVE  vm' = vm
  BY <1>4 DEF NotifyWaiting, MethodReturns, FunctionEnds, Exits, Deleted
<1>5. ASSUME NEW t \in Threads, NEW d \in Devices, CallsMethod(t, d) \/ Releases(t, d)
      PROVE  vm' = vm
  BY <1>5 DEF CallsMethod, Releases
<1> QED
  BY <1>2, <1>3, <1>4, <1>5 DEF Next, vars

\* The invariants behind the two theorems that follow: of the stack, until the
\* VM is closed under a callback.
StackUntil == vm.under = {} => StackInv

LEMMA StackHolds ==
  ASSUME Quiet, OneCallback
  PROVE  Spec => [](StackUntil /\ FreedInv)
<1>1. FreedInv /\ [Next]_vars => FreedInv'
  BY ThreadsStep, ClosedStep DEF FreedInv
<1>2. StackUntil /\ FreedInv /\ [Next]_vars => StackUntil'
  BY NextStack, UnderStays DEF Turns, StackUntil
<1>3. Init => StackUntil
  BY InitStack DEF StackUntil
<1> QED
  BY <1>1, <1>2, <1>3, InitHolds, PTL DEF Spec

\* On quiet lines, and with one Device that calls back, a thread always works
\* on the frame it has entered itself, until the VM is closed under it.
THEOREM OwnFrameHolds == Quiet /\ OneCallback => (Spec => []OwnFrame)
<1>1. StackUntil => OwnFrame
  BY DEF StackUntil, StackInv, Nested, OwnFrame
<1>2. SUFFICES ASSUME Quiet, OneCallback PROVE Spec => []OwnFrame
  OBVIOUS
<1> QED
  BY <1>1, <1>2, StackHolds, PTL

\* Then every call leaves the stack as high as it was, whatever becomes of it.
THEOREM HeightIsKept == Quiet /\ OneCallback => (Spec => []HeightKept)
<1>1. StackUntil => HeightKept
  <2> SUFFICES ASSUME StackInv, vm.under = {} PROVE HeightKept
    BY DEF StackUntil, HeightKept
  <2>1. ASSUME main \in {"compile", "Run"}, ~vm.suspended, \A t \in Threads : ~InCall(t)
        PROVE  Len(frames) = 1 /\ Height = 1
    <3>1. Silent
      BY <2>1 DEF Silent, Threads
    <3>2. Len(frames) = 1 /\ frames[1].height = 1
      BY <2>1, <3>1 DEF StackInv, MainHeight, Rest
    <3> QED
      BY <3>2 DEF Height, Last
  <2> QED
    BY <2>1 DEF HeightKept, StackInv, MethodHeight
<1>2. SUFFICES ASSUME Quiet, OneCallback PROVE Spec => []HeightKept
  OBVIOUS
<1> QED
  BY <1>1, <1>2, StackHolds, PTL
=============================================================================
