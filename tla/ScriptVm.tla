------------------------------ MODULE ScriptVm ------------------------------
(***************************************************************************)
(* The one Squirrel VM of the program and the threads that run in it.  The *)
(* script's thread opens it, compiles and runs the script, waits in Run    *)
(* until exit() has been called, and closes it.  The IO thread of a Device *)
(* calls a function of the script with what it has read, in the same VM:   *)
(* acquire() takes no lock, and the mutex of SqEnv is taken by the         *)
(* script's thread only, around opening, compiling and closing.            *)
(*                                                                         *)
(* The VM has one stack, cut into the frames of the calls that are under   *)
(* way, and every thread works on the last one.  How a Device reads and    *)
(* writes is module DeviceIo: here its IO thread calls back, and ends.     *)
(***************************************************************************)
EXTENDS Integers, SequencesExt

CONSTANTS
  Devices,        \* each stands for its IO thread, too
  Callbacks,      \* those constructed with the name of a function
  Script,         \* the script's thread
  Nobody,
  Quiet,          \* whether lines are silent while the script runs
  MaxCalls        \* bound: calls of one thread within each other

ASSUME ScriptVmAssumption ==
  /\ Callbacks \subseteq Devices
  /\ Script \notin Devices /\ Nobody \notin Devices \union {Script}
  /\ Quiet \in BOOLEAN
  /\ MaxCalls \in Nat

Threads == Devices \union {Script}

VARIABLES
  __alive,
  main,      \* where main() is
  vm,        \* its state, whether it is suspended and has a root table, and
             \* the Devices whose calls were under way when it was finalized
  frames,    \* who entered each, and how many values are on it
  calls,     \* what each thread is in the middle of, outermost first
  dev,       \* of each Device: "none", "open", "closed" once its deletion
             \* has begun, "last" after one more callback, "ended", "gone"
  held       \* "local" of the script or in the "root" table

vars == <<__alive, main, vm, frames, calls, dev, held>>

----------------------------------------------------------------------------
(* The stack *)

Push(f, n) == [f EXCEPT ![Len(f)].height = @ + n]
Pop(f, n) == Push(f, -n)
SetTop(f, n) == [f EXCEPT ![Len(f)].height = n]
Height == Last(frames).height

\* EnterFrame and LeaveFrame, which leaves the frame below as it was
Enter(f, t) == Append(f, [by |-> t, height |-> 0])
Leave(f) == Front(f)

InCall(t) == calls[t] # <<>>
Doing(t, kind) == InCall(t) /\ Last(calls[t]).kind = kind
Begins(t, kind, d) ==
  calls' = [calls EXCEPT ![t] =
              Append(@, [kind |-> kind, of |-> d, depth |-> Len(frames), top |-> Height])]
Ends(t) == calls' = [calls EXCEPT ![t] = Front(@)]

\* A callback holds the root table, as the environment of its function.
RootInUse == \E d \in vm.under : InCall(d)

\* Table::GetFunction: the table and the name, and what sq_get makes of them
GetFunctionPopsTwo(f, what) ==
  Pop(IF what = "missing" THEN Pop(Push(f, 2), 1) ELSE Push(f, 2), 2)

GetFunction(f, what) ==
  IF what = "missing" THEN Pop(Pop(Push(f, 2), 1), 1) ELSE Pop(Push(f, 2), 2)

Found == IF vm.root THEN {"missing", "other", "function", "wrong"} ELSE {"missing"}

\* A function is looked up and Evaluate called: one of another number of
\* parameters is not called, and what is no function counts as null.
Evaluate(t) ==
  \E what \in Found :
    IF what = "function"
    THEN /\ Begins(t, "function", Nobody)
         /\ frames' = Enter(Push(GetFunction(frames, what), 3), t)
    ELSE /\ frames' = IF what = "wrong" THEN Pop(Push(GetFunction(frames, what), 2), 2)
                      ELSE GetFunction(frames, what)
         /\ UNCHANGED calls

----------------------------------------------------------------------------
(* main *)

Init ==
  /\ __alive = TRUE
  /\ main = "start"
  /\ vm = [state |-> "none", suspended |-> FALSE, root |-> FALSE, under |-> {}]
  /\ frames = <<[by |-> Nobody, height |-> 0]>>
  /\ calls = [t \in Threads |-> <<>>]
  /\ dev = [d \in Devices |-> "none"]
  /\ held = [d \in Devices |-> "root"]

\* SqEnv::_init leaves the root table on the stack.
Opens ==
  /\ main = "start"
  /\ vm' = [vm EXCEPT !.state = "open", !.root = TRUE]
  /\ frames' = Push(frames, 1)
  /\ main' = "compile"
  /\ UNCHANGED <<__alive, calls, dev, held>>

\* compile_script: it leaves the closure on the stack, or throws; without
\* an argument of the program there is no script
Compiles ==
  /\ main = "compile"
  /\ \/ frames' = Push(frames, 1) /\ main' = "script"
     \/ main' = "Run" /\ UNCHANGED frames
  /\ UNCHANGED <<__alive, vm, calls, dev, held>>

Runs ==
  /\ main = "script"
  /\ main' = "running"
  /\ Begins(Script, "script", Nobody)
  /\ frames' = Enter(Push(frames, 2), Script)
  /\ UNCHANGED <<__alive, vm, dev, held>>

Locals == {d \in Devices : held[d] = "local" /\ dev[d] = "open"}

\* The script ends or throws: its frame is left and, one by one, the Devices
\* that were its locals are deleted.
ScriptEnds ==
  /\ main = "running" /\ Doing(Script, "script")
  /\ Ends(Script)
  /\ frames' = Leave(frames)
  /\ main' = "locals"
  /\ UNCHANGED <<__alive, vm, dev, held>>

\* run_script after its call: the result is pushed and popped with the
\* closure; an error pops the root table and the closure
RunReturns(f) == Pop(Push(Pop(f, 1), 1), 2)
RunThrows(f) == Pop(Pop(f, 1), 1)

\* the rest of run_script, and ~MyScript
ScriptDone ==
  /\ main = "locals" /\ Locals = {} /\ ~InCall(Script)
  /\ \/ frames' = Pop(RunReturns(frames), 1)
     \/ frames' = Pop(RunThrows(frames), 1)
  /\ main' = "Run"
  /\ UNCHANGED <<__alive, vm, calls, dev, held>>

\* suspend(), called by the script itself: sq_call returns with the frame
\* still there, does not pop, and what run_script and ~MyScript pop is in it
Suspends ==
  /\ main = "running" /\ Doing(Script, "script")
  /\ vm' = [vm EXCEPT !.suspended = TRUE]
  /\ frames' = Pop(Pop(Push(frames, 1), 2), 1)
  /\ Ends(Script)
  /\ main' = "Run"
  /\ UNCHANGED <<__alive, dev, held>>

RunEndsOnBoth ==
  /\ main = "Run"
  /\ vm.suspended /\ ~__alive
  /\ main' = "close"
  /\ UNCHANGED <<__alive, vm, frames, calls, dev, held>>

RunEnds ==
  /\ main = "Run"
  /\ vm.suspended \/ ~__alive
  /\ main' = "close"
  /\ UNCHANGED <<__alive, vm, frames, calls, dev, held>>

\* SQVM::Finalize gives up the root table, the call stack and the values of
\* the VM, also under a callback that is under way.
Finalizes ==
  /\ main = "close" /\ vm.state = "open" /\ ~InCall(Script)
  /\ vm' = [vm EXCEPT !.state = "closing", !.root = FALSE,
                      !.under = {d \in Devices : InCall(d)}]
  /\ frames' = [i \in DOMAIN frames |-> [by |-> Nobody, height |-> frames[i].height]]
  /\ UNCHANGED <<__alive, main, calls, dev, held>>

FreesFirst ==
  /\ main = "close" /\ vm.state = "closing" /\ ~InCall(Script)
  /\ vm' = [vm EXCEPT !.state = "freed"]
  /\ UNCHANGED <<__alive, main, frames, calls, dev, held>>

\* The Devices that Finalize has let go of are deleted, and the memory of the
\* VM is freed.  What a callback holds with the root table is left.
Frees ==
  /\ main = "close" /\ vm.state = "closing" /\ ~InCall(Script)
  /\ \A d \in Devices : dev[d] = "open" => held[d] = "root" /\ RootInUse
  /\ vm' = [vm EXCEPT !.state = "freed"]
  /\ UNCHANGED <<__alive, main, frames, calls, dev, held>>

\* The table of references lets go of the rest, and sq_close returns.
Closes ==
  /\ main = "close" /\ vm.state = "freed" /\ ~InCall(Script)
  /\ \A d \in Devices : dev[d] # "open"
  /\ main' = "ended"
  /\ UNCHANGED <<__alive, vm, frames, calls, dev, held>>

----------------------------------------------------------------------------
(* What the functions of the script do, on whatever thread they run *)

InScript(t) == Doing(t, "script") \/ Doing(t, "function")

Constructs(d) ==
  /\ Doing(Script, "script")
  /\ dev[d] = "none"
  /\ dev' = [dev EXCEPT ![d] = "open"]
  /\ \E h \in {"local", "root"} : held' = [held EXCEPT ![d] = h]
  /\ UNCHANGED <<__alive, main, vm, frames, calls>>

\* a method of Device e that writes or waits, and so calls waiting() in between
CallsMethod(t, e) ==
  /\ InScript(t) /\ Len(calls[t]) < MaxCalls
  /\ dev[e] = "open" /\ (held[e] = "local" => t = Script)
  /\ Begins(t, "method", e)
  /\ frames' = Enter(frames, t)
  /\ UNCHANGED <<__alive, main, vm, dev, held>>

NotifyWaiting(t) ==
  /\ Doing(t, "method") /\ Len(calls[t]) < MaxCalls
  /\ Evaluate(t)
  /\ UNCHANGED <<__alive, main, vm, dev, held>>

\* its answer has come or its time is up, which may never be
MethodReturns(t) ==
  /\ Doing(t, "method")
  /\ Ends(t)
  /\ frames' = Leave(frames)
  /\ UNCHANGED <<__alive, main, vm, dev, held>>

\* A function called by Evaluate ends, which pops its parameters and pushes
\* the result, or throws; sq_settop undoes both.  If it was the last to hold
\* the root table of a VM that is closed, its thread has deleted the Devices
\* that were in it.
FunctionEnds(t) ==
  /\ Doing(t, "function")
  /\ t \in vm.under /\ Len(calls[t]) = 1 =>
       \/ \E e \in vm.under \ {t} : InCall(e)
       \/ \A d \in Devices : ~(dev[d] = "open" /\ held[d] = "root")
  /\ Ends(t)
  /\ frames' = SetTop(Leave(frames), Last(calls[t]).top)
  /\ UNCHANGED <<__alive, main, vm, dev, held>>

Exits(t) ==
  /\ InScript(t)
  /\ __alive' = FALSE
  /\ UNCHANGED <<main, vm, frames, calls, dev, held>>

\* Finalize releases the locals of a suspended script and, unless a callback
\* holds it, the root table, and the table of references that one.
ReleasedByClose(d) ==
  \/ vm.state = "closing" /\ (held[d] = "local" \/ ~RootInUse)
  \/ vm.state = "freed"

\* a method holds its Device while it is under way
InMethodOf(d) ==
  \E t \in Threads : \E i \in DOMAIN calls[t] :
    calls[t][i].kind = "method" /\ calls[t][i].of = d

\* The last reference to a Device goes: ~Device runs on this thread.
Releases(t, d) ==
  /\ dev[d] = "open"
  /\ \/ InScript(t) /\ held[d] = "root" /\ vm.root /\ ~InMethodOf(d)
     \/ InScript(t) /\ held[d] = "root" /\ t \in vm.under
     \/ t = Script /\ main = "locals" /\ ~InCall(t) /\ held[d] = "local"
     \/ t = Script /\ main = "close" /\ ~InCall(t) /\ ReleasedByClose(d)
  /\ dev' = [dev EXCEPT ![d] = "closed"]
  /\ Begins(t, "~Device", d)
  /\ UNCHANGED <<__alive, main, vm, frames, held>>

DeletedAtOnce(t) ==
  /\ Doing(t, "~Device")
  /\ dev' = [dev EXCEPT ![Last(calls[t]).of] = "gone"]
  /\ Ends(t)
  /\ UNCHANGED <<__alive, main, vm, frames, held>>

\* while(!_ended) msleep(100)
Deleted(t) ==
  /\ Doing(t, "~Device")
  /\ dev[Last(calls[t]).of] = "ended"
  /\ dev' = [dev EXCEPT ![Last(calls[t]).of] = "gone"]
  /\ Ends(t)
  /\ UNCHANGED <<__alive, main, vm, frames, held>>

----------------------------------------------------------------------------
(* The IO thread of a Device *)

Deletes(t, d) == Doing(t, "~Device") /\ Last(calls[t]).of = d

\* with Quiet, input comes while every other thread sleeps: the script's in
\* Run or in the deletion of this Device, and whoever is in a callback in that
Rests(d) ==
  /\ main = "Run" \/ Deletes(Script, d)
  /\ \A e \in Devices \ {d} : InCall(e) => Deletes(e, d)

\* Once the port is closed the loop of thread_main comes to its end: at most
\* the round it is in calls back.
Receives(d) ==
  /\ d \in Callbacks
  /\ dev[d] \in {"open", "closed"} /\ ~InCall(d)
  /\ Quiet => Rests(d)
  /\ dev' = [dev EXCEPT ![d] = IF @ = "closed" THEN "last" ELSE @]
  /\ Evaluate(d)
  /\ UNCHANGED <<__alive, main, vm, held>>

IoEndsIfSilent(d) ==
  /\ dev[d] = "closed" /\ ~InCall(d)
  /\ dev' = [dev EXCEPT ![d] = "ended"]
  /\ UNCHANGED <<__alive, main, vm, frames, calls, held>>

IoEnds(d) ==
  /\ dev[d] \in {"closed", "last"} /\ ~InCall(d)
  /\ dev' = [dev EXCEPT ![d] = "ended"]
  /\ UNCHANGED <<__alive, main, vm, frames, calls, held>>

MainSteps ==
  \/ Opens \/ Compiles \/ Runs \/ ScriptEnds \/ ScriptDone \/ Suspends
  \/ RunEnds \/ Finalizes \/ Frees \/ Closes

Next ==
  \/ MainSteps
  \/ \E d \in Devices : Constructs(d) \/ Receives(d) \/ IoEnds(d)
  \/ \E t \in Threads :
       \/ NotifyWaiting(t) \/ MethodReturns(t) \/ FunctionEnds(t) \/ Exits(t) \/ Deleted(t)
       \/ \E d \in Devices : CallsMethod(t, d) \/ Releases(t, d)

\* Call n of Device d ends.
Ending(d, n) ==
  /\ d \notin vm.under /\ Len(calls[d]) = n
  /\ FunctionEnds(d) \/ (~__alive /\ MethodReturns(d))

\* The threads are scheduled, and each function that a Device calls makes
\* finitely many calls.  A method returns once exit() has been called; before,
\* it may wait for ever.  Nothing is known of a callback whose VM is closed.
Fairness ==
  /\ WF_vars(RunEnds \/ Finalizes \/ Frees \/ Closes)
  /\ \A d \in Devices :
       /\ WF_vars(IoEnds(d))
       /\ \A n \in 1 .. MaxCalls : SF_vars(Ending(d, n))
       /\ WF_vars(main = "close" /\ Releases(Script, d))
  /\ \A t \in Threads : WF_vars(Deleted(t))

Spec == Init /\ [][Next]_vars /\ Fairness

----------------------------------------------------------------------------
(* Properties *)

(* A thread that is in a call works on the frame it entered for it: below  *)
(* it are the frames of its own outer calls, and no other thread has put   *)
(* one of its frames there or taken one away.  That is so until the VM is  *)
(* closed under a callback, which takes all frames.                        *)
InFrame(t, c) ==
  c.kind # "~Device" => Len(frames) > c.depth /\ frames[c.depth + 1].by = t

OwnFrame == vm.under = {} =>
  \A t \in Threads, i \in 1 .. MaxCalls : i \in DOMAIN calls[t] => InFrame(t, calls[t][i])

(* The stack is as high after a call as it was before, whether the         *)
(* function is missing, has the wrong parameters, returns or throws: in    *)
(* main() only the root table is on it after the script, and a method of a *)
(* Device finds its frame empty after each call of waiting().  This, too,  *)
(* is until the VM is closed under a callback.                             *)
HeightKept == vm.under = {} =>
  /\ main \in {"compile", "Run"} /\ ~vm.suspended /\ (\A t \in Threads : ~InCall(t))
       => Len(frames) = 1 /\ Height = 1
  /\ \A t \in Threads : Doing(t, "method") => Height = 0

(* When the VM is closed with no callback under way, every Device has been *)
(* deleted before its memory is freed: no IO thread can call back into it. *)
FreedLast ==
  vm.state = "freed" /\ vm.under = {} =>
    \A d \in Devices : dev[d] \in {"none", "gone"} /\ ~InCall(d)

(* The memory of the VM is freed with nobody in it.  A callback may call   *)
(* exit() and go on: Run returns, and the VM is closed under it.           *)
NobodyInFreed == vm.state = "freed" /\ ~vm.suspended => \A d \in Devices : ~InCall(d)

(* A deletion ends, on whichever thread it runs, unless the IO thread of   *)
(* the Device never comes to its end: for it is in a method that waits,    *)
(* or in the VM that was closed under it, or deletes a Device whose IO     *)
(* thread waits so, itself or one that deletes it in turn.                 *)
Waits(d) ==
  \/ d \in vm.under /\ InCall(d)
  \/ __alive /\ \E i \in DOMAIN calls[d] : calls[d][i].kind = "method"

Stuck(d) == \E S \in SUBSET Devices :
  /\ d \in S
  /\ \A e \in S : Waits(e) \/ \E c \in S : Deletes(e, c)

DeletionEnds ==
  \A d \in Devices : dev[d] = "closed" ~> (dev[d] = "gone" \/ []Stuck(d))

(* The program ends when exit() has been called, unless the VM was closed  *)
(* under a callback.                                                       *)
ExitEnds == main = "Run" /\ ~__alive ~> main = "ended" \/ vm.under # {}
=============================================================================
