# Verification of autocom

autocom runs a Squirrel script that talks to a device on a serial port. The
program is `src/autocom_src`; `src/*.sss` and `src/autocom_src/bin/*.sss` are
scripts for it. This directory holds TLA+ modules that model it, the TLC
configurations that check them, and proofs for TLAPS.

## 1. The system

### Parts and the state they keep

| part | source | state | operations |
|---|---|---|---|
| `Device` | divais.cpp, divais.h | `_alive`, `_cancall`, `_ended`, the text found so far (`_accum`, `_baccum`), settings (`_tout`, `_eol`, `_binary`, `_outproc`) | constructor, puts (`puts`, `putsln`, `write`, `putc`, `putctrl`), waits (`strwait`, `strwaitt`, `strstr`, `binwait`, `binwaitt`, `any`, `noout`), `gets`, `read`, `writeread`, `close`, destructor, and `thread_main` |
| `IoData` | divais.h | two byte queues `_in`, `_out`, one recursive mutex | put, get, length and emptiness of each |
| `OsThread` | osthread.h | `_stopped`, `_joined`, `_hthread` | `start_thread`, `SFoo`, `stop_thread`, `t_join`, destructor |
| `SerialComm` | serialcom.cpp | the credentials, `_timout` | `open`, `close`, `isOpen`, `sendTo`, `recFrom` |
| `SerialPort` | serialport.cpp | `_port`, terminal settings | `OpenComport`, `CloseComport`, `SendBuf`, `Read` |
| `umutex`, `AutoLock` | osthread.h | a recursive mutex; on Windows a critical section and `_inout` | lock, try, unlock |
| `SqEnv`, `MyScript` | sqwrap.cpp, sqwrap.h | the VM, its stack | compile, run, reset, close |
| main | main.cpp | `__alive`, `Penv` | bindings, conversions, `Run`, `Exit`, `Delete` |
| scripts | *.sss | messages of a payment terminal, prompts of a boot loader | frame, send, interpret |

Vendored: the Squirrel VM and Sqrat under `autocom_src/sq`. The program rests on
some of it for more than computing: the VM's one stack, which two threads use,
its tables, its counting of references and its collector. Empty: `sshcom`,
`tcpcom`.

### How they interact

Two threads share one Device. The *script thread* runs the VM and every method
of the Device. The *IO thread* runs `SFoo` and `thread_main`: it opens the
port, takes `_out`, writes it, reads the port, appends to `_in`, and calls the
script's output function **on its own thread**. They share `_in` and `_out`
under `_tmut`; `_alive`, `_cancall`, `_ended`, `_stopped`, `__alive` and
`_port` under nothing, and the VM with its stack under nothing either:
`acquire()` takes no lock. Each thread waits for the other by polling with sleeps:
the constructor for `_cancall`, a put for an empty `_out`, the destructor for
`_ended`.

### What is hard about it

The order in which the flags change during construction, a close, an abandoned
port and destruction; the places bytes can be in while two threads move them;
writes that are partial, busy or failing; a port closed between the test of
`_port` and its use; descriptor numbers that are used again; waits that nothing
ends; a callback that waits for its own thread; a callback in the VM beside the
script, or when the VM is closed and freed;
tables that move their entries; freeing in the middle of a sweep.
`PROJECT.json` lists each hazard with its line and the properties that cover it,
or the reason why none does.

### What makes each part correct

- Device, IoData, OsThread, SerialComm: bytes go out and come in once, in order
  and only while the port is open; nothing is used before it is opened or after
  it is freed; the constructor, a put and the destructor come to an end.
- SerialPort: a descriptor is closed once, by the one who opened it, and its
  lock is held exactly as long as it is open.
- waits for text: a wait succeeds exactly when the expected text is in what it
  took from the queue, and what it returns is of this wait.
- umutex: one holder at a time, released when the holder has unlocked as often
  as it locked.
- SqEnv, MyScript: the VM's stack has after each operation the height it had
  before, and one thread runs in it at a time.
- VM tables and collector: a name is found as long as it is in the table; an
  object is freed when nothing refers to it, cycles included, and not before.
- conversions and scripts: each conversion and its inverse agree; a frame's
  fields are read where they are.

## 2. The modules

| module | what it is |
|---|---|
| `ByteChannel` | the abstract promise: a link that comes up once and breaks once, `sent`, `carried`, `arrived`, `handed` |
| `DeviceIo` | one Device in full detail: both threads, queues, flags, port |
| `DeviceIoProofs` | theorems about `DeviceIo`, with the refinement to `ByteChannel` |
| `Umutex` | the recursive mutex with `AutoLock` |
| `ByteQueues` | the abstract queues: each operation one step |
| `IoData` | its calls down to the reads and writes of the strings, by many threads, over `Umutex` |
| `Expect` | the waits for text: clock, accumulators, search, trimming |
| `ExpectProofs` | theorems about `Expect` |
| `SerialPort` | the ports of several Devices: descriptor table, locks, opening and closing |
| `SerialPortProofs` | theorems about `SerialPort` |
| `ScriptVm` | the VM's stack of frames, and the threads in it from opening to closing |
| `ScriptVmProofs` | theorems about `ScriptVm` |
| `Dictionary` | the abstract table: a function from keys to values |
| `SqTable` | the VM's hash table, shown to implement `Dictionary` |
| `SqTableProofs` | theorems about `SqTable`, with the refinement to `Dictionary` |
| `RefTable`, `SqStrings` | the table of objects C++ holds; the table of strings |
| `VmTablesProofs` | theorems about `RefTable` and `SqStrings` |
| `Collector` | reference counts, `collectgarbage()` and the closing of the VM |
| `Marking` | the recursive marking, against the set that `Collector` takes it to be |
| `CollectorProofs` | theorems about `Collector` and `Marking` |
| `Codec`, `PayFrame` | the hexadecimal conversions; the messages of the payment scripts |
| `BytesProofs` | theorems about `IoData`, with the refinement to `ByteQueues`, `Codec` and `PayFrame` |
| `MCDeviceIo`, `MCExpect`, `MCSerialPort`, `MCScriptVm` | constants for TLC |
| `MCData`, `MCBytes` | constants for TLC of the modules of one thread's data; each behaviour exercises one of them (`part`), as they share no state |

`DeviceIo` and `Expect` use the queues as `ByteQueues` has them, which `IoData`
implements; `DeviceIo` uses the port as `SerialPort` shows that it may: its own
file, unless an IO thread gave its port up. `ScriptVm` uses of a Device only
that its deletion waits for its IO thread (`NoUseAfterFree`, `DeleteEnds` of
`DeviceIo`), and `Collector` of `RefTable` that it counts each object once.

### DeviceIo and the code

`spc` and `ipc` say where the two threads are. A step ends where another thread
can see the difference: at each read or write of a shared flag or of `_port`,
at each queue operation (one critical section of `_tmut`), at each system call.

| code | actions |
|---|---|
| `Device::Device`, `start_thread` | `ThreadStarts`, `ThreadFails`, `Constructed`; `NotATty` |
| a call of a member of the null `_pc`: `settimeout`, `close`; `~Device` | `UsesNull`; `DeletesNull` |
| `sendkey`, `ctrl`, `puts`, `writeln`, `write` and `_waitCompletion` | `Put`, `WaitingExits`, `PutReturns` |
| `strwaitt`, `strstr`, `binwaitt` | `ExpectStarts`, `ExpectPolls`, `ExpectEnds` |
| `gets`; `read` | `Gets`; `ReadStarts`, `ReadTakes` |
| `close` and `SerialComm::close`, `CloseComport` | `CloseTests`, `CloseCloses`, `CloseResets` |
| `exit`; the script's end and `Run` | `Exit`; `ScriptEnds` |
| `~Device` | `DeleteStarts`, `DeleteTests`, `DeleteCloses`, `DeleteResets`, `Kill`, `SeesEnded`, `DeletePc` |
| `~OsThread`, `stop_thread`, `t_join` | `StopThread`, `Join` |
| `SFoo` | `IoStart`, `IoStops` |
| `thread_main`: opening | `OpenSucceeds`, `OpenFails`, `CanCall` |
| `thread_main`: sending, `SendBuf` | `LoopTest`, `TakeOut`, `SendTo`, `WriteTakes`, `WriteTimesOut`, `WriteFails`, `WriteStray` |
| `thread_main`: receiving, `Read` | `RecFrom`, `ReadNothing`, `ReadBytes`, `ReadStray`, `Store` |
| `_onReceived`, `_notifyScript` | `Received`, `CallbackPut`, `CallbackPutReturns`, `CallbackGets` |
| a callback's wait without a limit; its `close` | `CallbackWaits`, `CallbackWaitEnds`; `CallbackCloseTests`, `CallbackCloses`, `CallbackResets` |
| `thread_main`: the end | `IoFin`, `IoCloses`, `IoResets`, `IoEnds` |

Bytes are numbers: the k-th byte queued is k, the k-th delivered by the line is
k; `queued`, `wire`, `got` and `taken` are histories of what was put into
`_out`, taken by the line, returned by `::read` and taken out of `_in`.
Contents, the line end, text or hexadecimal form and log output are left out.
Time is left out too: a sleep is no step, and a wait with a timeout may end at
any of its polls.

Credentials that do not begin with `tty://` give a Device without a `_pc` and
without a thread (`NotATty`, the fault `scheme`): `port` is then `none`, its puts
wait for ever, and `settimeout`, `close` and its deletion call a member of the
null pointer, which ends the process (`crashed`).

A callback may call `exit`, put, get, close, and wait. A wait of its that finds
its text in the queue, or has a limit, does what `CallbackGets` does; one without
a limit (`CallbackWaits`) waits for input that only this thread would put into the
queue, and ends with the program or by `waiting`. That a callback deletes its own
Device is in `ScriptVm`. `_accum`, which waits of both threads on one Device
would share without a lock, is not modelled.

`_port` is abstracted to what SerialComm can tell and what the system does with
it: `unset` (uninitialised, or -1), `open`, `dangling` (closed, its number still
stored), `zero` (closed and reset), or `none` without a `_pc`. A write or read
that comes after the reset goes to descriptor 0; the fault `stdin` says whether
that is a terminal that takes and gives bytes.

What may go wrong outside the program is the constant `Faults`: the scheme of the
credentials, thread creation, opening, `::write` failing, busy or partial, and
`stdin`.

### Expect and the code

`DeviceIo` lets a wait take input and end at any poll. `Expect` has the waits
themselves, over a queue that the IO thread only fills.

| code | actions |
|---|---|
| `strwaitt`, `strstr`, `binwaitt`, `any`: the start | `Strwaitt`, `StrwaittRegex`, `Strstr`, `Binwaitt`, `WaitAny` over `Begins` |
| the condition of the polling loops | `TestPasses`, `TestEnds`; `AnyTests` |
| the look at the queue | `LookForText`, `LookForTokens`, `LookForArray` |
| the sleep | `Sleeps`, `AnySleeps` |
| the trim of `_baccum` | `TrimThrows`, `TrimEmpties` |
| the end of `any` | `AnyEnds` |
| `gets`; `putIn`; `exit` | `Gets`; `Arrives`; `Exit` |

Bytes are numbers, 0 is NUL, and strings are sequences of them: the code's
`append((const char*)...)` and `find` are `CString` and `Occurs`. Of the regular
expressions there is `x.*y` (`Spans`), over letters of one case and input
without line ends, as the code searches with `icase` and `.` matches no line
end. Time is counted in sleeps: `left` is what remains of the timeout, and a
sleep takes at least one off it, or more. A wait may be ended by the script's
function `waiting` at any test (`MayWait`). The history `fetched` keeps all
input taken, and `mark` where the running wait began.

Two preconditions are in `ExpectAssumption`: an expression, or all tokens
together, is not longer than what is left to trim (16384 bytes in the code), or
`substr` throws; and expressions contain no NUL.

### Run of Expect

| run | input | checks |
|---|---|---|
| `expect` | up to 5 bytes, one at a time, of two letters; an expression that overlaps itself, a regular one, two tokens, two arrays; for ever, or two sleeps | `FoundIsHeard`, `FailedIsUnheard`, `AccumIsHeard`, `TokenIsNamed`, and under fairness `TimedWaitEnds`, `ForeverFinds` |

Bounds. `TRIMEXPECT` is 3 and the input is longer by two bytes, so that an
accumulator is trimmed and an expression can straddle the cut; an expression of
three bytes straddles pieces of one. The first token is longer than the second,
so that the cut after it differs. The empty array is the one whose trim does not
throw. `FoundIsHeard`, `FailedIsUnheard`, `AccumIsHeard`,
`TokenIsNamed` and `ForeverFinds` are about input without NUL, which ends the C
string an accumulator is filled from: with NUL in it the bytes after it are lost.
Every action is taken. `TokenIsNamed` says what `strstr` returns if it took one of
its tokens from the queue; if it did not, it returns what it returned before (see
below, Waits).

Fairness is that of the script's thread inside a call (`Rounds`). The script
need not make a call, the line need not deliver, and nothing obliges a script to
`exit`. `TimedWaitEnds` also rests on a clock that goes forward; `tick_count`
reads the time of day, which can be set back.

### SerialPort and the code

`DeviceIo` has one port and knows of it only whether it is open. `SerialPort`
has several, in one process: `table` is what each descriptor refers to (a port
stands for the file it opened), `lock` is whose open file has flock'ed each
line, `port` the number in each `_port`. One script thread constructs, closes
and deletes Devices; each Device has its IO thread.

| code | actions |
|---|---|
| `Device::Device`, `close`, `~Device` | `Constructs`, `Constructed`, `Closes`, `Deletes`, `Kills`, `SeesEnded` |
| `SerialComm::close`, `CloseComport`, on either thread | `Tests`, `ClosesFile`, `Unlocks`, `Resets` |
| `~SerialComm`, `~SerialPort` | the same, with `why` = `"comm"`, `"port"` |
| `OpenComport` | `ModeIsValid`, `ModeFails`, `Opens`, `OpenFails`, `Locks`, `LockFails`, `SettingsFail`, `UnlocksClosed`, `ResetsClosed`, `ModemFails`, `Opened` |
| `thread_main`, `sendTo`, `recFrom`, `SendBuf`, `Read` | `LoopEnds`, `NothingToSend`, `SendTo`, `SendBuf`, `RecFrom`, `Read`, `EndTests` |
| another process | `OtherLocks`, `OtherUnlocks` |

A step is one system call, or one test or assignment of `_port`. `open` gives the
lowest free number; `close` releases the lock with the file. Of an invalid speed
or mode only the failure is kept, with any number in the uninitialised `_port`.
What travels over a line, terminal settings and modem lines are left out.

### Runs of SerialPort

| run | Devices | checks |
|---|---|---|
| `serial_own` | three, two of them on one line, another process beside them; every fault | `OwnFile`, `NoLeak` |
| `serial_reopen` | two on two lines; no fault | finds `OpenedIsOpen` violated |

`OwnFile` and `NoLeak` hold until an IO thread gives its port up on its own
(`failed`): after a failed write, while the script constructs another Device, or
after an invalid mode, with a random number in `_port`. That is the only way in
which two threads open and close at the same time: a constructor holds the
script up until its port is open. What it leads to is under Findings.

Bounds. Descriptors 0 to 2: 0 is the terminal's until a deletion closes it, and
two are left for three Devices, so that numbers are reused and run out. A Device
is made once; a third one is needed to be given a number while the second is
still closing the first's. The theorems have no such bound.

### IoData and the code

`DeviceIo` takes a call of `IoData` for one step. `IoData` has what is inside:
`Calls`, `Locks` (the constructor of AutoLock), `Appends` and `Stores` (`append`
reads the string and writes it), `TestEmpty`, `TestCopies` and `Clears` (`getOut`
and `getIn`), `Looks` (the four that only read), `Unlocks`. Between them any
other thread may take its steps, but those that wait for the mutex. `Umutex` has
the mutex, with the count of its owner.

### ScriptVm and the code

| code | actions |
|---|---|
| `SqEnv::_init`, `compile_script`, `run_script`, `~MyScript` | `Opens`, `Compiles`, `Runs`, `ScriptEnds`, `ScriptDone` |
| `suspend()`; `Run` | `Suspends`; `RunEnds` |
| `~SqEnv`, `sq_close`: `SQVM::Finalize`; `_root_vm.Null()`; `_refs_table.Finalize()` | `Finalizes`; `Frees`; `Closes`, with `Releases` of the Devices in between |
| a Device made by the script; the last reference to it goes; `~Device` | `Constructs`; `Releases`; `Deleted` |
| a method of a Device, and `_notifyWaiting` in it | `CallsMethod`, `NotifyWaiting`, `MethodReturns` |
| `_onReceived`, `_notifyScript`: `GetFunction`, `Evaluate` | `Receives`, `Evaluate`, `FunctionEnds` |
| `exit()`; `thread_main` ends | `Exits`; `IoEnds` |

`frames` is the VM's one stack: whose each frame is and how many values are on
it. Every thread works on the last one, as the code does. `calls` is the C++
stack of each thread. Of a value on the stack only its place is kept, of a
function only whether the name is missing, names no function, one of another
number of parameters, or one that is called.

Closing follows `~SQSharedState`. `Finalize` gives up the root table, the call
stack and every value of the VM, whoever is in it: the frames are nobody's from
then on, and `vm.under` keeps the Devices whose callbacks were under way. With none
under way the root table goes with its last reference, its Devices are deleted, and
then the VM's memory is freed (`Frees`). A callback under way holds the root table,
as the environment of the `Function` it was called through (`RootInUse`): then the
memory is freed first, and the Devices are deleted when that callback returns
(`FunctionEnds`, `Releases` on its thread) or by the table of references
(`ReleasedByClose`). What a callback does after it has lost its frame is undefined:
here it may return, go on, or never return.

Any thread may call a method of a Device (`CallsMethod`) and `waiting` within it.
A method holds its Device. Only the script constructs Devices, on its own thread.

### The VM's data, and the code

| module | code | actions |
|---|---|---|
| `SqTable` | `NewSlot`, `Set`, `Remove`, `Clear`, `Clone`, `Rehash`, `Next` | `NewSlot`, `Set`, `DeleteSlot`, `Clear`, `Clone`; `LoopBegins`, `LoopNext`, `LoopEnds` |
| `RefTable` | `AddRef`, `Release`, `Resize`, `Get`, `Add` | `AddRef`, `Release` |
| `SqStrings` | `Add`, `Remove`, `Resize` | `AddString`, `RemoveString` |
| `Collector` | `SQObjectPtr`'s `operator=`, `Null`, `__Release`, the destructors; `sq_addref`, `sq_release` | `Create`, `Assign`, `Hold`, `LetGo`; `Drop`, `Destroy`, `ClearSlot`, `Free` |
| | `CollectGarbage` with `RunMark`, `Finalize`, `UnMark` | `CollectGarbage`, `ClearSlot`, `SweepNext`, `UnMark` |
| | `sq_close`, `RefTable::Finalize`, `~SQSharedState` | `Close`, `Forget`, `SweepAll` |
| `Marking` | `RunMark`, `Mark` of each object | none: `RunMark` is an operator |

A table, an object, a key stand for themselves; hashes and addresses are
numbers. `Collector` has one step per call: `todo` holds the calls that are
still to be made, the innermost last, as the C++ stack does, so that an object
may be freed by a release nested in the sweep that is going to reach it. The
references of an object go one step each, in any order; `_gc_chain` and the
table of references are sets, and a sweep (`ahead`) takes the objects in any
order, of which the code's is one. What is marked is the set of what the VM or
C++ reaches (`Reached`), which `Marking` compares with the recursion.

### Codec, PayFrame and the code

`Codec` has one action per function a script calls (`num2str`, `num2arr`,
`arr2str`, `sendkey`, `str2arr`), and one for an array longer than the buffer of
`arr2str` (`PtrSize`, 4096 in the code), which its `GetArray` does not look at
(`Arr2StrOverruns`); over their conversions `Text`, `Printed`, `ToBinary`,
`Str2Arr`; the loops of these are recursive functions of how far the loop has
come. `PayFrame` has `getHdr`, `calcLrc`, `getCommand` and `getError` of
`payutil.sss`, `enquire` of `include.sss`, and a terminal that answers in frames
of the same form (`Answers`, external), of which the script reads any prefix
(`Reads`).

### Runs of the data and of the VM

| run | what | checks |
|---|---|---|
| `data` | `SqTable`, `RefTable`, `SqStrings`, `Collector` with `Marking` | `FreeIsFree`, `AllAreFound`, `LoopIsExact`, `DictSpec`; `CountsHolders`, `ListsPartition`; `StringsAreUnique`; `NothingDangles`, `GarbageGoes`, `MarkingReaches` |
| `bytes` | `IoData` with two threads, `Codec`, `PayFrame` | `IoInv`, `AtomicQueues`; `TextIsBack`; `FramesAgree` |
| `vm_quiet` | two Devices that call back; lines that are silent while the script runs | `OwnFrame`, `HeightKept`, `FreedLast`, and under fairness `DeletionEnds`, `ExitEnds` |
| `vm_race` | three Devices, two of which call back, with lines that speak at any time | finds `OwnFrame` violated |
| `vm_close` | as `vm_quiet` | finds `NobodyInFreed` violated |

Bounds. `data`: four keys, three of them in one main position of a table of 4
and two in one of 8, in tables that start with 4 or 8 nodes: enough for a chain
of three, for a node that is moved out of the way, for growing and shrinking.
Five objects, and five strings, three in one list, so that both tables grow past
their 4; two holders each, so that a count is carried over. A root of two
references and three objects of one each: a cycle of three, or one of two with a
third that refers to it, in every order of the chain, beside something that
stays; C++ holds at most two. `bytes`: two threads, a queue of one byte or of
two bytes put at once; texts of up to three characters, and some of up to six;
arrays of up to two bytes, and one of three for a buffer of two; a body of 260
bytes, so that the length's first byte is used; what has come is at most 8
bytes, which is past the last index read. `vm_quiet`: two Devices, so that two
callbacks may delete each other's, and calls up to 5 within each other: a
function in a method in a `waiting` in a method in a `waiting`, or a deletion in
its place. `vm_race` and `vm_close` find what they look for with 3 and 4.

`Quiet` says that a line is silent while the script runs: input comes while the
script's thread sleeps in `Run` or deletes that Device, and while no other callback
is under way but one that sleeps in the deletion of that Device. Without it
`vm_race` finds the frames mixed up. `OwnFrame` and `HeightKept` hold until the VM
is finalized under a callback, and `FreedLast` unless it is; `NobodyInFreed`, which
makes no exception, fails.

Fairness of `ScriptVm`: main's loop and its closing (`RunEnds`, `Finalizes`,
`Frees`, `Closes`, and the `Releases` of the Devices in it), the end of an IO
thread whose port is closed (`IoEnds`, which `DeleteEnds` of `DeviceIo` shows for
one Device), and the wait in `~Device` (`Deleted`). For each depth of a callback's
calls, a call that can end again and again does (`Ending`, strongly fair): the
function that a Device calls makes finitely many calls, and its methods return
once `exit()` has been called. Before that a method may wait for ever, and of a
callback whose VM was closed nothing is assumed. The script itself need not end, nor
call `exit()`. `DeletionEnds` says in which cases a deletion does not end: the IO
thread it waits for is in a method that waits for ever or in a VM that was closed
under it, or deletes a Device of which this is so, or its own, or one in a ring of
Devices whose threads delete each other's (`Stuck`).

The deadlock check is off in `data`, where a closed VM has no next step, and in
the runs of `ScriptVm`, where the program ends.

### Runs of DeviceIo

| run | faults | checks |
|---|---|---|
| `device_lossless` | scheme, thread, open, write | `TypeOK`, `WireIsPrefix`, `OpenedBeforeUse`, `PutHandsOver`, that the Device implements `ByteChannel` (`ChannelSpec`), and under fairness `ConstructorReturns`, `PutEnds`, `Delivered`, `DeleteEnds` |
| `device_lossy` | all seven, and a function `waiting` with each of its results | `Accounting`, `InboundOnce`, `NoUseAfterFree` |
| `device_callback` | none | finds `CallbackWriteEnds` violated |
| `device_resend` | partial | finds `WireNoRepeat` violated |

Bounds. `MaxQueued` and `MaxArrived` bound the bytes queued and arrived in a
behaviour: 4 and 3 at most. Four bytes in buffers of 0, 1 and 2 allow one buffer
in `temp` while two more wait in `_out`, an empty buffer, and a put by the
callback between two of the script's; three bytes in reads of 1 and 2 allow one
read on its way, one in `_in`, and one fetched. Buffers of 2 and 3 in
`device_lossy` allow a partial write to be followed by another. No control state
depends on more bytes than that, and the theorems below hold for all bounds.
Every action of `DeviceIo` is taken in a passing run.

The deadlock check is off: a constructor that waits for ever after a
failed open, an ended program and a freed Device are real ends of a behaviour.

Fairness. `FairSpec` asks that each thread, when it can take a step of its own,
takes one in the end: they are threads of the operating system, and none of
their steps holds a lock another step waits for. Nothing obliges the script to
make the next call (`ScriptChooses`), a `waiting` function to end the program,
or the line to deliver. The rest is exceptions in the properties, as what they
leave out does go wrong. The constructor waits for ever when its thread is not
created, or ends because the port does not open (`ConstructorReturns` has that
these are the only ways). A callback that waits for its own thread, in a write
or in a wait without a limit, waits until the program is ended, and everything
that needs this thread with it (`CallbackHangs`, in `PutEnds`, `Delivered` and
`DeleteEnds`). `PutEnds` and `Delivered` say what happens while the port stays
open: after the IO thread gave it up, and on a Device that has none, a put waits
until the program is ended. That `::write` takes the whole buffer or fails is in
the constants of the run. A callback makes finitely many calls, because the
bytes are bounded.

### Findings

- `device_callback`: the output function runs on the IO thread, and a write from
  it waits in `_waitCompletion` (divais.cpp:250) for that same thread to empty
  `_out`. The README's own example writes from the callback.
- `device_resend`: `SendBuf` never advances `sent` (serialport.cpp:270-287), so
  after a partial write the first bytes go out twice and the last not at all.
- `serial_reopen`: `~SerialPort` closes descriptor 0 (serialport.cpp:12), and the
  next Device is given that number, for which `isOpen()` is false: its IO thread
  ends, and a write to it never returns. `DeviceIo` is about a Device whose
  number is positive.
- `vm_race`: the callback runs the script's function on the IO thread
  (divais.cpp:79) while the script runs on its own; `acquire()` is no lock, and
  one thread leaves the frame of the other.
- `vm_close`: a callback calls `exit()` and goes on; the VM is finalized and freed
  under it (sqstate.cpp:171-172), and its Devices are deleted after that.

### Seen in the same code

What follows is in the models as the code has it, or was met on the way to them.
There is no run for it; where the repository says otherwise, its line is quoted.

Device. Credentials other than `tty://` (divais.cpp:33) give a Device whose
`close`, `settimeout` and deletion call a member of a null `_pc` (`UsesNull`,
`DeletesNull`); README.md:45 makes one, `Device("file://success.txt", "file",
TEXT)`, which "creates a file in local folder success, or failed" (:29). A
timeout of `SendBuf` loses the buffer although the put returned 0
(`WriteTimesOut`); a put returns when the IO thread has *taken* the bytes, so
that a close right after it loses them (`Delivered` has `port # "open"` as its
alternative); a port closed by one thread while the other is past `isOpen` sends
the other to a closed number or to descriptor 0 (`WriteStray`, `ReadStray`);
`read(n)` with input waiting takes nothing and returns an empty array, as
`inLen` is `!length` (divais.h:74), and so does `writeread` always.
`write(array)` and `binwaitt` copy the array into 256 bytes, as `arr2str` does
into 4096, without a look at its size: the models' arrays are shorter there.

Waits. The result of `strstr` is a static string no call resets
(divais.cpp:142): one that ends without a match returns the token of an earlier
one. README.md:88-111 decides by the result of each call (`local res =
d.strstr([...])`, `switch(res)`, with a `default:`), so that after the first
match `default:` is not reached again. `strwaitt` sleeps between its last look
at the queue and its last test of the clock (divais.cpp:282-314): an answer that
comes in time, but during the last sleep, is never looked at. `binwaitt`
searches for a C string (:343): an array with a NUL in it is found when its
beginning is; it searches `_baccum`, which is not emptied between two waits
(`LookForArray`); with more than 16384 bytes in it the trim throws
`length_error`, which nothing catches (`TrimThrows`).

Ports. `CloseComport` unlocks the number after it has given it back
(serialport.cpp:318-319): after a failed write, a port that another Device
opened in between loses its lock. That is why `OwnFile` has its condition.

The VM and its threads. The mutex of `SqEnv` is only ever taken by the script's
thread. `Finalize` empties the call stack before it frees the values on it
(sqvm.cpp:142), and `_init` leaves the root table on the stack, so that it is
there that the table goes, not where `_roottable` is set to null. A callback
that drops its own Device waits for itself, and two callbacks that drop each
other's Devices wait for each other (`Stuck`). After `suspend()`, `run_script`
and `~MyScript` pop values of the suspended frame. A callback during the close
finds no function any more. `delete(p)` (main.cpp:188) frees a Device the VM
frees again; as `delete` is a word of the language, a script gets at it only
through the root table.

The VM's data. `NewSlot` returns false after a rehash, against its comment
(sqtable.h:97). `Set` with the key null succeeds when it meets a free node.
`collectgarbage()` never frees a cycle that goes through what C++ holds. An
object whose last reference goes while it is marked stays, with a count of 0,
until the next collection. An object made during a sweep, by the callback of a
Device that the sweep deletes, would be on a chain that is then given up; and
after `RefTable::Finalize` a `sq_release` finds no node and asserts.

Conversions and scripts. `str2arr` inserts byte number i at index 2i of an array
that has its entries already (main.cpp:146), which leaves a null behind each
byte; its comment (:226) has `"01020304" - > [1,2,4,4]`. `arr2str` and `write`
of such an array throw at the nulls. `num2str(5,2)` is `0005` and not `05`
(:227). The length of a message has its high byte first in `getHdr` and
`enquire`, and in the comment it is `[0x2,LengthLobyte,LengthHiByte,...`
(include.sss:141). `enquire` "waits for atl least 5 bytes 10 seconds" (:154) and
of just five takes the sixth (:178), which throws. `getCommand` and `getError`
(payutil.sss:97, 108), for which `:92` has "command from received buffer" and
`:103` "error from returned buffer", return what is one place before the command
and the error of a whole message (include.sss:22-23). The scripts call functions
this program does not bind (`X`, `expect`, `readmin`, `write` of a string).

## 3. Proofs

`DeviceIoProofs` proves, for all values of the constants that satisfy
`ConstantsAssumption`:

| theorem | statement | assuming |
|---|---|---|
| `TypeCorrect` | `Spec => []TypeOK` | |
| `LifecycleHolds` | `Spec => [](Lifecycle /\ PortOnce)` | |
| `NeverUsedAfterFree` | `Spec => []NoUseAfterFree` | |
| `AlwaysOpenedBeforeUse` | `Spec => []OpenedBeforeUse` | |
| `InboundHolds` | `Spec => []InboundOnce` | |
| `WireHolds` | `Spec => []WireIsPrefix` | no `partial`, no `busy` |
| `AccountingHolds` | `Spec => []Accounting` | |
| `PutHandsOverHolds` | `Spec => []PutHandsOver` | |
| `DeviceIsAChannel` | `Spec => ChannelSpec` | none of `partial`, `busy`, `stdin` |

The argument. None of the safety properties is inductive. `Lifecycle` relates
the places of the threads to the flags: `_cancall` is set only past the opening,
the script is past the constructor only with `_cancall` set, `_ended` holds
exactly when the IO thread is at its last two places, `_stopped` exactly when it
is gone (once SFoo has run), and the destructor is past its wait only with
`_ended`. From it `NoUseAfterFree` and, with `PortOnce`, `OpenedBeforeUse`
follow. `Inbound` adds to `InboundOnce` that `shot` is empty except between
`::read` and `putIn`. `Outbound` adds to `WireIsPrefix` where the bytes are that
the line has not taken: while the port is open and the IO thread has not given
it up, `queued = wire \o temp \o out`; once it is closed the line takes no more,
so that a prefix stays a prefix. This last part is what a closing port threatens:
`temp` may be dropped only on a path after which nothing is written. `Accounting`
needs no such part: it counts, and each step of `SendBuf` takes off `left` at
least what it puts on the wire. `PutHandsOver` is inductive with `Lifecycle`, by
which no callback is in a put before its thread has started: outside the puts of
both threads `_out` only shrinks. `PortOnce` also has that a Device
without a `_pc` has no thread: `OpenedBeforeUse` says of it no more.

The refinement maps `port` to the link (`unset` and `none` are down, `open` is up,
the others are broken) and the histories to the channel's; each action is a step of
the channel or changes none of its variables, which needs `PortOnce` (a port
opens once) and `Outbound` (what is written continues the wire).

`BytesProofs`, for any number of threads and any messages, any bytes, texts and
bodies:

| theorem | statement | assuming |
|---|---|---|
| `OneThreadInside` | `Spec => []IoInv` | |
| `QueuesAreAtomic` | `Spec => AtomicQueues` | |
| `TextKeepsBytes` | `CSpec => []TextIsBack` | numbers from 0 to 2147483647; of arrays, those that fit `arr2str`'s buffer |
| `EndsAgree` | `PSpec => []FramesAgree` | bodies of less than 65531 bytes |

`IoInv` says that a thread between its lock and its unlock is the owner of the
mutex, with a count of one, so that there is only one; and that what it has read
of a queue is what the queue still holds when it writes. The step of `ByteQueues`
that a call stands for is its last write or its only read; all others stutter.

The conversions and the messages keep little state (`CodecInv`, `PayInv`: what
was last returned comes from what was given; a read is of the answer that is
there), and their theorems are about what the functions compute. `num2str`
prints an `int`, so that numbers end where its 31 bits do; a negative one is not
in the model. With as many digits as were asked for, the printed number has no
others (`PrintedIs`), and the two digits of each byte read back are what is left
of the number after the bytes before (`Rest`), of which there are at most eight.
`ToBinary` is a loop: each byte of a text with digits only is its own two
digits. `TextIsBack` says nothing of an array longer than the buffer of
`arr2str`: what is returned then, if anything, may be anything
(`Arr2StrOverruns`). An LRC is an exclusive or, which the model has as the
parity of each bit (`calcLrc`): a bit of the LRC is 1 if an odd number of bytes
has it. A message that ends in its own LRC has each bit an even number of times
(`Odd` of the parts), so that the LRC of the whole is 0. The length of a message
is two bytes, high byte first, as its header (5 bytes) and body are no longer
than 65535; a longer body would be counted modulo 65536 and is ruled out by the
assumption on `Bodies` (the scripts send a few bytes).

`ExpectProofs`, for any texts, chunks, timeouts and `TRIMEXPECT`, assuming
`PlainText`: what arrives has no NUL in it.

| theorem | statement |
|---|---|
| `TextInvHolds` | `Spec => []TextInv` |
| `FindsWhatWasHeard` | `Spec => []FoundIsHeard` |
| `ShowsWhatWasHeard` | `Spec => []AccumIsHeard` |
| `NamesWhatItHeard` | `Spec => []TokenIsNamed`, with no token empty |
| `MissesNothing` | `Spec => []FailedIsUnheard`, with no text empty |

What is found is found in the accumulator, so that `FoundIsHeard` needs
`AccumIsHeard`: the accumulator is a suffix of what the wait took, before and
after each trim, and what occurs in a suffix occurs in the whole. That nothing
is missed needs `Missed`: the text is not in what was heard so far, and the
accumulator is all of that or has at least as many bytes as the text. An
occurrence that the next read completes then begins within the accumulator
(`NotHiddenByTrimming`); a trim to one byte less than the text would do, two
would not. `TokenIsNamed` is the same for each token of a `strstr`: a trim keeps
as many bytes as all tokens together have, and so as each of them, and the first
token of the list that is in the accumulator is one that was heard. All rest on
`ExpectAssumption`, without which a trim throws. The empty text is excepted
because it is in everything, but is looked for only when something has come.

`SerialPortProofs`, for any number of Devices, lines and descriptors and every
set of faults:

| theorem | statement |
|---|---|
| `PortInvHolds` | `Spec => []PortInv` |
| `TypesHold` | `Spec => []TypeOK` |
| `PortsOwnTheirFiles` | `Spec => []OwnFile` |
| `NothingLeaks` | `Spec => []NoLeak` |

`OwnFile` is about a port in use and says nothing of the way there, where a
number is stored before the line is locked, or after the file is closed.
`PortInv` adds, as long as no IO thread gave its port up: where each thread can
be (`Places`: one port at a time is being constructed, and the script waits for
it; a port out of its loop was closed by the script), and whose each descriptor
and each lock is (`Files`: a port's file is known by its number, a lock's owner
has the file open). Its condition cannot be dropped: the run of Findings is one
where it fails.

`ScriptVmProofs`, for any number of Devices and any depth of calls:

| theorem | statement | assuming |
|---|---|---|
| `FreedWithNobodyInIt` | `Spec => []FreedLast` | |
| `OwnFrameHolds` | `Spec => []OwnFrame` | `Quiet`, `OneCallback` |
| `HeightIsKept` | `Spec => []HeightKept` | `Quiet`, `OneCallback` |

`FreedLast`, whether lines are silent or not and with any number of callbacks: only
the IO threads that call back are ever in the VM, and none that has ended; a Device
whose deletion has begun has a thread that stays in that deletion until it is gone
(`ThreadsInv`). When the VM is finalized with no callback under way, none can begin
any more, as no function is found without a root table; so every deletion is the
script's, which is in none when it frees the memory (`ClosedInv`).

The other two need to know whose turn it is (`StackInv`). `OwnFrame` only says
that the frame of a call is where it was entered; that no thread takes the last
frame from another needs that the last frame is the one of the thread that
moves. `IoTurn`: an IO thread is in the VM only while the script's thread
sleeps, in `Run` or in the deletion of that Device, and the last frame is the IO
thread's. `ScriptTurn`: with no IO thread in it the last frame is the script's,
and with one in it the IO thread's first frame is just above. `Nested`: a
thread's calls have consecutive frames, a deletion has none and calls nothing.
`HeightKept` needs besides what is on the stack while a call is under way:
`MainHeight` has what `main` has put there, or, with an IO thread in the VM, the
top that it has found and will restore. All of this is until the VM is finalized
under a callback (`StackUntil`; once it was, it stays so: `UnderStays`). Both
conditions are needed: without `Quiet` `vm_race` finds `OwnFrame` violated, and
with two callbacks two IO threads may be in one VM: how they nest on silent
lines is checked (`vm_quiet`) and not proved.

`CollectorProofs`, for any objects, any number of references in each, and so any
cycles:

| theorem | statement |
|---|---|
| `CollectorInvariant` | `GSpec => []IInv` |
| `NothingDanglesHolds` | `GSpec => []NothingDangles` |
| `GarbageGoesHolds` | `GSpec => []GarbageGoes` |
| `MarkingReachesHolds` | `GSpec => []MarkingReaches` |

Nested frees are what the argument is about. `Counting`: a count is the number of
slots, holds of C++ and calls under way that refer to the object; a call that will
let go of a reference (`drop`, `next`) still counts, so that what it works on has a
count. `Backed`: the references of an object are cleared only just above a call that
holds it, or in its own destructor; so a nested release cannot free what an outer
call goes on with. `Ending` and `Kept`: an object without a count is being freed,
by one call and no more. That is `NothingDangles`. For `GarbageGoes` a
sweep must not stop short: `Ahead` and `Swept` say that an object of the chain that
the sweep has not come to is ahead of it, and that what it has come to refers to
nothing, or soon will. When the sweep is over, an object left in the chain would be
referred to by nothing in the chain, and by nothing marked, as the marked refer
only to the marked (`Marked`); so its count would be 0, and `Kept` has it freed.
The closing of the VM is the same with nothing marked and nothing held by C++.

`Collector` takes what a collection marks as a set, `Reached`; `MarkingReachesHolds`
says that the recursion of the code computes it. `MarkDown(deep)` is that recursion
with at most `deep` calls within one another, and `Mark` allows as many as there are
objects. That this is no restriction is part of the proof: with no more than `n`
objects unmarked, `n` levels are enough (`Does`), as each level marks one before it
goes down. From before a call to after it (`Goes`), what has been marked is what has
come into the chain, once, and what the newly marked refer to is marked, except for
the objects whose call is still under way; and nothing is marked that is not in
every set closed under references that has the object of the call (`MarksAll`). At
the end no call is under way, so that the marked are the least closed set.

`SqTableProofs`, for any keys, hashes and values, colliding as they may, and any
initial size:

| theorem | statement |
|---|---|
| `TableInvariant` | `Spec => []IInv` |
| `FreeIsFreeHolds` | `Spec => []FreeIsFree` |
| `AllAreFoundHolds` | `Spec => []AllAreFound` |
| `LoopIsExactHolds` | `Spec => []LoopIsExact` |
| `TableIsDictionary` | `Spec => DictSpec` |

That each key is found says nothing about what an insertion does to the chains.
`Good` does: a node follows at most one other (`OnePrev`) and no chain goes
round (`AllEnd`); from the main position of a key its chain leads to it
(`AllLead`, said of the sets of nodes that are closed under `next`, so that no
length of a path is needed); each key is in one node (`OneEach`); and a node
that is some key's main position holds a key that belongs there (`Home`). `Home`
is what `NewSlot` turns on: the key it finds in the wrong place is moved to
`_firstfree`, and the chain that comes by it is mended at one link. `Unused`
says of `_firstfree` that it is empty and that every link of a chain leads to a
node above it; as deletions leave `next` as it is, chains run through empty
nodes, but only through those that `_firstfree` has passed. A rehash fills a
table in which nothing has been deleted (`Fresh`): there every empty node is at
or below `_firstfree` and in no chain, and the new size has room for what goes
in and one node to spare, so that no rehash starts within a rehash. The sizes
are 4 doubled some number of times (`Powers`), without which a quarter of the
size, by which the code decides, is not exact. For `LoopIsExact`, an insertion
may move a key behind the position of a `foreach`; the property, and so the
invariant, is about the loops whose body only deletes and assigns.

`VmTablesProofs`, for any objects and strings, any hashes and any number of holds:

| theorem | statement |
|---|---|
| `RefsInvariant` | `RSpec => []RefsInv` |
| `CountsHoldersHolds` | `RSpec => []CountsHolders` |
| `ListsPartitionHolds` | `RSpec => []ListsPartition` |
| `StringsAreUniqueHolds` | `SSpec => []StringsAreUnique` |

The lists of the reference table are nodes that point at one another, and
`ListsPartition` speaks of what they lead to; `RefsInv` says the same by single
links (`Linked`): the node after a node is on the same list, a list begins with a
node that none leads to, a node that none leads to begins its list, and no list
goes round, in either direction. Add and Release both move one node from a list
to the front of another, so that two lemmas, for the first node of a list and for
a later one (`FirstMoves`, `LaterMoves`), serve all of them. That the search in
a bucket ends, and at the node of the object if there is one, follows from
`Linked` and from `OneNodeEach`. The counts of the nodes are those of C++
(`Counted`), a taken node counts at least one (`Positive`), and `_slotused` is
the number of taken nodes, so that a table that is not full has a free node. In a
resize, what has been added back counts what the nodes so far counted and there
is room for the rest. For the string table the invariant is that each bucket has
the strings of `used` that hash to it, each once, and that `_slotused` is their
number.

The loops of these tables over nodes and buckets, like `Mark`, are written as
recursive functions of how far the loop has come. The library's induction
theorems cannot be used, but an induction on a set of numbers can be proved
(`Induction`, from the well-foundedness of the naturals), and each loop is
proved with its own set.

Only model-checked: everything under fairness (`ConstructorReturns`, `PutEnds`,
`Delivered`, `DeleteEnds`, `TimedWaitEnds`, `ForeverFinds`, `DeletionEnds`,
`ExitEnds`), as TLAPS does not reason about fairness and ENABLED here. Every other
property of the passing runs is stated by a theorem.

## 4. Not modelled

- The Windows halves of serialport.cpp and osthread.h: other programs behind the
  same interfaces, which the Makefile does not build.
- The Squirrel compiler and its instructions, its libraries of strings, blobs,
  numbers, files and regular expressions, delegates, weak references and
  generators, and Sqrat's templates. They are the greater part of the
  repository's lines, come from elsewhere, and hold none of the program's own
  logic; modelled of them is what the program's threads and lifetimes depend on.
- Of the collector: `ResurrectUnreachable`, which the program does not call, and
  the release hooks, which delete C++ objects that hold nothing of the VM.
- `noout`, which waits until the queue's emptiness has not changed for a while;
  `writeread` (a put and a wait); the settings of a Device, and `_accum` as two
  waits on two threads would share it.
- What a callback does in a VM that was finalized under it: it may return, go on,
  or never return, and the memory it uses is not modelled.
- Functions nothing calls: `compile_script_new`, `compile_buffer`, `run_cmdline`,
  `RunOld`, `WriteCompiledFile`, `GetRefCount`, `SendByte`, `cputs`.
- `SshCom` and `TcpCom` (empty); the demonstration scripts; terminal settings and
  modem lines; wording and logging.

`PROJECT.json` names every part with its status.
