------------------------------ MODULE DeviceIo ------------------------------
(***************************************************************************)
(* One Device of autocom (autocom_src/divais.cpp, divais.h, osthread.h,    *)
(* serialcom.cpp): the script thread, which runs the Squirrel program and  *)
(* the Device's methods; the IO thread, which runs OsThread::SFoo and      *)
(* Device::thread_main; the two byte queues between them (IoData); the     *)
(* unsynchronised flags _alive, _cancall, _ended, _stopped and __alive;    *)
(* and the port, as far as SerialComm sees it.                             *)
(*                                                                         *)
(* Bytes are numbered in the order the program queues them, or the line    *)
(* delivers them, so that a lost, repeated or displaced byte shows.  Every *)
(* queue operation of IoData holds _tmut throughout and is one step.       *)
(* Sleeps and timeouts are not timed here: a wait may end at any poll.     *)
(***************************************************************************)
EXTENDS Integers, SequencesExt

CONSTANTS
  PutSizes,        \* sizes of the buffers a script writes, 0 for an empty one
  CallbackPuts,    \* sizes of the buffers the output callback writes
  ReadSizes,       \* numbers of bytes one ::read of the port may return
  WaitingResults,  \* what the script's function "waiting" may return
  Faults,          \* what may go wrong outside the program
  MaxQueued,       \* bound: bytes queued for the line in a behaviour
  MaxArrived       \* bound: bytes that arrive in a behaviour

FaultKinds ==
  { "scheme",    \* the credentials do not begin with tty://
    "thread",    \* pthread_create fails
    "open",      \* OpenComport fails
    "write",     \* ::write fails with an error other than EAGAIN
    "busy",      \* ::write keeps failing with EAGAIN until SendBuf times out
    "partial",   \* ::write takes only part of the buffer
    "stdin" }    \* descriptor 0 is a terminal that takes and gives bytes

ASSUME ConstantsAssumption ==
  /\ PutSizes \subseteq Nat
  /\ CallbackPuts \subseteq Nat
  /\ ReadSizes \subseteq Nat \ {0}
  /\ WaitingResults \subseteq {-1, 0, 1}
  /\ Faults \subseteq FaultKinds
  /\ MaxQueued \in Nat
  /\ MaxArrived \in Nat

EXIT == -1         \* main.cpp: .Const("EXIT", -1)
Foreign == 0       \* a byte that came from descriptor 0, not from the line

VARIABLES
  spc,      \* where the script thread is
  ipc,      \* where the IO thread is
  running,  \* __alive
  alive,    \* _alive
  cancall,  \* _cancall
  ended,    \* _ended
  stopped,  \* OsThread::_stopped
  port,     \* SerialPort::_port: "unset" or -1, "open", "dangling" (closed, the
            \* number still stored) or "zero" (closed and reset); "none" if _pc
            \* is 0 and there is no SerialPort
  out,      \* _io._out
  in,       \* _io._in
  temp,     \* thread_main's temp
  left,     \* SendBuf's left
  shot,     \* the bytes of thread_main's shot
  queued,   \* history: every byte put into out
  wire,     \* history: every byte the line took
  got,      \* history: every byte ::read returned
  taken     \* history: every byte the script took out of in

flags == <<alive, cancall, ended, stopped>>
sending == <<temp, left>>
outbound == <<out, queued>>
vars == <<spc, ipc, running, flags, port, outbound, in, sending, shot,
          wire, got, taken>>

ScriptPcs ==
  { "new",        \* Device::Device, before start_thread
    "ctor",       \* while(_cancall==false)
    "idle",       \* running the script, between two calls of the Device
    "wc",         \* in _waitCompletion
    "expect",     \* in the polling loop of strwaitt, strstr or binwaitt
    "read",       \* in read, after the first hasInput answered no
    "c_fd",       \* in CloseComport, called by close(), before ::close
    "c_zero",     \* in CloseComport, called by close(), before _port = 0
    "run",        \* main's Run(), after the script ended
    "d_close",    \* ~Device, before _pc->close()
    "d_fd", "d_zero",  \* the same two points of CloseComport, from ~Device
    "d_kill",     \* ~Device, before _alive=false
    "d_wait",     \* while(!_ended)
    "d_pc",       \* ~Device, before delete _pc
    "d_thread",   \* ~OsThread, before if(!_stopped)
    "d_join",     \* stop_thread, after sleep(1)
    "freed",      \* the Device's memory is free
    "crashed",    \* a member of the null _pc was called: the process is gone
    "exited" }    \* ::exit in the constructor

IoPcs ==
  { "none",       \* no thread
    "start",      \* SFoo, before _stopped = 0
    "open",       \* before _pc->open()
    "ready",      \* before _cancall = true
    "loop",       \* while(_alive)
    "poll",       \* if(_io.hasOutput())
    "send",       \* sendTo, before isOpen()
    "write",      \* in SendBuf, before ::write
    "recv",       \* recFrom, before isOpen()
    "read",       \* in SerialPort::Read, before select and ::read
    "store",      \* before _io.putIn
    "call",       \* _onReceived: the script's callback runs on this thread
    "cb_wc",      \* in _waitCompletion, called by that callback
    "cb_ever",    \* in a wait without a limit, called by that callback
    "cb_fd", "cb_zero",  \* the two points of CloseComport, from that callback
    "fin",        \* the end of thread_main, before if(_pc->isOpen())
    "x_fd", "x_zero",  \* the two points of CloseComport, from here
    "end",        \* before _ended=true
    "stop",       \* SFoo, before _stopped = 1
    "gone" }      \* SFoo returned

-----------------------------------------------------------------------------
\* SerialComm::isOpen and SerialPort::isOpen: _port > 0.
IsOpen == port \in {"open", "dangling"}

\* n fresh bytes, numbered after those of history h.
Fresh(h, n) == [k \in 1..n |-> Len(h) + k]

\* Thread moves: the script thread, and the IO thread.
ScriptGoes(from, to) == spc = from /\ spc' = to /\ UNCHANGED ipc
IoGoes(from, to) == ipc = from /\ ipc' = to /\ UNCHANGED spc

\* IoData::putOut of a fresh buffer of n bytes.
PutOut(n) ==
  /\ Len(queued) + n <= MaxQueued
  /\ queued' = queued \o Fresh(queued, n)
  /\ out' = out \o Fresh(queued, n)

\* Mutant of GetIn: the queue is not cleared.
GetInKeeps ==
  /\ taken' = taken \o in
  /\ UNCHANGED in

\* IoData::getIn, on behalf of the script.
GetIn ==
  /\ taken' = taken \o in
  /\ in' = <<>>

\* The script may call exit() wherever its code runs: Exit() of main.cpp.
MayExit == running' \in {running, FALSE}

\* The loop of _waitCompletion can end.
Completed ==
  \/ EXIT \in WaitingResults
  \/ out = <<>>
  \/ ~running

Init ==
  /\ spc = "new"
  /\ ipc = "none"
  /\ running = TRUE
  /\ alive = FALSE
  /\ cancall = FALSE
  /\ ended = FALSE
  /\ stopped \in BOOLEAN          \* OsThread() leaves it uninitialised
  /\ port = "unset"               \* SerialPort() leaves it uninitialised
  /\ out = <<>> /\ in = <<>>
  /\ temp = <<>> /\ left = 0 /\ shot = <<>>
  /\ queued = <<>> /\ wire = <<>> /\ got = <<>> /\ taken = <<>>

-----------------------------------------------------------------------------
(* The script thread. *)

\* Device::Device with credentials other than tty://: no _pc, no thread, and a
\* Device all the same.
NotATty ==
  /\ "scheme" \in Faults
  /\ ScriptGoes("new", "idle")
  /\ port' = "none"
  /\ UNCHANGED <<running, flags, outbound, in, sending, shot, wire, got, taken>>

\* A method or the destructor calls a member of _pc, which is 0.
CallsNull(from) ==
  /\ port = "none"
  /\ ScriptGoes(from, "crashed")
  /\ UNCHANGED <<running, flags, port, outbound, in, sending, shot, wire, got,
                 taken>>

\* settimeout, close.
UsesNull == CallsNull("idle")
DeletesNull == CallsNull("d_close")

\* Device::Device with tty:// credentials: start_thread() succeeds.
ThreadStarts ==
  /\ spc = "new"
  /\ spc' = "ctor"
  /\ ipc' = "start"
  /\ alive' = TRUE
  /\ UNCHANGED <<running, cancall, ended, stopped, port, outbound, in, sending,
                 shot, wire, got, taken>>

\* pthread_create fails and start_thread returns errno, which pthread_create
\* does not set: the constructor exits the process, or waits all the same.
ThreadFails ==
  /\ "thread" \in Faults
  /\ \E to \in {"exited", "ctor"} : ScriptGoes("new", to)
  /\ alive' = TRUE
  /\ UNCHANGED <<running, cancall, ended, stopped, port, outbound, in, sending,
                 shot, wire, got, taken>>

\* Mutant of Constructed: the constructor does not wait.
ConstructedAtOnce ==
  /\ ScriptGoes("ctor", "idle")
  /\ UNCHANGED <<running, flags, port, outbound, in, sending, shot, wire, got,
                 taken>>

\* The constructor's loop ends.
Constructed ==
  /\ cancall
  /\ ScriptGoes("ctor", "idle")
  /\ UNCHANGED <<running, flags, port, outbound, in, sending, shot, wire, got,
                 taken>>

\* sendkey, putc, puts, putsln, write: queue the bytes and wait.
Put(n) ==
  /\ ScriptGoes("idle", "wc")
  /\ PutOut(n)
  /\ UNCHANGED <<running, flags, port, in, sending, shot, wire, got, taken>>

\* The script's function "waiting", called by _waitCompletion or by a polling
\* loop on either thread, may end the program.
WaitingExits ==
  /\ spc \in {"wc", "expect"} \/ ipc \in {"cb_wc", "cb_ever"}
  /\ WaitingResults # {}
  /\ running' = FALSE
  /\ UNCHANGED <<spc, ipc, flags, port, outbound, in, sending, shot, wire, got,
                 taken>>

\* Mutant of PutReturns: one sleep and no test of the queue.
PutReturnsAtOnce ==
  /\ ScriptGoes("wc", "idle")
  /\ UNCHANGED <<running, flags, port, outbound, in, sending, shot, wire, got,
                 taken>>

PutReturns ==
  /\ Completed
  /\ ScriptGoes("wc", "idle")
  /\ UNCHANGED <<running, flags, port, outbound, in, sending, shot, wire, got,
                 taken>>

Gets ==
  /\ spc = "idle"
  /\ GetIn
  /\ UNCHANGED <<spc, ipc, running, flags, port, outbound, sending, shot, wire,
                 got>>

\* strwaitt, strstr, binwaitt: poll the queue until a match, the timeout, the
\* end of the program or a result of "waiting" other than 0.
ExpectStarts ==
  /\ ScriptGoes("idle", "expect")
  /\ UNCHANGED <<running, flags, port, outbound, in, sending, shot, wire, got,
                 taken>>

ExpectPolls ==
  /\ spc = "expect"
  /\ running
  /\ in # <<>>
  /\ GetIn
  /\ spc' \in {"expect", "idle"}
  /\ UNCHANGED <<ipc, running, flags, port, outbound, sending, shot, wire, got>>

ExpectEnds ==
  /\ ScriptGoes("expect", "idle")
  /\ UNCHANGED <<running, flags, port, outbound, in, sending, shot, wire, got,
                 taken>>

\* read(max), max > 0.  With input in the queue, max becomes inLen(), which is
\* !_in.length(), 0: read returns an empty array and takes nothing.  Only
\* bytes that arrive after the first hasInput are taken.
ReadStarts ==
  /\ in = <<>>
  /\ ScriptGoes("idle", "read")
  /\ UNCHANGED <<running, flags, port, outbound, in, sending, shot, wire, got,
                 taken>>

ReadTakes ==
  /\ ScriptGoes("read", "idle")
  /\ GetIn
  /\ UNCHANGED <<running, flags, port, outbound, sending, shot, wire, got>>

\* Exit().
Exit ==
  /\ spc = "idle"
  /\ running' = FALSE
  /\ UNCHANGED <<spc, ipc, flags, port, outbound, in, sending, shot, wire, got,
                 taken>>

\* The three parts of SerialComm::close, from close() and from ~Device: the
\* test of _port, CloseComport up to ::close, and _port = 0.  ::close on a
\* number already closed fails and changes nothing here.
PortTest(from, fd, skip) ==
  /\ port # "none"
  /\ ScriptGoes(from, IF port = "zero" THEN skip ELSE fd)
  /\ UNCHANGED <<running, flags, port, outbound, in, sending, shot, wire, got,
                 taken>>

PortClose(from, to) ==
  /\ ScriptGoes(from, to)
  /\ port' = IF port = "open" THEN "dangling" ELSE port
  /\ UNCHANGED <<running, flags, outbound, in, sending, shot, wire, got, taken>>

PortReset(from, to) ==
  /\ ScriptGoes(from, to)
  /\ port' = "zero"
  /\ UNCHANGED <<running, flags, outbound, in, sending, shot, wire, got, taken>>

CloseTests == PortTest("idle", "c_fd", "idle")
CloseCloses == PortClose("c_fd", "c_zero")
CloseResets == PortReset("c_zero", "idle")

\* The script ends: main goes on to Run().
ScriptEnds ==
  /\ ScriptGoes("idle", "run")
  /\ UNCHANGED <<running, flags, port, outbound, in, sending, shot, wire, got,
                 taken>>

\* ~Device begins: the script drops its last reference to the Device or calls
\* delete, or suspends its VM, at which Run() returns at once, or Run() sees
\* the end of the program; in the last two cases ~SqEnv closes the VM, which
\* releases the Device.
DeleteStarts ==
  /\ \/ ScriptGoes("idle", "d_close")
     \/ ~running /\ ScriptGoes("run", "d_close")
  /\ UNCHANGED <<running, flags, port, outbound, in, sending, shot, wire, got,
                 taken>>

DeleteTests == PortTest("d_close", "d_fd", "d_kill")
DeleteCloses == PortClose("d_fd", "d_zero")
DeleteResets == PortReset("d_zero", "d_kill")

\* After two seconds: _alive=false.
Kill ==
  /\ ScriptGoes("d_kill", "d_wait")
  /\ alive' = FALSE
  /\ UNCHANGED <<running, cancall, ended, stopped, port, outbound, in, sending,
                 shot, wire, got, taken>>

\* Mutant of SeesEnded: ~Device does not wait for thread_main.
SeesEndedAtOnce ==
  /\ ScriptGoes("d_wait", "d_pc")
  /\ UNCHANGED <<running, flags, port, outbound, in, sending, shot, wire, got,
                 taken>>

SeesEnded ==
  /\ ended
  /\ ScriptGoes("d_wait", "d_pc")
  /\ UNCHANGED <<running, flags, port, outbound, in, sending, shot, wire, got,
                 taken>>

DeletePc ==
  /\ ScriptGoes("d_pc", "d_thread")
  /\ UNCHANGED <<running, flags, port, outbound, in, sending, shot, wire, got,
                 taken>>

\* Mutant of StopThread: the thread is not joined.
StopThreadDetached ==
  /\ ScriptGoes("d_thread", "freed")
  /\ UNCHANGED <<running, flags, port, outbound, in, sending, shot, wire, got,
                 taken>>

\* ~OsThread: nothing to stop, or stop_thread.
StopThread ==
  /\ ScriptGoes("d_thread", IF stopped THEN "freed" ELSE "d_join")
  /\ UNCHANGED <<running, flags, port, outbound, in, sending, shot, wire, got,
                 taken>>

\* _stopped is set by now, or pthread_join waits for the thread that sets it.
Join ==
  /\ stopped
  /\ ScriptGoes("d_join", "freed")
  /\ UNCHANGED <<running, flags, port, outbound, in, sending, shot, wire, got,
                 taken>>

-----------------------------------------------------------------------------
(* The IO thread. *)

\* Mutant of IoStart: calls are let in before the port is open.
IoStartCanCall ==
  /\ IoGoes("start", "open")
  /\ stopped' = FALSE
  /\ cancall' = TRUE
  /\ UNCHANGED <<running, alive, ended, port, outbound, in, sending, shot, wire,
                 got, taken>>

\* SFoo begins.
IoStart ==
  /\ IoGoes("start", "open")
  /\ stopped' = FALSE
  /\ UNCHANGED <<running, alive, cancall, ended, port, outbound, in, sending,
                 shot, wire, got, taken>>

OpenSucceeds ==
  /\ IoGoes("open", "ready")
  /\ port' = "open"
  /\ UNCHANGED <<running, flags, outbound, in, sending, shot, wire, got, taken>>

\* OpenComport fails before ::open or at it; or after it, when it closes the
\* descriptor and keeps the number, or resets it too, or leaves it open.
OpenFails ==
  /\ "open" \in Faults
  /\ IoGoes("open", "fin")
  /\ port' \in {"unset", "dangling", "zero", "open"}
  /\ UNCHANGED <<running, flags, outbound, in, sending, shot, wire, got, taken>>

\* Mutant of CanCall: the flag is not set.
CanCallForgets ==
  /\ IoGoes("ready", "loop")
  /\ UNCHANGED <<running, flags, port, outbound, in, sending, shot, wire, got,
                 taken>>

CanCall ==
  /\ IoGoes("ready", "loop")
  /\ cancall' = TRUE
  /\ UNCHANGED <<running, alive, ended, stopped, port, outbound, in, sending,
                 shot, wire, got, taken>>

\* while(_alive).  The close after the loop is that of "fin" with another test
\* of _port, so both lead there.
LoopTest ==
  /\ IoGoes("loop", IF alive THEN "poll" ELSE "fin")
  /\ UNCHANGED <<running, flags, port, outbound, in, sending, shot, wire, got,
                 taken>>

\* Mutant of TakeOut: getOut does not clear the queue.
TakeOutKeeps ==
  /\ IoGoes("poll", IF out = <<>> THEN "recv" ELSE "send")
  /\ temp' = out
  /\ UNCHANGED <<running, flags, port, outbound, in, left, shot, wire, got, taken>>

\* Mutant of TakeOut: no output while input waits to be fetched.
TakeOutUnlessInput ==
  /\ IoGoes("poll", IF out = <<>> \/ in # <<>> THEN "recv" ELSE "send")
  /\ IF in # <<>> THEN UNCHANGED <<out, temp>> ELSE temp' = out /\ out' = <<>>
  /\ UNCHANGED <<running, flags, port, queued, in, left, shot, wire, got, taken>>

TakeOut ==
  /\ IoGoes("poll", IF out = <<>> THEN "recv" ELSE "send")
  /\ temp' = out
  /\ out' = <<>>
  /\ UNCHANGED <<running, flags, port, queued, in, left, shot, wire, got, taken>>

\* Mutant of SendTo: the length leaves the line end out.
SendToShort ==
  /\ IoGoes("send", IF IsOpen THEN "write" ELSE "fin")
  /\ IF IsOpen THEN left' = Len(temp) - 2 /\ UNCHANGED temp
               ELSE left' = 0 /\ temp' = <<>>
  /\ UNCHANGED <<running, flags, port, outbound, in, shot, wire, got, taken>>

SendTo ==
  /\ IoGoes("send", IF IsOpen THEN "write" ELSE "fin")
  /\ IF IsOpen THEN left' = Len(temp) /\ UNCHANGED temp
               ELSE left' = 0 /\ temp' = <<>>
  /\ UNCHANGED <<running, flags, port, outbound, in, shot, wire, got, taken>>

\* Mutant of WriteTakes: the last byte does not go out.
WriteTakesShort(n) ==
  /\ port = "open"
  /\ n = left
  /\ wire' = wire \o SubSeq(temp, 1, n - 1)
  /\ IoGoes("write", "recv") /\ left' = 0 /\ temp' = <<>>
  /\ UNCHANGED <<running, flags, port, outbound, in, shot, got, taken>>

\* Mutant of WriteTakes: a retry writes the whole buffer once more.
WriteTakesAgain(n) ==
  /\ port = "open"
  /\ n = left \/ ("partial" \in Faults /\ n \in 1..left)
  /\ wire' = wire \o SubSeq(temp, 1, n)
  /\ \/ n < left /\ IoGoes("write", "write") /\ UNCHANGED sending
     \/ IoGoes("write", "recv") /\ left' = 0 /\ temp' = <<>>
  /\ UNCHANGED <<running, flags, port, outbound, in, shot, got, taken>>

\* ::write takes n of the bytes left.  sent is never advanced, so they are
\* always the first n of the buffer.  With bytes left the loop goes on, or has
\* run out of time; thread_main drops the rest then.
WriteTakes(n) ==
  /\ port = "open"
  /\ n = left \/ ("partial" \in Faults /\ n \in 1..left)
  /\ wire' = wire \o SubSeq(temp, 1, n)
  /\ \/ n < left /\ IoGoes("write", "write") /\ left' = left - n /\ UNCHANGED temp
     \/ n < left /\ IoGoes("write", "recv") /\ left' = 0 /\ temp' = <<>>
     \/ n = left /\ IoGoes("write", "recv") /\ left' = 0 /\ temp' = <<>>
  /\ UNCHANGED <<running, flags, port, outbound, in, shot, got, taken>>

\* EAGAIN until the timeout: the bytes are dropped.
WriteTimesOut ==
  /\ "busy" \in Faults
  /\ port = "open"
  /\ IoGoes("write", "recv")
  /\ left' = 0 /\ temp' = <<>>
  /\ UNCHANGED <<running, flags, port, outbound, in, shot, wire, got, taken>>

\* Any other error ends the loop of thread_main.
WriteFails ==
  /\ port # "open" \/ "write" \in Faults
  /\ IoGoes("write", "fin")
  /\ left' = 0 /\ temp' = <<>>
  /\ UNCHANGED <<running, flags, port, outbound, in, shot, wire, got, taken>>

\* The other thread has closed the port since isOpen, and descriptor 0 takes
\* the bytes.
WriteStray ==
  /\ "stdin" \in Faults
  /\ port = "zero"
  /\ IoGoes("write", "recv")
  /\ left' = 0 /\ temp' = <<>>
  /\ UNCHANGED <<running, flags, port, outbound, in, shot, wire, got, taken>>

RecFrom ==
  /\ IoGoes("recv", IF IsOpen THEN "read" ELSE "fin")
  /\ UNCHANGED <<running, flags, port, outbound, in, sending, shot, wire, got,
                 taken>>

\* Nothing to read, an error, or the end of the file: all count as nothing.
ReadNothing ==
  /\ IoGoes("read", "loop")
  /\ UNCHANGED <<running, flags, port, outbound, in, sending, shot, wire, got,
                 taken>>

\* Mutant of ReadBytes: the port may have been closed.
ReadBytesClosed(n) ==
  /\ Len(got) + n <= MaxArrived
  /\ IoGoes("read", "store")
  /\ shot' = Fresh(got, n)
  /\ got' = got \o shot'
  /\ UNCHANGED <<running, flags, port, outbound, in, sending, wire, taken>>

ReadBytes(n) ==
  /\ port = "open"
  /\ Len(got) + n <= MaxArrived
  /\ IoGoes("read", "store")
  /\ shot' = Fresh(got, n)
  /\ got' = got \o shot'
  /\ UNCHANGED <<running, flags, port, outbound, in, sending, wire, taken>>

\* As WriteStray: what is typed at the terminal arrives as the device's bytes.
ReadStray ==
  /\ "stdin" \in Faults
  /\ port = "zero"
  /\ Len(got) + 1 <= MaxArrived
  /\ IoGoes("read", "store")
  /\ shot' = <<Foreign>>
  /\ got' = got \o shot'
  /\ UNCHANGED <<running, flags, port, outbound, in, sending, wire, taken>>

\* Mutant of Store: new input replaces the old.
StoreOver ==
  /\ IoGoes("store", "call")
  /\ in' = shot
  /\ shot' = <<>>
  /\ UNCHANGED <<running, flags, port, outbound, sending, wire, got, taken>>

Store ==
  /\ IoGoes("store", "call")
  /\ in' = in \o shot
  /\ shot' = <<>>
  /\ UNCHANGED <<running, flags, port, outbound, sending, wire, got, taken>>

\* The callback of _onReceived returns, or there is none.
Received ==
  /\ IoGoes("call", "loop")
  /\ MayExit
  /\ UNCHANGED <<flags, port, outbound, in, sending, shot, wire, got, taken>>

\* The callback writes to the Device, and waits as the script does.
CallbackPut(n) ==
  /\ IoGoes("call", "cb_wc")
  /\ PutOut(n)
  /\ UNCHANGED <<running, flags, port, in, sending, shot, wire, got, taken>>

\* The callback fetches the input: gets, or a wait that finds it in the queue
\* or reaches its limit.  read takes nothing here, for its second hasInput
\* answers no like the first.
CallbackGets ==
  /\ IoGoes("call", "call")
  /\ GetIn
  /\ UNCHANGED <<running, flags, port, outbound, sending, shot, wire, got>>

\* The callback waits without a limit, by strwaitt, binwaitt or any, for what
\* the input queued so far does not hold.
CallbackWaits ==
  /\ running
  /\ IoGoes("call", "cb_ever")
  /\ GetIn
  /\ UNCHANGED <<running, flags, port, outbound, sending, shot, wire, got>>

\* No other thread fills _in: the end of the program or "waiting" ends the wait.
CallbackWaitEnds ==
  /\ ~running \/ WaitingResults \ {0} # {}
  /\ IoGoes("cb_ever", "call")
  /\ UNCHANGED <<running, flags, port, outbound, in, sending, shot, wire, got,
                 taken>>

CallbackPutReturns ==
  /\ Completed
  /\ IoGoes("cb_wc", "call")
  /\ UNCHANGED <<running, flags, port, outbound, in, sending, shot, wire, got,
                 taken>>

\* if(_pc->isOpen()) _pc->close().
IoFin ==
  /\ IoGoes("fin", IF IsOpen THEN "x_fd" ELSE "end")
  /\ UNCHANGED <<running, flags, port, outbound, in, sending, shot, wire, got,
                 taken>>

IoPortClose(from, to) ==
  /\ IoGoes(from, to)
  /\ port' = IF port = "open" THEN "dangling" ELSE port
  /\ UNCHANGED <<running, flags, outbound, in, sending, shot, wire, got, taken>>

IoPortReset(from, to) ==
  /\ IoGoes(from, to)
  /\ port' = "zero"
  /\ UNCHANGED <<running, flags, outbound, in, sending, shot, wire, got, taken>>

IoCloses == IoPortClose("x_fd", "x_zero")
IoResets == IoPortReset("x_zero", "end")

\* close(), called by the callback.
CallbackCloseTests ==
  /\ port # "zero"
  /\ IoGoes("call", "cb_fd")
  /\ UNCHANGED <<running, flags, port, outbound, in, sending, shot, wire, got,
                 taken>>

CallbackCloses == IoPortClose("cb_fd", "cb_zero")
CallbackResets == IoPortReset("cb_zero", "call")

\* Mutant of IoEnds: the flag is not set.
IoEndsSilently ==
  /\ IoGoes("end", "stop")
  /\ UNCHANGED <<running, flags, port, outbound, in, sending, shot, wire, got,
                 taken>>

IoEnds ==
  /\ IoGoes("end", "stop")
  /\ ended' = TRUE
  /\ UNCHANGED <<running, alive, cancall, stopped, port, outbound, in, sending,
                 shot, wire, got, taken>>

IoStops ==
  /\ IoGoes("stop", "gone")
  /\ stopped' = TRUE
  /\ UNCHANGED <<running, alive, cancall, ended, port, outbound, in, sending,
                 shot, wire, got, taken>>

-----------------------------------------------------------------------------
\* Steps of the script's own choice, which nothing obliges it to take.
ScriptChooses ==
  \/ \E n \in PutSizes : Put(n)
  \/ WaitingExits \/ Gets \/ ExpectStarts \/ ExpectPolls \/ ReadStarts
  \/ Exit \/ UsesNull \/ CloseTests \/ ScriptEnds \/ DeleteStarts

\* Steps a call in progress takes by itself.
ScriptRuns ==
  \/ NotATty \/ ThreadStarts \/ ThreadFails \/ Constructed
  \/ PutReturns \/ ExpectEnds \/ ReadTakes \/ CloseCloses \/ CloseResets
  \/ DeletesNull \/ DeleteTests \/ DeleteCloses \/ DeleteResets
  \/ Kill \/ SeesEnded \/ DeletePc \/ StopThread \/ Join

IoOpens == IoStart \/ OpenSucceeds \/ OpenFails \/ CanCall

IoSends ==
  \/ TakeOut \/ SendTo \/ (\E n \in 1..left : WriteTakes(n))
  \/ WriteTimesOut \/ WriteFails \/ WriteStray

IoReceives ==
  \/ RecFrom \/ ReadNothing \/ (\E n \in ReadSizes : ReadBytes(n)) \/ ReadStray
  \/ Store

IoCallback ==
  \/ Received \/ (\E n \in CallbackPuts : CallbackPut(n))
  \/ CallbackGets \/ CallbackPutReturns \/ CallbackWaits \/ CallbackWaitEnds
  \/ CallbackCloseTests \/ CallbackCloses \/ CallbackResets

IoFinishes == IoFin \/ IoCloses \/ IoResets \/ IoEnds \/ IoStops

IoRuns == IoOpens \/ LoopTest \/ IoSends \/ IoReceives \/ IoCallback \/ IoFinishes

Next == ScriptChooses \/ ScriptRuns \/ IoRuns

Spec == Init /\ [][Next]_vars

\* Both threads are threads of the operating system, which runs them; what the
\* script chooses to do next is its own affair.
FairSpec == Spec /\ WF_vars(ScriptRuns) /\ WF_vars(IoRuns)

-----------------------------------------------------------------------------
(* Properties. *)

Ports == {"unset", "none", "open", "dangling", "zero"}

\* The types of the variables; SendBuf never has more left than its buffer.
TypeOK ==
  /\ spc \in ScriptPcs
  /\ ipc \in IoPcs
  /\ running \in BOOLEAN
  /\ alive \in BOOLEAN
  /\ cancall \in BOOLEAN
  /\ ended \in BOOLEAN
  /\ stopped \in BOOLEAN
  /\ port \in Ports
  /\ out \in Seq(Nat) /\ in \in Seq(Nat)
  /\ temp \in Seq(Nat) /\ shot \in Seq(Nat)
  /\ left \in Nat
  /\ ipc = "write" => left <= Len(temp)
  /\ queued \in Seq(Nat) /\ wire \in Seq(Nat)
  /\ got \in Seq(Nat) /\ taken \in Seq(Nat)

\* Whatever the threads do to the port, the queue and each other, the line
\* takes the queued bytes in order, without a gap and without a repetition.
\* (Not under the faults "partial" and "busy".)
WireIsPrefix == IsPrefix(wire, queued)

\* A byte that ::read returned is in exactly one place, and in its place: on
\* its way to _in, in _in, or handed to the script.
InboundOnce == got = taken \o in \o shot

\* ~Device frees _pc only when thread_main has let go of it, and ~OsThread
\* lets the Device's memory go only when SFoo has, although the flags that say
\* so are set one after the other and without a lock.
NoUseAfterFree ==
  /\ spc \in {"d_thread", "d_join", "freed"} => ipc \in {"stop", "gone"}
  /\ spc = "freed" => ipc = "gone"

\* The script gets a Device with tty:// credentials only when its port has been
\* opened, so that nothing meets the uninitialised _port; a Device with other
\* credentials has no thread beside the script's that could meet its null _pc.
OpenedBeforeUse ==
  spc \notin {"new", "ctor", "exited"} =>
    IF port = "none" THEN ipc = "none"
    ELSE port # "unset" /\ ipc \notin {"none", "start", "open", "ready"}

\* A put that returned while the program runs has left nothing in the queue,
\* unless "waiting" cut it short; what is in the queue is of a put that waits, on
\* either thread.
PutHandsOver ==
  \/ EXIT \in WaitingResults
  \/ ~running
  \/ spc = "wc" \/ ipc = "cb_wc"
  \/ out = <<>>

\* The bytes the IO thread has still to write.
InHand == IF ipc = "write" THEN left ELSE Len(temp)

\* However often SendBuf retries, the line never takes more bytes than the
\* program queued, nor eats into the ones still waiting.
Accounting == Len(wire) + Len(out) + InHand <= Len(queued)

\* SendBuf puts no byte on the line twice.
WireNoRepeat == IsInjective(wire)

-----------------------------------------------------------------------------
(* The inductive invariant behind the safety properties. *)

Opening == {"none", "start", "open"}
Finishing == {"fin", "x_fd", "x_zero", "end", "stop", "gone"}

\* The two threads' places and the flags between them.
Lifecycle ==
  /\ spc = "new" => ipc = "none"
  /\ cancall => ipc \notin Opening \cup {"ready"}
  /\ spc \notin {"new", "ctor", "exited"} => cancall \/ port = "none"
  /\ ended <=> ipc \in {"stop", "gone"}
  /\ ipc \notin {"none", "start"} => (stopped <=> ipc = "gone")
  /\ spc \in {"d_pc", "d_thread", "d_join", "freed"} => ended
  /\ spc = "freed" => ipc = "gone"

\* Where the script thread can be with a Device that has no port.
Portless == {"idle", "wc", "expect", "read", "run", "d_close", "crashed"}

\* The port is opened once, by the IO thread, before any call; or there is none,
\* and no IO thread either.
PortOnce ==
  /\ ipc \in Opening => port \in {"unset", "none"}
  /\ ipc = "ready" \/ cancall => port # "unset"
  /\ port = "none" => ipc = "none" /\ spc \in Portless
  /\ spc = "crashed" => port = "none"

\* Input is in shot only between ::read and putIn.
Inbound ==
  /\ InboundOnce
  /\ ipc # "store" => shot = <<>>

\* While the port is open, or not open yet, what the line has not taken is in
\* temp and out, in this order; once the port is closed the line takes no more.
Outbound ==
  /\ WireIsPrefix
  /\ ipc \notin {"send", "write"} => temp = <<>>
  /\ ipc = "write" => left = Len(temp)
  /\ ipc \in Opening \/ (port = "open" /\ ipc \notin Finishing) =>
       queued = wire \o (temp \o out)

\* All of it is inductive if the faults "partial" and "busy" are left out.
IInv == TypeOK /\ Lifecycle /\ PortOnce /\ Inbound /\ Outbound

-----------------------------------------------------------------------------
(* Liveness. *)

\* The constructor returns, unless its thread is not created or ends because the
\* port does not open: then, and only then, it waits for ever.
ConstructorReturns == spc = "ctor" ~> (spc # "ctor" \/ [](ipc \in {"none", "gone"}))

\* A callback waits for what only its own thread could do: take its bytes from
\* the queue, or bring it input.
CallbackHangs == running /\ ipc \in {"cb_wc", "cb_ever"}

\* A put returns if the port stays open and no callback hangs: the IO thread
\* comes round to the queue.
PutEnds == spc = "wc" ~> (spc # "wc" \/ port # "open" \/ []CallbackHangs)

\* Every queued byte reaches the line, unless the port is closed first or a
\* callback hangs.
Delivered ==
  \A k \in 1..MaxQueued :
    Len(queued) >= k ~> (Len(wire) >= k \/ port # "open" \/ []CallbackHangs)

\* Deleting a Device that has a port ends: the IO thread notices, whatever it
\* was doing, and whatever its callback calls that can end.
DeleteEnds ==
  spc = "d_close" /\ port # "none" ~> (spc = "freed" \/ []CallbackHangs)

\* A callback that writes to the Device gets the control back.
CallbackWriteEnds == ipc = "cb_wc" ~> ipc # "cb_wc"

-----------------------------------------------------------------------------
(* The Device implements ByteChannel: a port that is being closed is broken. *)

Link == CASE port \in {"unset", "none"} -> "down"
          [] port = "open" -> "up"
          [] OTHER -> "broken"

Channel == INSTANCE ByteChannel
             WITH link <- Link, sent <- queued, carried <- wire,
                  arrived <- got, handed <- taken

\* Every behaviour of the two threads is one of the channel: bytes move only
\* while the link is up and in their order, and a broken link stays broken.
\* (Not under the faults "partial", "busy" and "stdin".)
ChannelSpec == Channel!Spec
=============================================================================
