------------------------------- MODULE SimSession -------------------------------
(***************************************************************************)
(* Sessions of the simulator, as a program that uses the torch.npu module  *)
(* sees them (Simulator/simulator.py, class TOGSimulator, and              *)
(* torch_openreg/openreg/__init__.py).                                     *)
(*                                                                         *)
(* torch.npu.launch_kernel puts a Python task on the default stream of the *)
(* device of the calling thread; the thread of that stream runs the task,  *)
(* which writes a line to a FIFO; the simulator process reads the lines.   *)
(* `with TOGSimulator(...)` makes the FIFO and the process and takes them  *)
(* down.  Streams are what OpenRegStream promises: queues served in order, *)
(* each by one thread.  The process is what main.cc does with its lines.   *)
(*                                                                         *)
(* Python threads switch where the interpreter may hand the lock of the    *)
(* interpreter over: before a call that blocks, and between calls.         *)
(***************************************************************************)
EXTENDS Naturals, Sequences, FiniteSets

CONSTANTS
  Thread,      \* the threads of the program
  Device,      \* orGetDeviceCount() of them, numbered from 0
  Session,     \* the TOGSimulator objects
  None,
  Programs,    \* a set of [Thread -> Seq(Statement)]
  PipeSize,    \* lines that fit into the FIFO
  MaxCrashes   \* bound on the crashes of simulator processes

Statement ==
  ({"enter", "exit"} \X Session) \cup ({"launch", "with"} \X Nat) \cup ({"device"} \X Device)
  \cup {<<"sync">>, <<"leave">>}

Command == [what : {"LAUNCH_KERNEL", "DEVICE_SYNC"}, by : Thread, nr : Nat, round : Nat,
            device : Device, on : Session, queue : Nat]

SessionAssumption ==
  /\ 0 \in Device /\ Device \subseteq Nat /\ IsFiniteSet(Device) /\ None \notin Device \cup Session \cup Command
  /\ PipeSize \in Nat \ {0} /\ MaxCrashes \in Nat
  /\ \A program \in Programs : program \in [Thread -> Seq(Statement)]
ASSUME SessionPrograms == SessionAssumption

\* One thread, o, has the with statements: each session is entered and left once, and a session that is
\* entered within another is left before it.
EnteredOnce(p) == \A i, j \in 1 .. Len(p) : i # j /\ p[i] = p[j] => p[i][1] \notin {"enter", "exit"}
LeftWithin(p) ==
  \A i, j \in 1 .. Len(p), s, t \in Session :
    /\ i < j /\ p[i] = <<"enter", t>> /\ p[j] = <<"exit", s>> /\ s # t
    /\ \A k \in 1 .. Len(p) : i < k /\ k < j => p[k] # <<"enter", s>>
    => \E k \in 1 .. Len(p) : i < k /\ k < j /\ p[k] = <<"exit", t>>
WithBlocks(program, o) ==
  /\ \A h \in Thread \ {o} : \A i \in 1 .. Len(program[h]) : program[h][i][1] \notin {"enter", "exit"}
  /\ EnteredOnce(program[o]) /\ LeftWithin(program[o])
NestedSessions == \A program \in Programs : \E o \in Thread : WithBlocks(program, o)

VARIABLES
  plan,       \* [Thread -> Seq of steps], what a thread still has to do
  current,    \* [Thread -> Device], the device of a thread (thread-local)
  context,    \* [Thread -> Seq(Nat)], launch contexts, the inner one first (thread-local)
  nr,         \* [Thread -> Nat], launches and synchronizations called so far
  round,      \* synchronizations called so far, by thread, device and session
  simulator,  \* _tog_simulator
  outer,      \* [Session -> Session or None], old_tog_simulator
  ender,      \* [Session -> the thread that ended it and its device, or None]
  queue,      \* [Device -> Seq(Command or mark)], tasks of the default streams
  hand,       \* [Device -> Command or None], what the thread of a stream is writing
  lock,       \* _trace_file_lock: [Session -> Device or None]
  handle,     \* _trace_file_handle: [Session -> {"none", "open", "closed"}]
  process,    \* [Session -> a state of the simulator process]
  pipe,       \* [Session -> Seq(Command)], the FIFO
  kernels,    \* [Session -> SUBSET Command], launched in the simulator and not finished
  finished,   \* the launches whose kernel is finished
  lost,       \* commands whose task raised an exception
  crashes

threadVars  == <<plan, current, context, nr, round>>
sessionVars == <<simulator, outer, ender, handle>>
streamVars  == <<queue, hand, lock>>
processVars == <<process, pipe, kernels, finished, crashes>>
vars == <<threadVars, sessionVars, streamVars, processVars, lost>>

Mark(h) == [what |-> "mark", by |-> h]

-------------------------------------------------------------------------------
Init ==
  /\ plan \in Programs
  /\ current = [h \in Thread |-> 0] /\ context = [h \in Thread |-> <<>>]
  /\ nr = [h \in Thread |-> 0] /\ round = [h \in Thread |-> [w \in Device \X Session |-> 0]]
  /\ simulator = None /\ outer = [s \in Session |-> None] /\ ender = [s \in Session |-> None]
  /\ queue = [d \in Device |-> <<>>] /\ hand = [d \in Device |-> None]
  /\ lock = [s \in Session |-> None] /\ handle = [s \in Session |-> "none"]
  /\ process = [s \in Session |-> "none"] /\ pipe = [s \in Session |-> <<>>]
  /\ kernels = [s \in Session |-> {}]
  /\ finished = {} /\ lost = {} /\ crashes = 0

(* The steps of a thread of the program *)
Does(h, what) == plan[h] # <<>> /\ Head(plan[h])[1] = what
Operand(h) == Head(plan[h])[2]
Continue(h) == plan' = [plan EXCEPT ![h] = Tail(@)]
Instead(h, steps) == plan' = [plan EXCEPT ![h] = steps \o Tail(@)]

\* torch.npu.set_device; torch.npu.launch_context and launch_model
SetDevice(h) ==
  /\ Does(h, "device") /\ Continue(h)
  /\ current' = [current EXCEPT ![h] = Operand(h)]
  /\ UNCHANGED <<context, nr, round, sessionVars, streamVars, processVars, lost>>
EnterContext(h) ==
  /\ Does(h, "with") /\ Continue(h)
  /\ context' = [context EXCEPT ![h] = <<Operand(h)>> \o @]
  /\ UNCHANGED <<current, nr, round, sessionVars, streamVars, processVars, lost>>
LeaveContext(h) ==
  /\ Does(h, "leave") /\ context[h] # <<>> /\ Continue(h)     \* the block was entered
  /\ context' = [context EXCEPT ![h] = Tail(@)]
  /\ UNCHANGED <<current, nr, round, sessionVars, streamVars, processVars, lost>>
StreamIndex(h) == IF context[h] = <<>> THEN 0 ELSE Head(context[h])

\* The constructor makes the FIFO and the process, and blocks until the process opens the FIFO.
Start(h) ==
  /\ Does(h, "enter") /\ process[Operand(h)] = "none"
  /\ process' = [process EXCEPT ![Operand(h)] = "starting"]
  /\ UNCHANGED <<threadVars, sessionVars, streamVars, pipe, kernels, finished, crashes, lost>>
Enter(h) ==
  /\ Does(h, "enter") /\ process[Operand(h)] = "reading" /\ handle[Operand(h)] = "none"
  /\ Continue(h)
  /\ handle' = [handle EXCEPT ![Operand(h)] = "open"]
  /\ outer' = [outer EXCEPT ![Operand(h)] = simulator] /\ simulator' = Operand(h)
  /\ UNCHANGED <<current, context, nr, round, ender, streamVars, processVars, lost>>

\* A task of the default stream of the thread's device
FaultyEnqueue(d, task) == queue' = [queue EXCEPT ![d] = <<task>> \o @]     \* in front
Enqueue(d, task) == queue' = [queue EXCEPT ![d] = Append(@, task)]
Call(h, what) == [what |-> what, by |-> h, nr |-> nr[h] + 1, round |-> round[h][<<current[h], simulator>>],
                  device |-> current[h], on |-> simulator,
                  queue |-> IF what = "LAUNCH_KERNEL" THEN StreamIndex(h) ELSE 0]
Count(h) == nr' = [nr EXCEPT ![h] = @ + 1]

Launch(h) ==
  /\ Does(h, "launch") /\ simulator # None /\ Continue(h) /\ Count(h)
  /\ Enqueue(current[h], Call(h, "LAUNCH_KERNEL"))
  /\ UNCHANGED <<current, context, round, sessionVars, hand, lock, processVars, lost>>
\* ... which raises an exception when there is no simulator: it ends the thread.
LaunchRaises(h) ==
  /\ Does(h, "launch") /\ simulator = None
  /\ plan' = [plan EXCEPT ![h] = <<>>]
  /\ UNCHANGED <<current, context, nr, round, sessionVars, streamVars, processVars, lost>>

\* torch.npu.synchronize: a task on the default stream, then orDeviceSynchronize, which waits for
\* one stream after the other.
FaultyRegistered(d) == {d}                       \* its own stream only
Registered(d) == IF d = 0 THEN Device ELSE {}    \* _lazy_init creates all streams on device 0
Drains(S) ==       \* in the order of their numbers
  [i \in 1 .. Cardinality(S) |-> <<"drain", CHOOSE d \in S : Cardinality({e \in S : e < d}) = i - 1>>]
Synchronize(h) ==
  /\ Does(h, "sync")
  /\ IF simulator = None THEN UNCHANGED <<nr, round, queue>>
     ELSE /\ Enqueue(current[h], Call(h, "DEVICE_SYNC")) /\ Count(h)
          /\ round' = [round EXCEPT ![h][<<current[h], simulator>>] = @ + 1]
  /\ Instead(h, Drains(Registered(current[h])) \o <<<<"back", nr'[h]>>>>)
  /\ UNCHANGED <<current, context, sessionVars, hand, lock, processVars, lost>>
Drain(h) ==
  /\ Does(h, "drain") /\ Enqueue(Operand(h), Mark(h)) /\ Instead(h, <<<<"await">>>>)
  /\ UNCHANGED <<current, context, nr, round, sessionVars, hand, lock, processVars, lost>>
Return(h) ==
  /\ Does(h, "back") /\ Continue(h)
  /\ UNCHANGED <<current, context, nr, round, sessionVars, streamVars, processVars, lost>>

\* __exit__: until, which synchronizes, closes the FIFO and waits for the process
Exit(h) ==
  /\ Does(h, "exit")
  /\ Instead(h, <<<<"sync">>, <<"close", Operand(h)>>, <<"wait", Operand(h)>>>>)
  /\ UNCHANGED <<current, context, nr, round, sessionVars, streamVars, processVars, lost>>
FaultyClose(h) ==     \* leaves the FIFO open
  /\ Does(h, "close") /\ lock[Operand(h)] = None /\ Continue(h)
  /\ UNCHANGED <<current, context, nr, round, sessionVars, streamVars, processVars, lost>>
Close(h) ==    \* waits for a write that has begun, not for the tasks behind it
  /\ Does(h, "close") /\ lock[Operand(h)] = None /\ Continue(h)
  /\ handle' = [handle EXCEPT ![Operand(h)] = "closed"]
  /\ ender' = [ender EXCEPT ![Operand(h)] = <<h, current[h]>>]
  /\ UNCHANGED <<current, context, nr, round, simulator, outer, streamVars, processVars, lost>>
WaitForProcess(h) ==
  /\ Does(h, "wait") /\ process[Operand(h)] = "exited" /\ Continue(h)
  /\ simulator' = outer[Operand(h)]
  /\ UNCHANGED <<current, context, nr, round, outer, ender, handle, streamVars, processVars, lost>>

(* The thread of the default stream of device d *)
Pop(d) == queue' = [queue EXCEPT ![d] = Tail(@)]
Waken(d) ==
  /\ hand[d] = None /\ queue[d] # <<>> /\ Head(queue[d]).what = "mark" /\ Pop(d)
  /\ Continue(Head(queue[d]).by)
  /\ UNCHANGED <<current, context, nr, round, sessionVars, hand, lock, processVars, lost>>
\* _send_command: an exception (the process is gone, the FIFO is closed) is printed by the stream
\* and goes no further.
Take(d) ==
  /\ hand[d] = None /\ queue[d] # <<>> /\ Head(queue[d]).what # "mark" /\ Pop(d)
  /\ LET c == Head(queue[d])
     IN IF process[c.on] = "exited" THEN lost' = lost \cup {c} /\ UNCHANGED hand
        ELSE hand' = [hand EXCEPT ![d] = c] /\ UNCHANGED lost
  /\ UNCHANGED <<threadVars, sessionVars, lock, processVars>>
Give(d) ==
  /\ hand[d] # None /\ lock[hand[d].on] = None
  /\ IF handle[hand[d].on] = "open"
     THEN lock' = [lock EXCEPT ![hand[d].on] = d] /\ UNCHANGED <<hand, lost>>
     ELSE hand' = [hand EXCEPT ![d] = None] /\ lost' = lost \cup {hand[d]} /\ UNCHANGED lock
  /\ UNCHANGED <<threadVars, sessionVars, queue, processVars>>
Write(d) ==
  /\ hand[d] # None /\ lock[hand[d].on] = d
  /\ LET c == hand[d]
     IN /\ \/ /\ process[c.on] # "exited" /\ Len(pipe[c.on]) < PipeSize
              /\ pipe' = [pipe EXCEPT ![c.on] = Append(@, c)] /\ UNCHANGED lost
           \/ /\ process[c.on] = "exited" /\ lost' = lost \cup {c} /\ UNCHANGED pipe
        /\ lock' = [lock EXCEPT ![c.on] = None]
  /\ hand' = [hand EXCEPT ![d] = None]
  /\ UNCHANGED <<threadVars, sessionVars, queue, process, kernels, finished, crashes>>

(* The simulator process: main.cc over the lines of the FIFO *)
Open(s) ==
  /\ process[s] = "starting" /\ process' = [process EXCEPT ![s] = "reading"]
  /\ UNCHANGED <<threadVars, sessionVars, streamVars, pipe, kernels, finished, crashes, lost>>
Read(s) ==
  /\ process[s] = "reading" /\ pipe[s] # <<>>
  /\ LET c == Head(pipe[s])
     IN IF c.what = "LAUNCH_KERNEL"
        THEN kernels' = [kernels EXCEPT ![s] = @ \cup {c}] /\ UNCHANGED process
        ELSE process' = [process EXCEPT ![s] = "simulating"] /\ UNCHANGED kernels
  /\ pipe' = [pipe EXCEPT ![s] = Tail(@)]
  /\ UNCHANGED <<threadVars, sessionVars, streamVars, finished, crashes, lost>>
EndOfFile(s) ==
  /\ process[s] = "reading" /\ pipe[s] = <<>> /\ handle[s] = "closed"
  /\ process' = [process EXCEPT ![s] = "ending"]
  /\ UNCHANGED <<threadVars, sessionVars, streamVars, pipe, kernels, finished, crashes, lost>>
Finish(s) ==   \* a kernel, in whatever order the cores finish them
  /\ process[s] \in {"simulating", "ending"}
  /\ \E c \in kernels[s] : /\ kernels' = [kernels EXCEPT ![s] = @ \ {c}]
                           /\ finished' = finished \cup {c}
  /\ UNCHANGED <<threadVars, sessionVars, streamVars, process, pipe, crashes, lost>>
Idle(s) ==     \* Simulator::cycle returns
  /\ process[s] \in {"simulating", "ending"} /\ kernels[s] = {}
  /\ process' = [process EXCEPT ![s] = IF @ = "ending" THEN "exited" ELSE "reading"]
  /\ UNCHANGED <<threadVars, sessionVars, streamVars, pipe, kernels, finished, crashes, lost>>
\* The process dies: with what it had launched, and with the lines of the FIFO.
Crash(s) ==
  /\ crashes < MaxCrashes /\ process[s] \notin {"none", "exited"} /\ crashes' = crashes + 1
  /\ process' = [process EXCEPT ![s] = "exited"]
  /\ pipe' = [pipe EXCEPT ![s] = <<>>] /\ kernels' = [kernels EXCEPT ![s] = {}]
  /\ UNCHANGED <<threadVars, sessionVars, streamVars, finished, lost>>

ThreadStep(h) ==
  \/ SetDevice(h) \/ EnterContext(h) \/ LeaveContext(h) \/ Start(h) \/ Enter(h)
  \/ Launch(h) \/ LaunchRaises(h) \/ Synchronize(h) \/ Drain(h) \/ Return(h)
  \/ Exit(h) \/ Close(h) \/ WaitForProcess(h)
StreamStep(d) == Waken(d) \/ Take(d) \/ Give(d) \/ Write(d)
ProcessStep(s) == Open(s) \/ Read(s) \/ EndOfFile(s) \/ Finish(s) \/ Idle(s)
Next ==
  \/ \E h \in Thread : ThreadStep(h)
  \/ \E d \in Device : StreamStep(d)
  \/ \E s \in Session : ProcessStep(s) \/ Crash(s)

\* Threads and processes are scheduled, and the lock of the FIFO is granted in the end.
Fairness ==
  /\ \A h \in Thread : WF_vars(ThreadStep(h)) /\ SF_vars(Close(h))
  /\ \A d \in Device : WF_vars(StreamStep(d)) /\ SF_vars(Give(d))
  /\ \A s \in Session : WF_vars(ProcessStep(s))
Spec == Init /\ [][Next]_vars /\ Fairness

-------------------------------------------------------------------------------
Pending == (UNION {{queue[d][i] : i \in DOMAIN queue[d]} : d \in Device})
           \cup {hand[d] : d \in {e \in Device : hand[e] # None}}
Launches(C) == {c \in C : c.what = "LAUNCH_KERNEL"}
\* One device is used through one default stream, by several threads at most.
Before(c, e) == c.by = e.by /\ c.device = e.device /\ c.nr < e.nr

TypeOK ==
  /\ \A h \in Thread : current[h] \in Device /\ nr[h] \in Nat
  /\ simulator \in Session \cup {None} /\ outer \in [Session -> Session \cup {None}]
  /\ lock \in [Session -> Device \cup {None}] /\ handle \in [Session -> {"none", "open", "closed"}]
  /\ process \in [Session -> {"none", "starting", "reading", "simulating", "ending", "exited"}]
  /\ \A s \in Session : Len(pipe[s]) <= PipeSize /\ kernels[s] \cap finished = {}

\* When synchronize returns on device 0, every earlier command of the thread, whatever device it was
\* launched on, has been written to the FIFO or has failed: none waits in a stream.
SyncFlushes ==
  \A h \in Thread : (Does(h, "back") /\ current[h] = 0) =>
    ~\E c \in Pending : c.what # "mark" /\ c.by = h /\ c.nr <= Operand(h)

\* A barrier on the timeline of the simulator: a kernel is launched only when the kernels its thread
\* launched in the same session and device before a synchronization there that precedes it have finished.
Barrier ==
  [][\A s \in Session : \A c \in kernels'[s] \ kernels[s] :
       \A e \in kernels[s] : Before(e, c) => e.round = c.round]_vars

\* A launch is lost only when the simulator died, when another thread ended the session under it, or
\* when the thread that ended the session was on a device whose synchronization waits for nothing.
LostForAReason ==
  crashes = 0 => \A c \in Launches(lost) : ender[c.on] # <<c.by, 0>>

\* Together, in states of the right type: what is launched reaches its simulator.
LaunchesArrive == TypeOK /\ SyncFlushes /\ LostForAReason

\* Every session ends, whatever crashes, except one whose simulator dies before it opens the FIFO: its
\* constructor waits for ever.
SessionsEnd ==
  <>(\A h \in Thread : \/ plan[h] = <<>>
                       \/ Does(h, "enter") /\ process[Operand(h)] = "exited")
===============================================================================
