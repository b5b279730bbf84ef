----------------------------- MODULE OpenRegStream -----------------------------
(***************************************************************************)
(* Streams and events of the simulated device                              *)
(* (PyTorchSimDevice/third_party/openreg/csrc/stream.cpp).  A stream is a  *)
(* queue of tasks with a worker thread, a mutex and a condition variable;  *)
(* an event is a flag with a mutex and a condition variable of its own.    *)
(*                                                                         *)
(* These are real threads.  A call of the API is a sequence of steps, each *)
(* of them atomic because it is one atomic access or one critical section; *)
(* threads interleave between steps.  std::condition_variable::wait looks  *)
(* at its predicate with the mutex held and gives the mutex up when it     *)
(* goes to sleep.  A worker holds the mutex of its stream in state "doze": *)
(* it has found nothing to do and is not asleep yet.  For the condition of *)
(* an event the two are one step here: its flag is raised under the mutex. *)
(* There is one device, and no timing.                                     *)
(***************************************************************************)
EXTENDS Naturals, Sequences, FiniteSets

CONSTANTS
  Stream, Event,
  Job,          \* the kernels and copies
  Host,         \* the threads that call the API
  None,
  Programs      \* a set of [Host -> Seq(Step)]

\* Each call of orStreamSynchronize has an event of its own, named by its thread.
AnyEvent == Event \cup Host

Task == ({"run"} \X Job) \cup ({"record", "wait"} \X AnyEvent)
Step ==
  ({"push"} \X Stream \X Task) \cup ({"clear", "await"} \X AnyEvent)
  \cup ({"create", "notify", "unregister", "stop", "join"} \X Stream)
  \cup {<<"collect">>} \cup ({"each"} \X Seq(Stream))

\* Programs are made of the calls below.  Only addTaskToStream and orLaunchKernel push a task,
\* and both notify the worker before they return; new gives a stream that was not there; the
\* loop of orDeviceSynchronize begins with the copy it makes itself.
NotifiesEveryTask(program) ==
  \A h \in Host : \A n \in 1..Len(program[h]) :
    program[h][n][1] = "push" =>
      n + 1 \in 1..Len(program[h]) /\ program[h][n + 1] = <<"notify", program[h][n][2]>>
CreatesOnce(program) ==
  \A h, k \in Host : \A m \in 1..Len(program[h]), n \in 1..Len(program[k]) :
    program[h][m][1] = "create" /\ program[k][n] = program[h][m] => h = k /\ m = n

ProgramAssumption ==
  /\ IsFiniteSet(Stream) /\ Event \cap Host = {} /\ None \notin Task
  /\ \A program \in Programs :
       /\ program \in [Host -> Seq(Step)]
       /\ \A h \in Host : \A n \in 1..Len(program[h]) : program[h][n][1] # "each"
       /\ NotifiesEveryTask(program) /\ CreatesOnce(program)
ASSUME StreamPrograms == ProgramAssumption

VARIABLES
  plan,       \* [Host -> Seq(Step)], what a thread still has to do
  sleeping,   \* threads asleep in orEventSynchronize
  registry,   \* g_streams_per_device, for the one device
  worker,     \* [Stream -> WorkerState]
  task,       \* [Stream -> Task or None], what the worker has taken off the queue
  tasks,      \* [Stream -> Seq(Task)]
  stop,       \* [Stream -> BOOLEAN], stop_flag
  completed,  \* [AnyEvent -> BOOLEAN]
  ran,        \* the jobs that have been run
  before,     \* history: [Stream -> SUBSET Job], what the next task of a stream comes after
  covers,     \* history: [AnyEvent -> SUBSET Job], what the latest record comes after
  needs,      \* history: [Job -> SUBSET Job], what a job comes after
  known       \* history: [Host -> SUBSET Job], what a thread has synchronized with

hostVars    == <<plan, sleeping>>
threadVars  == <<worker, task>>
queueVars   == <<tasks, stop>>
historyVars == <<before, covers, needs, known>>
vars == <<hostVars, registry, threadVars, queueVars, completed, ran, historyVars>>

WorkerState == {"none", "test", "doze", "asleep", "busy", "blocked", "tell", "exited", "gone"}

-------------------------------------------------------------------------------
(* The calls of the API *)

\* openreg::addTaskToStream and orLaunchKernel
AddTask(s, t) == <<<<"push", s, t>>, <<"notify", s>>>>
Launch(s, j) == AddTask(s, <<"run", j>>)

EventRecord(e, s) == <<<<"clear", e>>>> \o AddTask(s, <<"record", e>>)
EventSynchronize(e) == <<<<"await", e>>>>
StreamWaitEvent(s, e) == AddTask(s, <<"wait", e>>)

StreamSynchronize(h, s) == EventRecord(h, s) \o EventSynchronize(h)
DeviceSynchronize == <<<<"collect">>>>

StreamCreate(s) == <<<<"create", s>>>>
\* orStreamDestroy and the destructor of orStream
StreamDestroy(s) == <<<<"unregister", s>>, <<"stop", s>>, <<"notify", s>>, <<"join", s>>>>

\* A stream that no thread creates is there from the beginning.
Given(program) ==
  {s \in Stream : \A h \in Host : \A n \in 1..Len(program[h]) : program[h][n] # <<"create", s>>}

Init ==
  /\ plan \in Programs /\ sleeping = {} /\ registry = Given(plan)
  /\ worker = [s \in Stream |-> IF s \in registry THEN "test" ELSE "none"]
  /\ task = [s \in Stream |-> None]
  /\ tasks = [s \in Stream |-> <<>>] /\ stop = [s \in Stream |-> FALSE]
  /\ completed = [e \in AnyEvent |-> TRUE]
  /\ ran = {}
  /\ before = [s \in Stream |-> {}] /\ covers = [e \in AnyEvent |-> {}]
  /\ needs = [j \in Job |-> {}] /\ known = [h \in Host |-> {}]

-------------------------------------------------------------------------------
(* The steps of a thread that calls the API *)
Next1(h) == Head(plan[h])
Does(h, what) == plan[h] # <<>> /\ h \notin sleeping /\ Next1(h)[1] = what
On(h) == Next1(h)[2]
Live(s) == worker[s] \notin {"none", "gone"}
Continue(h) == plan' = [plan EXCEPT ![h] = Tail(@)]

Create(h) ==
  /\ Does(h, "create") /\ Continue(h)
  /\ worker' = [worker EXCEPT ![On(h)] = "test"]
  /\ registry' = registry \cup {On(h)}
  /\ UNCHANGED <<sleeping, task, queueVars, completed, ran, historyVars>>

\* The mutex of the stream is free.
FaultyFree(s) == Live(s)
Free(s) == Live(s) /\ worker[s] # "doze"

\* What is recorded of the order the calls ask for
Note(s, t) ==
  /\ before' = [before EXCEPT ![s] = @ \cup (CASE t[1] = "run" -> {t[2]}
                                               [] t[1] = "wait" -> covers[t[2]]
                                               [] t[1] = "record" -> {})]
  /\ covers' = IF t[1] = "record" THEN [covers EXCEPT ![t[2]] = before[s]] ELSE covers
  /\ needs' = IF t[1] = "run" THEN [needs EXCEPT ![t[2]] = before[s]] ELSE needs
  /\ UNCHANGED known

Push(h) ==
  /\ Does(h, "push") /\ Free(On(h)) /\ Continue(h)
  /\ tasks' = [tasks EXCEPT ![On(h)] = Append(@, Next1(h)[3])]
  /\ Note(On(h), Next1(h)[3])
  /\ UNCHANGED <<sleeping, registry, threadVars, stop, completed, ran>>

\* notify_one; who is not asleep yet does not hear it.
Notify(h) ==
  /\ Does(h, "notify") /\ Live(On(h)) /\ Continue(h)
  /\ worker' = [worker EXCEPT ![On(h)] = IF @ = "asleep" THEN "test" ELSE @]
  /\ UNCHANGED <<sleeping, registry, task, queueVars, completed, ran, historyVars>>

\* completed.store(false)
Clear(h) ==
  /\ Does(h, "clear") /\ Continue(h)
  /\ completed' = [completed EXCEPT ![On(h)] = FALSE]
  /\ UNCHANGED <<sleeping, registry, threadVars, queueVars, ran, historyVars>>

Await(h) ==
  /\ Does(h, "await")
  /\ IF completed[On(h)]
     THEN /\ Continue(h) /\ UNCHANGED sleeping
          /\ known' = [known EXCEPT ![h] = @ \cup covers[On(h)]]
     ELSE sleeping' = sleeping \cup {h} /\ UNCHANGED <<plan, known>>
  /\ UNCHANGED <<registry, threadVars, queueVars, completed, ran, before, covers, needs>>

\* orDeviceSynchronize copies the set of streams, ordered by address, and gives up the mutex.
Orders(S) == {q \in [1..Cardinality(S) -> S] : \A m, n \in DOMAIN q : m # n => q[m] # q[n]}
Collect(h) ==
  /\ Does(h, "collect")
  /\ \E order \in Orders(registry) : plan' = [plan EXCEPT ![h] = <<<<"each", order>>>> \o Tail(@)]
  /\ UNCHANGED <<sleeping, registry, threadVars, queueVars, completed, ran, historyVars>>

Each(h) ==
  /\ Does(h, "each")
  /\ plan' = [plan EXCEPT ![h] =
       IF On(h) = <<>> THEN Tail(@)
       ELSE StreamSynchronize(h, Head(On(h))) \o <<<<"each", Tail(On(h))>>>> \o Tail(@)]
  /\ UNCHANGED <<sleeping, registry, threadVars, queueVars, completed, ran, historyVars>>

FaultyWithout(s) == registry
Without(s) == registry \ {s}
Unregister(h) ==
  /\ Does(h, "unregister") /\ Continue(h)
  /\ registry' = Without(On(h))
  /\ UNCHANGED <<sleeping, threadVars, queueVars, completed, ran, historyVars>>

\* stop_flag.store(true), without the mutex
RaiseStop(h) ==
  /\ Does(h, "stop") /\ Live(On(h)) /\ Continue(h)
  /\ stop' = [stop EXCEPT ![On(h)] = TRUE]
  /\ UNCHANGED <<sleeping, registry, threadVars, tasks, completed, ran, historyVars>>

\* worker.join, and the stream is deleted
Join(h) ==
  /\ Does(h, "join") /\ worker[On(h)] = "exited" /\ Continue(h)
  /\ worker' = [worker EXCEPT ![On(h)] = "gone"]
  /\ known' = [known EXCEPT ![h] = @ \cup before[On(h)]]
  /\ UNCHANGED <<sleeping, registry, task, queueVars, completed, ran, before, covers, needs>>

-------------------------------------------------------------------------------
(* The worker of a stream *)
Turn(s, from, to) == worker[s] = from /\ worker' = [worker EXCEPT ![s] = to]

FaultyMayLeave(s) == stop[s]
MayLeave(s) == stop[s] /\ tasks[s] = <<>>

Take(s) ==
  /\ Turn(s, "test", "busy") /\ tasks[s] # <<>> /\ ~MayLeave(s)
  /\ task' = [task EXCEPT ![s] = Head(tasks[s])]
  /\ tasks' = [tasks EXCEPT ![s] = Tail(@)]
  /\ UNCHANGED <<hostVars, registry, stop, completed, ran, historyVars>>

Leave(s) ==
  /\ Turn(s, "test", "exited") /\ MayLeave(s)
  /\ UNCHANGED <<hostVars, registry, task, queueVars, completed, ran, historyVars>>

Doze(s) ==
  /\ Turn(s, "test", "doze") /\ tasks[s] = <<>> /\ ~stop[s]
  /\ UNCHANGED <<hostVars, registry, task, queueVars, completed, ran, historyVars>>

Sleep(s) ==
  /\ Turn(s, "doze", "asleep")
  /\ UNCHANGED <<hostVars, registry, task, queueVars, completed, ran, historyVars>>

Has(s, kind) == task[s] # None /\ task[s][1] = kind
Drop(s) == task' = [task EXCEPT ![s] = None]

RunJob(s) ==
  /\ Turn(s, "busy", "test") /\ Has(s, "run") /\ Drop(s)
  /\ ran' = ran \cup {task[s][2]}
  /\ UNCHANGED <<hostVars, registry, queueVars, completed, historyVars>>

\* The task of orEventRecord: completed.store(true) under the mutex, then notify_all
Signal(s) ==
  /\ Turn(s, "busy", "tell") /\ Has(s, "record")
  /\ completed' = [completed EXCEPT ![task[s][2]] = TRUE]
  /\ UNCHANGED <<hostVars, registry, task, queueVars, ran, historyVars>>

FaultyHears(r, e) == FALSE
Hears(r, e) == worker[r] = "blocked" /\ task[r][2] = e
Tell(s) ==
  /\ worker[s] = "tell" /\ Drop(s)
  /\ worker' = [r \in Stream |-> IF r = s THEN "test" ELSE IF Hears(r, task[s][2]) THEN "busy"
                                                         ELSE worker[r]]
  /\ sleeping' = {h \in sleeping : On(h) # task[s][2]}
  /\ UNCHANGED <<plan, registry, queueVars, completed, ran, historyVars>>

\* The task of orStreamWaitEvent
FaultyPassWait(s) ==
  /\ Turn(s, "busy", "test") /\ Has(s, "wait") /\ Drop(s)
  /\ UNCHANGED <<hostVars, registry, queueVars, completed, ran, historyVars>>
PassWait(s) ==
  /\ Turn(s, "busy", "test") /\ Has(s, "wait") /\ completed[task[s][2]] /\ Drop(s)
  /\ UNCHANGED <<hostVars, registry, queueVars, completed, ran, historyVars>>
Block(s) ==
  /\ Turn(s, "busy", "blocked") /\ Has(s, "wait") /\ ~completed[task[s][2]]
  /\ UNCHANGED <<hostVars, registry, task, queueVars, completed, ran, historyVars>>

\* A condition variable may wake a thread without a notification.
Spurious ==
  /\ \/ \E s \in Stream : Turn(s, "asleep", "test") /\ UNCHANGED sleeping
     \/ \E s \in Stream : Turn(s, "blocked", "busy") /\ UNCHANGED sleeping
     \/ \E h \in sleeping : sleeping' = sleeping \ {h} /\ UNCHANGED worker
  /\ UNCHANGED <<plan, registry, task, queueVars, completed, ran, historyVars>>

-------------------------------------------------------------------------------
Call(h) == \/ Create(h) \/ Push(h) \/ Notify(h) \/ Clear(h) \/ Await(h) \/ Collect(h) \/ Each(h)
           \/ Unregister(h) \/ RaiseStop(h) \/ Join(h)
Work(s) == \/ Take(s) \/ Leave(s) \/ Doze(s) \/ Sleep(s) \/ RunJob(s) \/ Signal(s) \/ Tell(s)
           \/ PassWait(s) \/ Block(s)
Finished == (\A h \in Host : plan[h] = <<>>) /\ UNCHANGED vars
Next == (\E h \in Host : Call(h)) \/ (\E s \in Stream : Work(s)) \/ Spurious \/ Finished

Spec == Init /\ [][Next]_vars

(* The operating system runs every thread that can run; a thread that asks for a mutex *)
(* that is free again and again gets it in the end.                                    *)
FairSpec == Spec /\ (\A h \in Host : SF_vars(Call(h))) /\ (\A s \in Stream : WF_vars(Work(s)))

-------------------------------------------------------------------------------
(* What callers have to observe.  The code relies on it and cannot enforce it; the theorems *)
(* say which property needs which of these.                                                *)

\* The steps that make, use and end a stream
Manages(st, s) == st[1] \in {"create", "unregister", "stop", "join"} /\ st[2] = s
Uses(st, s) == \/ Manages(st, s)
               \/ st[1] \in {"push", "notify"} /\ st[2] = s
               \/ st[1] = "each" /\ \E n \in DOMAIN st[2] : st[2][n] = s

\* A stream that is created or destroyed belongs to the thread that does it, from its creation
\* to its destruction, which are whole; no other thread synchronizes the device while a stream
\* is to be destroyed.
OwnsStreams(program) ==
  \A s \in Stream, h, k \in Host : \A m \in 1..Len(program[h]), n \in 1..Len(program[k]) :
    /\ Manages(program[h][m], s) /\ Uses(program[k][n], s) => h = k
    /\ Manages(program[h][m], s) /\ program[h][m][1] # "create" /\ program[k][n][1] = "collect"
         => h = k
EndsStreams(p) ==
  \A s \in Stream : \A m, n \in 1..Len(p) : m < n =>
    /\ Uses(p[m], s) => p[n] # <<"create", s>>
    /\ p[m] = <<"stop", s>> /\ Uses(p[n], s) => p[n][1] \in {"notify", "join"}
    /\ p[m] = <<"join", s>> => ~Uses(p[n], s)
Unregisters(p) ==
  \A s \in Stream : \A m \in 1..Len(p) :
    p[m] = <<"stop", s>> => \E i \in 1..m - 1 : p[i] = <<"unregister", s>>
StreamDiscipline ==
  \A program \in Programs :
    OwnsStreams(program) /\ \A h \in Host : EndsStreams(program[h]) /\ Unregisters(program[h])

\* An event is recorded by one thread, and again only when that thread has synchronized with
\* its latest record: an event has one flag and no versions.
RecordOf(e) == <<"record", e>>
Records(st, e) == \/ st = <<"clear", e>>
                  \/ st[1] = "push" /\ st[3] = RecordOf(e)
Opens(st, h, e) == \/ st = <<"clear", e>>
                   \/ e = h /\ st[1] \in {"collect", "each"}
OwnsEvents(program) ==
  \A e \in AnyEvent, h, k \in Host : \A m \in 1..Len(program[h]), n \in 1..Len(program[k]) :
    /\ Records(program[h][m], e) /\ Records(program[k][n], e) => h = k
    /\ Records(program[h][m], e) /\ e \in Host => e = h
ClearsFirst(p) ==
  \A e \in AnyEvent : \A m \in 1..Len(p) :
    p[m][1] = "push" /\ p[m][3] = RecordOf(e) => m - 1 \in 1..Len(p) /\ p[m - 1] = <<"clear", e>>
AwaitsBetween(p, h) ==
  \A e \in AnyEvent : \A m, n \in 1..Len(p) :
    m < n /\ p[m] = <<"clear", e>> /\ Opens(p[n], h, e) =>
      \E i \in m + 1..n - 1 : p[i] = <<"await", e>>
EventDiscipline ==
  \A program \in Programs :
    OwnsEvents(program) /\ \A h \in Host : ClearsFirst(program[h]) /\ AwaitsBetween(program[h], h)

\* A job is one launch.
RunOf(j) == <<"run", j>>
Launches(st, j) == st[1] = "push" /\ st[3] = RunOf(j)
LaunchesOnce(program) ==
  \A j \in Job, h, k \in Host : \A m \in 1..Len(program[h]), n \in 1..Len(program[k]) :
    Launches(program[h][m], j) /\ Launches(program[k][n], j) => h = k /\ m = n
LaunchDiscipline == \A program \in Programs : LaunchesOnce(program)

-------------------------------------------------------------------------------
(* Properties *)

TypeOK ==
  /\ plan \in [Host -> Seq(Step)] /\ sleeping \subseteq Host /\ registry \subseteq Stream
  /\ worker \in [Stream -> WorkerState] /\ task \in [Stream -> Task \cup {None}]
  /\ \A s \in Stream : worker[s] \in {"busy", "blocked", "tell"} <=> task[s] # None
  /\ tasks \in [Stream -> Seq(Task)] /\ stop \in [Stream -> BOOLEAN]
  /\ completed \in [AnyEvent -> BOOLEAN] /\ ran \subseteq Job
  /\ before \in [Stream -> SUBSET Job] /\ covers \in [AnyEvent -> SUBSET Job]
  /\ needs \in [Job -> SUBSET Job] /\ known \in [Host -> SUBSET Job]

\* "When the stream reaches this command it will stop processing additional commands until
\* that version of the event is marked as recorded": a job starts after the jobs in front of it
\* in its stream and, through events recorded and waited for, in other streams.
Started == ran \cup {task[s][2] : s \in {r \in Stream : Has(r, "run")}}
HappensBefore == \A j \in Started : needs[j] \subseteq ran

\* When a synchronizing call returns, for a stream, an event or the device, or the destruction
\* of a stream, the jobs it waits for have run: a stopped worker leaves no task behind.
SyncMeansDone == \A h \in Host : known[h] \subseteq ran

\* Nobody sleeps through what it waits for: while a worker is asleep with a task in its queue,
\* or a thread or a worker waits for an event that has happened, the call that wakes it is
\* still to come.
NoLostWakeup ==
  /\ \A s \in Stream : worker[s] = "asleep" /\ tasks[s] # <<>> =>
       \E h \in Host : Does(h, "notify") /\ On(h) = s
  /\ \A e \in AnyEvent :
       completed[e] /\ (\/ \E h \in sleeping : On(h) = e
                        \/ \E s \in Stream : worker[s] = "blocked" /\ task[s][2] = e)
       => \E s \in Stream : worker[s] = "tell" /\ task[s] = <<"record", e>>

\* No call touches a stream that has been deleted; orDeviceSynchronize goes by a copy of
\* the registry, from which orStreamDestroy removes a stream before it deletes it.  This is a
\* promise to callers that do not destroy a stream while another thread synchronizes the device:
\* the copy may hold a stream that is deleted before its turn comes.
Touches(h, s) == plan[h] # <<>> /\ Next1(h)[1] \in {"push", "notify", "stop", "join"} /\ On(h) = s
NoDangling == \A h \in Host, s \in Stream : Touches(h, s) => Live(s)

\* Together with the types: a stream that anybody still uses is there and in order.
StreamsWhole == TypeOK /\ NoDangling

\* Every thread gets to the end of its calls or to the join of a destructor.
Joining(h) == plan[h] # <<>> /\ Next1(h)[1] = "join"
CallsReturn == \A h \in Host : <>(plan[h] = <<>> \/ Joining(h))

\* orStreamDestroy: "Destroy a stream".
DestroyReturns == \A h \in Host : Joining(h) ~> ~Joining(h)

===============================================================================
