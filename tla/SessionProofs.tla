----------------------------- MODULE SessionProofs -----------------------------
(***************************************************************************)
(* Proofs about module SimSession, for all threads, devices, sessions and  *)
(* programs.  That a launch reaches its simulator is proved of programs    *)
(* that enter and leave sessions as the with statements of one thread do.  *)
(***************************************************************************)
EXTENDS SimSession, QueueLemmas

-------------------------------------------------------------------------------
(* Types *)
Task == Command \cup [what : {"mark"}, by : Thread]
Step ==
  Statement \cup ({"drain"} \X Device) \cup {<<"await">>} \cup ({"back"} \X Nat)
  \cup ({"close", "wait"} \X Session)

TypedThreads ==
  /\ plan \in [Thread -> Seq(Step)] /\ current \in [Thread -> Device]
  /\ context \in [Thread -> Seq(Nat)] /\ nr \in [Thread -> Nat]
  /\ round \in [Thread -> [Device \X Session -> Nat]]
TypedSessions ==
  /\ simulator \in Session \cup {None} /\ outer \in [Session -> Session \cup {None}]
  /\ ender \in [Session -> (Thread \X Device) \cup {None}]
  /\ lock \in [Session -> Device \cup {None}] /\ handle \in [Session -> {"none", "open", "closed"}]
TypedStreams == queue \in [Device -> Seq(Task)] /\ hand \in [Device -> Command \cup {None}]
TypedProcesses ==
  /\ process \in [Session -> {"none", "starting", "reading", "simulating", "ending", "exited"}]
  /\ pipe \in [Session -> Seq(Command)] /\ kernels \in [Session -> SUBSET Command]
  /\ finished \subseteq Command /\ lost \subseteq Command /\ crashes \in Nat
  /\ \A s \in Session : Len(pipe[s]) <= PipeSize
Typed == TypedThreads /\ TypedSessions /\ TypedStreams /\ TypedProcesses

-------------------------------------------------------------------------------
(* The commands under way *)
Commands(q) == {x \in Elems(q) : x.what # "mark"}
Queued == UNION {Commands(queue[d]) : d \in Device}
Held == {hand[d] : d \in {e \in Device : hand[e] # None}}
Piped == UNION {Elems(pipe[s]) : s \in Session}
Running == UNION {kernels[s] : s \in Session}
Waiting == Queued \cup Held \cup Piped

\* Where a command is tells its device or its session, and it has a number its thread has used.
Placed ==
  /\ \A d \in Device : /\ \A x \in Commands(queue[d]) : x.device = d
                       /\ hand[d] # None => hand[d].device = d
  /\ \A s \in Session : \A x \in Elems(pipe[s]) \cup kernels[s] : x.on = s
  /\ \A x \in Waiting \cup Running \cup finished : x.nr <= nr[x.by]

\* The commands of a thread for a device and a session keep their order on their way.
Earlier(c, e) == c.by = e.by /\ c.device = e.device /\ c.on = e.on => c.nr < e.nr
Ordered(q) ==
  \A m, n \in 1 .. Len(q) : m < n /\ q[m].what # "mark" /\ q[n].what # "mark" => Earlier(q[m], q[n])
InOrder ==
  /\ \A d \in Device : Ordered(queue[d])
  /\ \A s \in Session : Ordered(pipe[s])
  /\ \A c \in Held, e \in Queued : Earlier(c, e)
  /\ \A c \in Piped, e \in Held \cup Queued : Earlier(c, e)
  /\ \A c \in Running \cup finished, e \in Waiting : Earlier(c, e)
  /\ Running \cap finished = {}

-------------------------------------------------------------------------------
(* Synchronization *)

\* The steps of a synchronization that wait come first, then the one that returns; a session is
\* closed when the synchronization before it is over, and its process awaited next.
Shape(p) ==
  /\ \A i, j \in 1 .. Len(p) : i < j /\ p[j][1] \in {"drain", "await", "back"} => p[i][1] \in {"drain", "await"}
  /\ \A j \in 1 .. Len(p) : p[j][1] = "await" => j = 1
  /\ \A i \in 1 .. Len(p) : p[i][1] = "close" =>
       /\ i > 1 => p[i - 1][1] \in {"back", "sync"}
       /\ i < Len(p) /\ p[i + 1] = <<"wait", p[i][2]>>

Of(x, h) == x.what # "mark" /\ x.by = h
NoneOf(h, d) == (\A x \in Elems(queue[d]) : ~Of(x, h)) /\ (hand[d] # None => hand[d].by # h)
\* All that h has put into a queue is in front of its mark.
Behind(q, h) == \E m \in 1 .. Len(q) : q[m] = Mark(h) /\ \A n \in 1 .. Len(q) : n > m => ~Of(q[n], h)
MarkOnce(q, h) == \A m, n \in 1 .. Len(q) : q[m] = Mark(h) /\ q[n] = Mark(h) => m = n
Draining(h) == plan[h] # <<>> /\ plan[h][1][1] \in {"drain", "await", "back"}
Drained(h, d) ==
  (\E i \in 1 .. Len(plan[h]) : plan[h][i] = <<"drain", d>>) \/ Behind(queue[d], h) \/ NoneOf(h, d)

Flush(h) ==
  /\ Shape(plan[h])
  /\ \A d \in Device : MarkOnce(queue[d], h) /\ (Mark(h) \in Elems(queue[d]) => Does(h, "await"))
  /\ \A d, e \in Device : Mark(h) \in Elems(queue[d]) /\ Mark(h) \in Elems(queue[e]) => d = e
  /\ Draining(h) /\ current[h] = 0 => \A d \in Device : Drained(h, d)
  /\ Does(h, "close") /\ current[h] = 0 => \A d \in Device : NoneOf(h, d)
Flushing == \A h \in Thread : Flush(h)

-------------------------------------------------------------------------------
(* Sessions *)

\* What is launched is launched on a session that has been entered, and is written to an open FIFO.
Entered ==
  /\ simulator # None => handle[simulator] # "none"
  /\ \A s \in Session : outer[s] # None => handle[outer[s]] # "none"
  /\ \A c \in Held \cup Queued : handle[c.on] # "none"
  /\ \A s \in Session : lock[s] # None => handle[s] = "open"
  /\ crashes = 0 => /\ \A s \in Session : process[s] \in {"ending", "exited"} => handle[s] = "closed"
                    /\ \A c \in lost : handle[c.on] = "closed"

Ends(s) == {<<"exit", s>>, <<"close", s>>, <<"wait", s>>}
EndsFirst(p, t, s) ==
  \A j \in 1 .. Len(p) : p[j] \in Ends(s) => \E i \in 1 .. Len(p) : i < j /\ p[i] \in Ends(t)
Once(p) ==
  \A i, j \in 1 .. Len(p) : i < j =>
    /\ p[i][1] = "enter" => p[i] # p[j]
    /\ ~(p[i][1] \in {"exit", "close"} /\ p[j][1] \in {"exit", "close"} /\ p[i][2] = p[j][2])
Nested(p) ==
  \A i, j \in 1 .. Len(p), s, t \in Session :
    /\ i < j /\ p[i] = <<"enter", t>> /\ p[j] \in Ends(s) /\ s # t
    /\ \A k \in 1 .. Len(p) : i < k /\ k < j => p[k] # <<"enter", s>>
    => \E k \in 1 .. Len(p) : i < k /\ k < j /\ p[k] \in Ends(t)

Paired(p) == \A i \in 1 .. Len(p) : i > 1 /\ p[i][1] = "wait" => p[i - 1] = <<"close", p[i][2]>>
Blocks(p) == Once(p) /\ Nested(p) /\ Paired(p)
Brackets == {"enter", "exit", "close", "wait"}

\* One thread has the with statements; what it has left of them fits the sessions.
Bracketed(o) ==
  /\ \A h \in Thread \ {o} : \A x \in Elems(plan[h]) : x[1] \notin Brackets
  /\ Blocks(plan[o])
  /\ \A s \in Session :
       /\ handle[s] = "none" => outer[s] = None
       /\ handle[s] = "open" => <<"enter", s>> \notin Elems(plan[o])
       /\ handle[s] = "closed" =>
            ender[s][1] = o /\ <<"exit", s>> \notin Elems(plan[o]) /\ <<"close", s>> \notin Elems(plan[o])
  /\ Does(o, "wait") => handle[Operand(o)] = "closed"

\* The sessions that are entered are in a chain, the current one first, and end in its order.
Live(o, s) == handle[s] = "open" \/ (handle[s] = "closed" /\ Does(o, "wait") /\ Operand(o) = s)
Chained(o) ==
  /\ simulator # None => Live(o, simulator)
  /\ \A t \in Session : Live(o, t) /\ outer[t] # None =>
       outer[t] # t /\ Live(o, outer[t]) /\ EndsFirst(plan[o], t, outer[t])

\* A launch is too late only for a session that its thread did not flush before it closed it.
TooLate(c) == handle[c.on] = "closed" => ender[c.on] # <<c.by, 0>>
Reasoned ==
  /\ \A c \in Held \cup Queued : TooLate(c)
  /\ crashes = 0 => \A c \in lost : ender[c.on] # <<c.by, 0>>
Owned(o) == Bracketed(o) /\ Chained(o) /\ Reasoned

-------------------------------------------------------------------------------
(* Barriers *)
Between(e, x) == x.what = "DEVICE_SYNC" /\ Before(e, x) /\ x.on = e.on
Broken(s) == handle[s] = "closed" \/ process[s] = "exited"
Simulated(e) == e \in kernels[e.on] /\ process[e.on] = "simulating"

\* Only launches run; between two launches of different rounds there is a synchronization that the
\* process has not read, unless it is at work on it, or the later one can no longer be written.
Separated ==
  /\ \A e \in Running : e.what = "LAUNCH_KERNEL"
  /\ \A e \in Launches(Running \cup Waiting), c \in Launches(Waiting) :
       Before(e, c) /\ e.on = c.on /\ e.round # c.round =>
         \/ \E x \in Waiting : Between(e, x) /\ x.nr < c.nr
         \/ Simulated(e)
         \/ c \notin Piped /\ Broken(c.on)
  /\ \A e \in Launches(Running \cup Waiting) : e.round # round[e.by][<<e.device, e.on>>] =>
         \/ \E x \in Waiting : Between(e, x)
         \/ Simulated(e)
         \/ Broken(e.on)

-------------------------------------------------------------------------------
(* Queues of commands and marks *)

\* An entry at the end, and the first one gone: the commands that are left
LEMMA CommandsMove ==
  ASSUME NEW S, NEW q \in Seq(S), NEW e \in S
  PROVE  /\ e.what = "mark" => Commands(Append(q, e)) = Commands(q)
         /\ e.what # "mark" => Commands(Append(q, e)) = Commands(q) \cup {e}
         /\ q # <<>> /\ q[1].what = "mark" => Commands(Tail(q)) = Commands(q)
         /\ q # <<>> /\ q[1].what # "mark" => Commands(q) = Commands(Tail(q)) \cup {q[1]}
<1>1. Elems(Append(q, e)) = Elems(q) \cup {e}
  BY ElemsAppend
<1>2. q # <<>> => Elems(q) = Elems(Tail(q)) \cup {q[1]}
  BY ElemsTail
<1>3. QED
  BY <1>1, <1>2 DEF Commands

\* A command that comes after all others keeps the order, ...
LEMMA OrderedAppend ==
  ASSUME NEW S, NEW q \in Seq(S), NEW e \in S, Ordered(q),
         e.what # "mark" => \A x \in Commands(q) : Earlier(x, e)
  PROVE  Ordered(Append(q, e))
<1>1. /\ Len(q) \in Nat /\ Len(Append(q, e)) = Len(q) + 1
      /\ \A i \in 1..Len(q) : Append(q, e)[i] = q[i]
      /\ Append(q, e)[Len(q) + 1] = e
  BY AppendProperties, LenProperties
<1>2. SUFFICES ASSUME NEW m \in 1 .. Len(q) + 1, NEW n \in 1 .. Len(q) + 1, m < n,
                      Append(q, e)[m].what # "mark", Append(q, e)[n].what # "mark"
               PROVE  Earlier(Append(q, e)[m], Append(q, e)[n])
  BY <1>1 DEF Ordered
<1>3. m \in 1 .. Len(q) /\ Append(q, e)[m] = q[m]
  BY <1>1, <1>2
<1>4. CASE n = Len(q) + 1
  <2>1. Append(q, e)[n] = e /\ e.what # "mark" /\ q[m] \in Commands(q)
    BY <1>1, <1>2, <1>3, <1>4 DEF Commands, Elems
  <2>2. QED
    BY <1>3, <2>1
<1>5. CASE n # Len(q) + 1
  <2>1. n \in 1 .. Len(q) /\ Append(q, e)[n] = q[n]
    BY <1>1, <1>5
  <2>2. QED
    BY <1>2, <1>3, <2>1 DEF Ordered
<1>6. QED
  BY <1>4, <1>5

\* ... and so does taking the first one, which was before all others.
LEMMA OrderedTail ==
  ASSUME NEW S, NEW q \in Seq(S), q # <<>>, Ordered(q)
  PROVE  /\ Ordered(Tail(q))
         /\ q[1].what # "mark" => \A x \in Commands(Tail(q)) : Earlier(q[1], x)
<1>1. /\ Len(q) \in Nat \ {0} /\ Len(Tail(q)) = Len(q) - 1
      /\ \A i \in 1..Len(Tail(q)) : Tail(q)[i] = q[i + 1] /\ i + 1 \in 1 .. Len(q)
  BY HeadTailProperties, EmptySeq, LenProperties
<1>2. Ordered(Tail(q))
  BY <1>1 DEF Ordered
<1>3. ASSUME NEW x \in Commands(Tail(q)), q[1].what # "mark" PROVE Earlier(q[1], x)
  <2>1. PICK i \in 1 .. Len(Tail(q)) : x = Tail(q)[i] /\ x.what # "mark"
    BY <1>3 DEF Commands, Elems
  <2>2. x = q[i + 1] /\ i + 1 \in 1 .. Len(q) /\ 1 \in 1 .. Len(q) /\ 1 < i + 1
    BY <1>1, <2>1
  <2>3. QED
    BY <1>3, <2>1, <2>2 DEF Ordered
<1>4. QED
  BY <1>2, <1>3

-------------------------------------------------------------------------------
(* Steps of a plan *)

\* What follows a word in a step
LEMMA StepFacts ==
  ASSUME SessionAssumption, NEW p \in Step
  PROVE  /\ p[1] \in {"enter", "exit", "close", "wait"} => p[2] \in Session /\ p = <<p[1], p[2]>>
         /\ p[1] \in {"device", "drain"} => p[2] \in Device /\ p = <<p[1], p[2]>>
         /\ p[1] \in {"launch", "with", "back"} => p[2] \in Nat
BY DEF Step, Statement

\* The streams that a synchronization waits for, in a row: each of them is there.
LEMMA DrainsFacts ==
  ASSUME NEW S \in SUBSET Nat, IsFiniteSet(S)
  PROVE  /\ Drains(S) \in Seq({"drain"} \X S)
         /\ \A d \in S : \E i \in 1 .. Len(Drains(S)) : Drains(S)[i] = <<"drain", d>>
<1>1. PICK N \in Nat, f \in Seq(S) : N = Cardinality(S) /\ f = Ranked(S) /\ Len(f) = N /\ Elems(f) = S
  BY RankedFacts, FS_CardinalityType
<1> DEFINE Nth(i) == CHOOSE d \in S : Cardinality({e \in S : e < d}) = i - 1
<1>a. Drains(S) = [i \in 1 .. N |-> <<"drain", Nth(i)>>] /\ f = [i \in 1 .. N |-> Nth(i)]
  BY <1>1 DEF Drains, Ranked
<1> HIDE DEF Nth
<1>2. \A i \in 1 .. N : Drains(S)[i] = <<"drain", f[i]>>
  BY <1>a
<1>3. PICK b : b = Drains(S) /\ DOMAIN b = 1 .. N /\ b = [i \in 1 .. N |-> b[i]]
  BY <1>a
<1>4. \A i \in 1 .. N : f[i] \in S
  BY <1>1
<1>5. b \in Seq({"drain"} \X S) /\ Len(b) = N
  <2>1. ASSUME NEW i \in 1 .. N PROVE b[i] \in {"drain"} \X S
    <3>1. PICK d \in S : b[i] = <<"drain", d>>
      BY <1>2, <1>3, <1>4
    <3>2. <<"drain", d>> \in {"drain"} \X S
      OBVIOUS
    <3>3. QED
      BY <3>1, <3>2, Zenon
  <2>2. b \in [1 .. N -> {"drain"} \X S]
    BY <1>3, <2>1
  <2>3. QED
    BY <1>3, <2>2
<1>6. ASSUME NEW d \in S PROVE \E i \in 1 .. Len(b) : b[i] = <<"drain", d>>
  <2>1. PICK i \in 1 .. N : f[i] = d
    BY <1>1 DEF Elems
  <2>2. QED
    BY <1>2, <1>3, <1>5, <2>1
<1>7. QED
  BY <1>3, <1>5, <1>6

\* A step is done, or replaced by others.
LEMMA PlanMoves ==
  ASSUME plan \in [Thread -> Seq(Step)], NEW h \in Thread, plan[h] # <<>>
  PROVE  /\ Continue(h) => /\ plan' \in [Thread -> Seq(Step)] /\ plan'[h] = Tail(plan[h])
                           /\ \A g \in Thread : g # h => plan'[g] = plan[g]
         /\ \A steps \in Seq(Step) : Instead(h, steps) =>
              /\ plan' \in [Thread -> Seq(Step)] /\ plan'[h] = steps \o Tail(plan[h])
              /\ \A g \in Thread : g # h => plan'[g] = plan[g]
<1>1. plan[h] \in Seq(Step) /\ Tail(plan[h]) \in Seq(Step)
  BY HeadTailProperties, EmptySeq
<1>2. ASSUME NEW q \in Seq(Step), plan' = [plan EXCEPT ![h] = q]
      PROVE  /\ plan' \in [Thread -> Seq(Step)] /\ plan'[h] = q
             /\ \A g \in Thread : g # h => plan'[g] = plan[g]
  BY <1>2
<1>3. Continue(h) => plan' = [plan EXCEPT ![h] = Tail(plan[h])]
  BY DEF Continue
<1>4. ASSUME NEW steps \in Seq(Step), Instead(h, steps)
      PROVE  /\ steps \o Tail(plan[h]) \in Seq(Step)
             /\ plan' = [plan EXCEPT ![h] = steps \o Tail(plan[h])]
  <2>1. steps \o Tail(plan[h]) \in Seq(Step)
    BY <1>1, ConcatProperties
  <2>2. QED
    BY <1>4, <2>1 DEF Instead
<1>5. ASSUME NEW steps \in Seq(Step), Instead(h, steps)
      PROVE  /\ plan' \in [Thread -> Seq(Step)] /\ plan'[h] = steps \o Tail(plan[h])
             /\ \A g \in Thread : g # h => plan'[g] = plan[g]
  BY <1>2, <1>4, <1>5, Zenon
<1>6. QED
  BY <1>1, <1>2, <1>3, <1>5, Zenon

-------------------------------------------------------------------------------
(* Types *)

\* What the steps of a thread put into its plan
LEMMA NewSteps ==
  ASSUME SessionAssumption
  PROVE  /\ \A d \in Device, n \in Nat : Drains(Registered(d)) \o <<<<"back", n>>>> \in Seq(Step)
         /\ <<<<"await">>>> \in Seq(Step)
         /\ \A s \in Session : <<<<"sync">>, <<"close", s>>, <<"wait", s>>>> \in Seq(Step)
<1>1. ASSUME NEW d \in Device, NEW n \in Nat PROVE Drains(Registered(d)) \o <<<<"back", n>>>> \in Seq(Step)
  <2>1. Registered(d) \in SUBSET Nat /\ IsFiniteSet(Registered(d)) /\ Registered(d) \subseteq Device
    BY FS_EmptySet DEF Registered, SessionAssumption
  <2>2. Drains(Registered(d)) \in Seq({"drain"} \X Registered(d))
    BY <2>1, DrainsFacts
  <2>3. {"drain"} \X Registered(d) \subseteq Step
    BY <2>1 DEF Step
  <2>4. Drains(Registered(d)) \in Seq(Step)
    BY <2>2, <2>3
  <2>5. <<"back", n>> \in Step
    BY DEF Step
  <2>6. <<<<"back", n>>>> \in Seq(Step)
    BY <2>5
  <2>7. QED
    BY <2>4, <2>6, ConcatProperties
<1>2. <<<<"await">>>> \in Seq(Step)
  BY DEF Step
<1>3. ASSUME NEW s \in Session PROVE <<<<"sync">>, <<"close", s>>, <<"wait", s>>>> \in Seq(Step)
  <2>1. <<"sync">> \in Step /\ <<"close", s>> \in Step /\ <<"wait", s>> \in Step
    BY DEF Step, Statement
  <2>2. QED
    BY <2>1
<1>4. QED
  BY <1>1, <1>2, <1>3

\* The step a thread is at is of its type.
LEMMA HeadStep ==
  ASSUME SessionAssumption, TypedThreads, NEW h \in Thread, NEW w, Does(h, w)
  PROVE  /\ plan[h] \in Seq(Step) /\ plan[h] # <<>> /\ plan[h][1][1] = w
         /\ Operand(h) = plan[h][1][2]
         /\ w \in {"enter", "exit", "close", "wait"} => Operand(h) \in Session /\ plan[h][1] = <<w, Operand(h)>>
         /\ w \in {"device", "drain"} => Operand(h) \in Device /\ plan[h][1] = <<w, Operand(h)>>
         /\ w \in {"launch", "with", "back"} => Operand(h) \in Nat
<1>1. plan[h] \in Seq(Step) /\ plan[h] # <<>> /\ Head(plan[h])[1] = w
  BY DEF Does, TypedThreads
<1>2. Head(plan[h]) = plan[h][1] /\ plan[h][1] \in Step
  BY <1>1
<1>3. QED
  BY <1>1, <1>2, StepFacts DEF Operand

\* A call is a command.
LEMMA CallTyped ==
  ASSUME TypedThreads, TypedSessions, NEW h \in Thread, simulator # None,
         NEW w \in {"LAUNCH_KERNEL", "DEVICE_SYNC"}
  PROVE  Call(h, w) \in Command
<1>1. /\ current[h] \in Device /\ nr[h] + 1 \in Nat /\ simulator \in Session
  BY DEF TypedThreads, TypedSessions
<1>2. round[h][<<current[h], simulator>>] \in Nat
  BY <1>1 DEF TypedThreads
<1>3. StreamIndex(h) \in Nat
  <2>1. context[h] \in Seq(Nat)
    BY DEF TypedThreads
  <2>2. QED
    BY <2>1 DEF StreamIndex
<1>4. QED
  BY <1>1, <1>2, <1>3 DEF Call, Command

\* The steps of a thread that leave the streams and the processes alone
LEMMA ThreadTypes1 ==
  ASSUME SessionAssumption, Typed, NEW h \in Thread,
         \/ SetDevice(h) \/ EnterContext(h) \/ LeaveContext(h) \/ LaunchRaises(h) \/ Return(h) \/ Exit(h)
         \/ Enter(h) \/ Close(h) \/ WaitForProcess(h)
  PROVE  Typed'
<1>1. TypedThreads /\ TypedSessions /\ TypedStreams /\ TypedProcesses /\ plan \in [Thread -> Seq(Step)]
  BY DEF Typed, TypedThreads
<1>2. TypedStreams'
  <2>1. UNCHANGED <<queue, hand>>
    BY DEF SetDevice, EnterContext, LeaveContext, LaunchRaises, Return, Exit, Enter, Close, WaitForProcess, streamVars
  <2>2. QED
    BY <1>1, <2>1 DEF TypedStreams
<1>3. TypedProcesses'
  <2>1. UNCHANGED <<processVars, lost>>
    BY DEF SetDevice, EnterContext, LeaveContext, LaunchRaises, Return, Exit, Enter, Close, WaitForProcess
  <2>2. QED
    BY <1>1, <2>1 DEF TypedProcesses, processVars
<1>4. TypedSessions'
  <2>1. CASE SetDevice(h) \/ EnterContext(h) \/ LeaveContext(h) \/ LaunchRaises(h) \/ Return(h) \/ Exit(h)
    <3>1. UNCHANGED <<sessionVars, lock>>
      BY <2>1 DEF SetDevice, EnterContext, LeaveContext, LaunchRaises, Return, Exit, streamVars
    <3>2. QED
      BY <1>1, <3>1 DEF TypedSessions, sessionVars
  <2>2. CASE Enter(h)
    <3>1. Operand(h) \in Session /\ UNCHANGED <<ender, lock>>
      BY <1>1, <2>2, HeadStep DEF Enter, streamVars
    <3>2. QED
      BY <1>1, <2>2, <3>1 DEF Enter, TypedSessions
  <2>3. CASE Close(h)
    <3>1. Operand(h) \in Session /\ <<h, current[h]>> \in Thread \X Device /\ UNCHANGED <<simulator, outer, lock>>
      BY <1>1, <2>3, HeadStep DEF Close, streamVars, TypedThreads
    <3>2. QED
      BY <1>1, <2>3, <3>1 DEF Close, TypedSessions
  <2>4. CASE WaitForProcess(h)
    <3>1. Operand(h) \in Session /\ UNCHANGED <<outer, ender, handle, lock>>
      BY <1>1, <2>4, HeadStep DEF WaitForProcess, streamVars
    <3>2. QED
      BY <1>1, <2>4, <3>1 DEF WaitForProcess, TypedSessions
  <2>5. QED
    BY <2>1, <2>2, <2>3, <2>4
<1>5. plan' \in [Thread -> Seq(Step)]
  <2>1. CASE SetDevice(h) \/ EnterContext(h) \/ LeaveContext(h) \/ Return(h) \/ Enter(h) \/ Close(h) \/ WaitForProcess(h)
    <3>1. plan[h] # <<>> /\ Continue(h)
      BY <2>1 DEF SetDevice, EnterContext, LeaveContext, Return, Enter, Close, WaitForProcess, Does
    <3>2. QED
      BY <1>1, <3>1, PlanMoves
  <2>2. CASE LaunchRaises(h)
    BY <1>1, <2>2 DEF LaunchRaises
  <2>3. CASE Exit(h)
    <3>1. Operand(h) \in Session /\ plan[h] # <<>>
      BY <1>1, <2>3, HeadStep DEF Exit
    <3>2. <<<<"sync">>, <<"close", Operand(h)>>, <<"wait", Operand(h)>>>> \in Seq(Step)
      BY <3>1, NewSteps
    <3>3. QED
      BY <1>1, <2>3, <3>1, <3>2, PlanMoves DEF Exit
  <2>4. QED
    BY <2>1, <2>2, <2>3
<1>6. TypedThreads'
  <2>1. CASE LaunchRaises(h) \/ Return(h) \/ Exit(h) \/ Enter(h) \/ Close(h) \/ WaitForProcess(h)
    <3>1. UNCHANGED <<current, context, nr, round>>
      BY <2>1 DEF LaunchRaises, Return, Exit, Enter, Close, WaitForProcess
    <3>2. QED
      BY <1>1, <1>5, <3>1 DEF TypedThreads
  <2>2. CASE SetDevice(h)
    <3>1. Operand(h) \in Device
      BY <1>1, <2>2, HeadStep DEF SetDevice
    <3>2. QED
      BY <1>1, <1>5, <2>2, <3>1 DEF SetDevice, TypedThreads
  <2>3. CASE EnterContext(h)
    <3>1. Operand(h) \in Nat /\ context[h] \in Seq(Nat)
      BY <1>1, <2>3, HeadStep DEF EnterContext, TypedThreads
    <3>2. <<Operand(h)>> \in Seq(Nat)
      BY <3>1
    <3>3. <<Operand(h)>> \o context[h] \in Seq(Nat)
      BY <3>1, <3>2, ConcatProperties
    <3>4. context' = [context EXCEPT ![h] = <<Operand(h)>> \o context[h]] /\ UNCHANGED <<current, nr, round>>
      BY <2>3 DEF EnterContext
    <3>5. context' \in [Thread -> Seq(Nat)]
      <4>1. context \in [Thread -> Seq(Nat)]
        BY <1>1 DEF TypedThreads
      <4>2. PICK q \in Seq(Nat) : q = <<Operand(h)>> \o context[h]
        BY <3>3
      <4>3. context' = [context EXCEPT ![h] = q]
        BY <3>4, <4>2, Zenon
      <4>4. QED
        BY <4>1, <4>3
    <3>6. QED
      BY <1>1, <1>5, <3>4, <3>5 DEF TypedThreads
  <2>4. CASE LeaveContext(h)
    <3>1. context[h] \in Seq(Nat) /\ context[h] # <<>>
      BY <1>1, <2>4 DEF LeaveContext, TypedThreads
    <3>2. Tail(context[h]) \in Seq(Nat)
      BY <3>1, HeadTailProperties
    <3>3. QED
      BY <1>1, <1>5, <2>4, <3>2 DEF LeaveContext, TypedThreads
  <2>5. QED
    BY <2>1, <2>2, <2>3, <2>4
<1>7. QED
  BY <1>2, <1>3, <1>4, <1>6 DEF Typed

\* A task is put into a queue.
LEMMA QueueTyped ==
  ASSUME TypedStreams, NEW d \in Device, NEW t \in Task
  PROVE  /\ Enqueue(d, t) => /\ queue' \in [Device -> Seq(Task)] /\ queue'[d] = Append(queue[d], t)
                             /\ \A e \in Device : e # d => queue'[e] = queue[e]
         /\ queue[d] # <<>> /\ Pop(d) => /\ queue' \in [Device -> Seq(Task)] /\ queue'[d] = Tail(queue[d])
                                         /\ \A e \in Device : e # d => queue'[e] = queue[e]
<1>1. queue \in [Device -> Seq(Task)] /\ Append(queue[d], t) \in Seq(Task)
      /\ (queue[d] # <<>> => Tail(queue[d]) \in Seq(Task))
  BY AppendProperties, HeadTailProperties DEF TypedStreams
<1>2. ASSUME NEW q \in Seq(Task), queue' = [queue EXCEPT ![d] = q]
      PROVE  /\ queue' \in [Device -> Seq(Task)] /\ queue'[d] = q
             /\ \A e \in Device : e # d => queue'[e] = queue[e]
  BY <1>1, <1>2
<1>3. Enqueue(d, t) => queue' = [queue EXCEPT ![d] = Append(queue[d], t)]
  BY DEF Enqueue
<1>4. Pop(d) => queue' = [queue EXCEPT ![d] = Tail(queue[d])]
  BY DEF Pop
<1>5. QED
  BY <1>1, <1>2, <1>3, <1>4, Zenon

\* Launches, synchronizations, and the start of a process
LEMMA ThreadTypes2 ==
  ASSUME SessionAssumption, Typed, NEW h \in Thread, Start(h) \/ Launch(h) \/ Synchronize(h) \/ Drain(h)
  PROVE  Typed'
<1>1. /\ TypedThreads /\ TypedSessions /\ TypedStreams /\ TypedProcesses
      /\ plan \in [Thread -> Seq(Step)] /\ current[h] \in Device /\ nr \in [Thread -> Nat]
  BY DEF Typed, TypedThreads
<1>2. TypedSessions'
  <2>1. UNCHANGED <<sessionVars, lock>>
    BY DEF Start, Launch, Synchronize, Drain, streamVars
  <2>2. QED
    BY <1>1, <2>1 DEF TypedSessions, sessionVars
<1>3. TypedProcesses'
  <2>1. CASE Start(h)
    <3>1. Operand(h) \in Session /\ UNCHANGED <<pipe, kernels, finished, crashes, lost>>
      BY <1>1, <2>1, HeadStep DEF Start
    <3>2. QED
      BY <1>1, <2>1, <3>1 DEF Start, TypedProcesses
  <2>2. CASE Launch(h) \/ Synchronize(h) \/ Drain(h)
    <3>1. UNCHANGED <<processVars, lost>>
      BY <2>2 DEF Launch, Synchronize, Drain
    <3>2. QED
      BY <1>1, <3>1 DEF TypedProcesses, processVars
  <2>3. QED
    BY <2>1, <2>2
<1>4. TypedStreams'
  <2>1. hand' = hand
    BY DEF Start, Launch, Synchronize, Drain, streamVars
  <2>2. queue' \in [Device -> Seq(Task)]
    <3>1. CASE Start(h) \/ (Synchronize(h) /\ simulator = None)
      <4>1. queue' = queue
        BY <3>1 DEF Start, Synchronize, streamVars
      <4>2. QED
        BY <1>1, <4>1 DEF TypedStreams
    <3>2. CASE Launch(h) \/ (Synchronize(h) /\ simulator # None)
      <4>1. PICK w \in {"LAUNCH_KERNEL", "DEVICE_SYNC"} : simulator # None /\ Enqueue(current[h], Call(h, w))
        BY <3>2 DEF Launch, Synchronize
      <4>2. Call(h, w) \in Task
        BY <1>1, <4>1, CallTyped DEF Task
      <4>3. QED
        BY <1>1, <4>1, <4>2, QueueTyped
    <3>3. CASE Drain(h)
      <4>1. Operand(h) \in Device /\ Mark(h) \in Task /\ Enqueue(Operand(h), Mark(h))
        <5>1. Operand(h) \in Device /\ Enqueue(Operand(h), Mark(h))
          BY <1>1, <3>3, HeadStep DEF Drain
        <5>2. Mark(h) \in Task
          BY DEF Mark, Task
        <5>3. QED
          BY <5>1, <5>2
      <4>2. QED
        BY <1>1, <4>1, QueueTyped
    <3>4. QED
      BY <3>1, <3>2, <3>3
  <2>3. QED
    BY <1>1, <2>1, <2>2 DEF TypedStreams
<1>5. TypedThreads'
  <2>1. CASE Start(h)
    BY <1>1, <2>1 DEF Start, threadVars, TypedThreads
  <2>2. CASE Launch(h)
    <3>1. plan[h] # <<>> /\ Continue(h)
      BY <2>2 DEF Launch, Does
    <3>2. plan' \in [Thread -> Seq(Step)]
      BY <1>1, <3>1, PlanMoves
    <3>3. nr' \in [Thread -> Nat] /\ UNCHANGED <<current, context, round>>
      BY <1>1, <2>2 DEF Launch, Count
    <3>4. QED
      BY <1>1, <3>2, <3>3 DEF TypedThreads
  <2>3. CASE Synchronize(h)
    <3>1. nr' \in [Thread -> Nat] /\ UNCHANGED <<current, context>>
      <4>1. nr' = nr \/ nr' = [nr EXCEPT ![h] = @ + 1]
        BY <2>3 DEF Synchronize, Count
      <4>2. nr' \in [Thread -> Nat]
        BY <1>1, <4>1
      <4>3. UNCHANGED <<current, context>>
        BY <2>3 DEF Synchronize
      <4>4. QED
        BY <4>2, <4>3
    <3>2. Drains(Registered(current[h])) \o <<<<"back", nr'[h]>>>> \in Seq(Step)
      <4>1. nr'[h] \in Nat
        BY <3>1
      <4>2. PICK n \in Nat : n = nr'[h]
        BY <4>1
      <4>3. QED
        BY <1>1, <4>2, NewSteps, Zenon
    <3>3. plan' \in [Thread -> Seq(Step)]
      <4>1. plan[h] # <<>> /\ Instead(h, Drains(Registered(current[h])) \o <<<<"back", nr'[h]>>>>)
        BY <2>3 DEF Synchronize, Does
      <4>2. QED
        BY <1>1, <3>2, <4>1, PlanMoves
    <3>4. round' \in [Thread -> [Device \X Session -> Nat]]
      <4>1. round \in [Thread -> [Device \X Session -> Nat]]
        BY <1>1 DEF TypedThreads
      <4>2. CASE simulator = None
        BY <2>3, <4>1, <4>2 DEF Synchronize
      <4>3. CASE simulator # None
        <5>1. PICK w \in Device \X Session : w = <<current[h], simulator>>
          BY <1>1, <4>3 DEF TypedSessions
        <5>2. round' = [round EXCEPT ![h][w] = @ + 1]
          BY <2>3, <4>3, <5>1 DEF Synchronize
        <5>3. [round[h] EXCEPT ![w] = @ + 1] \in [Device \X Session -> Nat]
          <6>1. PICK r, W : r = round[h] /\ W = Device \X Session
            OBVIOUS
          <6>2. r \in [W -> Nat] /\ w \in W
            BY <4>1, <6>1, Zenon
          <6>3. [r EXCEPT ![w] = @ + 1] \in [W -> Nat]
            BY <6>2
          <6>4. QED
            BY <6>1, <6>3, Zenon
        <5>4. round' = [round EXCEPT ![h] = [round[h] EXCEPT ![w] = @ + 1]]
          BY <5>2
        <5>5. QED
          BY <4>1, <5>3, <5>4
      <4>4. QED
        BY <4>2, <4>3
    <3>5. QED
      BY <1>1, <3>1, <3>3, <3>4 DEF TypedThreads
  <2>4. CASE Drain(h)
    <3>1. plan[h] # <<>> /\ Instead(h, <<<<"await">>>>) /\ UNCHANGED <<current, context, nr, round>>
      BY <2>4 DEF Drain, Does
    <3>2. <<<<"await">>>> \in Seq(Step)
      BY DEF Step
    <3>3. plan' \in [Thread -> Seq(Step)]
      BY <1>1, <3>1, <3>2, PlanMoves
    <3>4. QED
      BY <1>1, <3>1, <3>3 DEF TypedThreads
  <2>5. QED
    BY <2>1, <2>2, <2>3, <2>4
<1>6. QED
  BY <1>2, <1>3, <1>4, <1>5 DEF Typed

\* What the thread of a stream takes from its queue
LEMMA HeadTask ==
  ASSUME TypedStreams, NEW d \in Device, queue[d] # <<>>
  PROVE  /\ queue[d] \in Seq(Task) /\ Head(queue[d]) = queue[d][1] /\ queue[d][1] \in Task
         /\ queue[d][1].what = "mark" => queue[d][1].by \in Thread /\ queue[d][1] = Mark(queue[d][1].by)
         /\ queue[d][1].what # "mark" => queue[d][1] \in Command
<1>1. queue[d] \in Seq(Task) /\ Head(queue[d]) = queue[d][1] /\ queue[d][1] \in Task
  BY DEF TypedStreams
<1>2. \A t \in Task : /\ t.what = "mark" => t.by \in Thread /\ t = Mark(t.by)
                      /\ t.what # "mark" => t \in Command
  BY DEF Task, Command, Mark
<1>3. QED
  BY <1>1, <1>2

\* The thread of a stream, given that a mark is in a queue only while its thread waits
LEMMA StreamTypes ==
  ASSUME SessionAssumption, Typed, NEW d \in Device, StreamStep(d),
         \A h \in Thread : Mark(h) \in Elems(queue[d]) => Does(h, "await")
  PROVE  Typed'
<1>1. /\ TypedThreads /\ TypedSessions /\ TypedStreams /\ TypedProcesses
      /\ plan \in [Thread -> Seq(Step)] /\ hand \in [Device -> Command \cup {None}]
      /\ lock \in [Session -> Device \cup {None}] /\ pipe \in [Session -> Seq(Command)]
      /\ lost \subseteq Command /\ queue \in [Device -> Seq(Task)]
  BY DEF Typed, TypedThreads, TypedSessions, TypedStreams, TypedProcesses
<1>2. CASE Waken(d)
  <2>1. queue[d] # <<>> /\ Head(queue[d]).what = "mark" /\ Pop(d) /\ Continue(Head(queue[d]).by)
        /\ UNCHANGED <<current, context, nr, round>> /\ hand' = hand
    BY <1>2 DEF Waken
  <2>2. PICK h \in Thread : h = Head(queue[d]).by /\ Mark(h) = queue[d][1]
    BY <1>1, <2>1, HeadTask
  <2>3. Mark(h) \in Elems(queue[d])
    BY <1>1, <2>1, <2>2, ElemsEmpty
  <2>4. plan[h] # <<>>
    BY <2>3 DEF Does
  <2>5. plan' \in [Thread -> Seq(Step)]
    BY <1>1, <2>1, <2>2, <2>4, PlanMoves
  <2>6. queue' \in [Device -> Seq(Task)]
    BY <1>1, <2>1, <2>2, HeadTask, QueueTyped
  <2>7. TypedThreads' /\ TypedStreams'
    BY <1>1, <2>1, <2>5, <2>6 DEF TypedThreads, TypedStreams
  <2>8. UNCHANGED <<sessionVars, lock, processVars, lost>>
    BY <1>2 DEF Waken
  <2>9. TypedSessions'
    BY <1>1, <2>8 DEF TypedSessions, sessionVars
  <2>10. TypedProcesses'
    BY <1>1, <2>8 DEF TypedProcesses, processVars
  <2>11. QED
    BY <2>7, <2>9, <2>10 DEF Typed
<1>3. CASE Take(d)
  <2>1. PICK c : c = Head(queue[d]) /\ queue[d] # <<>> /\ c.what # "mark" /\ Pop(d)
    BY <1>3 DEF Take
  <2>2. c \in Command /\ c \in Task
    BY <1>1, <2>1, HeadTask
  <2>3. queue' \in [Device -> Seq(Task)]
    BY <1>1, <2>1, <2>2, QueueTyped
  <2>4. (lost' = lost \cup {c} /\ hand' = hand) \/ (hand' = [hand EXCEPT ![d] = c] /\ lost' = lost)
    BY <1>3, <2>1 DEF Take
  <2>5. TypedStreams' /\ lost' \subseteq Command
    BY <1>1, <2>2, <2>3, <2>4 DEF TypedStreams
  <2>6. UNCHANGED <<threadVars, sessionVars, lock, processVars>>
    BY <1>3 DEF Take
  <2>7. TypedSessions'
    BY <1>1, <2>6 DEF TypedSessions, sessionVars
  <2>8. TypedProcesses'
    BY <1>1, <2>5, <2>6 DEF TypedProcesses, processVars
  <2>9. TypedThreads'
    BY <1>1, <2>6 DEF TypedThreads, threadVars
  <2>10. QED
    BY <2>5, <2>7, <2>8, <2>9 DEF Typed
<1>4. CASE Give(d)
  <2>1. hand[d] \in Command /\ hand[d].on \in Session
    BY <1>1, <1>4 DEF Give, Command
  <2>2. (lock' = [lock EXCEPT ![hand[d].on] = d] /\ UNCHANGED <<hand, lost>>)
        \/ (hand' = [hand EXCEPT ![d] = None] /\ lost' = lost \cup {hand[d]} /\ lock' = lock)
    BY <1>4 DEF Give
  <2>3. /\ lock' \in [Session -> Device \cup {None}] /\ hand' \in [Device -> Command \cup {None}]
        /\ lost' \subseteq Command
    <3>1. CASE lock' = [lock EXCEPT ![hand[d].on] = d] /\ UNCHANGED <<hand, lost>>
      BY <1>1, <2>1, <3>1
    <3>2. CASE hand' = [hand EXCEPT ![d] = None] /\ lost' = lost \cup {hand[d]} /\ lock' = lock
      BY <1>1, <2>1, <3>2
    <3>3. QED
      BY <2>2, <3>1, <3>2
  <2>4. UNCHANGED <<threadVars, sessionVars, queue, processVars>>
    BY <1>4 DEF Give
  <2>5. TypedSessions' /\ TypedStreams'
    BY <1>1, <2>3, <2>4 DEF TypedSessions, TypedStreams, sessionVars
  <2>6. TypedProcesses'
    BY <1>1, <2>3, <2>4 DEF TypedProcesses, processVars
  <2>7. TypedThreads'
    BY <1>1, <2>4 DEF TypedThreads, threadVars
  <2>8. QED
    BY <2>5, <2>6, <2>7 DEF Typed
<1>5. CASE Write(d)
  <2>1. PICK c : c = hand[d] /\ c \in Command /\ c.on \in Session
    BY <1>1, <1>5 DEF Write, Command
  <2>2. /\ \/ /\ Len(pipe[c.on]) < PipeSize
              /\ pipe' = [pipe EXCEPT ![c.on] = Append(@, c)] /\ lost' = lost
           \/ lost' = lost \cup {c} /\ pipe' = pipe
        /\ lock' = [lock EXCEPT ![c.on] = None] /\ hand' = [hand EXCEPT ![d] = None]
    BY <1>5, <2>1 DEF Write
  <2>3. /\ lock' \in [Session -> Device \cup {None}] /\ hand' \in [Device -> Command \cup {None}]
        /\ lost' \subseteq Command
    BY <1>1, <2>1, <2>2
  <2>4. pipe' \in [Session -> Seq(Command)] /\ \A s \in Session : Len(pipe'[s]) <= PipeSize
    <3>1. \A s \in Session : Len(pipe[s]) <= PipeSize
      BY <1>1 DEF TypedProcesses
    <3>2. PICK q \in Seq(Command) : q = Append(pipe[c.on], c) /\ Len(q) = Len(pipe[c.on]) + 1
      <4>1. pipe[c.on] \in Seq(Command)
        BY <1>1, <2>1
      <4>2. Append(pipe[c.on], c) \in Seq(Command) /\ Len(Append(pipe[c.on], c)) = Len(pipe[c.on]) + 1
        BY <2>1, <4>1, AppendProperties
      <4>3. QED
        BY <4>2
    <3>3. CASE Len(pipe[c.on]) < PipeSize /\ pipe' = [pipe EXCEPT ![c.on] = Append(@, c)]
      <4>1. pipe' = [pipe EXCEPT ![c.on] = q]
        BY <3>2, <3>3
      <4>2. PipeSize \in Nat /\ Len(pipe[c.on]) \in Nat
        BY <1>1, <2>1, LenProperties DEF SessionAssumption
      <4>3. Len(q) <= PipeSize
        BY <3>2, <3>3, <4>2
      <4>4. QED
        BY <1>1, <2>1, <3>1, <4>1, <4>3
    <3>4. CASE pipe' = pipe
      BY <1>1, <3>1, <3>4
    <3>5. QED
      BY <2>2, <3>3, <3>4
  <2>5. UNCHANGED <<threadVars, sessionVars, queue, process, kernels, finished, crashes>>
    BY <1>5 DEF Write
  <2>6. TypedSessions' /\ TypedStreams'
    BY <1>1, <2>3, <2>5 DEF TypedSessions, TypedStreams, sessionVars
  <2>7. TypedProcesses'
    BY <1>1, <2>3, <2>4, <2>5 DEF TypedProcesses
  <2>8. TypedThreads'
    BY <1>1, <2>5 DEF TypedThreads, threadVars
  <2>9. QED
    BY <2>6, <2>7, <2>8 DEF Typed
<1>6. QED
  BY <1>2, <1>3, <1>4, <1>5 DEF StreamStep

\* The processes
LEMMA ProcessTypes ==
  ASSUME SessionAssumption, Typed, NEW s \in Session, ProcessStep(s) \/ Crash(s)
  PROVE  Typed'
<1>1. /\ TypedThreads /\ TypedSessions /\ TypedStreams /\ TypedProcesses
      /\ process \in [Session -> {"none", "starting", "reading", "simulating", "ending", "exited"}]
      /\ pipe \in [Session -> Seq(Command)] /\ kernels \in [Session -> SUBSET Command]
      /\ finished \subseteq Command /\ lost \subseteq Command /\ crashes \in Nat
      /\ \A t \in Session : Len(pipe[t]) <= PipeSize
  BY DEF Typed, TypedProcesses
<1>2. UNCHANGED <<threadVars, sessionVars, streamVars, lost>>
  BY DEF ProcessStep, Open, Read, EndOfFile, Finish, Idle, Crash
<1>3. TypedThreads' /\ TypedSessions' /\ TypedStreams'
  <2>1. TypedThreads'
    BY <1>1, <1>2 DEF TypedThreads, threadVars
  <2>2. TypedSessions'
    BY <1>1, <1>2 DEF TypedSessions, sessionVars, streamVars
  <2>3. TypedStreams'
    BY <1>1, <1>2 DEF TypedStreams, streamVars
  <2>4. QED
    BY <2>1, <2>2, <2>3
<1>4. TypedProcesses'
  <2>1. CASE Open(s) \/ EndOfFile(s) \/ Idle(s)
    <3>1. UNCHANGED <<pipe, kernels, finished, crashes, lost>>
      BY <2>1 DEF Open, EndOfFile, Idle
    <3>2. process' \in [Session -> {"none", "starting", "reading", "simulating", "ending", "exited"}]
      BY <1>1, <2>1 DEF Open, EndOfFile, Idle
    <3>3. QED
      BY <1>1, <3>1, <3>2 DEF TypedProcesses
  <2>2. CASE Read(s)
    <3>1. PICK c, q : c = Head(pipe[s]) /\ q = Tail(pipe[s])
      OBVIOUS
    <3>2. c \in Command /\ q \in Seq(Command) /\ Len(q) <= PipeSize
      <4>1. pipe[s] # <<>> /\ pipe[s] \in Seq(Command)
        BY <1>1, <2>2 DEF Read
      <4>2. c \in Command /\ q \in Seq(Command) /\ Len(q) = Len(pipe[s]) - 1
        BY <3>1, <4>1, HeadTailProperties
      <4>3. Len(pipe[s]) <= PipeSize /\ PipeSize \in Nat /\ Len(pipe[s]) \in Nat
        BY <1>1, <4>1, LenProperties DEF SessionAssumption
      <4>4. QED
        BY <4>2, <4>3
    <3>3. pipe' = [pipe EXCEPT ![s] = q] /\ UNCHANGED <<finished, crashes, lost>>
      BY <2>2, <3>1 DEF Read
    <3>4. (kernels' = [kernels EXCEPT ![s] = @ \cup {c}] /\ process' = process)
          \/ (process' = [process EXCEPT ![s] = "simulating"] /\ kernels' = kernels)
      BY <2>2, <3>1 DEF Read
    <3>5. /\ kernels' \in [Session -> SUBSET Command]
          /\ process' \in [Session -> {"none", "starting", "reading", "simulating", "ending", "exited"}]
      <4>1. CASE kernels' = [kernels EXCEPT ![s] = @ \cup {c}] /\ process' = process
        BY <1>1, <3>2, <4>1
      <4>2. CASE process' = [process EXCEPT ![s] = "simulating"] /\ kernels' = kernels
        BY <1>1, <4>2
      <4>3. QED
        BY <3>4, <4>1, <4>2
    <3>6. pipe' \in [Session -> Seq(Command)] /\ \A t \in Session : Len(pipe'[t]) <= PipeSize
      BY <1>1, <3>2, <3>3
    <3>7. QED
      BY <1>1, <3>3, <3>5, <3>6 DEF TypedProcesses
  <2>3. CASE Finish(s)
    <3>1. PICK c \in kernels[s] : kernels' = [kernels EXCEPT ![s] = @ \ {c}] /\ finished' = finished \cup {c}
      BY <2>3 DEF Finish
    <3>2. UNCHANGED <<process, pipe, crashes, lost>>
      BY <2>3 DEF Finish
    <3>3. kernels' \in [Session -> SUBSET Command] /\ finished' \subseteq Command
      BY <1>1, <3>1
    <3>4. QED
      BY <1>1, <3>2, <3>3 DEF TypedProcesses
  <2>4. CASE Crash(s)
    <3>1. /\ process' = [process EXCEPT ![s] = "exited"] /\ pipe' = [pipe EXCEPT ![s] = <<>>]
          /\ kernels' = [kernels EXCEPT ![s] = {}] /\ crashes' = crashes + 1 /\ finished' = finished /\ lost' = lost
      BY <2>4 DEF Crash
    <3>2. <<>> \in Seq(Command) /\ Len(<<>>) <= PipeSize
      BY EmptySeq DEF SessionAssumption
    <3>3. pipe' \in [Session -> Seq(Command)] /\ \A t \in Session : Len(pipe'[t]) <= PipeSize
      BY <1>1, <3>1, <3>2
    <3>4. /\ process' \in [Session -> {"none", "starting", "reading", "simulating", "ending", "exited"}]
          /\ kernels' \in [Session -> SUBSET Command] /\ crashes' \in Nat
      BY <1>1, <3>1
    <3>5. QED
      BY <1>1, <3>1, <3>3, <3>4 DEF TypedProcesses
  <2>5. QED
    BY <2>1, <2>2, <2>3, <2>4 DEF ProcessStep
<1>5. QED
  BY <1>3, <1>4 DEF Typed

\* Nothing is under way at first.
LEMMA InitTypes ==
  ASSUME SessionAssumption, Init
  PROVE  Typed
<1>1. plan \in [Thread -> Seq(Step)]
  <2>1. plan \in [Thread -> Seq(Statement)]
    BY DEF SessionAssumption, Init
  <2>2. Statement \subseteq Step
    BY DEF Step
  <2>3. ASSUME NEW h \in Thread PROVE plan[h] \in Seq(Step)
    <3>1. plan[h] \in Seq(Statement)
      BY <2>1
    <3>2. QED
      BY <2>2, <3>1
  <2>4. QED
    BY <2>1, <2>3
<1>2. TypedThreads
  BY <1>1, EmptySeq DEF Init, TypedThreads, SessionAssumption
<1>3. TypedSessions /\ TypedStreams
  BY EmptySeq DEF Init, TypedSessions, TypedStreams
<1>4. TypedProcesses
  BY EmptySeq DEF Init, TypedProcesses, SessionAssumption
<1>5. QED
  BY <1>2, <1>3, <1>4 DEF Typed

-------------------------------------------------------------------------------
(* How the commands move *)

\* Commands under way are commands.
LEMMA UnderWay ==
  ASSUME Typed
  PROVE  /\ Waiting \cup Running \cup finished \subseteq Command
         /\ \A d \in Device : /\ Commands(queue[d]) \subseteq Queued
                              /\ hand[d] # None => hand[d] \in Held
         /\ \A s \in Session : Elems(pipe[s]) \subseteq Piped /\ kernels[s] \subseteq Running
<1>1. \A d \in Device : queue[d] \in Seq(Task) /\ hand[d] \in Command \cup {None}
  BY DEF Typed, TypedStreams
<1>2. \A s \in Session : pipe[s] \in Seq(Command) /\ kernels[s] \subseteq Command
  BY DEF Typed, TypedProcesses
<1>3. \A d \in Device : Commands(queue[d]) \subseteq Command
  <2>1. \A d \in Device : Elems(queue[d]) \subseteq Task
    BY <1>1, ElemsType
  <2>2. \A x \in Task : x.what # "mark" => x \in Command
    BY DEF Task
  <2>3. QED
    BY <2>1, <2>2 DEF Commands
<1>4. \A s \in Session : Elems(pipe[s]) \subseteq Command
  BY <1>2, ElemsType
<1>5. Queued \subseteq Command /\ Held \subseteq Command
  BY <1>1, <1>3 DEF Queued, Held
<1>6. Piped \subseteq Command /\ Running \subseteq Command /\ finished \subseteq Command
  BY <1>2, <1>4 DEF Piped, Running, Typed, TypedProcesses
<1>7. QED
  BY <1>5, <1>6 DEF Waiting, Queued, Held, Piped, Running

\* One queue changes.
LEMMA QueuedMoves ==
  ASSUME NEW d \in Device, \A e \in Device : e # d => queue'[e] = queue[e], NEW c
  PROVE  /\ Commands(queue'[d]) = Commands(queue[d]) => Queued' = Queued
         /\ Commands(queue'[d]) = Commands(queue[d]) \cup {c} => Queued' = Queued \cup {c}
         /\ Commands(queue[d]) = Commands(queue'[d]) \cup {c} => Queued' \subseteq Queued /\ c \in Queued
<1>1. Queued = UNION {Commands(queue[e]) : e \in Device} /\ Queued' = UNION {Commands(queue'[e]) : e \in Device}
  BY DEF Queued
<1>2. PICK f, g : f = [e \in Device |-> Commands(queue[e])] /\ g = [e \in Device |-> Commands(queue'[e])]
  OBVIOUS
<1>3. Queued = UNION {f[e] : e \in Device} /\ Queued' = UNION {g[e] : e \in Device}
  BY <1>1, <1>2
<1>4. \A e \in Device : e # d => g[e] = f[e]
  BY <1>2
<1>5. f[d] = Commands(queue[d]) /\ g[d] = Commands(queue'[d])
  BY <1>2
<1>6. g[d] = f[d] => Queued' = Queued
  BY <1>3, <1>4
<1>7. ASSUME g[d] = f[d] \cup {c} PROVE Queued' = Queued \cup {c}
  <2>1. Queued' \subseteq Queued \cup {c}
    BY <1>3, <1>4, <1>7
  <2>2. Queued \cup {c} \subseteq Queued'
    <3>1. \A e \in Device : f[e] \subseteq g[e]
      BY <1>4, <1>7
    <3>2. c \in g[d]
      BY <1>7
    <3>3. QED
      BY <1>3, <3>1, <3>2
  <2>3. QED
    BY <2>1, <2>2
<1>8. ASSUME f[d] = g[d] \cup {c} PROVE Queued' \subseteq Queued /\ c \in Queued
  BY <1>3, <1>4, <1>8
<1>9. QED
  BY <1>5, <1>6, <1>7, <1>8

\* A new command is put into the queue of its device.
LEMMA PutInOrder ==
  ASSUME Typed, Placed, InOrder, NEW d \in Device, NEW c \in Command, c.device = d, Enqueue(d, c),
         nr' = [nr EXCEPT ![c.by] = @ + 1], c.nr = nr[c.by] + 1,
         UNCHANGED <<hand, pipe, kernels, finished>>
  PROVE  /\ Placed' /\ InOrder'
         /\ Queued' = Queued \cup {c} /\ UNCHANGED <<Held, Piped, Running>>
         /\ \A x \in Waiting \cup Running \cup finished : Earlier(x, c)
<1>1. /\ TypedStreams /\ c \in Task /\ nr \in [Thread -> Nat] /\ c.by \in Thread /\ c.nr \in Nat
      /\ c.what # "mark" /\ queue[d] \in Seq(Task)
  BY DEF Typed, TypedThreads, TypedStreams, Task, Command
<1>2. /\ queue'[d] = Append(queue[d], c) /\ \A e \in Device : e # d => queue'[e] = queue[e]
  BY <1>1, QueueTyped
<1>3. Commands(queue'[d]) = Commands(queue[d]) \cup {c}
  BY <1>1, <1>2, CommandsMove
<1>4. Queued' = Queued \cup {c}
  BY <1>2, <1>3, QueuedMoves
<1>5. Held' = Held /\ Piped' = Piped /\ Running' = Running /\ finished' = finished
  BY DEF Held, Piped, Running
<1>6. \A x \in Command : x.nr \in Nat /\ x.by \in Thread
  BY DEF Command
<1>7. ASSUME NEW x \in Waiting \cup Running \cup finished PROVE Earlier(x, c)
  <2>1. x \in Command /\ x.nr <= nr[x.by]
    BY UnderWay DEF Placed
  <2>2. x.by = c.by => x.nr < c.nr
    BY <1>1, <1>6, <2>1
  <2>3. QED
    BY <2>2 DEF Earlier
<1>8. Placed'
  <2>1. \A e \in Device : /\ \A x \in Commands(queue'[e]) : x.device = e
                          /\ hand'[e] # None => hand'[e].device = e
    BY <1>2, <1>3 DEF Placed
  <2>2. \A s \in Session : \A x \in Elems(pipe'[s]) \cup kernels'[s] : x.on = s
    BY DEF Placed
  <2>3. ASSUME NEW x \in (Waiting \cup Running \cup finished)' PROVE x.nr <= nr'[x.by]
    <3>1. x = c \/ x \in Waiting \cup Running \cup finished
      BY <1>4, <1>5 DEF Waiting
    <3>2. CASE x = c
      BY <1>1, <3>2
    <3>3. CASE x \in Waiting \cup Running \cup finished
      <4>1. x \in Command /\ x.nr <= nr[x.by]
        BY <3>3, UnderWay DEF Placed
      <4>2. nr[x.by] <= nr'[x.by] /\ nr[x.by] \in Nat /\ nr'[x.by] \in Nat
        BY <1>1, <1>6, <4>1
      <4>3. QED
        BY <1>6, <4>1, <4>2
    <3>4. QED
      BY <3>1, <3>2, <3>3
  <2>4. QED
    BY <2>1, <2>2, <2>3 DEF Placed
<1>9. InOrder'
  <2>1. \A e \in Device : Ordered(queue'[e])
    <3>1. Ordered(queue[d]) /\ \A x \in Commands(queue[d]) : Earlier(x, c)
      BY <1>7, UnderWay DEF InOrder, Waiting
    <3>2. Ordered(queue'[d])
      BY <1>1, <1>2, <3>1, OrderedAppend
    <3>3. QED
      BY <1>2, <3>2 DEF InOrder
  <2>2. \A s \in Session : Ordered(pipe'[s])
    BY DEF InOrder
  <2>3. /\ \A x \in Held', e \in Queued' : Earlier(x, e)
        /\ \A x \in Piped', e \in Held' \cup Queued' : Earlier(x, e)
        /\ \A x \in Running' \cup finished', e \in Waiting' : Earlier(x, e)
    BY <1>4, <1>5, <1>7 DEF InOrder, Waiting
  <2>4. Running' \cap finished' = {}
    BY <1>5 DEF InOrder
  <2>5. QED
    BY <2>1, <2>2, <2>3, <2>4 DEF InOrder
<1>10. QED
  BY <1>4, <1>5, <1>7, <1>8, <1>9

\* A mark comes or goes.
LEMMA MarkInOrder ==
  ASSUME Typed, Placed, InOrder, NEW d \in Device, UNCHANGED <<hand, pipe, kernels, finished, nr>>,
         \/ \E h \in Thread : Enqueue(d, Mark(h))
         \/ queue[d] # <<>> /\ queue[d][1].what = "mark" /\ Pop(d)
  PROVE  Placed' /\ InOrder' /\ UNCHANGED <<Queued, Held, Piped, Running>>
<1>1. queue[d] \in Seq(Task) /\ TypedStreams /\ Ordered(queue[d])
  BY DEF Typed, TypedStreams, InOrder
<1>2. /\ \A e \in Device : e # d => queue'[e] = queue[e]
      /\ Commands(queue'[d]) = Commands(queue[d]) /\ Ordered(queue'[d])
  <2>1. ASSUME NEW h \in Thread, Enqueue(d, Mark(h))
        PROVE  /\ \A e \in Device : e # d => queue'[e] = queue[e]
               /\ Commands(queue'[d]) = Commands(queue[d]) /\ Ordered(queue'[d])
    <3>1. Mark(h) \in Task /\ Mark(h).what = "mark"
      BY DEF Mark, Task
    <3>2. queue'[d] = Append(queue[d], Mark(h)) /\ \A e \in Device : e # d => queue'[e] = queue[e]
      BY <1>1, <2>1, <3>1, QueueTyped
    <3>3. QED
      BY <1>1, <3>1, <3>2, CommandsMove, OrderedAppend
  <2>2. ASSUME queue[d] # <<>>, queue[d][1].what = "mark", Pop(d)
        PROVE  /\ \A e \in Device : e # d => queue'[e] = queue[e]
               /\ Commands(queue'[d]) = Commands(queue[d]) /\ Ordered(queue'[d])
    <3>1. queue[d][1] \in Task
      BY <1>1, <2>2
    <3>2. queue'[d] = Tail(queue[d]) /\ \A e \in Device : e # d => queue'[e] = queue[e]
      BY <1>1, <2>2, <3>1, QueueTyped
    <3>3. QED
      BY <1>1, <2>2, <3>1, <3>2, CommandsMove, OrderedTail
  <2>3. QED
    BY <2>1, <2>2
<1>3. Queued' = Queued
  BY <1>2, QueuedMoves
<1>4. Held' = Held /\ Piped' = Piped /\ Running' = Running /\ Waiting' = Waiting
  BY <1>3 DEF Held, Piped, Running, Waiting
<1>5. Placed'
  BY <1>2, <1>3, <1>4 DEF Placed
<1>6. InOrder'
  BY <1>2, <1>3, <1>4 DEF InOrder
<1>7. QED
  BY <1>3, <1>4, <1>5, <1>6

\* The thread of a stream takes a command, and holds it or loses it.
LEMMA TakeInOrder ==
  ASSUME SessionAssumption, Typed, Placed, InOrder, NEW d \in Device, NEW c, Take(d), c = Head(queue[d])
  PROVE  /\ Placed' /\ InOrder'
         /\ c \in Queued /\ Queued \subseteq Queued' \cup {c} /\ Queued' \subseteq Queued
         /\ UNCHANGED <<Piped, Running, nr, finished, process, kernels, handle>>
         /\ \/ process[c.on] = "exited" /\ lost' = lost \cup {c} /\ Held' = Held
            \/ lost' = lost /\ Held' = Held \cup {c}
<1>1. /\ queue[d] \in Seq(Task) /\ TypedStreams /\ Ordered(queue[d]) /\ queue[d] # <<>> /\ Pop(d)
      /\ c = queue[d][1] /\ c.what # "mark" /\ c \in Command /\ c \in Task /\ hand[d] = None
      /\ hand \in [Device -> Command \cup {None}]
  BY HeadTask DEF Typed, TypedStreams, InOrder, Take
<1>2. /\ \A e \in Device : e # d => queue'[e] = queue[e]
      /\ queue'[d] = Tail(queue[d])
  BY <1>1, QueueTyped
<1>3. /\ Commands(queue[d]) = Commands(queue'[d]) \cup {c} /\ Ordered(queue'[d])
      /\ \A x \in Commands(queue'[d]) : Earlier(c, x)
  BY <1>1, <1>2, CommandsMove, OrderedTail
<1>4. Queued' \subseteq Queued /\ c \in Queued /\ Queued \subseteq Queued' \cup {c}
  <2>1. Queued' \subseteq Queued /\ c \in Queued
    BY <1>2, <1>3, QueuedMoves
  <2>2. ASSUME NEW x \in Queued, x # c PROVE x \in Queued'
    <3>1. PICK e \in Device : x \in Commands(queue[e])
      BY DEF Queued
    <3>2. x \in Commands(queue'[e])
      BY <1>2, <1>3, <2>2, <3>1
    <3>3. QED
      BY <3>2 DEF Queued
  <2>3. QED
    BY <2>1, <2>2
<1>5. UNCHANGED <<Piped, Running, nr, finished, process, kernels, pipe, handle>>
  BY DEF Take, processVars, threadVars, sessionVars, Piped, Running
<1>6. \/ process[c.on] = "exited" /\ lost' = lost \cup {c} /\ hand' = hand
      \/ lost' = lost /\ hand' = [hand EXCEPT ![d] = c]
  BY <1>1 DEF Take
<1>7. /\ \A e \in Device : hand'[e] # None => (hand'[e] = c /\ e = d) \/ hand'[e] = hand[e]
      /\ \/ process[c.on] = "exited" /\ lost' = lost \cup {c} /\ Held' = Held
         \/ lost' = lost /\ Held' = Held \cup {c}
  <2>1. CASE process[c.on] = "exited" /\ lost' = lost \cup {c} /\ hand' = hand
    BY <2>1 DEF Held
  <2>2. CASE lost' = lost /\ hand' = [hand EXCEPT ![d] = c]
    <3>1. hand'[d] = c /\ c # None /\ \A e \in Device : e # d => hand'[e] = hand[e]
      BY <1>1, <2>2 DEF SessionAssumption
    <3>2. Held' = Held \cup {c}
      BY <1>1, <3>1 DEF Held
    <3>3. QED
      BY <1>1, <2>2, <3>1, <3>2
  <2>3. QED
    BY <1>6, <2>1, <2>2
<1>8. c.device = d
  BY <1>1, <1>3 DEF Placed
<1>9. \A x \in Queued' : Earlier(c, x)
  <2>1. SUFFICES ASSUME NEW x \in Queued' PROVE Earlier(c, x)
    OBVIOUS
  <2>2. PICK e \in Device : x \in Commands(queue'[e])
    BY DEF Queued
  <2>3. CASE e = d
    BY <1>3, <2>2, <2>3
  <2>4. CASE e # d
    <3>1. x.device = e
      BY <1>2, <2>2, <2>4 DEF Placed
    <3>2. QED
      BY <1>8, <2>4, <3>1 DEF Earlier
  <2>5. QED
    BY <2>3, <2>4
<1>10. Placed'
  <2>1. \A e \in Device : /\ \A x \in Commands(queue'[e]) : x.device = e
                          /\ hand'[e] # None => hand'[e].device = e
    <3>1. \A e \in Device : Commands(queue'[e]) \subseteq Commands(queue[e])
      BY <1>2, <1>3
    <3>2. QED
      BY <1>7, <1>8, <3>1 DEF Placed
  <2>2. \A s \in Session : \A x \in Elems(pipe'[s]) \cup kernels'[s] : x.on = s
    BY <1>5 DEF Placed
  <2>3. Waiting' \subseteq Waiting
    BY <1>4, <1>5, <1>7 DEF Waiting
  <2>4. QED
    BY <1>5, <2>1, <2>2, <2>3 DEF Placed
<1>11. InOrder'
  <2>1. \A e \in Device : Ordered(queue'[e])
    BY <1>2, <1>3 DEF InOrder
  <2>2. /\ \A x \in Held', e \in Queued' : Earlier(x, e)
        /\ \A x \in Piped', e \in Held' \cup Queued' : Earlier(x, e)
        /\ \A x \in Running' \cup finished', e \in Waiting' : Earlier(x, e)
    BY <1>4, <1>5, <1>7, <1>9 DEF InOrder, Waiting
  <2>3. (\A s \in Session : Ordered(pipe'[s])) /\ Running' \cap finished' = {}
    BY <1>5 DEF InOrder
  <2>4. QED
    BY <2>1, <2>2, <2>3 DEF InOrder
<1>12. QED
  BY <1>4, <1>5, <1>7, <1>10, <1>11

\* A command is written to the FIFO of its session, or lost, or waits for the lock.
LEMMA HandInOrder ==
  ASSUME SessionAssumption, Typed, Placed, InOrder, NEW d \in Device, NEW c, c = hand[d],
         Give(d) \/ Write(d)
  PROVE  /\ Placed' /\ InOrder' /\ c \in Held /\ c \in Command
         /\ UNCHANGED <<queue, Queued, Running, nr, finished, process, kernels, handle>>
         /\ \/ UNCHANGED <<hand, Held, Piped, lost>>
            \/ /\ Held' \subseteq Held /\ Held \subseteq Held' \cup {c} /\ hand'[d] = None
               /\ \A e \in Device : hand'[e] # None => hand'[e] = hand[e]
               /\ \/ /\ Piped' = Piped /\ lost' = lost \cup {c}
                     /\ (process[c.on] = "exited" \/ handle[c.on] # "open")
                  \/ /\ Piped' = Piped \cup {c} /\ lost' = lost
                     /\ process[c.on] # "exited" /\ lock[c.on] = d
<1>1. /\ hand \in [Device -> Command \cup {None}] /\ pipe \in [Session -> Seq(Command)]
      /\ c # None /\ c \in Command /\ c.on \in Session /\ c \in Held
  BY DEF Typed, TypedStreams, TypedProcesses, Give, Write, Held, Command
<1>2. UNCHANGED <<queue, nr, finished, process, kernels, handle>>
  BY DEF Give, Write, processVars, threadVars, sessionVars
<1>3. Queued' = Queued /\ Running' = Running
  BY <1>2 DEF Queued, Running
<1>4. \/ UNCHANGED <<hand, pipe, lost>>
      \/ /\ hand' = [hand EXCEPT ![d] = None]
         /\ \/ /\ pipe' = pipe /\ lost' = lost \cup {c} /\ (process[c.on] = "exited" \/ handle[c.on] # "open")
            \/ /\ pipe' = [pipe EXCEPT ![c.on] = Append(@, c)] /\ lost' = lost
               /\ process[c.on] # "exited" /\ lock[c.on] = d
  <2>1. CASE Give(d)
    BY <2>1 DEF Give, processVars
  <2>2. CASE Write(d)
    BY <2>2 DEF Write
  <2>3. QED
    BY <2>1, <2>2
<1>5. CASE UNCHANGED <<hand, pipe, lost>>
  <2>1. Held' = Held /\ Piped' = Piped /\ Waiting' = Waiting
    BY <1>3, <1>5 DEF Held, Piped, Waiting
  <2>2. Placed'
    BY <1>2, <1>3, <1>5, <2>1 DEF Placed
  <2>3. InOrder'
    BY <1>2, <1>3, <1>5, <2>1 DEF InOrder
  <2>4. QED
    BY <1>1, <1>2, <1>3, <1>5, <2>1, <2>2, <2>3
<1>6. CASE /\ hand' = [hand EXCEPT ![d] = None]
           /\ \/ /\ pipe' = pipe /\ lost' = lost \cup {c} /\ (process[c.on] = "exited" \/ handle[c.on] # "open")
              \/ /\ pipe' = [pipe EXCEPT ![c.on] = Append(@, c)] /\ lost' = lost
                 /\ process[c.on] # "exited" /\ lock[c.on] = d
  <2>1. hand'[d] = None /\ \A e \in Device : e # d => hand'[e] = hand[e]
    BY <1>1, <1>6
  <2>2. Held' \subseteq Held /\ Held \subseteq Held' \cup {c} /\ \A e \in Device : hand'[e] # None => hand'[e] = hand[e]
    BY <2>1 DEF Held
  <2>3. c.device = d /\ \A x \in Held' : Earlier(c, x)
    <3>1. c.device = d
      BY <1>1 DEF Placed
    <3>2. ASSUME NEW x \in Held' PROVE x.device # d
      <4>1. PICK e \in Device : hand'[e] # None /\ x = hand'[e]
        BY DEF Held
      <4>2. e # d /\ x = hand[e] /\ hand[e] # None
        BY <2>1, <4>1
      <4>3. QED
        BY <4>2 DEF Placed
    <3>3. QED
      BY <3>1, <3>2 DEF Earlier
  <2>4. \A x \in Queued : Earlier(c, x)
    BY <1>1 DEF InOrder
  <2>5. /\ Piped \subseteq Piped' /\ Piped' \subseteq Piped \cup {c}
        /\ \A s \in Session : Ordered(pipe'[s]) /\ \A x \in Elems(pipe'[s]) : x.on = s
        /\ \/ /\ Piped' = Piped /\ lost' = lost \cup {c} /\ (process[c.on] = "exited" \/ handle[c.on] # "open")
           \/ /\ Piped' = Piped \cup {c} /\ lost' = lost /\ process[c.on] # "exited" /\ lock[c.on] = d
    <3>1. CASE pipe' = pipe /\ lost' = lost \cup {c} /\ (process[c.on] = "exited" \/ handle[c.on] # "open")
      <4>1. Piped' = Piped /\ \A s \in Session : Ordered(pipe'[s]) /\ \A x \in Elems(pipe'[s]) : x.on = s
        BY <3>1 DEF Piped, InOrder, Placed
      <4>2. QED
        BY <3>1, <4>1
    <3>2. CASE pipe' = [pipe EXCEPT ![c.on] = Append(@, c)] /\ lost' = lost /\ process[c.on] # "exited" /\ lock[c.on] = d
      <4>1. PICK q \in Seq(Command) : q = pipe[c.on]
        BY <1>1
      <4>2. Elems(Append(q, c)) = Elems(q) \cup {c}
        BY <1>1, ElemsAppend
      <4>3. PICK r \in Seq(Command) : r = Append(q, c)
        BY <1>1, AppendProperties
      <4>4. pipe' = [pipe EXCEPT ![c.on] = r]
        BY <3>2, <4>1, <4>3
      <4>5. pipe'[c.on] = r /\ \A s \in Session : s # c.on => pipe'[s] = pipe[s]
        BY <1>1, <4>4
      <4>6. Ordered(r)
        <5>1. \A x \in Commands(q) : Earlier(x, c)
          BY <1>1, <4>1 DEF InOrder, Piped, Commands
        <5>2. Ordered(q)
          BY <1>1, <4>1 DEF InOrder
        <5>3. QED
          BY <1>1, <4>3, <5>1, <5>2, OrderedAppend
      <4>7. \A s \in Session : Ordered(pipe'[s]) /\ \A x \in Elems(pipe'[s]) : x.on = s
        BY <4>1, <4>2, <4>3, <4>5, <4>6 DEF InOrder, Placed
      <4>8. Piped' = Piped \cup {c}
        <5>1. Elems(pipe'[c.on]) = Elems(pipe[c.on]) \cup {c}
          BY <4>1, <4>2, <4>3, <4>5
        <5>2. \A s \in Session : s # c.on => Elems(pipe'[s]) = Elems(pipe[s])
          BY <4>5
        <5>3. Piped' \subseteq Piped \cup {c}
          BY <5>1, <5>2 DEF Piped
        <5>4. Piped \cup {c} \subseteq Piped'
          <6>1. \A s \in Session : Elems(pipe[s]) \subseteq Elems(pipe'[s])
            BY <5>1, <5>2
          <6>2. \A s \in Session : Elems(pipe'[s]) \subseteq Piped'
            BY DEF Piped
          <6>3. \A x \in Piped : \E s \in Session : x \in Elems(pipe[s])
            BY DEF Piped
          <6>4. Piped \subseteq Piped'
            BY <6>1, <6>2, <6>3
          <6>5. c \in Elems(pipe'[c.on]) /\ c.on \in Session
            BY <1>1, <5>1
          <6>6. QED
            BY <6>2, <6>4, <6>5
        <5>5. QED
          BY <5>3, <5>4
      <4>9. QED
        BY <3>2, <4>7, <4>8
    <3>3. QED
      BY <1>6, <3>1, <3>2
  <2>6. Placed'
    <3>1. \A e \in Device : /\ \A x \in Commands(queue'[e]) : x.device = e
                            /\ hand'[e] # None => hand'[e].device = e
      BY <1>2, <2>2 DEF Placed
    <3>2. \A s \in Session : \A x \in Elems(pipe'[s]) \cup kernels'[s] : x.on = s
      BY <1>2, <2>5 DEF Placed
    <3>3. Waiting' \subseteq Waiting
      BY <1>1, <1>3, <2>2, <2>5 DEF Waiting
    <3>4. QED
      BY <1>2, <1>3, <3>1, <3>2, <3>3 DEF Placed
  <2>7. InOrder'
    <3>1. /\ \A x \in Held', e \in Queued' : Earlier(x, e)
          /\ \A x \in Piped', e \in Held' \cup Queued' : Earlier(x, e)
          /\ \A x \in Running' \cup finished', e \in Waiting' : Earlier(x, e)
      BY <1>1, <1>2, <1>3, <2>2, <2>3, <2>4, <2>5 DEF InOrder, Waiting
    <3>2. (\A e \in Device : Ordered(queue'[e])) /\ Running' \cap finished' = {}
      BY <1>2, <1>3 DEF InOrder
    <3>3. QED
      BY <2>5, <3>1, <3>2 DEF InOrder
  <2>8. QED
    BY <1>1, <1>2, <1>3, <2>1, <2>2, <2>5, <2>6, <2>7
<1>7. QED
  BY <1>4, <1>5, <1>6

\* The process reads a line: a kernel runs, or a synchronization begins.
LEMMA ReadInOrder ==
  ASSUME Typed, Placed, InOrder, NEW s \in Session, NEW c, Read(s), c = Head(pipe[s])
  PROVE  /\ Placed' /\ InOrder' /\ c \in Elems(pipe[s]) /\ c \in Piped /\ c \in Command /\ c.on = s
         /\ UNCHANGED <<Queued, Held, finished, nr>>
         /\ Piped' \subseteq Piped /\ Piped \subseteq Piped' \cup {c}
         /\ \A x \in Piped' : Earlier(c, x)
         /\ \A t \in Session : kernels'[t] = IF t = s /\ c.what = "LAUNCH_KERNEL" THEN kernels[t] \cup {c} ELSE kernels[t]
         /\ Running' = IF c.what = "LAUNCH_KERNEL" THEN Running \cup {c} ELSE Running
<1>1. /\ pipe \in [Session -> Seq(Command)] /\ kernels \in [Session -> SUBSET Command] /\ pipe[s] # <<>>
      /\ queue' = queue /\ hand' = hand /\ finished' = finished /\ nr' = nr
  BY DEF Typed, TypedProcesses, Read, streamVars, threadVars
<1>2. PICK q \in Seq(Command) : q = pipe[s]
  BY <1>1
<1>3. c = q[1] /\ c \in Command /\ c \in Elems(q) /\ c.what # "mark"
  <2>1. q # <<>> /\ c = q[1]
    BY <1>1, <1>2
  <2>2. c \in Elems(q)
    BY <2>1, ElemsEmpty
  <2>3. c \in Command
    BY <2>2, ElemsType
  <2>4. QED
    BY <2>1, <2>2, <2>3 DEF Command
<1>4. Elems(q) = Elems(Tail(q)) \cup {c} /\ Ordered(Tail(q)) /\ \A x \in Commands(Tail(q)) : Earlier(c, x)
  <2>1. Ordered(q)
    BY <1>2 DEF InOrder
  <2>2. QED
    BY <1>1, <1>2, <1>3, <2>1, ElemsTail, OrderedTail
<1>5. PICK r \in Seq(Command) : r = Tail(q)
  BY <1>1, <1>2, HeadTailProperties
<1>6. pipe'[s] = r /\ \A t \in Session : t # s => pipe'[t] = pipe[t]
  <2>1. pipe' = [pipe EXCEPT ![s] = r]
    BY <1>2, <1>5 DEF Read
  <2>2. QED
    BY <1>1, <2>1
<1>7. \A x \in Elems(r) : Earlier(c, x)
  <2>1. \A x \in Elems(r) : x \in Command /\ x.what # "mark"
    <3>1. Elems(r) \subseteq Command
      BY <1>5, ElemsType
    <3>2. \A x \in Command : x.what # "mark"
      BY DEF Command
    <3>3. QED
      BY <3>1, <3>2
  <2>2. QED
    BY <1>4, <1>5, <2>1 DEF Commands
<1>8. Elems(pipe[s]) = Elems(pipe'[s]) \cup {c} /\ \A t \in Session : t # s => Elems(pipe'[t]) = Elems(pipe[t])
  BY <1>2, <1>4, <1>5, <1>6
<1>9. Piped' \subseteq Piped /\ Piped \subseteq Piped' \cup {c} /\ c \in Piped /\ c.on = s /\ c \in Elems(pipe[s])
  <2>1. \A t \in Session : Elems(pipe'[t]) \subseteq Elems(pipe[t]) /\ Elems(pipe[t]) \subseteq Elems(pipe'[t]) \cup {c}
    BY <1>8
  <2>2. Piped' \subseteq Piped /\ Piped \subseteq Piped' \cup {c}
    BY <2>1 DEF Piped
  <2>3. c \in Elems(pipe[s])
    BY <1>8
  <2>4. c \in Piped
    BY <2>3 DEF Piped
  <2>5. c.on = s
    BY <2>3 DEF Placed
  <2>6. QED
    BY <2>2, <2>3, <2>4, <2>5
<1>10. \A x \in Piped' : Earlier(c, x)
  <2>1. SUFFICES ASSUME NEW x \in Piped' PROVE Earlier(c, x)
    OBVIOUS
  <2>2. PICK t \in Session : x \in Elems(pipe'[t])
    BY DEF Piped
  <2>3. CASE t = s
    BY <1>6, <1>7, <2>2, <2>3
  <2>4. CASE t # s
    <3>1. x.on = t
      BY <1>8, <2>2, <2>4 DEF Placed
    <3>2. QED
      BY <1>9, <2>4, <3>1 DEF Earlier
  <2>5. QED
    BY <2>3, <2>4
<1>11. Queued' = Queued /\ Held' = Held
  BY <1>1 DEF Queued, Held
<1>12. /\ \A t \in Session : kernels'[t] = IF t = s /\ c.what = "LAUNCH_KERNEL" THEN kernels[t] \cup {c} ELSE kernels[t]
       /\ Running' = IF c.what = "LAUNCH_KERNEL" THEN Running \cup {c} ELSE Running
  <2>1. CASE c.what = "LAUNCH_KERNEL"
    <3>1. kernels' = [kernels EXCEPT ![s] = @ \cup {c}]
      BY <2>1 DEF Read
    <3>2. kernels'[s] = kernels[s] \cup {c} /\ \A t \in Session : t # s => kernels'[t] = kernels[t]
      BY <1>1, <3>1
    <3>3. Running' \subseteq Running \cup {c}
      BY <3>2 DEF Running
    <3>4. Running \cup {c} \subseteq Running'
      <4>1. \A t \in Session : kernels[t] \subseteq kernels'[t]
        BY <3>2
      <4>2. QED
        BY <3>2, <4>1 DEF Running
    <3>5. QED
      BY <2>1, <3>2, <3>3, <3>4
  <2>2. CASE c.what # "LAUNCH_KERNEL"
    <3>1. kernels' = kernels
      BY <2>2 DEF Read
    <3>2. QED
      BY <2>2, <3>1 DEF Running
  <2>3. QED
    BY <2>1, <2>2
<1>13. Placed'
  <2>1. \A e \in Device : /\ \A x \in Commands(queue'[e]) : x.device = e
                          /\ hand'[e] # None => hand'[e].device = e
    BY <1>1 DEF Placed
  <2>2. \A t \in Session : \A x \in Elems(pipe'[t]) \cup kernels'[t] : x.on = t
    BY <1>8, <1>9, <1>12 DEF Placed
  <2>3. (Waiting \cup Running \cup finished)' \subseteq Waiting \cup Running \cup finished
    BY <1>1, <1>9, <1>11, <1>12 DEF Waiting
  <2>4. QED
    BY <1>1, <2>1, <2>2, <2>3 DEF Placed
<1>14. InOrder'
  <2>1. /\ \A x \in Held', e \in Queued' : Earlier(x, e)
        /\ \A x \in Piped', e \in Held' \cup Queued' : Earlier(x, e)
    BY <1>9, <1>11 DEF InOrder
  <2>2. \A e \in Held' \cup Queued' : Earlier(c, e)
    BY <1>9, <1>11 DEF InOrder
  <2>3. \A x \in Running' \cup finished', e \in Waiting' : Earlier(x, e)
    <3>1. Waiting' \subseteq Waiting /\ finished' = finished /\ Running' \subseteq Running \cup {c}
      BY <1>1, <1>9, <1>11, <1>12 DEF Waiting
    <3>2. \A e \in Waiting' : Earlier(c, e)
      BY <1>10, <2>2 DEF Waiting
    <3>3. QED
      BY <3>1, <3>2 DEF InOrder
  <2>4. Running' \cap finished' = {}
    <3>1. c \notin finished
      <4>1. c \in finished => Earlier(c, c)
        BY <1>9 DEF InOrder, Waiting
      <4>2. c.nr \in Nat
        BY <1>3 DEF Command
      <4>3. QED
        BY <4>1, <4>2 DEF Earlier
    <3>2. QED
      BY <1>1, <1>12, <3>1 DEF InOrder
  <2>5. \A t \in Session : Ordered(pipe'[t])
    BY <1>4, <1>5, <1>6 DEF InOrder
  <2>6. \A e \in Device : Ordered(queue'[e])
    BY <1>1 DEF InOrder
  <2>7. QED
    BY <2>1, <2>3, <2>4, <2>5, <2>6 DEF InOrder
<1>15. QED
  BY <1>1, <1>3, <1>9, <1>10, <1>11, <1>12, <1>13, <1>14

\* A kernel is finished, or the process dies.
LEMMA EndInOrder ==
  ASSUME Typed, Placed, InOrder, NEW s \in Session, Finish(s) \/ Crash(s)
  PROVE  /\ Placed' /\ InOrder' /\ UNCHANGED <<Queued, Held, nr, queue, hand>>
         /\ \A t \in Session : /\ kernels'[t] \subseteq kernels[t] /\ Elems(pipe'[t]) \subseteq Elems(pipe[t])
                               /\ t # s => kernels'[t] = kernels[t]
         /\ Running' \subseteq Running /\ Piped' \subseteq Piped
         /\ Finish(s) => UNCHANGED <<Piped, pipe>>
         /\ Crash(s) => /\ kernels'[s] = {} /\ Elems(pipe'[s]) = {}
                        /\ \A t \in Session : t # s => Elems(pipe'[t]) = Elems(pipe[t])
<1>1. /\ pipe \in [Session -> Seq(Command)] /\ kernels \in [Session -> SUBSET Command]
      /\ queue' = queue /\ hand' = hand /\ nr' = nr
  BY DEF Typed, TypedProcesses, Finish, Crash, streamVars, threadVars
<1>2. Queued' = Queued /\ Held' = Held
  BY <1>1 DEF Queued, Held
<1>3. /\ Finish(s) => UNCHANGED <<Piped, pipe>>
      /\ Crash(s) => Elems(pipe'[s]) = {} /\ kernels'[s] = {} /\ finished' = finished
      /\ \A t \in Session : /\ t # s => kernels'[t] = kernels[t] /\ Elems(pipe'[t]) = Elems(pipe[t])
                            /\ kernels'[t] \subseteq kernels[t] /\ Elems(pipe'[t]) \subseteq Elems(pipe[t])
                            /\ Ordered(pipe'[t])
      /\ finished' \subseteq finished \cup Running /\ Running' \cap finished' = {}
  <2>1. CASE Finish(s)
    <3>1. PICK c \in kernels[s] : kernels' = [kernels EXCEPT ![s] = @ \ {c}] /\ finished' = finished \cup {c}
      BY <2>1 DEF Finish
    <3>2. pipe' = pipe /\ Piped' = Piped
      BY <2>1 DEF Finish, Piped
    <3>3. kernels'[s] = kernels[s] \ {c} /\ \A t \in Session : t # s => kernels'[t] = kernels[t]
      BY <1>1, <3>1
    <3>4. c \in Running /\ finished' \subseteq finished \cup Running
      BY <3>1 DEF Running
    <3>5. c \notin Running'
      <4>1. c.on = s
        BY DEF Placed
      <4>2. \A t \in Session : t # s => c \notin kernels[t]
        BY <4>1 DEF Placed
      <4>3. QED
        BY <3>3, <4>2 DEF Running
    <3>6. Running' \subseteq Running
      BY <3>3 DEF Running
    <3>7. Running' \cap finished' = {}
      BY <3>1, <3>5, <3>6 DEF InOrder
    <3>8. ~Crash(s)
      <4>1. crashes' = crashes /\ crashes \in Nat
        BY <2>1 DEF Finish, Typed, TypedProcesses
      <4>2. QED
        BY <4>1 DEF Crash
    <3>9. QED
      BY <3>2, <3>3, <3>4, <3>7, <3>8 DEF InOrder
  <2>2. CASE Crash(s)
    <3>1. pipe' = [pipe EXCEPT ![s] = <<>>] /\ kernels' = [kernels EXCEPT ![s] = {}] /\ finished' = finished
      BY <2>2 DEF Crash
    <3>2. pipe'[s] = <<>> /\ kernels'[s] = {} /\ \A t \in Session : t # s => pipe'[t] = pipe[t] /\ kernels'[t] = kernels[t]
      BY <1>1, <3>1
    <3>3. Elems(pipe'[s]) = {} /\ Ordered(pipe'[s])
      <4>1. Elems(<<>>) = {}
        BY EmptySeq, ElemsEmpty
      <4>2. Ordered(<<>>)
        BY EmptySeq DEF Ordered
      <4>3. QED
        BY <3>2, <4>1, <4>2
    <3>4. Running' \subseteq Running
      BY <3>2 DEF Running
    <3>5. Running' \cap finished' = {}
      BY <3>1, <3>4 DEF InOrder
    <3>6. ~Finish(s)
      <4>1. crashes' = crashes + 1 /\ crashes \in Nat
        BY <2>2 DEF Crash, Typed, TypedProcesses
      <4>2. QED
        BY <4>1 DEF Finish
    <3>7. QED
      BY <3>1, <3>2, <3>3, <3>5, <3>6 DEF InOrder
  <2>3. QED
    BY <2>1, <2>2
<1>4. Running' \subseteq Running /\ Piped' \subseteq Piped
  BY <1>3 DEF Running, Piped
<1>5. Placed'
  <2>1. \A e \in Device : /\ \A x \in Commands(queue'[e]) : x.device = e
                          /\ hand'[e] # None => hand'[e].device = e
    BY <1>1 DEF Placed
  <2>2. \A t \in Session : \A x \in Elems(pipe'[t]) \cup kernels'[t] : x.on = t
    BY <1>3 DEF Placed
  <2>3. (Waiting \cup Running \cup finished)' \subseteq Waiting \cup Running \cup finished
    BY <1>2, <1>3, <1>4 DEF Waiting
  <2>4. QED
    BY <1>1, <2>1, <2>2, <2>3 DEF Placed
<1>6. InOrder'
  <2>1. \A e \in Device : Ordered(queue'[e])
    BY <1>1 DEF InOrder
  <2>2. /\ \A x \in Held', e \in Queued' : Earlier(x, e)
        /\ \A x \in Piped', e \in Held' \cup Queued' : Earlier(x, e)
        /\ \A x \in Running' \cup finished', e \in Waiting' : Earlier(x, e)
    BY <1>2, <1>3, <1>4 DEF InOrder, Waiting
  <2>3. QED
    BY <1>3, <2>1, <2>2 DEF InOrder
<1>7. QED
  BY <1>1, <1>2, <1>3, <1>4, <1>5, <1>6

\* Nothing moves.
LEMMA StillInOrder ==
  ASSUME Placed, InOrder, UNCHANGED <<queue, hand, pipe, kernels, finished, nr>>
  PROVE  Placed' /\ InOrder' /\ UNCHANGED <<Queued, Held, Piped, Running>>
<1>1. UNCHANGED <<Queued, Held, Piped, Running>>
  BY DEF Queued, Held, Piped, Running
<1>2. Waiting' = Waiting
  BY <1>1 DEF Waiting
<1>3. Placed'
  BY <1>1, <1>2 DEF Placed
<1>4. InOrder'
  BY <1>1, <1>2 DEF InOrder
<1>5. QED
  BY <1>1, <1>3, <1>4

\* A launch or a synchronization is a new command, which its thread has numbered after all others.
LEMMA CallInOrder ==
  ASSUME Typed, Placed, InOrder, NEW h \in Thread, simulator # None, NEW c,
         \/ Launch(h) /\ c = Call(h, "LAUNCH_KERNEL")
         \/ Synchronize(h) /\ c = Call(h, "DEVICE_SYNC")
  PROVE  /\ Placed' /\ InOrder' /\ c \in Command /\ c.by = h /\ c.device = current[h] /\ c.on = simulator
         /\ c.nr = nr[h] + 1 /\ c.round = round[h][<<current[h], simulator>>]
         /\ Enqueue(current[h], c)
         /\ Queued' = Queued \cup {c} /\ UNCHANGED <<Held, Piped, Running>>
         /\ \A x \in Waiting \cup Running \cup finished : Earlier(x, c)
<1>1. c \in Command /\ c.by = h /\ c.device = current[h] /\ c.on = simulator /\ c.nr = nr[h] + 1
      /\ c.round = round[h][<<current[h], simulator>>]
  <2>1. c \in Command
    BY CallTyped DEF Typed
  <2>2. QED
    BY <2>1 DEF Call
<1>2. /\ Enqueue(current[h], c) /\ nr' = [nr EXCEPT ![h] = @ + 1]
      /\ UNCHANGED <<hand, pipe, kernels, finished>> /\ current[h] \in Device
  BY DEF Launch, Synchronize, Count, processVars, Typed, TypedThreads
<1>3. /\ Placed' /\ InOrder' /\ Queued' = Queued \cup {c} /\ UNCHANGED <<Held, Piped, Running>>
      /\ \A x \in Waiting \cup Running \cup finished : Earlier(x, c)
  BY <1>1, <1>2, PutInOrder
<1>4. QED
  BY <1>1, <1>2, <1>3

-------------------------------------------------------------------------------
(* Synchronization: the shape of a plan *)

\* The first step is done.
LEMMA ShapeTail ==
  ASSUME NEW p \in Seq(Step), p # <<>>, Shape(p)
  PROVE  /\ Shape(Tail(p)) /\ Len(Tail(p)) = Len(p) - 1 /\ Len(p) \in Nat \ {0}
         /\ \A i \in 1 .. Len(Tail(p)) : Tail(p)[i] = p[i + 1] /\ i + 1 \in 1 .. Len(p)
         /\ \A i \in 1 .. Len(Tail(p)) : Tail(p)[i][1] # "await"
         /\ p[1][1] \notin {"drain", "await"} => \A i \in 1 .. Len(Tail(p)) : Tail(p)[i][1] \notin {"drain", "await", "back"}
         /\ Tail(p) # <<>> /\ Tail(p)[1][1] = "close" => p[1][1] \in {"back", "sync"}
<1>1. /\ Len(p) \in Nat \ {0} /\ Len(Tail(p)) = Len(p) - 1
      /\ \A i \in 1 .. Len(Tail(p)) : Tail(p)[i] = p[i + 1] /\ i + 1 \in 1 .. Len(p)
  BY HeadTailProperties, EmptySeq, LenProperties
<1>2. 1 \in 1 .. Len(p)
  BY <1>1
<1>3. /\ \A i, j \in 1 .. Len(p) : i < j /\ p[j][1] \in {"drain", "await", "back"} => p[i][1] \in {"drain", "await"}
      /\ \A j \in 1 .. Len(p) : p[j][1] = "await" => j = 1
      /\ \A i \in 1 .. Len(p) : p[i][1] = "close" =>
           /\ i > 1 => p[i - 1][1] \in {"back", "sync"}
           /\ i < Len(p) /\ p[i + 1] = <<"wait", p[i][2]>>
  BY DEF Shape
<1>4. \A i \in 1 .. Len(Tail(p)) : Tail(p)[i][1] # "await"
  BY <1>1, <1>3
<1>5. p[1][1] \notin {"drain", "await"} => \A i \in 1 .. Len(Tail(p)) : Tail(p)[i][1] \notin {"drain", "await", "back"}
  BY <1>1, <1>2, <1>3
<1>6. Tail(p) # <<>> /\ Tail(p)[1][1] = "close" => p[1][1] \in {"back", "sync"}
  <2>1. SUFFICES ASSUME Tail(p) # <<>>, Tail(p)[1][1] = "close" PROVE p[1][1] \in {"back", "sync"}
    OBVIOUS
  <2>2. Tail(p) \in Seq(Step)
    BY HeadTailProperties
  <2>3. 1 \in 1 .. Len(Tail(p))
    BY <2>1, <2>2, EmptySeq, LenProperties
  <2>4. p[2][1] = "close" /\ 2 \in 1 .. Len(p)
    BY <1>1, <2>1, <2>3
  <2>5. QED
    BY <1>3, <2>4
<1>7. Shape(Tail(p))
  <2>1. \A i, j \in 1 .. Len(Tail(p)) : i < j /\ Tail(p)[j][1] \in {"drain", "await", "back"} => Tail(p)[i][1] \in {"drain", "await"}
    BY <1>1, <1>3
  <2>2. ASSUME NEW i \in 1 .. Len(Tail(p)), Tail(p)[i][1] = "close"
        PROVE  /\ i > 1 => Tail(p)[i - 1][1] \in {"back", "sync"}
               /\ i < Len(Tail(p)) /\ Tail(p)[i + 1] = <<"wait", Tail(p)[i][2]>>
    <3>1. p[i + 1][1] = "close" /\ i + 1 \in 1 .. Len(p) /\ Tail(p)[i] = p[i + 1]
      BY <1>1, <2>2
    <3>2. i + 1 < Len(p) /\ p[i + 2] = <<"wait", p[i + 1][2]>> /\ p[i][1] \in {"back", "sync"}
      BY <1>1, <1>3, <3>1
    <3>3. i < Len(Tail(p)) /\ Tail(p)[i + 1] = p[i + 2]
      BY <1>1, <3>2
    <3>4. ASSUME i > 1 PROVE Tail(p)[i - 1] = p[i]
      <4>1. i - 1 \in 1 .. Len(Tail(p)) /\ (i - 1) + 1 = i
        BY <1>1, <3>4
      <4>2. QED
        BY <1>1, <4>1
    <3>5. QED
      BY <3>1, <3>2, <3>3, <3>4
  <2>3. QED
    BY <1>4, <2>1, <2>2 DEF Shape
<1>8. QED
  BY <1>1, <1>4, <1>5, <1>6, <1>7

\* Where the entries of two sequences are when one is put before the other
Joined(r, u, t) ==
  /\ r \in Seq(Step) /\ Len(r) = Len(u) + Len(t) /\ Len(u) \in Nat /\ Len(t) \in Nat
  /\ \A i \in 1 .. Len(u) : i \in 1 .. Len(r) /\ r[i] = u[i]
  /\ \A j \in 1 .. Len(t) : Len(u) + j \in 1 .. Len(r) /\ r[Len(u) + j] = t[j]
  /\ \A i \in 1 .. Len(r) : \/ i \in 1 .. Len(u) /\ r[i] = u[i]
                           \/ \E j \in 1 .. Len(t) : i = Len(u) + j /\ r[i] = t[j]

\* Concatenation puts them there.
LEMMA ConcatPlaces ==
  ASSUME NEW u \in Seq(Step), NEW t \in Seq(Step), NEW r, r = u \o t
  PROVE  Joined(r, u, t)
<1>1. PICK L \in Nat, M \in Nat :
        /\ L = Len(u) /\ M = Len(t) /\ Len(r) = L + M /\ r \in Seq(Step)
        /\ \A i \in 1 .. L + M : r[i] = IF i <= L THEN u[i] ELSE t[i - L]
  <2>1. u \o t \in Seq(Step) /\ Len(u \o t) = Len(u) + Len(t) /\ Len(u) \in Nat /\ Len(t) \in Nat
    BY ConcatProperties, LenProperties
  <2>2. \A i \in 1 .. Len(u) + Len(t) : (u \o t)[i] = IF i <= Len(u) THEN u[i] ELSE t[i - Len(u)]
    BY ConcatProperties
  <2>3. QED
    BY <2>1, <2>2
<1>2. \A j \in 1 .. M : L + j \in 1 .. Len(r) /\ r[L + j] = t[j]
  <2>1. SUFFICES ASSUME NEW j \in 1 .. M PROVE L + j \in 1 .. Len(r) /\ r[L + j] = t[j]
    OBVIOUS
  <2>2. L + j \in 1 .. L + M /\ ~(L + j <= L) /\ (L + j) - L = j
    OBVIOUS
  <2>3. QED
    BY <1>1, <2>2
<1>3. \A i \in 1 .. L : i \in 1 .. Len(r) /\ r[i] = u[i]
  BY <1>1
<1>4. \A i \in 1 .. Len(r) : \/ i \in 1 .. L /\ r[i] = u[i]
                             \/ \E j \in 1 .. M : i = L + j /\ r[i] = t[j]
  <2>1. SUFFICES ASSUME NEW i \in 1 .. Len(r), i \notin 1 .. L PROVE \E j \in 1 .. M : i = L + j /\ r[i] = t[j]
    BY <1>3
  <2>2. i - L \in 1 .. M /\ i = L + (i - L)
    BY <1>1, <2>1
  <2>3. QED
    BY <1>2, <2>2
<1>5. QED
  BY <1>1, <1>2, <1>3, <1>4 DEF Joined

\* Steps put before others
LEMMA ShapeConcat ==
  ASSUME NEW u \in Seq(Step), NEW t \in Seq(Step), Shape(u), Shape(t), u # <<>>,
         \/ \A j \in 1 .. Len(t) : t[j][1] \notin {"drain", "await", "back"}
         \/ \A i \in 1 .. Len(u) : u[i][1] \in {"drain", "await"},
         \A j \in 1 .. Len(t) : t[j][1] # "await",
         t # <<>> /\ t[1][1] = "close" => u[Len(u)][1] \in {"back", "sync"}
  PROVE  /\ Shape(u \o t) /\ u \o t \in Seq(Step) /\ u \o t # <<>> /\ (u \o t)[1] = u[1]
         /\ \A i \in 1 .. Len(u) : i \in 1 .. Len(u \o t) /\ (u \o t)[i] = u[i]
         /\ \A j \in 1 .. Len(t) : Len(u) + j \in 1 .. Len(u \o t) /\ (u \o t)[Len(u) + j] = t[j]
<1>0. PICK r : r = u \o t
  OBVIOUS
<1>1. PICK L \in Nat, M \in Nat :
        /\ L = Len(u) /\ M = Len(t) /\ Len(r) = L + M /\ r \in Seq(Step) /\ L > 0
        /\ \A i \in 1 .. L : i \in 1 .. Len(r) /\ r[i] = u[i]
        /\ \A j \in 1 .. M : L + j \in 1 .. Len(r) /\ r[L + j] = t[j]
        /\ \A i \in 1 .. Len(r) : \/ i \in 1 .. L /\ r[i] = u[i]
                                 \/ \E j \in 1 .. M : i = L + j /\ r[i] = t[j]
  <2>1. Len(u) # 0
    BY EmptySeq
  <2>2. Joined(r, u, t)
    BY <1>0, ConcatPlaces
  <2>3. Len(u) > 0
    BY <2>1, <2>2 DEF Joined
  <2>4. QED
    BY <2>2, <2>3 DEF Joined
<1>2. /\ \A i \in 1 .. L : i \in 1 .. Len(r) /\ r[i] = u[i]
      /\ \A j \in 1 .. M : L + j \in 1 .. Len(r) /\ r[L + j] = t[j]
  BY <1>1
<1>3. \A i \in 1 .. Len(r) : \/ i \in 1 .. L /\ r[i] = u[i]
                             \/ \E j \in 1 .. M : i = L + j /\ r[i] = t[j]
  BY <1>1
<1>4. /\ \A i, j \in 1 .. L : i < j /\ u[j][1] \in {"drain", "await", "back"} => u[i][1] \in {"drain", "await"}
      /\ \A j \in 1 .. L : u[j][1] = "await" => j = 1
      /\ \A i \in 1 .. L : u[i][1] = "close" =>
           /\ i > 1 => u[i - 1][1] \in {"back", "sync"}
           /\ i < L /\ u[i + 1] = <<"wait", u[i][2]>>
  BY <1>1 DEF Shape
<1>5. /\ \A i, j \in 1 .. M : i < j /\ t[j][1] \in {"drain", "await", "back"} => t[i][1] \in {"drain", "await"}
      /\ \A i \in 1 .. M : t[i][1] = "close" =>
           /\ i > 1 => t[i - 1][1] \in {"back", "sync"}
           /\ i < M /\ t[i + 1] = <<"wait", t[i][2]>>
  BY <1>1 DEF Shape
<1>6. ASSUME NEW i \in 1 .. Len(r), NEW j \in 1 .. Len(r), i < j, r[j][1] \in {"drain", "await", "back"}
      PROVE  r[i][1] \in {"drain", "await"}
  <2>1. CASE j \in 1 .. L
    <3>1. i \in 1 .. L /\ r[i] = u[i] /\ r[j] = u[j]
      BY <1>2, <1>6, <2>1
    <3>2. QED
      BY <1>4, <1>6, <2>1, <3>1
  <2>2. CASE j \notin 1 .. L
    <3>1. PICK n \in 1 .. M : j = L + n /\ r[j] = t[n]
      BY <1>3, <2>2
    <3>2. CASE i \in 1 .. L
      BY <1>1, <1>2, <1>6, <3>1, <3>2
    <3>3. CASE i \notin 1 .. L
      <4>1. PICK m \in 1 .. M : i = L + m /\ r[i] = t[m]
        BY <1>3, <3>3
      <4>2. m < n
        BY <1>6, <3>1, <4>1
      <4>3. QED
        BY <1>5, <1>6, <3>1, <4>1, <4>2
    <3>4. QED
      BY <3>2, <3>3
  <2>3. QED
    BY <2>1, <2>2
<1>7. ASSUME NEW j \in 1 .. Len(r), r[j][1] = "await" PROVE j = 1
  <2>1. \A m \in 1 .. M : t[m][1] # "await"
    BY <1>1
  <2>2. j \in 1 .. L /\ r[j] = u[j]
    BY <1>3, <1>7, <2>1
  <2>3. QED
    BY <1>4, <1>7, <2>2
<1>8. ASSUME NEW i \in 1 .. Len(r), r[i][1] = "close"
      PROVE  /\ i > 1 => r[i - 1][1] \in {"back", "sync"}
             /\ i < Len(r) /\ r[i + 1] = <<"wait", r[i][2]>>
  <2>1. CASE i \in 1 .. L
    <3>1. r[i] = u[i] /\ i < L /\ u[i + 1] = <<"wait", u[i][2]>> /\ (i > 1 => u[i - 1][1] \in {"back", "sync"})
      BY <1>2, <1>4, <1>8, <2>1
    <3>2. i + 1 \in 1 .. L /\ (i > 1 => i - 1 \in 1 .. L) /\ i < Len(r)
      BY <1>1, <2>1, <3>1
    <3>3. r[i + 1] = u[i + 1] /\ (i > 1 => r[i - 1] = u[i - 1])
      BY <1>2, <3>2
    <3>4. QED
      BY <3>1, <3>2, <3>3
  <2>2. CASE i \notin 1 .. L
    <3>1. PICK n \in 1 .. M : i = L + n /\ r[i] = t[n]
      BY <1>3, <2>2
    <3>2. n < M /\ t[n + 1] = <<"wait", t[n][2]>> /\ (n > 1 => t[n - 1][1] \in {"back", "sync"})
      BY <1>5, <1>8, <3>1
    <3>3. i < Len(r) /\ r[i + 1] = t[n + 1]
      <4>1. n + 1 \in 1 .. M /\ L + (n + 1) = i + 1
        BY <1>1, <3>1, <3>2
      <4>2. QED
        BY <1>1, <1>2, <3>1, <3>2, <4>1
    <3>4. CASE n > 1
      <4>1. n - 1 \in 1 .. M /\ L + (n - 1) = i - 1
        BY <3>1, <3>4
      <4>2. r[i - 1] = t[n - 1]
        BY <1>2, <4>1
      <4>3. QED
        BY <3>1, <3>2, <3>3, <3>4, <4>2
    <3>5. CASE n = 1
      <4>1. t # <<>> /\ t[1][1] = "close"
        BY <1>1, <1>8, <3>1, <3>5, EmptySeq
      <4>2. u[L][1] \in {"back", "sync"}
        BY <1>1, <4>1
      <4>3. i - 1 = L /\ L \in 1 .. L
        BY <1>1, <3>1, <3>5
      <4>4. r[i - 1] = u[L]
        BY <1>2, <4>3
      <4>5. QED
        BY <3>1, <3>2, <3>3, <4>2, <4>4
    <3>6. QED
      BY <3>4, <3>5
  <2>3. QED
    BY <2>1, <2>2
<1>9. Shape(r)
  BY <1>6, <1>7, <1>8 DEF Shape
<1>10. r # <<>> /\ r[1] = u[1]
  <2>1. Len(r) # 0 /\ 1 \in 1 .. L
    BY <1>1
  <2>2. QED
    BY <1>2, <2>1, EmptySeq
<1>11. QED
  BY <1>0, <1>1, <1>2, <1>9, <1>10, Zenon

\* What the steps of a thread make of the shape of its plan
LEMMA ShapeMoves ==
  ASSUME SessionAssumption, NEW p \in Seq(Step), p # <<>>, Shape(p)
  PROVE  /\ p[1][1] = "drain" => /\ Shape(<<<<"await">>>> \o Tail(p))
                                 /\ (<<<<"await">>>> \o Tail(p))[1] = <<"await">> /\ <<<<"await">>>> \o Tail(p) # <<>>
                                 /\ \A i \in 1 .. Len(p) : i > 1 =>
                                      i \in 1 .. Len(<<<<"await">>>> \o Tail(p)) /\ (<<<<"await">>>> \o Tail(p))[i] = p[i]
         /\ p[1][1] = "exit" => \A s \in Session :
              LET u == <<<<"sync">>, <<"close", s>>, <<"wait", s>>>>
              IN Shape(u \o Tail(p)) /\ (u \o Tail(p))[1] = <<"sync">> /\ u \o Tail(p) # <<>>
         /\ p[1][1] = "sync" => \A d \in Device, n \in Nat :
              LET u == Drains(Registered(d)) \o <<<<"back", n>>>>
              IN /\ Shape(u \o Tail(p)) /\ u \o Tail(p) # <<>> /\ (u \o Tail(p))[1][1] \in {"drain", "back"}
                 /\ d = 0 => \A e \in Device : \E i \in 1 .. Len(u \o Tail(p)) : (u \o Tail(p))[i] = <<"drain", e>>
<1>1. PICK t \in Seq(Step) : t = Tail(p)
  BY HeadTailProperties
<1>2. /\ Shape(t) /\ Len(t) = Len(p) - 1 /\ Len(p) \in Nat \ {0}
      /\ \A i \in 1 .. Len(t) : t[i] = p[i + 1] /\ i + 1 \in 1 .. Len(p)
      /\ \A i \in 1 .. Len(t) : t[i][1] # "await"
      /\ p[1][1] \notin {"drain", "await"} => \A i \in 1 .. Len(t) : t[i][1] \notin {"drain", "await", "back"}
      /\ t # <<>> /\ t[1][1] = "close" => p[1][1] \in {"back", "sync"}
  BY <1>1, ShapeTail, Zenon
<1>3. ASSUME p[1][1] = "drain"
      PROVE  LET u == <<<<"await">>>>
             IN /\ Shape(u \o t) /\ (u \o t)[1] = <<"await">> /\ u \o t # <<>>
                /\ \A i \in 1 .. Len(p) : i > 1 => i \in 1 .. Len(u \o t) /\ (u \o t)[i] = p[i]
  <2>1. PICK u : u = <<<<"await">>>>
    OBVIOUS
  <2>2. u \in Seq(Step) /\ u # <<>> /\ Len(u) = 1 /\ u[1] = <<"await">> /\ u[1][1] = "await"
    BY <2>1 DEF Step
  <2>3. Shape(u) /\ \A i \in 1 .. Len(u) : u[i][1] \in {"drain", "await"}
    BY <2>2 DEF Shape
  <2>4. ~(t # <<>> /\ t[1][1] = "close")
    BY <1>2, <1>3
  <2>5. /\ Shape(u \o t) /\ u \o t # <<>> /\ (u \o t)[1] = u[1]
        /\ \A j \in 1 .. Len(t) : Len(u) + j \in 1 .. Len(u \o t) /\ (u \o t)[Len(u) + j] = t[j]
    <3>1. /\ (t # <<>> /\ t[1][1] = "close") => u[Len(u)][1] \in {"back", "sync"}
          /\ \/ \A j \in 1 .. Len(t) : t[j][1] \notin {"drain", "await", "back"}
             \/ \A i \in 1 .. Len(u) : u[i][1] \in {"drain", "await"}
      BY <2>3, <2>4, Zenon
    <3>2. u \in Seq(Step) /\ t \in Seq(Step) /\ Shape(u) /\ Shape(t) /\ u # <<>> /\ \A j \in 1 .. Len(t) : t[j][1] # "await"
      BY <1>2, <2>2, <2>3, Zenon
    <3>3. QED
      BY <3>1, <3>2, ShapeConcat, ZenonT(40)
  <2>6. PICK r : r = u \o t
    OBVIOUS
  <2>7. \A j \in 1 .. Len(t) : 1 + j \in 1 .. Len(r) /\ r[1 + j] = t[j]
    BY <2>2, <2>5, <2>6, Zenon
  <2>8. ASSUME NEW i \in 1 .. Len(p), i > 1 PROVE i \in 1 .. Len(r) /\ r[i] = p[i]
    <3>1. i - 1 \in 1 .. Len(t) /\ 1 + (i - 1) = i /\ (i - 1) + 1 = i
      BY <1>2, <2>8
    <3>2. QED
      BY <1>2, <2>7, <3>1
  <2>9. QED
    BY <2>1, <2>2, <2>5, <2>6, <2>8, Zenon
<1>4. ASSUME p[1][1] = "exit", NEW s \in Session
      PROVE  LET u == <<<<"sync">>, <<"close", s>>, <<"wait", s>>>>
             IN Shape(u \o t) /\ (u \o t)[1] = <<"sync">> /\ u \o t # <<>>
  <2>1. PICK u : u = <<<<"sync">>, <<"close", s>>, <<"wait", s>>>>
    OBVIOUS
  <2>2. u \in Seq(Step)
    BY <2>1, NewSteps, Zenon
  <2>3. /\ u # <<>> /\ Len(u) = 3 /\ u[1] = <<"sync">> /\ u[2] = <<"close", s>> /\ u[3] = <<"wait", s>>
    BY <2>1
  <2>4. u[1][1] = "sync" /\ u[2][1] = "close" /\ u[2][2] = s /\ u[3][1] = "wait"
    BY <2>3
  <2>5. \A i \in 1 .. Len(u) : i = 1 \/ i = 2 \/ i = 3
    BY <2>3
  <2>6. Shape(u)
    <3>1. \A i \in 1 .. Len(u) : u[i][1] \notin {"drain", "await", "back"}
      BY <2>4, <2>5
    <3>2. ASSUME NEW i \in 1 .. Len(u), u[i][1] = "close"
          PROVE  /\ i > 1 => u[i - 1][1] \in {"back", "sync"}
                 /\ i < Len(u) /\ u[i + 1] = <<"wait", u[i][2]>>
      <4>1. i = 2
        BY <2>4, <2>5, <3>2
      <4>2. QED
        BY <2>3, <2>4, <4>1
    <3>3. QED
      BY <3>1, <3>2 DEF Shape
  <2>7. /\ ~(t # <<>> /\ t[1][1] = "close")
        /\ \A i \in 1 .. Len(t) : t[i][1] \notin {"drain", "await", "back"}
    BY <1>2, <1>4
  <2>8. Shape(u \o t) /\ u \o t # <<>> /\ (u \o t)[1] = u[1]
    BY <1>2, <2>2, <2>3, <2>6, <2>7, ShapeConcat
  <2>9. QED
    BY <2>1, <2>3, <2>8, Zenon
<1>5. ASSUME p[1][1] = "sync", NEW d \in Device, NEW n \in Nat
      PROVE  LET u == Drains(Registered(d)) \o <<<<"back", n>>>>
             IN /\ Shape(u \o t) /\ u \o t # <<>> /\ (u \o t)[1][1] \in {"drain", "back"}
                /\ d = 0 => \A e \in Device : \E i \in 1 .. Len(u \o t) : (u \o t)[i] = <<"drain", e>>
  <2>1. Registered(d) \in SUBSET Nat /\ IsFiniteSet(Registered(d)) /\ Registered(d) \subseteq Device
    BY FS_EmptySet DEF Registered, SessionAssumption
  <2>2. PICK a \in Seq({"drain"} \X Registered(d)), L \in Nat : a = Drains(Registered(d)) /\ L = Len(a)
    <3>1. PICK R : R = Registered(d) /\ R \in SUBSET Nat /\ IsFiniteSet(R)
      BY <2>1
    <3>2. Drains(R) \in Seq({"drain"} \X R)
      BY <3>1, DrainsFacts
    <3>3. PICK b : b = Drains(R)
      OBVIOUS
    <3>4. b \in Seq({"drain"} \X R) /\ Len(b) \in Nat
      BY <3>2, <3>3, LenProperties
    <3>5. QED
      BY <3>1, <3>3, <3>4, Zenon
  <2>3. /\ \A e \in Registered(d) : \E i \in 1 .. L : a[i] = <<"drain", e>>
        /\ \A i \in 1 .. L : a[i][1] = "drain"
    <3>1. \A e \in Registered(d) : \E i \in 1 .. L : a[i] = <<"drain", e>>
      BY <2>1, <2>2, DrainsFacts
    <3>2. \A i \in 1 .. L : a[i] \in {"drain"} \X Registered(d)
      BY <2>2
    <3>3. QED
      BY <3>1, <3>2
  <2>4. PICK u : u = a \o <<<<"back", n>>>>
    OBVIOUS
  <2>5. u \in Seq(Step)
    BY <2>2, <2>4, NewSteps, Zenon
  <2>6. /\ Len(u) = L + 1 /\ \A i \in 1 .. L : u[i] = a[i]
        /\ u[L + 1] = <<"back", n>>
    <3>1. PICK V : V = {"drain"} \X Registered(d) \cup {<<"back", n>>}
      OBVIOUS
    <3>2. a \in Seq(V) /\ <<<<"back", n>>>> \in Seq(V) /\ Len(<<<<"back", n>>>>) = 1 /\ <<<<"back", n>>>>[1] = <<"back", n>>
      BY <2>2, <3>1
    <3>3. /\ Len(u) = Len(a) + 1
          /\ \A i \in 1 .. Len(a) + 1 : u[i] = IF i <= Len(a) THEN a[i] ELSE <<<<"back", n>>>>[i - Len(a)]
      BY <2>4, <3>2, ConcatProperties
    <3>4. QED
      BY <2>2, <3>2, <3>3
  <2>7. u # <<>> /\ \A i \in 1 .. Len(u) : (i \in 1 .. L /\ u[i][1] = "drain") \/ (i = L + 1 /\ u[i][1] = "back")
    <3>1. Len(u) # 0
      BY <2>2, <2>6
    <3>2. u # <<>>
      BY <2>5, <3>1, EmptySeq
    <3>3. \A i \in 1 .. Len(u) : i \in 1 .. L \/ i = L + 1
      BY <2>2, <2>6
    <3>4. \A i \in 1 .. L : u[i][1] = "drain"
      BY <2>3, <2>6
    <3>5. u[L + 1][1] = "back"
      BY <2>6
    <3>6. QED
      BY <3>2, <3>3, <3>4, <3>5, Zenon
  <2>8. Shape(u) /\ u[1][1] \in {"drain", "back"} /\ u[Len(u)][1] = "back"
    <3>1. \A i \in 1 .. Len(u) : u[i][1] \notin {"await", "close"}
      BY <2>7
    <3>2. \A i, j \in 1 .. Len(u) : i < j => u[i][1] = "drain"
      BY <2>2, <2>6, <2>7
    <3>3. Shape(u)
      BY <3>1, <3>2 DEF Shape
    <3>4. 1 \in 1 .. Len(u) /\ Len(u) \in 1 .. Len(u) /\ Len(u) \notin 1 .. L
      BY <2>2, <2>6
    <3>5. QED
      BY <2>7, <3>3, <3>4
  <2>9. \A i \in 1 .. Len(t) : t[i][1] \notin {"drain", "await", "back"}
    BY <1>2, <1>5
  <2>10. /\ Shape(u \o t) /\ u \o t # <<>> /\ (u \o t)[1] = u[1]
         /\ \A i \in 1 .. Len(u) : i \in 1 .. Len(u \o t) /\ (u \o t)[i] = u[i]
    BY <1>2, <2>5, <2>7, <2>8, <2>9, ShapeConcat, SMTT(30)
  <2>11. PICK r : r = u \o t
    OBVIOUS
  <2>12. Shape(r) /\ r # <<>> /\ r[1][1] \in {"drain", "back"} /\ \A i \in 1 .. Len(u) : i \in 1 .. Len(r) /\ r[i] = u[i]
    BY <2>8, <2>10, <2>11, Zenon
  <2>13. ASSUME d = 0, NEW e \in Device PROVE \E i \in 1 .. Len(r) : r[i] = <<"drain", e>>
    <3>1. PICK i \in 1 .. L : a[i] = <<"drain", e>>
      BY <2>3, <2>13 DEF Registered
    <3>2. i \in 1 .. Len(u) /\ u[i] = <<"drain", e>>
      BY <2>2, <2>6, <3>1
    <3>3. QED
      BY <2>12, <3>2
  <2>14. QED
    BY <2>2, <2>4, <2>11, <2>12, <2>13, Zenon
<1>6. QED
  BY <1>1, <1>3, <1>4, <1>5, Zenon

-------------------------------------------------------------------------------
(* The marks of a synchronization *)

\* A change of a queue that a synchronization of thread h does not notice
Quiet(q, r, h) ==
  /\ Mark(h) \in Elems(r) => Mark(h) \in Elems(q)
  /\ MarkOnce(q, h) => MarkOnce(r, h)
  /\ Behind(q, h) => Behind(r, h)
  /\ (\A x \in Elems(q) : ~Of(x, h)) => \A x \in Elems(r) : ~Of(x, h)

\* A task of another thread is put behind all others.
LEMMA QuietAppend ==
  ASSUME NEW h \in Thread, NEW q \in Seq(Task), NEW x \in Task, x # Mark(h), ~Of(x, h)
  PROVE  Quiet(q, Append(q, x), h)
<1>1. PICK r \in Seq(Task), L \in Nat :
        /\ r = Append(q, x) /\ L = Len(q) /\ Len(r) = L + 1
        /\ \A i \in 1 .. L : r[i] = q[i]
        /\ r[L + 1] = x
  <2>1. Append(q, x) \in Seq(Task) /\ Len(Append(q, x)) = Len(q) + 1 /\ Len(q) \in Nat
    BY AppendProperties, LenProperties
  <2>2. (\A i \in 1 .. Len(q) : Append(q, x)[i] = q[i]) /\ Append(q, x)[Len(q) + 1] = x
    BY AppendProperties
  <2>3. QED
    BY <2>1, <2>2
<1>2. Elems(r) = Elems(q) \cup {x}
  <2>1. Elems(Append(q, x)) = Elems(q) \cup {x}
    BY ElemsAppend
  <2>2. QED
    BY <1>1, <2>1, Zenon
<1>3. MarkOnce(q, h) => MarkOnce(r, h)
  <2>1. SUFFICES ASSUME MarkOnce(q, h), NEW m \in 1 .. Len(r), NEW n \in 1 .. Len(r), r[m] = Mark(h), r[n] = Mark(h)
                 PROVE  m = n
    BY DEF MarkOnce
  <2>2. m # L + 1 /\ n # L + 1
    BY <1>1, <2>1
  <2>3. m \in 1 .. L /\ n \in 1 .. L
    BY <1>1, <2>2
  <2>4. q[m] = Mark(h) /\ q[n] = Mark(h)
    BY <1>1, <2>1, <2>3
  <2>5. QED
    BY <1>1, <2>1, <2>3, <2>4 DEF MarkOnce
<1>4. Behind(q, h) => Behind(r, h)
  <2>1. SUFFICES ASSUME NEW m \in 1 .. Len(q), q[m] = Mark(h), \A n \in 1 .. Len(q) : n > m => ~Of(q[n], h)
                 PROVE  Behind(r, h)
    BY DEF Behind
  <2>2. m \in 1 .. Len(r) /\ r[m] = Mark(h)
    BY <1>1, <2>1
  <2>3. ASSUME NEW n \in 1 .. Len(r), n > m PROVE ~Of(r[n], h)
    <3>1. CASE n = L + 1
      BY <1>1, <3>1
    <3>2. CASE n # L + 1
      <4>1. n \in 1 .. Len(q) /\ r[n] = q[n]
        BY <1>1, <3>2
      <4>2. QED
        BY <2>1, <2>3, <4>1
    <3>3. QED
      BY <3>1, <3>2
  <2>4. QED
    BY <2>2, <2>3 DEF Behind
<1>5. QED
  BY <1>1, <1>2, <1>3, <1>4 DEF Quiet

\* The first task of a queue is taken that is no mark of this thread.
LEMMA QuietTail ==
  ASSUME NEW h \in Thread, NEW q \in Seq(Task), q # <<>>, q[1] # Mark(h)
  PROVE  Quiet(q, Tail(q), h)
<1>1. PICK r \in Seq(Task), L \in Nat :
        /\ r = Tail(q) /\ L = Len(r) /\ Len(q) = L + 1
        /\ \A i \in 1 .. L : r[i] = q[i + 1]
  <2>1. Tail(q) \in Seq(Task) /\ Len(Tail(q)) = Len(q) - 1 /\ Len(q) \in Nat /\ Len(q) # 0
    BY HeadTailProperties, EmptySeq, LenProperties
  <2>2. \A i \in 1 .. Len(Tail(q)) : Tail(q)[i] = q[i + 1]
    BY HeadTailProperties
  <2>3. Len(Tail(q)) \in Nat /\ Len(q) = Len(Tail(q)) + 1
    BY <2>1
  <2>4. QED
    BY <2>1, <2>2, <2>3
<1>2. Elems(q) = Elems(r) \cup {q[1]}
  BY <1>1, ElemsTail, Zenon
<1>3. MarkOnce(q, h) => MarkOnce(r, h)
  <2>1. SUFFICES ASSUME MarkOnce(q, h), NEW m \in 1 .. L, NEW n \in 1 .. L, r[m] = Mark(h), r[n] = Mark(h)
                 PROVE  m = n
    BY <1>1 DEF MarkOnce
  <2>2. m + 1 \in 1 .. Len(q) /\ n + 1 \in 1 .. Len(q) /\ q[m + 1] = Mark(h) /\ q[n + 1] = Mark(h)
    BY <1>1, <2>1
  <2>3. m + 1 = n + 1
    BY <2>1, <2>2 DEF MarkOnce
  <2>4. QED
    BY <2>3
<1>4. Behind(q, h) => Behind(r, h)
  <2>1. SUFFICES ASSUME NEW m \in 1 .. Len(q), q[m] = Mark(h), \A n \in 1 .. Len(q) : n > m => ~Of(q[n], h)
                 PROVE  Behind(r, h)
    BY DEF Behind
  <2>2. m # 1
    BY <2>1
  <2>3. m - 1 \in 1 .. L /\ (m - 1) + 1 = m
    BY <1>1, <2>2
  <2>4. r[m - 1] = Mark(h)
    BY <1>1, <2>1, <2>3
  <2>5. ASSUME NEW n \in 1 .. L, n > m - 1 PROVE ~Of(r[n], h)
    <3>1. n + 1 \in 1 .. Len(q) /\ n + 1 > m /\ r[n] = q[n + 1]
      BY <1>1, <2>5
    <3>2. QED
      BY <2>1, <3>1
  <2>6. QED
    BY <1>1, <2>3, <2>4, <2>5 DEF Behind
<1>5. QED
  BY <1>1, <1>2, <1>3, <1>4 DEF Quiet

\* Nothing happens to a queue.
LEMMA QuietSame ==
  ASSUME NEW h, NEW q
  PROVE  Quiet(q, q, h)
BY DEF Quiet

\* A mark is put behind all that its thread has put into a queue; ...
LEMMA MarkAppend ==
  ASSUME NEW h \in Thread, NEW q \in Seq(Task), Mark(h) \notin Elems(q)
  PROVE  MarkOnce(Append(q, Mark(h)), h) /\ Behind(Append(q, Mark(h)), h)
<1>1. Mark(h) \in Task
  BY DEF Mark, Task
<1>2. PICK r \in Seq(Task), L \in Nat :
        /\ r = Append(q, Mark(h)) /\ L = Len(q) /\ Len(r) = L + 1
        /\ \A i \in 1 .. L : r[i] = q[i]
        /\ r[L + 1] = Mark(h)
  <2>1. Append(q, Mark(h)) \in Seq(Task) /\ Len(Append(q, Mark(h))) = Len(q) + 1 /\ Len(q) \in Nat
    BY <1>1, AppendProperties, LenProperties
  <2>2. (\A i \in 1 .. Len(q) : Append(q, Mark(h))[i] = q[i]) /\ Append(q, Mark(h))[Len(q) + 1] = Mark(h)
    BY <1>1, AppendProperties
  <2>3. QED
    BY <2>1, <2>2
<1>3. \A i \in 1 .. L : r[i] # Mark(h)
  BY <1>2 DEF Elems
<1>4. \A i \in 1 .. Len(r) : r[i] = Mark(h) => i = L + 1
  BY <1>2, <1>3
<1>5. MarkOnce(r, h)
  BY <1>4 DEF MarkOnce
<1>6. L + 1 \in 1 .. Len(r) /\ \A n \in 1 .. Len(r) : ~(n > L + 1)
  BY <1>2
<1>7. Behind(r, h)
  BY <1>2, <1>6 DEF Behind
<1>8. QED
  BY <1>2, <1>5, <1>7

\* ... when it is the first, all of that is gone.
LEMMA MarkTail ==
  ASSUME NEW h \in Thread, NEW q \in Seq(Task), q # <<>>, q[1] = Mark(h), MarkOnce(q, h)
  PROVE  /\ Mark(h) \notin Elems(Tail(q))
         /\ Behind(q, h) => \A x \in Elems(Tail(q)) : ~Of(x, h)
<1>1. PICK r \in Seq(Task), L \in Nat :
        /\ r = Tail(q) /\ L = Len(r) /\ Len(q) = L + 1
        /\ \A i \in 1 .. L : r[i] = q[i + 1]
  <2>1. Tail(q) \in Seq(Task) /\ Len(Tail(q)) = Len(q) - 1 /\ Len(q) \in Nat /\ Len(q) # 0
    BY HeadTailProperties, EmptySeq, LenProperties
  <2>2. \A i \in 1 .. Len(Tail(q)) : Tail(q)[i] = q[i + 1]
    BY HeadTailProperties
  <2>3. Len(Tail(q)) \in Nat /\ Len(q) = Len(Tail(q)) + 1
    BY <2>1
  <2>4. QED
    BY <2>1, <2>2, <2>3
<1>2. \A m \in 1 .. Len(q) : q[m] = Mark(h) => m = 1
  <2>1. 1 \in 1 .. Len(q)
    BY <1>1
  <2>2. QED
    BY <2>1 DEF MarkOnce
<1>3. ASSUME NEW n \in 1 .. L PROVE r[n] # Mark(h) /\ n + 1 \in 1 .. Len(q) /\ n + 1 > 1 /\ r[n] = q[n + 1]
  BY <1>1, <1>2
<1>4. Behind(q, h) => \A n \in 1 .. L : ~Of(r[n], h)
  BY <1>2, <1>3 DEF Behind
<1>5. QED
  BY <1>1, <1>3, <1>4 DEF Elems

\* Steps that do not concern the synchronization of a thread
LEMMA FlushKept ==
  ASSUME NEW h \in Thread, Flush(h), plan'[h] = plan[h], current'[h] = current[h],
         \A d \in Device : Quiet(queue[d], queue'[d], h),
         \A d \in Device : NoneOf(h, d) /\ hand'[d] # None => hand'[d].by # h
  PROVE  Flush(h)'
<1>1. \A d \in Device : /\ Mark(h) \in Elems(queue'[d]) => Mark(h) \in Elems(queue[d])
                        /\ MarkOnce(queue[d], h) => MarkOnce(queue'[d], h)
                        /\ Behind(queue[d], h) => Behind(queue'[d], h)
  BY DEF Quiet
<1>2. \A d \in Device : NoneOf(h, d) => NoneOf(h, d)'
  BY DEF Quiet, NoneOf
<1>3. \A d \in Device : Drained(h, d) => Drained(h, d)'
  BY <1>1, <1>2 DEF Drained
<1>4. /\ Draining(h)' => Draining(h)
      /\ \A w : Does(h, w)' <=> Does(h, w)
      /\ Shape(plan'[h])
  BY DEF Draining, Does, Flush
<1>5. \A d \in Device : MarkOnce(queue'[d], h) /\ (Mark(h) \in Elems(queue'[d]) => Does(h, "await")')
  BY <1>1, <1>4 DEF Flush
<1>6. \A d, e \in Device : Mark(h) \in Elems(queue'[d]) /\ Mark(h) \in Elems(queue'[e]) => d = e
  BY <1>1 DEF Flush
<1>7. /\ Draining(h)' /\ current'[h] = 0 => \A d \in Device : Drained(h, d)'
      /\ Does(h, "close")' /\ current'[h] = 0 => \A d \in Device : NoneOf(h, d)'
  BY <1>2, <1>3, <1>4 DEF Flush
<1>8. QED
  BY <1>4, <1>5, <1>6, <1>7 DEF Flush

\* A thread outside of a synchronization
LEMMA FlushOutside ==
  ASSUME NEW h \in Thread, \A d \in Device : Mark(h) \notin Elems(queue'[d]),
         Shape(plan'[h]), ~Draining(h)', ~Does(h, "close")'
  PROVE  Flush(h)'
<1>1. \A d \in Device : MarkOnce(queue'[d], h)
  BY DEF MarkOnce, Elems
<1>2. QED
  BY <1>1 DEF Flush

\* No mark of a thread that does not wait for one is in a queue.
LEMMA NoMark ==
  ASSUME NEW h \in Thread, Flush(h), plan[h][1][1] # "await", NEW d \in Device, NEW p \in Seq(Step), p = plan[h]
  PROVE  Mark(h) \notin Elems(queue[d]) /\ ~Behind(queue[d], h)
<1>1. ~Does(h, "await")
  BY DEF Does
<1>2. Mark(h) \notin Elems(queue[d])
  BY <1>1 DEF Flush
<1>3. QED
  BY <1>2 DEF Behind, Elems

-------------------------------------------------------------------------------
(* Flushing is kept *)

\* What is put into a queue, at its end
LEMMA Enqueued ==
  ASSUME TypedStreams, NEW d \in Device, NEW x, Enqueue(d, x)
  PROVE  queue'[d] = Append(queue[d], x) /\ queue[d] \in Seq(Task) /\ \A e \in Device : e # d => queue'[e] = queue[e]
BY DEF TypedStreams, Enqueue

\* The other threads, when one puts a task into a queue, or none
LEMMA FlushOthers ==
  ASSUME Typed, NEW h \in Thread, NEW g \in Thread, g # h, Flush(g),
         plan'[g] = plan[g], current'[g] = current[g], hand' = hand,
         queue' = queue \/ \E d \in Device, x \in Task : x.by = h /\ Enqueue(d, x)
  PROVE  Flush(g)'
<1>1. \A d \in Device : Quiet(queue[d], queue'[d], g)
  <2>1. CASE queue' = queue
    BY <2>1, QuietSame
  <2>2. ASSUME NEW d \in Device, NEW x \in Task, x.by = h, Enqueue(d, x), NEW e \in Device
        PROVE  Quiet(queue[e], queue'[e], g)
    <3>1. TypedStreams
      BY DEF Typed
    <3>2. /\ queue'[d] = Append(queue[d], x) /\ queue[d] \in Seq(Task)
          /\ e # d => queue'[e] = queue[e]
      BY <2>2, <3>1, Enqueued
    <3>3. x # Mark(g) /\ ~Of(x, g)
      BY <2>2 DEF Mark, Of
    <3>4. CASE e = d
      <4>1. Quiet(queue[d], Append(queue[d], x), g)
        BY <3>2, <3>3, QuietAppend
      <4>2. QED
        BY <3>2, <3>4, <4>1
    <3>5. CASE e # d
      BY <3>2, <3>5, QuietSame
    <3>6. QED
      BY <3>4, <3>5
  <2>3. QED
    BY <2>1, <2>2
<1>2. \A d \in Device : NoneOf(g, d) /\ hand'[d] # None => hand'[d].by # g
  BY DEF NoneOf
<1>3. QED
  BY <1>1, <1>2, FlushKept

\* A thread that puts a command into a queue, or nothing, has no mark in a queue then.
LEMMA NoMarkThen ==
  ASSUME SessionAssumption, Typed, NEW h \in Thread, Flush(h), plan[h] # <<>>, plan[h][1][1] # "await",
         queue' = queue \/ \E d \in Device, x \in Command : Enqueue(d, x)
  PROVE  \A d \in Device : Mark(h) \notin Elems(queue'[d])
<1>0. plan[h] \in Seq(Step)
  BY DEF Typed, TypedThreads
<1>1. \A d \in Device : Mark(h) \notin Elems(queue[d])
  BY <1>0, NoMark
<1>2. ASSUME NEW d \in Device, NEW x \in Command, Enqueue(d, x), NEW e \in Device
      PROVE  Mark(h) \notin Elems(queue'[e])
  <2>1. TypedStreams
    BY DEF Typed
  <2>2. /\ queue'[d] = Append(queue[d], x) /\ queue[d] \in Seq(Task)
        /\ e # d => queue'[e] = queue[e]
    BY <1>2, <2>1, Enqueued
  <2>3. x # Mark(h) /\ x \in Task
    BY DEF Command, Mark, Task
  <2>4. Elems(Append(queue[d], x)) = Elems(queue[d]) \cup {x}
    BY <2>2, <2>3, ElemsAppend
  <2>5. QED
    BY <1>1, <2>2, <2>3, <2>4
<1>3. QED
  BY <1>1, <1>2

\* The steps of a thread outside of synchronizations, and the ones that begin and end it
LEMMA FlushStep1 ==
  ASSUME SessionAssumption, Typed, NEW h \in Thread, Flush(h),
         \/ SetDevice(h) \/ EnterContext(h) \/ LeaveContext(h) \/ Start(h) \/ Enter(h) \/ Launch(h)
         \/ LaunchRaises(h) \/ Exit(h) \/ Close(h) \/ WaitForProcess(h)
  PROVE  Flush(h)'
<1>1. TypedThreads /\ plan \in [Thread -> Seq(Step)] /\ plan[h] \in Seq(Step) /\ Shape(plan[h])
  BY DEF Typed, TypedThreads, Flush
<1>2. CASE Start(h)
  <2>1. plan'[h] = plan[h] /\ current'[h] = current[h] /\ queue' = queue /\ hand' = hand
    BY <1>2 DEF Start, threadVars, streamVars
  <2>2. \A d \in Device : Quiet(queue[d], queue'[d], h)
    BY <2>1, QuietSame
  <2>3. \A d \in Device : NoneOf(h, d) /\ hand'[d] # None => hand'[d].by # h
    BY <2>1 DEF NoneOf
  <2>4. QED
    BY <2>1, <2>2, <2>3, FlushKept
<1>3. ASSUME NEW w \in {"device", "with", "leave", "enter", "launch", "close", "wait"}, Does(h, w), Continue(h),
             queue' = queue \/ \E d \in Device, x \in Command : Enqueue(d, x)
      PROVE  Flush(h)'
  <2>1. plan[h] # <<>> /\ plan[h][1][1] = w
    BY <1>1, <1>3 DEF Does
  <2>2. plan'[h] = Tail(plan[h])
    BY <1>1, <1>3, <2>1, PlanMoves
  <2>3. PICK p \in Seq(Step), t \in Seq(Step) : p = plan[h] /\ t = Tail(p)
    BY <1>1, <2>1, HeadTailProperties
  <2>4. /\ Shape(t) /\ Len(t) = Len(p) - 1 /\ Len(p) \in Nat \ {0}
        /\ p[1][1] \notin {"drain", "await"} => \A i \in 1 .. Len(t) : t[i][1] \notin {"drain", "await", "back"}
        /\ t # <<>> /\ t[1][1] = "close" => p[1][1] \in {"back", "sync"}
    BY <1>1, <2>1, <2>3, ShapeTail, Zenon
  <2>5. t # <<>> => t[1][1] \notin {"drain", "await", "back", "close"}
    <3>1. t # <<>> => 1 \in 1 .. Len(t)
      BY EmptySeq, LenProperties
    <3>2. p[1][1] \notin {"drain", "await", "back", "sync"}
      BY <2>1, <2>3
    <3>3. QED
      BY <2>4, <3>1, <3>2
  <2>6. Shape(plan'[h]) /\ ~Draining(h)' /\ ~Does(h, "close")'
    BY <2>2, <2>3, <2>4, <2>5 DEF Draining, Does
  <2>7. \A d \in Device : Mark(h) \notin Elems(queue'[d])
    BY <1>3, <2>1, NoMarkThen
  <2>8. QED
    BY <2>6, <2>7, FlushOutside
<1>4. CASE LaunchRaises(h)
  <2>1. plan'[h] = <<>> /\ queue' = queue /\ plan[h] # <<>> /\ plan[h][1][1] = "launch"
    BY <1>1, <1>4 DEF LaunchRaises, Does, streamVars
  <2>2. Shape(<<>>)
    BY DEF Shape
  <2>3. Shape(plan'[h]) /\ ~Draining(h)' /\ ~Does(h, "close")'
    BY <2>1, <2>2 DEF Draining, Does
  <2>4. \A d \in Device : Mark(h) \notin Elems(queue'[d])
    BY <2>1, NoMarkThen
  <2>5. QED
    BY <2>3, <2>4, FlushOutside
<1>5. CASE Exit(h)
  <2>1. /\ plan[h] # <<>> /\ plan[h][1][1] = "exit" /\ Operand(h) \in Session /\ queue' = queue
    BY <1>1, <1>5, HeadStep DEF Exit, streamVars
  <2>2. PICK s \in Session : s = Operand(h)
    BY <2>1
  <2>3. PICK u \in Seq(Step) : u = <<<<"sync">>, <<"close", s>>, <<"wait", s>>>>
    BY NewSteps
  <2>4. plan'[h] = u \o Tail(plan[h])
    <3>1. Instead(h, u)
      BY <1>5, <2>2, <2>3 DEF Exit
    <3>2. QED
      BY <1>1, <2>1, <3>1, PlanMoves
  <2>5. Shape(u \o Tail(plan[h])) /\ (u \o Tail(plan[h]))[1] = <<"sync">>
    BY <1>1, <2>1, <2>3, ShapeMoves, Zenon
  <2>6. Shape(plan'[h]) /\ plan'[h][1] = <<"sync">>
    BY <2>4, <2>5
  <2>7. ~Draining(h)' /\ ~Does(h, "close")'
    BY <2>6 DEF Draining, Does
  <2>8. \A d \in Device : Mark(h) \notin Elems(queue'[d])
    BY <2>1, NoMarkThen
  <2>9. QED
    BY <2>6, <2>7, <2>8, FlushOutside
<1>6. Launch(h) => \E d \in Device, x \in Command : Enqueue(d, x)
  <2>1. ASSUME Launch(h) PROVE \E d \in Device, x \in Command : Enqueue(d, x)
    <3>1. simulator # None /\ Enqueue(current[h], Call(h, "LAUNCH_KERNEL"))
      BY <2>1 DEF Launch
    <3>2. Call(h, "LAUNCH_KERNEL") \in Command /\ current[h] \in Device
      BY <2>1, <3>1, CallTyped DEF Typed, TypedThreads, Launch
    <3>3. QED
      BY <3>1, <3>2
  <2>2. QED
    BY <2>1
<1>7. \/ SetDevice(h) /\ Does(h, "device") /\ Continue(h) /\ queue' = queue
      \/ EnterContext(h) /\ Does(h, "with") /\ Continue(h) /\ queue' = queue
      \/ LeaveContext(h) /\ Does(h, "leave") /\ Continue(h) /\ queue' = queue
      \/ Start(h)
      \/ Enter(h) /\ Does(h, "enter") /\ Continue(h) /\ queue' = queue
      \/ Launch(h) /\ Does(h, "launch") /\ Continue(h)
      \/ LaunchRaises(h) \/ Exit(h)
      \/ Close(h) /\ Does(h, "close") /\ Continue(h) /\ queue' = queue
      \/ WaitForProcess(h) /\ Does(h, "wait") /\ Continue(h) /\ queue' = queue
  BY DEF SetDevice, EnterContext, LeaveContext, Enter, Launch, Close, WaitForProcess, streamVars
<1>8. QED
  BY <1>2, <1>3, <1>4, <1>5, <1>6, <1>7

\* A synchronization begins: it waits for every stream, if it does on device 0.
LEMMA FlushSynchronize ==
  ASSUME SessionAssumption, Typed, NEW h \in Thread, Flush(h), Synchronize(h)
  PROVE  Flush(h)'
<1>1. TypedThreads /\ TypedSessions /\ plan \in [Thread -> Seq(Step)] /\ plan[h] \in Seq(Step) /\ Shape(plan[h])
      /\ current[h] \in Device
  BY DEF Typed, TypedThreads, Flush
<1>2. plan[h] # <<>> /\ plan[h][1][1] = "sync" /\ current' = current
  BY <1>1, HeadStep DEF Synchronize
<1>3. queue' = queue \/ \E d \in Device, x \in Command : Enqueue(d, x)
  <2>1. CASE simulator = None
    BY <2>1 DEF Synchronize
  <2>2. CASE simulator # None
    <3>1. Enqueue(current[h], Call(h, "DEVICE_SYNC"))
      BY <2>2 DEF Synchronize
    <3>2. Call(h, "DEVICE_SYNC") \in Command
      BY <1>1, <2>2, CallTyped
    <3>3. QED
      BY <1>1, <3>1, <3>2
  <2>3. QED
    BY <2>1, <2>2
<1>4. \A d \in Device : Mark(h) \notin Elems(queue'[d])
  BY <1>2, <1>3, NoMarkThen
<1>5. nr'[h] \in Nat
  <2>1. CASE simulator = None
    BY <1>1, <2>1 DEF Synchronize, TypedThreads
  <2>2. CASE simulator # None
    BY <1>1, <2>2 DEF Synchronize, TypedThreads, Count
  <2>3. QED
    BY <2>1, <2>2
<1>6. PICK n \in Nat, d \in Device : n = nr'[h] /\ d = current[h]
  BY <1>1, <1>5
<1>7. PICK u \in Seq(Step) : u = Drains(Registered(d)) \o <<<<"back", n>>>>
  BY NewSteps
<1>8. plan'[h] = u \o Tail(plan[h])
  <2>1. Instead(h, u)
    BY <1>6, <1>7 DEF Synchronize
  <2>2. QED
    BY <1>1, <1>2, <2>1, PlanMoves
<1>9. PICK p \in Seq(Step) : p = plan[h]
  BY <1>1
<1>10. /\ Shape(u \o Tail(p)) /\ (u \o Tail(p))[1][1] \in {"drain", "back"} /\ u \o Tail(p) # <<>>
       /\ d = 0 => \A e \in Device : \E i \in 1 .. Len(u \o Tail(p)) : (u \o Tail(p))[i] = <<"drain", e>>
  <2>1. p # <<>> /\ Shape(p) /\ p[1][1] = "sync"
    BY <1>1, <1>2, <1>9
  <2>2. \A e \in Device, m \in Nat :
          LET v == Drains(Registered(e)) \o <<<<"back", m>>>>
          IN /\ Shape(v \o Tail(p)) /\ v \o Tail(p) # <<>> /\ (v \o Tail(p))[1][1] \in {"drain", "back"}
             /\ e = 0 => \A g \in Device : \E i \in 1 .. Len(v \o Tail(p)) : (v \o Tail(p))[i] = <<"drain", g>>
    BY <2>1, ShapeMoves, Zenon
  <2>3. QED
    BY <1>7, <2>2, Zenon
<1>11. /\ Shape(plan'[h]) /\ plan'[h][1][1] \in {"drain", "back"} /\ plan'[h] # <<>>
       /\ d = 0 => \A e \in Device : \E i \in 1 .. Len(plan'[h]) : plan'[h][i] = <<"drain", e>>
  BY <1>8, <1>9, <1>10, Zenon
<1>12. ~Does(h, "close")'
  BY <1>11 DEF Does
<1>13. \A e \in Device : MarkOnce(queue'[e], h)
  BY <1>4 DEF MarkOnce, Elems
<1>14. current'[h] = 0 => \A e \in Device : Drained(h, e)'
  BY <1>2, <1>6, <1>11 DEF Drained
<1>15. QED
  BY <1>4, <1>11, <1>12, <1>13, <1>14 DEF Flush

\* A mark is put into the queue of a stream, and waited for.
LEMMA FlushDrain ==
  ASSUME SessionAssumption, Typed, NEW h \in Thread, Flush(h), Drain(h)
  PROVE  Flush(h)'
<1>1. TypedThreads /\ TypedStreams /\ plan \in [Thread -> Seq(Step)] /\ plan[h] \in Seq(Step) /\ Shape(plan[h])
  BY DEF Typed, TypedThreads, Flush
<1>2. plan[h] # <<>> /\ plan[h][1][1] = "drain" /\ current' = current /\ hand' = hand
      /\ Operand(h) \in Device /\ plan[h][1] = <<"drain", Operand(h)>>
  BY <1>1, HeadStep DEF Drain
<1>3. PICK p \in Seq(Step), c \in Device : p = plan[h] /\ c = Operand(h)
  BY <1>1, <1>2
<1>4. PICK u \in Seq(Step) : u = <<<<"await">>>>
  BY NewSteps
<1>5. plan'[h] = u \o Tail(p)
  <2>1. Instead(h, u)
    BY <1>4 DEF Drain
  <2>2. QED
    BY <1>1, <1>2, <1>3, <2>1, PlanMoves
<1>6. /\ Shape(u \o Tail(p)) /\ (u \o Tail(p))[1] = <<"await">> /\ u \o Tail(p) # <<>>
      /\ \A i \in 1 .. Len(p) : i > 1 => i \in 1 .. Len(u \o Tail(p)) /\ (u \o Tail(p))[i] = p[i]
  BY <1>1, <1>2, <1>3, <1>4, ShapeMoves, Zenon
<1>7. /\ Shape(plan'[h]) /\ plan'[h][1] = <<"await">> /\ plan'[h] # <<>>
      /\ \A i \in 1 .. Len(p) : i > 1 => i \in 1 .. Len(plan'[h]) /\ plan'[h][i] = p[i]
  BY <1>5, <1>6, Zenon
<1>8. Does(h, "await")' /\ ~Does(h, "close")' /\ Draining(h)
  BY <1>1, <1>2, <1>7 DEF Does, Draining
<1>9. \A d \in Device : Mark(h) \notin Elems(queue[d]) /\ ~Behind(queue[d], h)
  BY <1>1, <1>2, NoMark
<1>10. /\ queue'[c] = Append(queue[c], Mark(h)) /\ queue[c] \in Seq(Task)
       /\ \A e \in Device : e # c => queue'[e] = queue[e]
  BY <1>1, <1>3, Enqueued DEF Drain
<1>11. MarkOnce(queue'[c], h) /\ Behind(queue'[c], h)
  BY <1>9, <1>10, MarkAppend
<1>12. \A e \in Device : e # c => Mark(h) \notin Elems(queue'[e])
  BY <1>9, <1>10
<1>13. \A e \in Device : MarkOnce(queue'[e], h)
  BY <1>11, <1>12 DEF MarkOnce, Elems
<1>14. ASSUME current'[h] = 0, NEW d \in Device PROVE Drained(h, d)'
  <2>1. Drained(h, d)
    BY <1>2, <1>8, <1>14 DEF Flush
  <2>2. CASE d = c
    BY <1>11, <2>2 DEF Drained
  <2>3. CASE d # c
    <3>1. ASSUME NEW i \in 1 .. Len(plan[h]), plan[h][i] = <<"drain", d>> PROVE Drained(h, d)'
      <4>1. i # 1
        BY <1>2, <1>3, <2>3, <3>1
      <4>2. i > 1
        BY <4>1
      <4>3. i \in 1 .. Len(plan'[h]) /\ plan'[h][i] = <<"drain", d>>
        BY <1>3, <1>7, <3>1, <4>2
      <4>4. QED
        BY <4>3 DEF Drained
    <3>2. ASSUME NoneOf(h, d) PROVE Drained(h, d)'
      BY <1>2, <1>10, <2>3, <3>2 DEF NoneOf, Drained
    <3>3. QED
      BY <1>9, <2>1, <3>1, <3>2 DEF Drained
  <2>4. QED
    BY <2>2, <2>3
<1>15. QED
  BY <1>7, <1>8, <1>12, <1>13, <1>14 DEF Flush

\* A thread that waits for nothing more has nothing in the streams it has waited for.
LEMMA NothingLeft ==
  ASSUME Typed, NEW h \in Thread, Flush(h), Does(h, "back"), current[h] = 0, NEW d \in Device
  PROVE  NoneOf(h, d)
<1>1. plan[h] \in Seq(Step) /\ Shape(plan[h]) /\ plan[h] # <<>> /\ plan[h][1][1] = "back"
  BY DEF Typed, TypedThreads, Flush, Does
<1>2. Drained(h, d)
  BY <1>1 DEF Flush, Draining
<1>3. ~Behind(queue[d], h)
  BY <1>1, NoMark
<1>4. ASSUME NEW i \in 1 .. Len(plan[h]), plan[h][i] = <<"drain", d>> PROVE FALSE
  <2>1. plan[h][i][1] = "drain"
    BY <1>4
  <2>2. 1 \in 1 .. Len(plan[h]) /\ (i = 1 \/ 1 < i)
    BY <1>1, EmptySeq, LenProperties
  <2>3. QED
    BY <1>1, <2>1, <2>2 DEF Shape
<1>5. QED
  BY <1>2, <1>3, <1>4 DEF Drained

\* A synchronization returns.
LEMMA FlushReturn ==
  ASSUME SessionAssumption, Typed, NEW h \in Thread, Flush(h), Return(h)
  PROVE  Flush(h)'
<1>1. TypedThreads /\ plan \in [Thread -> Seq(Step)] /\ plan[h] \in Seq(Step) /\ Shape(plan[h])
  BY DEF Typed, TypedThreads, Flush
<1>2. /\ plan[h] # <<>> /\ plan[h][1][1] = "back" /\ Does(h, "back")
      /\ current' = current /\ queue' = queue /\ hand' = hand
  BY <1>1, HeadStep DEF Return, streamVars
<1>3. plan'[h] = Tail(plan[h])
  BY <1>1, <1>2, PlanMoves DEF Return
<1>4. PICK p \in Seq(Step), t \in Seq(Step) : p = plan[h] /\ t = Tail(p)
  BY <1>1, <1>2, HeadTailProperties
<1>5. /\ Shape(t)
      /\ p[1][1] \notin {"drain", "await"} => \A i \in 1 .. Len(t) : t[i][1] \notin {"drain", "await", "back"}
  BY <1>1, <1>2, <1>4, ShapeTail, Zenon
<1>6. ~Draining(h)'
  <2>1. t # <<>> => 1 \in 1 .. Len(t)
    BY EmptySeq, LenProperties
  <2>2. QED
    BY <1>2, <1>3, <1>4, <1>5, <2>1 DEF Draining
<1>7. \A d \in Device : Mark(h) \notin Elems(queue[d])
  BY <1>1, <1>2, NoMark
<1>8. \A d \in Device : MarkOnce(queue'[d], h) /\ Mark(h) \notin Elems(queue'[d])
  BY <1>2, <1>7 DEF MarkOnce, Elems
<1>9. current'[h] = 0 => \A d \in Device : NoneOf(h, d)'
  BY <1>2, NothingLeft DEF NoneOf
<1>10. QED
  BY <1>3, <1>4, <1>5, <1>6, <1>8, <1>9 DEF Flush

\* A step of a thread
LEMMA FlushThread ==
  ASSUME SessionAssumption, Typed, Flushing, NEW h \in Thread, ThreadStep(h)
  PROVE  Flushing'
<1>1. Flush(h) /\ Flush(h)'
  BY FlushStep1, FlushSynchronize, FlushDrain, FlushReturn DEF ThreadStep, Flushing
<1>2. TypedThreads /\ TypedSessions /\ plan \in [Thread -> Seq(Step)] /\ plan[h] \in Seq(Step)
  BY DEF Typed, TypedThreads
<1>3. ASSUME NEW g \in Thread, g # h PROVE plan'[g] = plan[g] /\ current'[g] = current[g]
  <2>1. CASE Start(h)
    BY <2>1 DEF Start, threadVars
  <2>2. CASE LaunchRaises(h)
    BY <1>2, <1>3, <2>2 DEF LaunchRaises
  <2>3. CASE ~Start(h) /\ ~LaunchRaises(h)
    <3>1. plan'[g] = plan[g]
      BY <1>2, <1>3, <2>3 DEF ThreadStep, Continue, Instead, SetDevice, EnterContext, LeaveContext, Enter, Launch,
        Synchronize, Drain, Return, Exit, Close, WaitForProcess
    <3>2. current'[g] = current[g]
      BY <1>2, <1>3, <2>3 DEF ThreadStep, TypedThreads, SetDevice, EnterContext, LeaveContext, Enter, Launch,
        Synchronize, Drain, Return, Exit, Close, WaitForProcess
    <3>3. QED
      BY <3>1, <3>2
  <2>4. QED
    BY <2>1, <2>2, <2>3
<1>4. /\ hand' = hand
      /\ queue' = queue \/ \E d \in Device, x \in Task : x.by = h /\ Enqueue(d, x)
  <2>1. CASE Launch(h)
    <3>1. /\ Enqueue(current[h], Call(h, "LAUNCH_KERNEL")) /\ current[h] \in Device /\ hand' = hand
          /\ Call(h, "LAUNCH_KERNEL") \in Command
      BY <1>2, <2>1, CallTyped DEF Launch, TypedThreads
    <3>2. Call(h, "LAUNCH_KERNEL") \in Task /\ Call(h, "LAUNCH_KERNEL").by = h
      BY <3>1 DEF Task, Call
    <3>3. QED
      BY <3>1, <3>2
  <2>2. CASE Synchronize(h) /\ simulator # None
    <3>1. /\ Enqueue(current[h], Call(h, "DEVICE_SYNC")) /\ current[h] \in Device /\ hand' = hand
          /\ Call(h, "DEVICE_SYNC") \in Command
      BY <1>2, <2>2, CallTyped DEF Synchronize, TypedThreads
    <3>2. Call(h, "DEVICE_SYNC") \in Task /\ Call(h, "DEVICE_SYNC").by = h
      BY <3>1 DEF Task, Call
    <3>3. QED
      BY <3>1, <3>2
  <2>3. CASE Synchronize(h) /\ simulator = None
    BY <2>3 DEF Synchronize
  <2>4. CASE Drain(h)
    <3>1. Operand(h) \in Device /\ Enqueue(Operand(h), Mark(h)) /\ hand' = hand
      BY <1>2, <2>4, HeadStep DEF Drain
    <3>2. Mark(h) \in Task /\ Mark(h).by = h
      BY DEF Mark, Task
    <3>3. QED
      BY <3>1, <3>2
  <2>5. CASE ~Launch(h) /\ ~Synchronize(h) /\ ~Drain(h)
    BY <2>5 DEF ThreadStep, SetDevice, EnterContext, LeaveContext, Start, Enter, LaunchRaises, Return, Exit, Close,
      WaitForProcess, streamVars
  <2>6. QED
    BY <2>1, <2>2, <2>3, <2>4, <2>5
<1>5. \A g \in Thread : g # h => Flush(g)'
  BY <1>3, <1>4, FlushOthers DEF Flushing
<1>6. QED
  BY <1>1, <1>5 DEF Flushing

\* A thread is woken: what it had put before its mark is gone.
LEMMA FlushWaken ==
  ASSUME SessionAssumption, Typed, Flushing, NEW d \in Device, Waken(d)
  PROVE  Flushing'
<1>1. /\ TypedThreads /\ TypedStreams /\ plan \in [Thread -> Seq(Step)]
      /\ current' = current /\ hand' = hand /\ hand[d] = None /\ queue[d] # <<>>
  BY DEF Typed, TypedThreads, Waken
<1>2. PICK h \in Thread, q \in Seq(Task) : q = queue[d] /\ h = q[1].by /\ q[1] = Mark(h) /\ Head(queue[d]).by = h
  BY <1>1, HeadTask DEF Waken
<1>3. /\ queue'[d] = Tail(q)
      /\ \A e \in Device : e # d => queue'[e] = queue[e]
  BY <1>1, <1>2 DEF Waken, Pop, TypedStreams
<1>4. q # <<>> /\ Mark(h) \in Elems(q)
  <2>1. q # <<>>
    BY <1>1, <1>2
  <2>2. q[1] \in Elems(q)
    BY <2>1, ElemsEmpty
  <2>3. QED
    BY <1>2, <2>1, <2>2
<1>5. Flush(h) /\ Does(h, "await") /\ plan[h] \in Seq(Step) /\ plan[h] # <<>> /\ plan[h][1][1] = "await" /\ Shape(plan[h])
  <2>1. Flush(h) /\ plan[h] \in Seq(Step)
    BY <1>1 DEF Flushing
  <2>2. Shape(plan[h]) /\ Does(h, "await")
    BY <1>2, <1>4, <2>1 DEF Flush
  <2>3. plan[h] # <<>> /\ plan[h][1][1] = "await"
    BY <2>1, <2>2 DEF Does
  <2>4. QED
    BY <2>1, <2>2, <2>3
<1>6. Continue(h)
  BY <1>2 DEF Waken
<1>7. plan'[h] = Tail(plan[h]) /\ \A g \in Thread : g # h => plan'[g] = plan[g]
  BY <1>1, <1>5, <1>6, PlanMoves
<1>8. ASSUME NEW g \in Thread, g # h PROVE Flush(g)'
  <2>1. q[1] # Mark(g)
    BY <1>2, <1>8 DEF Mark
  <2>2. Quiet(q, Tail(q), g)
    BY <1>4, <2>1, QuietTail
  <2>3. \A e \in Device : Quiet(queue[e], queue'[e], g)
    BY <1>2, <1>3, <2>2, QuietSame
  <2>4. \A e \in Device : NoneOf(g, e) /\ hand'[e] # None => hand'[e].by # g
    BY <1>1 DEF NoneOf
  <2>5. QED
    BY <1>1, <1>7, <1>8, <2>3, <2>4, FlushKept DEF Flushing
<1>9. MarkOnce(q, h) /\ \A e \in Device : e # d => Mark(h) \notin Elems(queue[e])
  BY <1>2, <1>4, <1>5 DEF Flush
<1>10. /\ Mark(h) \notin Elems(Tail(q))
       /\ Behind(q, h) => \A x \in Elems(Tail(q)) : ~Of(x, h)
  BY <1>2, <1>4, <1>9, MarkTail
<1>11. \A e \in Device : Mark(h) \notin Elems(queue'[e])
  BY <1>3, <1>9, <1>10
<1>12. PICK p \in Seq(Step), t \in Seq(Step) : p = plan[h] /\ t = Tail(p)
  BY <1>1, <1>5, HeadTailProperties
<1>13. /\ Shape(t) /\ Len(t) = Len(p) - 1 /\ Len(p) \in Nat \ {0}
       /\ \A i \in 1 .. Len(t) : t[i] = p[i + 1] /\ i + 1 \in 1 .. Len(p)
       /\ t # <<>> /\ t[1][1] = "close" => p[1][1] \in {"back", "sync"}
  BY <1>5, <1>12, ShapeTail, Zenon
<1>14. Shape(plan'[h]) /\ ~Does(h, "close")'
  BY <1>5, <1>7, <1>12, <1>13 DEF Does
<1>15. ASSUME current'[h] = 0, NEW e \in Device PROVE Drained(h, e)'
  <2>1. Drained(h, e)
    BY <1>1, <1>5, <1>15 DEF Flush, Draining
  <2>2. ASSUME NEW i \in 1 .. Len(plan[h]), plan[h][i] = <<"drain", e>> PROVE Drained(h, e)'
    <3>1. i # 1
      BY <1>5, <2>2
    <3>2. i - 1 \in 1 .. Len(t) /\ (i - 1) + 1 = i
      BY <1>12, <1>13, <3>1
    <3>3. t[i - 1] = <<"drain", e>>
      BY <1>12, <1>13, <2>2, <3>2
    <3>4. i - 1 \in 1 .. Len(plan'[h]) /\ plan'[h][i - 1] = <<"drain", e>>
      BY <1>7, <1>12, <3>2, <3>3
    <3>5. QED
      BY <3>4 DEF Drained
  <2>3. ASSUME Behind(queue[e], h) PROVE NoneOf(h, e)'
    <3>1. Mark(h) \in Elems(queue[e])
      BY <2>3 DEF Behind, Elems
    <3>2. e = d
      BY <1>9, <3>1
    <3>3. QED
      BY <1>1, <1>2, <1>3, <1>10, <2>3, <3>2 DEF NoneOf
  <2>4. ASSUME NoneOf(h, e) PROVE NoneOf(h, e)'
    <3>1. Elems(queue'[e]) \subseteq Elems(queue[e])
      <4>1. Elems(q) = Elems(Tail(q)) \cup {q[1]}
        BY <1>4, ElemsTail
      <4>2. QED
        BY <1>2, <1>3, <4>1
    <3>2. QED
      BY <1>1, <2>4, <3>1 DEF NoneOf
  <2>5. QED
    BY <2>1, <2>2, <2>3, <2>4 DEF Drained
<1>16. \A e \in Device : MarkOnce(queue'[e], h)
  BY <1>11 DEF MarkOnce, Elems
<1>17. Flush(h)'
  BY <1>11, <1>14, <1>15, <1>16 DEF Flush
<1>18. QED
  BY <1>8, <1>17 DEF Flushing

\* The other steps of the thread of a stream
LEMMA FlushStream ==
  ASSUME SessionAssumption, Typed, Flushing, NEW d \in Device, Take(d) \/ Give(d) \/ Write(d)
  PROVE  Flushing'
<1>1. /\ TypedStreams /\ plan' = plan /\ current' = current
      /\ None \notin Command
  BY DEF Typed, Take, Give, Write, threadVars, SessionAssumption
<1>2. CASE Take(d)
  <2>1. PICK q \in Seq(Task), c \in Command : q = queue[d] /\ q # <<>> /\ c = q[1] /\ c = Head(queue[d]) /\ c.what # "mark"
    BY <1>1, <1>2, HeadTask DEF Take
  <2>2. /\ queue'[d] = Tail(q)
        /\ \A e \in Device : e # d => queue'[e] = queue[e]
    BY <1>1, <1>2, <2>1 DEF Take, Pop, TypedStreams
  <2>3. hand' = hand \/ hand' = [hand EXCEPT ![d] = c]
    BY <1>2, <2>1 DEF Take
  <2>4. ASSUME NEW g \in Thread PROVE Flush(g)'
    <3>1. q[1] # Mark(g)
      BY <2>1 DEF Mark
    <3>2. Quiet(q, Tail(q), g)
      BY <2>1, <3>1, QuietTail
    <3>3. \A e \in Device : Quiet(queue[e], queue'[e], g)
      BY <2>1, <2>2, <3>2, QuietSame
    <3>4. ASSUME NEW e \in Device, NoneOf(g, e), hand'[e] # None PROVE hand'[e].by # g
      <4>1. CASE hand'[e] = hand[e]
        BY <3>4, <4>1 DEF NoneOf
      <4>2. CASE hand'[e] # hand[e]
        <5>1. e = d /\ hand'[e] = c
          BY <1>1, <2>3, <4>2 DEF TypedStreams
        <5>2. c \in Elems(queue[e])
          BY <2>1, <5>1, ElemsEmpty
        <5>3. QED
          BY <2>1, <3>4, <5>1, <5>2 DEF NoneOf, Of
      <4>3. QED
        BY <4>1, <4>2
    <3>5. QED
      BY <1>1, <3>3, <3>4, FlushKept DEF Flushing
  <2>5. QED
    BY <2>4 DEF Flushing
<1>3. CASE Give(d) \/ Write(d)
  <2>1. queue' = queue /\ \A e \in Device : hand'[e] = hand[e] \/ hand'[e] = None
    <3>1. CASE Give(d)
      BY <1>1, <3>1 DEF Give, TypedStreams
    <3>2. CASE Write(d)
      BY <1>1, <3>2 DEF Write, TypedStreams
    <3>3. QED
      BY <1>3, <3>1, <3>2
  <2>2. ASSUME NEW g \in Thread PROVE Flush(g)'
    <3>1. \A e \in Device : Quiet(queue[e], queue'[e], g)
      BY <2>1, QuietSame
    <3>2. \A e \in Device : NoneOf(g, e) /\ hand'[e] # None => hand'[e].by # g
      BY <2>1 DEF NoneOf
    <3>3. QED
      BY <1>1, <3>1, <3>2, FlushKept DEF Flushing
  <2>3. QED
    BY <2>2 DEF Flushing
<1>4. QED
  BY <1>2, <1>3

\* Steps that leave the threads and the streams alone
LEMMA FlushStill ==
  ASSUME Flushing, UNCHANGED <<plan, current, queue, hand>>
  PROVE  Flushing'
<1>1. ASSUME NEW g \in Thread PROVE Flush(g)'
  <2>1. \A e \in Device : Quiet(queue[e], queue'[e], g)
    BY QuietSame
  <2>2. \A e \in Device : NoneOf(g, e) /\ hand'[e] # None => hand'[e].by # g
    BY DEF NoneOf
  <2>3. QED
    BY <2>1, <2>2, FlushKept DEF Flushing
<1>2. QED
  BY <1>1 DEF Flushing

\* At first no thread synchronizes.
LEMMA FlushInit ==
  ASSUME SessionAssumption, Init
  PROVE  Flushing
<1>1. plan \in [Thread -> Seq(Statement)] /\ \A d \in Device : queue[d] = <<>>
  BY DEF SessionAssumption, Init
<1>2. ASSUME NEW h \in Thread PROVE Flush(h)
  <2>1. PICK p \in Seq(Statement) : p = plan[h]
    BY <1>1
  <2>2. ASSUME NEW i \in 1 .. Len(p) PROVE p[i][1] \notin {"drain", "await", "back", "close"}
    <3>1. p[i] \in Statement
      OBVIOUS
    <3>2. QED
      BY <3>1 DEF Statement
  <2>3. Shape(p)
    BY <2>2 DEF Shape
  <2>4. p # <<>> => p[1][1] \notin {"drain", "await", "back", "close"}
    <3>1. p # <<>> => 1 \in 1 .. Len(p)
      BY EmptySeq, LenProperties
    <3>2. QED
      BY <2>2, <3>1
  <2>5. ~Draining(h) /\ ~Does(h, "close")
    BY <2>1, <2>4 DEF Draining, Does
  <2>6. \A d \in Device : MarkOnce(queue[d], h) /\ Mark(h) \notin Elems(queue[d])
    BY <1>1 DEF MarkOnce, Elems
  <2>7. QED
    BY <2>1, <2>3, <2>5, <2>6 DEF Flush
<1>3. QED
  BY <1>2 DEF Flushing

-------------------------------------------------------------------------------
(* Every step keeps the types, the order of the commands and the marks. *)
Sound == Typed /\ Placed /\ InOrder /\ Flushing

\* Steps that do not touch a queue, a FIFO or a kernel
LEMMA QuietSteps ==
  ASSUME NEW h \in Thread, NEW s \in Session,
         \/ SetDevice(h) \/ EnterContext(h) \/ LeaveContext(h) \/ LaunchRaises(h) \/ Return(h) \/ Exit(h)
         \/ Enter(h) \/ Close(h) \/ WaitForProcess(h) \/ Start(h) \/ (Synchronize(h) /\ simulator = None)
         \/ Open(s) \/ EndOfFile(s) \/ Idle(s)
  PROVE  UNCHANGED <<queue, hand, pipe, kernels, finished, nr>>
BY DEF SetDevice, EnterContext, LeaveContext, LaunchRaises, Return, Exit, Enter, Close, WaitForProcess, Start,
  Synchronize, Open, EndOfFile, Idle, threadVars, streamVars, processVars

\* The step of a thread
LEMMA SoundThread ==
  ASSUME SessionAssumption, Sound, NEW h \in Thread, ThreadStep(h)
  PROVE  Sound'
<1>1. Typed /\ Placed /\ InOrder /\ Flushing /\ TypedThreads
  BY DEF Sound, Typed
<1>2. Typed'
  BY <1>1, ThreadTypes1, ThreadTypes2 DEF ThreadStep
<1>3. Flushing'
  BY <1>1, FlushThread
<1>4. Placed' /\ InOrder'
  <2>1. CASE Drain(h)
    <3>1. /\ UNCHANGED <<hand, pipe, kernels, finished, nr>>
          /\ Operand(h) \in Device /\ Enqueue(Operand(h), Mark(h))
      BY <1>1, <2>1, HeadStep DEF Drain, processVars
    <3>2. QED
      BY <1>1, <3>1, MarkInOrder
  <2>2. CASE Launch(h)
    BY <1>1, <2>2, CallInOrder DEF Launch
  <2>3. CASE Synchronize(h) /\ simulator # None
    BY <1>1, <2>3, CallInOrder
  <2>4. CASE ~Drain(h) /\ ~Launch(h) /\ ~(Synchronize(h) /\ simulator # None)
    <3>1. UNCHANGED <<queue, hand, pipe, kernels, finished, nr>>
      BY <2>4 DEF ThreadStep, SetDevice, EnterContext, LeaveContext, LaunchRaises, Return, Exit, Enter, Close,
        WaitForProcess, Start, Synchronize, threadVars, streamVars, processVars
    <3>2. QED
      BY <1>1, <3>1, StillInOrder
  <2>5. QED
    BY <2>1, <2>2, <2>3, <2>4
<1>5. QED
  BY <1>2, <1>3, <1>4 DEF Sound

\* The step of the thread of a stream
LEMMA SoundStream ==
  ASSUME SessionAssumption, Sound, NEW d \in Device, StreamStep(d)
  PROVE  Sound'
<1>1. Typed /\ Placed /\ InOrder /\ Flushing /\ TypedStreams
  BY DEF Sound, Typed
<1>2. Typed'
  <2>1. \A h \in Thread : Mark(h) \in Elems(queue[d]) => Does(h, "await")
    BY <1>1 DEF Flushing, Flush
  <2>2. QED
    BY <1>1, <2>1, StreamTypes
<1>3. Flushing'
  BY <1>1, FlushWaken, FlushStream DEF StreamStep
<1>4. Placed' /\ InOrder'
  <2>1. CASE Waken(d)
    <3>1. /\ UNCHANGED <<hand, pipe, kernels, finished, nr>>
          /\ queue[d] # <<>> /\ queue[d][1].what = "mark" /\ Pop(d)
      BY <1>1, <2>1, HeadTask DEF Waken, processVars
    <3>2. QED
      BY <1>1, <3>1, MarkInOrder
  <2>2. CASE Take(d)
    BY <1>1, <2>2, TakeInOrder
  <2>3. CASE Give(d) \/ Write(d)
    BY <1>1, <2>3, HandInOrder
  <2>4. QED
    BY <2>1, <2>2, <2>3 DEF StreamStep
<1>5. QED
  BY <1>2, <1>3, <1>4 DEF Sound

\* The step of a simulator process
LEMMA SoundProcess ==
  ASSUME SessionAssumption, Sound, NEW s \in Session, ProcessStep(s) \/ Crash(s)
  PROVE  Sound'
<1>1. Typed /\ Placed /\ InOrder /\ Flushing
  BY DEF Sound
<1>2. Typed'
  BY <1>1, ProcessTypes
<1>3. UNCHANGED <<plan, current, queue, hand>>
  BY DEF ProcessStep, Open, Read, EndOfFile, Finish, Idle, Crash, threadVars, streamVars
<1>4. Flushing'
  BY <1>1, <1>3, FlushStill
<1>5. Placed' /\ InOrder'
  <2>1. CASE Read(s)
    BY <1>1, <2>1, ReadInOrder
  <2>2. CASE Finish(s) \/ Crash(s)
    BY <1>1, <2>2, EndInOrder
  <2>3. CASE Open(s) \/ EndOfFile(s) \/ Idle(s)
    <3>1. UNCHANGED <<queue, hand, pipe, kernels, finished, nr>>
      BY <2>3 DEF Open, EndOfFile, Idle, threadVars, streamVars
    <3>2. QED
      BY <1>1, <3>1, StillInOrder
  <2>4. QED
    BY <2>1, <2>2, <2>3 DEF ProcessStep
<1>6. QED
  BY <1>2, <1>4, <1>5 DEF Sound

\* A step, or none
LEMMA SoundStep ==
  ASSUME SessionAssumption, Sound, [Next]_vars
  PROVE  Sound'
<1>1. CASE Next
  BY <1>1, SoundThread, SoundStream, SoundProcess DEF Next
<1>2. CASE UNCHANGED vars
  <2>1. UNCHANGED <<queue, hand, pipe, kernels, finished, nr, plan, current>>
    BY <1>2 DEF vars, threadVars, streamVars, processVars
  <2>2. Placed' /\ InOrder' /\ Flushing'
    BY <2>1, StillInOrder, FlushStill DEF Sound
  <2>3. Typed'
    <3>1. TypedThreads' /\ TypedSessions'
      BY <1>2 DEF Sound, Typed, TypedThreads, TypedSessions, vars, threadVars, sessionVars, streamVars
    <3>2. TypedStreams' /\ TypedProcesses'
      BY <1>2 DEF Sound, Typed, TypedStreams, TypedProcesses, vars, streamVars, processVars
    <3>3. QED
      BY <3>1, <3>2 DEF Typed
  <2>4. QED
    BY <2>2, <2>3 DEF Sound
<1>3. QED
  BY <1>1, <1>2

\* At first nothing is under way.
LEMMA NothingYet ==
  ASSUME SessionAssumption, Init
  PROVE  Waiting = {} /\ Running = {} /\ finished = {} /\ lost = {}
<1>1. /\ \A d \in Device : queue[d] = <<>> /\ hand[d] = None
      /\ \A s \in Session : pipe[s] = <<>> /\ kernels[s] = {}
      /\ finished = {} /\ lost = {}
  BY DEF Init
<1>2. Queued = {} /\ Held = {} /\ Piped = {} /\ Running = {}
  BY <1>1 DEF Queued, Commands, Elems, Held, Piped, Running
<1>3. QED
  BY <1>1, <1>2 DEF Waiting

\* The initial states
LEMMA SoundInit ==
  ASSUME SessionAssumption, Init
  PROVE  Sound
<1>1. Typed /\ Flushing
  BY InitTypes, FlushInit
<1>2. /\ \A d \in Device : queue[d] = <<>> /\ hand[d] = None
      /\ \A s \in Session : pipe[s] = <<>> /\ kernels[s] = {}
  BY DEF Init
<1>3. Waiting = {} /\ Running = {} /\ finished = {}
  BY NothingYet
<1>4. Placed
  BY <1>2, <1>3 DEF Placed, Commands, Elems
<1>5. InOrder
  <2>1. Held = {} /\ Queued = {} /\ Piped = {}
    BY <1>3 DEF Waiting
  <2>2. Ordered(<<>>)
    BY DEF Ordered
  <2>3. QED
    BY <1>2, <1>3, <2>1, <2>2 DEF InOrder
<1>6. QED
  BY <1>1, <1>4, <1>5 DEF Sound

\* The types, and a kernel that runs has not finished, in what holds in every state
LEMMA SoundTypes ==
  ASSUME SessionAssumption, Sound
  PROVE  TypeOK
<1>1. /\ \A h \in Thread : current[h] \in Device /\ nr[h] \in Nat
      /\ \A s \in Session : Len(pipe[s]) <= PipeSize
  BY DEF Sound, Typed, TypedThreads, TypedProcesses
<1>2. /\ simulator \in Session \cup {None} /\ outer \in [Session -> Session \cup {None}]
      /\ lock \in [Session -> Device \cup {None}] /\ handle \in [Session -> {"none", "open", "closed"}]
      /\ process \in [Session -> {"none", "starting", "reading", "simulating", "ending", "exited"}]
  BY DEF Sound, Typed, TypedSessions, TypedProcesses
<1>3. \A s \in Session : kernels[s] \cap finished = {}
  <2>1. Running \cap finished = {} /\ \A s \in Session : kernels[s] \subseteq Running
    BY UnderWay DEF Sound, InOrder
  <2>2. QED
    BY <2>1
<1>4. QED
  BY <1>1, <1>2, <1>3 DEF TypeOK

\* No command of a thread that returns from a synchronization on device 0 is in a stream.
LEMMA SoundFlushes ==
  ASSUME SessionAssumption, Sound
  PROVE  SyncFlushes
<1>1. SUFFICES ASSUME NEW h \in Thread, Does(h, "back"), current[h] = 0,
                      NEW c \in Pending, c.what # "mark", c.by = h
               PROVE  FALSE
  BY DEF SyncFlushes
<1>2. \A d \in Device : NoneOf(h, d)
  BY <1>1, NothingLeft DEF Sound, Flushing
<1>3. (\E d \in Device : c \in Elems(queue[d])) \/ (\E d \in Device : hand[d] # None /\ hand[d] = c)
  <2>1. \A d \in Device : queue[d] \in Seq(Task)
    BY DEF Sound, Typed, TypedStreams
  <2>2. \A d \in Device : DOMAIN queue[d] = 1 .. Len(queue[d])
    BY <2>1, LenProperties
  <2>3. PICK A, B : A = UNION {{queue[d][i] : i \in DOMAIN queue[d]} : d \in Device}
                    /\ B = {hand[d] : d \in {e \in Device : hand[e] # None}}
    OBVIOUS
  <2>4. c \in A \/ c \in B
    BY <1>1, <2>3 DEF Pending
  <2>5. CASE c \in A
    <3>1. PICK d \in Device : c \in {queue[d][i] : i \in DOMAIN queue[d]}
      BY <2>3, <2>5
    <3>2. QED
      BY <2>2, <3>1 DEF Elems
  <2>6. CASE c \in B
    BY <2>3, <2>6
  <2>7. QED
    BY <2>4, <2>5, <2>6
<1>4. QED
  BY <1>1, <1>2, <1>3 DEF NoneOf, Of

\* In every state the commands under way are in order and the marks behind what they stand for.
THEOREM SessionSound == Spec => []Sound
<1>1. Init => Sound
  BY SessionPrograms, SoundInit
<1>2. Sound /\ [Next]_vars => Sound'
  BY SessionPrograms, SoundStep
<1>3. QED
  BY <1>1, <1>2, PTL DEF Spec

\* TOGSimulator and its process: every variable has its type, the FIFO never holds more than it can, and
\* a kernel that runs in the simulator has not finished there.
THEOREM SessionTypes == Spec => []TypeOK
<1>1. Sound => TypeOK
  BY SessionPrograms, SoundTypes
<1>2. QED
  BY <1>1, SessionSound, PTL

\* torch.npu.synchronize on device 0: when it returns, whatever other threads do and whatever crashes,
\* no earlier command of its thread waits in a stream of any device.
THEOREM SyncReturnsFlushed == Spec => []SyncFlushes
<1>1. Sound => SyncFlushes
  BY SessionPrograms, SoundFlushes
<1>2. QED
  BY <1>1, SessionSound, PTL

-------------------------------------------------------------------------------
(* Sessions that have been entered *)

\* Steps that enter and leave no session, and in which no process dies
LEMMA EnteredKept ==
  ASSUME Typed, Entered, UNCHANGED <<handle, outer, crashes>>,
         simulator' = simulator \/ \E s \in Session : simulator' = outer[s],
         \A c \in Held' \cup Queued' : c \in Held \cup Queued \/ (c.on = simulator /\ simulator # None),
         \A s \in Session : lock'[s] # None => lock'[s] = lock[s] \/ handle[s] = "open",
         \A s \in Session : process'[s] \in {"ending", "exited"} => process[s] \in {"ending", "exited"} \/ handle[s] = "closed",
         \A c \in lost' : c \in lost \/ handle[c.on] = "closed" \/ process[c.on] = "exited",
         lost' \subseteq Command
  PROVE  Entered'
<1>1. simulator' # None => handle'[simulator'] # "none"
  BY DEF Entered
<1>2. \A s \in Session : outer'[s] # None => handle'[outer'[s]] # "none"
  BY DEF Entered
<1>3. \A c \in Held' \cup Queued' : handle'[c.on] # "none"
  BY DEF Entered
<1>4. \A s \in Session : lock'[s] # None => handle'[s] = "open"
  BY DEF Entered
<1>5. crashes' = 0 => \A s \in Session : process'[s] \in {"ending", "exited"} => handle'[s] = "closed"
  BY DEF Entered
<1>6. \A c \in lost' : c.on \in Session
  BY DEF Command
<1>7. crashes' = 0 => \A c \in lost' : handle'[c.on] = "closed"
  BY <1>6 DEF Entered
<1>8. QED
  BY <1>1, <1>2, <1>3, <1>4, <1>5, <1>7 DEF Entered

\* The step of a thread
LEMMA EnteredThread ==
  ASSUME SessionAssumption, Sound, Entered, NEW h \in Thread, ThreadStep(h)
  PROVE  Entered'
<1>1. /\ Typed /\ Placed /\ InOrder /\ TypedThreads /\ TypedSessions
      /\ handle \in [Session -> {"none", "open", "closed"}] /\ outer \in [Session -> Session \cup {None}]
      /\ simulator \in Session \cup {None} /\ lost \subseteq Command /\ None \notin Session
  BY DEF Sound, Typed, TypedSessions, TypedProcesses, SessionAssumption
<1>2. /\ UNCHANGED <<lock, lost, crashes>>
      /\ \A s \in Session : process'[s] \in {"ending", "exited"} => process[s] \in {"ending", "exited"}
  <2>1. CASE Start(h)
    <3>1. process' = [process EXCEPT ![Operand(h)] = "starting"] /\ UNCHANGED <<lock, lost, crashes>>
      BY <2>1 DEF Start, streamVars
    <3>2. process \in [Session -> {"none", "starting", "reading", "simulating", "ending", "exited"}]
      BY <1>1 DEF Typed, TypedProcesses
    <3>3. QED
      BY <3>1, <3>2
  <2>2. CASE ~Start(h)
    <3>1. UNCHANGED <<lock, lost, crashes, process>>
      BY <2>2 DEF ThreadStep, SetDevice, EnterContext, LeaveContext, LaunchRaises, Return, Exit, Enter, Close,
        WaitForProcess, Launch, Synchronize, Drain, streamVars, processVars
    <3>2. QED
      BY <3>1
  <2>3. QED
    BY <2>1, <2>2
<1>3. \A c \in Held' \cup Queued' : c \in Held \cup Queued \/ (c.on = simulator /\ simulator # None)
  <2>1. CASE Drain(h)
    <3>1. /\ UNCHANGED <<hand, pipe, kernels, finished, nr>>
          /\ Operand(h) \in Device /\ Enqueue(Operand(h), Mark(h))
      BY <1>1, <2>1, HeadStep DEF Drain, processVars
    <3>2. Queued' = Queued /\ Held' = Held
      BY <1>1, <3>1, MarkInOrder
    <3>3. QED
      BY <3>2
  <2>2. CASE Launch(h) \/ (Synchronize(h) /\ simulator # None)
    <3>1. PICK c : \/ Launch(h) /\ c = Call(h, "LAUNCH_KERNEL")
                   \/ Synchronize(h) /\ c = Call(h, "DEVICE_SYNC")
      BY <2>2
    <3>2. simulator # None
      BY <2>2 DEF Launch
    <3>3. Queued' = Queued \cup {c} /\ Held' = Held /\ c.on = simulator
      BY <1>1, <3>1, <3>2, CallInOrder
    <3>4. QED
      BY <3>2, <3>3
  <2>3. CASE ~Drain(h) /\ ~Launch(h) /\ ~(Synchronize(h) /\ simulator # None)
    <3>1. UNCHANGED <<queue, hand, pipe, kernels, finished, nr>>
      BY <2>3 DEF ThreadStep, SetDevice, EnterContext, LeaveContext, LaunchRaises, Return, Exit, Enter, Close,
        WaitForProcess, Start, Synchronize, threadVars, streamVars, processVars
    <3>2. Queued' = Queued /\ Held' = Held
      BY <1>1, <3>1, StillInOrder
    <3>3. QED
      BY <3>2
  <2>4. QED
    BY <2>1, <2>2, <2>3
<1>4. CASE Enter(h)
  <2>1. PICK t \in Session : /\ t = Operand(h) /\ handle[t] = "none" /\ process[t] = "reading"
                             /\ handle' = [handle EXCEPT ![t] = "open"]
                             /\ outer' = [outer EXCEPT ![t] = simulator] /\ simulator' = t
    BY <1>1, <1>4, HeadStep DEF Enter
  <2>2. UNCHANGED <<queue, hand>>
    BY <1>4 DEF Enter, streamVars
  <2>3. Held' = Held /\ Queued' = Queued
    BY <2>2 DEF Held, Queued
  <2>4. \A s \in Session : /\ s # t => handle'[s] = handle[s] /\ outer'[s] = outer[s]
                           /\ handle'[t] = "open" /\ outer'[t] = simulator
    BY <1>1, <2>1
  <2>5. \A s \in Session : handle[s] # "none" => handle'[s] # "none"
    BY <2>1, <2>4
  <2>6. \A s \in Session : outer'[s] # None => handle'[outer'[s]] # "none"
    <3>1. SUFFICES ASSUME NEW s \in Session, outer'[s] # None PROVE handle'[outer'[s]] # "none"
      OBVIOUS
    <3>2. CASE s = t
      BY <1>1, <2>4, <2>5, <3>1, <3>2 DEF Entered
    <3>3. CASE s # t
      <4>1. outer'[s] = outer[s] /\ outer[s] \in Session
        BY <1>1, <2>4, <3>1, <3>3
      <4>2. handle[outer[s]] # "none"
        BY <3>1, <4>1 DEF Entered
      <4>3. QED
        BY <2>5, <4>1, <4>2
    <3>4. QED
      BY <3>2, <3>3
  <2>7. \A c \in Held \cup Queued : handle[c.on] # "none" /\ c.on \in Session
    <3>1. Held \cup Queued \subseteq Command
      BY <1>1, UnderWay DEF Waiting
    <3>2. QED
      BY <3>1 DEF Entered, Command
  <2>8. \A c \in lost : c.on \in Session
    BY <1>1 DEF Command
  <2>9. crashes = 0 => /\ \A s \in Session : process'[s] \in {"ending", "exited"} => handle'[s] = "closed"
                       /\ \A c \in lost : handle'[c.on] = "closed"
    BY <1>2, <2>1, <2>4, <2>8 DEF Entered
  <2>10. \A s \in Session : lock'[s] # None => handle'[s] = "open"
    BY <1>2, <2>1, <2>4 DEF Entered
  <2>11. simulator' # None => handle'[simulator'] # "none"
    BY <2>1, <2>4
  <2>12. \A c \in Held' \cup Queued' : handle'[c.on] # "none"
    BY <2>3, <2>5, <2>7
  <2>13. QED
    BY <1>2, <2>6, <2>9, <2>10, <2>11, <2>12 DEF Entered
<1>5. CASE Close(h)
  <2>1. PICK t \in Session : /\ t = Operand(h) /\ lock[t] = None
                             /\ handle' = [handle EXCEPT ![t] = "closed"]
                             /\ outer' = outer /\ simulator' = simulator
    BY <1>1, <1>5, HeadStep DEF Close
  <2>2. UNCHANGED <<queue, hand>>
    BY <1>5 DEF Close, streamVars
  <2>3. Held' = Held /\ Queued' = Queued
    BY <2>2 DEF Held, Queued
  <2>4. \A s \in Session : /\ s # t => handle'[s] = handle[s]
                           /\ handle'[t] = "closed"
    BY <1>1, <2>1
  <2>5. \A s \in Session : /\ handle[s] # "none" => handle'[s] # "none"
                           /\ handle[s] = "closed" => handle'[s] = "closed"
    BY <2>1, <2>4
  <2>6. \A s \in Session : outer'[s] # None => handle'[outer'[s]] # "none"
    BY <1>1, <2>1, <2>5 DEF Entered
  <2>7. \A c \in Held \cup Queued : handle[c.on] # "none" /\ c.on \in Session
    <3>1. Held \cup Queued \subseteq Command
      BY <1>1, UnderWay DEF Waiting
    <3>2. QED
      BY <3>1 DEF Entered, Command
  <2>8. \A c \in lost : c.on \in Session
    BY <1>1 DEF Command
  <2>9. crashes = 0 => /\ \A s \in Session : process'[s] \in {"ending", "exited"} => handle'[s] = "closed"
                       /\ \A c \in lost : handle'[c.on] = "closed"
    BY <1>2, <2>5, <2>8 DEF Entered
  <2>10. \A s \in Session : lock'[s] # None => handle'[s] = "open"
    BY <1>2, <2>1, <2>4 DEF Entered
  <2>11. simulator' # None => handle'[simulator'] # "none"
    BY <1>1, <2>1, <2>5 DEF Entered
  <2>12. \A c \in Held' \cup Queued' : handle'[c.on] # "none"
    BY <2>3, <2>5, <2>7
  <2>13. QED
    BY <1>2, <2>6, <2>9, <2>10, <2>11, <2>12 DEF Entered
<1>6. CASE ~Enter(h) /\ ~Close(h)
  <2>1. UNCHANGED <<handle, outer>>
    BY <1>6 DEF ThreadStep, SetDevice, EnterContext, LeaveContext, LaunchRaises, Return, Exit, Start,
      WaitForProcess, Launch, Synchronize, Drain, sessionVars
  <2>2. simulator' = simulator \/ \E s \in Session : simulator' = outer[s]
    <3>1. CASE WaitForProcess(h)
      BY <1>1, <3>1, HeadStep DEF WaitForProcess
    <3>2. CASE ~WaitForProcess(h)
      BY <1>6, <3>2 DEF ThreadStep, SetDevice, EnterContext, LeaveContext, LaunchRaises, Return, Exit, Start,
        Launch, Synchronize, Drain, sessionVars
    <3>3. QED
      BY <3>1, <3>2
  <2>3. QED
    BY <1>1, <1>2, <1>3, <2>1, <2>2, EnteredKept
<1>7. QED
  BY <1>4, <1>5, <1>6

\* The steps of the streams and of the processes
LEMMA EnteredStream ==
  ASSUME SessionAssumption, Sound, Entered, NEW d \in Device, StreamStep(d)
  PROVE  Entered'
<1>1. /\ Typed /\ Placed /\ InOrder /\ TypedStreams
      /\ handle \in [Session -> {"none", "open", "closed"}] /\ lock \in [Session -> Device \cup {None}]
      /\ hand \in [Device -> Command \cup {None}] /\ None \notin Device /\ lost \subseteq Command
  BY DEF Sound, Typed, TypedSessions, TypedStreams, TypedProcesses, SessionAssumption
<1>2. UNCHANGED <<handle, outer, crashes, simulator, process>>
  BY DEF StreamStep, Waken, Take, Give, Write, sessionVars, processVars
<1>3. lost' \subseteq Command
  BY SoundStream DEF Sound, Typed, TypedProcesses
<1>4. CASE Waken(d)
  <2>1. /\ UNCHANGED <<hand, pipe, kernels, finished, nr, lock, lost>>
        /\ queue[d] # <<>> /\ queue[d][1].what = "mark" /\ Pop(d)
    BY <1>1, <1>4, HeadTask DEF Waken, processVars
  <2>2. Queued' = Queued /\ Held' = Held
    BY <1>1, <2>1, MarkInOrder
  <2>3. QED
    BY <1>1, <1>2, <1>3, <2>1, <2>2, EnteredKept
<1>5. CASE Take(d)
  <2>1. PICK c : c = Head(queue[d])
    OBVIOUS
  <2>2. /\ c \in Queued /\ Queued' \subseteq Queued
        /\ \/ process[c.on] = "exited" /\ lost' = lost \cup {c} /\ Held' = Held
           \/ lost' = lost /\ Held' = Held \cup {c}
    BY <1>1, <1>5, <2>1, TakeInOrder
  <2>3. lock' = lock
    BY <1>5 DEF Take
  <2>4. QED
    BY <1>1, <1>2, <1>3, <2>2, <2>3, EnteredKept
<1>6. CASE Give(d) \/ Write(d)
  <2>1. PICK c : c = hand[d]
    OBVIOUS
  <2>2. /\ c \in Held /\ c \in Command /\ UNCHANGED Queued
        /\ \/ UNCHANGED <<Held, lost>>
           \/ /\ Held' \subseteq Held
              /\ \/ lost' = lost \cup {c} /\ (process[c.on] = "exited" \/ handle[c.on] # "open")
                 \/ lost' = lost
    BY <1>1, <1>6, <2>1, HandInOrder
  <2>3. handle[c.on] # "open" => handle[c.on] = "closed"
    <3>1. handle[c.on] # "none" /\ c.on \in Session
      BY <2>2 DEF Entered, Command
    <3>2. QED
      BY <1>1, <3>1
  <2>4. \A s \in Session : lock'[s] # None => lock'[s] = lock[s] \/ handle[s] = "open"
    <3>1. CASE Give(d)
      BY <1>1, <3>1 DEF Give
    <3>2. CASE Write(d)
      BY <1>1, <3>2 DEF Write
    <3>3. QED
      BY <1>6, <3>1, <3>2
  <2>5. /\ Held' \subseteq Held /\ Queued' = Queued
        /\ \A x \in lost' : x \in lost \/ handle[x.on] = "closed" \/ process[x.on] = "exited"
    BY <2>2, <2>3
  <2>6. QED
    BY <1>1, <1>2, <1>3, <2>4, <2>5, EnteredKept
<1>7. QED
  BY <1>4, <1>5, <1>6 DEF StreamStep

\* ... and of the processes
LEMMA EnteredProcess ==
  ASSUME SessionAssumption, Sound, Entered, NEW s \in Session, ProcessStep(s) \/ Crash(s)
  PROVE  Entered'
<1>1. /\ Typed /\ lost \subseteq Command /\ crashes \in Nat
      /\ process \in [Session -> {"none", "starting", "reading", "simulating", "ending", "exited"}]
  BY DEF Sound, Typed, TypedProcesses
<1>2. UNCHANGED <<handle, outer, simulator, queue, hand, lock, lost>>
  BY DEF ProcessStep, Open, Read, EndOfFile, Finish, Idle, Crash, sessionVars, streamVars
<1>3. Held' = Held /\ Queued' = Queued
  BY <1>2 DEF Held, Queued
<1>4. CASE Crash(s)
  <2>1. crashes' # 0
    BY <1>1, <1>4 DEF Crash
  <2>2. QED
    BY <1>2, <1>3, <2>1 DEF Entered
<1>5. CASE ProcessStep(s)
  <2>1. crashes' = crashes
    BY <1>5 DEF ProcessStep, Open, Read, EndOfFile, Finish, Idle
  <2>2. \A t \in Session : process'[t] \in {"ending", "exited"} => process[t] \in {"ending", "exited"} \/ handle[t] = "closed"
    <3>1. CASE Open(s)
      BY <1>1, <3>1 DEF Open
    <3>2. CASE Read(s)
      <4>1. process' = process \/ process' = [process EXCEPT ![s] = "simulating"]
        BY <3>2 DEF Read
      <4>2. QED
        BY <1>1, <4>1
    <3>3. CASE EndOfFile(s)
      BY <1>1, <3>3 DEF EndOfFile
    <3>4. CASE Finish(s)
      BY <3>4 DEF Finish
    <3>5. CASE Idle(s)
      <4>1. process[s] \in {"simulating", "ending"}
            /\ process' = [process EXCEPT ![s] = IF process[s] = "ending" THEN "exited" ELSE "reading"]
        BY <3>5 DEF Idle
      <4>2. QED
        BY <1>1, <4>1
    <3>6. QED
      BY <1>5, <3>1, <3>2, <3>3, <3>4, <3>5 DEF ProcessStep
  <2>3. QED
    BY <1>1, <1>2, <1>3, <2>1, <2>2, EnteredKept
<1>6. QED
  BY <1>4, <1>5

-------------------------------------------------------------------------------
(* Launches of different rounds stay separated. *)

\* What a step may do to the commands under way when it calls none
Separating ==
  /\ \A e \in Running' : e.what = "LAUNCH_KERNEL"
  /\ Launches(Running' \cup Waiting') \subseteq Running \cup Waiting
  /\ Launches(Waiting') \subseteq Waiting
  /\ \A x \in Waiting : x.what = "DEVICE_SYNC" =>
       \/ x \in Waiting'
       \/ Broken(x.on)' /\ \A c \in Waiting' : c.by = x.by /\ c.device = x.device /\ c.on = x.on /\ x.nr < c.nr => c \notin Piped'
       \/ \A e \in Launches(Running' \cup Waiting') : Between(e, x) => Simulated(e)'
  /\ \A e \in Launches(Running' \cup Waiting') : Simulated(e) =>
       \/ Simulated(e)'
       \/ Broken(e.on)' /\ \A c \in Waiting' : c.on = e.on => c \notin Piped'
  /\ \A s \in Session : Broken(s) => Broken(s)'
  /\ \A c \in Launches(Waiting') : c \notin Piped /\ Broken(c.on) => c \notin Piped'

\* Steps that call no command
LEMMA SeparatedKept ==
  ASSUME Typed, Separated, round' = round, Separating
  PROVE  Separated'
<1>1. Launches(Running' \cup Waiting') \subseteq Launches(Running \cup Waiting)
      /\ Launches(Waiting') \subseteq Launches(Waiting)
  BY DEF Separating, Launches
<1>2. Waiting \cup Running \subseteq Command /\ \A x \in Command : x.on \in Session
  BY UnderWay DEF Command
<1>3. ASSUME NEW e \in Launches(Running' \cup Waiting'), NEW c \in Launches(Waiting'),
             Before(e, c), e.on = c.on, e.round # c.round
      PROVE  \/ \E x \in Waiting' : Between(e, x) /\ x.nr < c.nr
             \/ Simulated(e)'
             \/ c \notin Piped' /\ Broken(c.on)'
  <2>1. e \in Launches(Running \cup Waiting) /\ c \in Launches(Waiting)
    BY <1>1
  <2>2. \/ \E x \in Waiting : Between(e, x) /\ x.nr < c.nr
        \/ Simulated(e)
        \/ c \notin Piped /\ Broken(c.on)
    BY <1>3, <2>1 DEF Separated
  <2>3. c \in Waiting' /\ c \in Command /\ c.on \in Session
    BY <1>2, <2>1, <1>3 DEF Launches
  <2>4. ASSUME NEW x \in Waiting, Between(e, x), x.nr < c.nr
        PROVE  \/ x \in Waiting'
               \/ Simulated(e)'
               \/ c \notin Piped' /\ Broken(c.on)'
    <3>1. x.what = "DEVICE_SYNC" /\ c.by = x.by /\ c.device = x.device /\ c.on = x.on
      BY <1>3, <2>4 DEF Between, Before
    <3>2. QED
      BY <1>3, <2>3, <2>4, <3>1 DEF Separating
  <2>5. Simulated(e) => Simulated(e)' \/ (c \notin Piped' /\ Broken(c.on)')
    BY <1>3, <2>3 DEF Separating
  <2>6. c \notin Piped /\ Broken(c.on) => c \notin Piped' /\ Broken(c.on)'
    BY <2>3 DEF Separating
  <2>7. QED
    BY <2>2, <2>4, <2>5, <2>6
<1>4. ASSUME NEW e \in Launches(Running' \cup Waiting'), e.round # round'[e.by][<<e.device, e.on>>]
      PROVE  \/ \E x \in Waiting' : Between(e, x)
             \/ Simulated(e)'
             \/ Broken(e.on)'
  <2>1. e \in Launches(Running \cup Waiting)
    BY <1>1
  <2>2. \/ \E x \in Waiting : Between(e, x)
        \/ Simulated(e)
        \/ Broken(e.on)
    BY <1>4, <2>1 DEF Separated
  <2>3. e.on \in Session
    BY <1>2, <2>1 DEF Launches
  <2>4. ASSUME NEW x \in Waiting, Between(e, x)
        PROVE  x \in Waiting' \/ Simulated(e)' \/ Broken(e.on)'
    <3>1. x.what = "DEVICE_SYNC" /\ e.on = x.on
      BY <2>4 DEF Between
    <3>2. QED
      BY <1>4, <2>4, <3>1 DEF Separating
  <2>5. Simulated(e) => Simulated(e)' \/ Broken(e.on)'
    BY <1>4 DEF Separating
  <2>6. Broken(e.on) => Broken(e.on)'
    BY <2>3 DEF Separating
  <2>7. QED
    BY <2>2, <2>4, <2>5, <2>6
<1>5. \A e \in Running' : e.what = "LAUNCH_KERNEL"
  BY DEF Separating
<1>6. QED
  BY <1>3, <1>4, <1>5 DEF Separated

\* A launch is called, or a synchronization, which separates what comes after it from what came before.
LEMMA SeparatedCall ==
  ASSUME SessionAssumption, Sound, Separated, NEW h \in Thread, simulator # None,
         Launch(h) \/ Synchronize(h)
  PROVE  Separated'
<1>1. Typed /\ Placed /\ InOrder /\ round \in [Thread -> [Device \X Session -> Nat]]
  BY DEF Sound, Typed, TypedThreads
<1>2. PICK c : \/ Launch(h) /\ c = Call(h, "LAUNCH_KERNEL")
               \/ Synchronize(h) /\ c = Call(h, "DEVICE_SYNC")
  OBVIOUS
<1>3. /\ c \in Command /\ c.by = h /\ c.device = current[h] /\ c.on = simulator
      /\ c.nr = nr[h] + 1 /\ c.round = round[h][<<current[h], simulator>>]
      /\ Queued' = Queued \cup {c} /\ UNCHANGED <<Held, Piped, Running>>
      /\ \A x \in Waiting \cup Running \cup finished : Earlier(x, c)
  BY <1>1, <1>2, CallInOrder
<1>4. UNCHANGED <<handle, process, kernels>>
  BY <1>2 DEF Launch, Synchronize, sessionVars, processVars
<1>5. Waiting' = Waiting \cup {c}
  BY <1>3 DEF Waiting
<1>6. Waiting \cup Running \subseteq Command /\ c.nr \in Nat
  BY <1>1, <1>3, UnderWay DEF Command
<1>7. c \notin Waiting \cup Running /\ \A x \in Waiting \cup Running : ~(x.by = c.by /\ x.device = c.device /\ x.on = c.on /\ c.nr < x.nr)
  <2>1. \A x \in Waiting \cup Running : x.nr \in Nat
    BY <1>6 DEF Command
  <2>2. QED
    BY <1>3, <1>6, <2>1 DEF Earlier
<1>8. \A s \in Session : Broken(s)' <=> Broken(s)
  BY <1>4 DEF Broken
<1>9. \A e : Simulated(e)' <=> Simulated(e)
  BY <1>4 DEF Simulated
<1>10. c \notin Piped'
  BY <1>3, <1>7 DEF Waiting
<1>11. c.on \in Session /\ \A x \in Waiting \cup Running : x.on \in Session
  BY <1>3, <1>6 DEF Command
<1>12. ASSUME NEW e \in Launches(Running \cup Waiting), e.round # round[e.by][<<e.device, e.on>>]
       PROVE  \/ \E x \in Waiting : Between(e, x)
              \/ Simulated(e)'
              \/ Broken(e.on)'
  <2>1. \/ \E x \in Waiting : Between(e, x)
        \/ Simulated(e)
        \/ Broken(e.on)
    BY <1>12 DEF Separated
  <2>2. e.on \in Session
    BY <1>11 DEF Launches
  <2>3. QED
    BY <1>8, <1>9, <2>1, <2>2
<1>13. ASSUME NEW e \in Launches(Running \cup Waiting), NEW d \in Launches(Waiting),
              Before(e, d), e.on = d.on, e.round # d.round
       PROVE  \/ \E x \in Waiting' : Between(e, x) /\ x.nr < d.nr
              \/ Simulated(e)'
              \/ d \notin Piped' /\ Broken(d.on)'
  <2>1. \/ \E x \in Waiting : Between(e, x) /\ x.nr < d.nr
        \/ Simulated(e)
        \/ d \notin Piped /\ Broken(d.on)
    BY <1>13 DEF Separated
  <2>2. d.on \in Session
    BY <1>11 DEF Launches
  <2>3. QED
    BY <1>3, <1>5, <1>8, <1>9, <2>1, <2>2
<1>14. Launches(Running' \cup Waiting') \subseteq Launches(Running \cup Waiting) \cup {c}
       /\ Launches(Waiting') \subseteq Launches(Waiting) \cup {c}
  BY <1>3, <1>5 DEF Launches
<1>15. ASSUME NEW e \in Launches(Running' \cup Waiting'), NEW d \in Launches(Waiting'),
              Before(e, d), e.on = d.on, e.round # d.round
       PROVE  \/ \E x \in Waiting' : Between(e, x) /\ x.nr < d.nr
              \/ Simulated(e)'
              \/ d \notin Piped' /\ Broken(d.on)'
  <2>1. CASE e = c
    <3>1. d # c
      BY <1>6, <1>15, <2>1 DEF Before
    <3>2. d \in Waiting
      BY <1>14, <3>1 DEF Launches
    <3>3. QED
      BY <1>7, <1>15, <2>1, <3>2 DEF Before
  <2>2. CASE e # c /\ d # c
    BY <1>13, <1>14, <1>15, <2>2
  <2>3. CASE e # c /\ d = c
    <3>1. e \in Launches(Running \cup Waiting) /\ e \in Running \cup Waiting
      BY <1>14, <2>3 DEF Launches
    <3>2. e.round # round[e.by][<<e.device, e.on>>]
      BY <1>3, <1>15, <2>3 DEF Before
    <3>3. \/ \E x \in Waiting : Between(e, x)
          \/ Simulated(e)'
          \/ Broken(e.on)'
      BY <1>12, <3>1, <3>2
    <3>4. ASSUME NEW x \in Waiting, Between(e, x) PROVE x \in Waiting' /\ x.nr < c.nr
      <4>1. x.by = c.by /\ x.device = c.device /\ x.on = c.on
        BY <1>15, <2>3, <3>4 DEF Between, Before
      <4>2. Earlier(x, c)
        BY <1>3
      <4>3. QED
        BY <1>5, <4>1, <4>2 DEF Earlier
    <3>5. QED
      BY <1>10, <1>15, <2>3, <3>3, <3>4
  <2>4. QED
    BY <2>1, <2>2, <2>3
<1>16. ASSUME NEW e \in Launches(Running' \cup Waiting'), e.round # round'[e.by][<<e.device, e.on>>]
       PROVE  \/ \E x \in Waiting' : Between(e, x)
              \/ Simulated(e)'
              \/ Broken(e.on)'
  <2>1. CASE Launch(h)
    <3>1. round' = round
      BY <2>1 DEF Launch
    <3>2. e # c
      BY <1>3, <1>16, <3>1
    <3>3. e \in Launches(Running \cup Waiting)
      BY <1>14, <3>2
    <3>4. QED
      BY <1>5, <1>12, <1>16, <3>1, <3>3
  <2>2. CASE Synchronize(h)
    <3>1. c.what = "DEVICE_SYNC"
      <4>1. ~Launch(h)
        BY <2>2 DEF Launch, Synchronize, Does
      <4>2. QED
        BY <1>2, <4>1 DEF Call
    <3>2. e # c /\ e \in Launches(Running \cup Waiting) /\ e \in Running \cup Waiting
      BY <1>14, <3>1 DEF Launches
    <3>3. round' = [round EXCEPT ![h][<<current[h], simulator>>] = @ + 1]
      BY <2>2 DEF Synchronize
    <3>4. e \in Command /\ e.by \in Thread /\ <<e.device, e.on>> \in Device \X Session
      BY <1>6, <3>2 DEF Command
    <3>5. CASE e.by = h /\ e.device = current[h] /\ e.on = simulator
      <4>1. Earlier(e, c)
        BY <1>3, <3>2
      <4>2. Between(e, c)
        BY <1>3, <3>1, <3>5, <4>1 DEF Between, Before, Earlier
      <4>3. QED
        BY <1>5, <4>2
    <3>6. CASE ~(e.by = h /\ e.device = current[h] /\ e.on = simulator)
      <4>1. round'[e.by][<<e.device, e.on>>] = round[e.by][<<e.device, e.on>>]
        <5>1. <<e.device, e.on>> # <<current[h], simulator>> \/ e.by # h
          BY <3>6
        <5>2. QED
          BY <1>1, <3>3, <3>4, <5>1
      <4>2. QED
        BY <1>5, <1>12, <1>16, <3>2, <4>1
    <3>7. QED
      BY <3>5, <3>6
  <2>3. QED
    BY <2>1, <2>2
<1>17. \A e \in Running' : e.what = "LAUNCH_KERNEL"
  BY <1>3 DEF Separated
<1>18. QED
  BY <1>15, <1>16, <1>17 DEF Separated

\* Steps that leave the commands where they are
LEMMA SeparatedStill ==
  ASSUME Typed, Placed, Separated, round' = round, Waiting' = Waiting, Running' = Running, Piped' = Piped, kernels' = kernels,
         \A s \in Session : process[s] = "simulating" => process'[s] = "simulating" \/ kernels[s] = {},
         \A s \in Session : Broken(s) => Broken(s)'
  PROVE  Separated'
<1>1. \A e \in Launches(Running \cup Waiting) : e.on \in Session
  BY UnderWay DEF Launches, Command
<1>2. \A e \in Launches(Running \cup Waiting) : Simulated(e) => Simulated(e)'
  BY <1>1 DEF Simulated
<1>3. Separating
  BY <1>2 DEF Separating, Launches, Separated
<1>4. QED
  BY <1>3, SeparatedKept

\* The other steps of a thread
LEMMA SeparatedThread ==
  ASSUME SessionAssumption, Sound, Separated, NEW h \in Thread, ThreadStep(h)
  PROVE  Separated'
<1>1. /\ Typed /\ Placed /\ InOrder /\ TypedThreads /\ TypedSessions
      /\ handle \in [Session -> {"none", "open", "closed"}]
      /\ process \in [Session -> {"none", "starting", "reading", "simulating", "ending", "exited"}]
  BY DEF Sound, Typed, TypedSessions, TypedProcesses
<1>2. CASE simulator # None /\ (Launch(h) \/ Synchronize(h))
  BY <1>2, SeparatedCall
<1>3. CASE ~(simulator # None /\ (Launch(h) \/ Synchronize(h)))
  <2>1. ~Launch(h) /\ (Synchronize(h) => simulator = None)
    BY <1>3 DEF Launch
  <2>2. round' = round /\ UNCHANGED <<kernels, pipe, hand, nr, finished>>
    <3>1. CASE Synchronize(h)
      BY <2>1, <3>1 DEF Synchronize, processVars
    <3>2. CASE ~Synchronize(h)
      BY <2>1, <3>2 DEF ThreadStep, SetDevice, EnterContext, LeaveContext, LaunchRaises, Return, Exit, Start, Enter, Close,
        WaitForProcess, Drain, processVars, threadVars, streamVars
    <3>3. QED
      BY <3>1, <3>2
  <2>3. Waiting' = Waiting /\ Running' = Running /\ Piped' = Piped
    <3>1. CASE Drain(h)
      <4>1. Operand(h) \in Device /\ Enqueue(Operand(h), Mark(h))
        BY <1>1, <3>1, HeadStep DEF Drain
      <4>2. UNCHANGED <<Queued, Held, Piped, Running>>
        BY <1>1, <2>2, <4>1, MarkInOrder
      <4>3. QED
        BY <4>2 DEF Waiting
    <3>2. CASE ~Drain(h)
      <4>1. queue' = queue
        BY <2>1, <3>2 DEF ThreadStep, SetDevice, EnterContext, LeaveContext, LaunchRaises, Return, Exit, Start, Enter, Close,
          WaitForProcess, Synchronize, streamVars
      <4>2. UNCHANGED <<Queued, Held, Piped, Running>>
        BY <1>1, <2>2, <4>1, StillInOrder
      <4>3. QED
        BY <4>2 DEF Waiting
    <3>3. QED
      BY <3>1, <3>2
  <2>4. /\ \A s \in Session : process[s] \in {"simulating", "exited"} => process'[s] = process[s]
        /\ \A s \in Session : handle[s] = "closed" => handle'[s] = "closed"
    <3>1. CASE Start(h)
      <4>1. PICK t \in Session : t = Operand(h) /\ process[t] = "none" /\ process' = [process EXCEPT ![t] = "starting"] /\ handle' = handle
        BY <1>1, <3>1, HeadStep DEF Start, sessionVars
      <4>2. QED
        BY <1>1, <4>1
    <3>2. CASE Enter(h)
      <4>1. PICK t \in Session : t = Operand(h) /\ handle[t] = "none" /\ handle' = [handle EXCEPT ![t] = "open"] /\ process' = process
        BY <1>1, <3>2, HeadStep DEF Enter, processVars
      <4>2. QED
        BY <1>1, <4>1
    <3>3. CASE Close(h)
      <4>1. PICK t \in Session : t = Operand(h) /\ handle' = [handle EXCEPT ![t] = "closed"] /\ process' = process
        BY <1>1, <3>3, HeadStep DEF Close, processVars
      <4>2. QED
        BY <1>1, <4>1
    <3>4. CASE ~Start(h) /\ ~Enter(h) /\ ~Close(h)
      <4>1. process' = process /\ handle' = handle
        BY <2>1, <3>4 DEF ThreadStep, SetDevice, EnterContext, LeaveContext, LaunchRaises, Return, Exit, 
          WaitForProcess, Drain, Synchronize, processVars, sessionVars
      <4>2. QED
        BY <4>1
    <3>5. QED
      BY <3>1, <3>2, <3>3, <3>4
  <2>5. \A s \in Session : /\ process[s] = "simulating" => process'[s] = "simulating" \/ kernels[s] = {}
                           /\ Broken(s) => Broken(s)'
    BY <2>4 DEF Broken
  <2>6. QED
    BY <1>1, <2>2, <2>3, <2>5, SeparatedStill
<1>4. QED
  BY <1>2, <1>3

\* A command that comes last among those of its thread on their way is given up.
LEMMA SeparatedLost ==
  ASSUME Typed, Placed, InOrder, Separated, NEW c \in Held \cup Queued, Broken(c.on), UNCHANGED <<round, kernels, process, handle>>,
         Waiting' \subseteq Waiting, Waiting \subseteq Waiting' \cup {c}, Running' = Running, Piped' = Piped
  PROVE  Separated'
<1>1. Waiting \cup Running \subseteq Command /\ c \in Command
  BY UnderWay DEF Waiting
<1>2. \A s \in Session : Broken(s)' <=> Broken(s)
  BY DEF Broken
<1>3. c.on \in Session
  BY <1>1 DEF Command
<1>4. \A e : Simulated(e)' <=> Simulated(e)
  BY DEF Simulated
<1>5. \A x \in Waiting' : x.by = c.by /\ x.device = c.device /\ x.on = c.on /\ c.nr < x.nr => x \notin Piped'
  <2>1. SUFFICES ASSUME NEW x \in Piped, x.by = c.by, x.device = c.device, x.on = c.on, c.nr < x.nr PROVE FALSE
    OBVIOUS
  <2>2. Earlier(x, c) /\ x \in Command
    BY <1>1 DEF InOrder, Waiting
  <2>3. x.nr \in Nat /\ c.nr \in Nat
    BY <1>1, <2>2 DEF Command
  <2>4. QED
    BY <2>1, <2>2, <2>3 DEF Earlier
<1>6. \A x \in Waiting : x.what = "DEVICE_SYNC" =>
        \/ x \in Waiting'
        \/ Broken(x.on)' /\ \A y \in Waiting' : y.by = x.by /\ y.device = x.device /\ y.on = x.on /\ x.nr < y.nr => y \notin Piped'
  BY <1>2, <1>3, <1>5
<1>7. /\ \A e \in Running' : e.what = "LAUNCH_KERNEL"
      /\ Launches(Running' \cup Waiting') \subseteq Running \cup Waiting
      /\ Launches(Waiting') \subseteq Waiting
  BY DEF Separated, Launches
<1>8. /\ \A e \in Launches(Running' \cup Waiting') : Simulated(e) => Simulated(e)'
      /\ \A s \in Session : Broken(s) => Broken(s)'
      /\ \A x \in Launches(Waiting') : x \notin Piped /\ Broken(x.on) => x \notin Piped'
  BY <1>2, <1>4
<1>9. Separating
  BY <1>6, <1>7, <1>8 DEF Separating
<1>10. QED
  BY <1>9, SeparatedKept

\* The step of the thread of a stream
LEMMA SeparatedStream ==
  ASSUME SessionAssumption, Sound, Entered, Separated, NEW d \in Device, StreamStep(d)
  PROVE  Separated'
<1>1. /\ Typed /\ Placed /\ InOrder /\ TypedStreams /\ None \notin Device /\ d # None
  BY DEF Sound, Typed, SessionAssumption
<1>2. UNCHANGED <<handle, process, kernels, round>>
  BY DEF StreamStep, Waken, Take, Give, Write, sessionVars, processVars, threadVars
<1>3. \A s \in Session : /\ process[s] = "simulating" => process'[s] = "simulating" \/ kernels[s] = {}
                         /\ Broken(s) => Broken(s)'
  BY <1>2 DEF Broken
<1>4. CASE Waken(d)
  <2>1. /\ UNCHANGED <<hand, pipe, kernels, finished, nr>>
        /\ queue[d] # <<>> /\ queue[d][1].what = "mark" /\ Pop(d)
    BY <1>1, <1>4, HeadTask DEF Waken, processVars
  <2>2. UNCHANGED <<Queued, Held, Piped, Running>>
    BY <1>1, <2>1, MarkInOrder
  <2>3. UNCHANGED <<Waiting, Piped, Running>>
    BY <2>2 DEF Waiting
  <2>4. QED
    BY <1>1, <1>2, <1>3, <2>3, SeparatedStill
<1>5. CASE Take(d)
  <2>1. PICK c : c = Head(queue[d])
    OBVIOUS
  <2>2. /\ c \in Queued /\ Queued' \subseteq Queued /\ Queued \subseteq Queued' \cup {c}
        /\ UNCHANGED <<Piped, Running>>
        /\ \/ process[c.on] = "exited" /\ Held' = Held
           \/ Held' = Held \cup {c}
    BY <1>1, <1>5, <2>1, TakeInOrder
  <2>3. CASE process[c.on] = "exited" /\ Held' = Held
    <3>1. Broken(c.on)
      BY <2>3 DEF Broken
    <3>2. Waiting' \subseteq Waiting /\ Waiting \subseteq Waiting' \cup {c}
      BY <2>2, <2>3 DEF Waiting
    <3>3. QED
      BY <1>1, <1>2, <2>2, <3>1, <3>2, SeparatedLost
  <2>4. CASE Held' = Held \cup {c}
    <3>1. Waiting' = Waiting
      BY <2>2, <2>4 DEF Waiting
    <3>2. QED
      BY <1>1, <1>2, <1>3, <2>2, <3>1, SeparatedStill
  <2>5. QED
    BY <2>2, <2>3, <2>4
<1>6. CASE Give(d) \/ Write(d)
  <2>1. PICK c : c = hand[d]
    OBVIOUS
  <2>2. /\ c \in Held /\ c \in Command /\ UNCHANGED <<Queued, Running>>
        /\ \/ UNCHANGED <<Held, Piped>>
           \/ /\ Held' \subseteq Held /\ Held \subseteq Held' \cup {c}
              /\ \/ Piped' = Piped /\ (process[c.on] = "exited" \/ handle[c.on] # "open")
                 \/ Piped' = Piped \cup {c} /\ process[c.on] # "exited" /\ lock[c.on] = d
    BY <1>1, <1>6, <2>1, HandInOrder
  <2>3. c.on \in Session
    BY <2>2 DEF Command
  <2>4. CASE UNCHANGED <<Held, Piped>>
    <3>1. Waiting' = Waiting
      BY <2>2, <2>4 DEF Waiting
    <3>2. QED
      BY <1>1, <1>2, <1>3, <2>2, <2>4, <3>1, SeparatedStill
  <2>5. CASE /\ Held' \subseteq Held /\ Held \subseteq Held' \cup {c}
             /\ Piped' = Piped /\ (process[c.on] = "exited" \/ handle[c.on] # "open")
    <3>1. handle[c.on] \in {"none", "open", "closed"} /\ handle[c.on] # "none"
      BY <1>1, <2>2, <2>3 DEF Entered, Typed, TypedSessions
    <3>2. Broken(c.on)
      BY <2>5, <3>1 DEF Broken
    <3>3. Waiting' \subseteq Waiting /\ Waiting \subseteq Waiting' \cup {c}
      BY <2>2, <2>5 DEF Waiting
    <3>4. QED
      BY <1>1, <1>2, <2>2, <2>5, <3>2, <3>3, SeparatedLost
  <2>6. CASE /\ Held' \subseteq Held /\ Held \subseteq Held' \cup {c}
             /\ Piped' = Piped \cup {c} /\ process[c.on] # "exited" /\ lock[c.on] = d
    <3>1. Waiting' = Waiting
      BY <2>2, <2>6 DEF Waiting
    <3>2. ~Broken(c.on)
      BY <1>1, <2>3, <2>6 DEF Broken, Entered
    <3>3. \A e : Simulated(e)' <=> Simulated(e)
      BY <1>2 DEF Simulated
    <3>4. \A x \in Launches(Waiting') : x \notin Piped /\ Broken(x.on) => x \notin Piped'
      BY <2>6, <3>2
    <3>5. Separating
      BY <1>3, <2>2, <3>1, <3>3, <3>4 DEF Separating, Launches, Separated
    <3>6. QED
      BY <1>1, <1>2, <3>5, SeparatedKept
  <2>7. QED
    BY <2>2, <2>4, <2>5, <2>6
<1>7. QED
  BY <1>4, <1>5, <1>6 DEF StreamStep

\* The simulator reads a line: a synchronization, when everything before it that is left runs.
LEMMA SeparatedRead ==
  ASSUME SessionAssumption, Sound, Separated, NEW s \in Session, Read(s)
  PROVE  Separated'
<1>1. /\ Typed /\ Placed /\ InOrder
      /\ process \in [Session -> {"none", "starting", "reading", "simulating", "ending", "exited"}]
  BY DEF Sound, Typed, TypedProcesses
<1>2. PICK c : c = Head(pipe[s])
  OBVIOUS
<1>3. /\ c \in Elems(pipe[s]) /\ c \in Piped /\ c \in Command /\ c.on = s
      /\ UNCHANGED <<Queued, Held>>
      /\ Piped' \subseteq Piped /\ Piped \subseteq Piped' \cup {c}
      /\ \A x \in Piped' : Earlier(c, x)
      /\ \A t \in Session : kernels'[t] = IF t = s /\ c.what = "LAUNCH_KERNEL" THEN kernels[t] \cup {c} ELSE kernels[t]
      /\ Running' = IF c.what = "LAUNCH_KERNEL" THEN Running \cup {c} ELSE Running
  BY <1>1, <1>2, ReadInOrder
<1>4. /\ process[s] = "reading" /\ UNCHANGED <<handle, round>>
      /\ process' = IF c.what = "LAUNCH_KERNEL" THEN process ELSE [process EXCEPT ![s] = "simulating"]
  BY <1>2 DEF Read, sessionVars, threadVars
<1>5. /\ Waiting' \subseteq Waiting /\ Waiting \subseteq Waiting' \cup {c}
      /\ Waiting \cup Running \subseteq Command /\ \A x \in Command : x.on \in Session /\ x.nr \in Nat
      /\ \A t \in Session : kernels[t] \subseteq Running
  BY <1>1, <1>3, UnderWay DEF Waiting, Command
<1>6. \A t \in Session : process'[t] = IF t = s /\ c.what # "LAUNCH_KERNEL" THEN "simulating" ELSE process[t]
  BY <1>1, <1>4
<1>7. \A t \in Session : Broken(t) => Broken(t)'
  BY <1>4, <1>6 DEF Broken
<1>8. \A e \in Launches(Running' \cup Waiting') : Simulated(e) => Simulated(e)'
  <2>1. SUFFICES ASSUME NEW e \in Launches(Running' \cup Waiting'), Simulated(e) PROVE Simulated(e)'
    OBVIOUS
  <2>2. e.on \in Session
    BY <1>3, <1>5 DEF Launches
  <2>3. kernels[e.on] \subseteq kernels'[e.on]
    BY <1>3, <2>2
  <2>4. QED
    BY <1>6, <2>1, <2>2, <2>3 DEF Simulated
<1>9. ASSUME c.what = "DEVICE_SYNC", NEW e \in Launches(Running' \cup Waiting'), Between(e, c) PROVE Simulated(e)'
  <2>1. e.on = s /\ ~Earlier(c, e)
    <3>1. Before(e, c) /\ c.on = e.on /\ e \in Command
      BY <1>3, <1>5, <1>9 DEF Between, Launches
    <3>2. e.nr \in Nat /\ c.nr \in Nat
      BY <1>3, <1>5, <3>1
    <3>3. QED
      BY <1>3, <3>1, <3>2 DEF Before, Earlier
  <2>2. e \notin Waiting'
    <3>1. e \notin Piped'
      BY <1>3, <2>1
    <3>2. \A x \in Held \cup Queued : Earlier(c, x)
      BY <1>1, <1>3 DEF InOrder
    <3>3. QED
      BY <1>3, <2>1, <3>1, <3>2 DEF Waiting
  <2>3. e \in Running
    BY <1>3, <1>9, <2>2 DEF Launches
  <2>4. PICK t \in Session : e \in kernels[t]
    BY <2>3 DEF Running
  <2>5. t = s
    BY <1>1, <2>1, <2>4 DEF Placed
  <2>6. QED
    BY <1>3, <1>6, <1>9, <2>1, <2>4, <2>5 DEF Simulated
<1>10. \A x \in Waiting : x.what = "DEVICE_SYNC" =>
         \/ x \in Waiting'
         \/ \A e \in Launches(Running' \cup Waiting') : Between(e, x) => Simulated(e)'
  BY <1>5, <1>9
<1>11. /\ \A e \in Running' : e.what = "LAUNCH_KERNEL"
       /\ Launches(Running' \cup Waiting') \subseteq Running \cup Waiting
       /\ Launches(Waiting') \subseteq Waiting
  <2>1. \A e \in Running' : e.what = "LAUNCH_KERNEL"
    BY <1>3 DEF Separated
  <2>2. c \in Waiting
    BY <1>3 DEF Waiting
  <2>3. QED
    BY <1>3, <1>5, <2>1, <2>2 DEF Launches
<1>12. \A x \in Launches(Waiting') : x \notin Piped => x \notin Piped'
  BY <1>3
<1>13. Separating
  BY <1>7, <1>8, <1>10, <1>11, <1>12 DEF Separating
<1>14. QED
  BY <1>1, <1>4, <1>13, SeparatedKept

\* A kernel finishes, or the simulator dies.
LEMMA SeparatedEnd ==
  ASSUME SessionAssumption, Sound, Separated, NEW s \in Session, Finish(s) \/ Crash(s)
  PROVE  Separated'
<1>1. /\ Typed /\ Placed /\ InOrder
      /\ process \in [Session -> {"none", "starting", "reading", "simulating", "ending", "exited"}]
      /\ kernels \in [Session -> SUBSET Command]
  BY DEF Sound, Typed, TypedProcesses
<1>2. /\ UNCHANGED <<Queued, Held>>
      /\ \A t \in Session : t # s => kernels'[t] = kernels[t]
      /\ Running' \subseteq Running /\ Piped' \subseteq Piped
      /\ Finish(s) => UNCHANGED <<Piped, pipe>>
      /\ Crash(s) => /\ kernels'[s] = {} /\ Elems(pipe'[s]) = {}
                     /\ \A t \in Session : t # s => Elems(pipe'[t]) = Elems(pipe[t])
  BY <1>1, EndInOrder
<1>3. UNCHANGED <<handle, round>>
  BY DEF Finish, Crash, sessionVars, threadVars
<1>4. /\ Waiting' \subseteq Waiting /\ Waiting \cup Running \subseteq Command /\ \A x \in Command : x.on \in Session
      /\ \A t \in Session : kernels[t] \subseteq Running
  BY <1>1, <1>2, UnderWay DEF Waiting, Command
<1>5. /\ \A e \in Running' : e.what = "LAUNCH_KERNEL"
      /\ Launches(Running' \cup Waiting') \subseteq Running \cup Waiting
      /\ Launches(Waiting') \subseteq Waiting
      /\ \A x \in Launches(Waiting') : x \notin Piped => x \notin Piped'
  BY <1>2, <1>4 DEF Separated, Launches
<1>6. CASE Finish(s)
  <2>1. PICK k \in kernels[s] : kernels' = [kernels EXCEPT ![s] = kernels[s] \ {k}]
    BY <1>6 DEF Finish
  <2>2. process' = process
    BY <1>6 DEF Finish
  <2>3. Waiting' = Waiting
    BY <1>2, <1>6 DEF Waiting
  <2>4. k.on = s /\ k \in Running
    BY <1>1, <1>4 DEF Placed
  <2>5. k \notin Running' \cup Waiting'
    <3>1. Earlier(k, k) => FALSE
      BY <1>4, <2>4 DEF Earlier, Command
    <3>2. k \notin Waiting
      BY <1>1, <2>4, <3>1 DEF InOrder
    <3>3. ASSUME NEW t \in Session, k \in kernels'[t] PROVE FALSE
      <4>1. t # s
        BY <1>1, <2>1, <3>3
      <4>2. k \in kernels[t]
        BY <1>2, <3>3, <4>1
      <4>3. QED
        BY <1>1, <2>4, <4>1, <4>2 DEF Placed
    <3>4. QED
      BY <2>3, <3>2, <3>3 DEF Running
  <2>6. \A e \in Launches(Running' \cup Waiting') : Simulated(e) => Simulated(e)'
    <3>1. SUFFICES ASSUME NEW e \in Launches(Running' \cup Waiting'), Simulated(e) PROVE Simulated(e)'
      OBVIOUS
    <3>2. e # k /\ e.on \in Session
      BY <1>4, <1>5, <2>5 DEF Launches
    <3>3. e \in kernels'[e.on]
      BY <1>1, <2>1, <3>1, <3>2 DEF Simulated
    <3>4. QED
      BY <2>2, <3>1, <3>3 DEF Simulated
  <2>7. \A t \in Session : Broken(t) => Broken(t)'
    BY <1>3, <2>2 DEF Broken
  <2>8. Separating
    BY <1>5, <2>3, <2>6, <2>7 DEF Separating
  <2>9. QED
    BY <1>1, <1>3, <2>8, SeparatedKept
<1>7. CASE Crash(s)
  <2>1. process' = [process EXCEPT ![s] = "exited"]
    BY <1>7 DEF Crash
  <2>2. \A t \in Session : process'[t] = IF t = s THEN "exited" ELSE process[t]
    BY <1>1, <2>1
  <2>3. Broken(s)' /\ \A t \in Session : Broken(t) => Broken(t)'
    BY <1>3, <2>2 DEF Broken
  <2>4. \A x \in Waiting' : x.on = s => x \notin Piped'
    <3>1. SUFFICES ASSUME NEW x \in Piped', x.on = s PROVE FALSE
      OBVIOUS
    <3>2. PICK t \in Session : x \in Elems(pipe'[t])
      BY DEF Piped
    <3>3. t # s
      BY <1>2, <1>7, <3>2
    <3>4. x \in Elems(pipe[t])
      BY <1>2, <1>7, <3>2, <3>3
    <3>5. QED
      BY <1>1, <3>1, <3>3, <3>4 DEF Placed
  <2>5. \A x \in Waiting : x.what = "DEVICE_SYNC" =>
          \/ x \in Waiting'
          \/ Broken(x.on)' /\ \A c \in Waiting' : c.by = x.by /\ c.device = x.device /\ c.on = x.on /\ x.nr < c.nr => c \notin Piped'
    <3>1. SUFFICES ASSUME NEW x \in Waiting, x \notin Waiting' PROVE x.on = s
      BY <2>3, <2>4
    <3>2. x \in Piped
      BY <1>2, <3>1 DEF Waiting
    <3>3. PICK t \in Session : x \in Elems(pipe[t])
      BY <3>2 DEF Piped
    <3>4. CASE t = s
      BY <1>1, <3>3, <3>4 DEF Placed
    <3>5. CASE t # s
      <4>1. x \in Elems(pipe'[t])
        BY <1>2, <1>7, <3>3, <3>5
      <4>2. QED
        BY <3>1, <4>1 DEF Waiting, Piped
    <3>6. QED
      BY <3>4, <3>5
  <2>6. \A e \in Launches(Running' \cup Waiting') : Simulated(e) =>
          \/ Simulated(e)'
          \/ Broken(e.on)' /\ \A c \in Waiting' : c.on = e.on => c \notin Piped'
    <3>1. SUFFICES ASSUME NEW e \in Launches(Running' \cup Waiting'), Simulated(e), e.on # s PROVE Simulated(e)'
      BY <2>3, <2>4
    <3>2. e.on \in Session
      BY <1>4, <1>5
    <3>3. QED
      BY <1>2, <2>2, <3>1, <3>2 DEF Simulated
  <2>7. Separating
    BY <1>5, <2>3, <2>5, <2>6 DEF Separating
  <2>8. QED
    BY <1>1, <1>3, <2>7, SeparatedKept
<1>8. QED
  BY <1>6, <1>7

\* The step of a simulator process
LEMMA SeparatedProcess ==
  ASSUME SessionAssumption, Sound, Separated, NEW s \in Session, ProcessStep(s) \/ Crash(s)
  PROVE  Separated'
<1>1. CASE Open(s) \/ EndOfFile(s) \/ Idle(s)
  <2>1. /\ Typed /\ Placed /\ InOrder
        /\ process \in [Session -> {"none", "starting", "reading", "simulating", "ending", "exited"}]
    BY DEF Sound, Typed, TypedProcesses
  <2>2. UNCHANGED <<queue, hand, pipe, kernels, finished, nr, round, handle>>
    BY <1>1 DEF Open, EndOfFile, Idle, threadVars, sessionVars, streamVars
  <2>3. UNCHANGED <<Waiting, Running, Piped>>
    <3>1. UNCHANGED <<Queued, Held, Piped, Running>>
      BY <2>1, <2>2, StillInOrder
    <3>2. QED
      BY <3>1 DEF Waiting
  <2>4. \A t \in Session : /\ process[t] = "simulating" => process'[t] = "simulating" \/ kernels[t] = {}
                           /\ process[t] = "exited" => process'[t] = "exited"
    <3>1. CASE Open(s)
      <4>1. process[s] = "starting" /\ process' = [process EXCEPT ![s] = "reading"]
        BY <3>1 DEF Open
      <4>2. QED
        BY <2>1, <4>1
    <3>2. CASE EndOfFile(s)
      <4>1. process[s] = "reading" /\ process' = [process EXCEPT ![s] = "ending"]
        BY <3>2 DEF EndOfFile
      <4>2. QED
        BY <2>1, <4>1
    <3>3. CASE Idle(s)
      <4>1. process[s] \in {"simulating", "ending"} /\ kernels[s] = {}
            /\ process' = [process EXCEPT ![s] = IF process[s] = "ending" THEN "exited" ELSE "reading"]
        BY <3>3 DEF Idle
      <4>2. QED
        BY <2>1, <4>1
    <3>4. QED
      BY <1>1, <3>1, <3>2, <3>3
  <2>5. \A t \in Session : Broken(t) => Broken(t)'
    BY <2>2, <2>4 DEF Broken
  <2>6. QED
    BY <2>1, <2>2, <2>3, <2>4, <2>5, SeparatedStill
<1>2. QED
  BY <1>1, SeparatedRead, SeparatedEnd DEF ProcessStep

\* A kernel is launched in the simulator only when a line is read, and then the ones before a
\* synchronization of its thread are finished.
LEMMA BarrierStep ==
  ASSUME SessionAssumption, Sound, Separated, Next,
         NEW s \in Session, NEW c \in kernels'[s] \ kernels[s], NEW e \in kernels[s], Before(e, c)
  PROVE  e.round = c.round
<1>1. Typed /\ Placed /\ InOrder
  BY DEF Sound
<1>2. ASSUME kernels' = kernels PROVE FALSE
  BY <1>2
<1>3. \A h \in Thread : ~ThreadStep(h)
  BY <1>2 DEF ThreadStep, SetDevice, EnterContext, LeaveContext, LaunchRaises, Return, Exit, Start, Enter, Close,
    WaitForProcess, Drain, Launch, Synchronize, processVars
<1>4. \A d \in Device : ~StreamStep(d)
  BY <1>2 DEF StreamStep, Waken, Take, Give, Write, processVars
<1>5. PICK t \in Session : ProcessStep(t) \/ Crash(t)
  BY <1>3, <1>4 DEF Next
<1>6. Read(t)
  <2>1. ~Open(t) /\ ~EndOfFile(t) /\ ~Idle(t)
    BY <1>2 DEF Open, EndOfFile, Idle
  <2>2. Finish(t) \/ Crash(t) => kernels'[s] \subseteq kernels[s]
    BY <1>1, EndInOrder
  <2>3. QED
    BY <1>5, <2>1, <2>2 DEF ProcessStep
<1>7. PICK x : x = Head(pipe[t])
  OBVIOUS
<1>8. /\ x \in Elems(pipe[t]) /\ x \in Piped /\ x \in Command /\ x.on = t
      /\ \A y \in Piped' : Earlier(x, y)
      /\ Piped \subseteq Piped' \cup {x}
      /\ \A r \in Session : kernels'[r] = IF r = t /\ x.what = "LAUNCH_KERNEL" THEN kernels[r] \cup {x} ELSE kernels[r]
  BY <1>1, <1>6, <1>7, ReadInOrder
<1>9. c = x /\ t = s /\ c.what = "LAUNCH_KERNEL"
  BY <1>8
<1>10. e.on = s /\ e \in Running /\ e.what = "LAUNCH_KERNEL" /\ c \in Waiting
  <2>1. e \in Running
    BY DEF Running
  <2>2. QED
    BY <1>1, <1>8, <1>9, <2>1 DEF Placed, Separated, Waiting
<1>11. SUFFICES ASSUME e.round # c.round PROVE FALSE
  OBVIOUS
<1>12. \/ \E y \in Waiting : Between(e, y) /\ y.nr < c.nr
       \/ Simulated(e)
       \/ c \notin Piped /\ Broken(c.on)
  BY <1>8, <1>9, <1>10, <1>11 DEF Separated, Launches
<1>13. ~Simulated(e)
  BY <1>6, <1>9, <1>10 DEF Simulated, Read
<1>14. PICK y \in Waiting : Between(e, y) /\ y.nr < c.nr
  BY <1>8, <1>9, <1>12, <1>13
<1>15. y.by = c.by /\ y.device = c.device /\ y.on = c.on /\ y # c
  BY <1>8, <1>9, <1>10, <1>14 DEF Between, Before
<1>16. Earlier(c, y)
  <2>1. CASE y \in Piped
    BY <1>8, <1>9, <1>15, <2>1
  <2>2. CASE y \in Held \cup Queued
    BY <1>1, <1>8, <1>9, <2>2 DEF InOrder
  <2>3. QED
    BY <2>1, <2>2 DEF Waiting
<1>17. y.nr \in Nat /\ c.nr \in Nat
  BY <1>1, <1>8, <1>9, UnderWay DEF Command
<1>18. QED
  BY <1>14, <1>15, <1>16, <1>17 DEF Earlier

\* What barriers rest on
Apart == Sound /\ Entered /\ Separated

\* ... holds at first ...
LEMMA ApartInit ==
  ASSUME SessionAssumption, Init
  PROVE  Apart
<1>1. Sound
  BY SoundInit
<1>2. Waiting = {} /\ Running = {} /\ lost = {}
  BY NothingYet
<1>3. Separated
  BY <1>2 DEF Separated, Launches
<1>4. Held = {} /\ Queued = {}
  BY <1>2 DEF Waiting
<1>5. Entered
  BY <1>2, <1>4 DEF Entered, Init
<1>6. QED
  BY <1>1, <1>3, <1>5 DEF Apart

\* ... and is kept.
LEMMA ApartStep ==
  ASSUME SessionAssumption, Apart, [Next]_vars
  PROVE  Apart'
<1>1. Sound /\ Entered /\ Separated /\ Sound'
  BY SoundStep DEF Apart
<1>2. CASE Next
  <2>1. Entered'
    BY <1>1, <1>2, EnteredThread, EnteredStream, EnteredProcess DEF Next
  <2>2. Separated'
    BY <1>1, <1>2, SeparatedThread, SeparatedStream, SeparatedProcess DEF Next
  <2>3. QED
    BY <1>1, <2>1, <2>2 DEF Apart
<1>3. CASE UNCHANGED vars
  <2>1. UNCHANGED <<queue, hand, pipe, kernels, finished, nr, round>>
    BY <1>3 DEF vars, threadVars, streamVars, processVars
  <2>2. UNCHANGED <<Queued, Held, Piped, Running>>
    BY <1>1, <2>1, StillInOrder DEF Sound
  <2>3. UNCHANGED <<Waiting, process, handle, simulator, outer, lock, crashes, lost>>
    BY <1>3, <2>2 DEF Waiting, vars, sessionVars, streamVars, processVars
  <2>4. Entered'
    BY <1>1, <2>2, <2>3 DEF Entered
  <2>5. Separated'
    <3>1. \A s \in Session : Broken(s) => Broken(s)'
      BY <2>3 DEF Broken
    <3>2. QED
      BY <1>1, <2>1, <2>2, <2>3, <3>1, SeparatedStill DEF Sound
  <2>6. QED
    BY <1>1, <2>4, <2>5 DEF Apart
<1>4. QED
  BY <1>2, <1>3

\* torch.npu.synchronize is a barrier on the timeline of the simulator, on any device and whatever crashes:
\* a kernel is launched there only when the kernels have finished that its thread launched in the same
\* session and on the same device before a synchronization that precedes it.
THEOREM SynchronizeSeparates == Spec => Barrier
<1>1. Init => Apart
  BY SessionPrograms, ApartInit
<1>2. Apart /\ [Next]_vars => Apart'
  BY SessionPrograms, ApartStep
<1>3. Apart /\ [Next]_vars =>
        [\A s \in Session : \A c \in kernels'[s] \ kernels[s] :
           \A e \in kernels[s] : Before(e, c) => e.round = c.round]_vars
  BY SessionPrograms, BarrierStep DEF Apart
<1>4. QED
  BY <1>1, <1>2, <1>3, PTL DEF Spec, Barrier

-------------------------------------------------------------------------------
(* Plans with sessions in them *)

\* The first step of a plan is done.
LEMMA BlocksTail ==
  ASSUME NEW p \in Seq(Step), p # <<>>, Blocks(p), NEW t, t = Tail(p)
  PROVE  /\ t \in Seq(Step) /\ Blocks(t) /\ Elems(p) = Elems(t) \cup {p[1]}
         /\ t # <<>> /\ t[1][1] = "wait" => p[1] = <<"close", t[1][2]>>
         /\ p[1][1] = "enter" => p[1] \notin Elems(t)
         /\ p[1][1] \in {"exit", "close"} => <<"exit", p[1][2]>> \notin Elems(t) /\ <<"close", p[1][2]>> \notin Elems(t)
<1>1. PICK L \in Nat :
        /\ t \in Seq(Step) /\ L = Len(t) /\ Len(p) = L + 1
        /\ \A i \in 1 .. L : t[i] = p[i + 1] /\ i + 1 \in 1 .. Len(p)
  <2>1. Tail(p) \in Seq(Step) /\ Len(Tail(p)) = Len(p) - 1 /\ Len(p) \in Nat /\ Len(p) # 0
    BY HeadTailProperties, EmptySeq, LenProperties
  <2>2. \A i \in 1 .. Len(Tail(p)) : Tail(p)[i] = p[i + 1]
    BY HeadTailProperties
  <2>3. Len(Tail(p)) \in Nat /\ Len(p) = Len(Tail(p)) + 1
    BY <2>1
  <2>4. \A i \in 1 .. Len(Tail(p)) : i + 1 \in 1 .. Len(p)
    BY <2>3
  <2>5. QED
    BY <2>1, <2>2, <2>3, <2>4
<1>2. Once(t)
  <2>1. ASSUME NEW i \in 1 .. Len(t), NEW j \in 1 .. Len(t), i < j
        PROVE  /\ t[i][1] = "enter" => t[i] # t[j]
               /\ ~(t[i][1] \in {"exit", "close"} /\ t[j][1] \in {"exit", "close"} /\ t[i][2] = t[j][2])
    <3>1. i + 1 < j + 1 /\ i + 1 \in 1 .. Len(p) /\ j + 1 \in 1 .. Len(p) /\ t[i] = p[i + 1] /\ t[j] = p[j + 1]
      BY <1>1, <2>1
    <3>2. QED
      BY <3>1 DEF Blocks, Once
  <2>2. QED
    BY <2>1 DEF Once
<1>3. Nested(t)
  <2>1. SUFFICES ASSUME NEW i \in 1 .. Len(t), NEW j \in 1 .. Len(t), NEW s \in Session, NEW u \in Session,
                        i < j, t[i] = <<"enter", u>>, t[j] \in Ends(s), s # u,
                        \A k \in 1 .. Len(t) : i < k /\ k < j => t[k] # <<"enter", s>>
                 PROVE  \E k \in 1 .. Len(t) : i < k /\ k < j /\ t[k] \in Ends(u)
    BY DEF Nested
  <2>2. i + 1 < j + 1 /\ i + 1 \in 1 .. Len(p) /\ j + 1 \in 1 .. Len(p) /\ p[i + 1] = <<"enter", u>> /\ p[j + 1] \in Ends(s)
    BY <1>1, <2>1
  <2>3. ASSUME NEW k \in 1 .. Len(p), i + 1 < k, k < j + 1 PROVE k - 1 \in 1 .. Len(t) /\ i < k - 1 /\ k - 1 < j /\ t[k - 1] = p[k]
    <3>1. k - 1 \in 1 .. L /\ i < k - 1 /\ k - 1 < j /\ (k - 1) + 1 = k
      BY <1>1, <2>3
    <3>2. QED
      BY <1>1, <3>1
  <2>4. \A k \in 1 .. Len(p) : i + 1 < k /\ k < j + 1 => p[k] # <<"enter", s>>
    BY <2>1, <2>3
  <2>5. PICK k \in 1 .. Len(p) : i + 1 < k /\ k < j + 1 /\ p[k] \in Ends(u)
    BY <2>1, <2>2, <2>4 DEF Blocks, Nested
  <2>6. QED
    BY <2>3, <2>5
<1>4. Paired(t)
  <2>1. SUFFICES ASSUME NEW i \in 1 .. Len(t), i > 1, t[i][1] = "wait" PROVE t[i - 1] = <<"close", t[i][2]>>
    BY DEF Paired
  <2>2. i + 1 \in 1 .. Len(p) /\ i + 1 > 1 /\ t[i] = p[i + 1] /\ i - 1 \in 1 .. L /\ (i - 1) + 1 = i /\ (i + 1) - 1 = i
    BY <1>1, <2>1
  <2>3. t[i - 1] = p[i]
    BY <1>1, <2>2
  <2>4. QED
    BY <2>1, <2>2, <2>3 DEF Blocks, Paired
<1>5. Elems(p) = Elems(t) \cup {p[1]}
  BY ElemsTail, Zenon
<1>6. t # <<>> /\ t[1][1] = "wait" => p[1] = <<"close", t[1][2]>>
  <2>1. SUFFICES ASSUME t # <<>>, t[1][1] = "wait" PROVE p[1] = <<"close", t[1][2]>>
    OBVIOUS
  <2>2. 1 \in 1 .. L
    BY <1>1, <2>1, EmptySeq
  <2>3. t[1] = p[2] /\ 2 \in 1 .. Len(p) /\ 2 > 1 /\ 2 - 1 = 1
    BY <1>1, <2>2
  <2>4. QED
    BY <2>1, <2>3 DEF Blocks, Paired
<1>7. \A i \in 1 .. L : 1 \in 1 .. Len(p) /\ 1 < i + 1
  BY <1>1
<1>8. p[1][1] = "enter" => p[1] \notin Elems(t)
  BY <1>1, <1>7 DEF Blocks, Once, Elems
<1>9. ASSUME p[1][1] \in {"exit", "close"}, NEW x \in Elems(t), x[1] \in {"exit", "close"}, x[2] = p[1][2] PROVE FALSE
  <2>1. PICK i \in 1 .. L : t[i] = x
    BY <1>1 DEF Elems
  <2>2. t[i][1] \in {"exit", "close"} /\ t[i][2] = p[1][2]
    BY <1>9, <2>1
  <2>3. QED
    BY <1>1, <1>7, <1>9, <2>2 DEF Blocks, Once
<1>10. p[1][1] \in {"exit", "close"} => <<"exit", p[1][2]>> \notin Elems(t) /\ <<"close", p[1][2]>> \notin Elems(t)
  <2>1. PICK v : v = p[1][2]
    OBVIOUS
  <2>2. PICK x, y : x = <<"exit", v>> /\ y = <<"close", v>>
    OBVIOUS
  <2>3. x[1] = "exit" /\ x[2] = v /\ y[1] = "close" /\ y[2] = v
    BY <2>2
  <2>4. p[1][1] \in {"exit", "close"} => x \notin Elems(t) /\ y \notin Elems(t)
    BY <1>9, <2>1, <2>3
  <2>5. QED
    BY <2>1, <2>2, <2>4, Zenon
<1>11. QED
  BY <1>1, <1>2, <1>3, <1>4, <1>5, <1>6, <1>8, <1>10 DEF Blocks

\* ... and ends no session.
LEMMA EndsFirstTail ==
  ASSUME NEW p \in Seq(Step), p # <<>>, NEW a, NEW b, EndsFirst(p, a, b), p[1] \notin Ends(a)
  PROVE  EndsFirst(Tail(p), a, b)
<1>1. PICK t \in Seq(Step), L \in Nat :
        /\ t = Tail(p) /\ L = Len(t) /\ Len(p) = L + 1
        /\ \A i \in 1 .. L : t[i] = p[i + 1] /\ i + 1 \in 1 .. Len(p)
  <2>1. Tail(p) \in Seq(Step) /\ Len(Tail(p)) = Len(p) - 1 /\ Len(p) \in Nat /\ Len(p) # 0
    BY HeadTailProperties, EmptySeq, LenProperties
  <2>2. \A i \in 1 .. Len(Tail(p)) : Tail(p)[i] = p[i + 1]
    BY HeadTailProperties
  <2>3. Len(Tail(p)) \in Nat /\ Len(p) = Len(Tail(p)) + 1
    BY <2>1
  <2>4. \A i \in 1 .. Len(Tail(p)) : i + 1 \in 1 .. Len(p)
    BY <2>3
  <2>5. QED
    BY <2>1, <2>2, <2>3, <2>4
<1>2. SUFFICES ASSUME NEW j \in 1 .. L, t[j] \in Ends(b) PROVE \E i \in 1 .. L : i < j /\ t[i] \in Ends(a)
  BY <1>1 DEF EndsFirst
<1>3. PICK i \in 1 .. Len(p) : i < j + 1 /\ p[i] \in Ends(a)
  BY <1>1, <1>2 DEF EndsFirst
<1>4. i # 1
  BY <1>3
<1>5. i - 1 \in 1 .. L /\ i - 1 < j /\ (i - 1) + 1 = i
  BY <1>1, <1>3, <1>4
<1>6. t[i - 1] = p[i]
  BY <1>1, <1>5
<1>7. QED
  BY <1>3, <1>5, <1>6

\* Steps that enter and leave no session are put before a plan.
LEMMA BlocksBefore ==
  ASSUME NEW u \in Seq(Step), NEW t \in Seq(Step), Blocks(t), \A i \in 1 .. Len(u) : u[i][1] \notin Brackets,
         t # <<>> => t[1][1] # "wait", NEW r, r = u \o t
  PROVE  /\ Blocks(r)
         /\ \A a, b : EndsFirst(t, a, b) => EndsFirst(r, a, b)
         /\ \A x \in Elems(r) : x[1] \in Brackets => x \in Elems(t)
<1>1. PICK L \in Nat, M \in Nat :
        /\ L = Len(u) /\ M = Len(t) /\ Len(r) = L + M
        /\ \A i \in 1 .. L : i \in 1 .. Len(r) /\ r[i] = u[i]
        /\ \A j \in 1 .. M : L + j \in 1 .. Len(r) /\ r[L + j] = t[j]
        /\ \A i \in 1 .. Len(r) : \/ i \in 1 .. L /\ r[i] = u[i]
                                 \/ \E j \in 1 .. M : i = L + j /\ r[i] = t[j]
  <2>1. Joined(r, u, t)
    BY ConcatPlaces
  <2>2. QED
    BY <2>1 DEF Joined
<1>2. ASSUME NEW i \in 1 .. Len(r), r[i][1] \in Brackets PROVE \E j \in 1 .. M : i = L + j /\ r[i] = t[j]
  BY <1>1, <1>2
<1>3. Once(r)
  <2>1. ASSUME NEW i \in 1 .. Len(r), NEW j \in 1 .. Len(r), i < j, r[i][1] = "enter", r[i] = r[j] PROVE FALSE
    <3>1. r[i][1] \in Brackets /\ r[j][1] \in Brackets
      BY <2>1 DEF Brackets
    <3>2. PICK m \in 1 .. M, n \in 1 .. M : i = L + m /\ r[i] = t[m] /\ j = L + n /\ r[j] = t[n]
      BY <1>2, <3>1
    <3>3. m < n
      BY <2>1, <3>2
    <3>4. QED
      BY <1>1, <2>1, <3>2, <3>3 DEF Blocks, Once
  <2>2. ASSUME NEW i \in 1 .. Len(r), NEW j \in 1 .. Len(r), i < j,
               r[i][1] \in {"exit", "close"}, r[j][1] \in {"exit", "close"}, r[i][2] = r[j][2] PROVE FALSE
    <3>1. r[i][1] \in Brackets /\ r[j][1] \in Brackets
      BY <2>2 DEF Brackets
    <3>2. PICK m \in 1 .. M, n \in 1 .. M : i = L + m /\ r[i] = t[m] /\ j = L + n /\ r[j] = t[n]
      BY <1>2, <3>1
    <3>3. m < n
      BY <2>2, <3>2
    <3>4. QED
      BY <1>1, <2>2, <3>2, <3>3 DEF Blocks, Once
  <2>3. QED
    BY <2>1, <2>2 DEF Once
<1>4. Nested(r)
  <2>1. SUFFICES ASSUME NEW i \in 1 .. Len(r), NEW j \in 1 .. Len(r), NEW s \in Session, NEW v \in Session,
                        i < j, r[i] = <<"enter", v>>, r[j] \in Ends(s), s # v,
                        \A k \in 1 .. Len(r) : i < k /\ k < j => r[k] # <<"enter", s>>
                 PROVE  \E k \in 1 .. Len(r) : i < k /\ k < j /\ r[k] \in Ends(v)
    BY DEF Nested
  <2>2. r[i][1] \in Brackets /\ r[j][1] \in Brackets
    BY <2>1 DEF Brackets, Ends
  <2>3. PICK m \in 1 .. M, n \in 1 .. M : i = L + m /\ r[i] = t[m] /\ j = L + n /\ r[j] = t[n]
    BY <1>2, <2>2
  <2>4. m < n
    BY <2>1, <2>3
  <2>5. ASSUME NEW k \in 1 .. M, m < k, k < n PROVE L + k \in 1 .. Len(r) /\ r[L + k] = t[k] /\ i < L + k /\ L + k < j
    BY <1>1, <2>3, <2>5
  <2>6. \A k \in 1 .. M : m < k /\ k < n => t[k] # <<"enter", s>>
    BY <2>1, <2>5
  <2>7. PICK k \in 1 .. M : m < k /\ k < n /\ t[k] \in Ends(v)
    BY <1>1, <2>1, <2>3, <2>4, <2>6 DEF Blocks, Nested
  <2>8. QED
    BY <2>5, <2>7
<1>5. Paired(r)
  <2>1. SUFFICES ASSUME NEW i \in 1 .. Len(r), i > 1, r[i][1] = "wait" PROVE r[i - 1] = <<"close", r[i][2]>>
    BY DEF Paired
  <2>2. PICK m \in 1 .. M : i = L + m /\ r[i] = t[m]
    BY <1>2, <2>1 DEF Brackets
  <2>3. m # 1
    <3>1. t # <<>>
      BY <1>1, <2>2, EmptySeq
    <3>2. QED
      BY <2>1, <2>2, <3>1
  <2>4. m > 1 /\ m - 1 \in 1 .. M /\ L + (m - 1) = i - 1
    BY <1>1, <2>2, <2>3
  <2>5. r[i - 1] = t[m - 1]
    BY <1>1, <2>4
  <2>6. t[m - 1] = <<"close", t[m][2]>>
    BY <1>1, <2>1, <2>2, <2>4 DEF Blocks, Paired
  <2>7. QED
    BY <2>2, <2>5, <2>6
<1>6. ASSUME NEW a, NEW b, EndsFirst(t, a, b) PROVE EndsFirst(r, a, b)
  <2>1. SUFFICES ASSUME NEW j \in 1 .. Len(r), r[j] \in Ends(b) PROVE \E i \in 1 .. Len(r) : i < j /\ r[i] \in Ends(a)
    BY DEF EndsFirst
  <2>2. r[j][1] \in Brackets
    BY <2>1 DEF Brackets, Ends
  <2>3. PICK n \in 1 .. M : j = L + n /\ r[j] = t[n]
    BY <1>2, <2>2
  <2>4. PICK m \in 1 .. M : m < n /\ t[m] \in Ends(a)
    BY <1>1, <1>6, <2>1, <2>3 DEF EndsFirst
  <2>5. L + m \in 1 .. Len(r) /\ L + m < j /\ r[L + m] = t[m]
    BY <1>1, <2>3, <2>4
  <2>6. QED
    BY <2>4, <2>5
<1>7. \A x \in Elems(r) : x[1] \in Brackets => x \in Elems(t)
  BY <1>1, <1>2, SMTT(30) DEF Elems
<1>8. QED
  BY <1>3, <1>4, <1>5, <1>6, <1>7 DEF Blocks

\* What is left of a plan when a with statement is left
Leaves(p, s, r) == r = <<<<"sync">>, <<"close", s>>, <<"wait", s>>>> \o Tail(p)

\* A with statement is left: it synchronizes, closes the FIFO and waits for the process.
LEMMA BlocksExit ==
  ASSUME SessionAssumption, NEW p \in Seq(Step), p # <<>>, Blocks(p), NEW s \in Session, p[1] = <<"exit", s>>,
         NEW r, Leaves(p, s, r)
  PROVE  /\ Blocks(r) /\ r # <<>> /\ r[1] = <<"sync">>
         /\ \A a, b : EndsFirst(p, a, b) => EndsFirst(r, a, b)
         /\ \A x \in Elems(r) : x \in Elems(p) \cup {<<"sync">>, <<"close", s>>, <<"wait", s>>}
<1>1. PICK u \in Seq(Step) : u = <<<<"sync">>, <<"close", s>>, <<"wait", s>>>>
  BY NewSteps
<1>2. PICK t \in Seq(Step) : t = Tail(p)
  BY HeadTailProperties
<1>3. Joined(r, u, t)
  <2>1. r = u \o t
    BY <1>1, <1>2, Zenon DEF Leaves
  <2>2. QED
    BY <2>1, ConcatPlaces
<1>4. Len(u) = 3 /\ u[1] = <<"sync">> /\ u[2] = <<"close", s>> /\ u[3] = <<"wait", s>>
  BY <1>1
<1>5. /\ Len(p) \in Nat \ {0} /\ Len(p) = Len(t) + 1 /\ Len(t) \in Nat
      /\ \A j \in 1 .. Len(t) : t[j] = p[j + 1]
  <2>1. Tail(p) \in Seq(Step) /\ Len(Tail(p)) = Len(p) - 1 /\ Len(p) \in Nat /\ Len(p) # 0
    BY HeadTailProperties, EmptySeq, LenProperties
  <2>2. \A i \in 1 .. Len(Tail(p)) : Tail(p)[i] = p[i + 1]
    BY HeadTailProperties
  <2>3. QED
    BY <1>2, <2>1, <2>2
<1>6. PICK N \in Nat : N = Len(p) /\ Len(r) = N + 2 /\ N > 0
  BY <1>3, <1>4, <1>5 DEF Joined
<1>7. 1 \in 1 .. Len(r) /\ r[1] = <<"sync">> /\ 2 \in 1 .. Len(r) /\ r[2] = <<"close", s>> /\ 3 \in 1 .. Len(r) /\ r[3] = <<"wait", s>>
  BY <1>3, <1>4 DEF Joined
<1>8. \A j \in 1 .. Len(t) : 3 + j \in 1 .. Len(r) /\ r[3 + j] = t[j]
  BY <1>3, <1>4 DEF Joined
<1>9. ASSUME NEW m \in 1 .. N, m # 1 PROVE m + 2 \in 1 .. Len(r) /\ r[m + 2] = p[m]
  <2>1. m - 1 \in 1 .. Len(t) /\ 3 + (m - 1) = m + 2 /\ (m - 1) + 1 = m
    BY <1>5, <1>6, <1>9
  <2>2. QED
    BY <1>5, <1>8, <2>1
<1>10. ASSUME NEW n \in 1 .. Len(r), n \notin {1, 2, 3} PROVE \E m \in 1 .. N : m # 1 /\ n = m + 2 /\ r[n] = p[m]
  <2>1. n - 2 \in 1 .. N /\ n - 2 # 1 /\ n = (n - 2) + 2
    BY <1>6, <1>10
  <2>2. QED
    BY <1>9, <2>1
<1>11. 1 \in 1 .. N /\ \A m \in 1 .. N : m # 1 => 1 < m
  BY <1>6
<1>12. p[1][1] = "exit" /\ p[1][2] = s
  OBVIOUS
<1>13. Once(r)
  <2>1. ASSUME NEW i \in 1 .. Len(r), NEW j \in 1 .. Len(r), i < j, r[i][1] = "enter", r[i] = r[j] PROVE FALSE
    <3>1. i \notin {1, 2, 3}
      <4>1. r[1][1] = "sync" /\ r[2][1] = "close" /\ r[3][1] = "wait"
        BY <1>7
      <4>2. QED
        BY <2>1, <4>1
    <3>2. PICK m \in 1 .. N : m # 1 /\ i = m + 2 /\ r[i] = p[m]
      BY <1>10, <3>1
    <3>3. j \notin {1, 2, 3}
      BY <2>1, <3>2
    <3>4. PICK n \in 1 .. N : n # 1 /\ j = n + 2 /\ r[j] = p[n]
      BY <1>10, <3>3
    <3>5. m < n
      BY <2>1, <3>2, <3>4
    <3>6. QED
      BY <1>6, <2>1, <3>2, <3>4, <3>5 DEF Blocks, Once
  <2>2. ASSUME NEW i \in 1 .. Len(r), NEW j \in 1 .. Len(r), i < j,
               r[i][1] \in {"exit", "close"}, r[j][1] \in {"exit", "close"}, r[i][2] = r[j][2] PROVE FALSE
    <3>1. r[1][1] = "sync" /\ r[2][1] = "close" /\ r[2][2] = s /\ r[3][1] = "wait"
      BY <1>7
    <3>2. i # 1 /\ i # 3 /\ j # 1 /\ j # 3 /\ j # 2
      <4>1. i # 1 /\ i # 3 /\ j # 1 /\ j # 3
        BY <2>2, <3>1
      <4>2. QED
        BY <2>2, <4>1
    <3>3. PICK n \in 1 .. N : n # 1 /\ j = n + 2 /\ r[j] = p[n]
      BY <1>10, <3>2
    <3>4. CASE i = 2
      BY <1>6, <1>11, <1>12, <2>2, <3>1, <3>3, <3>4 DEF Blocks, Once
    <3>5. CASE i # 2
      <4>1. PICK m \in 1 .. N : m # 1 /\ i = m + 2 /\ r[i] = p[m]
        BY <1>10, <3>2, <3>5
      <4>2. m < n
        BY <2>2, <3>3, <4>1
      <4>3. QED
        BY <1>6, <2>2, <3>3, <4>1, <4>2 DEF Blocks, Once
    <3>6. QED
      BY <3>4, <3>5
  <2>3. QED
    BY <2>1, <2>2 DEF Once
<1>14. Nested(r)
  <2>1. SUFFICES ASSUME NEW i \in 1 .. Len(r), NEW j \in 1 .. Len(r), NEW b \in Session, NEW v \in Session,
                        i < j, r[i] = <<"enter", v>>, r[j] \in Ends(b), b # v,
                        \A k \in 1 .. Len(r) : i < k /\ k < j => r[k] # <<"enter", b>>
                 PROVE  \E k \in 1 .. Len(r) : i < k /\ k < j /\ r[k] \in Ends(v)
    BY DEF Nested
  <2>2. i \notin {1, 2, 3}
    <3>1. r[i][1] = "enter" /\ r[1][1] = "sync" /\ r[2][1] = "close" /\ r[3][1] = "wait"
      BY <1>7, <2>1
    <3>2. QED
      BY <3>1
  <2>3. PICK m \in 1 .. N : m # 1 /\ i = m + 2 /\ r[i] = p[m]
    BY <1>10, <2>2
  <2>4. j \notin {1, 2, 3}
    <3>1. i >= 3
      BY <2>3
    <3>2. QED
      BY <2>1, <3>1
  <2>5. PICK n \in 1 .. N : n # 1 /\ j = n + 2 /\ r[j] = p[n]
    BY <1>10, <2>4
  <2>6. m < n
    BY <2>1, <2>3, <2>5
  <2>7. ASSUME NEW k \in 1 .. N, m < k, k < n PROVE k + 2 \in 1 .. Len(r) /\ r[k + 2] = p[k] /\ i < k + 2 /\ k + 2 < j
    BY <1>9, <2>3, <2>5, <2>7
  <2>8. \A k \in 1 .. N : m < k /\ k < n => p[k] # <<"enter", b>>
    BY <2>1, <2>7
  <2>9. PICK k \in 1 .. N : m < k /\ k < n /\ p[k] \in Ends(v)
    BY <1>6, <2>1, <2>3, <2>5, <2>6, <2>8 DEF Blocks, Nested
  <2>10. QED
    BY <2>7, <2>9
<1>15. Paired(r)
  <2>1. SUFFICES ASSUME NEW i \in 1 .. Len(r), i > 1, r[i][1] = "wait" PROVE r[i - 1] = <<"close", r[i][2]>>
    BY DEF Paired
  <2>2. i # 2
    BY <1>7, <2>1
  <2>3. CASE i = 3
    BY <1>7, <2>3
  <2>4. CASE i # 3
    <3>1. PICK m \in 1 .. N : m # 1 /\ i = m + 2 /\ r[i] = p[m]
      BY <1>10, <2>1, <2>2, <2>4
    <3>2. m > 1 /\ p[m - 1] = <<"close", p[m][2]>>
      BY <1>6, <2>1, <3>1 DEF Blocks, Paired
    <3>3. m - 1 # 1
      <4>1. p[m - 1][1] = "close"
        BY <3>2
      <4>2. QED
        BY <1>12, <4>1
    <3>4. m - 1 \in 1 .. N /\ (m - 1) + 2 = i - 1
      BY <3>1, <3>2
    <3>5. r[i - 1] = p[m - 1]
      BY <1>9, <3>3, <3>4
    <3>6. QED
      BY <3>1, <3>2, <3>5
  <2>5. QED
    BY <2>3, <2>4
<1>16. ASSUME NEW a, NEW b, EndsFirst(p, a, b) PROVE EndsFirst(r, a, b)
  <2>1. SUFFICES ASSUME NEW j \in 1 .. Len(r), r[j] \in Ends(b) PROVE \E i \in 1 .. Len(r) : i < j /\ r[i] \in Ends(a)
    BY DEF EndsFirst
  <2>2. p[1] \notin Ends(b)
    <3>1. \A i \in 1 .. N : ~(i < 1)
      BY <1>6
    <3>2. QED
      BY <1>6, <1>11, <1>16, <3>1 DEF EndsFirst
  <2>3. j \notin {1, 2, 3}
    <3>1. b # s
      BY <2>2 DEF Ends
    <3>2. r[1] \notin Ends(b) /\ r[2] \notin Ends(b) /\ r[3] \notin Ends(b)
      BY <1>7, <3>1 DEF Ends
    <3>3. QED
      BY <2>1, <3>2
  <2>4. PICK n \in 1 .. N : n # 1 /\ j = n + 2 /\ r[j] = p[n]
    BY <1>10, <2>3
  <2>5. PICK m \in 1 .. N : m < n /\ p[m] \in Ends(a)
    BY <1>6, <1>16, <2>1, <2>4 DEF EndsFirst
  <2>6. CASE m = 1
    <3>1. a = s
      BY <2>5, <2>6 DEF Ends
    <3>2. r[2] \in Ends(a) /\ 2 < j
      BY <1>7, <2>4, <3>1 DEF Ends
    <3>3. QED
      BY <1>7, <3>2
  <2>7. CASE m # 1
    <3>1. m + 2 \in 1 .. Len(r) /\ r[m + 2] = p[m] /\ m + 2 < j
      BY <1>9, <2>4, <2>5, <2>7
    <3>2. QED
      BY <2>5, <3>1
  <2>8. QED
    BY <2>6, <2>7
<1>17. ASSUME NEW x \in Elems(r) PROVE x \in Elems(p) \cup {<<"sync">>, <<"close", s>>, <<"wait", s>>}
  <2>1. PICK n \in 1 .. Len(r) : x = r[n]
    BY DEF Elems
  <2>2. CASE n \in {1, 2, 3}
    BY <1>7, <2>1, <2>2
  <2>3. CASE n \notin {1, 2, 3}
    <3>1. PICK m \in 1 .. N : r[n] = p[m]
      BY <1>10, <2>3
    <3>2. QED
      BY <1>6, <2>1, <3>1 DEF Elems
  <2>4. QED
    BY <2>2, <2>3
<1>18. r # <<>>
  <2>1. Len(r) # 0 /\ r \in Seq(Step)
    BY <1>3, <1>6 DEF Joined
  <2>2. QED
    BY <2>1, EmptySeq
<1>19. QED
  BY <1>7, <1>13, <1>14, <1>15, <1>16, <1>17, <1>18 DEF Blocks

\* A change of a plan that leaves the sessions in it as they are
Simpler(p, r) ==
  /\ Blocks(r)
  /\ \A a, b : EndsFirst(p, a, b) => EndsFirst(r, a, b)
  /\ \A x \in Elems(r) : x[1] \in Brackets => x \in Elems(p)
  /\ r # <<>> => r[1][1] # "wait"

\* A step that ends no session is done, or replaced by others that enter and end none.
LEMMA SimplerMoves ==
  ASSUME NEW p \in Seq(Step), p # <<>>, Blocks(p), p[1][1] \notin {"exit", "close", "wait"}
  PROVE  /\ Simpler(p, Tail(p)) /\ Simpler(p, <<>>)
         /\ \A u \in Seq(Step) : u # <<>> /\ (\A i \in 1 .. Len(u) : u[i][1] \notin Brackets) => Simpler(p, u \o Tail(p))
<1>1. PICK t : t = Tail(p)
  OBVIOUS
<1>2. /\ t \in Seq(Step) /\ Blocks(t) /\ Elems(p) = Elems(t) \cup {p[1]}
      /\ t # <<>> /\ t[1][1] = "wait" => p[1] = <<"close", t[1][2]>>
  BY <1>1, BlocksTail
<1>3. t # <<>> => t[1][1] # "wait"
  <2>1. SUFFICES ASSUME t # <<>>, t[1][1] = "wait" PROVE FALSE
    OBVIOUS
  <2>2. p[1] = <<"close", t[1][2]>>
    BY <1>2, <2>1
  <2>3. p[1][1] = "close"
    BY <2>2
  <2>4. QED
    BY <2>3
<1>4. \A a, b : EndsFirst(p, a, b) => EndsFirst(t, a, b)
  <2>1. \A a : p[1] \notin Ends(a)
    BY DEF Ends
  <2>2. QED
    BY <1>1, <2>1, EndsFirstTail, Zenon
<1>5. Simpler(p, t)
  BY <1>2, <1>3, <1>4 DEF Simpler
<1>6. Simpler(p, <<>>)
  <2>1. Blocks(<<>>)
    BY DEF Blocks, Once, Nested, Paired
  <2>2. (\A a, b : EndsFirst(<<>>, a, b)) /\ Elems(<<>>) = {}
    BY DEF EndsFirst, Elems
  <2>3. QED
    BY <2>1, <2>2 DEF Simpler
<1>7. ASSUME NEW u \in Seq(Step), u # <<>>, \A i \in 1 .. Len(u) : u[i][1] \notin Brackets, NEW r, r = u \o t
      PROVE  Simpler(p, r)
  <2>1. /\ Blocks(r)
        /\ \A a, b : EndsFirst(t, a, b) => EndsFirst(r, a, b)
        /\ \A x \in Elems(r) : x[1] \in Brackets => x \in Elems(t)
    BY <1>2, <1>3, <1>7, BlocksBefore
  <2>2. r[1] = u[1] /\ u[1][1] \notin Brackets
    <3>1. 1 \in 1 .. Len(u)
      BY <1>7, EmptySeq, LenProperties
    <3>2. Joined(r, u, t)
      BY <1>2, <1>7, ConcatPlaces
    <3>3. r[1] = u[1]
      BY <3>1, <3>2 DEF Joined
    <3>4. QED
      BY <1>7, <3>1, <3>3
  <2>3. r[1][1] # "wait"
    BY <2>2 DEF Brackets
  <2>4. QED
    BY <1>2, <1>4, <2>1, <2>3 DEF Simpler
<1>8. QED
  BY <1>1, <1>5, <1>6, <1>7, Zenon

\* The steps of a synchronization enter and leave no session.
LEMMA SyncSteps ==
  ASSUME SessionAssumption, NEW d \in Device, NEW n \in Nat, NEW u, u = Drains(Registered(d)) \o <<<<"back", n>>>>
  PROVE  u \in Seq(Step) /\ u # <<>> /\ \A i \in 1 .. Len(u) : u[i][1] \notin Brackets
<1>1. Registered(d) \in SUBSET Nat /\ IsFiniteSet(Registered(d)) /\ Registered(d) \subseteq Device
  BY FS_EmptySet DEF Registered, SessionAssumption
<1>2. PICK R : R = Registered(d) /\ R \in SUBSET Nat /\ IsFiniteSet(R) /\ R \subseteq Device
  BY <1>1
<1>3. Drains(R) \in Seq({"drain"} \X R)
  BY <1>2, DrainsFacts
<1>4. PICK a \in Seq(Step) : a = Drains(R) /\ \A i \in 1 .. Len(a) : a[i][1] = "drain"
  <2>1. {"drain"} \X R \subseteq Step
    BY <1>2 DEF Step
  <2>2. PICK b : b = Drains(R) /\ b \in Seq({"drain"} \X R)
    BY <1>3
  <2>3. b \in Seq(Step) /\ \A i \in 1 .. Len(b) : b[i] \in {"drain"} \X R
    BY <2>1, <2>2
  <2>4. \A i \in 1 .. Len(b) : b[i][1] = "drain"
    BY <2>3
  <2>5. QED
    BY <2>2, <2>3, <2>4
<1>5. PICK b \in Seq(Step) : b = <<<<"back", n>>>> /\ Len(b) = 1 /\ b[1][1] = "back"
  <2>1. <<"back", n>> \in Step
    BY DEF Step
  <2>2. PICK c \in Step : c = <<"back", n>>
    BY <2>1
  <2>3. c[1] = "back"
    BY <2>2
  <2>4. <<c>> \in Seq(Step) /\ Len(<<c>>) = 1 /\ <<c>>[1] = c
    OBVIOUS
  <2>5. QED
    BY <2>2, <2>3, <2>4
<1>6. u = a \o b
  BY <1>2, <1>4, <1>5, Zenon
<1>7. Joined(u, a, b)
  BY <1>6, ConcatPlaces
<1>8. u \in Seq(Step) /\ Len(u) # 0
  BY <1>5, <1>7 DEF Joined
<1>9. u # <<>>
  BY <1>8, EmptySeq
<1>10. \A i \in 1 .. Len(u) : u[i][1] \in {"drain", "back"}
  BY <1>4, <1>5, <1>7 DEF Joined
<1>11. QED
  BY <1>8, <1>9, <1>10 DEF Brackets

\* The steps of a thread that enter and leave no session
LEMMA PlanSimple ==
  ASSUME SessionAssumption, Typed, NEW h \in Thread, ThreadStep(h),
         ~Start(h), ~Enter(h), ~Exit(h), ~Close(h), ~WaitForProcess(h)
  PROVE  /\ plan[h] \in Seq(Step) /\ plan[h] # <<>> /\ plan[h][1][1] \notin Brackets
         /\ \A g \in Thread : g # h => plan'[g] = plan[g]
         /\ \/ plan'[h] = <<>>
            \/ plan'[h] = Tail(plan[h])
            \/ \E u \in Seq(Step) : /\ u # <<>> /\ \A i \in 1 .. Len(u) : u[i][1] \notin Brackets
                                    /\ plan'[h] = u \o Tail(plan[h])
         /\ UNCHANGED <<handle, outer, ender, simulator>>
<1>1. TypedThreads /\ plan \in [Thread -> Seq(Step)] /\ current[h] \in Device /\ nr \in [Thread -> Nat]
  BY DEF Typed, TypedThreads
<1>2. UNCHANGED <<handle, outer, ender, simulator>>
  BY DEF ThreadStep, SetDevice, EnterContext, LeaveContext, LaunchRaises, Return, Launch, Synchronize, Drain, sessionVars
<1>3. CASE SetDevice(h) \/ EnterContext(h) \/ LeaveContext(h) \/ Launch(h) \/ Return(h)
  <2>1. PICK w \in {"device", "with", "leave", "launch", "back"} : Does(h, w) /\ Continue(h)
    BY <1>3 DEF SetDevice, EnterContext, LeaveContext, Launch, Return
  <2>2. plan[h] # <<>> /\ plan[h][1][1] = w
    BY <1>1, <2>1, HeadStep
  <2>3. plan'[h] = Tail(plan[h]) /\ \A g \in Thread : g # h => plan'[g] = plan[g]
    BY <1>1, <2>1, <2>2, PlanMoves
  <2>4. QED
    BY <1>1, <1>2, <2>2, <2>3 DEF Brackets
<1>4. CASE LaunchRaises(h)
  <2>1. plan[h] # <<>> /\ plan[h][1][1] = "launch" /\ plan' = [plan EXCEPT ![h] = <<>>]
    BY <1>1, <1>4, HeadStep DEF LaunchRaises
  <2>2. QED
    BY <1>1, <1>2, <2>1 DEF Brackets
<1>5. CASE Synchronize(h)
  <2>1. plan[h] # <<>> /\ plan[h][1][1] = "sync"
    BY <1>1, <1>5, HeadStep DEF Synchronize
  <2>2. nr'[h] \in Nat
    <3>1. CASE simulator = None
      BY <1>1, <1>5, <3>1 DEF Synchronize
    <3>2. CASE simulator # None
      BY <1>1, <1>5, <3>2 DEF Synchronize, Count
    <3>3. QED
      BY <3>1, <3>2
  <2>3. PICK n \in Nat, d \in Device : n = nr'[h] /\ d = current[h]
    BY <1>1, <2>2
  <2>4. PICK u : u = Drains(Registered(d)) \o <<<<"back", n>>>>
    OBVIOUS
  <2>5. u \in Seq(Step) /\ u # <<>> /\ \A i \in 1 .. Len(u) : u[i][1] \notin Brackets
    BY <2>4, SyncSteps
  <2>6. Instead(h, u)
    BY <1>5, <2>3, <2>4 DEF Synchronize
  <2>7. plan'[h] = u \o Tail(plan[h]) /\ \A g \in Thread : g # h => plan'[g] = plan[g]
    BY <1>1, <2>1, <2>5, <2>6, PlanMoves
  <2>8. plan[h] \in Seq(Step) /\ plan[h][1][1] \notin Brackets
    BY <1>1, <2>1 DEF Brackets
  <2>9. QED
    BY <1>2, <2>1, <2>5, <2>7, <2>8, Zenon
<1>6. CASE Drain(h)
  <2>1. plan[h] # <<>> /\ plan[h][1][1] = "drain"
    BY <1>1, <1>6, HeadStep DEF Drain
  <2>2. PICK u \in Seq(Step) : u = <<<<"await">>>>
    BY NewSteps
  <2>3. Len(u) = 1 /\ u[1][1] = "await" /\ u # <<>>
    BY <2>2
  <2>4. \A i \in 1 .. Len(u) : u[i][1] \notin Brackets
    BY <2>3 DEF Brackets
  <2>5. Instead(h, u)
    BY <1>6, <2>2 DEF Drain
  <2>6. plan'[h] = u \o Tail(plan[h]) /\ \A g \in Thread : g # h => plan'[g] = plan[g]
    BY <1>1, <2>1, <2>5, PlanMoves
  <2>7. plan[h] \in Seq(Step) /\ plan[h][1][1] \notin Brackets
    BY <1>1, <2>1 DEF Brackets
  <2>8. QED
    BY <1>2, <2>1, <2>3, <2>4, <2>6, <2>7, Zenon
<1>7. QED
  BY <1>3, <1>4, <1>5, <1>6 DEF ThreadStep

\* Steps that enter and leave no session keep the sessions of a plan and their chain.
LEMMA OwnedSimple ==
  ASSUME SessionAssumption, Typed, NEW o \in Thread, Bracketed(o), Chained(o),
         plan'[o] = plan[o] \/ (Simpler(plan[o], plan'[o]) /\ ~Does(o, "wait")),
         \A h \in Thread \ {o} : \A x \in Elems(plan'[h]) : x[1] \in Brackets => x \in Elems(plan[h]),
         UNCHANGED <<handle, outer, ender, simulator>>
  PROVE  Bracketed(o)' /\ Chained(o)'
<1>1. /\ Blocks(plan'[o])
      /\ \A a, b : EndsFirst(plan[o], a, b) => EndsFirst(plan'[o], a, b)
      /\ \A x \in Elems(plan'[o]) : x[1] \in Brackets => x \in Elems(plan[o])
  BY DEF Bracketed, Simpler
<1>2. \/ Does(o, "wait")' /\ Does(o, "wait") /\ Operand(o)' = Operand(o)
      \/ ~Does(o, "wait")' /\ ~Does(o, "wait")
  <2>1. CASE plan'[o] = plan[o]
    BY <2>1 DEF Does, Operand
  <2>2. CASE Simpler(plan[o], plan'[o]) /\ ~Does(o, "wait")
    <3>1. plan'[o] # <<>> => plan'[o][1][1] # "wait"
      BY <2>2 DEF Simpler
    <3>2. QED
      BY <2>2, <3>1 DEF Does
  <2>3. QED
    BY <2>1, <2>2
<1>3. \A h \in Thread \ {o} : \A x \in Elems(plan'[h]) : x[1] \notin Brackets
  BY DEF Bracketed
<1>4. ASSUME NEW s \in Session, NEW w \in {"enter", "exit", "close"}, <<w, s>> \in Elems(plan'[o])
      PROVE  <<w, s>> \in Elems(plan[o])
  BY <1>1, <1>4 DEF Brackets
<1>5. \A s \in Session : /\ handle[s] = "none" => outer[s] = None
                         /\ handle[s] = "open" => <<"enter", s>> \notin Elems(plan[o])
                         /\ handle[s] = "closed" =>
                              ender[s][1] = o /\ <<"exit", s>> \notin Elems(plan[o]) /\ <<"close", s>> \notin Elems(plan[o])
  BY Zenon DEF Bracketed
<1>6. Bracketed(o)'
  <2>1. \A s \in Session : /\ handle'[s] = "none" => outer'[s] = None
                           /\ handle'[s] = "open" => <<"enter", s>> \notin Elems(plan'[o])
                           /\ handle'[s] = "closed" =>
                                ender'[s][1] = o /\ <<"exit", s>> \notin Elems(plan'[o]) /\ <<"close", s>> \notin Elems(plan'[o])
    BY <1>4, <1>5, Zenon
  <2>2. Does(o, "wait")' => handle'[Operand(o)'] = "closed"
    BY <1>2 DEF Bracketed
  <2>3. QED
    BY <1>1, <1>3, <2>1, <2>2 DEF Bracketed
<1>7. \A s : Live(o, s)' <=> Live(o, s)
  BY <1>2 DEF Live
<1>8. Chained(o)'
  BY <1>1, <1>7 DEF Chained
<1>9. QED
  BY <1>6, <1>8

\* A plan with no session in it
LEMMA NoBlocks ==
  ASSUME NEW p \in Seq(Step), \A x \in Elems(p) : x[1] \notin Brackets
  PROVE  Blocks(p)
<1>1. \A i \in 1 .. Len(p) : p[i] \in Elems(p) /\ p[i][1] \notin Brackets
  BY DEF Elems
<1>2. \A i \in 1 .. Len(p) : p[i][1] # "enter" /\ p[i][1] # "exit" /\ p[i][1] # "close" /\ p[i][1] # "wait"
  BY <1>1 DEF Brackets
<1>3. \A i \in 1 .. Len(p), t \in Session : p[i] # <<"enter", t>>
  BY <1>2
<1>4. Once(p)
  BY <1>2 DEF Once
<1>5. Nested(p)
  BY <1>3 DEF Nested
<1>6. Paired(p)
  BY <1>2 DEF Paired
<1>7. QED
  BY <1>4, <1>5, <1>6 DEF Blocks

\* The step of a thread that enters and leaves no session
LEMMA OwnedThread ==
  ASSUME SessionAssumption, Typed, NEW o \in Thread, Bracketed(o), Chained(o), NEW h \in Thread, ThreadStep(h),
         ~Start(h), ~Enter(h), ~Exit(h), ~Close(h), ~WaitForProcess(h)
  PROVE  Bracketed(o)' /\ Chained(o)'
<1>1. /\ plan[h] \in Seq(Step) /\ plan[h] # <<>> /\ plan[h][1][1] \notin Brackets
      /\ \A g \in Thread : g # h => plan'[g] = plan[g]
      /\ UNCHANGED <<handle, outer, ender, simulator>>
  BY PlanSimple, Zenon
<1>2. plan[h][1][1] \notin {"exit", "close", "wait"}
  BY <1>1 DEF Brackets
<1>3. Blocks(plan[h])
  <2>1. CASE h = o
    BY <2>1 DEF Bracketed
  <2>2. CASE h # o
    BY <1>1, <2>2, NoBlocks DEF Bracketed
  <2>3. QED
    BY <2>1, <2>2
<1>4. Simpler(plan[h], plan'[h])
  <2>1. PICK p : p = plan[h]
    OBVIOUS
  <2>2. /\ Simpler(p, Tail(p)) /\ Simpler(p, <<>>)
        /\ \A u \in Seq(Step) : u # <<>> /\ (\A i \in 1 .. Len(u) : u[i][1] \notin Brackets) => Simpler(p, u \o Tail(p))
    BY <1>1, <1>2, <1>3, <2>1, SimplerMoves, Zenon
  <2>3. \/ plan'[h] = <<>>
        \/ plan'[h] = Tail(plan[h])
        \/ \E u \in Seq(Step) : /\ u # <<>> /\ \A i \in 1 .. Len(u) : u[i][1] \notin Brackets
                                /\ plan'[h] = u \o Tail(plan[h])
    BY PlanSimple, Zenon
  <2>4. QED
    BY <2>1, <2>2, <2>3, Zenon
<1>5. plan'[o] = plan[o] \/ (Simpler(plan[o], plan'[o]) /\ ~Does(o, "wait"))
  <2>1. CASE h = o
    BY <1>1, <1>2, <1>4, <2>1 DEF Does
  <2>2. CASE h # o
    BY <1>1, <2>2
  <2>3. QED
    BY <2>1, <2>2
<1>6. \A g \in Thread \ {o} : \A x \in Elems(plan'[g]) : x[1] \in Brackets => x \in Elems(plan[g])
  <2>1. SUFFICES ASSUME NEW g \in Thread \ {o} PROVE \A x \in Elems(plan'[g]) : x[1] \in Brackets => x \in Elems(plan[g])
    OBVIOUS
  <2>2. CASE g = h
    BY <1>4, <2>2 DEF Simpler
  <2>3. CASE g # h
    BY <1>1, <2>3
  <2>4. QED
    BY <2>2, <2>3
<1>7. QED
  BY <1>1, <1>5, <1>6, OwnedSimple

\* Only one thread enters and leaves sessions.
LEMMA OnlyOwner ==
  ASSUME SessionAssumption, TypedThreads, NEW o \in Thread, Bracketed(o), NEW h \in Thread,
         Enter(h) \/ Exit(h) \/ Close(h) \/ WaitForProcess(h)
  PROVE  h = o
<1>1. PICK w \in Brackets : Does(h, w)
  BY DEF Enter, Exit, Close, WaitForProcess, Brackets
<1>2. plan[h] \in Seq(Step) /\ plan[h] # <<>> /\ plan[h][1][1] = w
  BY <1>1, HeadStep
<1>3. plan[h][1] \in Elems(plan[h])
  <2>1. 1 \in 1 .. Len(plan[h])
    BY <1>2, EmptySeq, LenProperties
  <2>2. QED
    BY <2>1 DEF Elems
<1>4. QED
  BY <1>1, <1>2, <1>3 DEF Bracketed

\* What is entered first ends after what is entered in it.
LEMMA EnterFirst ==
  ASSUME NEW p \in Seq(Step), p # <<>>, Blocks(p), NEW s \in Session, NEW v \in Session, s # v,
         p[1] = <<"enter", s>>, <<"enter", v>> \notin Elems(p)
  PROVE  EndsFirst(Tail(p), s, v)
<1>1. 1 \in 1 .. Len(p) /\ Len(p) \in Nat
  BY EmptySeq, LenProperties
<1>2. \A a : p[1] \notin Ends(a)
  BY DEF Ends
<1>3. \A k \in 1 .. Len(p) : p[k] # <<"enter", v>>
  BY DEF Elems
<1>4. ASSUME NEW j \in 1 .. Len(p), p[j] \in Ends(v) PROVE \E i \in 1 .. Len(p) : i < j /\ p[i] \in Ends(s)
  <2>1. 1 < j
    BY <1>1, <1>2, <1>4
  <2>2. QED
    BY <1>1, <1>3, <1>4, <2>1 DEF Blocks, Nested
<1>5. EndsFirst(p, s, v)
  BY <1>4 DEF EndsFirst
<1>6. QED
  BY <1>2, <1>5, EndsFirstTail, Zenon

\* A session is entered: it is in the chain before the one that was current.
LEMMA OwnedEnter ==
  ASSUME SessionAssumption, Typed, NEW o \in Thread, Bracketed(o), Chained(o), Enter(o)
  PROVE  Bracketed(o)' /\ Chained(o)'
<1>1. PICK s \in Session, p \in Seq(Step) :
        /\ s = Operand(o) /\ p = plan[o] /\ p # <<>> /\ p[1] = <<"enter", s>>
  <2>1. Does(o, "enter") /\ TypedThreads
    BY DEF Enter, Typed
  <2>2. QED
    BY <2>1, HeadStep
<1>2. PICK r : r = Tail(p)
  OBVIOUS
<1>3. plan'[o] = r /\ \A g \in Thread : g # o => plan'[g] = plan[g]
  <2>1. plan \in [Thread -> Seq(Step)] /\ Continue(o) /\ plan[o] # <<>>
    BY <1>1 DEF Enter, Typed, TypedThreads
  <2>2. QED
    BY <1>1, <1>2, <2>1, PlanMoves
<1>4. /\ handle[s] = "none" /\ handle' = [handle EXCEPT ![s] = "open"]
      /\ outer' = [outer EXCEPT ![s] = simulator] /\ simulator' = s /\ ender' = ender
  BY <1>1 DEF Enter
<1>5. /\ handle'[s] = "open" /\ outer'[s] = simulator
      /\ \A t \in Session : t # s => handle'[t] = handle[t] /\ outer'[t] = outer[t]
  BY <1>4 DEF Typed, TypedSessions
<1>6. Blocks(p) /\ p[1][1] \notin {"exit", "close", "wait"} /\ p[1][1] = "enter"
  BY <1>1 DEF Bracketed
<1>7. Simpler(p, r) /\ p[1] \notin Elems(r)
  BY <1>1, <1>2, <1>6, SimplerMoves, BlocksTail, Zenon
<1>8. ~Does(o, "wait") /\ ~Does(o, "wait")'
  <2>1. r # <<>> => r[1][1] # "wait"
    BY <1>7 DEF Simpler
  <2>2. QED
    BY <1>1, <1>3, <1>6, <2>1 DEF Does
<1>9. ASSUME NEW t \in Session, NEW w \in {"enter", "exit", "close"}, <<w, t>> \in Elems(r)
      PROVE  <<w, t>> \in Elems(p)
  BY <1>7, <1>9 DEF Simpler, Brackets
<1>10. Bracketed(o)'
  <2>1. ASSUME NEW t \in Session
        PROVE  /\ handle'[t] = "none" => outer'[t] = None
               /\ handle'[t] = "open" => <<"enter", t>> \notin Elems(r)
               /\ handle'[t] = "closed" =>
                    ender'[t][1] = o /\ <<"exit", t>> \notin Elems(r) /\ <<"close", t>> \notin Elems(r)
    <3>1. CASE t = s
      BY <1>1, <1>5, <1>7, <3>1
    <3>2. CASE t # s
      <4>1. /\ handle[t] = "none" => outer[t] = None
            /\ handle[t] = "open" => <<"enter", t>> \notin Elems(p)
            /\ handle[t] = "closed" =>
                 ender[t][1] = o /\ <<"exit", t>> \notin Elems(p) /\ <<"close", t>> \notin Elems(p)
        BY <1>1 DEF Bracketed
      <4>2. QED
        BY <1>4, <1>5, <1>9, <3>2, <4>1
    <3>3. QED
      BY <3>1, <3>2
  <2>2. \A h \in Thread \ {o} : \A x \in Elems(plan'[h]) : x[1] \notin Brackets
    BY <1>3 DEF Bracketed
  <2>3. Blocks(plan'[o])
    BY <1>3, <1>7 DEF Simpler
  <2>4. QED
    BY <1>3, <1>8, <2>1, <2>2, <2>3 DEF Bracketed
<1>11. \A t \in Session : Live(o, t) <=> handle[t] = "open"
  BY <1>8 DEF Live
<1>12. \A t \in Session : Live(o, t)' <=> handle'[t] = "open"
  BY <1>8 DEF Live
<1>13. outer \in [Session -> Session \cup {None}] /\ simulator \in Session \cup {None}
  BY DEF Typed, TypedSessions
<1>14. ASSUME NEW t \in Session, handle'[t] = "open", outer'[t] # None
       PROVE  outer'[t] # t /\ handle'[outer'[t]] = "open" /\ outer'[t] \in Session /\ EndsFirst(r, t, outer'[t])
  <2>1. CASE t = s
    <3>1. simulator \in Session /\ handle[simulator] = "open" /\ simulator # s /\ outer'[s] = simulator
      BY <1>4, <1>5, <1>11, <1>13, <1>14, <2>1 DEF Chained
    <3>2. <<"enter", simulator>> \notin Elems(p)
      BY <1>1, <3>1 DEF Bracketed
    <3>3. EndsFirst(r, s, simulator)
      BY <1>1, <1>2, <1>6, <3>1, <3>2, EnterFirst, Zenon
    <3>4. QED
      BY <1>5, <2>1, <3>1, <3>3
  <2>2. CASE t # s
    <3>1. PICK u : u = outer[t]
      OBVIOUS
    <3>2. handle[t] = "open" /\ outer'[t] = u /\ u # None /\ u \in Session
      BY <1>5, <1>13, <1>14, <2>2, <3>1
    <3>3. u # t /\ handle[u] = "open" /\ EndsFirst(p, t, u)
      BY <1>1, <1>11, <3>1, <3>2 DEF Chained
    <3>4. EndsFirst(r, t, u)
      BY <1>7, <3>3 DEF Simpler
    <3>5. QED
      BY <1>4, <1>5, <3>2, <3>3, <3>4
  <2>3. QED
    BY <2>1, <2>2
<1>15. Chained(o)'
  BY <1>3, <1>4, <1>5, <1>12, <1>14 DEF Chained
<1>16. QED
  BY <1>10, <1>15

\* A session that ends first ends no other.
LEMMA EndsNow ==
  ASSUME NEW p \in Seq(Step), p # <<>>, NEW s, NEW t, p[1] \in Ends(s)
  PROVE  ~EndsFirst(p, t, s)
<1>1. 1 \in 1 .. Len(p) /\ Len(p) \in Nat
  BY EmptySeq, LenProperties
<1>2. QED
  BY <1>1 DEF EndsFirst

\* A session is left: the steps that end it are put into the plan.
LEMMA OwnedExit ==
  ASSUME SessionAssumption, Typed, NEW o \in Thread, Bracketed(o), Chained(o), Exit(o)
  PROVE  Bracketed(o)' /\ Chained(o)'
<1>1. PICK s \in Session, p \in Seq(Step) :
        /\ s = Operand(o) /\ p = plan[o] /\ p # <<>> /\ p[1] = <<"exit", s>>
  <2>1. Does(o, "exit") /\ TypedThreads
    BY DEF Exit, Typed
  <2>2. QED
    BY <2>1, HeadStep
<1>2. PICK u \in Seq(Step) : u = <<<<"sync">>, <<"close", s>>, <<"wait", s>>>>
  BY NewSteps
<1>3. PICK r : r = u \o Tail(p)
  OBVIOUS
<1>4. plan'[o] = r /\ \A g \in Thread : g # o => plan'[g] = plan[g]
  <2>1. plan \in [Thread -> Seq(Step)] /\ Instead(o, u) /\ plan[o] # <<>>
    BY <1>1, <1>2 DEF Exit, Typed, TypedThreads
  <2>2. QED
    BY <1>1, <1>3, <2>1, PlanMoves
<1>5. UNCHANGED <<handle, outer, ender, simulator>> /\ p[1][1] = "exit" /\ Blocks(p)
  BY <1>1 DEF Exit, sessionVars, Bracketed
<1>6. /\ Blocks(r) /\ r # <<>> /\ r[1] = <<"sync">>
      /\ \A a, b : EndsFirst(p, a, b) => EndsFirst(r, a, b)
      /\ \A x \in Elems(r) : x \in Elems(p) \cup {<<"sync">>, <<"close", s>>, <<"wait", s>>}
  <2>1. Leaves(p, s, r)
    BY <1>2, <1>3, Zenon DEF Leaves
  <2>2. QED
    BY <1>1, <1>5, <2>1, BlocksExit, Zenon
<1>7. ~Does(o, "wait") /\ ~Does(o, "wait")'
  <2>1. r[1][1] = "sync"
    BY <1>6
  <2>2. QED
    BY <1>1, <1>4, <1>5, <2>1 DEF Does
<1>8. p[1] \in Elems(p)
  <2>1. 1 \in 1 .. Len(p)
    BY <1>1, EmptySeq, LenProperties
  <2>2. QED
    BY <2>1 DEF Elems
<1>9. ASSUME NEW t \in Session
      PROVE  /\ <<"enter", t>> \in Elems(r) => <<"enter", t>> \in Elems(p)
             /\ <<"exit", t>> \in Elems(r) => <<"exit", t>> \in Elems(p)
             /\ <<"close", t>> \in Elems(r) => <<"close", t>> \in Elems(p) \/ t = s
  <2>1. <<"enter", t>> \notin {<<"sync">>, <<"close", s>>, <<"wait", s>>}
    OBVIOUS
  <2>2. <<"exit", t>> \notin {<<"sync">>, <<"close", s>>, <<"wait", s>>}
    OBVIOUS
  <2>3. <<"close", t>> \in {<<"sync">>, <<"close", s>>, <<"wait", s>>} => t = s
    OBVIOUS
  <2>4. QED
    BY <1>6, <2>1, <2>2, <2>3
<1>10. Bracketed(o)'
  <2>1. ASSUME NEW t \in Session
        PROVE  /\ handle'[t] = "none" => outer'[t] = None
               /\ handle'[t] = "open" => <<"enter", t>> \notin Elems(r)
               /\ handle'[t] = "closed" =>
                    ender'[t][1] = o /\ <<"exit", t>> \notin Elems(r) /\ <<"close", t>> \notin Elems(r)
    <3>1. /\ handle[t] = "none" => outer[t] = None
          /\ handle[t] = "open" => <<"enter", t>> \notin Elems(p)
          /\ handle[t] = "closed" =>
               ender[t][1] = o /\ <<"exit", t>> \notin Elems(p) /\ <<"close", t>> \notin Elems(p)
      BY <1>1 DEF Bracketed
    <3>2. handle[t] = "closed" => t # s
      BY <1>1, <1>8, <3>1
    <3>3. QED
      BY <1>5, <1>9, <3>1, <3>2
  <2>2. \A h \in Thread \ {o} : \A x \in Elems(plan'[h]) : x[1] \notin Brackets
    BY <1>4 DEF Bracketed
  <2>3. QED
    BY <1>4, <1>6, <1>7, <2>1, <2>2 DEF Bracketed
<1>11. \A t : Live(o, t)' <=> Live(o, t)
  BY <1>5, <1>7 DEF Live
<1>12. Chained(o)'
  <2>1. \A a, b : EndsFirst(plan[o], a, b) => EndsFirst(plan'[o], a, b)
    BY <1>1, <1>4, <1>6
  <2>2. QED
    BY <1>5, <1>11, <2>1 DEF Chained
<1>13. QED
  BY <1>10, <1>12

\* The FIFO is closed: the session is in the chain until its process has ended.
LEMMA OwnedClose ==
  ASSUME SessionAssumption, Typed, NEW o \in Thread, Flush(o), Bracketed(o), Chained(o), Close(o)
  PROVE  /\ Bracketed(o)' /\ Chained(o)'
         /\ \E s \in Session : /\ Does(o, "close") /\ handle[s] # "closed"
                               /\ handle'[s] = "closed" /\ ender'[s] = <<o, current[o]>>
                               /\ \A t \in Session : t # s => handle'[t] = handle[t] /\ ender'[t] = ender[t]
<1>1. PICK s \in Session, p \in Seq(Step) :
        /\ s = Operand(o) /\ p = plan[o] /\ p # <<>> /\ p[1] = <<"close", s>>
  <2>1. Does(o, "close") /\ TypedThreads
    BY DEF Close, Typed
  <2>2. QED
    BY <2>1, HeadStep
<1>2. PICK r : r = Tail(p)
  OBVIOUS
<1>3. plan'[o] = r /\ \A g \in Thread : g # o => plan'[g] = plan[g]
  <2>1. plan \in [Thread -> Seq(Step)] /\ Continue(o) /\ plan[o] # <<>>
    BY <1>1 DEF Close, Typed, TypedThreads
  <2>2. QED
    BY <1>1, <1>2, <2>1, PlanMoves
<1>4. /\ handle' = [handle EXCEPT ![s] = "closed"] /\ ender' = [ender EXCEPT ![s] = <<o, current[o]>>]
      /\ simulator' = simulator /\ outer' = outer
  BY <1>1 DEF Close
<1>5. /\ handle'[s] = "closed" /\ ender'[s] = <<o, current[o]>>
      /\ \A t \in Session : t # s => handle'[t] = handle[t] /\ ender'[t] = ender[t]
  BY <1>4 DEF Typed, TypedSessions
<1>6. Blocks(p) /\ p[1][1] = "close" /\ p[1][2] = s /\ p[1] \in Ends(s)
  BY <1>1 DEF Bracketed, Ends
<1>7. p[1] \in Elems(p)
  <2>1. 1 \in 1 .. Len(p)
    BY <1>1, EmptySeq, LenProperties
  <2>2. QED
    BY <2>1 DEF Elems
<1>8. handle[s] # "closed"
  BY <1>1, <1>7 DEF Bracketed
<1>9. /\ r \in Seq(Step) /\ Blocks(r) /\ Elems(p) = Elems(r) \cup {p[1]}
      /\ <<"exit", s>> \notin Elems(r) /\ <<"close", s>> \notin Elems(r)
  BY <1>1, <1>2, <1>6, BlocksTail
<1>10. Len(r) \in Nat /\ Len(r) # 0 /\ r # <<>> /\ r[1] = <<"wait", s>> /\ 1 \in 1 .. Len(r)
  <2>1. Len(p) \in Nat /\ 1 \in 1 .. Len(p)
    BY <1>1, EmptySeq, LenProperties
  <2>2. 1 < Len(p) /\ p[2] = <<"wait", s>>
    <3>1. Shape(p)
      BY <1>1 DEF Flush
    <3>2. 1 < Len(p) /\ p[1 + 1] = <<"wait", p[1][2]>>
      BY <1>6, <2>1, <3>1 DEF Shape
    <3>3. QED
      BY <1>6, <3>2
  <2>3. Len(r) = Len(p) - 1 /\ \A i \in 1 .. Len(r) : r[i] = p[i + 1]
    BY <1>1, <1>2, HeadTailProperties
  <2>4. 1 \in 1 .. Len(r) /\ Len(r) \in Nat /\ Len(r) # 0
    BY <2>1, <2>2, <2>3
  <2>5. r[1] = p[2]
    BY <2>3, <2>4
  <2>6. QED
    BY <2>2, <2>4, <2>5, EmptySeq
<1>11. Does(o, "wait")' /\ Operand(o)' = s /\ ~Does(o, "wait") /\ Does(o, "close")
  <2>1. Head(r) = r[1] /\ Head(p) = p[1]
    BY <1>1, <1>9, <1>10
  <2>2. r[1][1] = "wait" /\ r[1][2] = s
    BY <1>10
  <2>3. QED
    BY <1>1, <1>3, <1>6, <1>10, <2>1, <2>2 DEF Does, Operand
<1>12. Bracketed(o)'
  <2>1. ASSUME NEW t \in Session
        PROVE  /\ handle'[t] = "none" => outer'[t] = None
               /\ handle'[t] = "open" => <<"enter", t>> \notin Elems(r)
               /\ handle'[t] = "closed" =>
                    ender'[t][1] = o /\ <<"exit", t>> \notin Elems(r) /\ <<"close", t>> \notin Elems(r)
    <3>1. CASE t = s
      BY <1>5, <1>9, <3>1
    <3>2. CASE t # s
      <4>1. /\ handle[t] = "none" => outer[t] = None
            /\ handle[t] = "open" => <<"enter", t>> \notin Elems(p)
            /\ handle[t] = "closed" =>
                 ender[t][1] = o /\ <<"exit", t>> \notin Elems(p) /\ <<"close", t>> \notin Elems(p)
        BY <1>1 DEF Bracketed
      <4>2. QED
        BY <1>4, <1>5, <1>9, <3>2, <4>1
    <3>3. QED
      BY <3>1, <3>2
  <2>2. \A h \in Thread \ {o} : \A x \in Elems(plan'[h]) : x[1] \notin Brackets
    BY <1>3 DEF Bracketed
  <2>3. QED
    BY <1>3, <1>5, <1>9, <1>11, <2>1, <2>2 DEF Bracketed
<1>13. \A t \in Session : Live(o, t) <=> handle[t] = "open"
  BY <1>11 DEF Live
<1>14. \A t \in Session : Live(o, t)' <=> handle'[t] = "open" \/ t = s
  BY <1>5, <1>11 DEF Live
<1>15. \A t \in Session : Live(o, t) => Live(o, t)'
  BY <1>5, <1>13, <1>14
<1>16. outer \in [Session -> Session \cup {None}] /\ simulator \in Session \cup {None} /\ handle \in [Session -> {"none", "open", "closed"}]
  BY DEF Typed, TypedSessions
<1>17. ASSUME NEW t \in Session, Live(o, t)', outer[t] # None
       PROVE  outer[t] # t /\ outer[t] \in Session /\ Live(o, outer[t]) /\ EndsFirst(r, t, outer[t])
  <2>1. handle[t] = "open"
    <3>1. CASE t = s
      BY <1>1, <1>8, <1>16, <1>17, <3>1 DEF Bracketed
    <3>2. CASE t # s
      BY <1>5, <1>14, <1>17, <3>2
    <3>3. QED
      BY <3>1, <3>2
  <2>2. PICK u \in Session : u = outer[t]
    BY <1>16, <1>17
  <2>3. u # t /\ Live(o, u) /\ EndsFirst(p, t, u)
    BY <1>1, <1>13, <1>17, <2>1, <2>2 DEF Chained
  <2>4. u # s
    BY <1>1, <1>6, <2>3, EndsNow
  <2>5. EndsFirst(r, t, u)
    <3>1. CASE t = s
      <4>1. r[1] \in Ends(t) /\ r[1] \notin Ends(u)
        BY <1>10, <2>4, <3>1 DEF Ends
      <4>2. ASSUME NEW j \in 1 .. Len(r), r[j] \in Ends(u) PROVE 1 < j
        BY <1>10, <4>1, <4>2
      <4>3. QED
        BY <1>10, <4>1, <4>2 DEF EndsFirst
    <3>2. CASE t # s
      <4>1. p[1] \notin Ends(t)
        BY <1>1, <3>2 DEF Ends
      <4>2. QED
        BY <1>1, <1>2, <2>3, <4>1, EndsFirstTail, Zenon
    <3>3. QED
      BY <3>1, <3>2
  <2>6. QED
    BY <2>2, <2>3, <2>5
<1>18. Chained(o)'
  <2>1. simulator' # None => Live(o, simulator)'
    BY <1>4, <1>15, <1>16 DEF Chained
  <2>2. ASSUME NEW t \in Session, Live(o, t)', outer'[t] # None
        PROVE  outer'[t] # t /\ Live(o, outer[t])' /\ EndsFirst(plan'[o], t, outer'[t])
    BY <1>3, <1>4, <1>15, <1>17, <2>2
  <2>3. QED
    BY <1>3, <1>4, <2>1, <2>2 DEF Chained
<1>19. QED
  BY <1>5, <1>8, <1>11, <1>12, <1>18

\* The process has ended: the session that was current before is current again.
LEMMA OwnedWait ==
  ASSUME SessionAssumption, Typed, NEW o \in Thread, Bracketed(o), Chained(o), WaitForProcess(o)
  PROVE  Bracketed(o)' /\ Chained(o)'
<1>1. PICK s \in Session, p \in Seq(Step) :
        /\ s = Operand(o) /\ p = plan[o] /\ p # <<>> /\ p[1] = <<"wait", s>> /\ Does(o, "wait")
  <2>1. Does(o, "wait") /\ TypedThreads
    BY DEF WaitForProcess, Typed
  <2>2. QED
    BY <2>1, HeadStep
<1>2. PICK r : r = Tail(p)
  OBVIOUS
<1>3. plan'[o] = r /\ \A g \in Thread : g # o => plan'[g] = plan[g]
  <2>1. plan \in [Thread -> Seq(Step)] /\ Continue(o) /\ plan[o] # <<>>
    BY <1>1 DEF WaitForProcess, Typed, TypedThreads
  <2>2. QED
    BY <1>1, <1>2, <2>1, PlanMoves
<1>4. UNCHANGED <<handle, outer, ender>> /\ simulator' = outer[s]
  BY <1>1 DEF WaitForProcess
<1>5. Blocks(p) /\ p[1][1] = "wait" /\ p[1] \in Ends(s) /\ handle[s] = "closed"
  BY <1>1 DEF Bracketed, Ends
<1>6. /\ r \in Seq(Step) /\ Blocks(r) /\ Elems(p) = Elems(r) \cup {p[1]}
      /\ r # <<>> /\ r[1][1] = "wait" => p[1] = <<"close", r[1][2]>>
  BY <1>1, <1>2, <1>5, BlocksTail
<1>7. ~Does(o, "wait")'
  <2>1. ASSUME r # <<>>, r[1][1] = "wait" PROVE FALSE
    <3>1. p[1] = <<"close", r[1][2]>>
      BY <1>6, <2>1
    <3>2. p[1][1] = "close"
      BY <3>1
    <3>3. QED
      BY <1>5, <3>2
  <2>2. QED
    BY <1>3, <1>6, <2>1 DEF Does
<1>8. Bracketed(o)'
  <2>1. ASSUME NEW t \in Session
        PROVE  /\ handle'[t] = "none" => outer'[t] = None
               /\ handle'[t] = "open" => <<"enter", t>> \notin Elems(r)
               /\ handle'[t] = "closed" =>
                    ender'[t][1] = o /\ <<"exit", t>> \notin Elems(r) /\ <<"close", t>> \notin Elems(r)
    <3>1. /\ handle[t] = "none" => outer[t] = None
          /\ handle[t] = "open" => <<"enter", t>> \notin Elems(p)
          /\ handle[t] = "closed" =>
               ender[t][1] = o /\ <<"exit", t>> \notin Elems(p) /\ <<"close", t>> \notin Elems(p)
      BY <1>1 DEF Bracketed
    <3>2. QED
      BY <1>4, <1>6, <3>1
  <2>2. \A h \in Thread \ {o} : \A x \in Elems(plan'[h]) : x[1] \notin Brackets
    BY <1>3 DEF Bracketed
  <2>3. QED
    BY <1>3, <1>6, <1>7, <2>1, <2>2 DEF Bracketed
<1>9. \A t \in Session : Live(o, t) <=> handle[t] = "open" \/ t = s
  BY <1>1, <1>5 DEF Live
<1>10. \A t \in Session : Live(o, t)' <=> handle[t] = "open"
  BY <1>4, <1>7 DEF Live
<1>11. outer \in [Session -> Session \cup {None}]
  BY DEF Typed, TypedSessions
<1>12. ASSUME NEW t \in Session, Live(o, t), outer[t] # None
       PROVE  outer[t] # t /\ outer[t] \in Session /\ handle[outer[t]] = "open" /\ EndsFirst(p, t, outer[t])
  <2>1. PICK u \in Session : u = outer[t]
    BY <1>11, <1>12
  <2>2. u # t /\ Live(o, u) /\ EndsFirst(p, t, u)
    BY <1>1, <1>12, <2>1 DEF Chained
  <2>3. u # s
    BY <1>1, <1>5, <2>2, EndsNow
  <2>4. QED
    BY <1>9, <2>1, <2>2, <2>3
<1>13. Chained(o)'
  <2>1. simulator' # None => Live(o, simulator)'
    <3>1. outer[s] # None => outer[s] \in Session /\ handle[outer[s]] = "open"
      BY <1>9, <1>12
    <3>2. simulator' # None => handle'[simulator'] = "open"
      BY <1>4, <3>1
    <3>3. QED
      BY <3>2 DEF Live
  <2>2. ASSUME NEW t \in Session, Live(o, t)', outer'[t] # None
        PROVE  outer'[t] # t /\ Live(o, outer[t])' /\ EndsFirst(plan'[o], t, outer'[t])
    <3>1. handle[t] = "open" /\ t # s /\ Live(o, t) /\ outer[t] # None
      BY <1>4, <1>5, <1>9, <1>10, <2>2
    <3>2. outer[t] # t /\ outer[t] \in Session /\ handle[outer[t]] = "open" /\ EndsFirst(p, t, outer[t])
      BY <1>12, <3>1
    <3>3. p[1] \notin Ends(t)
      BY <1>1, <3>1 DEF Ends
    <3>4. EndsFirst(r, t, outer[t])
      BY <1>1, <1>2, <3>2, <3>3, EndsFirstTail, Zenon
    <3>5. QED
      BY <1>3, <1>4, <1>10, <3>2, <3>4
  <2>3. QED
    BY <1>3, <1>4, <2>1, <2>2 DEF Chained
<1>14. QED
  BY <1>8, <1>13

\* A waiting thread goes on.
LEMMA OwnedWaken ==
  ASSUME SessionAssumption, Typed, Flushing, NEW o \in Thread, Bracketed(o), Chained(o), NEW d \in Device, Waken(d)
  PROVE  Bracketed(o)' /\ Chained(o)'
<1>1. TypedThreads /\ TypedStreams /\ plan \in [Thread -> Seq(Step)]
  BY DEF Typed, TypedThreads
<1>2. queue[d] # <<>> /\ Head(queue[d]).what = "mark" /\ Continue(Head(queue[d]).by) /\ UNCHANGED <<handle, outer, ender, simulator>>
  BY DEF Waken, sessionVars
<1>3. PICK h \in Thread : h = Head(queue[d]).by /\ queue[d][1] = Mark(h)
  BY <1>1, <1>2, HeadTask
<1>4. Mark(h) \in Elems(queue[d])
  <2>1. 1 \in 1 .. Len(queue[d])
    BY <1>1, <1>2, HeadTask, EmptySeq, LenProperties
  <2>2. QED
    BY <1>3, <2>1 DEF Elems
<1>5. Does(h, "await")
  BY <1>3, <1>4 DEF Flushing, Flush
<1>6. plan[h] \in Seq(Step) /\ plan[h] # <<>> /\ plan[h][1][1] = "await"
  BY <1>1, <1>5, HeadStep
<1>7. plan'[h] = Tail(plan[h]) /\ \A g \in Thread : g # h => plan'[g] = plan[g]
  BY <1>1, <1>2, <1>3, <1>6, PlanMoves
<1>8. Blocks(plan[h])
  <2>1. CASE h = o
    BY <2>1 DEF Bracketed
  <2>2. CASE h # o
    BY <1>6, <2>2, NoBlocks DEF Bracketed
  <2>3. QED
    BY <2>1, <2>2
<1>9. plan[h][1][1] \notin {"exit", "close", "wait"}
  BY <1>6
<1>10. Simpler(plan[h], plan'[h])
  BY <1>6, <1>7, <1>8, <1>9, SimplerMoves, Zenon
<1>11. plan'[o] = plan[o] \/ (Simpler(plan[o], plan'[o]) /\ ~Does(o, "wait"))
  <2>1. CASE h = o
    BY <1>9, <1>10, <1>6, <2>1 DEF Does
  <2>2. CASE h # o
    BY <1>7, <2>2
  <2>3. QED
    BY <2>1, <2>2
<1>12. \A g \in Thread \ {o} : \A x \in Elems(plan'[g]) : x[1] \in Brackets => x \in Elems(plan[g])
  <2>1. SUFFICES ASSUME NEW g \in Thread \ {o} PROVE \A x \in Elems(plan'[g]) : x[1] \in Brackets => x \in Elems(plan[g])
    OBVIOUS
  <2>2. CASE g = h
    BY <1>10, <2>2 DEF Simpler
  <2>3. CASE g # h
    BY <1>7, <2>3
  <2>4. QED
    BY <2>2, <2>3
<1>13. QED
  BY <1>2, <1>11, <1>12, OwnedSimple

\* Steps that touch no plan and no session
LEMMA OwnedStill ==
  ASSUME NEW o \in Thread, Bracketed(o), Chained(o), UNCHANGED <<plan, handle, outer, ender, simulator>>
  PROVE  Bracketed(o)' /\ Chained(o)'
<1>1. Bracketed(o)'
  BY DEF Bracketed, Does, Operand
<1>2. \A s : Live(o, s)' <=> Live(o, s)
  BY DEF Live, Does, Operand
<1>3. Chained(o)'
  BY <1>2 DEF Chained
<1>4. QED
  BY <1>1, <1>3

\* Where a command is when it is held or queued
LEMMA OnTheWay ==
  ASSUME Typed, NEW c \in Held \cup Queued
  PROVE  /\ c \in Command /\ c.on \in Session
         /\ \A h \in Thread : c.by = h => \E d \in Device : ~NoneOf(h, d)
<1>1. queue \in [Device -> Seq(Task)] /\ hand \in [Device -> Command \cup {None}]
  BY DEF Typed, TypedStreams
<1>2. CASE c \in Held
  <2>1. PICK d \in Device : hand[d] # None /\ c = hand[d]
    BY <1>2 DEF Held
  <2>2. QED
    BY <1>1, <2>1 DEF NoneOf, Command
<1>3. CASE c \in Queued
  <2>1. PICK d \in Device : c \in Elems(queue[d]) /\ c.what # "mark"
    BY <1>3 DEF Queued, Commands
  <2>2. c \in Task
    BY <1>1, <2>1 DEF Elems
  <2>3. c \in Command
    BY <2>1, <2>2 DEF Task
  <2>4. c.on \in Session
    BY <2>3 DEF Command
  <2>5. QED
    BY <2>1, <2>3, <2>4 DEF NoneOf, Of
<1>4. QED
  BY <1>2, <1>3

\* Steps that close no session
LEMMA ReasonedKept ==
  ASSUME Typed, Entered, Reasoned, UNCHANGED <<handle, ender>>, crashes' = 0 => crashes = 0,
         \A c \in Held' \cup Queued' : c \in Held \cup Queued \/ handle[c.on] # "closed" \/ ender[c.on] # <<c.by, 0>>,
         \A c \in lost' : \/ c \in lost
                          \/ c \in Held \cup Queued /\ (handle[c.on] = "closed" \/ process[c.on] = "exited")
  PROVE  Reasoned'
<1>1. \A c \in Held' \cup Queued' : TooLate(c)'
  BY DEF Reasoned, TooLate
<1>2. ASSUME crashes' = 0, NEW c \in lost' PROVE ender'[c.on] # <<c.by, 0>>
  <2>1. CASE c \in lost
    BY <1>2, <2>1 DEF Reasoned
  <2>2. CASE c \in Held \cup Queued /\ (handle[c.on] = "closed" \/ process[c.on] = "exited")
    <3>1. c.on \in Session
      BY <2>2, OnTheWay
    <3>2. handle[c.on] = "closed"
      BY <1>2, <2>2, <3>1 DEF Entered
    <3>3. QED
      BY <2>2, <3>2 DEF Reasoned, TooLate
  <2>3. QED
    BY <2>1, <2>2
<1>3. QED
  BY <1>1, <1>2 DEF Reasoned

\* The step of a thread
LEMMA ReasonedThread ==
  ASSUME SessionAssumption, Sound, Entered, NEW o \in Thread, Bracketed(o), Chained(o), Reasoned,
         NEW h \in Thread, ThreadStep(h)
  PROVE  Reasoned'
<1>1. Typed /\ Placed /\ InOrder /\ Flushing /\ TypedThreads
  BY DEF Sound, Typed
<1>2. UNCHANGED <<crashes, lost>>
  BY DEF ThreadStep, SetDevice, EnterContext, LeaveContext, Start, Enter, Launch, LaunchRaises, Synchronize, Drain,
         Return, Exit, Close, WaitForProcess, processVars
<1>3. CASE /\ (Launch(h) \/ Synchronize(h)) /\ simulator # None
  <2>1. PICK c : \/ Launch(h) /\ c = Call(h, "LAUNCH_KERNEL")
                 \/ Synchronize(h) /\ c = Call(h, "DEVICE_SYNC")
    BY <1>3
  <2>2. c.by = h /\ c.on = simulator /\ Queued' = Queued \cup {c} /\ Held' = Held
    BY <1>1, <1>3, <2>1, CallInOrder
  <2>3. UNCHANGED <<handle, ender>>
    BY <1>3 DEF Launch, Synchronize, sessionVars
  <2>4. handle[simulator] # "closed" \/ ender[simulator] # <<h, 0>>
    <3>1. SUFFICES ASSUME handle[simulator] = "closed" PROVE ender[simulator] # <<h, 0>>
      OBVIOUS
    <3>2. Does(o, "wait")
      BY <1>3, <3>1 DEF Chained, Live
    <3>3. plan[o][1][1] = "wait"
      BY <1>1, <3>2, HeadStep
    <3>4. plan[h][1][1] \in {"launch", "sync"}
      <4>1. Does(h, "launch") \/ Does(h, "sync")
        BY <1>3 DEF Launch, Synchronize
      <4>2. QED
        BY <1>1, <4>1, HeadStep
    <3>5. h # o
      BY <3>3, <3>4
    <3>6. simulator \in Session
      BY <1>1, <1>3 DEF Typed, TypedSessions
    <3>7. ender[simulator][1] = o
      BY <3>1, <3>6 DEF Bracketed
    <3>8. QED
      BY <3>5, <3>7
  <2>5. QED
    BY <1>1, <1>2, <2>2, <2>3, <2>4, ReasonedKept
<1>4. CASE Synchronize(h) /\ simulator = None
  <2>1. UNCHANGED <<handle, ender, queue, hand, pipe, kernels, finished, nr>>
    BY <1>4 DEF Synchronize, sessionVars, processVars
  <2>2. UNCHANGED <<Queued, Held>>
    BY <1>1, <2>1, StillInOrder
  <2>3. QED
    BY <1>1, <1>2, <2>1, <2>2, ReasonedKept
<1>5. CASE Drain(h)
  <2>1. Operand(h) \in Device
    BY <1>1, <1>5, HeadStep DEF Drain
  <2>2. UNCHANGED <<handle, ender, hand, pipe, kernels, finished, nr>> /\ Enqueue(Operand(h), Mark(h))
    BY <1>5 DEF Drain, sessionVars, processVars
  <2>3. UNCHANGED <<Queued, Held>>
    BY <1>1, <2>1, <2>2, MarkInOrder
  <2>4. QED
    BY <1>1, <1>2, <2>2, <2>3, ReasonedKept
<1>6. CASE Close(h)
  <2>1. h = o
    BY <1>1, <1>6, OnlyOwner
  <2>2. UNCHANGED <<Queued, Held>>
    <3>1. UNCHANGED <<queue, hand, pipe, kernels, finished, nr>>
      BY <1>6 DEF Close, streamVars, processVars
    <3>2. QED
      BY <1>1, <3>1, StillInOrder
  <2>3. PICK s \in Session : /\ Does(o, "close") /\ handle[s] # "closed"
                             /\ handle'[s] = "closed" /\ ender'[s] = <<o, current[o]>>
                             /\ \A t \in Session : t # s => handle'[t] = handle[t] /\ ender'[t] = ender[t]
    <3>1. Flush(o)
      BY <1>1 DEF Flushing
    <3>2. QED
      BY <1>1, <1>6, <2>1, <3>1, OwnedClose, Zenon
  <2>4. ASSUME NEW c \in Held \cup Queued PROVE TooLate(c)'
    <3>1. c.on \in Session
      BY <1>1, OnTheWay
    <3>2. CASE c.on = s
      <4>1. SUFFICES ASSUME c.by = o, current[o] = 0 PROVE FALSE
        BY <2>3, <3>2 DEF TooLate
      <4>2. \A d \in Device : NoneOf(o, d)
        BY <1>1, <2>3, <4>1 DEF Flushing, Flush
      <4>3. QED
        BY <1>1, <4>1, <4>2, OnTheWay
    <3>3. CASE c.on # s
      BY <2>3, <3>1, <3>3 DEF Reasoned, TooLate
    <3>4. QED
      BY <3>2, <3>3
  <2>5. ASSUME crashes' = 0, NEW c \in lost' PROVE ender'[c.on] # <<c.by, 0>>
    <3>1. c \in lost /\ crashes = 0 /\ c.on \in Session
      BY <1>1, <1>2, <2>5 DEF Typed, TypedProcesses, Command
    <3>2. handle[c.on] = "closed" /\ ender[c.on] # <<c.by, 0>>
      BY <3>1 DEF Entered, Reasoned
    <3>3. QED
      BY <2>3, <3>1, <3>2
  <2>6. \A c \in Held' \cup Queued' : TooLate(c)'
    BY <2>2, <2>4
  <2>7. QED
    BY <2>5, <2>6 DEF Reasoned
<1>7. CASE Enter(h)
  <2>1. UNCHANGED <<queue, hand, pipe, kernels, finished, nr, ender>>
    BY <1>7 DEF Enter, streamVars, processVars
  <2>2. UNCHANGED <<Queued, Held>>
    BY <1>1, <2>1, StillInOrder
  <2>3. \A t \in Session : handle'[t] = "closed" => handle[t] = "closed"
    <3>1. handle' = [handle EXCEPT ![Operand(h)] = "open"] /\ handle \in [Session -> {"none", "open", "closed"}]
      BY <1>1, <1>7 DEF Enter, Typed, TypedSessions
    <3>2. QED
      BY <3>1
  <2>4. \A c \in Held \cup Queued : c.on \in Session
    BY <1>1, OnTheWay
  <2>5. \A c \in Held' \cup Queued' : TooLate(c)'
    BY <2>1, <2>2, <2>3, <2>4 DEF TooLate, Reasoned
  <2>6. QED
    BY <1>2, <2>1, <2>5 DEF Reasoned
<1>8. CASE \/ SetDevice(h) \/ EnterContext(h) \/ LeaveContext(h) \/ Start(h) \/ LaunchRaises(h) \/ Return(h)
           \/ Exit(h) \/ WaitForProcess(h)
  <2>1. UNCHANGED <<queue, hand, pipe, kernels, finished, nr, handle, ender>>
    BY <1>8 DEF SetDevice, EnterContext, LeaveContext, Start, LaunchRaises, Return, Exit, WaitForProcess,
                streamVars, sessionVars, processVars, threadVars
  <2>2. UNCHANGED <<Queued, Held>>
    BY <1>1, <2>1, StillInOrder
  <2>3. QED
    BY <1>1, <1>2, <2>1, <2>2, ReasonedKept
<1>9. simulator # None \/ ~Launch(h)
  BY DEF Launch
<1>10. QED
  BY <1>3, <1>4, <1>5, <1>6, <1>7, <1>8, <1>9 DEF ThreadStep

\* The step of the thread of a stream
LEMMA OwnedStream ==
  ASSUME SessionAssumption, Sound, Entered, NEW o \in Thread, Owned(o), NEW d \in Device, StreamStep(d)
  PROVE  Owned(o)'
<1>1. /\ Typed /\ Placed /\ InOrder /\ Flushing /\ TypedStreams
      /\ handle \in [Session -> {"none", "open", "closed"}] /\ Bracketed(o) /\ Chained(o) /\ Reasoned
  BY DEF Sound, Typed, TypedSessions, Owned
<1>2. UNCHANGED <<handle, ender, crashes>>
  BY DEF StreamStep, Waken, Take, Give, Write, sessionVars, processVars
<1>3. CASE Waken(d)
  <2>1. /\ UNCHANGED <<hand, pipe, kernels, finished, nr, lost>>
        /\ queue[d] # <<>> /\ queue[d][1].what = "mark" /\ Pop(d)
    BY <1>1, <1>3, HeadTask DEF Waken, processVars
  <2>2. Queued' = Queued /\ Held' = Held
    BY <1>1, <2>1, MarkInOrder
  <2>3. Reasoned'
    BY <1>1, <1>2, <2>1, <2>2, ReasonedKept
  <2>4. QED
    BY <1>1, <1>3, <2>3, OwnedWaken DEF Owned
<1>4. CASE Take(d)
  <2>1. PICK c : c = Head(queue[d])
    OBVIOUS
  <2>2. /\ c \in Queued /\ Queued' \subseteq Queued
        /\ \/ process[c.on] = "exited" /\ lost' = lost \cup {c} /\ Held' = Held
           \/ lost' = lost /\ Held' = Held \cup {c}
    BY <1>1, <1>4, <2>1, TakeInOrder
  <2>3. Reasoned'
    BY <1>1, <1>2, <2>2, ReasonedKept
  <2>4. UNCHANGED <<plan, handle, outer, ender, simulator>>
    BY <1>4 DEF Take, sessionVars, threadVars
  <2>5. QED
    BY <1>1, <2>3, <2>4, OwnedStill DEF Owned
<1>5. CASE Give(d) \/ Write(d)
  <2>1. PICK c : c = hand[d]
    OBVIOUS
  <2>2. /\ c \in Held /\ UNCHANGED Queued
        /\ \/ UNCHANGED <<Held, lost>>
           \/ /\ Held' \subseteq Held
              /\ \/ lost' = lost \cup {c} /\ (process[c.on] = "exited" \/ handle[c.on] # "open")
                 \/ lost' = lost
    BY <1>1, <1>5, <2>1, HandInOrder
  <2>3. handle[c.on] # "open" => handle[c.on] = "closed"
    <3>1. handle[c.on] # "none" /\ c.on \in Session
      BY <1>1, <2>2, OnTheWay DEF Entered
    <3>2. QED
      BY <1>1, <3>1
  <2>4. /\ Held' \subseteq Held /\ Queued' = Queued
        /\ \A x \in lost' : x \in lost \/ (x = c /\ (handle[x.on] = "closed" \/ process[x.on] = "exited"))
    BY <2>2, <2>3
  <2>5. Reasoned'
    BY <1>1, <1>2, <2>2, <2>4, ReasonedKept
  <2>6. UNCHANGED <<plan, handle, outer, ender, simulator>>
    BY <1>5 DEF Give, Write, sessionVars, threadVars
  <2>7. QED
    BY <1>1, <2>5, <2>6, OwnedStill DEF Owned
<1>6. QED
  BY <1>3, <1>4, <1>5 DEF StreamStep

\* The step of a simulator process
LEMMA OwnedProcess ==
  ASSUME SessionAssumption, Sound, Entered, NEW o \in Thread, Owned(o), NEW s \in Session, ProcessStep(s) \/ Crash(s)
  PROVE  Owned(o)'
<1>1. Typed /\ Bracketed(o) /\ Chained(o) /\ Reasoned /\ crashes \in Nat
  BY DEF Sound, Typed, TypedProcesses, Owned
<1>2. UNCHANGED <<threadVars, sessionVars, streamVars, lost>> /\ (crashes' = crashes \/ crashes' = crashes + 1)
  BY DEF ProcessStep, Open, Read, EndOfFile, Finish, Idle, Crash
<1>3. UNCHANGED <<plan, handle, outer, ender, simulator, queue, hand, lost>>
  BY <1>2 DEF threadVars, sessionVars, streamVars
<1>4. UNCHANGED <<Queued, Held>>
  BY <1>3 DEF Queued, Held
<1>5. crashes' = 0 => crashes = 0
  BY <1>1, <1>2
<1>6. Reasoned'
  BY <1>1, <1>3, <1>4, <1>5, ReasonedKept
<1>7. QED
  BY <1>1, <1>3, <1>6, OwnedStill DEF Owned

\* The step of a thread
LEMMA OwnedMoves ==
  ASSUME SessionAssumption, Sound, Entered, NEW o \in Thread, Owned(o), NEW h \in Thread, ThreadStep(h)
  PROVE  Owned(o)'
<1>1. Typed /\ TypedThreads /\ Flush(o) /\ Bracketed(o) /\ Chained(o) /\ Reasoned
  BY DEF Sound, Typed, Flushing, Owned
<1>2. Reasoned'
  BY <1>1, ReasonedThread
<1>3. Enter(h) \/ Exit(h) \/ Close(h) \/ WaitForProcess(h) => h = o
  BY <1>1, OnlyOwner
<1>4. CASE Start(h)
  <2>1. UNCHANGED <<plan, handle, outer, ender, simulator>>
    BY <1>4 DEF Start, threadVars, sessionVars
  <2>2. QED
    BY <1>1, <1>2, <2>1, OwnedStill DEF Owned
<1>5. CASE Enter(h)
  BY <1>1, <1>2, <1>3, <1>5, OwnedEnter DEF Owned
<1>6. CASE Exit(h)
  BY <1>1, <1>2, <1>3, <1>6, OwnedExit DEF Owned
<1>7. CASE Close(h)
  <2>1. Bracketed(o)' /\ Chained(o)'
    BY <1>1, <1>3, <1>7, OwnedClose, Zenon
  <2>2. QED
    BY <1>2, <2>1 DEF Owned
<1>8. CASE WaitForProcess(h)
  BY <1>1, <1>2, <1>3, <1>8, OwnedWait DEF Owned
<1>9. CASE ~Start(h) /\ ~Enter(h) /\ ~Exit(h) /\ ~Close(h) /\ ~WaitForProcess(h)
  BY <1>1, <1>2, <1>9, OwnedThread DEF Owned
<1>10. QED
  BY <1>4, <1>5, <1>6, <1>7, <1>8, <1>9

\* All the steps
LEMMA OwnedStep ==
  ASSUME SessionAssumption, Apart, NEW o \in Thread, Owned(o), [Next]_vars
  PROVE  Owned(o)'
<1>1. Sound /\ Entered
  BY DEF Apart
<1>2. CASE Next
  BY <1>1, <1>2, OwnedMoves, OwnedStream, OwnedProcess DEF Next
<1>3. CASE UNCHANGED vars
  <2>1. UNCHANGED <<plan, handle, outer, ender, simulator, queue, hand, lost, crashes>>
    BY <1>3 DEF vars, threadVars, sessionVars, streamVars, processVars
  <2>2. UNCHANGED <<Queued, Held>>
    BY <2>1 DEF Queued, Held
  <2>3. Reasoned'
    BY <1>1, <2>1, <2>2, ReasonedKept DEF Owned, Sound
  <2>4. QED
    BY <2>1, <2>3, OwnedStill DEF Owned
<1>4. QED
  BY <1>2, <1>3

\* At first the with statements are those of the program.
LEMMA OwnedInit ==
  ASSUME SessionAssumption, Init, NEW o \in Thread, WithBlocks(plan, o)
  PROVE  Owned(o)
<1>1. plan \in [Thread -> Seq(Statement)] /\ plan \in [Thread -> Seq(Step)]
  <2>1. plan \in [Thread -> Seq(Statement)]
    BY DEF Init, SessionAssumption
  <2>2. Statement \subseteq Step
    BY DEF Step
  <2>3. \A h \in Thread : plan[h] \in Seq(Step)
    BY <2>1, <2>2
  <2>4. QED
    BY <2>1, <2>3
<1>2. ASSUME NEW x \in Statement
      PROVE  /\ x[1] # "close" /\ x[1] # "wait"
             /\ x[1] = "exit" => x = <<"exit", x[2]>>
  BY DEF Statement
<1>3. ASSUME NEW h \in Thread, NEW i \in 1 .. Len(plan[h])
      PROVE  /\ plan[h][i][1] # "close" /\ plan[h][i][1] # "wait"
             /\ plan[h][i][1] = "exit" => plan[h][i] = <<"exit", plan[h][i][2]>>
  <2>1. plan[h][i] \in Statement
    BY <1>1
  <2>2. QED
    BY <1>2, <2>1
<1>4. /\ \A s \in Session : handle[s] = "none" /\ outer[s] = None
      /\ simulator = None
  BY DEF Init
<1>5. Held = {} /\ Queued = {} /\ lost = {}
  BY NothingYet DEF Waiting
<1>6. Blocks(plan[o])
  <2>1. PICK p \in Seq(Step) : p = plan[o]
    BY <1>1
  <2>2. \A i \in 1 .. Len(p) : p[i][1] # "close" /\ p[i][1] # "wait"
    BY <1>3, <2>1
  <2>3. EnteredOnce(p) /\ LeftWithin(p)
    BY <2>1 DEF WithBlocks
  <2>4. Len(p) \in Nat
    BY LenProperties
  <2>5. Once(p)
    <3>1. SUFFICES ASSUME NEW i \in 1 .. Len(p), NEW j \in 1 .. Len(p), i < j
                   PROVE  /\ p[i][1] = "enter" => p[i] # p[j]
                          /\ ~(p[i][1] \in {"exit", "close"} /\ p[j][1] \in {"exit", "close"} /\ p[i][2] = p[j][2])
      BY DEF Once
    <3>2. i # j
      BY <2>4, <3>1
    <3>3. p[i][1] = "enter" => p[i] # p[j]
      BY <2>3, <3>2 DEF EnteredOnce
    <3>4. ASSUME p[i][1] \in {"exit", "close"}, p[j][1] \in {"exit", "close"}, p[i][2] = p[j][2] PROVE FALSE
      <4>1. p[i][1] = "exit" /\ p[j][1] = "exit"
        BY <2>2, <3>4
      <4>2. p[i] = <<"exit", p[i][2]>> /\ p[j] = <<"exit", p[j][2]>>
        BY <1>3, <2>1, <4>1, Zenon
      <4>3. p[i] = p[j]
        BY <3>4, <4>2, Zenon
      <4>4. QED
        BY <2>3, <3>2, <4>1, <4>3 DEF EnteredOnce
    <3>5. QED
      BY <3>3, <3>4
  <2>6. Nested(p)
    <3>1. SUFFICES ASSUME NEW i \in 1 .. Len(p), NEW j \in 1 .. Len(p), NEW s \in Session, NEW t \in Session,
                          i < j, p[i] = <<"enter", t>>, p[j] \in Ends(s), s # t,
                          \A k \in 1 .. Len(p) : i < k /\ k < j => p[k] # <<"enter", s>>
                   PROVE  \E k \in 1 .. Len(p) : i < k /\ k < j /\ p[k] \in Ends(t)
      BY DEF Nested
    <3>2. p[j] = <<"exit", s>>
      <4>1. p[j][1] # "close" /\ p[j][1] # "wait"
        BY <2>2
      <4>2. p[j] # <<"close", s>> /\ p[j] # <<"wait", s>>
        BY <4>1
      <4>3. QED
        BY <3>1, <4>2 DEF Ends
    <3>3. PICK k \in 1 .. Len(p) : i < k /\ k < j /\ p[k] = <<"exit", t>>
      <4>. DEFINE N(v) == <<"enter", v>>
                  X(v) == <<"exit", v>>
      <4>1. \A a, b \in 1 .. Len(p), x, y \in Session :
              /\ a < b /\ p[a] = N(y) /\ p[b] = X(x) /\ x # y
              /\ \A k \in 1 .. Len(p) : a < k /\ k < b => p[k] # N(x)
              => \E k \in 1 .. Len(p) : a < k /\ k < b /\ p[k] = X(y)
        BY <2>3, Zenon DEF LeftWithin
      <4>2. /\ i < j /\ p[i] = N(t) /\ p[j] = X(s) /\ s # t
            /\ \A k \in 1 .. Len(p) : i < k /\ k < j => p[k] # N(s)
        BY <3>1, <3>2, Zenon
      <4>3. \E k \in 1 .. Len(p) : i < k /\ k < j /\ p[k] = X(t)
        <5>. HIDE DEF N, X
        <5>1. QED
          BY <4>1, <4>2
      <4>4. QED
        BY <4>3, Zenon
    <3>4. p[k] \in Ends(t)
      BY <3>3 DEF Ends
    <3>5. QED
      BY <3>3, <3>4
  <2>7. Paired(p)
    BY <2>2 DEF Paired
  <2>8. QED
    BY <2>1, <2>5, <2>6, <2>7 DEF Blocks
<1>7. ~Does(o, "wait")
  <2>1. ASSUME plan[o] # <<>> PROVE Head(plan[o])[1] # "wait"
    <3>1. Head(plan[o]) = plan[o][1] /\ 1 \in 1 .. Len(plan[o])
      BY <1>1, <2>1, EmptySeq, LenProperties
    <3>2. QED
      BY <1>3, <3>1
  <2>2. QED
    BY <2>1 DEF Does
<1>8. \A h \in Thread \ {o} : \A x \in Elems(plan[h]) : x[1] \notin Brackets
  <2>1. SUFFICES ASSUME NEW h \in Thread \ {o}, NEW i \in 1 .. Len(plan[h]) PROVE plan[h][i][1] \notin Brackets
    BY DEF Elems
  <2>2. plan[h][i][1] \notin {"enter", "exit"}
    BY DEF WithBlocks
  <2>3. QED
    BY <1>3, <2>2 DEF Brackets
<1>9. Bracketed(o)
  BY <1>4, <1>6, <1>7, <1>8 DEF Bracketed
<1>10. Chained(o)
  BY <1>4 DEF Chained
<1>11. Reasoned
  BY <1>5 DEF Reasoned
<1>12. QED
  BY <1>9, <1>10, <1>11 DEF Owned

\* A program whose with statements are those of one thread
Arriving == Apart /\ \E o \in Thread : Owned(o)

\* What is launched reaches its simulator, in a program whose with statements are those of one thread: when
\* torch.npu.synchronize returns on device 0, nothing the thread has launched waits in a stream; a launch is
\* lost only when a simulator died, when another thread ended the session under it, or when the thread that
\* ended the session was on another device, whose synchronization waits for no stream.
THEOREM LaunchesReachSimulator ==
  ASSUME NestedSessions
  PROVE  Spec => []LaunchesArrive
<1>1. Init => Arriving
  <2>1. SUFFICES ASSUME Init PROVE Arriving
    OBVIOUS
  <2>2. PICK o \in Thread : WithBlocks(plan, o)
    BY <2>1 DEF NestedSessions, Init
  <2>3. Owned(o)
    BY SessionPrograms, <2>1, <2>2, OwnedInit
  <2>4. QED
    BY SessionPrograms, <2>1, <2>3, ApartInit DEF Arriving
<1>2. Arriving /\ [Next]_vars => Arriving'
  <2>1. SUFFICES ASSUME Arriving, [Next]_vars PROVE Arriving'
    OBVIOUS
  <2>2. PICK o \in Thread : Owned(o)
    BY <2>1 DEF Arriving
  <2>3. Apart' /\ Owned(o)'
    BY SessionPrograms, <2>1, <2>2, ApartStep, OwnedStep DEF Arriving
  <2>4. QED
    BY <2>3 DEF Arriving
<1>3. Arriving => LaunchesArrive
  <2>1. SUFFICES ASSUME Arriving PROVE LaunchesArrive
    OBVIOUS
  <2>2. Sound /\ Entered
    BY <2>1 DEF Arriving, Apart
  <2>3. TypeOK /\ SyncFlushes
    BY SessionPrograms, <2>2, SoundTypes, SoundFlushes
  <2>4. LostForAReason
    BY <2>1 DEF Arriving, Owned, Reasoned, LostForAReason, Launches
  <2>5. QED
    BY <2>3, <2>4 DEF LaunchesArrive
<1>4. QED
  BY <1>1, <1>2, <1>3, PTL DEF Spec
===============================================================================
