----------------------------- MODULE StreamProofs ------------------------------
(***************************************************************************)
(* Proofs about module OpenRegStream, for every number of streams, events, *)
(* jobs and threads and every set of programs.                             *)
(*                                                                         *)
(* WakeInv is why no wake-up is lost.  StreamInv says who may still use a  *)
(* stream at each point of its life.  EventInv says that the flag of an    *)
(* event speaks of its latest record, which is the only one on its way,    *)
(* and OrderInv that whatever a task has to come after has run or is in    *)
(* front of it.  The three of them rest on what callers observe.           *)
(***************************************************************************)
EXTENDS OpenRegStream, QueueLemmas

-------------------------------------------------------------------------------
(* Steps, tasks and plans *)

Managing == {"create", "unregister", "stop", "join"}

\* What a step of a program is made of.
LEMMA StepFacts ==
  ASSUME NEW st \in Step
  PROVE  /\ st[1] \in Managing \cup {"notify"} => st[2] \in Stream /\ st = <<st[1], st[2]>>
         /\ st[1] = "push" => st[2] \in Stream /\ st[3] \in Task /\ st = <<"push", st[2], st[3]>>
         /\ st[1] \in {"clear", "await"} => st[2] \in AnyEvent /\ st = <<st[1], st[2]>>
         /\ st[1] = "each" => st[2] \in Seq(Stream) /\ st = <<"each", st[2]>>
<1>1. CASE st \in {"push"} \X Stream \X Task
  BY <1>1 DEF Managing
<1>2. CASE st \in {"clear", "await"} \X AnyEvent
  BY <1>2 DEF Managing
<1>3. CASE st \in {"create", "notify", "unregister", "stop", "join"} \X Stream
  BY <1>3 DEF Managing
<1>4. CASE st = <<"collect">>
  BY <1>4 DEF Managing
<1>5. CASE st \in {"each"} \X Seq(Stream)
  BY <1>5 DEF Managing
<1>6. QED
  BY <1>1, <1>2, <1>3, <1>4, <1>5 DEF Step

\* What a task is made of.
LEMMA TaskFacts ==
  ASSUME NEW t \in Task
  PROVE  /\ t = <<t[1], t[2]>> /\ t[1] \in {"run", "record", "wait"}
         /\ t[1] = "run" => t[2] \in Job
         /\ t[1] \in {"record", "wait"} => t[2] \in AnyEvent
<1>1. CASE t \in {"run"} \X Job
  BY <1>1
<1>2. CASE t \in {"record", "wait"} \X AnyEvent
  BY <1>2
<1>3. QED
  BY <1>1, <1>2 DEF Task

\* The steps the code makes up for a thread that synchronizes with the streams of the registry
Made(st, h) ==
  \/ st = <<"clear", h>> \/ st = <<"await", h>>
  \/ \E s \in Stream : st = <<"push", s, <<"record", h>>>> \/ st = <<"notify", s>>
  \/ \E q \in Seq(Stream) : st = <<"each", q>>

\* A call takes the first step off the plan of its thread and puts b steps in its place.
Reshaped(h, b) ==
  /\ plan' \in [Host -> Seq(Step)] /\ Len(plan[h]) \in Nat \ {0}
  /\ \A k \in Host : k # h => plan'[k] = plan[k]
  /\ Len(plan'[h]) = Len(plan[h]) + b - 1
  /\ \A n \in 1..Len(plan'[h]) : n > b =>
       n + 1 - b \in 2..Len(plan[h]) /\ plan'[h][n] = plan[h][n + 1 - b]

\* A step of the API goes on with the rest of the plan.
LEMMA AdvanceShape ==
  ASSUME plan \in [Host -> Seq(Step)], NEW h \in Host, plan[h] # <<>>, Continue(h)
  PROVE  Reshaped(h, 0)
<1> DEFINE p == plan[h]
<1>1. p \in Seq(Step) /\ p # <<>>
  OBVIOUS
<1> HIDE DEF p
<1>2. /\ Tail(p) \in Seq(Step) /\ Len(p) \in Nat \ {0} /\ Len(Tail(p)) = Len(p) - 1
      /\ \A i \in 1..Len(Tail(p)) : Tail(p)[i] = p[i + 1]
  BY <1>1, HeadTailProperties, EmptySeq, LenProperties
<1>3. plan' = [plan EXCEPT ![h] = Tail(p)]
  BY DEF Continue, p
<1>4. plan' \in [Host -> Seq(Step)] /\ plan'[h] = Tail(p) /\ \A k \in Host : k # h => plan'[k] = plan[k]
  BY <1>2, <1>3
<1>5. ASSUME NEW n \in 1..Len(Tail(p)), n > 0
      PROVE  n + 1 - 0 \in 2..Len(p) /\ Tail(p)[n] = p[n + 1 - 0]
  BY <1>2
<1>6. QED
  BY <1>2, <1>4, <1>5 DEF p, Reshaped

\* One more step behind the others
LEMMA OneBehind ==
  ASSUME NEW S, NEW q \in Seq(S), NEW c \in S
  PROVE  /\ q \o <<c>> \in Seq(S) /\ Len(q) \in Nat /\ Len(q \o <<c>>) = Len(q) + 1
         /\ \A i \in 1..Len(q) : (q \o <<c>>)[i] = q[i]
         /\ (q \o <<c>>)[Len(q) + 1] = c
<1>1. <<c>> \in Seq(S) /\ Len(<<c>>) = 1 /\ <<c>>[1] = c /\ Len(q) \in Nat
  BY LenProperties
<1>2. /\ q \o <<c>> \in Seq(S) /\ Len(q \o <<c>>) = Len(q) + Len(<<c>>)
      /\ \A i \in 1..Len(q) + Len(<<c>>) :
           (q \o <<c>>)[i] = IF i <= Len(q) THEN q[i] ELSE <<c>>[i - Len(q)]
  BY <1>1, ConcatProperties
<1>3. QED
  BY <1>1, <1>2

\* The steps of a call, one behind the other
LEMMA FiveSteps ==
  ASSUME NEW S, NEW a \in S, NEW b \in S, NEW c \in S, NEW d \in S, NEW e \in S
  PROVE  ((<<a>> \o <<b, c>>) \o <<d>>) \o <<e>> = <<a, b, c, d, e>>
<1> DEFINE q == <<a>> \o <<b, c>>
           r == q \o <<d>>
           t == r \o <<e>>
<1>1. q \in Seq(S) /\ Len(q) = 3 /\ q[1] = a /\ q[2] = b /\ q[3] = c
  OBVIOUS
<1> HIDE DEF q
<1>2. /\ r \in Seq(S) /\ Len(r) = 4 /\ r[1] = a /\ r[2] = b /\ r[3] = c /\ r[4] = d
  <2>0. q \in Seq(S)
    BY <1>1
  <2>1. r \in Seq(S) /\ Len(r) = Len(q) + 1
    BY <2>0, OneBehind
  <2>2. r[Len(q) + 1] = d
    BY <2>0, OneBehind
  <2>3. \A i \in 1..Len(q) : r[i] = q[i]
    BY <2>0, OneBehind
  <2> HIDE DEF r
  <2>4. QED
    BY <1>1, <2>1, <2>2, <2>3
<1> HIDE DEF r
<1>3. /\ t \in Seq(S) /\ Len(t) = 5 /\ t[1] = a /\ t[2] = b /\ t[3] = c /\ t[4] = d /\ t[5] = e
  <2>0. r \in Seq(S)
    BY <1>2
  <2>1. t \in Seq(S) /\ Len(t) = Len(r) + 1
    BY <2>0, OneBehind
  <2>2. t[Len(r) + 1] = e
    BY <2>0, OneBehind
  <2>3. \A i \in 1..Len(r) : t[i] = r[i]
    BY <2>0, OneBehind
  <2> HIDE DEF t
  <2>4. QED
    BY <1>2, <2>1, <2>2, <2>3
<1> HIDE DEF t
<1>4. <<a, b, c, d, e>> \in Seq(S) /\ Len(<<a, b, c, d, e>>) = 5
  OBVIOUS
<1>5. ASSUME NEW i \in 1..5 PROVE t[i] = <<a, b, c, d, e>>[i]
  BY <1>3
<1>6. t = <<a, b, c, d, e>>
  BY <1>3, <1>4, <1>5, SeqEqual
<1>7. QED
  BY <1>6 DEF q, r, t

\* orDeviceSynchronize copies a finite set into a list of its members.
LEMMA OrderOfRegistry ==
  ASSUME IsFiniteSet(Stream), registry \subseteq Stream, NEW q \in Orders(registry)
  PROVE  q \in Seq(Stream) /\ \A n \in DOMAIN q : q[n] \in registry
<1>1. IsFiniteSet(registry) /\ Cardinality(registry) \in Nat
  BY FS_Subset, FS_CardinalityType
<1>2. q \in [1..Cardinality(registry) -> registry]
  BY DEF Orders
<1>3. q \in Seq(registry)
  BY <1>1, <1>2, SeqDef
<1>4. QED
  BY <1>2, <1>3

\* orDeviceSynchronize puts the copy of the registry in the place of its call.
LEMMA CollectShape ==
  ASSUME ProgramAssumption, plan \in [Host -> Seq(Step)], registry \subseteq Stream,
         NEW h \in Host, plan[h] # <<>>, Collect(h)
  PROVE  /\ Reshaped(h, 1)
         /\ \E q \in Seq(Stream) : plan'[h][1] = <<"each", q>> /\ \A n \in DOMAIN q : q[n] \in registry
<1>1. PICK q \in Orders(registry) : plan' = [plan EXCEPT ![h] = <<<<"each", q>>>> \o Tail(@)]
  BY DEF Collect
<1>2. q \in Seq(Stream) /\ \A n \in DOMAIN q : q[n] \in registry
  BY OrderOfRegistry DEF ProgramAssumption
<1> DEFINE p == plan[h]
           f == <<<<"each", q>>>>
<1>3. p \in Seq(Step) /\ p # <<>> /\ f \in Seq(Step) /\ Len(f) = 1 /\ f[1] = <<"each", q>>
  BY <1>2 DEF Step
<1>4. plan' = [plan EXCEPT ![h] = f \o Tail(p)]
  BY <1>1
<1> HIDE DEF p, f
<1>5. /\ Tail(p) \in Seq(Step) /\ Len(p) \in Nat \ {0} /\ Len(Tail(p)) = Len(p) - 1
      /\ \A i \in 1..Len(Tail(p)) : Tail(p)[i] = p[i + 1]
  BY <1>3, HeadTailProperties, EmptySeq, LenProperties
<1>6. /\ f \o Tail(p) \in Seq(Step) /\ Len(f \o Tail(p)) = Len(p)
      /\ \A i \in 1..Len(p) : (f \o Tail(p))[i] = IF i <= 1 THEN f[i] ELSE Tail(p)[i - 1]
  <2>1. /\ f \o Tail(p) \in Seq(Step) /\ Len(f \o Tail(p)) = Len(f) + Len(Tail(p))
        /\ \A i \in 1..Len(f) + Len(Tail(p)) :
             (f \o Tail(p))[i] = IF i <= Len(f) THEN f[i] ELSE Tail(p)[i - Len(f)]
    BY <1>3, <1>5, ConcatProperties
  <2>2. Len(f) + Len(Tail(p)) = Len(p)
    BY <1>3, <1>5
  <2>3. QED
    BY <1>3, <2>1, <2>2
<1>7. /\ plan' \in [Host -> Seq(Step)] /\ plan'[h] = f \o Tail(p)
      /\ \A k \in Host : k # h => plan'[k] = plan[k]
  BY <1>4, <1>6
<1>8. ASSUME NEW n \in 1..Len(f \o Tail(p)), n > 1
      PROVE  n + 1 - 1 \in 2..Len(p) /\ (f \o Tail(p))[n] = p[n + 1 - 1]
  <2>1. n \in 2..Len(p) /\ n - 1 \in 1..Len(Tail(p)) /\ ~(n <= 1)
    BY <1>5, <1>6, <1>8
  <2>2. (f \o Tail(p))[n] = Tail(p)[n - 1] /\ Tail(p)[n - 1] = p[(n - 1) + 1]
    BY <1>5, <1>6, <2>1
  <2>3. QED
    BY <2>1, <2>2
<1>9. (f \o Tail(p))[1] = <<"each", q>>
  BY <1>3, <1>5, <1>6
<1>10. Reshaped(h, 1)
  <2>1. Len(plan'[h]) = Len(p) + 1 - 1
    BY <1>5, <1>6, <1>7
  <2>2. QED
    BY <1>5, <1>7, <1>8, <2>1 DEF p, Reshaped
<1>11. QED
  BY <1>2, <1>7, <1>9, <1>10

\* One turn of its loop: the four steps of orStreamSynchronize, and the rest of the loop.
LEMMA EachShape ==
  ASSUME plan \in [Host -> Seq(Step)], NEW h \in Host, plan[h] # <<>>, Each(h), On(h) # <<>>
  PROVE  LET p == plan'[h]
             q == plan[h][1][2]
         IN  /\ Reshaped(h, 5) /\ plan[h][1] = <<"each", q>> /\ q \in Seq(Stream) /\ q # <<>>
             /\ p[1] = <<"clear", h>> /\ p[2] = <<"push", q[1], <<"record", h>>>>
             /\ p[3] = <<"notify", q[1]>> /\ p[4] = <<"await", h>> /\ p[5] = <<"each", Tail(q)>>
<1> DEFINE p == plan[h]
           q == On(h)
<1>1. p \in Seq(Step) /\ p # <<>> /\ Head(p) = p[1] /\ p[1] \in Step
  BY HeadTailProperties, EmptySeq, LenProperties, ElementOfSeq
<1>2. p[1][1] = "each" /\ q = p[1][2]
  BY <1>1 DEF Each, Does, Next1, On
<1>3. p[1] = <<"each", q>> /\ q \in Seq(Stream) /\ q # <<>>
  BY <1>1, <1>2, StepFacts
<1>4. q[1] \in Stream /\ Head(q) = q[1] /\ Tail(q) \in Seq(Stream)
  BY <1>3, HeadTailProperties, EmptySeq, LenProperties, ElementOfSeq
<1> DEFINE f == StreamSynchronize(h, Head(q)) \o <<<<"each", Tail(q)>>>>
           g == <<<<"clear", h>>, <<"push", q[1], <<"record", h>>>>, <<"notify", q[1]>>,
                  <<"await", h>>, <<"each", Tail(q)>>>>
<1>5. plan' = [plan EXCEPT ![h] = f \o Tail(p)]
  <2>1. plan' = [plan EXCEPT ![h] =
           StreamSynchronize(h, Head(q)) \o <<<<"each", Tail(q)>>>> \o Tail(p)]
    BY <1>3 DEF Each
  <2>2. QED
    BY <2>1
<1>6. /\ <<"clear", h>> \in Step /\ <<"await", h>> \in Step /\ <<"notify", q[1]>> \in Step
      /\ <<"push", q[1], <<"record", h>>>> \in Step /\ <<"each", Tail(q)>> \in Step
  <2>1. h \in AnyEvent /\ <<"record", h>> \in Task
    BY DEF AnyEvent, Task
  <2>2. QED
    BY <1>4, <2>1 DEF Step
<1>7. g \in Seq(Step) /\ Len(g) = 5 /\ f = g
  <2>1. StreamSynchronize(h, Head(q)) =
           (<<<<"clear", h>>>> \o <<<<"push", q[1], <<"record", h>>>>, <<"notify", q[1]>>>>)
           \o <<<<"await", h>>>>
    BY <1>4 DEF StreamSynchronize, EventRecord, AddTask, EventSynchronize
  <2>2. ((<<<<"clear", h>>>> \o <<<<"push", q[1], <<"record", h>>>>, <<"notify", q[1]>>>>)
           \o <<<<"await", h>>>>) \o <<<<"each", Tail(q)>>>> = g
    <3> DEFINE a == <<"clear", h>>
               b == <<"push", q[1], <<"record", h>>>>
               c == <<"notify", q[1]>>
               d == <<"await", h>>
               e == <<"each", Tail(q)>>
    <3>1. a \in Step /\ b \in Step /\ c \in Step /\ d \in Step /\ e \in Step
      BY <1>6
    <3> HIDE DEF a, b, c, d, e
    <3>2. ((<<a>> \o <<b, c>>) \o <<d>>) \o <<e>> = <<a, b, c, d, e>>
      BY <3>1, FiveSteps
    <3>3. QED
      BY <3>2 DEF a, b, c, d, e
  <2>3. f = g
    BY <2>1, <2>2
  <2>4. g \in Seq(Step) /\ Len(g) = 5
    <3> DEFINE a == <<"clear", h>>
               b == <<"push", q[1], <<"record", h>>>>
               c == <<"notify", q[1]>>
               d == <<"await", h>>
               e == <<"each", Tail(q)>>
    <3>1. a \in Step /\ b \in Step /\ c \in Step /\ d \in Step /\ e \in Step
      BY <1>6
    <3> HIDE DEF a, b, c, d, e
    <3>2. <<a, b, c, d, e>> \in Seq(Step) /\ Len(<<a, b, c, d, e>>) = 5
      BY <3>1
    <3>3. QED
      BY <3>2 DEF a, b, c, d, e
  <2>5. QED
    BY <2>3, <2>4
<1>8. /\ g[1] = <<"clear", h>> /\ g[2] = <<"push", q[1], <<"record", h>>>>
      /\ g[3] = <<"notify", q[1]>> /\ g[4] = <<"await", h>> /\ g[5] = <<"each", Tail(q)>>
  OBVIOUS
<1>9. plan' = [plan EXCEPT ![h] = g \o Tail(p)]
  BY <1>5, <1>7
<1> HIDE DEF p, q, f, g
<1>10. /\ Tail(p) \in Seq(Step) /\ Len(p) \in Nat \ {0} /\ Len(Tail(p)) = Len(p) - 1
       /\ \A i \in 1..Len(Tail(p)) : Tail(p)[i] = p[i + 1]
  BY <1>1, HeadTailProperties, EmptySeq, LenProperties
<1>11. /\ g \o Tail(p) \in Seq(Step) /\ Len(g \o Tail(p)) = Len(p) + 4
       /\ \A i \in 1..Len(p) + 4 : (g \o Tail(p))[i] = IF i <= 5 THEN g[i] ELSE Tail(p)[i - 5]
  <2>1. /\ g \o Tail(p) \in Seq(Step) /\ Len(g \o Tail(p)) = Len(g) + Len(Tail(p))
        /\ \A i \in 1..Len(g) + Len(Tail(p)) :
             (g \o Tail(p))[i] = IF i <= Len(g) THEN g[i] ELSE Tail(p)[i - Len(g)]
    BY <1>7, <1>10, ConcatProperties
  <2>2. Len(g) + Len(Tail(p)) = Len(p) + 4
    BY <1>7, <1>10
  <2>3. QED
    BY <1>7, <2>1, <2>2
<1>12. /\ plan' \in [Host -> Seq(Step)] /\ plan'[h] = g \o Tail(p)
       /\ \A k \in Host : k # h => plan'[k] = plan[k]
  BY <1>9, <1>11
<1>13. ASSUME NEW n \in 1..Len(g \o Tail(p)), n > 5
       PROVE  n + 1 - 5 \in 2..Len(p) /\ (g \o Tail(p))[n] = p[n + 1 - 5]
  <2>1. n \in 6..Len(p) + 4 /\ n - 5 \in 1..Len(Tail(p)) /\ ~(n <= 5)
    BY <1>10, <1>11, <1>13
  <2>2. (g \o Tail(p))[n] = Tail(p)[n - 5] /\ Tail(p)[n - 5] = p[(n - 5) + 1]
    BY <1>10, <1>11, <2>1
  <2>3. QED
    BY <2>1, <2>2
<1>14. Reshaped(h, 5)
  BY <1>10, <1>11, <1>12, <1>13 DEF p, Reshaped
<1>15. ASSUME NEW i \in 1..5 PROVE plan'[h][i] = g[i]
  BY <1>10, <1>11, <1>12
<1>16. QED
  BY <1>2, <1>3, <1>8, <1>14, <1>15 DEF p

\* The first step of a plan that is not empty.
LEMMA HeadFacts ==
  ASSUME plan \in [Host -> Seq(Step)], NEW h \in Host, plan[h] # <<>>
  PROVE  /\ Len(plan[h]) \in Nat \ {0} /\ 1 \in 1..Len(plan[h])
         /\ Next1(h) = plan[h][1] /\ On(h) = plan[h][1][2] /\ plan[h][1] \in Step
<1> DEFINE p == plan[h]
<1>1. p \in Seq(Step) /\ p # <<>>
  OBVIOUS
<1> HIDE DEF p
<1>2. Len(p) \in Nat \ {0} /\ Head(p) = p[1] /\ p[1] \in Step
  BY <1>1, HeadTailProperties, EmptySeq, LenProperties, ElementOfSeq
<1>3. QED
  BY <1>2 DEF p, Next1, On

\* A plan has steps of a program.
LEMMA PlanSteps ==
  ASSUME plan \in [Host -> Seq(Step)], NEW h \in Host
  PROVE  /\ Len(plan[h]) \in Nat
         /\ \A n \in 1..Len(plan[h]) : plan[h][n] \in Step
         /\ plan[h] # <<>> <=> Len(plan[h]) # 0
<1>1. plan[h] \in Seq(Step)
  OBVIOUS
<1>2. QED
  BY <1>1, LenProperties, ElementOfSeq, EmptySeq

\* What a call does to the plan of its thread.
MadeSteps(h, b) ==
  \/ b = 0
  \/ /\ b = 1 /\ plan[h][1][1] = "collect"
     /\ \E q \in Seq(Stream) : plan'[h][1] = <<"each", q>> /\ \A n \in DOMAIN q : q[n] \in registry
  \/ /\ b = 5
     /\ \E q \in Seq(Stream) :
          /\ plan[h][1] = <<"each", q>> /\ q # <<>>
          /\ plan'[h][1] = <<"clear", h>> /\ plan'[h][2] = <<"push", q[1], <<"record", h>>>>
          /\ plan'[h][3] = <<"notify", q[1]>> /\ plan'[h][4] = <<"await", h>>
          /\ plan'[h][5] = <<"each", Tail(q)>>
Moves(h, b) == Reshaped(h, b) /\ MadeSteps(h, b) /\ plan[h] # <<>> /\ h \notin sleeping

\* Every call is one of these, but for the one that puts its thread to sleep.
LEMMA CallShape ==
  ASSUME ProgramAssumption, TypeOK, NEW h \in Host, Call(h)
  PROVE  (\E b \in Nat : Moves(h, b)) \/ (UNCHANGED plan /\ Await(h) /\ ~completed[On(h)])
<1>1. plan \in [Host -> Seq(Step)] /\ registry \subseteq Stream
  BY DEF TypeOK
<1>2. plan[h] # <<>> /\ h \notin sleeping
  BY DEF Call, Create, Push, Notify, Clear, Await, Collect, Each, Unregister, RaiseStop, Join, Does
<1>3. ASSUME Continue(h) PROVE Moves(h, 0)
  BY <1>1, <1>2, <1>3, AdvanceShape DEF Moves, MadeSteps
<1>4. CASE Create(h) \/ Push(h) \/ Notify(h) \/ Clear(h) \/ Unregister(h) \/ RaiseStop(h) \/ Join(h)
  BY <1>3, <1>4 DEF Create, Push, Notify, Clear, Unregister, RaiseStop, Join
<1>5. CASE Await(h)
  BY <1>3, <1>5 DEF Await
<1>6. CASE Collect(h)
  <2>1. plan[h][1][1] = "collect"
    BY <1>1, <1>2, <1>6, HeadFacts DEF Collect, Does
  <2>2. QED
    BY <1>1, <1>2, <1>6, <2>1, CollectShape DEF Moves, MadeSteps
<1>7. CASE Each(h)
  <2>1. CASE On(h) = <<>>
    BY <1>3, <1>7, <2>1 DEF Each, Continue
  <2>2. CASE On(h) # <<>>
    <3> DEFINE q == plan[h][1][2]
    <3>1. /\ Reshaped(h, 5) /\ plan[h][1] = <<"each", q>> /\ q \in Seq(Stream) /\ q # <<>>
          /\ plan'[h][1] = <<"clear", h>> /\ plan'[h][2] = <<"push", q[1], <<"record", h>>>>
          /\ plan'[h][3] = <<"notify", q[1]>> /\ plan'[h][4] = <<"await", h>>
          /\ plan'[h][5] = <<"each", Tail(q)>>
      BY <1>1, <1>2, <1>7, <2>2, EachShape
    <3> HIDE DEF q
    <3>2. MadeSteps(h, 5)
      BY <3>1 DEF MadeSteps
    <3>3. QED
      BY <1>2, <3>1, <3>2 DEF Moves
  <2>3. QED
    BY <2>1, <2>2
<1>8. QED
  BY <1>4, <1>5, <1>6, <1>7 DEF Call

\* The steps the code makes up touch streams of the registry, or of the list they come from.
LEMMA MadeFacts ==
  ASSUME plan \in [Host -> Seq(Step)], registry \subseteq Stream, NEW h \in Host, NEW b \in Nat,
         Moves(h, b), NEW n \in 1..b
  PROVE  /\ b \in {1, 5} /\ b <= Len(plan'[h])
         /\ Made(plan'[h][n], h)
         /\ \A s \in Stream : Uses(plan'[h][n], s) =>
              \/ plan[h][1][1] = "collect" /\ s \in registry
              \/ plan[h][1][1] = "each" /\ Uses(plan[h][1], s)
<1>1. b # 0 /\ Len(plan'[h]) = Len(plan[h]) + b - 1 /\ Len(plan[h]) \in Nat \ {0}
  BY DEF Moves, Reshaped
<1>2. CASE b = 1
  <2>1. n = 1 /\ plan[h][1][1] = "collect"
    BY <1>2 DEF Moves, MadeSteps
  <2>2. PICK q \in Seq(Stream) : plan'[h][1] = <<"each", q>> /\ \A i \in DOMAIN q : q[i] \in registry
    BY <1>2 DEF Moves, MadeSteps
  <2>3. Made(plan'[h][n], h)
    BY <2>1, <2>2 DEF Made
  <2>4. \A s \in Stream : Uses(plan'[h][n], s) => s \in registry
    BY <2>1, <2>2 DEF Uses, Manages
  <2>5. QED
    BY <1>1, <1>2, <2>1, <2>3, <2>4
<1>3. CASE b = 5
  <2>1. PICK q \in Seq(Stream) :
          /\ plan[h][1] = <<"each", q>> /\ q # <<>>
          /\ plan'[h][1] = <<"clear", h>> /\ plan'[h][2] = <<"push", q[1], <<"record", h>>>>
          /\ plan'[h][3] = <<"notify", q[1]>> /\ plan'[h][4] = <<"await", h>>
          /\ plan'[h][5] = <<"each", Tail(q)>>
    BY <1>3 DEF Moves, MadeSteps
  <2>2. /\ q[1] \in Stream /\ Tail(q) \in Seq(Stream) /\ 1 \in DOMAIN q
        /\ \A i \in DOMAIN Tail(q) : i + 1 \in DOMAIN q /\ Tail(q)[i] = q[i + 1]
    BY <2>1, HeadTailProperties, EmptySeq, LenProperties, ElementOfSeq
  <2>3. n \in {1, 2, 3, 4, 5}
    BY <1>3
  <2>4. Made(plan'[h][n], h)
    BY <2>1, <2>2, <2>3 DEF Made
  <2>5. ASSUME NEW s \in Stream, Uses(plan'[h][n], s) PROVE \E i \in DOMAIN q : q[i] = s
    <3>1. CASE n \in {1, 4}
      BY <2>1, <2>5, <3>1 DEF Uses, Manages
    <3>2. CASE n \in {2, 3}
      BY <2>1, <2>2, <2>5, <3>2 DEF Uses, Manages
    <3>3. CASE n = 5
      <4>1. plan'[h][n][1] = "each" /\ plan'[h][n][2] = Tail(q)
        BY <2>1, <3>3, SMTT(30)
      <4>2. \E i \in DOMAIN Tail(q) : Tail(q)[i] = s
        BY <2>5, <4>1 DEF Uses, Manages
      <4>3. QED
        BY <2>2, <4>2
    <3>4. QED
      BY <2>3, <3>1, <3>2, <3>3
  <2>6. plan[h][1][1] = "each" /\ \A s \in Stream : (\E i \in DOMAIN q : q[i] = s) => Uses(plan[h][1], s)
    BY <2>1 DEF Uses
  <2>7. QED
    BY <1>1, <1>3, <2>4, <2>5, <2>6
<1>4. QED
  BY <1>1, <1>2, <1>3 DEF Moves, MadeSteps

\* A step of a plan after a call was in the plan before, or the call has made it.
OldStep(h, b, k, n, m) ==
  /\ m \in 1..Len(plan[k]) /\ plan'[k][n] = plan[k][m]
  /\ IF k = h THEN m >= 2 /\ n > b /\ m = n + 1 - b ELSE m = n

\* Where a step of a plan comes from after a call.
LEMMA WhereFrom ==
  ASSUME plan \in [Host -> Seq(Step)], registry \subseteq Stream, NEW h \in Host, NEW b \in Nat,
         Moves(h, b), NEW k \in Host, NEW n \in 1..Len(plan'[k])
  PROVE  \/ k = h /\ n \in 1..b /\ Made(plan'[k][n], h)
         \/ \E m \in 1..Len(plan[k]) : OldStep(h, b, k, n, m)
<1>1. CASE k = h /\ n <= b
  <2>1. n \in 1..b
    BY <1>1
  <2>2. QED
    BY <1>1, <2>1, MadeFacts
<1>2. CASE k = h /\ n > b
  <2>1. n + 1 - b \in 2..Len(plan[h]) /\ plan'[h][n] = plan[h][n + 1 - b]
    BY <1>2 DEF Moves, Reshaped
  <2>2. OldStep(h, b, k, n, n + 1 - b)
    BY <1>2, <2>1 DEF OldStep
  <2>3. QED
    BY <1>2, <2>1, <2>2
<1>3. CASE k # h
  <2>1. plan'[k] = plan[k]
    BY <1>3 DEF Moves, Reshaped
  <2>2. OldStep(h, b, k, n, n)
    BY <1>3, <2>1 DEF OldStep
  <2>3. QED
    BY <2>1, <2>2
<1>4. n \in Int /\ b \in Int
  OBVIOUS
<1>5. QED
  BY <1>1, <1>2, <1>3, <1>4

\* And a step that was in the plan, but for the first, is still there.
LEMMA WhereTo ==
  ASSUME plan \in [Host -> Seq(Step)], NEW h \in Host, NEW b \in Nat,
         Moves(h, b), NEW m \in 2..Len(plan[h])
  PROVE  m + b - 1 \in 1..Len(plan'[h]) /\ plan'[h][m + b - 1] = plan[h][m]
<1>1. /\ Len(plan[h]) \in Nat \ {0} /\ Len(plan'[h]) = Len(plan[h]) + b - 1
      /\ \A n \in 1..Len(plan'[h]) : n > b =>
           n + 1 - b \in 2..Len(plan[h]) /\ plan'[h][n] = plan[h][n + 1 - b]
  BY DEF Moves, Reshaped
<1>2. m + b - 1 \in 1..Len(plan'[h]) /\ m + b - 1 > b /\ (m + b - 1) + 1 - b = m
  BY <1>1
<1>3. QED
  BY <1>1, <1>2

-------------------------------------------------------------------------------
(* Types *)

Creations ==
  /\ CreatesOnce(plan)
  /\ \A h \in Host : \A n \in 1..Len(plan[h]) :
       plan[h][n][1] = "create" => worker[plan[h][n][2]] = "none"
TypeInv == TypeOK /\ Creations

\* The made-up steps touch no event but that of their own thread.
LEMMA MadeKinds ==
  ASSUME NEW h \in Host, NEW st, Made(st, h)
  PROVE  /\ st[1] \in {"clear", "await", "push", "notify", "each"}
         /\ st[1] = "push" => \E s \in Stream : st = <<"push", s, <<"record", h>>>>
         /\ st[1] \in {"clear", "await"} => st = <<st[1], h>>
BY DEF Made

\* A stream that has no worker gets one from its creation only.
LEMMA NoneStays ==
  ASSUME ProgramAssumption, TypeOK, [Next]_vars, NEW s \in Stream, worker[s] = "none"
  PROVE  worker'[s] = "none" \/ \E h \in Host : Create(h) /\ On(h) = s
<1>1. worker \in [Stream -> WorkerState]
  BY DEF TypeOK
<1>2. CASE UNCHANGED worker
  BY <1>2
<1>3. ASSUME NEW h \in Host, Call(h) PROVE worker'[s] = "none" \/ (Create(h) /\ On(h) = s)
  <2>1. CASE Create(h)
    BY <1>1, <2>1 DEF Create
  <2>2. CASE Notify(h)
    BY <1>1, <2>2 DEF Notify
  <2>3. CASE Join(h)
    BY <1>1, <2>3 DEF Join
  <2>4. CASE Push(h) \/ Clear(h) \/ Await(h) \/ Collect(h) \/ Each(h) \/ Unregister(h) \/ RaiseStop(h)
    BY <2>4 DEF Push, Clear, Await, Collect, Each, Unregister, RaiseStop, threadVars
  <2>5. QED
    BY <1>3, <2>1, <2>2, <2>3, <2>4 DEF Call
<1>4. ASSUME NEW r \in Stream, Work(r) PROVE worker'[s] = "none"
  <2>1. CASE Tell(r)
    BY <1>1, <2>1 DEF Tell, Hears
  <2>2. CASE \E from, to \in WorkerState : from # "none" /\ Turn(r, from, to)
    BY <1>1, <2>2 DEF Turn
  <2>3. QED
    BY <1>4, <2>1, <2>2 DEF Work, Take, Leave, Doze, Sleep, RunJob, Signal, PassWait, Block, WorkerState
<1>5. CASE Spurious
  BY <1>1, <1>5 DEF Spurious, Turn
<1>6. QED
  BY <1>2, <1>3, <1>4, <1>5 DEF Next, Finished, vars, threadVars

\* At the start, a stream some thread is to create has no worker.
LEMMA CreationsInitial ==
  ASSUME ProgramAssumption, Init
  PROVE  Creations
<1>1. CreatesOnce(plan) /\ plan \in [Host -> Seq(Step)]
  BY DEF Init, ProgramAssumption
<1>2. ASSUME NEW h \in Host, NEW n \in 1..Len(plan[h]), plan[h][n][1] = "create"
      PROVE  worker[plan[h][n][2]] = "none"
  <2>1. plan[h][n] \in Step
    BY <1>1, PlanSteps
  <2>2. PICK s \in Stream : plan[h][n] = <<"create", s>>
    BY <1>2, <2>1, StepFacts DEF Managing
  <2>3. s \notin registry
    BY <2>2 DEF Init, Given
  <2>4. QED
    BY <2>2, <2>3 DEF Init
<1>3. QED
  BY <1>1, <1>2 DEF Creations

\* A stream is created once, and has no worker until then.
LEMMA CreationsStep ==
  ASSUME ProgramAssumption, TypeOK, Creations, [Next]_vars
  PROVE  Creations'
<1>0. plan \in [Host -> Seq(Step)] /\ registry \subseteq Stream
  BY DEF TypeOK
<1>1. CASE UNCHANGED plan
  <2>1. CreatesOnce(plan)'
    BY <1>1 DEF Creations, CreatesOnce
  <2>2. ASSUME NEW h \in Host, NEW n \in 1..Len(plan[h]), plan[h][n][1] = "create"
        PROVE  worker'[plan[h][n][2]] = "none"
    <3>1. plan[h][n] \in Step
      BY <1>0, PlanSteps
    <3>2. PICK s \in Stream : plan[h][n] = <<"create", s>>
      BY <2>2, <3>1, StepFacts DEF Managing
    <3>3. worker[s] = "none"
      BY <2>2, <3>2 DEF Creations
    <3>4. ASSUME NEW k \in Host, Create(k) PROVE FALSE
      <4>1. plan[k] # <<>> /\ Continue(k)
        BY <3>4 DEF Create, Does
      <4>2. Reshaped(k, 0)
        BY <1>0, <4>1, AdvanceShape
      <4>3. QED
        BY <1>1, <4>2 DEF Reshaped
    <3>5. QED
      BY <3>2, <3>3, <3>4, NoneStays
  <2>3. QED
    BY <1>1, <2>1, <2>2 DEF Creations
<1>2. ASSUME NEW h \in Host, Call(h), NEW b \in Nat, Moves(h, b)
      PROVE  Creations'
  <2>1. ASSUME NEW k \in Host, NEW n \in 1..Len(plan'[k]), plan'[k][n][1] = "create"
        PROVE  \E m \in 1..Len(plan[k]) : OldStep(h, b, k, n, m)
    BY <1>0, <1>2, <2>1, WhereFrom, MadeKinds
  <2>2. CreatesOnce(plan)'
    <3>1. SUFFICES ASSUME NEW i \in Host, NEW k \in Host,
                          NEW m \in 1..Len(plan'[i]), NEW n \in 1..Len(plan'[k]),
                          plan'[i][m][1] = "create", plan'[k][n] = plan'[i][m]
                   PROVE  i = k /\ m = n
      BY DEF CreatesOnce
    <3>2. PICK u \in 1..Len(plan[i]) : OldStep(h, b, i, m, u)
      BY <2>1, <3>1
    <3>3. PICK v \in 1..Len(plan[k]) : OldStep(h, b, k, n, v)
      BY <2>1, <3>1
    <3>4. i = k /\ u = v
      BY <3>1, <3>2, <3>3 DEF OldStep, Creations, CreatesOnce
    <3>5. QED
      BY <3>2, <3>3, <3>4 DEF OldStep
  <2>3. ASSUME NEW k \in Host, NEW n \in 1..Len(plan'[k]), plan'[k][n][1] = "create"
        PROVE  worker'[plan'[k][n][2]] = "none"
    <3>1. PICK m \in 1..Len(plan[k]) : OldStep(h, b, k, n, m)
      BY <2>1, <2>3
    <3>2. plan[k][m] \in Step /\ plan[k][m][1] = "create" /\ plan'[k][n] = plan[k][m]
      BY <1>0, <2>3, <3>1, PlanSteps DEF OldStep
    <3>3. PICK s \in Stream : plan[k][m] = <<"create", s>>
      BY <3>2, StepFacts DEF Managing
    <3>4. worker[s] = "none"
      BY <3>2, <3>3 DEF Creations
    <3>5. ASSUME NEW i \in Host, Create(i), On(i) = s PROVE FALSE
      <4>1. plan[i] # <<>> /\ plan[i] # <<>> /\ Continue(i) /\ Next1(i)[1] = "create"
        BY <3>5 DEF Create, Does
      <4>2. plan[i][1] = <<"create", s>> /\ 1 \in 1..Len(plan[i])
        BY <1>0, <3>5, <4>1, HeadFacts, StepFacts DEF Managing
      <4>3. i = k /\ m = 1
        BY <3>3, <4>2, SMTT(30) DEF Creations, CreatesOnce
      <4>4. Reshaped(i, 0)
        BY <1>0, <4>1, AdvanceShape
      <4>5. i = h
        BY <1>2, <4>4 DEF Moves, Reshaped
      <4>6. QED
        BY <3>1, <4>3, <4>5 DEF OldStep
    <3>6. QED
      BY <3>2, <3>3, <3>4, <3>5, NoneStays
  <2>4. QED
    BY <2>2, <2>3 DEF Creations
<1>3. ASSUME NEW h \in Host, Call(h) PROVE Creations'
  BY <1>1, <1>2, <1>3, CallShape
<1>4. CASE (\E s \in Stream : Work(s)) \/ Spurious
  BY <1>1, <1>4 DEF Work, Take, Leave, Doze, Sleep, RunJob, Signal, Tell, PassWait, Block,
    Spurious, hostVars
<1>5. QED
  BY <1>1, <1>3, <1>4 DEF Next, Finished, vars, hostVars

\* The start has the types.
LEMMA TypeInitial ==
  ASSUME ProgramAssumption, Init
  PROVE  TypeInv
<1>1. plan \in [Host -> Seq(Step)]
  BY DEF Init, ProgramAssumption
<1>2. registry \subseteq Stream
  BY DEF Init, Given
<1>3. worker \in [Stream -> WorkerState] /\ task \in [Stream -> Task \cup {None}]
  BY DEF Init, WorkerState
<1>4. \A s \in Stream : worker[s] \in {"busy", "blocked", "tell"} <=> task[s] # None
  BY DEF Init
<1>5. tasks \in [Stream -> Seq(Task)] /\ stop \in [Stream -> BOOLEAN]
  BY DEF Init
<1>6. completed \in [AnyEvent -> BOOLEAN] /\ ran \subseteq Job /\ sleeping \subseteq Host
  BY DEF Init
<1>7. /\ before \in [Stream -> SUBSET Job] /\ covers \in [AnyEvent -> SUBSET Job]
      /\ needs \in [Job -> SUBSET Job] /\ known \in [Host -> SUBSET Job]
  BY DEF Init
<1>8. QED
  BY <1>1, <1>2, <1>3, <1>4, <1>5, <1>6, <1>7, CreationsInitial DEF TypeInv, TypeOK

\* The worker of a stream has a task in its hands just when it is busy with one.
InHand == \A s \in Stream : worker[s] \in {"busy", "blocked", "tell"} <=> task[s] # None
HandType == worker \in [Stream -> WorkerState] /\ task \in [Stream -> Task \cup {None}]
LogTypes == /\ completed \in [AnyEvent -> BOOLEAN] /\ ran \subseteq Job
            /\ before \in [Stream -> SUBSET Job] /\ covers \in [AnyEvent -> SUBSET Job]
            /\ needs \in [Job -> SUBSET Job] /\ known \in [Host -> SUBSET Job]
QueueTypes == tasks \in [Stream -> Seq(Task)] /\ stop \in [Stream -> BOOLEAN]
HostTypes == plan \in [Host -> Seq(Step)] /\ sleeping \subseteq Host /\ registry \subseteq Stream

\* The types, in parts that a step touches one at a time.
LEMMA TypeParts == TypeOK <=> HostTypes /\ HandType /\ InHand /\ QueueTypes /\ LogTypes
BY DEF TypeOK, HostTypes, HandType, InHand, QueueTypes, LogTypes

\* Every call keeps the types.
LEMMA CallTypes ==
  ASSUME ProgramAssumption, TypeInv, NEW h \in Host, Call(h)
  PROVE  TypeOK'
<1>0. TypeOK /\ Creations /\ HostTypes /\ HandType /\ InHand /\ QueueTypes /\ LogTypes
  BY TypeParts DEF TypeInv
<1>1. plan' \in [Host -> Seq(Step)]
  BY <1>0, CallShape DEF Moves, Reshaped, TypeOK
<1>2. /\ plan[h] # <<>> /\ plan[h][1] \in Step /\ Next1(h) = plan[h][1] /\ On(h) = plan[h][1][2]
      /\ 1 \in 1..Len(plan[h])
  <2>1. plan[h] # <<>>
    BY DEF Call, Create, Push, Notify, Clear, Await, Collect, Each, Unregister, RaiseStop, Join, Does
  <2>2. QED
    BY <1>0, <2>1, HeadFacts DEF HostTypes
<1>3. CASE Create(h)
  <2>1. plan[h][1][1] = "create" /\ On(h) \in Stream /\ worker[On(h)] = "none"
    BY <1>0, <1>2, <1>3, StepFacts DEF Create, Does, Managing, Creations
  <2>2. HandType' /\ InHand'
    BY <1>0, <1>3, <2>1 DEF Create, HandType, InHand, WorkerState
  <2>3. HostTypes'
    BY <1>0, <1>1, <1>3, <2>1 DEF Create, HostTypes
  <2>4. QueueTypes' /\ LogTypes'
    BY <1>0, <1>3 DEF Create, QueueTypes, LogTypes, queueVars, historyVars
  <2>5. QED
    BY <2>2, <2>3, <2>4 DEF TypeOK, HostTypes, HandType, InHand, QueueTypes, LogTypes
<1>4. CASE Push(h)
  <2>1. plan[h][1][1] = "push" /\ On(h) \in Stream /\ Next1(h)[3] \in Task
    BY <1>2, <1>4, StepFacts DEF Push, Does
  <2> DEFINE t == Next1(h)[3]
             s == On(h)
  <2>2. HandType' /\ InHand'
    BY <1>0, <1>4 DEF Push, HandType, InHand, threadVars
  <2>3. HostTypes'
    BY <1>0, <1>1, <1>4 DEF Push, HostTypes
  <2>4. QueueTypes'
    BY <1>0, <1>4, <2>1 DEF Push, QueueTypes
  <2>5. LogTypes'
    <3>1. /\ t[1] \in {"run", "record", "wait"} /\ (t[1] = "run" => t[2] \in Job)
          /\ (t[1] \in {"record", "wait"} => t[2] \in AnyEvent)
      BY <2>1, TaskFacts
    <3>2. Note(s, t) /\ UNCHANGED <<completed, ran>>
      BY <1>4 DEF Push
    <3> HIDE DEF t, s
    <3>3. CASE t[1] = "run"
      BY <1>0, <2>1, <3>1, <3>2, <3>3 DEF Note, LogTypes, t, s
    <3>4. CASE t[1] = "record"
      BY <1>0, <2>1, <3>1, <3>2, <3>4 DEF Note, LogTypes, t, s
    <3>5. CASE t[1] = "wait"
      BY <1>0, <2>1, <3>1, <3>2, <3>5 DEF Note, LogTypes, t, s
    <3>6. QED
      BY <3>1, <3>3, <3>4, <3>5
  <2>6. QED
    BY <2>2, <2>3, <2>4, <2>5 DEF TypeOK, HostTypes, HandType, InHand, QueueTypes, LogTypes
<1>5. CASE Notify(h)
  <2>1. HandType' /\ InHand'
    BY <1>0, <1>5 DEF Notify, HandType, InHand, WorkerState
  <2>2. HostTypes' /\ QueueTypes' /\ LogTypes'
    BY <1>0, <1>1, <1>5 DEF Notify, HostTypes, QueueTypes, LogTypes, queueVars, historyVars
  <2>3. QED
    BY <2>1, <2>2 DEF TypeOK, HostTypes, HandType, InHand, QueueTypes, LogTypes
<1>6. CASE Clear(h)
  <2>1. HandType' /\ InHand' /\ HostTypes' /\ QueueTypes'
    BY <1>0, <1>1, <1>6 DEF Clear, HandType, InHand, HostTypes, QueueTypes, threadVars, queueVars
  <2>2. LogTypes'
    BY <1>0, <1>6 DEF Clear, LogTypes, historyVars
  <2>3. QED
    BY <2>1, <2>2 DEF TypeOK, HostTypes, HandType, InHand, QueueTypes, LogTypes
<1>7. CASE Await(h)
  <2>1. HandType' /\ InHand' /\ QueueTypes'
    BY <1>0, <1>7 DEF Await, HandType, InHand, QueueTypes, threadVars, queueVars
  <2>2. HostTypes'
    BY <1>0, <1>1, <1>7 DEF Await, HostTypes
  <2>3. LogTypes'
    <3>1. plan[h][1][1] = "await" /\ On(h) \in AnyEvent
      BY <1>2, <1>7, StepFacts DEF Await, Does
    <3>2. covers[On(h)] \subseteq Job
      BY <1>0, <3>1 DEF LogTypes
    <3>3. QED
      BY <1>0, <1>7, <3>2 DEF Await, LogTypes
  <2>4. QED
    BY <2>1, <2>2, <2>3 DEF TypeOK, HostTypes, HandType, InHand, QueueTypes, LogTypes
<1>8. CASE Collect(h) \/ Each(h)
  <2>1. HandType' /\ InHand' /\ HostTypes'
    BY <1>0, <1>1, <1>8 DEF Collect, Each, HandType, InHand, HostTypes, threadVars
  <2>2. QueueTypes' /\ LogTypes'
    BY <1>0, <1>8 DEF Collect, Each, QueueTypes, LogTypes, queueVars, historyVars
  <2>3. QED
    BY <2>1, <2>2 DEF TypeOK, HostTypes, HandType, InHand, QueueTypes, LogTypes
<1>9. CASE Unregister(h)
  <2>1. HandType' /\ InHand' /\ HostTypes'
    BY <1>0, <1>1, <1>9 DEF Unregister, Without, HandType, InHand, HostTypes, threadVars
  <2>2. QueueTypes' /\ LogTypes'
    BY <1>0, <1>9 DEF Unregister, QueueTypes, LogTypes, queueVars, historyVars
  <2>3. QED
    BY <2>1, <2>2 DEF TypeOK, HostTypes, HandType, InHand, QueueTypes, LogTypes
<1>10. CASE RaiseStop(h)
  <2>1. HandType' /\ InHand' /\ HostTypes'
    BY <1>0, <1>1, <1>10 DEF RaiseStop, HandType, InHand, HostTypes, threadVars
  <2>2. QueueTypes' /\ LogTypes'
    BY <1>0, <1>10 DEF RaiseStop, QueueTypes, LogTypes, historyVars
  <2>3. QED
    BY <2>1, <2>2 DEF TypeOK, HostTypes, HandType, InHand, QueueTypes, LogTypes
<1>11. CASE Join(h)
  <2>1. plan[h][1][1] = "join" /\ On(h) \in Stream /\ worker[On(h)] = "exited"
    BY <1>2, <1>11, StepFacts DEF Join, Does, Managing
  <2>2. HandType' /\ InHand'
    BY <1>0, <1>11, <2>1 DEF Join, HandType, InHand, WorkerState
  <2>3. HostTypes' /\ QueueTypes'
    BY <1>0, <1>1, <1>11 DEF Join, HostTypes, QueueTypes, queueVars
  <2>4. LogTypes'
    <3>1. before[On(h)] \subseteq Job
      BY <1>0, <2>1 DEF LogTypes
    <3>2. QED
      BY <1>0, <1>11, <3>1 DEF Join, LogTypes
  <2>5. QED
    BY <2>2, <2>3, <2>4 DEF TypeOK, HostTypes, HandType, InHand, QueueTypes, LogTypes
<1>12. QED
  BY <1>3, <1>4, <1>5, <1>6, <1>7, <1>8, <1>9, <1>10, <1>11 DEF Call

\* A worker whose task is of a kind holds a task of that kind.
LEMMA HasFacts ==
  ASSUME ProgramAssumption, TypeOK, NEW s \in Stream
  PROVE  /\ task[s] # None => task[s] \in Task
         /\ Has(s, "run") => task[s] = RunOf(task[s][2]) /\ task[s][2] \in Job
         /\ Has(s, "record") => task[s] = RecordOf(task[s][2]) /\ task[s][2] \in AnyEvent
         /\ Has(s, "wait") => task[s] = <<"wait", task[s][2]>> /\ task[s][2] \in AnyEvent
<1>1. task[s] # None => task[s] \in Task
  BY DEF TypeOK
<1>2. QED
  BY <1>1, TaskFacts DEF Has, RunOf, RecordOf

\* Every step of a worker keeps the types.
LEMMA WorkTypes ==
  ASSUME ProgramAssumption, TypeInv, NEW s \in Stream, Work(s)
  PROVE  TypeOK'
<1>0. TypeOK /\ HostTypes /\ HandType /\ InHand /\ QueueTypes /\ LogTypes
  BY TypeParts DEF TypeInv
<1>1. CASE Take(s)
  <2>1. PICK q \in Seq(Task) : q = tasks[s]
    BY <1>0 DEF QueueTypes
  <2>2. q # <<>> /\ Head(q) \in Task /\ Tail(q) \in Seq(Task)
    BY <1>1, <2>1, HeadTailProperties, EmptySeq, LenProperties, ElementOfSeq DEF Take
  <2>3. task' = [task EXCEPT ![s] = Head(q)] /\ tasks' = [tasks EXCEPT ![s] = Tail(q)]
    BY <1>1, <2>1 DEF Take
  <2>4. HandType'
    BY <1>0, <1>1, <2>2, <2>3 DEF Take, Turn, HandType, WorkerState
  <2>5. InHand'
    BY <1>0, <1>1, <2>2, <2>3 DEF Take, Turn, HandType, InHand, ProgramAssumption
  <2>6. QueueTypes'
    BY <1>0, <1>1, <2>2, <2>3 DEF Take, QueueTypes
  <2>7. HostTypes' /\ LogTypes'
    BY <1>0, <1>1 DEF Take, HostTypes, LogTypes, hostVars, historyVars
  <2>8. QED
    BY <2>4, <2>5, <2>6, <2>7 DEF TypeOK, HostTypes, HandType, InHand, QueueTypes, LogTypes
<1>2. CASE Leave(s) \/ Doze(s) \/ Sleep(s)
  <2>1. HandType' /\ InHand'
    BY <1>0, <1>2 DEF Leave, Doze, Sleep, Turn, HandType, InHand, WorkerState
  <2>2. HostTypes' /\ QueueTypes' /\ LogTypes'
    BY <1>0, <1>2 DEF Leave, Doze, Sleep, HostTypes, QueueTypes, LogTypes, hostVars, queueVars,
      historyVars
  <2>3. QED
    BY <2>1, <2>2 DEF TypeOK, HostTypes, HandType, InHand, QueueTypes, LogTypes
<1>3. CASE RunJob(s)
  <2>1. HandType' /\ InHand'
    BY <1>0, <1>3 DEF RunJob, Turn, Drop, HandType, InHand, WorkerState
  <2>2. task[s][2] \in Job
    BY <1>0, <1>3, HasFacts DEF RunJob
  <2>3. LogTypes'
    BY <1>0, <1>3, <2>2 DEF RunJob, LogTypes, historyVars
  <2>4. HostTypes' /\ QueueTypes'
    BY <1>0, <1>3 DEF RunJob, HostTypes, QueueTypes, hostVars, queueVars
  <2>5. QED
    BY <2>1, <2>3, <2>4 DEF TypeOK, HostTypes, HandType, InHand, QueueTypes, LogTypes
<1>4. CASE Signal(s)
  <2>1. HandType' /\ InHand'
    BY <1>0, <1>4 DEF Signal, Turn, HandType, InHand, WorkerState
  <2>2. LogTypes'
    BY <1>0, <1>4 DEF Signal, LogTypes, historyVars
  <2>3. HostTypes' /\ QueueTypes'
    BY <1>0, <1>4 DEF Signal, HostTypes, QueueTypes, hostVars, queueVars
  <2>4. QED
    BY <2>1, <2>2, <2>3 DEF TypeOK, HostTypes, HandType, InHand, QueueTypes, LogTypes
<1>5. CASE Tell(s)
  <2>1. HandType' /\ InHand'
    BY <1>0, <1>5 DEF Tell, Drop, Hears, HandType, InHand, WorkerState
  <2>2. HostTypes'
    BY <1>0, <1>5 DEF Tell, HostTypes
  <2>3. QueueTypes' /\ LogTypes'
    BY <1>0, <1>5 DEF Tell, QueueTypes, LogTypes, queueVars, historyVars
  <2>4. QED
    BY <2>1, <2>2, <2>3 DEF TypeOK, HostTypes, HandType, InHand, QueueTypes, LogTypes
<1>6. CASE PassWait(s) \/ Block(s)
  <2>1. HandType' /\ InHand'
    BY <1>0, <1>6 DEF PassWait, Block, Turn, Drop, HandType, InHand, WorkerState
  <2>2. HostTypes' /\ QueueTypes' /\ LogTypes'
    BY <1>0, <1>6 DEF PassWait, Block, HostTypes, QueueTypes, LogTypes, hostVars, queueVars,
      historyVars
  <2>3. QED
    BY <2>1, <2>2 DEF TypeOK, HostTypes, HandType, InHand, QueueTypes, LogTypes
<1>7. QED
  BY <1>1, <1>2, <1>3, <1>4, <1>5, <1>6 DEF Work

\* A wake-up without a notification keeps the types.
LEMMA SpuriousTypes ==
  ASSUME TypeInv, Spurious
  PROVE  TypeOK'
<1>0. TypeOK /\ HostTypes /\ HandType /\ InHand /\ QueueTypes /\ LogTypes
  BY TypeParts DEF TypeInv
<1>1. HandType' /\ InHand'
  BY <1>0 DEF Spurious, Turn, HandType, InHand, WorkerState
<1>2. HostTypes'
  BY <1>0 DEF Spurious, HostTypes
<1>3. QueueTypes' /\ LogTypes'
  BY <1>0 DEF Spurious, QueueTypes, LogTypes, queueVars, historyVars
<1>4. QED
  BY <1>1, <1>2, <1>3 DEF TypeOK, HostTypes, HandType, InHand, QueueTypes, LogTypes

\* Every variable keeps its type: a stream is created once, so that no worker is started
\* over one that has a task in its hands.
THEOREM TypesHold == Spec => []TypeInv
<1>1. Init => TypeInv
  BY StreamPrograms, TypeInitial
<1>2. TypeInv /\ [Next]_vars => TypeInv'
  <2> SUFFICES ASSUME TypeInv, [Next]_vars PROVE TypeInv'
    OBVIOUS
  <2>1. TypeOK /\ Creations /\ ProgramAssumption
    BY StreamPrograms DEF TypeInv
  <2>2. Creations'
    BY <2>1, CreationsStep
  <2>3. ASSUME UNCHANGED vars PROVE TypeOK'
    <3>1. HostTypes /\ HandType /\ InHand /\ QueueTypes /\ LogTypes
      BY <2>1, TypeParts
    <3>2. HostTypes' /\ HandType' /\ InHand'
      BY <2>3, <3>1 DEF HostTypes, HandType, InHand, vars, hostVars, threadVars
    <3>3. QueueTypes' /\ LogTypes'
      BY <2>3, <3>1 DEF QueueTypes, LogTypes, vars, queueVars, historyVars
    <3>4. QED
      BY <3>2, <3>3 DEF TypeOK, HostTypes, HandType, InHand, QueueTypes, LogTypes
  <2>4. TypeOK'
    <3>1. ASSUME NEW h \in Host, Call(h) PROVE TypeOK'
      BY <2>1, <3>1, CallTypes
    <3>2. ASSUME NEW s \in Stream, Work(s) PROVE TypeOK'
      BY <2>1, <3>2, WorkTypes
    <3>3. CASE Spurious
      BY <3>3, SpuriousTypes
    <3>4. QED
      BY <2>3, <3>1, <3>2, <3>3 DEF Next, Finished
  <2>5. QED
    BY <2>2, <2>4 DEF TypeInv
<1>3. QED
  BY <1>1, <1>2, PTL DEF Spec

-------------------------------------------------------------------------------
(* Wake-ups *)

Sleepers == \A h \in sleeping : plan[h] # <<>> /\ Next1(h)[1] = "await"
Dozers == \A s \in Stream : worker[s] = "doze" => tasks[s] = <<>>
NotifyDue(s) == \E h \in Host : plan[h] # <<>> /\ plan[h][1] = <<"notify", s>>
Heard == \A s \in Stream : worker[s] = "asleep" /\ tasks[s] # <<>> => NotifyDue(s)
WaitedFor(e) == \/ \E h \in sleeping : On(h) = e
                \/ \E s \in Stream : worker[s] = "blocked" /\ task[s][2] = e
Telling(e) == \E s \in Stream : worker[s] = "tell" /\ task[s] = <<"record", e>>
Roused == \A e \in AnyEvent : completed[e] /\ WaitedFor(e) => Telling(e)

WakeInv == NotifiesEveryTask(plan) /\ Sleepers /\ Dozers /\ Heard /\ Roused

\* Behind every task that is still to be pushed stays the notification of its worker.
LEMMA NotifiesStep ==
  ASSUME ProgramAssumption, TypeOK, NotifiesEveryTask(plan), NEW h \in Host, NEW b \in Nat, Moves(h, b)
  PROVE  NotifiesEveryTask(plan')
<1>0. plan \in [Host -> Seq(Step)] /\ registry \subseteq Stream
  BY DEF TypeOK
<1>1. SUFFICES ASSUME NEW k \in Host, NEW n \in 1..Len(plan'[k]), plan'[k][n][1] = "push"
               PROVE  n + 1 \in 1..Len(plan'[k]) /\ plan'[k][n + 1] = <<"notify", plan'[k][n][2]>>
  BY DEF NotifiesEveryTask
<1>2. CASE k = h /\ n \in 1..b
  <2>1. b = 5 /\ n = 2
    BY <1>1, <1>2 DEF Moves, MadeSteps
  <2>2. 5 <= Len(plan'[h])
    BY <1>0, <1>2, <2>1, MadeFacts
  <2>3. Len(plan'[h]) \in Nat /\ 3 \in 1..Len(plan'[h])
    BY <1>0, <2>1, <2>2, LenProperties DEF Moves, Reshaped
  <2>4. QED
    BY <1>2, <2>1, <2>3 DEF Moves, MadeSteps
<1>3. ASSUME NEW m \in 1..Len(plan[k]), OldStep(h, b, k, n, m)
      PROVE  n + 1 \in 1..Len(plan'[k]) /\ plan'[k][n + 1] = <<"notify", plan'[k][n][2]>>
  <2>1. m + 1 \in 1..Len(plan[k]) /\ plan[k][m + 1] = <<"notify", plan'[k][n][2]>>
    BY <1>1, <1>3 DEF OldStep, NotifiesEveryTask
  <2>2. CASE k = h
    <3>1. m >= 2 /\ m = n + 1 - b /\ m \in Int /\ n \in Int
      BY <1>3, <2>2 DEF OldStep
    <3>2. m + 1 \in 2..Len(plan[h]) /\ (m + 1) + b - 1 = n + 1
      BY <2>1, <2>2, <3>1
    <3>3. QED
      BY <1>0, <2>1, <2>2, <3>2, WhereTo
  <2>3. CASE k # h
    BY <1>3, <2>1, <2>3 DEF OldStep, Moves, Reshaped
  <2>4. QED
    BY <2>2, <2>3
<1>4. QED
  BY <1>0, <1>2, <1>3, WhereFrom DEF Made

\* A call that does not put its thread to sleep leaves the plans of the others alone.
LEMMA MovesFacts ==
  ASSUME ProgramAssumption, TypeOK, NEW h \in Host, NEW b \in Nat, Moves(h, b)
  PROVE  /\ plan[h] # <<>> /\ h \notin sleeping /\ plan[h][1] \in Step
         /\ Next1(h) = plan[h][1] /\ On(h) = plan[h][1][2] /\ 1 \in 1..Len(plan[h])
         /\ \A k \in Host : k # h => plan'[k] = plan[k] /\ On(k)' = On(k) /\ Next1(k)' = Next1(k)
<1>1. plan[h] # <<>> /\ h \notin sleeping /\ plan \in [Host -> Seq(Step)]
  BY DEF Moves, TypeOK
<1>2. \A k \in Host : k # h => plan'[k] = plan[k]
  BY DEF Moves, Reshaped
<1>3. QED
  BY <1>1, <1>2, HeadFacts DEF On, Next1

\* A thread that is asleep is waiting for an event.
LEMMA SleepersStep ==
  ASSUME ProgramAssumption, TypeOK, Sleepers, [Next]_vars
  PROVE  Sleepers'
<1>1. ASSUME NEW h \in Host, Call(h) PROVE Sleepers'
  <2>1. CASE \E b \in Nat : Moves(h, b)
    <3>1. PICK b \in Nat : Moves(h, b)
      BY <2>1
    <3>2. UNCHANGED sleeping \/ plan' = plan
      BY <1>1 DEF Call, Create, Push, Notify, Clear, Await, Collect, Each, Unregister, RaiseStop, Join
    <3>3. ~UNCHANGED plan
      BY <3>1 DEF Moves, Reshaped, MadeSteps
    <3>4. sleeping' = sleeping /\ sleeping \subseteq Host
      BY <3>2, <3>3 DEF TypeOK
    <3>5. ASSUME NEW k \in sleeping PROVE plan'[k] # <<>> /\ Next1(k)'[1] = "await"
      <4>1. k # h /\ k \in Host
        BY <3>1, <3>4 DEF Moves
      <4>2. QED
        BY <3>1, <4>1, MovesFacts DEF Sleepers
    <3>6. QED
      BY <3>4, <3>5 DEF Sleepers
  <2>2. CASE UNCHANGED plan /\ Await(h)
    <3>1. sleeping' \subseteq sleeping \cup {h}
      BY <2>2 DEF Await
    <3>2. plan[h] # <<>> /\ Next1(h)[1] = "await"
      BY <2>2 DEF Await, Does
    <3>3. QED
      BY <2>2, <3>1, <3>2 DEF Sleepers, Next1
  <2>3. QED
    BY <1>1, <2>1, <2>2, CallShape
<1>2. CASE UNCHANGED plan /\ sleeping' \subseteq sleeping
  BY <1>2 DEF Sleepers, Next1
<1>3. ASSUME NEW s \in Stream, Work(s) PROVE UNCHANGED plan /\ sleeping' \subseteq sleeping
  BY <1>3 DEF Work, Take, Leave, Doze, Sleep, RunJob, Signal, Tell, PassWait, Block, hostVars
<1>4. CASE Spurious
  BY <1>2, <1>4 DEF Spurious
<1>5. QED
  BY <1>1, <1>2, <1>3, <1>4 DEF Next, Finished, vars, hostVars

\* A worker that dozes off holds the mutex: no task is added in the meantime.
LEMMA DozersStep ==
  ASSUME ProgramAssumption, TypeOK, Dozers, [Next]_vars
  PROVE  Dozers'
<1>0. worker \in [Stream -> WorkerState] /\ tasks \in [Stream -> Seq(Task)]
  BY DEF TypeOK
<1>1. ASSUME NEW h \in Host, Call(h) PROVE Dozers'
  <2>1. CASE Create(h)
    BY <1>0, <2>1 DEF Create, Dozers, queueVars
  <2>2. CASE Push(h)
    BY <1>0, <2>2 DEF Push, Dozers, Free, threadVars
  <2>3. CASE Notify(h)
    BY <1>0, <2>3 DEF Notify, Dozers, queueVars
  <2>4. CASE Join(h)
    BY <1>0, <2>4 DEF Join, Dozers, queueVars
  <2>5. CASE Clear(h) \/ Await(h) \/ Collect(h) \/ Each(h) \/ Unregister(h) \/ RaiseStop(h)
    BY <2>5 DEF Clear, Await, Collect, Each, Unregister, RaiseStop, Dozers, threadVars, queueVars
  <2>6. QED
    BY <1>1, <2>1, <2>2, <2>3, <2>4, <2>5 DEF Call
<1>2. ASSUME NEW s \in Stream, Work(s) PROVE Dozers'
  <2>1. CASE Tell(s)
    BY <1>0, <2>1 DEF Tell, Hears, Dozers, queueVars
  <2>2. CASE Take(s)
    BY <1>0, <2>2 DEF Take, Turn, Dozers
  <2>3. CASE Doze(s)
    BY <1>0, <2>3 DEF Doze, Turn, Dozers, queueVars
  <2>4. CASE Leave(s) \/ Sleep(s) \/ RunJob(s) \/ Signal(s) \/ PassWait(s) \/ Block(s)
    BY <1>0, <2>4 DEF Leave, Sleep, RunJob, Signal, PassWait, Block, Turn, Dozers, queueVars
  <2>5. QED
    BY <1>2, <2>1, <2>2, <2>3, <2>4 DEF Work
<1>3. CASE Spurious
  BY <1>0, <1>3 DEF Spurious, Turn, Dozers, queueVars
<1>4. QED
  BY <1>1, <1>2, <1>3 DEF Next, Finished, vars, threadVars, queueVars, Dozers

\* The notification that is due stays due until it is given.
LEMMA DueStays ==
  ASSUME ProgramAssumption, TypeOK, [Next]_vars, NEW s \in Stream, NotifyDue(s)
  PROVE  NotifyDue(s)' \/ \E h \in Host : Notify(h) /\ On(h) = s
<1>1. PICK k \in Host : plan[k] # <<>> /\ plan[k][1] = <<"notify", s>>
  BY DEF NotifyDue
<1>2. ASSUME UNCHANGED plan PROVE NotifyDue(s)'
  BY <1>1, <1>2 DEF NotifyDue
<1>3. ASSUME NEW h \in Host, Call(h), NEW b \in Nat, Moves(h, b)
      PROVE  NotifyDue(s)' \/ (Notify(h) /\ On(h) = s)
  <2>1. CASE h = k
    <3>1. Next1(h)[1] = "notify" /\ On(h) = s
      BY <1>1, <1>3, <2>1, MovesFacts
    <3>2. Notify(h)
      BY <1>3, <3>1 DEF Call, Create, Push, Clear, Await, Collect, Each, Unregister, RaiseStop, Join, Does
    <3>3. QED
      BY <3>1, <3>2
  <2>2. CASE h # k
    BY <1>1, <1>3, <2>2, MovesFacts DEF NotifyDue
  <2>3. QED
    BY <2>1, <2>2
<1>4. CASE (\E r \in Stream : Work(r)) \/ Spurious
  BY <1>2, <1>4 DEF Work, Take, Leave, Doze, Sleep, RunJob, Signal, Tell, PassWait, Block,
    Spurious, hostVars
<1>5. ASSUME NEW h \in Host, Call(h) PROVE NotifyDue(s)' \/ (Notify(h) /\ On(h) = s)
  BY <1>2, <1>3, <1>5, CallShape
<1>6. QED
  BY <1>2, <1>4, <1>5 DEF Next, Finished, vars, hostVars

\* A worker that sleeps on a task has its notification still to come.
LEMMA HeardStep ==
  ASSUME ProgramAssumption, TypeOK, NotifiesEveryTask(plan), Dozers, Heard, [Next]_vars
  PROVE  Heard'
<1>0. worker \in [Stream -> WorkerState] /\ tasks \in [Stream -> Seq(Task)]
  BY DEF TypeOK
<1>1. ASSUME NEW s \in Stream, worker'[s] = "asleep", tasks'[s] # <<>>,
             worker[s] = "asleep", tasks[s] # <<>>
      PROVE  NotifyDue(s)'
  <2>1. NotifyDue(s)
    BY <1>1 DEF Heard
  <2>2. ASSUME NEW h \in Host, Notify(h), On(h) = s PROVE FALSE
    BY <1>0, <1>1, <2>2 DEF Notify
  <2>3. QED
    BY <2>1, <2>2, DueStays
<1>2. ASSUME NEW h \in Host, Push(h) PROVE \A s \in Stream : tasks'[s] # tasks[s] => NotifyDue(s)'
  <2>1. PICK b \in Nat : Moves(h, b)
    BY <1>2, CallShape DEF Call, Push, Await, Does
  <2>2. /\ plan[h] # <<>> /\ 1 \in 1..Len(plan[h]) /\ plan[h][1][1] = "push" /\ On(h) = plan[h][1][2]
        /\ plan[h][1] \in Step
    BY <1>2, <2>1, MovesFacts DEF Push, Does
  <2>3. b = 0 /\ plan'[h] \in Seq(Step)
    BY <2>1, <2>2 DEF Moves, MadeSteps, Reshaped
  <2>4. 2 \in 2..Len(plan[h]) /\ plan[h][2] = <<"notify", On(h)>>
    <3>1. 1 + 1 \in 1..Len(plan[h]) /\ plan[h][1 + 1] = <<"notify", plan[h][1][2]>>
      BY <2>2 DEF NotifiesEveryTask
    <3>2. QED
      BY <2>2, <3>1
  <2>5. plan \in [Host -> Seq(Step)]
    BY DEF TypeOK
  <2>6. 2 + b - 1 \in 1..Len(plan'[h]) /\ plan'[h][2 + b - 1] = plan[h][2]
    BY <2>1, <2>4, <2>5, WhereTo
  <2>7. plan'[h] # <<>> /\ plan'[h][1] = <<"notify", On(h)>>
    BY <2>3, <2>4, <2>6, EmptySeq
  <2>8. PICK s \in Stream : s = On(h)
    BY <2>2, StepFacts
  <2>9. NotifyDue(s)'
    BY <2>7, <2>8 DEF NotifyDue
  <2>10. ASSUME NEW r \in Stream, tasks'[r] # tasks[r] PROVE r = s
    BY <1>0, <1>2, <2>8, <2>10 DEF Push
  <2>11. QED
    BY <2>9, <2>10
<1>3. ASSUME NEW s \in Stream, worker'[s] = "asleep", tasks'[s] # <<>>
      PROVE  NotifyDue(s)'
  <2>1. ASSUME NEW h \in Host, Call(h) PROVE worker[s] = "asleep" /\ (tasks'[s] = tasks[s] \/ Push(h))
    <3>1. CASE Create(h)
      BY <1>0, <1>3, <3>1 DEF Create, queueVars
    <3>2. CASE Notify(h)
      BY <1>0, <1>3, <3>2 DEF Notify, queueVars
    <3>3. CASE Join(h)
      BY <1>0, <1>3, <3>3 DEF Join, queueVars
    <3>4. CASE Clear(h) \/ Await(h) \/ Collect(h) \/ Each(h) \/ Unregister(h) \/ RaiseStop(h) \/ Push(h)
      BY <1>3, <3>4 DEF Clear, Await, Collect, Each, Unregister, RaiseStop, Push, threadVars, queueVars
    <3>5. QED
      BY <2>1, <3>1, <3>2, <3>3, <3>4 DEF Call
  <2>2. ASSUME NEW r \in Stream, Work(r) PROVE worker[s] = "asleep" /\ tasks'[s] = tasks[s]
    <3>1. CASE Tell(r)
      BY <1>0, <1>3, <3>1 DEF Tell, Hears, queueVars
    <3>2. CASE Take(r)
      BY <1>0, <1>3, <3>2 DEF Take, Turn
    <3>3. CASE Sleep(r)
      <4>1. r # s
        BY <1>0, <1>3, <3>3 DEF Sleep, Turn, Dozers, queueVars
      <4>2. QED
        BY <1>0, <1>3, <3>3, <4>1 DEF Sleep, Turn, queueVars
    <3>4. CASE Leave(r) \/ Doze(r) \/ RunJob(r) \/ Signal(r) \/ PassWait(r) \/ Block(r)
      BY <1>0, <1>3, <3>4 DEF Leave, Doze, RunJob, Signal, PassWait, Block, Turn, queueVars
    <3>5. QED
      BY <2>2, <3>1, <3>2, <3>3, <3>4 DEF Work
  <2>3. CASE Spurious
    BY <1>0, <1>1, <1>3, <2>3 DEF Spurious, Turn, queueVars
  <2>4. CASE UNCHANGED vars
    BY <1>1, <1>3, <2>4 DEF vars, threadVars, queueVars
  <2>5. QED
    BY <1>1, <1>2, <1>3, <2>1, <2>2, <2>3, <2>4 DEF Next, Finished
<1>4. QED
  BY <1>3 DEF Heard

\* Who waits for an event that has happened is about to be told.
LEMMA RousedStep ==
  ASSUME ProgramAssumption, TypeInv, Sleepers, Roused, [Next]_vars
  PROVE  Roused'
<1>0. /\ worker \in [Stream -> WorkerState] /\ task \in [Stream -> Task \cup {None}]
      /\ completed \in [AnyEvent -> BOOLEAN] /\ TypeOK /\ Creations /\ sleeping \subseteq Host
  BY DEF TypeInv, TypeOK
<1>1. SUFFICES ASSUME NEW e \in AnyEvent, completed'[e], WaitedFor(e)' PROVE Telling(e)'
  BY DEF Roused
<1>2. ASSUME NEW h \in Host, Call(h) PROVE Telling(e)'
  <2>1. task' = task
    BY <1>2 DEF Call, Create, Push, Notify, Clear, Await, Collect, Each, Unregister, RaiseStop, Join,
      threadVars
  <2>2. \A s \in Stream : worker[s] \in {"tell", "blocked"} \/ worker'[s] \in {"tell", "blocked"} =>
          worker'[s] = worker[s]
    <3>1. CASE Create(h)
      <4>1. PICK b \in Nat : Moves(h, b)
        BY <1>0, <1>2, <3>1, CallShape DEF Create, Await, Does
      <4>2. plan[h][1][1] = "create" /\ 1 \in 1..Len(plan[h]) /\ On(h) = plan[h][1][2]
        BY <1>0, <3>1, <4>1, MovesFacts DEF Create, Does
      <4>3. worker[On(h)] = "none"
        BY <1>0, <4>2 DEF Creations
      <4>4. QED
        BY <1>0, <3>1, <4>3 DEF Create
    <3>2. CASE Notify(h)
      BY <1>0, <3>2 DEF Notify
    <3>3. CASE Join(h)
      BY <1>0, <3>3 DEF Join
    <3>4. CASE Clear(h) \/ Await(h) \/ Collect(h) \/ Each(h) \/ Unregister(h) \/ RaiseStop(h) \/ Push(h)
      BY <3>4 DEF Clear, Await, Collect, Each, Unregister, RaiseStop, Push, threadVars
    <3>5. QED
      BY <1>2, <3>1, <3>2, <3>3, <3>4 DEF Call
  <2>3. Telling(e) => Telling(e)'
    BY <2>1, <2>2 DEF Telling
  <2>4. completed[e]
    BY <1>0, <1>1, <1>2 DEF Call, Create, Push, Notify, Clear, Await, Collect, Each, Unregister,
      RaiseStop, Join
  <2>5. WaitedFor(e)
    <3>1. CASE \E s \in Stream : worker'[s] = "blocked" /\ task'[s][2] = e
      BY <2>1, <2>2, <3>1 DEF WaitedFor
    <3>2. CASE \E k \in sleeping' : On(k)' = e
      <4>1. PICK k \in sleeping' : On(k)' = e
        BY <3>2
      <4>2. CASE \E b \in Nat : Moves(h, b)
        <5>1. PICK b \in Nat : Moves(h, b)
          BY <4>2
        <5>2. ~UNCHANGED plan
          BY <5>1 DEF Moves, Reshaped, MadeSteps
        <5>3. sleeping' = sleeping
          BY <1>2, <5>2 DEF Call, Create, Push, Notify, Clear, Await, Collect, Each, Unregister,
            RaiseStop, Join
        <5>4. k # h /\ k \in Host
          BY <1>0, <4>1, <5>1, <5>3 DEF Moves
        <5>5. On(k) = e
          BY <1>0, <4>1, <5>1, <5>4, MovesFacts
        <5>6. QED
          BY <4>1, <5>3, <5>5 DEF WaitedFor
      <4>3. CASE UNCHANGED plan /\ Await(h) /\ ~completed[On(h)]
        <5>1. On(k) = e
          BY <4>1, <4>3 DEF On, Next1
        <5>2. k # h
          BY <2>4, <4>3, <5>1
        <5>3. k \in sleeping
          BY <4>1, <4>3, <5>2 DEF Await
        <5>4. QED
          BY <5>1, <5>3 DEF WaitedFor
      <4>4. QED
        BY <1>0, <1>2, <4>2, <4>3, CallShape
    <3>3. QED
      BY <1>1, <3>1, <3>2 DEF WaitedFor
  <2>6. QED
    BY <2>3, <2>4, <2>5 DEF Roused
<1>3. ASSUME UNCHANGED <<plan, completed>>, sleeping' \subseteq sleeping,
             \A s \in Stream : worker'[s] = "blocked" /\ task'[s][2] = e =>
                                 worker[s] = "blocked" /\ task[s][2] = e,
             \A s \in Stream : worker[s] = "tell" => worker'[s] = "tell" /\ task'[s] = task[s]
      PROVE  Telling(e)'
  <2>1. WaitedFor(e)
    BY <1>1, <1>3 DEF WaitedFor, On, Next1
  <2>2. Telling(e)
    BY <1>1, <1>3, <2>1 DEF Roused
  <2>3. QED
    BY <1>3, <2>2 DEF Telling
<1>4. ASSUME NEW s \in Stream, Work(s) PROVE Telling(e)'
  <2>1. CASE Take(s) \/ Leave(s) \/ Doze(s) \/ Sleep(s)
    BY <1>0, <1>3, <2>1 DEF Take, Leave, Doze, Sleep, Turn, hostVars
  <2>2. CASE RunJob(s) \/ PassWait(s)
    BY <1>0, <1>3, <2>2 DEF RunJob, PassWait, Turn, Drop, hostVars
  <2>3. CASE Block(s)
    <3>1. task[s][2] # e
      BY <1>1, <2>3 DEF Block
    <3>2. QED
      BY <1>0, <1>3, <2>3, <3>1 DEF Block, Turn, hostVars
  <2>4. CASE Signal(s)
    <3>1. worker'[s] = "tell" /\ task' = task /\ task[s] = <<"record", task[s][2]>>
      BY <1>0, <2>4, HasFacts DEF Signal, Turn, RecordOf
    <3>2. CASE task[s][2] = e
      BY <3>1, <3>2 DEF Telling
    <3>3. CASE task[s][2] # e
      <4>1. completed[e]
        BY <1>0, <1>1, <2>4, <3>3 DEF Signal
      <4>2. WaitedFor(e)
        BY <1>0, <1>1, <2>4 DEF Signal, Turn, WaitedFor, hostVars, On, Next1
      <4>3. Telling(e)
        BY <4>1, <4>2 DEF Roused
      <4>4. QED
        BY <1>0, <2>4, <4>3 DEF Signal, Turn, Telling
    <3>4. QED
      BY <3>2, <3>3
  <2>5. CASE Tell(s)
    <3>1. CASE task[s][2] = e
      <4>1. \A k \in sleeping' : On(k)' # e
        BY <2>5, <3>1 DEF Tell, On, Next1
      <4>2. \A r \in Stream : ~(worker'[r] = "blocked" /\ task'[r][2] = e)
        BY <1>0, <2>5, <3>1 DEF Tell, Drop, Hears
      <4>3. QED
        BY <1>1, <4>1, <4>2 DEF WaitedFor
    <3>2. CASE task[s][2] # e
      <4>1. completed[e] /\ WaitedFor(e)
        <5>1. sleeping' \subseteq sleeping /\ UNCHANGED <<plan, completed>>
          BY <2>5 DEF Tell
        <5>2. \A r \in Stream : worker'[r] = "blocked" /\ task'[r][2] = e =>
                worker[r] = "blocked" /\ task[r][2] = e
          BY <1>0, <2>5 DEF Tell, Drop
        <5>3. QED
          BY <1>1, <5>1, <5>2 DEF WaitedFor, On, Next1
      <4>2. PICK r \in Stream : worker[r] = "tell" /\ task[r] = <<"record", e>>
        BY <4>1 DEF Roused, Telling
      <4>3. r # s
        BY <3>2, <4>2
      <4>4. worker'[r] = "tell" /\ task'[r] = task[r]
        BY <1>0, <2>5, <4>2, <4>3 DEF Tell, Drop, Hears
      <4>5. QED
        BY <4>2, <4>4 DEF Telling
    <3>3. QED
      BY <3>1, <3>2
  <2>6. QED
    BY <1>4, <2>1, <2>2, <2>3, <2>4, <2>5 DEF Work
<1>5. CASE Spurious
  BY <1>0, <1>3, <1>5 DEF Spurious, Turn
<1>6. CASE UNCHANGED vars
  BY <1>3, <1>6 DEF vars, hostVars, threadVars
<1>7. QED
  BY <1>2, <1>4, <1>5, <1>6 DEF Next, Finished

\* Every step keeps the promise that a sleeping thread will be woken.
LEMMA WakeStep ==
  ASSUME ProgramAssumption, TypeInv, WakeInv, [Next]_vars
  PROVE  WakeInv'
<1>1. TypeOK
  BY DEF TypeInv
<1>2. NotifiesEveryTask(plan)'
  <2>1. CASE \E h \in Host : Call(h)
    BY <1>1, <2>1, NotifiesStep, CallShape DEF WakeInv
  <2>2. CASE UNCHANGED plan
    BY <2>2 DEF WakeInv, NotifiesEveryTask
  <2>3. QED
    BY <2>1, <2>2 DEF Next, Work, Take, Leave, Doze, Sleep, RunJob, Signal, Tell, PassWait, Block,
      Spurious, Finished, vars, hostVars
<1>3. QED
  BY <1>1, <1>2, SleepersStep, DozersStep, HeardStep, RousedStep DEF WakeInv

\* The inductive invariant behind NoLostWakeup: a task that is pushed is followed by its
\* notification, a worker that is about to sleep holds the mutex and has an empty queue, and a
\* thread only sleeps on an event that has not happened yet.
THEOREM WakeCorrect == Spec => [](TypeInv /\ WakeInv)
<1>1. Init => WakeInv
  <2> SUFFICES ASSUME Init PROVE WakeInv
    OBVIOUS
  <2>1. NotifiesEveryTask(plan)
    BY StreamPrograms DEF Init, ProgramAssumption
  <2>2. Sleepers /\ Dozers /\ Heard
    BY DEF Init, Sleepers, Dozers, Heard
  <2>3. Roused
    BY DEF Init, Roused, WaitedFor
  <2>4. QED
    BY <2>1, <2>2, <2>3 DEF WakeInv
<1>2. TypeInv /\ WakeInv /\ [Next]_vars => WakeInv'
  BY StreamPrograms, WakeStep
<1>3. QED
  BY <1>1, <1>2, TypesHold, PTL DEF Spec

\* While a worker sleeps with a task in its queue, or a thread or worker waits for an event
\* that has happened, the call that wakes it is still to come (addTaskToStream, record_task):
\* for every set of programs, with threads that may also wake without a notification.
THEOREM NoLostWakeupHolds == Spec => []NoLostWakeup
<1>1. TypeInv /\ WakeInv => NoLostWakeup
  <2> SUFFICES ASSUME TypeInv, WakeInv PROVE NoLostWakeup
    OBVIOUS
  <2>1. ASSUME NEW s \in Stream, worker[s] = "asleep" /\ tasks[s] # <<>>
        PROVE  \E h \in Host : Does(h, "notify") /\ On(h) = s
    <3>1. PICK h \in Host : plan[h] # <<>> /\ plan[h][1] = <<"notify", s>>
      BY <2>1 DEF WakeInv, Heard, NotifyDue
    <3>2. Next1(h) = <<"notify", s>> /\ On(h) = s
      <4>1. plan \in [Host -> Seq(Step)]
        BY DEF TypeInv, TypeOK
      <4>2. Next1(h) = plan[h][1] /\ On(h) = plan[h][1][2]
        BY <3>1, <4>1, HeadFacts
      <4>3. QED
        BY <3>1, <4>2
    <3>3. h \notin sleeping
      BY <3>2 DEF WakeInv, Sleepers
    <3>4. QED
      BY <3>1, <3>2, <3>3 DEF Does
  <2>2. ASSUME NEW e \in AnyEvent,
               completed[e] /\ (\/ \E h \in sleeping : On(h) = e
                                \/ \E s \in Stream : worker[s] = "blocked" /\ task[s][2] = e)
        PROVE  \E s \in Stream : worker[s] = "tell" /\ task[s] = <<"record", e>>
    BY <2>2 DEF WakeInv, Roused, WaitedFor, Telling
  <2>3. QED
    BY <2>1, <2>2 DEF NoLostWakeup
<1>2. QED
  BY <1>1, WakeCorrect, PTL

-------------------------------------------------------------------------------
(* The life of a stream *)

\* What a call does to the streams: a creation, a notification, a join, a stop, a task.
LEMMA CallEffects ==
  ASSUME ProgramAssumption, TypeInv, NEW h \in Host, Call(h), NEW b \in Nat, Moves(h, b), NEW s \in Stream
  PROVE  LET st == plan[h][1] IN
         /\ registry' \subseteq Stream
         /\ s \in registry' /\ s \notin registry => st = <<"create", s>>
         /\ st = <<"unregister", s>> => s \notin registry'
         /\ \/ worker'[s] = worker[s]
            \/ st = <<"create", s>> /\ worker[s] = "none" /\ worker'[s] = "test"
            \/ worker[s] = "asleep" /\ worker'[s] = "test"
            \/ st = <<"join", s>> /\ worker[s] = "exited" /\ worker'[s] = "gone"
         /\ st = <<"create", s>> => worker'[s] = "test"
         /\ stop'[s] = stop[s] \/ (st = <<"stop", s>> /\ Live(s) /\ stop'[s])
         /\ tasks'[s] = tasks[s] \/ (st[1] = "push" /\ st[2] = s /\ Live(s))
<1>0. /\ worker \in [Stream -> WorkerState] /\ tasks \in [Stream -> Seq(Task)]
      /\ stop \in [Stream -> BOOLEAN] /\ registry \subseteq Stream /\ TypeOK /\ Creations
  BY DEF TypeInv, TypeOK
<1>1. /\ plan[h] # <<>> /\ plan[h][1] \in Step /\ Next1(h) = plan[h][1] /\ On(h) = plan[h][1][2]
      /\ 1 \in 1..Len(plan[h])
  BY <1>0, MovesFacts
<1> DEFINE st == plan[h][1]
<1>2. PICK w : st[1] = w
  OBVIOUS
<1>3. CASE Create(h)
  <2>1. st = <<"create", On(h)>> /\ On(h) \in Stream
    BY <1>1, <1>3, StepFacts DEF Create, Does, Managing
  <2>2. plan[h][1][1] = "create" /\ plan[h][1][2] = On(h)
    BY <2>1
  <2>3. worker[On(h)] = "none"
    BY <1>0, <1>1, <2>2 DEF Creations
  <2>4. QED
    BY <1>0, <1>3, <2>1, <2>3 DEF Create, queueVars
<1>4. CASE Push(h)
  <2>1. st[1] = "push" /\ On(h) = st[2] /\ Live(On(h))
    BY <1>1, <1>4 DEF Push, Does, Free
  <2>2. QED
    BY <1>0, <1>4, <2>1 DEF Push, threadVars
<1>5. CASE Notify(h)
  <2>1. st[1] = "notify"
    BY <1>1, <1>5 DEF Notify, Does
  <2>2. QED
    BY <1>0, <1>5, <2>1 DEF Notify, queueVars
<1>6. CASE Clear(h) \/ Await(h) \/ Collect(h) \/ Each(h)
  <2>1. st[1] \in {"clear", "await", "collect", "each"}
    BY <1>1, <1>6 DEF Clear, Await, Collect, Each, Does
  <2>2. UNCHANGED <<registry, worker, stop, tasks>>
    BY <1>6 DEF Clear, Await, Collect, Each, threadVars, queueVars
  <2>3. st # <<"create", s>> /\ st # <<"unregister", s>>
    BY <2>1
  <2>4. QED
    BY <1>0, <2>2, <2>3
<1>7. CASE Unregister(h)
  <2>1. st = <<"unregister", On(h)>>
    BY <1>1, <1>7, StepFacts DEF Unregister, Does, Managing
  <2>2. registry' = registry \ {On(h)}
    BY <1>7 DEF Unregister, Without
  <2>3. QED
    BY <1>0, <1>7, <2>1, <2>2 DEF Unregister, threadVars, queueVars
<1>8. CASE RaiseStop(h)
  <2>1. st = <<"stop", On(h)>> /\ Live(On(h))
    BY <1>1, <1>8, StepFacts DEF RaiseStop, Does, Managing
  <2>2. UNCHANGED <<registry, worker, tasks>> /\ stop' = [stop EXCEPT ![On(h)] = TRUE]
    BY <1>8 DEF RaiseStop, threadVars
  <2>3. st # <<"create", s>> /\ st # <<"unregister", s>>
    BY <2>1
  <2>4. CASE s = On(h)
    BY <1>0, <2>1, <2>2, <2>3, <2>4
  <2>5. CASE s # On(h)
    BY <1>0, <2>2, <2>3, <2>5
  <2>6. QED
    BY <2>4, <2>5
<1>9. CASE Join(h)
  <2>1. st = <<"join", On(h)>> /\ worker[On(h)] = "exited"
    BY <1>1, <1>9, StepFacts DEF Join, Does, Managing
  <2>2. QED
    BY <1>0, <1>9, <2>1 DEF Join, queueVars
<1>10. QED
  BY <1>3, <1>4, <1>5, <1>6, <1>7, <1>8, <1>9 DEF Call

\* What the workers, and a wake-up for no reason, do to the streams.
LEMMA WorkEffects ==
  ASSUME TypeOK, (\E r \in Stream : Work(r)) \/ Spurious, NEW s \in Stream
  PROVE  /\ UNCHANGED <<plan, registry, stop>>
         /\ worker[s] \in {"none", "gone"} \/ worker'[s] \in {"none", "gone"} => worker'[s] = worker[s]
         /\ worker'[s] = "exited" => worker[s] = "exited" \/ (stop[s] /\ tasks[s] = <<>>)
         /\ worker[s] # "test" => tasks'[s] = tasks[s]
         /\ tasks[s] = <<>> => tasks'[s] = <<>>
<1>0. worker \in [Stream -> WorkerState] /\ tasks \in [Stream -> Seq(Task)]
  BY DEF TypeOK
<1>1. CASE Spurious
  BY <1>0, <1>1 DEF Spurious, Turn, queueVars
<1>2. ASSUME NEW r \in Stream, Take(r)
      PROVE  /\ UNCHANGED <<plan, registry, stop>>
             /\ worker[s] \in {"none", "gone"} \/ worker'[s] \in {"none", "gone"} => worker'[s] = worker[s]
             /\ worker'[s] = "exited" => worker[s] = "exited" \/ (stop[s] /\ tasks[s] = <<>>)
             /\ worker[s] # "test" => tasks'[s] = tasks[s]
             /\ tasks[s] = <<>> => tasks'[s] = <<>>
  BY <1>0, <1>2 DEF Take, Turn, hostVars
<1>3. ASSUME NEW r \in Stream, Tell(r)
      PROVE  /\ UNCHANGED <<plan, registry, stop, tasks>>
             /\ worker[s] \in {"none", "gone"} \/ worker'[s] \in {"none", "gone"} => worker'[s] = worker[s]
             /\ worker'[s] = "exited" => worker[s] = "exited"
  BY <1>0, <1>3 DEF Tell, Hears, queueVars
<1>4. ASSUME NEW r \in Stream,
             Leave(r) \/ Doze(r) \/ Sleep(r) \/ RunJob(r) \/ Signal(r) \/ PassWait(r) \/ Block(r)
      PROVE  /\ UNCHANGED <<plan, registry, stop, tasks>>
             /\ worker[s] \in {"none", "gone"} \/ worker'[s] \in {"none", "gone"} => worker'[s] = worker[s]
             /\ worker'[s] = "exited" => worker[s] = "exited" \/ (stop[s] /\ tasks[s] = <<>>)
  BY <1>0, <1>4 DEF Leave, Doze, Sleep, RunJob, Signal, PassWait, Block, Turn, MayLeave, hostVars, queueVars
<1>5. QED
  BY <1>1, <1>2, <1>3, <1>4 DEF Work

RegistryInv ==
  \A s \in Stream :
    /\ s \in registry => Live(s) /\ ~stop[s]
    /\ stop[s] => worker[s] # "none"
    /\ worker[s] \in {"exited", "gone"} => stop[s] /\ tasks[s] = <<>>
LifeInv ==
  \A s \in Stream, h \in Host : \A n \in 1..Len(plan[h]) :
    Uses(plan[h][n], s) =>
      /\ worker[s] # "gone"
      /\ worker[s] = "none" => \E m \in 1..n : plan[h][m] = <<"create", s>>
      /\ stop[s] => plan[h][n][1] \in {"notify", "join"}
StopInv ==
  \A s \in Stream, h \in Host : \A n \in 1..Len(plan[h]) :
    plan[h][n] = <<"stop", s>> =>
      \/ \E m \in 1..n - 1 : plan[h][m] = <<"unregister", s>>
      \/ s \notin registry /\ worker[s] # "none"
EndsInv == \A h \in Host : EndsStreams(plan[h])
StreamInv == OwnsStreams(plan) /\ EndsInv /\ StopInv /\ RegistryInv /\ LifeInv

\* A step that uses a stream after a call: it was there before, or the stream is in the registry
\* that is collected or in the list that is gone through.
MadeUse(h, b, k, n, s) ==
  /\ k = h /\ n \in 1..b /\ b # 0 /\ plan'[k][n][1] \in {"push", "notify", "each"}
  /\ \/ plan[h][1][1] = "collect" /\ s \in registry
     \/ plan[h][1][1] = "each" /\ Uses(plan[h][1], s)

\* Where a use of a stream comes from after a call.
LEMMA UseFrom ==
  ASSUME TypeOK, NEW h \in Host, NEW b \in Nat, Moves(h, b),
         NEW k \in Host, NEW n \in 1..Len(plan'[k]), NEW s \in Stream, Uses(plan'[k][n], s)
  PROVE  \/ MadeUse(h, b, k, n, s)
         \/ \E m \in 1..Len(plan[k]) : OldStep(h, b, k, n, m)
<1>0. plan \in [Host -> Seq(Step)] /\ registry \subseteq Stream
  BY DEF TypeOK
<1>1. CASE k = h /\ n \in 1..b /\ Made(plan'[k][n], h)
  <2>1. \/ plan[h][1][1] = "collect" /\ s \in registry
        \/ plan[h][1][1] = "each" /\ Uses(plan[h][1], s)
    BY <1>0, <1>1, MadeFacts
  <2>2. plan'[k][n][1] \in {"push", "notify", "each"}
    BY <1>1, MadeKinds DEF Uses, Manages
  <2>3. b # 0
    BY <1>1
  <2>4. QED
    BY <1>1, <2>1, <2>2, <2>3 DEF MadeUse
<1>2. QED
  BY <1>0, <1>1, WhereFrom

\* A stream that is yet to be created has no worker, and is in no registry.
LEMMA YetToCome ==
  ASSUME TypeInv, NEW k \in Host, NEW n \in 1..Len(plan[k]), NEW s \in Stream,
         plan[k][n] = <<"create", s>>
  PROVE  worker[s] = "none" /\ (RegistryInv => s \notin registry)
<1>1. plan[k][n][1] = "create" /\ plan[k][n][2] = s
  OBVIOUS
<1>2. worker[s] = "none"
  BY <1>1 DEF TypeInv, Creations
<1>3. QED
  BY <1>2 DEF RegistryInv, Live

\* The four steps that make and end a stream.
LEMMA ManagesKinds ==
  ASSUME NEW st \in Step, NEW s, Manages(st, s)
  PROVE  st \in {<<"create", s>>, <<"unregister", s>>, <<"stop", s>>, <<"join", s>>}
BY StepFacts DEF Manages, Managing

\* A stream keeps its owner, and a copied registry holds no stream that is to be destroyed.
LEMMA OwnsStep ==
  ASSUME ProgramAssumption, TypeInv, StreamInv, NEW h \in Host, Call(h), NEW b \in Nat, Moves(h, b)
  PROVE  OwnsStreams(plan')
<1>0. TypeOK /\ plan \in [Host -> Seq(Step)] /\ registry \subseteq Stream /\ OwnsStreams(plan) /\ RegistryInv
  BY DEF TypeInv, TypeOK, StreamInv
<1>1. 1 \in 1..Len(plan[h])
  BY <1>0, MovesFacts
<1>2. ASSUME NEW i \in Host, NEW m \in 1..Len(plan'[i]), NEW s \in Stream, Manages(plan'[i][m], s)
      PROVE  \E u \in 1..Len(plan[i]) : OldStep(h, b, i, m, u) /\ Manages(plan[i][u], s)
  <2>1. Uses(plan'[i][m], s) /\ ~MadeUse(h, b, i, m, s)
    BY <1>2 DEF Uses, MadeUse, Manages
  <2>2. PICK u \in 1..Len(plan[i]) : OldStep(h, b, i, m, u)
    BY <1>0, <1>2, <2>1, UseFrom
  <2>3. QED
    BY <1>2, <2>2 DEF OldStep
<1>3. ASSUME NEW s \in Stream, NEW i \in Host, NEW k \in Host,
             NEW m \in 1..Len(plan'[i]), NEW n \in 1..Len(plan'[k]),
             Manages(plan'[i][m], s), Uses(plan'[k][n], s)
      PROVE  i = k
  <2>1. PICK u \in 1..Len(plan[i]) : OldStep(h, b, i, m, u) /\ Manages(plan[i][u], s)
    BY <1>2, <1>3
  <2>2. CASE \E v \in 1..Len(plan[k]) : OldStep(h, b, k, n, v)
    <3>1. PICK v \in 1..Len(plan[k]) : OldStep(h, b, k, n, v)
      BY <2>2
    <3>2. Uses(plan[k][v], s)
      BY <1>3, <3>1 DEF OldStep
    <3>3. QED
      BY <1>0, <2>1, <3>2 DEF OwnsStreams
  <2>3. CASE MadeUse(h, b, k, n, s)
    <3>1. CASE plan[h][1][1] = "each" /\ Uses(plan[h][1], s)
      BY <1>0, <1>1, <2>1, <2>3, <3>1 DEF OwnsStreams, MadeUse
    <3>2. CASE plan[h][1][1] = "collect" /\ s \in registry
      <4>1. plan[i][u] \in Step
        BY <1>0, PlanSteps
      <4>2. plan[i][u] # <<"create", s>>
        BY <1>0, <3>2, YetToCome
      <4>3. plan[i][u][1] # "create"
        BY <2>1, <4>1, <4>2, ManagesKinds
      <4>4. QED
        BY <1>0, <1>1, <2>1, <2>3, <3>2, <4>3 DEF OwnsStreams, MadeUse
    <3>3. QED
      BY <2>3, <3>1, <3>2 DEF MadeUse
  <2>4. QED
    BY <1>0, <1>3, <2>2, <2>3, UseFrom
<1>4. ASSUME NEW s \in Stream, NEW i \in Host, NEW k \in Host,
             NEW m \in 1..Len(plan'[i]), NEW n \in 1..Len(plan'[k]),
             Manages(plan'[i][m], s), plan'[i][m][1] # "create", plan'[k][n][1] = "collect"
      PROVE  i = k
  <2>1. PICK u \in 1..Len(plan[i]) : OldStep(h, b, i, m, u) /\ Manages(plan[i][u], s)
    BY <1>2, <1>4
  <2>2. PICK v \in 1..Len(plan[k]) : OldStep(h, b, k, n, v)
    BY <1>0, <1>4, WhereFrom, MadeKinds
  <2>3. plan[i][u][1] # "create" /\ plan[k][v][1] = "collect"
    BY <1>4, <2>1, <2>2 DEF OldStep
  <2>4. QED
    BY <1>0, <2>1, <2>3 DEF OwnsStreams
<1>5. QED
  BY <1>3, <1>4 DEF OwnsStreams

\* A thread keeps the order in which it creates, uses and ends its streams.
LEMMA EndsStep ==
  ASSUME ProgramAssumption, TypeInv, StreamInv, NEW h \in Host, Call(h), NEW b \in Nat, Moves(h, b)
  PROVE  EndsInv'
<1>0. /\ TypeOK /\ plan \in [Host -> Seq(Step)] /\ registry \subseteq Stream /\ EndsInv /\ RegistryInv
      /\ 1 \in 1..Len(plan[h])
  BY MovesFacts DEF TypeInv, TypeOK, StreamInv
<1>1. ASSUME NEW k \in Host, k # h PROVE EndsStreams(plan'[k])
  BY <1>0, <1>1, MovesFacts DEF EndsInv
<1>2. ASSUME NEW s \in Stream, NEW m \in 1..Len(plan'[h]), NEW n \in 1..Len(plan'[h]), m < n
      PROVE  /\ Uses(plan'[h][m], s) => plan'[h][n] # <<"create", s>>
             /\ plan'[h][m] = <<"stop", s>> /\ Uses(plan'[h][n], s) => plan'[h][n][1] \in {"notify", "join"}
             /\ plan'[h][m] = <<"join", s>> => ~Uses(plan'[h][n], s)
  <2>0. m \in Int /\ n \in Int /\ b \in Int
    OBVIOUS
  <2>1. CASE \E u \in 1..Len(plan[h]) : OldStep(h, b, h, m, u)
    <3>1. PICK u \in 1..Len(plan[h]) : OldStep(h, b, h, m, u)
      BY <2>1
    <3>2. m > b /\ u = m + 1 - b
      BY <3>1 DEF OldStep
    <3>3. ~(n \in 1..b)
      BY <1>2, <2>0, <3>2
    <3>4. PICK v \in 1..Len(plan[h]) : OldStep(h, b, h, n, v)
      BY <1>0, <3>3, WhereFrom
    <3>5. u < v
      BY <1>2, <2>0, <3>2, <3>4 DEF OldStep
    <3>6. EndsStreams(plan[h]) /\ plan'[h][m] = plan[h][u] /\ plan'[h][n] = plan[h][v]
      BY <1>0, <3>1, <3>4 DEF EndsInv, OldStep
    <3>7. QED
      BY <3>5, <3>6 DEF EndsStreams
  <2>2. CASE m \in 1..b /\ Made(plan'[h][m], h)
    <3>1. plan'[h][m] # <<"stop", s>> /\ plan'[h][m] # <<"join", s>>
      BY <2>2, MadeKinds
    <3>2. ASSUME Uses(plan'[h][m], s), plan'[h][n] = <<"create", s>> PROVE FALSE
      <4>1. \/ plan[h][1][1] = "collect" /\ s \in registry
            \/ plan[h][1][1] = "each" /\ Uses(plan[h][1], s)
        BY <1>0, <2>2, <3>2, MadeFacts
      <4>2. ~Made(plan'[h][n], h)
        BY <3>2, MadeKinds
      <4>3. PICK v \in 1..Len(plan[h]) : OldStep(h, b, h, n, v)
        BY <1>0, <4>2, WhereFrom
      <4>4. v >= 2 /\ plan[h][v] = <<"create", s>>
        BY <3>2, <4>3 DEF OldStep
      <4>5. CASE plan[h][1][1] = "collect" /\ s \in registry
        BY <1>0, <4>4, <4>5, YetToCome
      <4>6. CASE Uses(plan[h][1], s)
        <5>1. 1 < v /\ EndsStreams(plan[h])
          BY <1>0, <4>4 DEF EndsInv
        <5>2. QED
          BY <1>0, <4>4, <4>6, <5>1 DEF EndsStreams
      <4>7. QED
        BY <4>1, <4>5, <4>6
    <3>3. QED
      BY <3>1, <3>2
  <2>3. QED
    BY <1>0, <2>1, <2>2, WhereFrom
<1>3. EndsStreams(plan'[h])
  BY <1>2 DEF EndsStreams
<1>4. QED
  BY <1>1, <1>3 DEF EndsInv

\* A stream that is stopped has been taken out of the registry.
LEMMA StopStep ==
  ASSUME ProgramAssumption, TypeInv, StreamInv, NEW h \in Host, Call(h), NEW b \in Nat, Moves(h, b)
  PROVE  StopInv'
<1>0. /\ TypeOK /\ plan \in [Host -> Seq(Step)] /\ registry \subseteq Stream /\ StopInv /\ LifeInv
      /\ 1 \in 1..Len(plan[h])
  BY MovesFacts DEF TypeInv, TypeOK, StreamInv
<1>1. SUFFICES ASSUME NEW s \in Stream, NEW k \in Host, NEW n \in 1..Len(plan'[k]),
                      plan'[k][n] = <<"stop", s>>
               PROVE  \/ \E m \in 1..n - 1 : plan'[k][m] = <<"unregister", s>>
                      \/ s \notin registry' /\ worker'[s] # "none"
  BY DEF StopInv
<1>2. PICK v \in 1..Len(plan[k]) : OldStep(h, b, k, n, v)
  BY <1>0, <1>1, WhereFrom, MadeKinds
<1>3. plan[k][v] = <<"stop", s>>
  BY <1>1, <1>2 DEF OldStep
<1>4. CASE s \notin registry /\ worker[s] # "none"
  <2>1. plan[h][1] # <<"create", s>>
    BY <1>0, <1>4, YetToCome
  <2>2. QED
    BY <1>4, <2>1, CallEffects
<1>5. CASE \E m \in 1..v - 1 : plan[k][m] = <<"unregister", s>>
  <2>1. PICK m \in 1..v - 1 : plan[k][m] = <<"unregister", s>>
    BY <1>5
  <2>2. CASE k # h
    BY <1>2, <2>1, <2>2, MovesFacts, <1>0 DEF OldStep
  <2>3. CASE k = h /\ m # 1
    <3>1. m \in 2..Len(plan[h]) /\ m < v
      BY <2>1, <2>3
    <3>2. m + b - 1 \in 1..Len(plan'[h]) /\ plan'[h][m + b - 1] = plan[h][m]
      BY <1>0, <3>1, WhereTo
    <3>3. v = n + 1 - b
      BY <1>2, <2>3 DEF OldStep
    <3>4. m + b - 1 \in 1..n - 1
      BY <3>1, <3>2, <3>3
    <3>5. QED
      BY <2>1, <2>3, <3>2, <3>4
  <2>4. CASE k = h /\ m = 1
    <3>1. plan[h][1] = <<"unregister", s>>
      BY <2>1, <2>4
    <3>2. Uses(plan[h][1], s)
      BY <3>1 DEF Uses, Manages
    <3>3. worker[s] # "none"
      <4>1. worker[s] = "none" => \E i \in 1..1 : plan[h][i] = <<"create", s>>
        BY <1>0, <3>2 DEF LifeInv
      <4>2. QED
        BY <3>1, <4>1
    <3>4. s \notin registry' /\ worker'[s] # "none"
      BY <3>1, <3>3, CallEffects
    <3>5. QED
      BY <3>4
  <2>5. QED
    BY <2>2, <2>3, <2>4
<1>6. QED
  BY <1>0, <1>3, <1>4, <1>5 DEF StopInv

\* The streams of the registry are there; a worker leaves an empty queue behind.
LEMMA RegistryStep ==
  ASSUME ProgramAssumption, TypeInv, StreamInv, NEW h \in Host, Call(h), NEW b \in Nat, Moves(h, b)
  PROVE  RegistryInv'
<1>0. /\ TypeOK /\ plan \in [Host -> Seq(Step)] /\ registry \subseteq Stream /\ StopInv /\ LifeInv
      /\ RegistryInv /\ 1 \in 1..Len(plan[h])
  BY MovesFacts DEF TypeInv, TypeOK, StreamInv
<1>1. SUFFICES ASSUME NEW s \in Stream
               PROVE  /\ s \in registry' => worker'[s] \notin {"none", "gone"} /\ ~stop'[s]
                      /\ stop'[s] => worker'[s] # "none"
                      /\ worker'[s] \in {"exited", "gone"} => stop'[s] /\ tasks'[s] = <<>>
  BY DEF RegistryInv, Live
<1>2. /\ s \in registry => worker[s] \notin {"none", "gone"} /\ ~stop[s]
      /\ stop[s] => worker[s] # "none"
      /\ worker[s] \in {"exited", "gone"} => stop[s] /\ tasks[s] = <<>>
  BY <1>0 DEF RegistryInv, Live
<1>3. CASE plan[h][1] = <<"create", s>>
  <2>1. worker[s] = "none" /\ worker'[s] = "test" /\ stop'[s] = stop[s]
    BY <1>0, <1>3, CallEffects, YetToCome
  <2>2. QED
    BY <1>2, <2>1
<1>4. CASE plan[h][1] = <<"stop", s>>
  <2>1. ~\E m \in 1..0 : plan[h][m] = <<"unregister", s>>
    OBVIOUS
  <2>2. s \notin registry /\ worker[s] # "none"
    BY <1>0, <1>4, <2>1 DEF StopInv
  <2>3. /\ s \notin registry' /\ tasks'[s] = tasks[s]
        /\ worker'[s] = worker[s] \/ (worker[s] = "asleep" /\ worker'[s] = "test")
        /\ stop'[s] = stop[s] \/ stop'[s]
    BY <1>4, <2>2, CallEffects
  <2>4. QED
    BY <1>2, <2>2, <2>3
<1>5. CASE plan[h][1] = <<"join", s>>
  <2>1. /\ s \in registry' => s \in registry
        /\ \/ worker'[s] = worker[s]
           \/ worker[s] = "asleep" /\ worker'[s] = "test"
           \/ worker[s] = "exited" /\ worker'[s] = "gone"
        /\ stop'[s] = stop[s] /\ tasks'[s] = tasks[s]
    BY <1>5, CallEffects
  <2>2. QED
    BY <1>2, <2>1
<1>6. CASE plan[h][1] \notin {<<"create", s>>, <<"stop", s>>, <<"join", s>>}
  <2>1. /\ s \in registry' => s \in registry
        /\ \/ worker'[s] = worker[s]
           \/ worker[s] = "asleep" /\ worker'[s] = "test"
        /\ stop'[s] = stop[s]
    BY <1>6, CallEffects, ZenonT(30)
  <2>2. tasks'[s] = tasks[s] \/ worker[s] \notin {"exited", "gone"}
    <3>1. CASE plan[h][1][1] = "push" /\ plan[h][1][2] = s
      <4>1. Uses(plan[h][1], s)
        BY <3>1 DEF Uses
      <4>2. ~stop[s]
        BY <1>0, <3>1, <4>1 DEF LifeInv
      <4>3. QED
        BY <1>2, <4>2
    <3>2. QED
      BY <3>1, CallEffects
  <2>3. QED
    BY <1>2, <2>1, <2>2
<1>7. QED
  BY <1>3, <1>4, <1>5, <1>6

\* Nobody is to use a stream that is gone, or that is not there and is not created first.
LEMMA LifeStep ==
  ASSUME ProgramAssumption, TypeInv, StreamInv, NEW h \in Host, Call(h), NEW b \in Nat, Moves(h, b)
  PROVE  LifeInv'
<1>0. /\ TypeOK /\ plan \in [Host -> Seq(Step)] /\ registry \subseteq Stream /\ LifeInv /\ EndsInv
      /\ RegistryInv /\ OwnsStreams(plan) /\ 1 \in 1..Len(plan[h]) /\ plan[h][1] \in Step
  BY MovesFacts DEF TypeInv, TypeOK, StreamInv
<1>1. SUFFICES ASSUME NEW s \in Stream, NEW k \in Host, NEW n \in 1..Len(plan'[k]), Uses(plan'[k][n], s)
               PROVE  /\ worker'[s] # "gone"
                      /\ worker'[s] = "none" => \E m \in 1..n : plan'[k][m] = <<"create", s>>
                      /\ stop'[s] => plan'[k][n][1] \in {"notify", "join"}
  BY DEF LifeInv
<1>2. CASE MadeUse(h, b, k, n, s)
  <2>1. plan[h][1][1] \in {"collect", "each"}
    BY <1>2 DEF MadeUse
  <2>2. worker[s] \notin {"none", "gone"} /\ ~stop[s]
    <3>1. CASE s \in registry
      BY <1>0, <3>1 DEF RegistryInv, Live
    <3>2. CASE Uses(plan[h][1], s)
      <4>1. worker[s] # "gone" /\ ~stop[s]
        BY <1>0, <2>1, <3>2 DEF LifeInv
      <4>2. worker[s] = "none" => \E m \in 1..1 : plan[h][m] = <<"create", s>>
        BY <1>0, <3>2 DEF LifeInv
      <4>3. QED
        BY <2>1, <4>1, <4>2
    <3>3. QED
      BY <1>2, <3>1, <3>2 DEF MadeUse
  <2>3. plan[h][1] \notin {<<"create", s>>, <<"stop", s>>, <<"join", s>>}
    BY <2>1
  <2>4. QED
    BY <2>2, <2>3, CallEffects
<1>3. ASSUME NEW v \in 1..Len(plan[k]), OldStep(h, b, k, n, v)
      PROVE  /\ worker'[s] # "gone"
             /\ worker'[s] = "none" => \E m \in 1..n : plan'[k][m] = <<"create", s>>
             /\ stop'[s] => plan'[k][n][1] \in {"notify", "join"}
  <2>1. plan'[k][n] = plan[k][v] /\ Uses(plan[k][v], s)
    BY <1>1, <1>3 DEF OldStep
  <2>2. /\ worker[s] # "gone"
        /\ worker[s] = "none" => \E m \in 1..v : plan[k][m] = <<"create", s>>
        /\ stop[s] => plan[k][v][1] \in {"notify", "join"}
    BY <1>0, <2>1 DEF LifeInv
  <2>3. ASSUME plan[h][1] \in {<<"stop", s>>, <<"join", s>>} PROVE k = h /\ 1 < v
    <3>1. Manages(plan[h][1], s)
      BY <2>3 DEF Manages
    <3>2. k = h
      BY <1>0, <2>1, <3>1 DEF OwnsStreams
    <3>3. QED
      BY <1>3, <3>2 DEF OldStep
  <2>4. worker'[s] # "gone"
    <3>1. CASE plan[h][1] = <<"join", s>>
      BY <1>0, <2>1, <2>3, <3>1 DEF EndsInv, EndsStreams
    <3>2. CASE plan[h][1] # <<"join", s>>
      BY <2>2, <3>2, CallEffects
    <3>3. QED
      BY <3>1, <3>2
  <2>5. stop'[s] => plan'[k][n][1] \in {"notify", "join"}
    <3>1. CASE plan[h][1] = <<"stop", s>>
      BY <1>0, <2>1, <2>3, <3>1 DEF EndsInv, EndsStreams
    <3>2. CASE plan[h][1] # <<"stop", s>>
      BY <2>1, <2>2, <3>2, CallEffects
    <3>3. QED
      BY <3>1, <3>2
  <2>6. ASSUME worker'[s] = "none" PROVE \E m \in 1..n : plan'[k][m] = <<"create", s>>
    <3>1. worker[s] = "none" /\ plan[h][1] # <<"create", s>>
      BY <2>6, CallEffects
    <3>2. PICK m \in 1..v : plan[k][m] = <<"create", s>>
      BY <2>2, <3>1
    <3>3. CASE k # h
      BY <1>0, <1>3, <3>2, <3>3, MovesFacts DEF OldStep
    <3>4. CASE k = h
      <4>1. m \in 2..Len(plan[h]) /\ m <= v /\ v = n + 1 - b
        BY <1>3, <3>1, <3>2, <3>4 DEF OldStep
      <4>2. m + b - 1 \in 1..Len(plan'[h]) /\ plan'[h][m + b - 1] = plan[h][m]
        BY <1>0, <4>1, WhereTo
      <4>3. m + b - 1 \in 1..n
        BY <4>1, <4>2
      <4>4. QED
        BY <3>2, <3>4, <4>2, <4>3
    <3>5. QED
      BY <3>3, <3>4
  <2>7. QED
    BY <2>4, <2>5, <2>6
<1>4. QED
  BY <1>0, <1>1, <1>2, <1>3, UseFrom

\* What the workers do ends no stream and brings none to life.
LEMMA StreamWork ==
  ASSUME TypeOK, StreamInv, (\E r \in Stream : Work(r)) \/ Spurious
  PROVE  StreamInv'
<1>1. UNCHANGED <<plan, registry, stop>>
  BY DEF Work, Take, Leave, Doze, Sleep, RunJob, Signal, Tell, PassWait, Block, Spurious,
    hostVars, queueVars
<1>2. OwnsStreams(plan)' /\ EndsInv'
  BY <1>1 DEF StreamInv, EndsInv, OwnsStreams
<1>3. \A s \in Stream : worker'[s] = "none" <=> worker[s] = "none"
  BY WorkEffects
<1>4. \A s \in Stream : worker'[s] = "gone" <=> worker[s] = "gone"
  BY WorkEffects
<1>5. StopInv'
  BY <1>1, <1>3 DEF StreamInv, StopInv
<1>6. LifeInv'
  BY <1>1, <1>3, <1>4 DEF StreamInv, LifeInv
<1>7. RegistryInv'
  <2>1. ASSUME NEW s \in Stream, worker'[s] \in {"exited", "gone"} PROVE stop[s] /\ tasks'[s] = <<>>
    BY <2>1, <1>4, WorkEffects DEF StreamInv, RegistryInv
  <2>2. QED
    BY <1>1, <1>3, <1>4, <2>1 DEF StreamInv, RegistryInv, Live
<1>8. QED
  BY <1>2, <1>5, <1>6, <1>7 DEF StreamInv

\* The life of the streams, one step further.
LEMMA StreamStep ==
  ASSUME ProgramAssumption, TypeInv, StreamInv, [Next]_vars
  PROVE  StreamInv'
<1>1. TypeOK
  BY DEF TypeInv
<1>2. CASE UNCHANGED <<plan, registry, worker, stop, tasks>>
  <2>1. OwnsStreams(plan)' /\ EndsInv'
    BY <1>2 DEF StreamInv, EndsInv, OwnsStreams
  <2>2. StopInv'
    BY <1>2 DEF StreamInv, StopInv
  <2>3. RegistryInv'
    BY <1>2 DEF StreamInv, RegistryInv, Live
  <2>4. LifeInv'
    BY <1>2 DEF StreamInv, LifeInv
  <2>5. QED
    BY <2>1, <2>2, <2>3, <2>4 DEF StreamInv
<1>3. ASSUME NEW h \in Host, Call(h) PROVE StreamInv'
  <2>1. CASE \E b \in Nat : Moves(h, b)
    BY <1>3, <2>1, OwnsStep, EndsStep, StopStep, RegistryStep, LifeStep DEF StreamInv
  <2>2. CASE UNCHANGED plan /\ Await(h)
    BY <1>2, <2>2 DEF Await, threadVars, queueVars
  <2>3. QED
    BY <1>1, <1>3, <2>1, <2>2, CallShape
<1>4. QED
  BY <1>1, <1>2, <1>3, StreamWork DEF Next, Finished, vars, hostVars, threadVars, queueVars

\* At the start, the streams that nobody creates are there.
LEMMA StreamInitial ==
  ASSUME ProgramAssumption, StreamDiscipline, Init
  PROVE  StreamInv
<1>1. OwnsStreams(plan) /\ EndsInv /\ \A h \in Host : Unregisters(plan[h])
  BY DEF Init, StreamDiscipline, EndsInv
<1>2. StopInv
  BY <1>1 DEF StopInv, Unregisters
<1>3. RegistryInv
  BY DEF Init, RegistryInv, Live
<1>4. LifeInv
  <2>1. SUFFICES ASSUME NEW s \in Stream, NEW k \in Host, NEW n \in 1..Len(plan[k]), Uses(plan[k][n], s),
                        worker[s] = "none"
                 PROVE  \E m \in 1..n : plan[k][m] = <<"create", s>>
    BY DEF Init, LifeInv
  <2>2. PICK h \in Host : \E m \in 1..Len(plan[h]) : plan[h][m] = <<"create", s>>
    BY <2>1 DEF Init, Given
  <2>3. PICK m \in 1..Len(plan[h]) : plan[h][m] = <<"create", s>>
    BY <2>2
  <2>4. Manages(plan[h][m], s)
    BY <2>3 DEF Manages
  <2>5. h = k
    BY <1>1, <2>1, <2>4 DEF OwnsStreams
  <2>6. ~(n < m)
    BY <1>1, <2>1, <2>3, <2>5 DEF EndsInv, EndsStreams
  <2>7. m \in 1..n
    BY <2>5, <2>6
  <2>8. QED
    BY <2>3, <2>5, <2>7
<1>5. QED
  BY <1>1, <1>2, <1>3, <1>4 DEF StreamInv

\* The life of every stream, for threads that own the streams they create and destroy: who may
\* still use it, that it is out of the registry before its worker is stopped, and that a worker
\* that has gone has left nothing in the queue.
THEOREM StreamsCorrect == Spec /\ StreamDiscipline => [](TypeInv /\ StreamInv)
<1>1. StreamDiscipline /\ Init => StreamInv
  BY StreamPrograms, StreamInitial
<1>2. TypeInv /\ StreamInv /\ [Next]_vars => StreamInv'
  BY StreamPrograms, StreamStep
<1>3. QED
  BY <1>1, <1>2, TypesHold, PTL DEF Spec

\* No call touches a stream that has been deleted, and every variable keeps its type: the copy
\* of the registry that orDeviceSynchronize goes through holds no stream that is gone.
THEOREM StreamsWholeHolds == Spec /\ StreamDiscipline => []StreamsWhole
<1>1. TypeInv /\ StreamInv => StreamsWhole
  <2> SUFFICES ASSUME TypeInv, StreamInv, NEW h \in Host, NEW s \in Stream, Touches(h, s)
               PROVE  Live(s)
    BY DEF StreamsWhole, NoDangling, TypeInv
  <2>1. plan \in [Host -> Seq(Step)] /\ plan[h] # <<>>
    BY DEF TypeInv, TypeOK, Touches
  <2>2. 1 \in 1..Len(plan[h]) /\ Next1(h) = plan[h][1] /\ On(h) = plan[h][1][2]
    BY <2>1, HeadFacts
  <2>3. plan[h][1][1] \in {"push", "notify", "stop", "join"} /\ Uses(plan[h][1], s)
    BY <2>2 DEF Touches, Uses, Manages
  <2>4. worker[s] # "gone" /\ (worker[s] = "none" => \E m \in 1..1 : plan[h][m] = <<"create", s>>)
    BY <2>2, <2>3 DEF StreamInv, LifeInv
  <2>5. QED
    BY <2>3, <2>4 DEF Live
<1>2. QED
  BY <1>1, StreamsCorrect, PTL

-------------------------------------------------------------------------------
(* The tasks of a stream that are still to be done *)

\* What the worker is at, and behind it what is queued
Queue(s) ==
  IF worker[s] \in {"busy", "blocked"} THEN <<task[s]>> \o tasks[s] ELSE tasks[s]
WaitOf(e) == <<"wait", e>>

\* A task in front of a queue is its first.
LEMMA FrontOf ==
  ASSUME NEW S, NEW q \in Seq(S), NEW x \in S
  PROVE  /\ <<x>> \o q \in Seq(S) /\ <<x>> \o q # <<>> /\ Head(<<x>> \o q) = x /\ (<<x>> \o q)[1] = x
         /\ Tail(<<x>> \o q) = q
<1>1. <<x>> \in Seq(S) /\ Len(<<x>>) = 1 /\ <<x>>[1] = x /\ Len(q) \in Nat
  BY LenProperties
<1>2. /\ <<x>> \o q \in Seq(S) /\ Len(<<x>> \o q) = Len(<<x>>) + Len(q)
      /\ \A i \in 1..Len(<<x>>) + Len(q) :
           (<<x>> \o q)[i] = IF i <= Len(<<x>>) THEN <<x>>[i] ELSE q[i - Len(<<x>>)]
  BY <1>1, ConcatProperties
<1> DEFINE r == <<x>> \o q
<1>3. r \in Seq(S) /\ Len(r) = 1 + Len(q) /\ r[1] = x /\ \A i \in 2..Len(r) : r[i] = q[i - 1]
  BY <1>1, <1>2
<1> HIDE DEF r
<1>4. r # <<>> /\ Head(r) = r[1] /\ Tail(r) \in Seq(S) /\ Len(Tail(r)) = Len(q)
      /\ \A i \in 1..Len(q) : Tail(r)[i] = r[i + 1]
  BY <1>1, <1>3, HeadTailProperties, EmptySeq
<1>5. \A i \in 1..Len(q) : Tail(r)[i] = q[i]
  BY <1>1, <1>3, <1>4
<1>6. Tail(r) = q
  BY <1>4, <1>5, SeqEqual
<1>7. QED
  BY <1>3, <1>4, <1>6 DEF r

\* The first task put back in front of the rest gives the queue again.
LEMMA FrontAgain ==
  ASSUME NEW S, NEW q \in Seq(S), q # <<>>
  PROVE  Head(q) \in S /\ Head(q) = q[1] /\ Tail(q) \in Seq(S) /\ <<Head(q)>> \o Tail(q) = q
<1>1. /\ Head(q) \in S /\ Head(q) = q[1] /\ Tail(q) \in Seq(S) /\ Len(q) \in Nat \ {0}
      /\ Len(Tail(q)) = Len(q) - 1 /\ \A i \in 1..Len(Tail(q)) : Tail(q)[i] = q[i + 1]
  BY HeadTailProperties, EmptySeq, LenProperties, ElementOfSeq
<1> DEFINE x == Head(q)
           u == Tail(q)
<1> HIDE DEF x, u
<1>2. x \in S /\ u \in Seq(S)
  BY <1>1 DEF x, u
<1>3. <<x>> \in Seq(S) /\ Len(<<x>>) = 1 /\ <<x>>[1] = x
  BY <1>2
<1>4. /\ <<x>> \o u \in Seq(S) /\ Len(<<x>> \o u) = Len(<<x>>) + Len(u)
      /\ \A i \in 1..Len(<<x>>) + Len(u) :
           (<<x>> \o u)[i] = IF i <= Len(<<x>>) THEN <<x>>[i] ELSE u[i - Len(<<x>>)]
  BY <1>2, <1>3, ConcatProperties
<1>5. Len(<<x>> \o u) = Len(q)
  BY <1>1, <1>3, <1>4 DEF u
<1>6. ASSUME NEW i \in 1..Len(q) PROVE (<<x>> \o u)[i] = q[i]
  <2>1. CASE i = 1
    BY <1>1, <1>3, <1>4, <2>1 DEF x, u
  <2>2. CASE i # 1
    <3>1. i - 1 \in 1..Len(u) /\ ~(i <= 1)
      BY <1>1, <2>2 DEF u
    <3>2. (<<x>> \o u)[i] = u[i - 1]
      BY <1>1, <1>3, <1>4, <3>1 DEF u
    <3>3. u[i - 1] = q[(i - 1) + 1]
      BY <1>1, <3>1 DEF u
    <3>4. (i - 1) + 1 = i
      OBVIOUS
    <3>5. QED
      BY <3>2, <3>3, <3>4
  <2>3. QED
    BY <2>1, <2>2
<1>7. <<x>> \o u = q
  BY <1>4, <1>5, <1>6, SeqEqual
<1>8. QED
  BY <1>1, <1>7 DEF x, u

\* What a stream still has to do begins with what its worker is at.
LEMMA QueueFacts ==
  ASSUME ProgramAssumption, TypeOK, NEW s \in Stream
  PROVE  /\ Queue(s) \in Seq(Task) /\ Len(Queue(s)) \in Nat
         /\ worker[s] \in {"busy", "blocked"} =>
              Queue(s) # <<>> /\ Queue(s)[1] = task[s] /\ Tail(Queue(s)) = tasks[s]
<1>1. tasks[s] \in Seq(Task) /\ (worker[s] \in {"busy", "blocked"} => task[s] \in Task)
  BY DEF TypeOK
<1>2. CASE worker[s] \in {"busy", "blocked"}
  <2>1. Queue(s) = <<task[s]>> \o tasks[s]
    BY <1>2 DEF Queue
  <2>2. /\ <<task[s]>> \o tasks[s] \in Seq(Task) /\ <<task[s]>> \o tasks[s] # <<>>
        /\ (<<task[s]>> \o tasks[s])[1] = task[s] /\ Tail(<<task[s]>> \o tasks[s]) = tasks[s]
    BY <1>1, <1>2, FrontOf
  <2>3. QED
    BY <2>1, <2>2, LenProperties
<1>3. CASE worker[s] \notin {"busy", "blocked"}
  BY <1>1, <1>3, LenProperties DEF Queue
<1>4. QED
  BY <1>2, <1>3

\* The first task of a stream is done.
RunsTask(s) == \E j \in Job : Queue(s)[1] = RunOf(j) /\ ran' = ran \cup {j} /\ completed' = completed
PassesWait(s) == \E e \in AnyEvent : Queue(s)[1] = WaitOf(e) /\ completed[e] /\ UNCHANGED <<ran, completed>>
Completes(s) ==
  \E e \in AnyEvent : Queue(s)[1] = RecordOf(e) /\ completed' = [completed EXCEPT ![e] = TRUE] /\ ran' = ran
Popped(s) ==
  /\ Queue(s) # <<>> /\ Queue(s)' = Tail(Queue(s))
  /\ RunsTask(s) \/ PassesWait(s) \/ Completes(s)
  /\ \A r \in Stream : r # s => Queue(r)' = Queue(r)
SameQueues == (\A s \in Stream : Queue(s)' = Queue(s)) /\ UNCHANGED <<ran, completed>>

\* A worker does the first task of its stream, or nothing that the order of tasks depends on.
LEMMA WorkQueues ==
  ASSUME ProgramAssumption, TypeOK, (\E s \in Stream : Work(s)) \/ Spurious
  PROVE  UNCHANGED <<plan, historyVars>> /\ (SameQueues \/ \E s \in Stream : Popped(s))
<1>0. /\ worker \in [Stream -> WorkerState] /\ task \in [Stream -> Task \cup {None}]
      /\ tasks \in [Stream -> Seq(Task)] /\ completed \in [AnyEvent -> BOOLEAN]
  BY DEF TypeOK
<1>1. UNCHANGED <<plan, historyVars>>
  BY DEF Work, Take, Leave, Doze, Sleep, RunJob, Signal, Tell, PassWait, Block, Spurious, hostVars
<1>2. CASE Spurious
  BY <1>0, <1>2 DEF Spurious, Turn, SameQueues, Queue, queueVars
<1>3. ASSUME NEW s \in Stream, Take(s) PROVE SameQueues
  <2>1. tasks[s] \in Seq(Task) /\ tasks[s] # <<>> /\ worker[s] = "test"
    BY <1>0, <1>3 DEF Take, Turn
  <2>2. <<Head(tasks[s])>> \o Tail(tasks[s]) = tasks[s]
    BY <2>1, FrontAgain
  <2>3. worker'[s] = "busy" /\ task'[s] = Head(tasks[s]) /\ tasks'[s] = Tail(tasks[s])
    BY <1>0, <1>3 DEF Take, Turn
  <2>4. Queue(s)' = Queue(s)
    BY <2>1, <2>2, <2>3 DEF Queue
  <2>5. ASSUME NEW r \in Stream, r # s PROVE Queue(r)' = Queue(r)
    BY <1>0, <1>3, <2>5 DEF Take, Turn, Queue
  <2>6. QED
    BY <1>3, <2>4, <2>5 DEF Take, SameQueues
<1>4. ASSUME NEW s \in Stream, Leave(s) \/ Doze(s) \/ Sleep(s) \/ Block(s) PROVE SameQueues
  BY <1>0, <1>4 DEF Leave, Doze, Sleep, Block, Turn, SameQueues, Queue, queueVars
<1>5. ASSUME NEW s \in Stream, Tell(s) PROVE SameQueues
  <2>1. ASSUME NEW r \in Stream PROVE Queue(r)' = Queue(r)
    BY <1>0, <1>5 DEF Tell, Hears, Drop, Queue, queueVars
  <2>2. QED
    BY <1>5, <2>1 DEF Tell, SameQueues
<1>6. ASSUME NEW s \in Stream, RunJob(s) \/ PassWait(s) \/ Signal(s) PROVE Popped(s)
  <2>1. Queue(s) # <<>> /\ Queue(s)[1] = task[s] /\ Tail(Queue(s)) = tasks[s] /\ worker[s] = "busy"
    BY <1>6, QueueFacts DEF RunJob, PassWait, Signal, Turn
  <2>2. Queue(s)' = tasks[s]
    BY <1>0, <1>6 DEF RunJob, PassWait, Signal, Turn, Queue, queueVars
  <2>3. ASSUME NEW r \in Stream, r # s PROVE Queue(r)' = Queue(r)
    BY <1>0, <1>6, <2>3 DEF RunJob, PassWait, Signal, Turn, Drop, Queue, queueVars
  <2>4. ASSUME RunJob(s) PROVE RunsTask(s)
    BY <2>1, <2>4, HasFacts DEF RunJob, RunsTask, RunOf
  <2>5. ASSUME PassWait(s) PROVE PassesWait(s)
    BY <2>1, <2>5, HasFacts DEF PassWait, PassesWait, WaitOf
  <2>6. ASSUME Signal(s) PROVE Completes(s)
    BY <2>1, <2>6, HasFacts DEF Signal, Completes, RecordOf
  <2>7. QED
    BY <1>6, <2>1, <2>2, <2>3, <2>4, <2>5, <2>6 DEF Popped
<1>7. QED
  BY <1>1, <1>2, <1>3, <1>4, <1>5, <1>6 DEF Work

\* A call adds a task behind the others, or clears an event, or changes nothing of either.
Pushed(h, s, t) ==
  /\ plan[h][1] = <<"push", s, t>> /\ Note(s, t) /\ completed' = completed
  /\ Queue(s)' = Append(Queue(s), t)
  /\ \A r \in Stream : r # s => Queue(r)' = Queue(r)
Quiet(h) ==
  /\ \A s \in Stream : Queue(s)' = Queue(s)
  /\ UNCHANGED <<before, covers, needs>>
  /\ \A e \in AnyEvent : completed'[e] = IF plan[h][1] = <<"clear", e>> THEN FALSE ELSE completed[e]
  /\ \A e \in AnyEvent : plan[h][1] = <<"await", e>> => completed[e]

\* What a call does to the queues and the flags.
LEMMA CallQueues ==
  ASSUME ProgramAssumption, TypeInv, NEW h \in Host, Call(h), NEW b \in Nat, Moves(h, b)
  PROVE  /\ ran' = ran
         /\ \/ \E s \in Stream, t \in Task : Pushed(h, s, t)
            \/ Quiet(h) /\ plan[h][1][1] # "push"
<1>0. /\ worker \in [Stream -> WorkerState] /\ task \in [Stream -> Task \cup {None}]
      /\ tasks \in [Stream -> Seq(Task)] /\ completed \in [AnyEvent -> BOOLEAN] /\ TypeOK
  BY DEF TypeInv, TypeOK
<1>1. /\ plan[h] # <<>> /\ plan[h][1] \in Step /\ Next1(h) = plan[h][1] /\ On(h) = plan[h][1][2]
  BY <1>0, MovesFacts
<1>2. ran' = ran
  BY DEF Call, Create, Push, Notify, Clear, Await, Collect, Each, Unregister, RaiseStop, Join
<1>3. CASE Push(h)
  <2>1. PICK s \in Stream, t \in Task : plan[h][1] = <<"push", s, t>>
    BY <1>1, <1>3, StepFacts DEF Push, Does
  <2>2. On(h) = s /\ Next1(h)[3] = t
    BY <1>1, <2>1
  <2>3. tasks' = [tasks EXCEPT ![s] = Append(@, t)] /\ Note(s, t) /\ UNCHANGED <<threadVars, completed>>
    BY <1>3, <2>2 DEF Push
  <2>4. \A r \in Stream : r # s => Queue(r)' = Queue(r)
    BY <1>0, <2>3 DEF Queue, threadVars
  <2>5. Queue(s)' = Append(Queue(s), t)
    <3>1. tasks'[s] = Append(tasks[s], t) /\ tasks[s] \in Seq(Task)
      BY <1>0, <2>3
    <3>2. CASE worker[s] \in {"busy", "blocked"}
      <4>1. PICK x \in Task, q \in Seq(Task) : x = task[s] /\ q = tasks[s]
        BY <1>0, <3>2 DEF TypeOK
      <4>2. <<x>> \o Append(q, t) = Append(<<x>> \o q, t)
        BY <4>1
      <4>3. QED
        BY <2>3, <3>1, <3>2, <4>1, <4>2 DEF Queue, threadVars
    <3>3. CASE worker[s] \notin {"busy", "blocked"}
      BY <2>3, <3>1, <3>3 DEF Queue, threadVars
    <3>4. QED
      BY <3>2, <3>3
  <2>6. QED
    BY <1>2, <2>1, <2>3, <2>4, <2>5 DEF Pushed
<1>4. ASSUME ~Push(h) PROVE (\A s \in Stream : Queue(s)' = Queue(s)) /\ UNCHANGED <<before, covers, needs>>
  <2>1. task' = task /\ tasks' = tasks
    BY <1>4 DEF Call, Create, Notify, Clear, Await, Collect, Each, Unregister, RaiseStop, Join, threadVars, queueVars
  <2>2. UNCHANGED <<before, covers, needs>>
    BY <1>4 DEF Call, Create, Notify, Clear, Await, Collect, Each, Unregister, RaiseStop, Join, historyVars
  <2>3. ASSUME NEW s \in Stream
        PROVE  worker'[s] \in {"busy", "blocked"} <=> worker[s] \in {"busy", "blocked"}
    <3>1. \/ worker'[s] = worker[s]
          \/ worker[s] \in {"none", "asleep", "exited"} /\ worker'[s] \in {"test", "gone"}
      BY CallEffects
    <3>2. worker'[s] = worker[s] \/ ~(worker[s] \in {"busy", "blocked"} \/ worker'[s] \in {"busy", "blocked"})
      BY <3>1
    <3>3. QED
      BY <3>2
  <2>4. QED
    BY <2>1, <2>2, <2>3 DEF Queue
<1>5. CASE Clear(h)
  <2>1. PICK e \in AnyEvent : plan[h][1] = <<"clear", e>>
    BY <1>1, <1>5, StepFacts DEF Clear, Does
  <2>2. ~Push(h) /\ completed' = [completed EXCEPT ![e] = FALSE]
    BY <1>1, <1>5, <2>1 DEF Clear, Push, Does
  <2>3. \A f \in AnyEvent : plan[h][1] # <<"await", f>> /\ (plan[h][1] = <<"clear", f>> <=> f = e)
    BY <2>1
  <2>4. \A f \in AnyEvent : completed'[f] = IF plan[h][1] = <<"clear", f>> THEN FALSE ELSE completed[f]
    BY <1>0, <2>2, <2>3
  <2>5. plan[h][1][1] # "push"
    BY <2>1
  <2>6. QED
    BY <1>2, <1>4, <2>2, <2>3, <2>4, <2>5 DEF Quiet
<1>6. CASE Await(h)
  <2>1. PICK e \in AnyEvent : plan[h][1] = <<"await", e>>
    BY <1>1, <1>6, StepFacts DEF Await, Does
  <2>2. ~Push(h) /\ completed' = completed
    BY <1>1, <1>6, <2>1 DEF Await, Push, Does
  <2>3. completed[e]
    <3>1. ~UNCHANGED plan
      BY DEF Moves, Reshaped, MadeSteps
    <3>2. QED
      BY <1>1, <1>6, <2>1, <3>1 DEF Await
  <2>4. QED
    BY <1>2, <1>4, <2>1, <2>2, <2>3 DEF Quiet
<1>7. CASE Create(h) \/ Notify(h) \/ Collect(h) \/ Each(h) \/ Unregister(h) \/ RaiseStop(h) \/ Join(h)
  <2>1. plan[h][1][1] \in {"create", "notify", "collect", "each", "unregister", "stop", "join"}
    BY <1>1, <1>7 DEF Create, Notify, Collect, Each, Unregister, RaiseStop, Join, Does
  <2>2. ~Push(h) /\ completed' = completed
    BY <1>1, <1>7, <2>1 DEF Create, Notify, Collect, Each, Unregister, RaiseStop, Join, Push, Does
  <2>3. \A e \in AnyEvent : plan[h][1] # <<"clear", e>> /\ plan[h][1] # <<"await", e>>
    BY <2>1
  <2>4. QED
    BY <1>2, <1>4, <2>1, <2>2, <2>3 DEF Quiet
<1>8. QED
  BY <1>3, <1>5, <1>6, <1>7 DEF Call

-------------------------------------------------------------------------------
(* Events: the flag of an event speaks of its latest record *)

Armed(e) ==
  /\ ~completed[e] /\ covers[e] \subseteq ran
  /\ \A s \in Stream : \A n \in 1..Len(Queue(s)) : Queue(s)[n] # RecordOf(e)
AwaitsInv == \A h \in Host : AwaitsBetween(plan[h], h)
ClearInv ==
  \A e \in AnyEvent, h \in Host : \A n \in 1..Len(plan[h]) :
    plan[h][n][1] = "push" /\ plan[h][n][3] = RecordOf(e) =>
      \/ n - 1 \in 1..Len(plan[h]) /\ plan[h][n - 1] = <<"clear", e>>
      \/ n = 1 /\ Armed(e)
OpenInv ==
  \A e \in AnyEvent, h \in Host : \A n \in 1..Len(plan[h]) :
    Opens(plan[h][n], h, e) => completed[e] \/ \E m \in 1..n - 1 : plan[h][m] = <<"await", e>>
RecordInv ==
  \A e \in AnyEvent, s \in Stream : \A n \in 1..Len(Queue(s)) : Queue(s)[n] = RecordOf(e) =>
    /\ ~completed[e]
    /\ \A r \in Stream : \A m \in 1..Len(Queue(r)) : Queue(r)[m] = RecordOf(e) => r = s /\ m = n
EventInv == OwnsEvents(plan) /\ AwaitsInv /\ ClearInv /\ OpenInv /\ RecordInv

\* A job that is still to be launched has not run and is not in a queue.
LaunchInv ==
  /\ LaunchesOnce(plan)
  /\ \A j \in Job, h \in Host : \A n \in 1..Len(plan[h]) : Launches(plan[h][n], j) =>
       j \notin ran /\ \A s \in Stream : \A m \in 1..Len(Queue(s)) : Queue(s)[m] # RunOf(j)

\* What a task comes after has run, or is in front of it, or is covered by an event whose wait is.
Past(s, n) ==
  ran \cup {j \in Job : \E m \in 1..n - 1 : Queue(s)[m] = RunOf(j)}
      \cup {j \in Job : \E m \in 1..n - 1, e \in AnyEvent : Queue(s)[m] = WaitOf(e) /\ j \in covers[e]}
OrderInv ==
  /\ \A e \in AnyEvent : completed[e] => covers[e] \subseteq ran
  /\ \A j \in ran : needs[j] \subseteq ran
  /\ \A s \in Stream :
       /\ before[s] \subseteq Past(s, Len(Queue(s)) + 1)
       /\ \A n \in 1..Len(Queue(s)) :
            /\ \A e \in AnyEvent : Queue(s)[n] = RecordOf(e) => covers[e] \subseteq Past(s, n)
            /\ \A j \in Job : Queue(s)[n] = RunOf(j) => needs[j] \subseteq Past(s, n)
FlowInv == EventInv /\ LaunchInv /\ OrderInv

\* Where, among the steps a call makes up, the event of its thread is recorded and opened.
LEMMA MadeOrder ==
  ASSUME NEW h \in Host, NEW b \in Nat, Moves(h, b), NEW n \in 1..b
  PROVE  /\ \A e \in AnyEvent : Records(plan'[h][n], e) => e = h
         /\ \A e \in AnyEvent : Opens(plan'[h][n], h, e) =>
              e = h /\ ((b = 5 /\ n = 5 /\ plan'[h][4] = <<"await", h>>) \/ n = 1)
         /\ n = 1 => Opens(plan[h][1], h, h)
         /\ \A e \in AnyEvent : plan'[h][n] = <<"clear", e>> =>
              e = h /\ n = 1 /\ b = 5 /\ plan'[h][4] = <<"await", h>>
         /\ plan'[h][n][1] = "push" =>
              n = 2 /\ plan'[h][1] = <<"clear", h>> /\ plan'[h][2][3] = RecordOf(h)
<1>1. CASE b = 1
  <2>1. n = 1 /\ plan[h][1][1] = "collect"
    BY <1>1 DEF Moves, MadeSteps
  <2>2. PICK q \in Seq(Stream) : plan'[h][1] = <<"each", q>>
    BY <1>1 DEF Moves, MadeSteps
  <2>3. QED
    BY <2>1, <2>2 DEF Records, Opens
<1>2. CASE b = 5
  <2>1. PICK q \in Seq(Stream) :
          /\ plan[h][1] = <<"each", q>> /\ q # <<>>
          /\ plan'[h][1] = <<"clear", h>> /\ plan'[h][2] = <<"push", q[1], <<"record", h>>>>
          /\ plan'[h][3] = <<"notify", q[1]>> /\ plan'[h][4] = <<"await", h>>
          /\ plan'[h][5] = <<"each", Tail(q)>>
    BY <1>2 DEF Moves, MadeSteps
  <2>2. n = 1 \/ n = 2 \/ n = 3 \/ n = 4 \/ n = 5
    BY <1>2
  <2>3. CASE n = 1
    BY <1>2, <2>1, <2>3 DEF Records, Opens
  <2>4. CASE n = 2
    BY <1>2, <2>1, <2>4 DEF Records, Opens, RecordOf
  <2>5. CASE n = 3 \/ n = 4
    BY <2>1, <2>5 DEF Records, Opens
  <2>6. CASE n = 5
    BY <1>2, <2>1, <2>6 DEF Records, Opens
  <2>7. QED
    BY <2>2, <2>3, <2>4, <2>5, <2>6
<1>3. b # 0
  OBVIOUS
<1>4. QED
  BY <1>1, <1>2, <1>3 DEF Moves, MadeSteps

\* A step that records an event after a call: it was there before, or the event is the thread's own.
LEMMA RecordsFrom ==
  ASSUME TypeOK, NEW h \in Host, NEW b \in Nat, Moves(h, b),
         NEW k \in Host, NEW n \in 1..Len(plan'[k]), NEW e \in AnyEvent, Records(plan'[k][n], e)
  PROVE  \/ k = h /\ e = h /\ n \in 1..b
         \/ \E m \in 1..Len(plan[k]) : OldStep(h, b, k, n, m) /\ Records(plan[k][m], e)
<1>0. plan \in [Host -> Seq(Step)] /\ registry \subseteq Stream
  BY DEF TypeOK
<1>1. CASE k = h /\ n \in 1..b
  BY <1>1, MadeOrder
<1>2. CASE \E m \in 1..Len(plan[k]) : OldStep(h, b, k, n, m)
  BY <1>2 DEF OldStep
<1>3. QED
  BY <1>0, <1>1, <1>2, WhereFrom

\* Each event keeps its owner.
LEMMA OwnsEventsStep ==
  ASSUME TypeOK, OwnsEvents(plan), NEW h \in Host, NEW b \in Nat, Moves(h, b)
  PROVE  OwnsEvents(plan')
<1>1. ASSUME NEW e \in AnyEvent, NEW i \in Host, NEW m \in 1..Len(plan'[i]), Records(plan'[i][m], e)
      PROVE  (i = h /\ e = h) \/ \E u \in 1..Len(plan[i]) : Records(plan[i][u], e)
  BY <1>1, RecordsFrom
<1>2. ASSUME NEW e \in AnyEvent, NEW i \in Host, NEW m \in 1..Len(plan'[i]), Records(plan'[i][m], e),
             e \in Host
      PROVE  e = i
  BY <1>1, <1>2 DEF OwnsEvents
<1>3. ASSUME NEW e \in AnyEvent, NEW i \in Host, NEW k \in Host,
             NEW m \in 1..Len(plan'[i]), NEW n \in 1..Len(plan'[k]),
             Records(plan'[i][m], e), Records(plan'[k][n], e)
      PROVE  i = k
  <2>1. CASE e \in Host
    BY <1>2, <1>3, <2>1
  <2>2. CASE e \notin Host
    <3>1. PICK u \in 1..Len(plan[i]) : Records(plan[i][u], e)
      BY <1>1, <1>3, <2>2
    <3>2. PICK v \in 1..Len(plan[k]) : Records(plan[k][v], e)
      BY <1>1, <1>3, <2>2
    <3>3. QED
      BY <3>1, <3>2 DEF OwnsEvents
  <2>3. QED
    BY <2>1, <2>2
<1>4. QED
  BY <1>2, <1>3 DEF OwnsEvents

\* Between two openings of an event its owner waits for it.
LEMMA AwaitsStep ==
  ASSUME TypeOK, AwaitsInv, NEW h \in Host, NEW b \in Nat, Moves(h, b)
  PROVE  AwaitsInv'
<1>0. plan \in [Host -> Seq(Step)] /\ registry \subseteq Stream
  BY DEF TypeOK
<1>1. ASSUME NEW k \in Host, k # h PROVE AwaitsBetween(plan'[k], k)
  BY <1>1 DEF AwaitsInv, Moves, Reshaped
<1>2. ASSUME NEW e \in AnyEvent, NEW m \in 1..Len(plan'[h]), NEW n \in 1..Len(plan'[h]),
             m < n, plan'[h][m] = <<"clear", e>>, Opens(plan'[h][n], h, e)
      PROVE  \E i \in m + 1..n - 1 : plan'[h][i] = <<"await", e>>
  <2>0. m \in Int /\ n \in Int /\ b \in Int /\ m >= 1
    OBVIOUS
  <2>1. CASE \E u \in 1..Len(plan[h]) : OldStep(h, b, h, m, u)
    <3>1. PICK u \in 1..Len(plan[h]) : OldStep(h, b, h, m, u)
      BY <2>1
    <3>2. m > b /\ u = m + 1 - b /\ u >= 2
      BY <3>1 DEF OldStep
    <3>3. ~(n \in 1..b)
      BY <1>2, <2>0, <3>2
    <3>4. PICK v \in 1..Len(plan[h]) : OldStep(h, b, h, n, v)
      BY <1>0, <3>3, WhereFrom
    <3>5. v = n + 1 - b
      BY <3>4 DEF OldStep
    <3>6. plan[h][u] = <<"clear", e>> /\ Opens(plan[h][v], h, e) /\ u < v
      BY <1>2, <2>0, <3>1, <3>2, <3>4, <3>5 DEF OldStep
    <3>7. PICK i \in u + 1..v - 1 : plan[h][i] = <<"await", e>>
      BY <3>6 DEF AwaitsInv, AwaitsBetween
    <3>8. i \in 2..Len(plan[h]) /\ i + b - 1 \in m + 1..n - 1
      BY <1>0, <2>0, <3>2, <3>5, <3>7, PlanSteps
    <3>9. plan'[h][i + b - 1] = <<"await", e>>
      BY <1>0, <3>7, <3>8, WhereTo
    <3>10. QED
      BY <3>8, <3>9
  <2>2. CASE m \in 1..b
    <3>1. e = h /\ m = 1 /\ b = 5 /\ plan'[h][4] = <<"await", h>>
      BY <1>2, <2>2, MadeOrder
    <3>2. n > 4
      <4>1. CASE n \in 1..b
        BY <1>2, <2>0, <3>1, <4>1, MadeOrder
      <4>2. CASE n \notin 1..b
        BY <2>0, <3>1, <4>2
      <4>3. QED
        BY <4>1, <4>2
    <3>3. QED
      BY <2>0, <3>1, <3>2
  <2>3. QED
    BY <1>0, <2>1, <2>2, WhereFrom
<1>3. AwaitsBetween(plan'[h], h)
  BY <1>2 DEF AwaitsBetween
<1>4. QED
  BY <1>1, <1>3 DEF AwaitsInv

\* A queue of a stream is a sequence of tasks.
LEMMA QueueTask ==
  ASSUME TypeOK, NEW s \in Stream
  PROVE  Queue(s) \in Seq(Task)
<1>1. tasks[s] \in Seq(Task) /\ (worker[s] \in {"busy", "blocked"} => task[s] \in Task)
  BY DEF TypeOK
<1>2. QED
  BY <1>1, FrontOf DEF Queue

\* Only the workers raise the flag of an event; it is lowered by a clear, and read by an await.
LEMMA FlagStep ==
  ASSUME TypeOK, NEW h \in Host,
         (\E s \in Stream, t \in Task : Pushed(h, s, t)) \/ (Quiet(h) /\ plan[h][1][1] # "push")
  PROVE  \A e \in AnyEvent :
           /\ completed[e] => completed'[e] \/ plan[h][1] = <<"clear", e>>
           /\ completed'[e] => completed[e]
           /\ plan[h][1] = <<"clear", e>> => ~completed'[e]
           /\ plan[h][1] = <<"await", e>> => completed[e] /\ completed'[e]
<1>1. CASE \E s \in Stream, t \in Task : Pushed(h, s, t)
  <2>1. completed' = completed /\ plan[h][1][1] = "push"
    BY <1>1 DEF Pushed
  <2>2. QED
    BY <2>1
<1>2. CASE Quiet(h)
  <2>1. ASSUME NEW e \in AnyEvent, plan[h][1] = <<"await", e>> PROVE plan[h][1] # <<"clear", e>>
    BY <2>1
  <2>2. QED
    BY <1>2, <2>1 DEF Quiet
<1>3. QED
  BY <1>1, <1>2

\* A thread that is to open an event finds it completed, or waits for it first.
LEMMA OpenStep ==
  ASSUME ProgramAssumption, TypeInv, OwnsEvents(plan), AwaitsInv, OpenInv,
         NEW h \in Host, Call(h), NEW b \in Nat, Moves(h, b)
  PROVE  OpenInv'
<1>0. TypeOK /\ plan \in [Host -> Seq(Step)] /\ registry \subseteq Stream /\ 1 \in 1..Len(plan[h])
  BY MovesFacts DEF TypeInv, TypeOK
<1>1. \A e \in AnyEvent :
        /\ completed[e] => completed'[e] \/ plan[h][1] = <<"clear", e>>
        /\ plan[h][1] = <<"await", e>> => completed'[e]
  BY <1>0, CallQueues, FlagStep
<1> SUFFICES ASSUME NEW e \in AnyEvent, NEW k \in Host, NEW n \in 1..Len(plan'[k]),
                    Opens(plan'[k][n], k, e)
             PROVE  completed'[e] \/ \E m \in 1..n - 1 : plan'[k][m] = <<"await", e>>
  BY DEF OpenInv
<1>2. CASE k = h /\ n \in 1..b
  <2>1. CASE b = 5 /\ n = 5 /\ plan'[h][4] = <<"await", h>> /\ e = h
    BY <1>2, <2>1
  <2>2. CASE n = 1 /\ e = h
    <3>1. completed[h]
      BY <1>0, <1>2, <2>2, MadeOrder DEF OpenInv
    <3>2. plan[h][1][1] \in {"collect", "each"}
      BY <1>2 DEF Moves, MadeSteps
    <3>3. plan[h][1] # <<"clear", h>>
      BY <3>2
    <3>4. QED
      BY <1>1, <2>2, <3>1, <3>3
  <2>3. QED
    BY <1>2, <2>1, <2>2, MadeOrder
<1>3. CASE k = h /\ \E m \in 1..Len(plan[k]) : OldStep(h, b, k, n, m)
  <2>1. PICK m \in 1..Len(plan[h]) : OldStep(h, b, h, n, m)
    BY <1>3
  <2>2. m >= 2 /\ n > b /\ m = n + 1 - b /\ Opens(plan[h][m], h, e)
    BY <1>3, <2>1 DEF OldStep
  <2>3. ASSUME NEW i \in 2..m - 1, plan[h][i] = <<"await", e>>
        PROVE  \E u \in 1..n - 1 : plan'[h][u] = <<"await", e>>
    <3>1. i \in 2..Len(plan[h]) /\ i + b - 1 \in 1..n - 1
      BY <1>0, <2>2, PlanSteps
    <3>2. plan'[h][i + b - 1] = <<"await", e>>
      BY <1>0, <2>3, <3>1, WhereTo
    <3>3. QED
      BY <3>1, <3>2
  <2>4. CASE \E i \in 1..m - 1 : plan[h][i] = <<"await", e>>
    <3>1. PICK i \in 1..m - 1 : plan[h][i] = <<"await", e>>
      BY <2>4
    <3>2. CASE i = 1
      BY <1>1, <3>1, <3>2
    <3>3. CASE i # 1
      BY <1>3, <2>3, <3>1, <3>3, SMTT(30)
    <3>4. QED
      BY <3>2, <3>3
  <2>5. CASE completed[e]
    <3>1. CASE plan[h][1] = <<"clear", e>>
      <4>1. 1 < m /\ m \in 1..Len(plan[h])
        BY <2>2
      <4>2. PICK i \in 1 + 1..m - 1 : plan[h][i] = <<"await", e>>
        BY <1>0, <2>2, <3>1, <4>1 DEF AwaitsInv, AwaitsBetween
      <4>3. QED
        BY <1>3, <2>3, <4>2
    <3>2. QED
      BY <1>1, <2>5, <3>1
  <2>6. QED
    BY <2>2, <2>4, <2>5 DEF OpenInv
<1>4. CASE k # h
  <2>1. plan'[k] = plan[k]
    BY <1>4 DEF Moves, Reshaped
  <2>2. CASE completed[e]
    <3>1. ASSUME plan[h][1] = <<"clear", e>> PROVE FALSE
      <4>1. Records(plan[h][1], e)
        BY <3>1 DEF Records
      <4>2. e \notin Host \/ e = h
        BY <1>0, <4>1 DEF OwnsEvents
      <4>3. plan[k][n] = <<"clear", e>>
        BY <1>4, <2>1, <4>2 DEF Opens
      <4>4. QED
        BY <1>0, <1>4, <2>1, <4>1, <4>3 DEF OwnsEvents, Records
    <3>2. QED
      BY <1>1, <2>2, <3>1
  <2>3. QED
    BY <2>1, <2>2 DEF OpenInv
<1>5. QED
  BY <1>0, <1>2, <1>3, <1>4, WhereFrom

\* An event is armed until its record is pushed.
LEMMA ArmedStays ==
  ASSUME TypeOK, NEW h \in Host, NEW e \in AnyEvent, Armed(e), ran' = ran,
         \/ \E s \in Stream, t \in Task : Pushed(h, s, t) /\ t # RecordOf(e)
         \/ Quiet(h)
  PROVE  Armed(e)'
<1>0. covers \in [AnyEvent -> SUBSET Job] /\ completed \in [AnyEvent -> BOOLEAN]
  BY DEF TypeOK
<1>1. CASE Quiet(h)
  BY <1>1 DEF Quiet, Armed
<1>2. ASSUME NEW s \in Stream, NEW t \in Task, Pushed(h, s, t), t # RecordOf(e) PROVE Armed(e)'
  <2>1. covers'[e] = covers[e]
    BY <1>0, <1>2, TaskFacts DEF Pushed, Note, RecordOf
  <2>2. completed' = completed /\ Queue(s)' = Append(Queue(s), t)
        /\ \A r \in Stream : r # s => Queue(r)' = Queue(r)
    BY <1>2 DEF Pushed
  <2>3. ASSUME NEW n \in 1..Len(Queue(s)') PROVE Queue(s)'[n] # RecordOf(e)
    <3> DEFINE q == Queue(s)
    <3>1. q \in Seq(Task) /\ \A i \in 1..Len(q) : q[i] # RecordOf(e)
      BY QueueTask DEF Armed
    <3>2. n \in 1..Len(Append(q, t)) /\ Queue(s)' = Append(q, t)
      BY <2>2
    <3> HIDE DEF q
    <3>3. /\ Len(q) \in Nat /\ Len(Append(q, t)) = Len(q) + 1 /\ Append(q, t)[Len(q) + 1] = t
          /\ \A i \in 1..Len(q) : Append(q, t)[i] = q[i]
      BY <3>1, AppendProperties, LenProperties
    <3>4. n \in 1..Len(q) \/ n = Len(q) + 1
      BY <3>2, <3>3
    <3>5. QED
      BY <1>2, <3>1, <3>2, <3>3, <3>4
  <2>4. QED
    BY <2>1, <2>2, <2>3 DEF Armed
<1>3. QED
  BY <1>1, <1>2

\* Where a task of a queue comes from when a task is pushed
LEMMA AfterPush ==
  ASSUME TypeOK, NEW h \in Host, NEW s \in Stream, NEW t \in Task, Pushed(h, s, t), NEW r \in Stream
  PROVE  /\ Len(Queue(r)) \in Nat /\ Len(Queue(r))' = IF r = s THEN Len(Queue(r)) + 1 ELSE Len(Queue(r))
         /\ \A n \in 1..Len(Queue(r)) : Queue(r)'[n] = Queue(r)[n]
         /\ r = s => Queue(r)'[Len(Queue(r)) + 1] = t
<1> DEFINE q == Queue(r)
           v == Queue(r)'
<1>1. q \in Seq(Task) /\ v = IF r = s THEN Append(q, t) ELSE q
  BY QueueTask DEF Pushed
<1>2. Len(Queue(r))' = Len(v)
  OBVIOUS
<1> HIDE DEF q, v
<1>3. /\ Len(q) \in Nat /\ Len(Append(q, t)) = Len(q) + 1 /\ Append(q, t)[Len(q) + 1] = t
      /\ \A i \in 1..Len(q) : Append(q, t)[i] = q[i]
  BY <1>1, AppendProperties, LenProperties
<1>4. /\ Len(q) \in Nat /\ Len(v) = IF r = s THEN Len(q) + 1 ELSE Len(q)
      /\ \A i \in 1..Len(q) : v[i] = q[i]
      /\ r = s => v[Len(q) + 1] = t
  BY <1>1, <1>3
<1>5. QED
  BY <1>2, <1>4 DEF q, v

\* and when the first task is done
LEMMA AfterPop ==
  ASSUME TypeOK, NEW s \in Stream, Popped(s)
  PROVE  /\ Len(Queue(s)) \in Nat \ {0} /\ Len(Queue(s))' = Len(Queue(s)) - 1
         /\ \A n \in 1..Len(Queue(s))' : Queue(s)'[n] = Queue(s)[n + 1]
<1> DEFINE q == Queue(s)
           v == Queue(s)'
<1>1. q \in Seq(Task) /\ q # <<>> /\ v = Tail(q)
  BY QueueTask DEF Popped
<1>2. Len(Queue(s))' = Len(v)
  OBVIOUS
<1> HIDE DEF q, v
<1>3. /\ Len(q) \in Nat \ {0} /\ Len(Tail(q)) = Len(q) - 1
      /\ \A i \in 1..Len(Tail(q)) : Tail(q)[i] = q[i + 1]
  BY <1>1, HeadTailProperties, EmptySeq, LenProperties
<1>4. QED
  BY <1>1, <1>2, <1>3 DEF q, v

\* A record is pushed right behind the clear of its event, or its event is armed.
LEMMA ClearStep ==
  ASSUME ProgramAssumption, TypeInv, EventInv, \A e \in AnyEvent : completed[e] => covers[e] \subseteq ran,
         NEW h \in Host, Call(h), NEW b \in Nat, Moves(h, b)
  PROVE  ClearInv'
<1>0. /\ TypeOK /\ plan \in [Host -> Seq(Step)] /\ registry \subseteq Stream /\ 1 \in 1..Len(plan[h])
      /\ OwnsEvents(plan) /\ ClearInv /\ OpenInv /\ RecordInv
  BY MovesFacts DEF TypeInv, TypeOK, EventInv
<1>1. /\ ran' = ran
      /\ (\E s \in Stream, t \in Task : Pushed(h, s, t)) \/ (Quiet(h) /\ plan[h][1][1] # "push")
  BY CallQueues
<1> SUFFICES ASSUME NEW e \in AnyEvent, NEW k \in Host, NEW n \in 1..Len(plan'[k]),
                    plan'[k][n][1] = "push", plan'[k][n][3] = RecordOf(e)
             PROVE  \/ n - 1 \in 1..Len(plan'[k]) /\ plan'[k][n - 1] = <<"clear", e>>
                    \/ n = 1 /\ Armed(e)'
  BY DEF ClearInv
<1>2. CASE k = h /\ n \in 1..b
  <2>1. n = 2 /\ plan'[h][1] = <<"clear", h>> /\ plan'[h][2][3] = RecordOf(h)
    BY <1>2, MadeOrder
  <2>2. e = h
    BY <1>2, <2>1 DEF RecordOf
  <2>3. n - 1 = 1 /\ 1 \in 1..Len(plan'[k])
    BY <2>1
  <2>4. QED
    BY <1>2, <2>1, <2>2, <2>3
<1>3. CASE k = h /\ \E m \in 1..Len(plan[k]) : OldStep(h, b, k, n, m)
  <2>1. PICK m \in 1..Len(plan[h]) : OldStep(h, b, h, n, m)
    BY <1>3
  <2>2. m >= 2 /\ n > b /\ m = n + 1 - b /\ plan[h][m][1] = "push" /\ plan[h][m][3] = RecordOf(e)
    BY <1>3, <2>1 DEF OldStep
  <2>3. m - 1 \in 1..Len(plan[h]) /\ plan[h][m - 1] = <<"clear", e>>
    BY <1>0, <2>2 DEF ClearInv
  <2>4. CASE m = 2
    <3>1. plan[h][1] = <<"clear", e>>
      BY <2>3, <2>4
    <3>2. b = 0
      <4>1. plan[h][1][1] = "clear"
        BY <3>1
      <4>2. QED
        BY <4>1 DEF Moves, MadeSteps
    <3>3. n = 1
      BY <2>2, <2>4, <3>2
    <3>4. completed[e] /\ covers[e] \subseteq ran
      BY <1>0, <3>1 DEF OpenInv, Opens
    <3>5. Quiet(h)
      BY <1>1, <3>1 DEF Pushed
    <3>6. ~completed'[e] /\ covers' = covers /\ \A s \in Stream : Queue(s)' = Queue(s)
      BY <3>1, <3>5 DEF Quiet
    <3>7. ASSUME NEW s \in Stream, NEW i \in 1..Len(Queue(s)) PROVE Queue(s)[i] # RecordOf(e)
      BY <1>0, <3>4 DEF RecordInv
    <3>8. Armed(e)'
      BY <1>1, <3>4, <3>6, <3>7 DEF Armed
    <3>9. QED
      BY <3>3, <3>8
  <2>5. CASE m # 2
    <3>1. m - 1 \in 2..Len(plan[h]) /\ (m - 1) + b - 1 = n - 1
      BY <2>2, <2>3, <2>5
    <3>2. (m - 1) + b - 1 \in 1..Len(plan'[h]) /\ plan'[h][(m - 1) + b - 1] = plan[h][m - 1]
      BY <1>0, <3>1, WhereTo
    <3>3. QED
      BY <1>3, <2>3, <3>1, <3>2
  <2>6. QED
    BY <2>4, <2>5
<1>4. CASE k # h
  <2>1. plan'[k] = plan[k]
    BY <1>4 DEF Moves, Reshaped
  <2>2. CASE n = 1 /\ Armed(e)
    <3>1. Records(plan[k][n], e)
      BY <2>1 DEF Records
    <3>2. ~Records(plan[h][1], e)
      BY <1>0, <1>4, <2>1, <3>1 DEF OwnsEvents
    <3>3. ASSUME NEW s \in Stream, NEW t \in Task, Pushed(h, s, t) PROVE t # RecordOf(e)
      BY <3>2, <3>3 DEF Pushed, Records
    <3>4. Armed(e)'
      BY <1>0, <1>1, <2>2, <3>3, ArmedStays
    <3>5. QED
      BY <2>2, <3>4
  <2>3. QED
    BY <1>0, <2>1, <2>2 DEF ClearInv
<1>5. QED
  BY <1>0, <1>2, <1>3, <1>4, WhereFrom

\* At most one record of an event is in the queues, and its flag is lowered as long as it is.
LEMMA RecordStep ==
  ASSUME ProgramAssumption, TypeInv, ClearInv, RecordInv,
         NEW h \in Host, Call(h), NEW b \in Nat, Moves(h, b)
  PROVE  RecordInv'
<1>0. TypeOK /\ 1 \in 1..Len(plan[h])
  BY MovesFacts DEF TypeInv
<1>1. CASE Quiet(h)
  <2>1. \A e \in AnyEvent : ~completed[e] => ~completed'[e]
    BY <1>1 DEF Quiet
  <2>2. \A s \in Stream : Queue(s)' = Queue(s) /\ Len(Queue(s))' = Len(Queue(s))
    BY <1>1 DEF Quiet
  <2>3. QED
    BY <2>1, <2>2 DEF RecordInv
<1>2. ASSUME NEW s \in Stream, NEW t \in Task, Pushed(h, s, t) PROVE RecordInv'
  <2>1. plan[h][1][1] = "push" /\ plan[h][1][3] = t /\ completed' = completed
    BY <1>2 DEF Pushed
  <2>2. ASSUME NEW e \in AnyEvent, t = RecordOf(e) PROVE Armed(e)
    BY <1>0, <2>1, <2>2 DEF ClearInv
  <2>3. ASSUME NEW e \in AnyEvent, NEW r \in Stream, NEW n \in 1..Len(Queue(r))', Queue(r)'[n] = RecordOf(e)
        PROVE  \/ n \in 1..Len(Queue(r)) /\ Queue(r)[n] = RecordOf(e) /\ t # RecordOf(e)
               \/ r = s /\ n = Len(Queue(s)) + 1 /\ t = RecordOf(e) /\ Armed(e)
    <3>1. n \in 1..Len(Queue(r)) \/ (r = s /\ n = Len(Queue(s)) + 1)
      BY <1>0, <1>2, AfterPush
    <3>2. CASE n \in 1..Len(Queue(r))
      <4>1. Queue(r)[n] = RecordOf(e)
        BY <1>0, <1>2, <2>3, <3>2, AfterPush
      <4>2. QED
        BY <2>2, <3>2, <4>1 DEF Armed
    <3>3. CASE r = s /\ n = Len(Queue(s)) + 1
      BY <1>0, <1>2, <2>2, <2>3, <3>3, AfterPush
    <3>4. QED
      BY <3>1, <3>2, <3>3
  <2>4. ASSUME NEW e \in AnyEvent, NEW r \in Stream, NEW n \in 1..Len(Queue(r))', Queue(r)'[n] = RecordOf(e)
        PROVE  ~completed'[e]
    BY <2>1, <2>3, <2>4 DEF RecordInv, Armed
  <2>5. ASSUME NEW e \in AnyEvent, NEW r \in Stream, NEW n \in 1..Len(Queue(r))', Queue(r)'[n] = RecordOf(e),
               NEW v \in Stream, NEW m \in 1..Len(Queue(v))', Queue(v)'[m] = RecordOf(e)
        PROVE  v = r /\ m = n
    BY <2>3, <2>5 DEF RecordInv
  <2>6. QED
    BY <2>4, <2>5 DEF RecordInv
<1>3. QED
  BY <1>1, <1>2, CallQueues

\* The worker of a stream raises the flag of an event as it takes its only record out of the queues.
LEMMA EventWork ==
  ASSUME ProgramAssumption, TypeInv, EventInv, (\E s \in Stream : Work(s)) \/ Spurious
  PROVE  EventInv'
<1>0. TypeOK /\ plan \in [Host -> Seq(Step)] /\ completed \in [AnyEvent -> BOOLEAN]
  BY DEF TypeInv, TypeOK
<1>1. plan' = plan /\ covers' = covers /\ (SameQueues \/ \E s \in Stream : Popped(s))
  BY <1>0, WorkQueues DEF historyVars
<1>2. OwnsEvents(plan') /\ AwaitsInv'
  BY <1>1 DEF EventInv, AwaitsInv
<1>3. CASE SameQueues
  <2>1. /\ \A s \in Stream : Queue(s)' = Queue(s) /\ Len(Queue(s))' = Len(Queue(s))
        /\ ran' = ran /\ completed' = completed
    BY <1>3 DEF SameQueues
  <2>2. \A e \in AnyEvent : Armed(e) => Armed(e)'
    BY <1>1, <2>1 DEF Armed
  <2>3. ClearInv'
    BY <1>1, <2>2 DEF EventInv, ClearInv
  <2>4. OpenInv'
    BY <1>1, <2>1 DEF EventInv, OpenInv
  <2>5. RecordInv'
    BY <2>1 DEF EventInv, RecordInv
  <2>6. QED
    BY <1>2, <2>3, <2>4, <2>5 DEF EventInv
<1>4. ASSUME NEW s \in Stream, Popped(s) PROVE EventInv'
  <2>1. /\ Len(Queue(s)) \in Nat \ {0} /\ Len(Queue(s))' = Len(Queue(s)) - 1
        /\ \A n \in 1..Len(Queue(s))' : Queue(s)'[n] = Queue(s)[n + 1]
    BY <1>0, <1>4, AfterPop
  <2>2. \A r \in Stream : r # s => Queue(r)' = Queue(r) /\ Len(Queue(r))' = Len(Queue(r))
    BY <1>4 DEF Popped
  <2>3. ran \subseteq ran' /\ \A e \in AnyEvent : completed'[e] => completed[e] \/ Queue(s)[1] = RecordOf(e)
    BY <1>0, <1>4 DEF Popped, RunsTask, PassesWait, Completes
  <2>4. \A e \in AnyEvent : completed[e] => completed'[e]
    BY <1>0, <1>4 DEF Popped, RunsTask, PassesWait, Completes
  <2>5. ASSUME NEW r \in Stream, NEW n \in 1..Len(Queue(r))'
        PROVE  \/ r # s /\ n \in 1..Len(Queue(r)) /\ Queue(r)'[n] = Queue(r)[n]
               \/ r = s /\ n + 1 \in 1..Len(Queue(s)) /\ n + 1 # 1 /\ Queue(s)'[n] = Queue(s)[n + 1]
    BY <2>1, <2>2
  <2>6. \A e \in AnyEvent : Armed(e) => Armed(e)'
    <3> SUFFICES ASSUME NEW e \in AnyEvent, Armed(e) PROVE Armed(e)'
      OBVIOUS
    <3>1. ~completed'[e]
      BY <2>1, <2>3 DEF Armed
    <3>2. covers'[e] \subseteq ran'
      BY <1>1, <2>3 DEF Armed
    <3>3. ASSUME NEW r \in Stream, NEW n \in 1..Len(Queue(r))' PROVE Queue(r)'[n] # RecordOf(e)
      BY <2>5 DEF Armed
    <3>4. QED
      BY <3>1, <3>2, <3>3 DEF Armed
  <2>7. ClearInv'
    BY <1>1, <2>6 DEF EventInv, ClearInv
  <2>8. OpenInv'
    BY <1>1, <2>4 DEF EventInv, OpenInv
  <2>9. ASSUME NEW e \in AnyEvent, NEW r \in Stream, NEW n \in 1..Len(Queue(r))', Queue(r)'[n] = RecordOf(e)
        PROVE  ~completed'[e]
    <3>1. PICK i \in 1..Len(Queue(r)) : Queue(r)[i] = RecordOf(e) /\ (r = s => i # 1)
      BY <2>5, <2>9
    <3>2. ~completed[e] /\ Queue(s)[1] # RecordOf(e)
      BY <2>1, <3>1 DEF EventInv, RecordInv
    <3>3. QED
      BY <2>3, <3>2
  <2>10. ASSUME NEW e \in AnyEvent, NEW r \in Stream, NEW n \in 1..Len(Queue(r))', Queue(r)'[n] = RecordOf(e),
                NEW v \in Stream, NEW m \in 1..Len(Queue(v))', Queue(v)'[m] = RecordOf(e)
         PROVE  v = r /\ m = n
    <3>1. CASE r # s /\ v # s
      BY <2>2, <2>10, <3>1 DEF EventInv, RecordInv
    <3>2. CASE r = s /\ v = s
      <4>1. n + 1 \in 1..Len(Queue(s)) /\ Queue(s)[n + 1] = RecordOf(e)
        BY <2>5, <2>10, <3>2
      <4>2. m + 1 \in 1..Len(Queue(s)) /\ Queue(s)[m + 1] = RecordOf(e)
        BY <2>5, <2>10, <3>2
      <4>3. m + 1 = n + 1 /\ m \in Int /\ n \in Int
        BY <4>1, <4>2 DEF EventInv, RecordInv
      <4>4. QED
        BY <3>2, <4>3
    <3>3. CASE r = s /\ v # s
      <4>1. n + 1 \in 1..Len(Queue(s)) /\ Queue(s)[n + 1] = RecordOf(e)
        BY <2>5, <2>10, <3>3
      <4>2. m \in 1..Len(Queue(v)) /\ Queue(v)[m] = RecordOf(e)
        BY <2>5, <2>10, <3>3
      <4>3. QED
        BY <3>3, <4>1, <4>2 DEF EventInv, RecordInv
    <3>4. CASE r # s /\ v = s
      <4>1. n \in 1..Len(Queue(r)) /\ Queue(r)[n] = RecordOf(e)
        BY <2>5, <2>10, <3>4
      <4>2. m + 1 \in 1..Len(Queue(s)) /\ Queue(s)[m + 1] = RecordOf(e)
        BY <2>5, <2>10, <3>4
      <4>3. QED
        BY <3>4, <4>1, <4>2 DEF EventInv, RecordInv
    <3>5. QED
      BY <3>1, <3>2, <3>3, <3>4
  <2>11. RecordInv'
    BY <2>9, <2>10 DEF RecordInv
  <2>12. QED
    BY <1>2, <2>7, <2>8, <2>11 DEF EventInv
<1>5. QED
  BY <1>1, <1>3, <1>4

\* A call keeps each job a single launch.
LEMMA LaunchStep ==
  ASSUME ProgramAssumption, TypeInv, LaunchInv, NEW h \in Host, Call(h), NEW b \in Nat, Moves(h, b)
  PROVE  LaunchInv'
<1>0. TypeOK /\ plan \in [Host -> Seq(Step)] /\ registry \subseteq Stream /\ 1 \in 1..Len(plan[h])
  BY MovesFacts DEF TypeInv, TypeOK
<1>1. ASSUME NEW j \in Job, NEW k \in Host, NEW n \in 1..Len(plan'[k]), Launches(plan'[k][n], j)
      PROVE  \E m \in 1..Len(plan[k]) : OldStep(h, b, k, n, m) /\ Launches(plan[k][m], j)
  <2>1. CASE k = h /\ n \in 1..b
    BY <1>1, <2>1, MadeOrder DEF Launches, RunOf, RecordOf
  <2>2. CASE \E m \in 1..Len(plan[k]) : OldStep(h, b, k, n, m)
    BY <1>1, <2>2 DEF OldStep
  <2>3. QED
    BY <1>0, <2>1, <2>2, WhereFrom
<1>2. ASSUME NEW j \in Job, NEW i \in Host, NEW k \in Host,
             NEW m \in 1..Len(plan'[i]), NEW n \in 1..Len(plan'[k]),
             Launches(plan'[i][m], j), Launches(plan'[k][n], j)
      PROVE  i = k /\ m = n
  <2>1. PICK u \in 1..Len(plan[i]) : OldStep(h, b, i, m, u) /\ Launches(plan[i][u], j)
    BY <1>1, <1>2
  <2>2. PICK v \in 1..Len(plan[k]) : OldStep(h, b, k, n, v) /\ Launches(plan[k][v], j)
    BY <1>1, <1>2
  <2>3. i = k /\ u = v
    BY <2>1, <2>2 DEF LaunchInv, LaunchesOnce
  <2>4. m \in Int /\ n \in Int /\ b \in Int
    OBVIOUS
  <2>5. QED
    BY <2>1, <2>2, <2>3, <2>4 DEF OldStep
<1>3. LaunchesOnce(plan')
  BY <1>2 DEF LaunchesOnce
<1>4. ASSUME NEW j \in Job, NEW k \in Host, NEW n \in 1..Len(plan'[k]), Launches(plan'[k][n], j)
      PROVE  j \notin ran' /\ \A s \in Stream : \A m \in 1..Len(Queue(s))' : Queue(s)'[m] # RunOf(j)
  <2>1. PICK u \in 1..Len(plan[k]) : OldStep(h, b, k, n, u) /\ Launches(plan[k][u], j)
    BY <1>1, <1>4
  <2>2. j \notin ran /\ \A s \in Stream : \A m \in 1..Len(Queue(s)) : Queue(s)[m] # RunOf(j)
    BY <2>1 DEF LaunchInv
  <2>3. ~Launches(plan[h][1], j)
    BY <1>0, <2>1 DEF LaunchInv, LaunchesOnce, OldStep
  <2>4. CASE Quiet(h)
    <3>1. \A s \in Stream : Queue(s)' = Queue(s) /\ Len(Queue(s))' = Len(Queue(s))
      BY <2>4 DEF Quiet
    <3>2. QED
      BY <2>2, <3>1, CallQueues
  <2>5. ASSUME NEW r \in Stream, NEW t \in Task, Pushed(h, r, t)
        PROVE  \A s \in Stream : \A m \in 1..Len(Queue(s))' : Queue(s)'[m] # RunOf(j)
    <3>1. t # RunOf(j)
      BY <2>3, <2>5 DEF Pushed, Launches
    <3>2. ASSUME NEW s \in Stream, NEW m \in 1..Len(Queue(s))' PROVE Queue(s)'[m] # RunOf(j)
      <4>1. CASE m \in 1..Len(Queue(s))
        BY <1>0, <2>2, <2>5, <4>1, AfterPush
      <4>2. CASE m \notin 1..Len(Queue(s))
        <5>1. s = r /\ m = Len(Queue(s)) + 1
          BY <1>0, <2>5, <4>2, AfterPush
        <5>2. QED
          BY <1>0, <2>5, <3>1, <5>1, AfterPush
      <4>3. QED
        BY <4>1, <4>2
    <3>3. QED
      BY <3>2
  <2>6. QED
    BY <2>2, <2>4, <2>5, CallQueues
<1>5. QED
  BY <1>3, <1>4 DEF LaunchInv

\* A worker runs a job that has been launched.
LEMMA LaunchWork ==
  ASSUME ProgramAssumption, TypeInv, LaunchInv, (\E s \in Stream : Work(s)) \/ Spurious
  PROVE  LaunchInv'
<1>0. TypeOK
  BY DEF TypeInv
<1>1. plan' = plan /\ (SameQueues \/ \E s \in Stream : Popped(s))
  BY <1>0, WorkQueues
<1>2. ASSUME NEW j \in Job, NEW h \in Host, NEW n \in 1..Len(plan[h]), Launches(plan[h][n], j)
      PROVE  j \notin ran' /\ \A s \in Stream : \A m \in 1..Len(Queue(s))' : Queue(s)'[m] # RunOf(j)
  <2>1. j \notin ran /\ \A s \in Stream : \A m \in 1..Len(Queue(s)) : Queue(s)[m] # RunOf(j)
    BY <1>2 DEF LaunchInv
  <2>2. CASE SameQueues
    <3>1. ran' = ran /\ \A s \in Stream : Queue(s)' = Queue(s) /\ Len(Queue(s))' = Len(Queue(s))
      BY <2>2 DEF SameQueues
    <3>2. QED
      BY <2>1, <3>1
  <2>3. ASSUME NEW r \in Stream, Popped(r)
        PROVE  j \notin ran' /\ \A s \in Stream : \A m \in 1..Len(Queue(s))' : Queue(s)'[m] # RunOf(j)
    <3>1. /\ Len(Queue(r)) \in Nat \ {0} /\ Len(Queue(r))' = Len(Queue(r)) - 1
          /\ \A m \in 1..Len(Queue(r))' : Queue(r)'[m] = Queue(r)[m + 1]
      BY <1>0, <2>3, AfterPop
    <3>2. Queue(r)[1] # RunOf(j)
      BY <2>1, <3>1
    <3>3. j \notin ran'
      <4>1. CASE RunsTask(r)
        BY <2>1, <3>2, <4>1 DEF RunsTask
      <4>2. CASE ran' = ran
        BY <2>1, <4>2
      <4>3. QED
        BY <2>3, <4>1, <4>2 DEF Popped, PassesWait, Completes
    <3>4. ASSUME NEW s \in Stream, NEW m \in 1..Len(Queue(s))' PROVE Queue(s)'[m] # RunOf(j)
      <4>1. CASE s = r
        <5>1. m + 1 \in 1..Len(Queue(r)) /\ Queue(s)'[m] = Queue(r)[m + 1]
          BY <3>1, <4>1
        <5>2. QED
          BY <2>1, <5>1
      <4>2. CASE s # r
        <5>1. Queue(s)' = Queue(s) /\ Len(Queue(s))' = Len(Queue(s))
          BY <2>3, <4>2 DEF Popped
        <5>2. QED
          BY <2>1, <5>1
      <4>3. QED
        BY <4>1, <4>2
    <3>5. QED
      BY <3>3, <3>4
  <2>4. QED
    BY <1>1, <2>2, <2>3
<1>3. QED
  BY <1>1, <1>2 DEF LaunchInv

-------------------------------------------------------------------------------
(* The order of the jobs *)

\* What a task comes after is still done or in front of it when the tasks in front stay, and an
\* event is recorded anew only when what its last record covers has run.
LEMMA PastKept ==
  ASSUME NEW s \in Stream, NEW n \in Int, ran \subseteq ran',
         \A m \in 1..n - 1 : Queue(s)'[m] = Queue(s)[m],
         \A e \in AnyEvent : covers'[e] = covers[e] \/ covers[e] \subseteq ran
  PROVE  Past(s, n) \subseteq Past(s, n)'
<1> SUFFICES ASSUME NEW j \in Past(s, n) PROVE j \in Past(s, n)'
  OBVIOUS
<1>1. CASE j \in ran
  BY <1>1 DEF Past
<1>2. CASE j \in Job /\ \E m \in 1..n - 1 : Queue(s)[m] = RunOf(j)
  BY <1>2 DEF Past
<1>3. ASSUME j \in Job, NEW m \in 1..n - 1, NEW e \in AnyEvent, Queue(s)[m] = WaitOf(e), j \in covers[e]
      PROVE  j \in Past(s, n)'
  <2>1. CASE j \in ran
    BY <2>1 DEF Past
  <2>2. CASE j \in covers'[e]
    BY <1>3, <2>2 DEF Past
  <2>3. QED
    BY <1>3, <2>1, <2>2
<1>4. QED
  BY <1>1, <1>2, <1>3 DEF Past

\* When the first task of a stream is done, what it comes after and itself are done.
LEMMA PastPopped ==
  ASSUME TypeOK, NEW s \in Stream, Popped(s), covers' = covers,
         \A e \in AnyEvent : completed[e] => covers[e] \subseteq ran,
         NEW n \in 1..Len(Queue(s))' + 1
  PROVE  Past(s, n + 1) \subseteq Past(s, n)'
<1>1. /\ Len(Queue(s)) \in Nat \ {0} /\ Len(Queue(s))' = Len(Queue(s)) - 1
      /\ \A m \in 1..Len(Queue(s))' : Queue(s)'[m] = Queue(s)[m + 1]
  BY AfterPop
<1>2. ran \subseteq ran'
  BY DEF Popped, RunsTask, PassesWait, Completes
<1>3. ASSUME NEW m \in 1..(n + 1) - 1, m # 1
      PROVE  m - 1 \in 1..n - 1 /\ Queue(s)'[m - 1] = Queue(s)[m]
  <2>1. m - 1 \in 1..n - 1 /\ m - 1 \in 1..Len(Queue(s))' /\ (m - 1) + 1 = m
    BY <1>1, <1>3
  <2>2. QED
    BY <1>1, <2>1
<1> SUFFICES ASSUME NEW j \in Past(s, n + 1) PROVE j \in Past(s, n)'
  OBVIOUS
<1>4. CASE j \in ran
  BY <1>2, <1>4 DEF Past
<1>5. ASSUME j \in Job, NEW m \in 1..(n + 1) - 1, Queue(s)[m] = RunOf(j)
      PROVE  j \in Past(s, n)'
  <2>1. CASE m = 1
    <3>1. RunsTask(s)
      BY <1>5, <2>1 DEF Popped, PassesWait, Completes, RunOf, WaitOf, RecordOf
    <3>2. j \in ran'
      BY <1>5, <2>1, <3>1 DEF RunsTask, RunOf
    <3>3. QED
      BY <3>2 DEF Past
  <2>2. CASE m # 1
    BY <1>3, <1>5, <2>2 DEF Past
  <2>3. QED
    BY <2>1, <2>2
<1>6. ASSUME j \in Job, NEW m \in 1..(n + 1) - 1, NEW e \in AnyEvent,
             Queue(s)[m] = WaitOf(e), j \in covers[e]
      PROVE  j \in Past(s, n)'
  <2>1. CASE m = 1
    <3>1. PassesWait(s)
      BY <1>6, <2>1 DEF Popped, RunsTask, Completes, RunOf, WaitOf, RecordOf
    <3>2. completed[e]
      BY <1>6, <2>1, <3>1 DEF PassesWait, WaitOf
    <3>3. QED
      BY <1>2, <1>6, <3>2 DEF Past
  <2>2. CASE m # 1
    BY <1>3, <1>6, <2>2 DEF Past
  <2>3. QED
    BY <2>1, <2>2
<1>7. QED
  BY <1>4, <1>5, <1>6 DEF Past

\* Nothing comes before the first task but what has run.
LEMMA PastFirst ==
  ASSUME NEW s \in Stream
  PROVE  Past(s, 1) = ran
<1>1. ~\E m \in 1..1 - 1 : TRUE
  OBVIOUS
<1>2. QED
  BY <1>1 DEF Past

\* The workers keep the order.
LEMMA OrderWork ==
  ASSUME ProgramAssumption, TypeInv, OrderInv, (\E s \in Stream : Work(s)) \/ Spurious
  PROVE  OrderInv'
<1>0. TypeOK /\ completed \in [AnyEvent -> BOOLEAN]
  BY DEF TypeInv, TypeOK
<1>1. /\ UNCHANGED <<before, covers, needs>>
      /\ SameQueues \/ \E s \in Stream : Popped(s)
  BY <1>0, WorkQueues DEF historyVars
<1>2. CASE SameQueues
  <2>1. /\ \A s \in Stream : Queue(s)' = Queue(s) /\ Len(Queue(s))' = Len(Queue(s))
        /\ ran' = ran /\ completed' = completed
    BY <1>2 DEF SameQueues
  <2>2. \A s \in Stream, n \in Int : Past(s, n) \subseteq Past(s, n)'
    BY <1>1, <2>1, PastKept
  <2>3. \A s \in Stream : Len(Queue(s)) \in Nat
    BY <1>0, QueueTask, LenProperties
  <2>4. QED
    BY <1>1, <2>1, <2>2, <2>3 DEF OrderInv
<1>3. ASSUME NEW s \in Stream, Popped(s) PROVE OrderInv'
  <2>1. /\ Len(Queue(s)) \in Nat \ {0} /\ Len(Queue(s))' = Len(Queue(s)) - 1
        /\ \A n \in 1..Len(Queue(s))' : Queue(s)'[n] = Queue(s)[n + 1]
    BY <1>0, <1>3, AfterPop
  <2>2. \A r \in Stream : r # s => Queue(r)' = Queue(r) /\ Len(Queue(r))' = Len(Queue(r))
    BY <1>3 DEF Popped
  <2>3. ran \subseteq ran'
    BY <1>3 DEF Popped, RunsTask, PassesWait, Completes
  <2>4. 1 \in 1..Len(Queue(s)) /\ Past(s, 1) = ran
    BY <2>1, PastFirst
  <2>5. \A e \in AnyEvent : completed'[e] => covers'[e] \subseteq ran'
    <3>1. ASSUME NEW e \in AnyEvent, completed'[e] PROVE completed[e] \/ Queue(s)[1] = RecordOf(e)
      BY <1>0, <1>3, <3>1 DEF Popped, RunsTask, PassesWait, Completes
    <3>2. QED
      BY <1>1, <2>3, <2>4, <3>1 DEF OrderInv
  <2>6. \A j \in ran' : needs'[j] \subseteq ran'
    <3>1. ASSUME NEW j \in ran' PROVE j \in ran \/ (j \in Job /\ Queue(s)[1] = RunOf(j))
      BY <1>3 DEF Popped, RunsTask, PassesWait, Completes
    <3>2. QED
      BY <1>1, <2>3, <2>4, <3>1 DEF OrderInv
  <2>7. ASSUME NEW r \in Stream, r # s
        PROVE  /\ before'[r] \subseteq Past(r, Len(Queue(r)) + 1)'
               /\ \A n \in 1..Len(Queue(r))' :
                    /\ \A e \in AnyEvent : Queue(r)'[n] = RecordOf(e) => covers'[e] \subseteq Past(r, n)'
                    /\ \A j \in Job : Queue(r)'[n] = RunOf(j) => needs'[j] \subseteq Past(r, n)'
    <3>1. Len(Queue(r)) \in Nat
      BY <1>0, QueueTask, LenProperties
    <3>2. \A n \in Int : Past(r, n) \subseteq Past(r, n)'
      BY <1>1, <2>2, <2>3, <2>7, PastKept
    <3>3. before[r] \subseteq Past(r, Len(Queue(r)) + 1)
      BY DEF OrderInv
    <3>4. PICK u \in Int : u = Len(Queue(r)) + 1
      BY <3>1
    <3>5. u = (Len(Queue(r)) + 1)'
      BY <2>2, <2>7, <3>4
    <3>6. before'[r] \subseteq Past(r, Len(Queue(r)) + 1)'
      BY <1>1, <3>2, <3>3, <3>4, <3>5
    <3>7. QED
      BY <1>1, <2>2, <2>7, <3>2, <3>6 DEF OrderInv
  <2>8. /\ before'[s] \subseteq Past(s, Len(Queue(s)) + 1)'
        /\ \A n \in 1..Len(Queue(s))' :
             /\ \A e \in AnyEvent : Queue(s)'[n] = RecordOf(e) => covers'[e] \subseteq Past(s, n)'
             /\ \A j \in Job : Queue(s)'[n] = RunOf(j) => needs'[j] \subseteq Past(s, n)'
    <3>1. \A n \in 1..Len(Queue(s))' + 1 : Past(s, n + 1) \subseteq Past(s, n)'
      BY <1>0, <1>1, <1>3, PastPopped DEF OrderInv
    <3>2. before[s] \subseteq Past(s, Len(Queue(s)) + 1)
      BY DEF OrderInv
    <3>3. PICK u \in 1..Len(Queue(s))' + 1 : u = Len(Queue(s))
      BY <2>1
    <3>4. u = (Len(Queue(s)) + 1)'
      BY <2>1, <3>3
    <3>5. before'[s] \subseteq Past(s, Len(Queue(s)) + 1)'
      BY <1>1, <3>1, <3>2, <3>3, <3>4
    <3>6. ASSUME NEW n \in 1..Len(Queue(s))'
          PROVE  /\ \A e \in AnyEvent : Queue(s)'[n] = RecordOf(e) => covers'[e] \subseteq Past(s, n)'
                 /\ \A j \in Job : Queue(s)'[n] = RunOf(j) => needs'[j] \subseteq Past(s, n)'
      <4>1. n + 1 \in 1..Len(Queue(s)) /\ Queue(s)'[n] = Queue(s)[n + 1] /\ n \in 1..Len(Queue(s))' + 1
        BY <2>1
      <4>2. Past(s, n + 1) \subseteq Past(s, n)'
        BY <3>1, <4>1
      <4>3. QED
        BY <1>1, <4>1, <4>2 DEF OrderInv
    <3>7. QED
      BY <3>5, <3>6
  <2>9. QED
    BY <2>5, <2>6, <2>7, <2>8 DEF OrderInv
<1>4. QED
  BY <1>1, <1>2, <1>3

\* What a push records of the order
LEMMA NoteFacts ==
  ASSUME TypeOK, NEW h \in Host, NEW s \in Stream, NEW t \in Task, Pushed(h, s, t)
  PROVE  /\ \A e \in AnyEvent : covers'[e] = IF t = RecordOf(e) THEN before[s] ELSE covers[e]
         /\ \A j \in Job : needs'[j] = IF t = RunOf(j) THEN before[s] ELSE needs[j]
         /\ \A r \in Stream : r # s => before'[r] = before[r]
         /\ \A j \in before'[s] : \/ j \in before[s] \/ (j \in Job /\ t = RunOf(j))
                                  \/ \E e \in AnyEvent : t = WaitOf(e) /\ j \in covers[e]
<1>0. /\ before \in [Stream -> SUBSET Job] /\ covers \in [AnyEvent -> SUBSET Job]
      /\ needs \in [Job -> SUBSET Job]
  BY DEF TypeOK
<1>1. Note(s, t)
  BY DEF Pushed
<1>2. CASE t[1] = "run"
  <2>1. PICK j \in Job : t = RunOf(j)
    BY <1>2, TaskFacts DEF RunOf
  <2>2. /\ covers' = covers /\ needs' = [needs EXCEPT ![j] = before[s]]
        /\ before' = [before EXCEPT ![s] = @ \cup {j}]
    BY <1>1, <2>1 DEF Note, RunOf
  <2>3. /\ \A e \in AnyEvent : t # RecordOf(e) /\ t # WaitOf(e)
        /\ \A i \in Job : t = RunOf(i) <=> i = j
    BY <2>1 DEF RunOf, RecordOf, WaitOf
  <2>4. QED
    BY <1>0, <2>1, <2>2, <2>3
<1>3. CASE t[1] = "wait"
  <2>1. PICK e \in AnyEvent : t = WaitOf(e)
    BY <1>3, TaskFacts DEF WaitOf
  <2>2. /\ covers' = covers /\ needs' = needs
        /\ before' = [before EXCEPT ![s] = @ \cup covers[e]]
    BY <1>1, <2>1 DEF Note, WaitOf
  <2>3. (\A f \in AnyEvent : t # RecordOf(f)) /\ (\A i \in Job : t # RunOf(i))
    BY <2>1 DEF RunOf, RecordOf, WaitOf
  <2>4. QED
    BY <1>0, <2>1, <2>2, <2>3
<1>4. CASE t[1] = "record"
  <2>1. PICK e \in AnyEvent : t = RecordOf(e)
    BY <1>4, TaskFacts DEF RecordOf
  <2>2. /\ covers' = [covers EXCEPT ![e] = before[s]] /\ needs' = needs
        /\ before' = [before EXCEPT ![s] = @ \cup {}]
    BY <1>1, <2>1 DEF Note, RecordOf
  <2>3. (\A f \in AnyEvent : t = RecordOf(f) <=> f = e) /\ (\A i \in Job : t # RunOf(i))
    BY <2>1 DEF RunOf, RecordOf
  <2>4. QED
    BY <1>0, <2>1, <2>2, <2>3
<1>5. QED
  BY <1>2, <1>3, <1>4, TaskFacts

\* A call keeps the order: what it pushes goes behind all that it has to come after.
LEMMA OrderCall ==
  ASSUME ProgramAssumption, TypeInv, FlowInv, NEW h \in Host, Call(h), NEW b \in Nat, Moves(h, b)
  PROVE  OrderInv'
<1>0. /\ TypeOK /\ 1 \in 1..Len(plan[h]) /\ ClearInv /\ LaunchInv /\ OrderInv
      /\ before \in [Stream -> SUBSET Job] /\ covers \in [AnyEvent -> SUBSET Job]
  BY MovesFacts DEF TypeInv, FlowInv, EventInv, TypeOK
<1>1. \A s \in Stream : Len(Queue(s)) \in Nat
  BY <1>0, QueueTask, LenProperties
<1>2. ran' = ran /\ \A e \in AnyEvent : completed'[e] => completed[e]
  BY <1>0, CallQueues, FlagStep
<1>3. CASE Quiet(h)
  <2>1. /\ \A s \in Stream : Queue(s)' = Queue(s) /\ Len(Queue(s))' = Len(Queue(s))
        /\ UNCHANGED <<before, covers, needs>>
    BY <1>3 DEF Quiet
  <2>2. \A s \in Stream, n \in Int : Past(s, n) \subseteq Past(s, n)'
    BY <1>2, <2>1, PastKept
  <2>3. QED
    BY <1>0, <1>1, <1>2, <2>1, <2>2 DEF OrderInv
<1>4. ASSUME NEW s \in Stream, NEW t \in Task, Pushed(h, s, t) PROVE OrderInv'
  <2>1. plan[h][1][1] = "push" /\ plan[h][1][3] = t /\ completed' = completed
    BY <1>4 DEF Pushed
  <2>2. ASSUME NEW e \in AnyEvent, t = RecordOf(e) PROVE Armed(e)
    BY <1>0, <2>1, <2>2 DEF ClearInv
  <2>3. ASSUME NEW j \in Job, t = RunOf(j)
        PROVE  j \notin ran /\ \A r \in Stream : \A m \in 1..Len(Queue(r)) : Queue(r)[m] # RunOf(j)
    BY <1>0, <2>1, <2>3 DEF LaunchInv, Launches
  <2>4. /\ \A e \in AnyEvent : covers'[e] = IF t = RecordOf(e) THEN before[s] ELSE covers[e]
        /\ \A j \in Job : needs'[j] = IF t = RunOf(j) THEN before[s] ELSE needs[j]
        /\ \A r \in Stream : r # s => before'[r] = before[r]
        /\ \A j \in before'[s] : \/ j \in before[s] \/ (j \in Job /\ t = RunOf(j))
                                 \/ \E e \in AnyEvent : t = WaitOf(e) /\ j \in covers[e]
    BY <1>0, <1>4, NoteFacts
  <2>5. ASSUME NEW r \in Stream, NEW n \in 1..Len(Queue(r)) + 1 PROVE Past(r, n) \subseteq Past(r, n)'
    <3>1. \A m \in 1..n - 1 : Queue(r)'[m] = Queue(r)[m]
      <4>1. \A m \in 1..n - 1 : m \in 1..Len(Queue(r))
        BY <1>1
      <4>2. QED
        BY <1>0, <1>4, <4>1, AfterPush
    <3>2. \A e \in AnyEvent : covers'[e] = covers[e] \/ covers[e] \subseteq ran
      BY <2>2, <2>4 DEF Armed
    <3>3. n \in Int /\ ran \subseteq ran'
      BY <1>2
    <3>4. QED
      BY <3>1, <3>2, <3>3, PastKept
  <2>6. \A e \in AnyEvent : completed'[e] => covers'[e] \subseteq ran'
    BY <1>0, <1>2, <2>1, <2>2, <2>4 DEF OrderInv, Armed
  <2>7. \A j \in ran' : needs'[j] \subseteq ran'
    <3>1. ran \subseteq Job
      BY <1>0 DEF TypeOK
    <3>2. QED
      BY <1>0, <1>2, <2>3, <2>4, <3>1 DEF OrderInv
  <2>8. ASSUME NEW r \in Stream, NEW n \in 1..Len(Queue(r))
        PROVE  /\ \A e \in AnyEvent : Queue(r)'[n] = RecordOf(e) => covers'[e] \subseteq Past(r, n)'
               /\ \A j \in Job : Queue(r)'[n] = RunOf(j) => needs'[j] \subseteq Past(r, n)'
    <3>1. Queue(r)'[n] = Queue(r)[n] /\ n \in 1..Len(Queue(r)) + 1
      BY <1>0, <1>1, <1>4, AfterPush
    <3>2. ASSUME NEW e \in AnyEvent, Queue(r)[n] = RecordOf(e) PROVE covers'[e] \subseteq Past(r, n)'
      <4>1. covers'[e] = covers[e]
        BY <2>2, <2>4, <3>2 DEF Armed
      <4>2. QED
        BY <1>0, <2>5, <3>1, <3>2, <4>1 DEF OrderInv
    <3>3. ASSUME NEW j \in Job, Queue(r)[n] = RunOf(j) PROVE needs'[j] \subseteq Past(r, n)'
      <4>1. needs'[j] = needs[j]
        BY <2>3, <2>4, <3>3
      <4>2. QED
        BY <1>0, <2>5, <3>1, <3>3, <4>1 DEF OrderInv
    <3>4. QED
      BY <3>1, <3>2, <3>3
  <2>9. ASSUME NEW r \in Stream PROVE before[r] \subseteq Past(r, Len(Queue(r)) + 1)'
    <3>1. PICK u \in 1..Len(Queue(r)) + 1 : u = Len(Queue(r)) + 1
      BY <1>1
    <3>2. Past(r, u) \subseteq Past(r, u)' /\ before[r] \subseteq Past(r, u)
      BY <1>0, <2>5, <3>1 DEF OrderInv
    <3>3. Past(r, u)' \subseteq Past(r, Len(Queue(r)) + 1)'
      <4>1. PICK v \in Int : v = (Len(Queue(r)) + 1)'
        BY <1>0, <1>4, AfterPush
      <4>2. u <= v
        BY <1>0, <1>4, <3>1, <4>1, AfterPush
      <4>3. \A m \in 1..u - 1 : m \in 1..v - 1
        BY <4>1, <4>2
      <4>4. Past(r, u)' \subseteq Past(r, v)'
        BY <4>3 DEF Past
      <4>5. QED
        BY <4>1, <4>4
    <3>4. QED
      BY <3>2, <3>3
  <2>10. before'[s] \subseteq Past(s, Len(Queue(s)) + 1)'
    <3>1. PICK u \in Int : u = Len(Queue(s)) + 1
      BY <1>1
    <3>2. PICK v \in Int : v = (Len(Queue(s)) + 1)'
      BY <1>0, <1>4, AfterPush
    <3>3. u \in 1..v - 1 /\ Queue(s)'[u] = t
      BY <1>0, <1>1, <1>4, <3>1, <3>2, AfterPush
    <3>4. ASSUME NEW j \in Job, t = RunOf(j) PROVE j \in Past(s, v)'
      BY <3>3, <3>4 DEF Past
    <3>5. ASSUME NEW e \in AnyEvent, t = WaitOf(e), NEW j \in covers[e] PROVE j \in Past(s, v)'
      <4>1. covers'[e] = covers[e] /\ j \in Job
        BY <1>0, <2>4, <3>5 DEF WaitOf, RecordOf
      <4>2. QED
        BY <3>3, <3>5, <4>1 DEF Past
    <3>6. before[s] \subseteq Past(s, v)'
      BY <2>9, <3>2
    <3>7. before'[s] \subseteq Past(s, v)'
      BY <2>4, <3>4, <3>5, <3>6
    <3>8. QED
      BY <3>2, <3>7
  <2>11. ASSUME NEW n \in 1..Len(Queue(s))', n \notin 1..Len(Queue(s))
         PROVE  /\ \A e \in AnyEvent : Queue(s)'[n] = RecordOf(e) => covers'[e] \subseteq Past(s, n)'
                /\ \A j \in Job : Queue(s)'[n] = RunOf(j) => needs'[j] \subseteq Past(s, n)'
    <3>1. n = Len(Queue(s)) + 1 /\ Queue(s)'[n] = t /\ n \in 1..Len(Queue(s)) + 1
      BY <1>0, <1>1, <1>4, <2>11, AfterPush
    <3>2. before[s] \subseteq Past(s, n)'
      BY <1>0, <2>5, <3>1 DEF OrderInv
    <3>3. QED
      BY <2>4, <3>1, <3>2
  <2>12. ASSUME NEW r \in Stream, NEW n \in 1..Len(Queue(r))'
         PROVE  /\ \A e \in AnyEvent : Queue(r)'[n] = RecordOf(e) => covers'[e] \subseteq Past(r, n)'
                /\ \A j \in Job : Queue(r)'[n] = RunOf(j) => needs'[j] \subseteq Past(r, n)'
    <3>1. CASE n \in 1..Len(Queue(r))
      BY <2>8, <3>1
    <3>2. CASE n \notin 1..Len(Queue(r))
      <4>1. r = s
        BY <1>0, <1>4, <3>2, AfterPush
      <4>2. QED
        BY <2>11, <3>2, <4>1
    <3>3. QED
      BY <3>1, <3>2
  <2>13. ASSUME NEW r \in Stream PROVE before'[r] \subseteq Past(r, Len(Queue(r)) + 1)'
    <3>1. CASE r = s
      BY <2>10, <3>1
    <3>2. CASE r # s
      BY <2>4, <2>9, <3>2
    <3>3. QED
      BY <3>1, <3>2
  <2>14. QED
    BY <2>6, <2>7, <2>12, <2>13 DEF OrderInv
<1>5. QED
  BY <1>3, <1>4, CallQueues

\* The start: nothing is queued, every event is completed and covers nothing.
LEMMA FlowInitial ==
  ASSUME ProgramAssumption, EventDiscipline, LaunchDiscipline, Init
  PROVE  FlowInv
<1>1. /\ OwnsEvents(plan) /\ (\A h \in Host : ClearsFirst(plan[h]) /\ AwaitsBetween(plan[h], h))
      /\ LaunchesOnce(plan)
  BY DEF Init, EventDiscipline, LaunchDiscipline
<1>2. \A s \in Stream : Queue(s) = <<>>
  BY DEF Init, Queue
<1>3. /\ \A e \in AnyEvent : completed[e] /\ covers[e] = {}
      /\ ran = {} /\ \A s \in Stream : before[s] = {}
  BY DEF Init
<1>4. ClearInv
  BY <1>1 DEF ClearsFirst, ClearInv
<1>5. OpenInv
  BY <1>3 DEF OpenInv
<1>6. \A s \in Stream : ~\E n \in 1..Len(Queue(s)) : TRUE
  BY <1>2
<1>7. RecordInv
  BY <1>6 DEF RecordInv
<1>8. EventInv
  BY <1>1, <1>4, <1>5, <1>7 DEF EventInv, AwaitsInv
<1>9. LaunchInv
  BY <1>1, <1>3, <1>6 DEF LaunchInv
<1>10. OrderInv
  BY <1>3, <1>6 DEF OrderInv
<1>11. QED
  BY <1>8, <1>9, <1>10 DEF FlowInv

\* Events, launches and their order, one step further.
LEMMA FlowStep ==
  ASSUME ProgramAssumption, TypeInv, FlowInv, [Next]_vars
  PROVE  FlowInv'
<1>0. TypeOK
  BY DEF TypeInv
<1>1. ASSUME UNCHANGED <<plan, worker, task, tasks, completed, ran, before, covers, needs>>
      PROVE  FlowInv'
  <2>1. \A s \in Stream : Queue(s)' = Queue(s) /\ Len(Queue(s))' = Len(Queue(s))
    BY <1>1 DEF Queue
  <2>2. \A e \in AnyEvent : Armed(e) => Armed(e)'
    BY <1>1, <2>1 DEF Armed
  <2>3. OwnsEvents(plan') /\ AwaitsInv'
    BY <1>1 DEF FlowInv, EventInv, AwaitsInv
  <2>4. ClearInv' /\ OpenInv'
    BY <1>1, <2>2 DEF FlowInv, EventInv, ClearInv, OpenInv
  <2>5. RecordInv'
    BY <1>1, <2>1 DEF FlowInv, EventInv, RecordInv
  <2>6. LaunchInv'
    BY <1>1, <2>1 DEF FlowInv, LaunchInv
  <2>7. \A s \in Stream, n \in Int : Past(s, n) \subseteq Past(s, n)'
    BY <1>1, <2>1, PastKept
  <2>8. \A s \in Stream : Len(Queue(s)) \in Nat
    BY <1>0, QueueTask, LenProperties
  <2>9. OrderInv'
    BY <1>1, <2>1, <2>7, <2>8 DEF FlowInv, OrderInv
  <2>10. QED
    BY <2>3, <2>4, <2>5, <2>6, <2>9 DEF FlowInv, EventInv
<1>2. ASSUME NEW h \in Host, Call(h) PROVE FlowInv'
  <2>1. ASSUME NEW b \in Nat, Moves(h, b) PROVE FlowInv'
    <3>1. OwnsEvents(plan') /\ AwaitsInv'
      BY <1>0, <2>1, OwnsEventsStep, AwaitsStep DEF FlowInv, EventInv
    <3>2. OpenInv'
      BY <1>2, <2>1, OpenStep DEF FlowInv, EventInv
    <3>3. ClearInv'
      BY <1>2, <2>1, ClearStep DEF FlowInv, OrderInv
    <3>4. RecordInv'
      BY <1>2, <2>1, RecordStep DEF FlowInv, EventInv
    <3>5. LaunchInv'
      BY <1>2, <2>1, LaunchStep DEF FlowInv
    <3>6. OrderInv'
      BY <1>2, <2>1, OrderCall
    <3>7. QED
      BY <3>1, <3>2, <3>3, <3>4, <3>5, <3>6 DEF FlowInv, EventInv
  <2>2. CASE UNCHANGED plan /\ Await(h) /\ ~completed[On(h)]
    BY <1>1, <2>2 DEF Await, threadVars, queueVars
  <2>3. QED
    BY <1>0, <1>2, <2>1, <2>2, CallShape
<1>3. ASSUME (\E s \in Stream : Work(s)) \/ Spurious PROVE FlowInv'
  BY <1>3, EventWork, LaunchWork, OrderWork DEF FlowInv
<1>4. QED
  BY <1>1, <1>2, <1>3 DEF Next, Finished, vars, hostVars, threadVars, queueVars, historyVars

\* For callers that own the events they record and wait before they record again, and a launch
\* for each job: the flag of an event tells of its latest record, and whatever a task of a stream
\* comes after has run or is in front of it, in its stream or behind an event that is waited for.
THEOREM OrderCorrect == Spec /\ EventDiscipline /\ LaunchDiscipline => [](TypeInv /\ FlowInv)
<1>1. EventDiscipline /\ LaunchDiscipline /\ Init => FlowInv
  BY StreamPrograms, FlowInitial
<1>2. TypeInv /\ FlowInv /\ [Next]_vars => FlowInv'
  BY StreamPrograms, FlowStep
<1>3. QED
  BY <1>1, <1>2, TypesHold, PTL DEF Spec

\* A worker that raises the flag of an event is at a record.
HandInv == \A s \in Stream : worker[s] = "tell" => Has(s, "record")

\* It stays there until it has raised the flag.
LEMMA HandStep ==
  ASSUME ProgramAssumption, TypeInv, HandInv, [Next]_vars
  PROVE  HandInv'
<1>0. worker \in [Stream -> WorkerState] /\ task \in [Stream -> Task \cup {None}] /\ TypeOK
  BY DEF TypeInv, TypeOK
<1> SUFFICES ASSUME NEW s \in Stream, worker'[s] = "tell" PROVE Has(s, "record")'
  BY DEF HandInv
<1>1. ASSUME worker[s] = "tell", task'[s] = task[s] PROVE Has(s, "record")'
  BY <1>1 DEF HandInv, Has
<1>2. CASE UNCHANGED <<worker, task>>
  BY <1>1, <1>2
<1>3. ASSUME NEW h \in Host, Call(h) PROVE Has(s, "record")'
  <2>1. task' = task
    BY <1>3 DEF Call, Create, Push, Notify, Clear, Await, Collect, Each, Unregister, RaiseStop, Join, threadVars
  <2>2. worker[s] = "tell"
    <3>1. CASE Create(h) \/ Notify(h) \/ Join(h)
      BY <1>0, <3>1 DEF Create, Notify, Join
    <3>2. CASE Push(h) \/ Clear(h) \/ Await(h) \/ Collect(h) \/ Each(h) \/ Unregister(h) \/ RaiseStop(h)
      BY <3>2 DEF Push, Clear, Await, Collect, Each, Unregister, RaiseStop, threadVars
    <3>3. QED
      BY <1>3, <3>1, <3>2 DEF Call
  <2>3. QED
    BY <1>1, <2>1, <2>2
<1>4. ASSUME NEW r \in Stream, Work(r) PROVE Has(s, "record")'
  <2>1. CASE Signal(r)
    <3>1. task' = task /\ Has(r, "record") /\ (r # s => worker'[s] = worker[s])
      BY <1>0, <2>1 DEF Signal, Turn
    <3>2. CASE r = s
      BY <3>1, <3>2 DEF Has
    <3>3. CASE r # s
      BY <1>1, <3>1, <3>3
    <3>4. QED
      BY <3>2, <3>3
  <2>2. CASE Tell(r)
    BY <1>0, <1>1, <2>2 DEF Tell, Hears, Drop
  <2>3. CASE Take(r) \/ RunJob(r) \/ PassWait(r)
    BY <1>0, <1>1, <2>3 DEF Take, RunJob, PassWait, Turn, Drop
  <2>4. CASE Leave(r) \/ Doze(r) \/ Sleep(r) \/ Block(r)
    BY <1>0, <1>1, <2>4 DEF Leave, Doze, Sleep, Block, Turn
  <2>5. QED
    BY <1>4, <2>1, <2>2, <2>3, <2>4 DEF Work
<1>5. CASE Spurious
  BY <1>0, <1>1, <1>5 DEF Spurious, Turn
<1>6. QED
  BY <1>2, <1>3, <1>4, <1>5 DEF Next, Finished, vars, threadVars

\* A job starts after the jobs it has to come after: those in front of it in its stream, and those
\* in front of an event that is waited for in front of it.
THEOREM HappensBeforeHolds == Spec /\ EventDiscipline /\ LaunchDiscipline => []HappensBefore
<1>1. Init => HandInv
  BY DEF Init, HandInv
<1>2. TypeInv /\ HandInv /\ [Next]_vars => HandInv'
  BY StreamPrograms, HandStep
<1>3. TypeInv /\ FlowInv /\ HandInv => HappensBefore
  <2> SUFFICES ASSUME TypeInv, FlowInv, HandInv, NEW j \in Started PROVE needs[j] \subseteq ran
    BY DEF HappensBefore
  <2>0. TypeOK /\ OrderInv /\ ProgramAssumption
    BY StreamPrograms DEF TypeInv, FlowInv
  <2>1. CASE j \in ran
    BY <2>0, <2>1 DEF OrderInv
  <2>2. ASSUME NEW s \in Stream, Has(s, "run"), j = task[s][2] PROVE needs[j] \subseteq ran
    <3>1. task[s] = RunOf(j) /\ j \in Job
      BY <2>0, <2>2, HasFacts
    <3>2. worker[s] \in {"busy", "blocked"}
      <4>1. worker[s] \in {"busy", "blocked", "tell"}
        BY <2>0, <2>2 DEF TypeOK, Has
      <4>2. ~Has(s, "record")
        BY <2>2 DEF Has
      <4>3. QED
        BY <4>1, <4>2 DEF HandInv
    <3>3. Queue(s) # <<>> /\ Queue(s)[1] = RunOf(j) /\ Queue(s) \in Seq(Task)
      BY <2>0, <3>1, <3>2, QueueFacts
    <3>4. 1 \in 1..Len(Queue(s))
      BY <3>3, EmptySeq, LenProperties
    <3>5. QED
      BY <2>0, <3>1, <3>3, <3>4, PastFirst DEF OrderInv
  <2>3. QED
    BY <2>1, <2>2 DEF Started
<1>4. QED
  BY <1>1, <1>2, <1>3, OrderCorrect, TypesHold, PTL DEF Spec

\* A thread that synchronizes has the jobs it waits for behind it.
LEMMA KnownStep ==
  ASSUME ProgramAssumption, TypeInv, StreamInv, OrderInv, SyncMeansDone, [Next]_vars
  PROVE  SyncMeansDone'
<1>0. /\ TypeOK /\ known \in [Host -> SUBSET Job] /\ plan \in [Host -> Seq(Step)]
      /\ tasks \in [Stream -> Seq(Task)]
  BY DEF TypeInv, TypeOK
<1>1. ASSUME known' = known, ran \subseteq ran' PROVE SyncMeansDone'
  BY <1>1 DEF SyncMeansDone
<1>2. ASSUME NEW h \in Host, Call(h) PROVE SyncMeansDone'
  <2>1. ran' = ran
    BY <1>2 DEF Call, Create, Push, Notify, Clear, Await, Collect, Each, Unregister, RaiseStop, Join
  <2>2. CASE known' = known
    BY <1>1, <2>1, <2>2
  <2>3. CASE Await(h) /\ completed[On(h)]
    <3>1. plan[h] # <<>> /\ Next1(h)[1] = "await"
      BY <2>3 DEF Await, Does
    <3>2. On(h) \in AnyEvent
      BY <1>0, <3>1, HeadFacts, StepFacts
    <3>3. known' = [known EXCEPT ![h] = @ \cup covers[On(h)]] /\ covers[On(h)] \subseteq ran
      BY <2>3, <3>2 DEF Await, OrderInv
    <3>4. QED
      BY <1>0, <2>1, <3>3 DEF SyncMeansDone
  <2>4. CASE Join(h)
    <3>1. plan[h] # <<>> /\ Next1(h)[1] = "join" /\ worker[On(h)] = "exited"
      BY <2>4 DEF Join, Does
    <3>2. On(h) \in Stream
      BY <1>0, <3>1, HeadFacts, StepFacts DEF Managing
    <3>3. Queue(On(h)) = <<>>
      BY <3>1, <3>2 DEF StreamInv, RegistryInv, Queue
    <3>4. Len(Queue(On(h))) + 1 = 1
      BY <3>3
    <3>5. before[On(h)] \subseteq ran
      BY <3>2, <3>4, PastFirst DEF OrderInv
    <3>6. known' = [known EXCEPT ![h] = @ \cup before[On(h)]]
      BY <2>4 DEF Join
    <3>7. QED
      BY <1>0, <2>1, <3>5, <3>6 DEF SyncMeansDone
  <2>5. QED
    BY <1>2, <2>2, <2>3, <2>4
       DEF Call, Create, Push, Note, Notify, Clear, Await, Collect, Each, Unregister, RaiseStop, historyVars
<1>3. ASSUME (\E s \in Stream : Work(s)) \/ Spurious PROVE SyncMeansDone'
  <2>1. known' = known /\ (SameQueues \/ \E s \in Stream : Popped(s))
    BY <1>0, <1>3, WorkQueues DEF historyVars
  <2>2. ran \subseteq ran'
    BY <2>1 DEF SameQueues, Popped, RunsTask, PassesWait, Completes
  <2>3. QED
    BY <1>1, <2>1, <2>2
<1>4. CASE UNCHANGED vars
  BY <1>1, <1>4 DEF vars, historyVars
<1>5. QED
  BY <1>2, <1>3, <1>4 DEF Next, Finished

\* When orStreamSynchronize, orEventSynchronize, orDeviceSynchronize or orStreamDestroy returns,
\* the jobs the thread waits for have run.
THEOREM SyncMeansDoneHolds ==
  Spec /\ StreamDiscipline /\ EventDiscipline /\ LaunchDiscipline => []SyncMeansDone
<1>1. Init => SyncMeansDone
  BY DEF Init, SyncMeansDone
<1>2. TypeInv /\ StreamInv /\ FlowInv /\ SyncMeansDone /\ [Next]_vars => SyncMeansDone'
  BY StreamPrograms, KnownStep DEF FlowInv
<1>3. QED
  BY <1>1, <1>2, OrderCorrect, StreamsCorrect, PTL DEF Spec
================================================================================
